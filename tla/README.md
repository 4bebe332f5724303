# Verification of the Confer worker image

This directory models the programs of this repository in TLA+, checks the
models with TLC on small instances, and proves theorems about them with TLAPS.
Each definition was written from the source; `PROJECT.json` maps it to the
lines it stands for.

    tlc -workers 4 -config MCConferWorker.cfg MCConferWorker.tla   # one run
    tlapm ConferWorker_proofs.tla                                  # one module of proofs

## 1. The system

The repository builds a VM image that serves one reservation and then powers
off. Its own code is in two parts: the guest scripts and units that run the VM,
and the document worker, a Python program that extracts documents and answers
questions about them.

| component | state it keeps | operations | interacts with |
|---|---|---|---|
| VM configuration (`confer-worker-config`) | files in `/run/confer` | fetch id, generate the host key, publish id, manifest and bundle | publishes files the listener reads; systemd orders the two |
| worker listener (`confer-worker-listener`) | start marker, ready file, listening socket and its queue, cutoff and request deadlines, `authorized_keys`, RTMR3 | claim, bind, accept once, acknowledge, read the request, authorise the key, extend and check RTMR3, quote, send, exec sshd | clients (TCP), TDX register, systemd |
| health responder (`confer-worker-health`) | up to 64 connections, one process each | read a bounded header, test the ready file, answer | reads the listener's ready file |
| units (`confer-worker.service`, `sshd_config`) | unit states, power | start in order, clean up, power off; login of one key | all of the above |
| document relay (`confer-document-session`) | two threads, one socket | copy both ways, half-close, exit status | SSH channel, worker socket |
| worker process (`WorkerProcess`, `ProtocolCodec`) | message in hand with its temporary files, response | read, decode, handle, answer, end | relay (a stream in each direction) |
| document session (`DocumentSession`) | the open readers and their descriptors | open, open_text, overview, search, read, render, release, close | artifact writer, reader, renderer |
| PDF extraction (`PdfExtractor`, `PdfOcrProcessor`) | page ranges, a window of futures, the pages so far | scan in a process pool or alone, rasterise, submit, resolve, shut down | Tesseract processes |
| extractor router and text extractor (`DocumentExtractorRouter`, `TextDocumentExtractor`) | none | choose by media type; decode, parse CSV, split paragraphs and blocks | the session |
| Office extraction (`OfficeArchivePreflight`, `DoclingSlimDocumentExtractor`, `DoclingDocumentMapper`) | a private alias of the file, the images so far | check the archive, run the parser, map its items | Docling |
| page scanning, rasterisation, OCR lines (`PdfPageScanner`, `PageClassifier`, `TableDetector`, `RasterizationPolicy`, `TesseractTsvParser`) | the draft of one page | route the page, find its tables, choose a scale, put recognised lines back | MuPDF, Tesseract |
| artifact writer (`ArtifactWriter`) | canonical text, ranges, chunks, a temporary database | write content, cut chunks, index, compress | the reader, through the file |
| artifact reader (`ArtifactReader`) | a temporary database and an SQLite connection | unpack, windows, search and snippets, outline, labels, regions, metadata | the session |
| error reporter (`WorkerErrorReporter`) | none | the chain of exceptions behind a failure | the worker process, stderr |
| release scripts (`measure-release-image`, `create-release-manifest`), image build | none | compute measurements and manifests | run outside of the VM |

What is hard here: a marker, a register, a key file and a ready file that are
written in steps and have to agree although the listener can be killed between
any two of them; timeouts that race with late clients; health probes that run
beside the listener; full buffers in two directions at once; sessions in which
any message can fail anywhere and the next one must still be answered; a window
of futures that finish in any order; offset arithmetic at the boundaries of
characters, chunks and containers; parsers that return what they like and have
to be turned into content the writer accepts; and an index whose idea of a word
and of a match is not the program's.

What makes each component correct:

- **reservation**: one client per boot, the first to connect; its key only; an
  attestation only of its own reservation; nothing is advertised afterwards;
  a VM that was taken ends in a session or is powered off.
- **configuration, health**: no listener misses a file; a probe is answered
  unless its client drips, and gives its connection back in any case.
- **relay**: both directions are streams, neither blocks the other, and an end
  on one side reaches the other.
- **worker and session**: one answer per message in its order; what is
  registered agrees with what was answered; nothing is left behind.
- **protocol**: the reader stays aligned with the writer whatever the pieces
  are and wherever the stream ends; no payload's file outlives its message; a
  failure is reported once, however its exceptions are linked.
- **PDF**: every page once, at its number, from its own content; a bounded
  number of images; nothing runs after the call; it ends.
- **extraction**: no character of a text gets lost or moved between blocks;
  nothing of a parser's run stays behind; what is built passes the checks of
  `DocumentContent` and of the writer; a region lies on the page and in the
  text it came from.
- **artifacts**: offsets read back; chunks cover, advance and decode; citations
  hold the hit; paging shows everything that fits and comes to an end; only a
  whole database is ever queried.
- **queries**: a search finds what it asks for, says truthfully whether there is
  more, and shows a match in every snippet within its limit.

## 2. The modules

| module | models | composed of |
|---|---|---|
| `WorkerVM` | what the VM's processes share: files, register, power, boot count, history | |
| `WorkerConfig` | `configure_worker`, one action per published file | `WorkerVM` |
| `WorkerListener` | `serve()`, one action per step that others can observe, the clients, both deadlines, the steps of sshd | `WorkerVM` |
| `WorkerHealth` | `respond_to_health_request` and the unit that starts it | `WorkerVM` |
| `ConferWorker` | the VM: the three above, systemd, power loss and boot | all four |
| `Reservation` | the abstract promise: open, held, attested, session, over | refined by `ConferWorker` |
| `ConferWorker_proofs` | the theorems of the VM | `ConferWorker` |
| `DocumentRelay_proofs`, `DocumentWorker_proofs`, `PdfExtraction_proofs`, `DocumentExtraction_proofs`, `WorkerMessages_proofs`, `ArtifactReading_proofs`, `DocumentQueries_proofs` | the theorems of these components | the component each is named after |
| `DocumentRelay` | both threads of the relay, its buffers, worker and client | |
| `DocumentWorker` | `WorkerProcess.run` with `DocumentSession` and the files they hold | |
| `PdfExtraction` | ranges, window, futures and executor of one extraction | `Ordering` |
| `PageOcr` | the abstract promise: pages with text keep it, the others are recognised one after the other, in order; it succeeds exactly if no page is bad | refined by `PdfExtraction` |
| `Ordering` | numbers in their order, for what the code reads from left to right | |
| `ExtractedContent` | the content every extractor makes, and the checks it must pass | `Ordering` |
| `TextExtraction` | `TextDocumentExtractor` | `ExtractedContent` |
| `OfficeExtraction` | the archive check, the parser's alias, `DoclingDocumentMapper` | `ExtractedContent` |
| `PdfPage` | one page: classifier, table detector, rasterizer, OCR lines | `ExtractedContent` |
| `DocumentExtraction` | the router and its three extractors | the three above |
| `ProtocolFrames` | `ProtocolCodec` and `ProtocolPayload` on both ends of a pipe | |
| `ErrorReporter` | `WorkerErrorReporter` | |
| `WorkerMessages` | `WorkerProcess` between its streams and the reporter | the two above |
| `ArtifactWriter` | `_write_content` and `_write_chunks` | |
| `ArtifactReading` | `read_containers`, and a client that pages | `ArtifactWriter` |
| `ArtifactFile` | header, compression, unpacking, validation and opening of an artifact | |
| `DocumentQueries` | `search`, its snippets, outline, labels and overview of an open document | `ArtifactFile` |

How they correspond to the code:

- **VM.** `files` holds the names that exist in `/run/confer`; `rtmr3` is the
  sequence of events it was extended with since boot (a hash of hashes is
  injective, so the sequence stands for the value); `pc` is where `serve()` is;
  `admissions` is a history of the clients acknowledged in this boot. Every
  step of the listener may fail (`StepFails`), and a kill (`Killed`) may come
  between any two. A failure runs the `finally` blocks of the step it is in;
  a kill runs none and leaves the clean-up to `ServiceStops` (`ExecStopPost`).
  `late` marks a probe that began after an admission; `seconds` is the clock of
  its process, which advances only while the process waits for a line.
- **Relay.** A unit stands for some bytes; `Moved` takes any number of units
  that fit, which is what `read`, `recv`, `send` and `write` may do. The worker
  answers unit i by unit i. A connection refused by `MaxConnections`, a kill by
  a limit and a crash are all `WorkerKilled`.
- **Worker.** A message is an operation, a document and the way it fails, if it
  does. `payload`, `artifact` and `readers` hold temporary files and
  descriptors; `Needs` is what an operation opens at its peak. Extraction,
  rendering and queries are single steps here: the process has one thread, and
  their insides are modelled by `PdfExtraction` and the artifact modules.
- **PDF.** A page is the route the classifier takes or the step that fails on
  it. `job` is the state of its future, `pending` the deque, `pages` the result.
- **Protocol.** A byte is the place it was written from: message, field and
  position. `part` is the field that is written and `put` how many of its bytes
  were, `field` and `got` the same of the reader. The reader takes any number of bytes at a time and does not look at
  the place, so that a byte read as part of another field shows. `"lost"` is a
  reader that took bytes of one field for another, which must not happen; after
  any error of reading the process ends.
- **Extraction.** `phase` is where an extraction is, `content` what it returned.
  A block of text is the range of positions it was cut from. Geometry is in
  whole units, a quotient of the code is compared as a product, and where the
  code rounds, the model does. `Ascending` is the order of the numbers in a
  set: of positions in a text (line breaks, starts of words), of container numbers. The parsers answer anything within their types.
  `own`, the block a region was made with, is a history field.
- **Artifacts.** A text is a sequence of bytes of four classes, the ones the
  code looks at: newline, space, continuation byte, any other. The file around
  it (`ArtifactFile`) has sizes in pages of the database, and a client that may
  hand it back cut, longer, or with other content.
- **Queries.** A chunk is a sequence of letters, white space and marks. What
  FTS5 does (words, marks around matches, a fragment of at most `SnippetTokens`
  words) is external: any fragment that FTS5 may choose is one the model may
  choose. The expression, the bound on the snippet, its ellipses and `has_more`
  are the code's.

## 3. The runs

| run | instance | shows |
|---|---|---|
| `vm_reservation` | 2 boots, 2 clients, 2 starts, queue of 2, 1 foreign extension | who is admitted, attested and advertised to; no listener starts without its files, whichever step of the configuration fails; the VM implements `Reservation`; a worker whose listener started settles in a session or in power off |
| `health_probes` | 2 probes, 1 permitted, 1 client | no probe that begins after the admission is told ok; it is answered unless its client drips, and killed at the runtime limit if it does |
| `relay_streams` | 8 units, buffers of 2 | streams intact; status 0 means complete; threads, worker and client never all wait for each other, and no step is done over again; ends travel |
| `document_session` | 3 messages, 2 ahead, room for 1 document, 7 descriptors | answers, session state and files agree; messages settle; the end of input ends the process |
| `document_capacity` | 3 valid openings, 5 descriptors | **violation**, see section 6 |
| `pdf_extraction` | every 5 page document, 3 scanners, 2 OCR threads | bounded images, nothing left running, refinement of `PageOcr`, somebody can always go on, no step repeats another, termination |
| `extraction` | texts, tables, archives and pages of every kind within small bounds | what each extractor keeps, cleans up, builds and places; each round of its loops leaves less to do |
| `messages` | 2 messages of up to 3 payloads, the first may fail with a chain of 3 exceptions | frames, temporary files, reports |
| `artifacts` | texts of up to 6 pieces and sheets of up to 3 containers; chunks of 12, overlap of 3; a budget of 9 bytes, windows of up to 3 | offsets, chunks and citations of the writer; windows and paging of the reader |
| `artifact_overlap` | long lines, chunks of 256, overlap of 200 | **violation**, see section 6 |
| `queries` | documents of up to 3 chunks of up to 8 characters; 11 queries, 2 limits, 3 snippet sizes | what is opened, what is found, what is shown |
| `search_terms` | one term of 4 words, a snippet of 2 words | **violation**, see section 6 |

The bounds, and why they are enough: two clients are what it takes for one to
be first and one to be late; two starts, what it takes to repeat one; two
boots, to carry something over. `MaxForeign` bounds extensions of RTMR3 by
others: one before or one after the listener's own are the cases its check
tells apart. The health script's 32 lines are 2 (`MaxHeaderLines`): the loop
ends at the limit and before it. The five seconds of its unit are 2
(`RuntimeSeconds`): one line, a second late, is the drip that uses them up. Relay buffers of two units permit partial
reads and writes; eight units are what all the buffers on the way to the worker
and back hold together. `MaxSent`, `Pipelined` and `MaxDocuments` of the
session are small enough for the capacity, the repeated open and the second
session message to occur. Five pages over three scanners give ranges of
different lengths; two threads and five pages fill the window more than twice.
Chunks of 12 bytes with an overlap of 3 meet the condition of section 6 and are
longer than two characters of four bytes; the texts are up to 24 bytes, so that
characters, spaces and newlines fall on every position around a cut.

Extraction: every text of up to seven characters (`BlockCharacters` is 4) cuts
once with every arrangement of space, newline and word around the cut, and the
texts of nine characters cut twice; tables of two rows and columns have short
rows, and bars and line breaks in a cell. `MaxItems` is 3: two items on one page
and one on another, or a page that is not there. Pages are 24 by 16 points,
which is large beside the thresholds of the run, and in the odd shapes of up to
31 to 1, with `MaxPixels` 12, the scale is reduced more than once. Messages:
fields of two bytes can be split anywhere; payloads are empty, full and over
each of the two limits (`MaxPayload`, `MaxTotal`); one message fails
(`Failing`), and one follows it. Three exceptions are one more than
`MaxExceptions`, and enough for a circle that does not contain the first.
Queries: a snippet of three words does not hold every chunk, three characters
are too few for both ellipses and six leave room beside a match. One question
is asked of an opened document, since an answer changes nothing.

`CHECK_DEADLOCK FALSE`: in every module the program really stops (the VM is
off, the process ended, the document is written).

Fairness. VM: the configuration, the listener's own steps, both clocks, sshd's
login grace, systemd, the health script and the clock of each probe run; no
client, kill, foreign extension or host is obliged to do anything. Relay: both threads and the worker
run, and a client that is there reads; it need not send, close or stay.
Worker: the process runs; the client owes nothing. PDF: the extracting thread,
the scanners and the OCR jobs run, the latter because Tesseract has a time
limit. Reading: the paging client goes on, since `PagingEnds` is about a client
that does. The other modules state no fairness, since their runs check safety
only: the loops of an extraction are computations that wait for nobody, and
`LoopsAdvance` says of each round that it leaves less.

Properties of note, with what they exclude:

- `AdvertisedIsReachable` names the windows in which the ready file outlives
  the socket: between `listener.close()` and `withdraw_ready`, and between a
  kill and `ExecStopPost`. In both a probe may still be told ok;
  `AdmissionClosesTheDoor` says that this never happens to a probe that begins
  after the admission.
- `ProbesEnd`, with `OnlyDripsAreKilled` as its safety half: the script's own
  limits do not add up to the unit's. 32 lines of up to a second each are more
  than `RuntimeMaxSec=5s`, so a client that drips is not answered but loses its
  process to systemd, and only such a client does.
- A listener killed before it claims the marker leaves the boot open for
  another start. `Restart=no` and `RefuseManualStart=yes` keep the unit from
  being started twice; `StartAgain` models it all the same, because the marker
  is there for it.
- If the configuration fails the VM stays on without a listener: the unit of
  the listener never starts, so its failure action does not apply.
- `ZeroMeansComplete` has no converse: when the worker closes with input
  unread, the kernel reports a reset behind the last answer and the command
  may exit with 1 although it passed everything on. A refused connection looks
  like status 0 without answers.
- `TextIsKept` (`BlocksKeepTheText` and `RowsStayLines`) says what a text may
  lose: white space around blocks, and nothing of a line of a table. A cut falls
  within a word only in a block that is full.
- `RegionsComeWithTheirText` depends on every block having some area: blocks
  and regions belong together only where they overlap, so a parser's box that is
  a line or a point must be widened to a sliver, which the mapper does.
- `RelayGoesOn` joins two halves. `NoDeadlock`: nobody of relay, worker and
  client can go on only when both processes have ended, or when the client
  could send more and has the answers to all it sent. `StepsMoveOn` gives every
  step of this system a natural number, `Ahead`, to reduce: what a unit has
  before it depends on its place, and every actor has its stages.
- `WorkGoesOn` says the same of an extraction. `SomeoneGoesOn`: as long as it
  goes on, the extracting thread, a scanner or a job can take a step;
  `StepsUseUp`: every step reduces `Left`, which adds up ranges to scan, pages
  to rasterise, jobs to start and to end, and futures to resolve.
- `LoopsAdvance`: a round that is not the last leaves a shorter rest of the
  paragraph, or a smaller scale. It is stated of the state before the round,
  since a round that changes nothing is a step that changes nothing.
- `RasterUsesItsPixels`: a page is drawn at the resolution asked for, or, when
  that would exceed the limit of pixels, with at least two fifths of the limit.
- `OpenedIsWhole`: an artifact that came back as it was written is refused for
  one reason only, a database over the 256 MiB that the reader permits and the
  writer does not check; and nothing but the whole database is ever opened.
- `CitationsHoldTheHit`: the range a hit cites holds every container the chunk
  has text of, and may hold empty ones between them. The writer's other branch,
  for a chunk that touches no container, is reached in the run only by the first
  chunk of a document of empty containers; the theorem is about every size and
  every overlap.
- A container longer than 64,000 bytes is cut, and no request reads on behind
  the cut. A text document is a single container. `PagingReadsEverything`
  states exactly this.

## 4. What is proved

`ConferWorker_proofs` proves, for every set of clients and probes and for every
value of the bounds that the named assumptions allow:

| theorem | states |
|---|---|
| `TypeCorrect` | `TypeOK` |
| `Inductive` | `IndInv` |
| `SingleAdmission` | `AtMostOneAdmission` |
| `FirstIsOnly` | `FirstToConnect` |
| `RegisterStartsWithReservation` | `NothingBeforeReservation` |
| `DoorStaysClosed` | `AdmissionClosesTheDoor` |
| `SilenceIsAnswered` | `OnlyDripsAreKilled` |
| `ReadyMeansReachable` | `AdvertisedIsReachable` |
| `StartsConfigured` | `ListenerIsConfigured` |
| `ReservationRefined` | `Spec => R!Safety` |

None of the safety properties is inductive. That a verified attestation implies
a single admission depends on where `serve()` was when it wrote the marker, the
key and the register. `IndInv` ties those to `pc`: `ClaimInv` (no marker, no
admission yet), `PeerInv` (the connected peer is the one admitted), `DoorInv`
(socket, queue and ready file per step), `KeyInv` (the authorised key is the
peer's), `QuoteInv` and `AttestationInv` (the register at the time of the quote
began with this reservation), `LateInv`, `ConfigInv` and `ClockInv` (the
clock of a probe shows at most a second for each line, and one more at the end). The proof has a lemma
per component step (`ListenerStepInv`, `EnvironmentStepInv`, `SystemdStepInv`,
`BootInv`, `OtherStepInv`), the theorem joins them, and each property follows
from `IndInv` in one step. The refinement uses `IndInv` for the phase each step
starts from.

`TypeOK`, `IndInv`, `AtMostOneAdmission` and `OnlyDripsAreKilled` are not in a
run's list: they are the steps on the way to the others, or follow from the
refinement of `Reservation`, which `vm_reservation` checks, or from `ProbesEnd`. `ListenerIsConfigured` follows from `ConfigInv`:
each state of the configuration script has the files of those before it.

The other modules have an inductive invariant, or a few that build on each
other, each proved in a theorem of its own: `Inductive` in the first three,
`...Inductive` in the others.

| module | theorem | states |
|---|---|---|
| `DocumentWorker_proofs` | `TypeCorrect` | `TypeOK` |
| | `AnsweredInOrder` | `ResponsesFollowMessages` |
| | `FilesReturned` | `NothingLeaks` |
| | `SessionAgrees` | `SessionMatchesAnswers` |
| `DocumentRelay_proofs` | `TypeCorrect` | `TypeOK` |
| | `StreamsStayIntact` | `StreamsIntact` |
| | `ZeroIsComplete` | `ZeroMeansComplete` |
| | `NeverDeadlocks` | `NoDeadlock` |
| | `EveryStepMovesOn` | `StepsMoveOn` |
| | `RelayAlwaysGoesOn` | `RelayGoesOn`, the two together |
| `PdfExtraction_proofs` | `MemoryBounded` | `ImagesBounded` |
| | `NothingLeftRunning` | `NothingRunsAfter` |
| | `OcrRefined` | `ImplementsPageOcr`, all of it |
| | `TypeCorrect` | `TypeOK` |
| | `SomeoneAlwaysGoesOn` | `SomeoneGoesOn` |
| | `EveryStepUsesUp` | `StepsUseUp` |
| | `WorkAlwaysGoesOn` | `WorkGoesOn`, the two together |
| `DocumentExtraction_proofs` | `TextKept` | `TextIsKept` |
| | `ParserIsGone` | `ParserLeavesNothing` |
| | `ContentAccepted` | `BuiltContentIsAccepted` |
| | `RegionsCited` | `RegionsComeWithTheirText` |
| | `PageConsistent` | `PageIsConsistent` |
| | `PixelsUsed` | `RasterUsesItsPixels`, for every limit but three pixels |
| | `RoundsShorten` | `LoopsAdvance`, for pages that fit the limit at a tenth of a pixel for a point |
| `WorkerMessages_proofs` | `FramesAligned` | `FramesStayAligned` |
| | `NoSpoolIsLeft` | `SpoolsAreClosed` |
| | `ChainReported` | `ChainIsReportedOnce` |
| `ArtifactReading_proofs` | `RangesAreKept` | `RangesReadBack` |
| | `HitsAreCited` | `CitationsHoldTheHit` |
| | `PhrasesAreHeld` | `PhrasesAreSearchable`, with a modest overlap |
| | `PagingIsComplete` | `PagingReadsEverything` |
| | `PiecesAreText` | `PiecesAreBoundedText`, with a modest overlap |
| `DocumentQueries_proofs` | `OpenIsWhole` | `OpenedIsWhole` |
| | `AnswersMatch` | `AnswersMatchTheQuery` |
| | `SnippetsShow` | `SnippetsShowTheMatch` |

`DocumentWorker`: for every set of messages and documents, and every limit on
documents and descriptors. `SessionMatchesAnswers` speaks of the time between
messages only; `Agreement` adds that the readers are the client's present belief
until the message is executed, and the belief the answer will bring about from
then on. `BelievedAfterWrite` computes how one answer changes that belief, which
is defined over the whole history.

`DocumentRelay`: for every `MaxSent` and `Capacity`. The property compares
concatenations of four buffers. The invariant numbers the units of each buffer
on from those before it instead, so that a step is about the two buffers it
touches (`MovedNumbered`, `UnitNumbered`), and `FourBuffers` puts the numbered
pieces together. The worker's own queue keeps its numbering after the command
has exited, the buffers before it do not: hence the two parts of `InputInv`.
That nobody waits in a circle needs one more invariant, `WaitInv`
(`HalfCloseIsNotMissed`): the input thread exists once the command is connected,
and ends only behind its half-close. Given that everyone is stuck, each waits
for its neighbour: a full buffer for the one that empties it, an empty one for
the one that fills it. Around the circle all buffers turn out empty, and the
numbering says that every unit sent was answered and read. For `StepsMoveOn`
each unit weighs less in every buffer than in the one before; `Moved` takes
some from one and appends them to the next, so that the sum over all buffers
shrinks.

`PdfExtraction`: for every document and every window. The code counts futures
in its window, the property counts images; `Covered` says that every unfinished
job is in the window, `WindowInv` that the window has room when the next page
is rasterised, and `JobInv` what cancelling and joining leave behind.

The refinement of `PageOcr` is proved for every number of scanners too. `PageOcr`
states no fairness, so the theorem is the whole of it. The ranges are products
of a rounded quotient: `RangesMeet` lays them end to end, `BatchesAreAll` follows
the concatenation of the batches, and `DraftsAreAll` concludes that the sorted
drafts are the pages from first to last, each once. From there on `QueueInv` ties
the queue to the result: window and rest, one behind the other, are exactly the
pages that need OCR and have no container, in ascending order. Submitting moves
the border between the two and leaves the queue as it was (`SubmitKeepsQueue`);
resolving takes its first page (`ResolveTakesFirst`, `TakeFirst`), which is why a
stored text is that of the first page without one. `PagesInv` says what each
container is of, `BatchInv` and `FutureInv` on which page a range or a job fails,
so that a failure always has its bad page; `StageInv` assigns them to the phases.

Nobody waits for the dead: `WaitInv` (`WaitsForTheLiving`) says that a future in
the window is queued, running or finished, never dropped, while the thread may
wait for it, and that a full window is not empty. If the one waited for is not
finished, it runs and can end; or it is queued, and then either all threads of
the executor are busy, and one of those can end, or one is free to start it.
`EveryStepUsesUp` compares `Left` before and after each step: a page counts four
before it is rasterised, three as a queued job in the window, two while it runs
and one until it is resolved.

`DocumentExtraction`: for every text, table, archive and page, and every limit
that the named assumptions allow. `TextInv` says that blocks and the paragraphs
still to be split hold every visible character, are in order, and are apart by
white space unless a full block was cut within a word (`Joint`); one cut
(`SplitBlock`) changes only the neighbours. `TableInv` says that what is split
of a table is its Markdown; where the parts of a joined text lie in it
(`JoinLayout`) gives the positions of all line breaks and of all bars that are
not escaped, since no cell has either (`CellIsBare`). `ParserInv` and `DraftsInv` tie the
alias, the parser's backend and the bytes of the drafts' pictures to the phase.
`PageInv` keeps the drawn image a proper part of its page, through the loop that
reduces its scale: from this follows that recognised lines, moved back and
widened, lie on the page. `PixelsInv` bounds from below what a smaller scale
leaves: one round of shrinking, with a root rounded up and two sides rounded to
whole pixels, keeps two fifths of the limit. The proof multiplies the bounds of
all roundings (`SideShrinks`, `ThinShrinks`, `RootKeepsPixels`) and looks at the
few small limits one by one; a limit of three pixels is the only one for which
it is false, since a square of four pixels becomes one of one, and `RoomForPixels`
excludes it (the program has 8,000,000). That the scale shrinks at all depends
on the model's scale, in thousandths: below a hundred of them a hundredth less
is rounded up to the same. `ModestPages` therefore asks that a page fit the
limit at a tenth of a pixel for a point, as a page of 14,400 points
square, the largest that PDF provides for, does almost four times over; the
program's floating point scale needs no such condition. `AnswerInv` is about
the content once it is there; what the three extractors share is in `Cites`: a
region overlaps the block it was made with, and its range of text therefore
holds that block.

`WorkerMessages`: for every set of messages and every limit. `FramesInv` states
what the pipe holds: the bytes from where the reader is to where the writer is,
none missing, in the order of messages, fields and positions. With that,
`"lost"` is unreachable, and what fails to be read is a message beyond a limit
or the end of the stream. `WalkInv` says that a report is a walk along the
causes that does not come back to where it was; the chain of a failure may have
a circle, and the walk may be cut at `MaxExceptions`.

`ArtifactReading`: for every document, size of chunk, budget and window.
`ContentInv` says that blocks, containers and separators cover the text without
a gap, in order, and that each boundary is one of a character; `ChunkInv` that
chunks cite what they overlap, which for the ends of the range needs that the
first container begins the text (`StartsWithFirst`); `PagingInv` what a client that follows the
answers has read so far. That chunks advance needs `ModestOverlap`
(`ChunkBytes >= 8` and an overlap of at most half a chunk less three bytes),
which the default sizes satisfy and the constructor does not ask for (section
6): `AdvanceInv` holds under it, and with it the two theorems that name it.

`DocumentQueries`: for every document, query, size and limit. `FileInv` ties
header, content and the copy to the stage of an artifact. Of a search,
`RankedFacts` says that one chunk more than asked for is there exactly if the
first ones are not all; `PlainPhrase`, that a term without letters that
`casefold` rewrites is looked up as it is written; `SearchMatches` joins them.
The snippets need no invariant, since a search is one step, but facts about the
operators it is made of: words come in the order of the text (`WordFacts`), a
mark begins with a word that was asked for (`MarkFacts`), the place found by the
fragment's text has that text, if it is another one (`FindFacts`), and a snippet
moved to the nearest white space keeps to its limit and holds the match
(`BoundedFits`); `ShowsByHit` joins them.

The provers cannot instantiate the library's induction theorems. Where a proof
needs induction over a number or a finite set, it takes a least counterexample
instead (`WFMin`, which has no operator parameter), as in `LeastIndex`.

Only model-checked:

- liveness, including the settling half of `Reservation` (the prover has no
  ENABLED). For relay and PDF extraction the theorems leave little of it: that
  somebody can always go on, and that every step leaves less of a natural
  number, is proved for every instance; that whoever can go on does is the
  fairness assumed. Of the loops of an extraction it is `LoopsAdvance` that is
  proved, and no run states more.

Every safety invariant of a passing run is a theorem, four of them under a named
condition on the constants: `PhrasesAreHeld` and `PiecesAreText`
(`ModestOverlap`), `PixelsUsed` (`RoomForPixels`), `RoundsShorten` (`ModestPages`).

None of the modules declares a RECURSIVE operator.

## 5. Plan

Done: the VM, the document worker and the relay with their proofs; PDF
extraction with the proofs of its bounds and its refinement; the other formats,
messages, the writer, reading, opening and queries, with the proofs of their
safety properties; and for relay, PDF extraction and the loops of extraction
the proofs that nobody gets stuck and nothing goes on for ever.

Next: `DocumentService`: relay and worker composed over one socket, with
`MaxConnections` and the runtime limit; a session seen by the client.

## 6. Where code and documents differ

- **Session capacity** (`document_capacity`). `MAX_DOCUMENTS` is 1,000 and an
  open reader holds two descriptors, its temporary file and SQLite's, while the
  unit sets `LimitNOFILE=512`. At about 250 documents the process runs out of
  descriptors, and a valid artifact is answered "Document artifact is invalid";
  the answer "Document session capacity exceeded" is never reached. The run
  has three documents, room for three, and descriptors for two.
- **Chunk overlap** (`artifact_overlap`). The constructor accepts every overlap
  below the chunk size. A chunk may end at a newline soon after its middle, so
  an overlap of more than about half a chunk reaches back to where the chunk
  started, and the loop writes the same chunk again and again, for ever when
  the step back is a whole character. The default sizes are far from it: an
  overlap of at most half a chunk less three bytes always advances.
- **Searches for long phrases** (`search_terms`). Every `ValueError` of a search is
  answered "Search query has no searchable terms" (`DocumentSession.py:121`),
  which is what `ArtifactReader.py:330` raises; but so does a fragment without a
  mark (line 386). FTS5 centres its window of 64 words behind the start of a
  match that is longer by two words or more, and marks only matches that start
  in the window. A term may have 256 characters, as many as 128 words: `0 0 0
  ...` is found in a row of zeros, and refused as having no terms. The run has a
  term of four words and a window of two.

Not a disagreement with a document, but close to one:

- **Letters that `casefold` rewrites.** A term goes through `casefold`, which
  spells the German sharp s, ligatures and a few accented letters with several
  others, while the index keeps them: such a term does not find the text that
  has it. `AnswersMatchTheQuery` leaves these terms out,
  and the letter `"z"` in `DocumentQueries` stands for them.

## 7. Not modelled

- **SQLite, zstd, JSON, base64, hashes, TDX, Docling, MuPDF, Tesseract**:
  external. Where the code reacts to them, the model lets them answer anything
  they may, or assumes what is stated at the definition: that FTS5 marks
  overlapping matches as one, from the start of the first; that a chunk it finds
  has a match in it, so that the branch of `_fts_snippet` for none is never
  taken.
- **The size of a document's database** is free: how many pages SQLite needs for
  a text is SQLite's arithmetic.
- **Floating point**: coordinates are whole points, and a quotient that becomes
  a count is rounded up where the code would. Text heuristics of a page (how
  many undecodable characters, whether its lines hint at columns) are free.
- **Wording**: the contents of a report, Markdown but for the escapes of a
  cell, labels and titles; in CSV, backslashes and carriage returns inside of
  values. Lists cut silently at a fixed number (20 regions of a hit, 500
  labels) are modelled only where a property tells the cut apart.
- **`PageRenderer`**: what it opens, how it fails and the scale it chooses, which
  is that of the rasterizer; not the image. **`RapidOcrBackend`** is not used by
  the worker.
- **A picture taken out of the file** may show more than the part of it that is
  on the page; the model places what is recognised on it in that part, as the
  code does, and does not know what the picture shows.
- **Wiring in `main.py`, hardening directives of the units, firewall, image build, release
  workflow and release measurements**: construction of objects, declarative
  configuration, or byte layouts without behaviour over time.
