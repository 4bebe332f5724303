---------------------------- MODULE PdfExtraction ----------------------------
(***************************************************************************)
(* PdfExtractor.extract after the document was opened: its pages are       *)
(* scanned in ranges by a pool of processes, and the pages without usable  *)
(* text go through PdfOcrProcessor.process, which keeps a window of at     *)
(* most Concurrency pages between rasterising a page and storing its text. *)
(*                                                                         *)
(* Actors: the extracting thread, the scanning processes, and the threads  *)
(* of the executor, each waiting for the tesseract process it started.     *)
(***************************************************************************)
EXTENDS Naturals, Sequences, FiniteSets, SequencesExt, Ordering

CONSTANTS
  PageCount,      \* document.page_count
  ScanWorkers,    \* what _scan_worker_count returned
  MaxConcurrency, \* PdfOcrProcessor.max_concurrency
  BackendLimit    \* the backend's max_concurrency

ASSUME ExtractionAssumption ==
  /\ PageCount \in Nat
  /\ ScanWorkers \in Nat \ {0}
  /\ MaxConcurrency \in Nat /\ BackendLimit \in Nat

PageNumbers == 0..(PageCount - 1)

(* What a page turns out to be: the route the classifier takes, or the step  *)
(* that fails on it ("ocr" includes a tesseract that exceeds its time).      *)
Kinds   == {"native", "blank", "image", "unscannable", "unrasterizable", "unreadable"}
Scanned == {"image", "unrasterizable", "unreadable"}

VARIABLES
  page,     \* the document: the kind of every page
  phase,    \* where the extracting thread is
  batch,    \* the state of every range in the pool of scanners
  rest,     \* OCR pages that are still to be rasterised
  pending,  \* the window: OCR pages submitted and not resolved, oldest first
  job,      \* the future of every page
  pages,    \* the result: the containers so far
  outcome   \* how process() ends

vars == <<page, phase, batch, rest, pending, job, pages, outcome>>

Smaller(a, b) == IF a <= b THEN a ELSE b
Larger(a, b)  == IF a >= b THEN a ELSE b

Concurrency == Larger(1, Smaller(MaxConcurrency, BackendLimit))

Phases    == {"scan", "submit", "resolve", "drain", "join", "ended"}
JobStates == {"none", "queued", "running", "done", "failed", "cancelled"}
Outcomes  == {"running", "ok", "failed"}

(* A container of the result: the page its content was taken from, and how.  *)
NoContainer == [from |-> 0, by |-> "nothing"]
Containers  == [from : Nat, by : {"nothing", "native", "blank", "image"}]

Init ==
  /\ page \in [PageNumbers -> Kinds]
  /\ phase = "scan"
  /\ batch = [k \in 0..(ScanWorkers - 1) |-> "scanning"]
  /\ rest = <<>> /\ pending = <<>>
  /\ job = [p \in PageNumbers |-> "none"]
  /\ pages = <<>>
  /\ outcome = "running"

-----------------------------------------------------------------------------
(* _scan_pages: ceil(page_count / workers) pages to a range, and fewer       *)
(* ranges than workers when they are used up.                                *)
ChunkSize   == (PageCount + ScanWorkers - 1) \div ScanWorkers
RangeStart(k) == k * ChunkSize
(* Mutant: a range ends one page early. *)
RangeEndEarly(k) == Smaller(PageCount, RangeStart(k) + ChunkSize - 1)

RangeEnd(k)   == Smaller(PageCount, RangeStart(k) + ChunkSize)
RangeCount  == Cardinality({k \in 0..(ScanWorkers - 1) : RangeStart(k) < PageCount})
PagesOf(k)  == [i \in 1..(RangeEnd(k) - RangeStart(k)) |-> RangeStart(k) + i - 1]

InPool == ScanWorkers > 1

(* PdfPageRangeScanner: one process, one range. *)
ScanRange(k) ==
  /\ phase = "scan" /\ InPool
  /\ k < RangeCount /\ batch[k] = "scanning"
  /\ batch' = [batch EXCEPT ![k] =
       IF \E i \in DOMAIN PagesOf(k) : page[PagesOf(k)[i]] = "unscannable" THEN "failed" ELSE "done"]
  /\ UNCHANGED <<page, phase, rest, pending, job, pages, outcome>>

(* process(): native and blank pages are complete as scanned, the others     *)
(* wait for OCR in the order of the drafts.                                  *)
Route(drafts) ==
  /\ pages' = [i \in 1..Len(drafts) |->
       IF \E d \in DOMAIN drafts : drafts[d] = i - 1 /\ page[i - 1] \in {"native", "blank"}
       THEN [from |-> i - 1, by |-> page[i - 1]] ELSE NoContainer]
  /\ rest' = LET at == Ascending({d \in DOMAIN drafts : page[drafts[d]] \in Scanned})
             IN  [n \in DOMAIN at |-> drafts[at[n]]]
  /\ IF rest' = <<>> THEN phase' = "join" /\ outcome' = "ok"
     ELSE phase' = "submit" /\ UNCHANGED outcome

ScanFails ==
  /\ phase' = "ended" /\ outcome' = "failed"
  /\ UNCHANGED <<rest, pages>>

(* The pool returns the batches in the order of their ranges once none runs, *)
(* and their pages are sorted by number.                                     *)
Drafts == Sorted(FlattenSeq([k \in 1..RangeCount |-> PagesOf(k - 1)]))

ScanEnds ==
  /\ phase = "scan" /\ InPool
  /\ \A k \in 0..(RangeCount - 1) : batch[k] # "scanning"
  /\ IF \E k \in 0..(RangeCount - 1) : batch[k] = "failed" THEN ScanFails
     ELSE Route(Drafts)
  /\ UNCHANGED <<page, batch, pending, job>>

(* One worker, or a sandbox that refuses the pool its semaphores. *)
ScanAlone ==
  /\ phase = "scan"
  /\ \A k \in DOMAIN batch : batch[k] = "scanning"
  /\ IF \E p \in PageNumbers : page[p] = "unscannable" THEN ScanFails
     ELSE Route([i \in 1..PageCount |-> i - 1])
  /\ UNCHANGED <<page, batch, pending, job>>

-----------------------------------------------------------------------------
(* Mutant: the window holds one page more. *)
SubmitOneMore ==
  /\ phase = "submit" /\ rest # <<>>
  /\ page[Head(rest)] # "unrasterizable"
  /\ rest' = Tail(rest)
  /\ pending' = Append(pending, Head(rest))
  /\ job' = [job EXCEPT ![Head(rest)] = "queued"]
  /\ phase' = IF Len(pending) + 1 > Concurrency THEN "resolve" ELSE "submit"
  /\ UNCHANGED <<page, batch, pages, outcome>>

(* process(): rasterise the next page, submit it, and wait for the oldest    *)
(* when the window is full.                                                  *)
Submit ==
  /\ phase = "submit" /\ rest # <<>>
  /\ page[Head(rest)] # "unrasterizable"
  /\ rest' = Tail(rest)
  /\ pending' = Append(pending, Head(rest))
  /\ job' = [job EXCEPT ![Head(rest)] = "queued"]
  /\ phase' = IF Len(pending) + 1 >= Concurrency THEN "resolve" ELSE "submit"
  /\ UNCHANGED <<page, batch, pages, outcome>>

(* finally: executor.shutdown(wait=True, cancel_futures=True). *)
Cancelled == [p \in PageNumbers |-> IF job[p] = "queued" THEN "cancelled" ELSE job[p]]

Shutdown(result) ==
  /\ phase' = "join"
  /\ job' = Cancelled
  /\ outcome' = result

RasterizeFails ==
  /\ phase = "submit" /\ rest # <<>>
  /\ page[Head(rest)] = "unrasterizable"
  /\ Shutdown("failed")
  /\ UNCHANGED <<page, batch, rest, pending, pages>>

Drain ==
  /\ phase = "submit" /\ rest = <<>>
  /\ phase' = "drain"
  /\ UNCHANGED <<page, batch, rest, pending, job, pages, outcome>>

(* Mutant: pending[0] in the place of popleft. *)
ResolveAgain ==
  /\ phase \in {"resolve", "drain"} /\ pending # <<>>
  /\ job[Head(pending)] = "done"
  /\ pages' = [pages EXCEPT ![Head(pending) + 1] = [from |-> Head(pending), by |-> "image"]]
  /\ phase' = IF phase = "resolve" THEN "submit" ELSE "drain"
  /\ UNCHANGED <<page, batch, rest, pending, job, outcome>>

(* _resolve waits for the oldest future and stores its text, *)
Resolve ==
  /\ phase \in {"resolve", "drain"} /\ pending # <<>>
  /\ job[Head(pending)] = "done"
  /\ pages' = [pages EXCEPT ![Head(pending) + 1] = [from |-> Head(pending), by |-> "image"]]
  /\ pending' = Tail(pending)
  /\ phase' = IF phase = "resolve" THEN "submit" ELSE "drain"
  /\ UNCHANGED <<page, batch, rest, job, outcome>>

(* or raises what the job raised. *)
ResolveRaises ==
  /\ phase \in {"resolve", "drain"} /\ pending # <<>>
  /\ job[Head(pending)] = "failed"
  /\ Shutdown("failed")
  /\ UNCHANGED <<page, batch, rest, pending, pages>>

Drained ==
  /\ phase = "drain" /\ pending = <<>>
  /\ Shutdown("ok")
  /\ UNCHANGED <<page, batch, rest, pending, pages>>

(* The executor's threads are joined, and _completed_pages has the last word. *)
Running == {p \in PageNumbers : job[p] = "running"}

(* Mutant: shutdown does not wait. *)
FinishAtOnce ==
  /\ phase = "join"
  /\ phase' = "ended"
  /\ UNCHANGED <<page, batch, rest, pending, job, pages, outcome>>

Finish ==
  /\ phase = "join"
  /\ Running = {}
  /\ phase' = "ended"
  /\ outcome' = IF outcome = "ok" /\ \E i \in DOMAIN pages : pages[i] = NoContainer
                THEN "failed" ELSE outcome
  /\ UNCHANGED <<page, batch, rest, pending, job, pages>>

-----------------------------------------------------------------------------
(* The executor: a free thread takes the oldest job, runs tesseract, and     *)
(* has its text or an error, at the latest when its sixty seconds are over.  *)
StartJob(p) ==
  /\ job[p] = "queued"
  /\ \A q \in PageNumbers : job[q] = "queued" => p <= q
  /\ Cardinality(Running) < Concurrency
  /\ job' = [job EXCEPT ![p] = "running"]
  /\ UNCHANGED <<page, phase, batch, rest, pending, pages, outcome>>

(* Mutant: tesseract has no time limit. *)
EndJobWithoutLimit(p) ==
  /\ job[p] = "running" /\ page[p] # "unreadable"
  /\ job' = [job EXCEPT ![p] = "done"]
  /\ UNCHANGED <<page, phase, batch, rest, pending, pages, outcome>>

EndJob(p) ==
  /\ job[p] = "running"
  /\ job' = [job EXCEPT ![p] = IF page[p] = "unreadable" THEN "failed" ELSE "done"]
  /\ UNCHANGED <<page, phase, batch, rest, pending, pages, outcome>>

ThreadStep ==
  \/ ScanEnds \/ ScanAlone \/ Submit \/ RasterizeFails \/ Drain \/ Resolve \/ ResolveRaises
  \/ Drained \/ Finish

PoolStep == \E k \in DOMAIN batch : ScanRange(k)
JobStep  == \E p \in PageNumbers : StartJob(p) \/ EndJob(p)

Next == ThreadStep \/ PoolStep \/ JobStep

(* Every thread runs, every scanner returns, and tesseract has a time limit. *)
Spec == Init /\ [][Next]_vars /\ WF_vars(ThreadStep) /\ WF_vars(PoolStep) /\ WF_vars(JobStep)

-----------------------------------------------------------------------------
TypeOK ==
  /\ page \in [PageNumbers -> Kinds]
  /\ phase \in Phases
  /\ batch \in [0..(ScanWorkers - 1) -> {"scanning", "done", "failed"}]
  /\ rest \in Seq(PageNumbers) /\ pending \in Seq(PageNumbers)
  /\ job \in [PageNumbers -> JobStates]
  /\ pages \in Seq(Containers)
  /\ outcome \in Outcomes

(* Rasterised pages are large: however many pages wait for OCR, at most      *)
(* Concurrency of them are in memory, the one being rasterised included.     *)
ImagesHeld    == {p \in PageNumbers : job[p] \in {"queued", "running"}}
ImagesBounded ==
  Cardinality(ImagesHeld) + (IF phase = "submit" /\ rest # <<>> THEN 1 ELSE 0) <= Concurrency

(* Whether it succeeded or failed, an extraction that has ended has no       *)
(* tesseract running behind the back of the next one.                        *)
NothingRunsAfter == phase = "ended" => ImagesHeld = {}

(* The window is an optimisation: the extraction behaves like one that       *)
(* recognises page after page, and a result has every page of the document   *)
(* at its own number, with its own content: what it was routed to, or the    *)
(* text of its own image.                                                    *)
OwnPages == {p \in PageNumbers : page[p] \in {"native", "blank"}}
OcrPages == {p \in PageNumbers : page[p] \in Scanned}
BadPages == {p \in PageNumbers : page[p] \notin {"native", "blank", "image"}}
Texts    == {<<i - 1, pages[i].from>> :
               i \in {j \in DOMAIN pages : pages[j].by = IF page[j - 1] \in Scanned THEN "image" ELSE page[j - 1]}}
Ending   == IF phase = "ended" THEN outcome ELSE "running"

O == INSTANCE PageOcr WITH
       ownPages <- OwnPages, ocrPages <- OcrPages, badPages <- BadPages, text <- Texts, outcome <- Ending
ImplementsPageOcr == O!Spec

(* What the guards of the steps ask for: whether the extracting thread, a    *)
(* scanner or a thread of the executor has something to do.                  *)
ThreadCanMove ==
  \/ phase = "scan" /\ \A k \in DOMAIN batch : batch[k] = "scanning"
  \/ phase = "scan" /\ InPool /\ \A k \in 0..(RangeCount - 1) : batch[k] # "scanning"
  \/ phase = "submit"
  \/ phase \in {"resolve", "drain"} /\ pending # <<>> /\ job[Head(pending)] \in {"done", "failed"}
  \/ phase = "drain" /\ pending = <<>>
  \/ phase = "join" /\ Running = {}
PoolCanMove == phase = "scan" /\ InPool /\ \E k \in 0..(RangeCount - 1) : batch[k] = "scanning"
JobCanMove  ==
  \/ Running # {}
  \/ Cardinality(Running) < Concurrency /\ \E p \in PageNumbers : job[p] = "queued"

(* As long as an extraction goes on somebody can: the thread that waits for  *)
(* the oldest future of its window, or for all of them, waits for one that   *)
(* runs or is the next to run, never for one that was dropped or cancelled.  *)
SomeoneGoesOn == phase # "ended" => ThreadCanMove \/ PoolCanMove \/ JobCanMove

(* What is left to do: ranges, pages to rasterise, futures to resolve, jobs  *)
(* to start and to end, and the stages still ahead of the thread.            *)
Scanning == {k \in DOMAIN batch : batch[k] = "scanning"}
Queued   == {p \in PageNumbers : job[p] = "queued"}
StagesAhead ==
  [scan |-> 4 * PageCount + 4, submit |-> 3, resolve |-> 3, drain |-> 2, join |-> 1, ended |-> 0]
Left ==
  Cardinality(Scanning) + 4 * Len(rest) + Len(pending) + 2 * Cardinality(Queued)
    + Cardinality(Running) + StagesAhead[phase]

(* No step, of whichever thread, repeats what was done: each leaves less to  *)
(* do, so that an extraction takes no more steps than its pages allow.       *)
StepsUseUp == [][Left' < Left]_vars

(* Together: wherever a step leads, the extraction goes on until it returns  *)
(* or raises, and it cannot go on for ever.                                  *)
WorkGoesOn == [][Left' < Left /\ SomeoneGoesOn']_vars

(* No page, whatever fails on it, holds an extraction up for ever. *)
EveryExtractionEnds == <>(phase = "ended")
=============================================================================
