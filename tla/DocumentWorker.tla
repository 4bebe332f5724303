--------------------------- MODULE DocumentWorker ---------------------------
(***************************************************************************)
(* One confer-document-worker process: WorkerProcess.run reads framed      *)
(* messages from its standard input, answers each on its standard output,  *)
(* and keeps open documents between the messages of a session.             *)
(*                                                                         *)
(* The first message decides what the process is for: an extraction, or a  *)
(* message that does not decode, is answered and ends it; anything else    *)
(* starts a session that ends with "close", the end of the input, a frame  *)
(* the codec refuses, a response it cannot send, or a kill.                *)
(*                                                                         *)
(* Resources are modelled by who holds them: the temporary file of the     *)
(* request's payload, the temporary file of an extracted artifact, and the *)
(* two descriptors of every open reader (its database file and SQLite's).  *)
(***************************************************************************)
EXTENDS Naturals, Sequences, FiniteSets

CONSTANTS
  Documents,     \* document ids
  Messages,      \* the messages a client may send
  MaxDocuments,  \* MAX_DOCUMENTS
  Descriptors,   \* LimitNOFILE, less the descriptors the process starts with
  MaxSent,       \* bound: messages one client sends
  Pipelined      \* bound: messages sent ahead of their answers

(* What the process makes of a message that is otherwise well formed:        *)
(* "frame": ProtocolCodec.read refuses it;  "decode": the request decoder    *)
(* does;  "operation": the document, the query or the page is bad;           *)
(* "unexpected": a parser raises something else;  "unsendable": the response *)
(* exceeds a limit of ProtocolCodec.write.                                   *)
Faults     == {"none", "frame", "decode", "operation", "unexpected", "unsendable"}
Queries    == {"overview", "search", "read", "render"}
Openings   == {"open", "open_text"}
Operations == {"extract", "release", "close"} \cup Queries \cup Openings
WithPayload == {"extract", "render"} \cup Openings

ASSUME WorkerAssumption ==
  /\ Messages \subseteq [op : Operations, doc : Documents, fault : Faults]
  /\ MaxDocuments \in Nat \ {0}
  /\ Descriptors \in Nat \ {0}
  /\ MaxSent \in Nat
  /\ Pipelined \in Nat \ {0}

VARIABLES
  sent,      \* every message the client sent, in order
  inputEnd,  \* the client closed its side
  outputEnd, \* nobody reads the responses any more
  pc,        \* where the process is
  taken,     \* messages read so far: the current one is sent[taken]
  first,     \* run() still handles the first message
  payload,   \* the current message holds a temporary file
  readers,   \* DocumentSession.readers
  artifact,  \* the result of an extraction holds a temporary file
  response,  \* the status of the response about to be written
  outbox     \* the responses written, in order

vars == <<sent, inputEnd, outputEnd, pc, taken, first, payload, readers, artifact,
          response, outbox>>
clientVars == <<sent, inputEnd, outputEnd>>

Statuses  == {"ok", "invalid_request", "processing_failed"}
Responses == [of : Nat, status : Statuses]
PcStates  == {"read", "decode", "execute", "write", "closing", "exited", "killed"}
Ended     == {"exited", "killed"}

TypeOK ==
  /\ sent \in Seq(Messages)
  /\ inputEnd \in BOOLEAN /\ outputEnd \in BOOLEAN
  /\ pc \in PcStates
  /\ taken \in Nat
  /\ first \in BOOLEAN
  /\ payload \in BOOLEAN
  /\ readers \subseteq Documents
  /\ artifact \in BOOLEAN
  /\ response \in Statuses
  /\ outbox \in Seq(Responses)

Init ==
  /\ sent = <<>> /\ inputEnd = FALSE /\ outputEnd = FALSE
  /\ pc = "read"
  /\ taken = 0
  /\ first = TRUE
  /\ payload = FALSE
  /\ readers = {}
  /\ artifact = FALSE
  /\ response = "ok"
  /\ outbox = <<>>

Count(b) == IF b THEN 1 ELSE 0
Used     == 2 * Cardinality(readers) + Count(payload) + Count(artifact)
Free     == Descriptors - Used
current  == sent[taken]

(* Descriptors an operation needs at its peak: a reader is a database file    *)
(* and SQLite's descriptor for it, an artifact in the making a third file.   *)
Needs(op) == CASE op = "open"                      -> 2
               [] op \in {"open_text", "extract"} -> 3
               [] op = "render"                    -> 1
               [] OTHER                            -> 0
Short     == Free < Needs(current.op)

-----------------------------------------------------------------------------
(* The client on the other end of the connection.                            *)
Send ==
  /\ ~inputEnd
  /\ Len(sent) < MaxSent /\ Len(sent) < taken + Pipelined
  /\ \E m \in Messages : sent' = Append(sent, m)
  /\ UNCHANGED <<inputEnd, outputEnd, pc, taken, first, payload, readers, artifact, response, outbox>>

CloseInput ==
  /\ ~inputEnd
  /\ inputEnd' = TRUE
  /\ UNCHANGED <<sent, outputEnd, pc, taken, first, payload, readers, artifact, response, outbox>>

CloseOutput ==
  /\ ~outputEnd
  /\ outputEnd' = TRUE
  /\ UNCHANGED <<sent, inputEnd, pc, taken, first, payload, readers, artifact, response, outbox>>

-----------------------------------------------------------------------------
(* Mutant: the files of the message are closed only when it was answered. *)
RaiseKeepsFiles ==
  /\ pc' = "closing"
  /\ UNCHANGED <<clientVars, first, payload, artifact, readers, response, outbox>>

(* An exception leaves run(): the `with` blocks close the files of the       *)
(* message and of the response, and `finally` closes the application.        *)
Raise ==
  /\ pc' = "closing"
  /\ payload' = FALSE /\ artifact' = FALSE
  /\ UNCHANGED <<clientVars, first, readers, response, outbox>>

(* ProtocolCodec.read, which spools a payload to a temporary file. *)
Next1 == sent[taken + 1]
Spools == Next1.op \in WithPayload

ReadMessage ==
  /\ pc = "read"
  /\ taken < Len(sent)
  /\ Next1.fault # "frame"
  /\ Spools => Free > 0
  /\ taken' = taken + 1
  /\ payload' = Spools
  /\ pc' = "decode"
  /\ UNCHANGED <<clientVars, first, readers, artifact, response, outbox>>

(* Mutant: the end of the input is read as an empty message. *)
ReadSpinsAtEnd ==
  /\ pc = "read" /\ taken < Len(sent)
  /\ Next1.fault = "frame" \/ (Spools /\ Free = 0)
  /\ Raise
  /\ UNCHANGED taken

(* A truncated or malformed frame, or no descriptor for the payload. *)
ReadFails ==
  /\ pc = "read"
  /\ IF taken < Len(sent) THEN Next1.fault = "frame" \/ (Spools /\ Free = 0) ELSE inputEnd
  /\ Raise
  /\ UNCHANGED taken

Answer(status) ==
  /\ response' = status
  /\ pc' = "write"

(* Mutant: a message that does not decode is skipped without an answer. *)
DecodeSkips ==
  /\ pc = "decode"
  /\ \/ /\ current.fault = "decode" \/ (~first /\ current.op = "extract")
        /\ pc' = "read" /\ payload' = FALSE /\ UNCHANGED response
     \/ /\ current.fault # "decode" /\ (first \/ current.op # "extract")
        /\ pc' = "execute" /\ UNCHANGED <<payload, response>>
  /\ UNCHANGED <<clientVars, taken, first, readers, artifact, outbox>>

(* _decode; a session also refuses the one operation that is not its own. *)
Decode ==
  /\ pc = "decode"
  /\ \/ /\ current.fault = "decode" \/ (~first /\ current.op = "extract")
        /\ Answer("invalid_request")
     \/ /\ current.fault # "decode" /\ (first \/ current.op # "extract")
        /\ pc' = "execute" /\ UNCHANGED response
  /\ UNCHANGED <<clientVars, taken, first, payload, readers, artifact, outbox>>

(* ExtractDocument.execute: whatever an extractor raises is unexpected here. *)
Extract ==
  /\ pc = "execute" /\ current.op = "extract"
  /\ \/ /\ current.fault \in {"operation", "unexpected"} \/ Short
        /\ Answer("processing_failed") /\ UNCHANGED artifact
     \/ /\ current.fault \in {"none", "unsendable"} /\ ~Short
        /\ artifact' = TRUE
        /\ Answer("ok")
  /\ UNCHANGED <<clientVars, taken, first, payload, readers, outbox>>

(* _require_open_capacity. *)
NoCapacity == current.doc \in readers \/ Cardinality(readers) >= MaxDocuments

(* Mutant: the reader is registered before it is known to be good. *)
OpenRegistersFirst ==
  /\ pc = "execute" /\ current.op \in Openings
  /\ IF NoCapacity THEN Answer("invalid_request") /\ UNCHANGED readers
     ELSE /\ readers' = readers \cup {current.doc}
          /\ Answer(IF Short \/ current.fault = "operation" THEN "invalid_request"
                    ELSE IF current.fault = "unexpected" THEN "processing_failed" ELSE "ok")
  /\ UNCHANGED <<clientVars, taken, first, payload, artifact, outbox>>

(* _open and _open_text: the capacity, the artifact or the text, then the    *)
(* reader is registered. An OSError or a ValueError is a bad artifact; the   *)
(* SQLite error of a writer without descriptors is not translated.           *)
Open ==
  /\ pc = "execute" /\ current.op \in Openings
  /\ \/ /\ NoCapacity \/ current.fault = "operation" \/ Short
        /\ Answer("invalid_request") /\ UNCHANGED readers
     \/ /\ ~NoCapacity
        /\ current.fault = "unexpected" \/ (Short /\ current.op = "open_text")
        /\ Answer("processing_failed") /\ UNCHANGED readers
     \/ /\ ~NoCapacity /\ ~Short /\ current.fault \notin {"operation", "unexpected"}
        /\ readers' = readers \cup {current.doc}
        /\ Answer("ok")
  /\ UNCHANGED <<clientVars, taken, first, payload, artifact, outbox>>

(* _overview, _search, _read and _render: _overview alone does not translate *)
(* a ValueError of the reader, and what the renderer raises for want of a    *)
(* descriptor is its library's choice.                                       *)
QueryStatus ==
  CASE current.doc \notin readers     -> {"invalid_request"}
    [] current.doc \in readers /\ Short -> {"invalid_request", "processing_failed"}
    [] current.doc \in readers /\ ~Short /\ current.fault = "operation" ->
         IF current.op = "overview" THEN {"processing_failed"} ELSE {"invalid_request"}
    [] current.doc \in readers /\ ~Short /\ current.fault = "unexpected" -> {"processing_failed"}
    [] OTHER -> {"ok"}

Query ==
  /\ pc = "execute" /\ current.op \in Queries
  /\ \E status \in QueryStatus : Answer(status)
  /\ UNCHANGED <<clientVars, taken, first, payload, readers, artifact, outbox>>

Release ==
  /\ pc = "execute" /\ current.op = "release"
  /\ readers' = readers \ {current.doc}
  /\ Answer("ok")
  /\ UNCHANGED <<clientVars, taken, first, payload, artifact, outbox>>

CloseSession ==
  /\ pc = "execute" /\ current.op = "close"
  /\ readers' = {}
  /\ Answer("ok")
  /\ UNCHANGED <<clientVars, taken, first, payload, artifact, outbox>>

(* Whether run() returns once this message is answered. *)
LastMessage ==
  \/ first /\ (current.fault = "decode" \/ current.op = "extract")
  \/ current.fault # "decode" /\ current.op = "close"

(* _write outside of the try of _handle: the codec refuses a response that   *)
(* exceeds its limits before the first byte, and the pipe may be broken.     *)
WriteFails ==
  /\ pc = "write"
  /\ outputEnd \/ (response = "ok" /\ current.fault = "unsendable")
  /\ Raise
  /\ UNCHANGED taken

Write ==
  /\ pc = "write"
  /\ ~outputEnd
  /\ ~(response = "ok" /\ current.fault = "unsendable")
  /\ outbox' = Append(outbox, [of |-> taken, status |-> response])
  /\ payload' = FALSE /\ artifact' = FALSE
  /\ first' = FALSE
  /\ pc' = IF LastMessage THEN "closing" ELSE "read"
  /\ UNCHANGED <<clientVars, taken, readers, response>>

(* finally: application.close(). *)
CloseApplication ==
  /\ pc = "closing"
  /\ readers' = {}
  /\ pc' = "exited"
  /\ UNCHANGED <<clientVars, taken, first, payload, artifact, response, outbox>>

(* The five minute limit, the memory limit, or a crash of a parser: the      *)
(* kernel and the unit's private /tmp take everything back.                  *)
Kill ==
  /\ pc \notin Ended
  /\ pc' = "killed"
  /\ readers' = {} /\ payload' = FALSE /\ artifact' = FALSE
  /\ UNCHANGED <<clientVars, taken, first, response, outbox>>

ProcessStep ==
  \/ ReadMessage \/ ReadFails \/ Decode \/ Extract \/ Open \/ Query \/ Release
  \/ CloseSession \/ Write \/ WriteFails \/ CloseApplication

Next == Send \/ CloseInput \/ CloseOutput \/ ProcessStep \/ Kill

(* The process runs as long as it can; neither client nor kill is owed.      *)
Spec == Init /\ [][Next]_vars /\ WF_vars(ProcessStep)

-----------------------------------------------------------------------------
(* run() answers what it read, once and in order: the i-th response is about *)
(* the i-th message, and at most the message in hand is unanswered.          *)
ResponsesFollowMessages ==
  /\ \A i \in 1..Len(outbox) : outbox[i].of = i
  /\ Len(outbox) <= taken /\ taken <= Len(outbox) + 1 /\ taken <= Len(sent)
  /\ pc = "read" => Len(outbox) = taken

(* Whatever went wrong with a message, no temporary file is left when the    *)
(* process waits for the next one, and nothing at all when it exits.         *)
NothingLeaks ==
  /\ pc \in {"read", "closing"} => ~payload /\ ~artifact
  /\ pc = "exited" => ~payload /\ ~artifact /\ readers = {}

(* What a client that keeps count of the answers believes to be open.        *)
Opened(i, d)   == /\ outbox[i].status = "ok" /\ sent[i].op \in Openings /\ sent[i].doc = d
Released(i, d) == /\ outbox[i].status = "ok"
                  /\ sent[i].op = "close" \/ (sent[i].op = "release" /\ sent[i].doc = d)
BelievedOpen ==
  {d \in Documents : \E i \in 1..Len(outbox) :
      Opened(i, d) /\ \A j \in (i + 1)..Len(outbox) : ~Released(j, d)}

(* DocumentSession agrees with its client: between messages exactly the      *)
(* documents whose opening was answered "ok" and not undone since are open,  *)
(* a refused or failed opening leaves no trace.                              *)
SessionMatchesAnswers == pc = "read" => readers = BelievedOpen

(* Every message is answered or the process ends, and the end of the input   *)
(* ends the process: it waits for nobody but its client.                     *)
EveryMessageSettles ==
  /\ \A i \in 1..MaxSent : (Len(sent) >= i) ~> (Len(outbox) >= i \/ pc \in Ended)
  /\ inputEnd ~> pc \in Ended

(* DocumentSession.MAX_DOCUMENTS is the capacity of a session: as long as    *)
(* fewer documents are open, a valid artifact that is not open yet opens.    *)
ValidArtifactsOpenBelowCapacity ==
  pc = "write" /\ current.op = "open" /\ current.fault = "none"
    /\ current.doc \notin readers /\ Cardinality(readers) < MaxDocuments
      => response = "ok"
=============================================================================
