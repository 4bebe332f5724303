--------------------------- MODULE WorkerMessages ---------------------------
(***************************************************************************)
(* WorkerProcess between its two streams: a message is read, handled, and  *)
(* released; a failure that is not the request's fault is reported to      *)
(* stderr before the answer, and the next message is read all the same.    *)
(* The sessions and their answers are those of DocumentWorker.             *)
(***************************************************************************)
EXTENDS ProtocolFrames, ErrorReporter

CONSTANTS Failing   \* bound: the message whose handling may fail

vars == <<frameVars, reporterVars>>

Init == FramesInit /\ ReporterInit

(* _handle: an answer, or an exception on its way to the reporter. *)
Handle ==
  /\ phase = "handling"
  /\ \/ CloseMessage /\ UNCHANGED reporterVars
     \/ /\ Len(received) = Failing
        /\ \E f \in Failures : Raise(f)
        /\ phase' = "reporting"
        /\ UNCHANGED <<current, field, got, spools, received>>
  /\ UNCHANGED <<writerVars, stream>>

(* The report is written, or cannot be; either way the worker goes on. *)
EndReport ==
  /\ phase = "reporting" /\ ~reporting
  /\ CloseMessage
  /\ failure' = NoFailure /\ at' = 0 /\ chain' = <<>> /\ truncated' = FALSE /\ UNCHANGED reporting
  /\ UNCHANGED <<writerVars, stream>>

Report == phase = "reporting" /\ WalkChain /\ UNCHANGED frameVars

Next ==
  \/ FramesNext /\ UNCHANGED reporterVars
  \/ Handle \/ Report \/ EndReport

Spec == Init /\ [][Next]_vars
=============================================================================
