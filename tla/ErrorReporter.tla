--------------------------- MODULE ErrorReporter ---------------------------
(***************************************************************************)
(* WorkerErrorReporter: the exceptions behind a failure, from the one that *)
(* was raised to the one it all began with, each with its last frames. An  *)
(* exception is a number from 1 on, 0 is none; links between them may form *)
(* a circle.                                                               *)
(***************************************************************************)
EXTENDS Naturals, Sequences, FiniteSets, SequencesExt, FiniteSetsExt

CONSTANTS
  Exceptions,     \* the exceptions there are; 1 is the one that was raised
  Failures,       \* what they may be: [cause, context, suppress, frames]
  MaxExceptions,  \* MAX_EXCEPTIONS (4)
  MaxFrames       \* MAX_FRAMES (32)

ASSUME ReporterAssumption ==
  /\ Exceptions \subseteq Nat \ {0} /\ 1 \in Exceptions /\ IsFiniteSet(Exceptions)
  /\ \A failure \in Failures : \A e \in Exceptions :
       failure[e] \in [cause : Exceptions \cup {0}, context : Exceptions \cup {0}, suppress : BOOLEAN, frames : Nat]
  /\ MaxExceptions \in Nat \ {0} /\ MaxFrames \in Nat

VARIABLES
  failure,   \* the exceptions of the failure that is reported
  at,        \* current
  chain,     \* the report: the exceptions, with the frames shown of each
  truncated, \* chain_truncated
  reporting  \* _exception_chain runs

reporterVars == <<failure, at, chain, truncated, reporting>>

NoFailure == <<>>
ReporterInit == failure = NoFailure /\ at = 0 /\ chain = <<>> /\ truncated = FALSE /\ reporting = FALSE

Raise(f) == failure' = f /\ at' = 1 /\ chain' = <<>> /\ truncated' = FALSE /\ reporting' = TRUE

(* _cause: what it was raised from, or else what was handled at the time,    *)
(* unless that is suppressed.                                                *)
Cause(e) == IF failure[e].cause # 0 THEN failure[e].cause
            ELSE IF failure[e].suppress THEN 0 ELSE failure[e].context

(* _frames: the last ones, and whether there were more. *)
Frames(e) == [shown |-> Min({MaxFrames, failure[e].frames}), more |-> failure[e].frames > MaxFrames]

Seen == {chain[i].exception : i \in DOMAIN chain}

(* Mutant: an exception is not remembered. *)
WalkChainUnseen ==
  /\ reporting
  /\ IF at = 0 \/ Len(chain) = MaxExceptions
     THEN truncated' = (at # 0) /\ reporting' = FALSE /\ UNCHANGED <<chain, at>>
     ELSE /\ chain' = Append(chain, [exception |-> at, frames |-> Frames(at)])
          /\ at' = Cause(at) /\ UNCHANGED <<truncated, reporting>>
  /\ UNCHANGED failure

(* One iteration of _exception_chain. *)
WalkChain ==
  /\ reporting
  /\ IF at = 0 \/ Len(chain) = MaxExceptions \/ at \in Seen
     THEN truncated' = (at # 0) /\ reporting' = FALSE /\ UNCHANGED <<chain, at>>
     ELSE /\ chain' = Append(chain, [exception |-> at, frames |-> Frames(at)])
          /\ at' = Cause(at) /\ UNCHANGED <<truncated, reporting>>
  /\ UNCHANGED failure

-----------------------------------------------------------------------------
(* A report begins with what was raised, shows no exception twice and leaves *)
(* none out between two others; and it says so exactly when it does not show *)
(* every exception that led to the failure, or they lead back to one shown.  *)
(* Led is all of the chain: what causes lead to from the one that was raised. *)
Led == {e \in Exceptions : \E path \in BoundedSeq(Exceptions, Cardinality(Exceptions)) :
          /\ path # <<>> /\ path[1] = 1 /\ path[Len(path)] = e
          /\ \A i \in 1..(Len(path) - 1) : path[i + 1] = Cause(path[i])}
ChainIsReportedOnce ==
  failure # NoFailure /\ ~reporting =>
    /\ chain # <<>> /\ chain[1].exception = 1
    /\ IsInjective([i \in DOMAIN chain |-> chain[i].exception])
    /\ \A i \in 1..(Len(chain) - 1) : chain[i + 1].exception = Cause(chain[i].exception)
    /\ Len(chain) = Min({MaxExceptions, Cardinality(Led)})
    /\ truncated <=> (Seen # Led \/ \A e \in Led : Cause(e) # 0)
=============================================================================
