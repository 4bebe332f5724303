--------------------------- MODULE ArtifactReading ---------------------------
(***************************************************************************)
(* A document from end to end: ArtifactWriter writes it, and a client      *)
(* reads it container after container through ArtifactReader, a window of  *)
(* a bounded number of containers and bytes at a time, going on behind     *)
(* the last container each answer names.                                   *)
(***************************************************************************)
EXTENDS ArtifactWriter

CONSTANTS
  MaxCount,  \* the most containers a request may ask for (20)
  MaxBytes   \* max_bytes of read_containers (64,000)

ASSUME WindowAssumption == MaxCount \in Nat \ {0} /\ MaxBytes \in Nat /\ MaxBytes >= 4

VARIABLES
  next,     \* the container the client asks for next
  windows   \* the windows it was given

readVars == <<vars, next, windows>>

ReadInit == Init /\ next = 0 /\ windows = <<>>

WriteStep == Next /\ UNCHANGED <<next, windows>>

(* read_containers: the whole containers that fit; a first container that    *)
(* does not fit alone is cut, at a character, and nothing follows it.        *)
Row(k)  == containers[k + 1]
Requested(number, count) == number..Smaller(Len(containers) - 1, number + count - 1)
(* Mutant: a container that fits exactly does not fit. *)
FittingStrictly(number, count) == {k \in Requested(number, count) : Row(k).to - Row(number).from < MaxBytes}

Fitting(number, count)   == {k \in Requested(number, count) : Row(k).to - Row(number).from <= MaxBytes}

Window(number, count) ==
  IF Fitting(number, count) = {}
  THEN [first |-> number, last |-> number, from |-> Row(number).from,
        to |-> Utf8Boundary(Row(number).from + MaxBytes), truncated |-> TRUE]
  ELSE LET last == Greatest(Fitting(number, count))
       IN  [first |-> number, last |-> last, from |-> Row(number).from,
            to |-> Row(last).to, truncated |-> FALSE]

(* Mutant: a container that does not fit is an error. *)
ReadWholeOnly ==
  /\ pc = "done"
  /\ next < Len(containers)
  /\ \E count \in 1..MaxCount :
       LET window == Window(next, count)
       IN  ~window.truncated /\ windows' = Append(windows, window) /\ next' = window.last + 1
  /\ UNCHANGED vars

Read ==
  /\ pc = "done"
  /\ next < Len(containers)
  /\ \E count \in 1..MaxCount :
       LET window == Window(next, count)
       IN  windows' = Append(windows, window) /\ next' = window.last + 1
  /\ UNCHANGED vars

ReadNext == WriteStep \/ Read

ReadSpec == ReadInit /\ [][ReadNext]_readVars /\ WF_readVars(ReadNext)

-----------------------------------------------------------------------------
(* Chunks advance within their size, an answer stays within its budget, and  *)
(* both are text: they start and end at a character, so that they decode.    *)
PiecesAreBoundedText ==
  /\ ChunksAdvance
  /\ \A i \in 1..Len(chunks) : IsCut(chunks[i].from) /\ IsCut(chunks[i].to)
  /\ \A i \in 1..Len(windows) :
       /\ windows[i].to - windows[i].from <= MaxBytes
       /\ IsCut(windows[i].from) /\ IsCut(windows[i].to)

(* A client that follows the answers to the end has read every container     *)
(* once and whole, except those it was told are cut; and a container is cut  *)
(* only because it exceeds the budget, which it then uses up but for less    *)
(* than one character.                                                       *)
Holds(window, k) == window.from <= Row(k).from /\ Row(k).to <= window.to /\ ~window.truncated
PagingReadsEverything ==
  /\ pc = "done" /\ next = Len(containers) =>
       \A k \in 0..(Len(containers) - 1) :
         IF Row(k).to - Row(k).from <= MaxBytes
         THEN Cardinality({i \in 1..Len(windows) :
                             windows[i].first <= k /\ k <= windows[i].last /\ Holds(windows[i], k)}) = 1
         ELSE \E i \in 1..Len(windows) :
                /\ windows[i].first = k /\ windows[i].last = k
                /\ windows[i].truncated /\ windows[i].from = Row(k).from
                /\ windows[i].to > windows[i].from + MaxBytes - 4
  /\ \A i \in 1..(Len(windows) - 1) : windows[i + 1].first = windows[i].last + 1

(* Paging through a document comes to an end. *)
PagingEnds == <>(pc = "done" /\ next = Len(containers))
=============================================================================
