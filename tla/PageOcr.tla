------------------------------- MODULE PageOcr -------------------------------
(***************************************************************************)
(* What PDF extraction promises, whatever it runs in parallel: pages with  *)
(* a text of their own keep it, the pages that need OCR are completed one  *)
(* after the other in document order, each with the text of its own image, *)
(* and the extraction succeeds exactly when every page has its text.       *)
(***************************************************************************)
EXTENDS Naturals

VARIABLES
  ownPages, \* the numbers of the pages with a text of their own, or none
  ocrPages, \* the numbers of the pages that need OCR
  badPages, \* the numbers of the pages that cannot be processed
  text,     \* for each page that is completed, the page its text came from
  outcome   \* "running", "ok" or "failed"

pageVars == <<ownPages, ocrPages, badPages, text, outcome>>

Init ==
  /\ ownPages \subseteq Nat /\ ocrPages \subseteq Nat /\ badPages \subseteq Nat
  /\ text = {}
  /\ outcome = "running"

Completed == {t[1] : t \in text}

KeepOwn ==
  /\ outcome = "running"
  /\ text' = text \cup {<<p, p>> : p \in ownPages}
  /\ UNCHANGED <<ownPages, ocrPages, badPages, outcome>>

(* The first page in order that has no text yet. *)
Recognize ==
  /\ outcome = "running"
  /\ \E p \in ocrPages \ Completed :
       /\ p \notin badPages
       /\ \A q \in ocrPages \ Completed : p <= q
       /\ text' = text \cup {<<p, p>>}
  /\ UNCHANGED <<ownPages, ocrPages, badPages, outcome>>

Succeed ==
  /\ outcome = "running"
  /\ Completed = ownPages \cup ocrPages /\ badPages = {}
  /\ outcome' = "ok"
  /\ UNCHANGED <<ownPages, ocrPages, badPages, text>>

Fail ==
  /\ outcome = "running"
  /\ badPages # {}
  /\ outcome' = "failed"
  /\ UNCHANGED <<ownPages, ocrPages, badPages, text>>

Next == KeepOwn \/ Recognize \/ Succeed \/ Fail

Spec == Init /\ [][Next]_pageVars
=============================================================================
