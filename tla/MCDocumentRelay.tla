--------------------------- MODULE MCDocumentRelay ---------------------------
(* Instances of DocumentRelay for TLC. *)
EXTENDS DocumentRelay, TLC
=============================================================================
