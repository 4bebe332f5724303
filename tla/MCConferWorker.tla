--------------------------- MODULE MCConferWorker ---------------------------
(* Instances of ConferWorker for TLC. *)
EXTENDS ConferWorker
=============================================================================
