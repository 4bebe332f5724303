-------------------------- MODULE MCDocumentWorker --------------------------
(* Instances of DocumentWorker for TLC: small alphabets of messages. *)
EXTENDS DocumentWorker, TLC

CONSTANTS d1, d2, d3

Message(op, d, fault) == [op |-> op, doc |-> d, fault |-> fault]

(* Every operation and every fault, for a session of two documents. *)
AllMessages ==
  {Message("extract", d1, f)   : f \in {"none", "unexpected", "unsendable"}} \cup
  {Message("open", d, "none")  : d \in {d1, d2}} \cup
  {Message("open", d1, "operation"), Message("open_text", d2, "unexpected"),
   Message("open_text", d1, "none"),
   Message("read", d1, "none"), Message("read", d1, "unsendable"),
   Message("overview", d1, "operation"), Message("search", d2, "none"),
   Message("render", d2, "unexpected"),
   Message("release", d1, "none"), Message("release", d2, "decode"),
   Message("close", d1, "none"), Message("close", d1, "frame")}

(* A client that opens one valid document after the other. *)
ValidOpenings == {Message("open", d, "none") : d \in {d1, d2, d3}}
=============================================================================
