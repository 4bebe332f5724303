-------------------------- MODULE MCWorkerMessages --------------------------
(* Instances of WorkerMessages for TLC. *)
EXTENDS WorkerMessages, TLC

Payload(role, length) == [role |-> role, length |-> length]

(* None, empty, one, two; one or the sum too large, a role twice, a header   *)
(* too long.                                                                 *)
MCMessages == {
  <<>>, <<Payload("source", 0)>>, <<Payload("source", 2)>>, <<Payload("source", 2), Payload("text", 1)>>,
  <<Payload("source", 3)>>, <<Payload("source", 2), Payload("text", 2)>>, <<Payload("text", 1), Payload("text", 1)>>,
  <<Payload("source", 0), Payload("text", 0), Payload("image", 0)>>}

Links == [cause : 0..3, context : 0..3, suppress : BOOLEAN]
Exception(link, frames) == [cause |-> link.cause, context |-> link.context, suppress |-> link.suppress, frames |-> frames]
Raised(cause) == [cause |-> cause, context |-> 0, suppress |-> FALSE]
MCFailures ==
  {<<Exception(a, 1), Exception(Raised(b), 2), Exception(Raised(c), 3)>> : a \in Links, b \in 0..3, c \in 0..3}
=============================================================================
