----------------------------- MODULE Reservation -----------------------------
(***************************************************************************)
(* What the worker promises its client, with no process, file, socket or   *)
(* clock in sight: in the life of a VM at most one client holds it; the    *)
(* only key ever authorised is the holder's; the attestation is sent when  *)
(* that key is in place; only the holder gets a session; and a VM that was *)
(* held and is over is never open again before the next boot.              *)
(***************************************************************************)
CONSTANTS Clients, NoClient

VARIABLES phase, holder, key

vars == <<phase, holder, key>>

Init == phase = "open" /\ holder = NoClient /\ key = NoClient

Hold(c) ==
  /\ phase = "open"
  /\ phase' = "held" /\ holder' = c
  /\ UNCHANGED key

Authorize ==
  /\ phase = "held" /\ key = NoClient
  /\ key' = holder
  /\ UNCHANGED <<phase, holder>>

Attest ==
  /\ phase = "held" /\ key = holder
  /\ phase' = "attested"
  /\ UNCHANGED <<holder, key>>

Login ==
  /\ phase = "attested" /\ key = holder
  /\ phase' = "session"
  /\ UNCHANGED <<holder, key>>

End ==
  /\ phase # "over"
  /\ phase' = "over"
  /\ UNCHANGED <<holder, key>>

NewBoot ==
  /\ phase = "over"
  /\ phase' = "open" /\ holder' = NoClient /\ key' = NoClient

Next == (\E c \in Clients : Hold(c)) \/ Authorize \/ Attest \/ Login \/ End \/ NewBoot

Safety == Init /\ [][Next]_vars

(* A VM that is held does not stay held: it attests itself or it is over. *)
Settle == Attest \/ (phase \in {"held", "attested"} /\ (Login \/ End))

Spec == Safety /\ WF_vars(Settle)
=============================================================================
