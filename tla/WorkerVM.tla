------------------------------ MODULE WorkerVM ------------------------------
(***************************************************************************)
(* The state of one confidential VM that its services share: its power     *)
(* cycles, the files of /run/confer (a tmpfs, so empty at every boot), the *)
(* measurement register RTMR3 (zero at every boot), and a history of the   *)
(* clients that were sent the reservation acknowledgement in this boot.    *)
(*                                                                         *)
(* A client stands for the Ed25519 key and the challenge it sends.  The    *)
(* host key is generated anew in each boot, so the boot number names it.   *)
(***************************************************************************)
EXTENDS Naturals, Sequences, FiniteSets

CONSTANTS
  Clients,      \* the SSH clients (the proxy, and whoever else connects)
  NoClient,     \* no connection, or no key in authorized_keys
  Foreign,      \* an RTMR3 extension made by any other software of the guest
  MaxBoots,     \* bound: power cycles explored
  MaxForeign    \* bound: foreign extensions explored in one boot

ASSUME ClientsAssumption ==
  /\ NoClient \notin Clients
  /\ MaxBoots \in Nat \ {0}
  /\ MaxForeign \in Nat

VARIABLES
  power,          \* "on" or "off"
  boot,           \* the number of this boot
  files,          \* the names of the files that exist in /run/confer
  instanceId,     \* the kind of id that configuration wrote to instance-id
  authorizedKey,  \* the client whose key authorized_keys holds
  rtmr3,          \* the extensions RTMR3 hashes together, oldest first
  foreign,        \* how many of them were foreign (for the bound)
  admissions      \* history: the clients acknowledged in this boot, in order

vmVars == <<power, boot, files, instanceId, authorizedKey, rtmr3, foreign, admissions>>

ConfigFiles == {"instance-id", "host-key", "manifest", "bundle"}
FileNames   == ConfigFiles \cup {"listener-started", "ready", "authorized_keys"}

(* The digest that record_reservation extends RTMR3 with: it binds the host *)
(* key of the boot to the client's key and challenge.                       *)
Event(b, c)  == [hostKey |-> b, client |-> c, kind |-> "reservation"]
Events       == [hostKey : Nat, client : Clients, kind : {"reservation"}]
ForeignEvent == [hostKey |-> 0, client |-> Foreign, kind |-> "foreign"]
Register     == Seq(Events \cup {ForeignEvent})

VMTypeOK ==
  /\ power \in {"on", "off"}
  /\ boot \in Nat
  /\ files \subseteq FileNames
  /\ instanceId \in {"none", "valid", "tooLarge"}
  /\ authorizedKey \in Clients \cup {NoClient}
  /\ rtmr3 \in Register
  /\ foreign \in Nat
  /\ admissions \in Seq(Clients)

(* A boot finds an empty tmpfs and a zero register. *)
VMReset ==
  /\ files = {}
  /\ instanceId = "none"
  /\ authorizedKey = NoClient
  /\ rtmr3 = <<>>
  /\ foreign = 0
  /\ admissions = <<>>

VMInit == power = "on" /\ boot = 1 /\ VMReset

(* Any other privileged software of the guest may extend the register, at   *)
(* any moment.                                                              *)
ForeignExtension ==
  /\ power = "on"
  /\ foreign < MaxForeign
  /\ rtmr3' = Append(rtmr3, ForeignEvent)
  /\ foreign' = foreign + 1
  /\ UNCHANGED <<power, boot, files, instanceId, authorizedKey, admissions>>
=============================================================================
