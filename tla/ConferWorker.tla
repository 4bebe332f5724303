---------------------------- MODULE ConferWorker ----------------------------
(***************************************************************************)
(* The VM: its configuration unit, its listener, its health responder, and *)
(* systemd, which orders them, removes the ready file after the listener   *)
(* and powers the VM off when the listener ends, however it ends.          *)
(***************************************************************************)
EXTENDS WorkerConfig, WorkerListener, WorkerHealth

CONSTANT MaxStarts  \* bound: times the listener is started in one boot

ASSUME StartsAssumption == MaxStarts \in Nat \ {0}

VARIABLE starts     \* how often the listener was started in this boot

vars == <<vmVars, configPc, listenerVars, healthVars, starts>>

TypeOK ==
  /\ VMTypeOK /\ ConfigTypeOK /\ ListenerTypeOK /\ HealthTypeOK
  /\ starts \in Nat

Init ==
  /\ VMInit /\ ConfigInit /\ ListenerInit /\ HealthInit
  /\ starts = 0

-----------------------------------------------------------------------------
(* Requires= and After=: the listener's job waits for the configuration unit *)
(* and is dropped when that fails.                                           *)
StartListener ==
  /\ power = "on" /\ pc = "inactive" /\ configPc = "done"
  /\ pc' = "claim" /\ starts' = starts + 1
  /\ UNCHANGED <<vmVars, listening, backlog, peer, cutoff, expired, quote, clientVars>>

(* An ExecStartPre command fails and with it the unit. *)
StartFails ==
  /\ power = "on" /\ pc = "inactive" /\ configPc = "done"
  /\ Raise
  /\ UNCHANGED starts

(* Restart=no and RefuseManualStart=yes leave no regular way to start the    *)
(* unit twice; the listener defends itself against it all the same.          *)
StartAgain ==
  /\ power = "on" /\ pc = "stopped" /\ 0 < starts /\ starts < MaxStarts
  /\ pc' = "claim" /\ starts' = starts + 1
  /\ UNCHANGED <<vmVars, listening, backlog, peer, cutoff, expired, quote, clientVars>>

(* ExecStopPost. *)
ServiceStops ==
  /\ power = "on" /\ pc = "exited"
  /\ files' = files \ {"ready"}
  /\ pc' = "stopped"
  /\ UNCHANGED <<power, boot, instanceId, authorizedKey, rtmr3, foreign, admissions,
                 listening, backlog, peer, cutoff, expired, quote, clientVars, starts>>

(* SuccessAction= and FailureAction=poweroff-force; nothing of the VM's      *)
(* memory survives.                                                          *)
Halt ==
  /\ power' = "off"
  /\ pc' = "stopped" /\ listening' = FALSE /\ backlog' = <<>> /\ peer' = NoClient
  /\ UNCHANGED <<boot, files, instanceId, authorizedKey, rtmr3, foreign, admissions,
                 cutoff, expired, quote, clientVars, starts>>

PowerOff == power = "on" /\ pc = "stopped" /\ Halt

(* The host stops or loses the VM. *)
PowerLoss == power = "on" /\ Halt

Boot ==
  /\ power = "off" /\ boot < MaxBoots
  /\ power' = "on" /\ boot' = boot + 1
  /\ files' = {} /\ instanceId' = "none" /\ authorizedKey' = NoClient
  /\ rtmr3' = <<>> /\ foreign' = 0 /\ admissions' = <<>>
  /\ configPc' = "fetchId"
  /\ pc' = "inactive" /\ listening' = FALSE /\ backlog' = <<>> /\ peer' = NoClient
  /\ cutoff' = FALSE /\ expired' = FALSE /\ quote' = NoQuote
  /\ probe' = [p \in Probes |-> "idle"] /\ lineNumber' = [p \in Probes |-> 0]
  /\ seconds' = [p \in Probes |-> 0]
  /\ late' = [p \in Probes |-> FALSE]
  /\ starts' = 0
  /\ UNCHANGED clientVars

SystemdStep ==
  /\ StartListener \/ StartFails \/ StartAgain \/ ServiceStops \/ PowerOff \/ PowerLoss
  /\ UNCHANGED <<configPc, healthVars>>

Next ==
  \/ ConfigNext /\ UNCHANGED <<listenerVars, healthVars, starts>>
  \/ power = "on" /\ ListenerNext /\ UNCHANGED <<configPc, healthVars, starts>>
  \/ power = "on" /\ HealthNext /\ UNCHANGED <<configPc, listenerVars, starts>>
  \/ ForeignExtension /\ UNCHANGED <<configPc, listenerVars, healthVars, starts>>
  \/ SystemdStep
  \/ Boot

(* The scheduler runs every process that can run, clocks advance, and        *)
(* systemd finishes what it started.  No client, probe, host or kill is fair. *)
Fairness ==
  /\ WF_vars(power = "on" /\ ConfigStep /\ UNCHANGED <<listenerVars, healthVars, starts>>)
  /\ WF_vars(power = "on" /\ ListenerStep /\ UNCHANGED <<configPc, healthVars, starts>>)
  /\ WF_vars(power = "on" /\ (CutoffPasses \/ DeadlineExpires)
               /\ UNCHANGED <<configPc, healthVars, starts>>)
  /\ WF_vars(power = "on" /\ LoginGraceEnds /\ UNCHANGED <<configPc, healthVars, starts>>)
  /\ WF_vars((StartListener \/ ServiceStops \/ PowerOff) /\ UNCHANGED <<configPc, healthVars>>)
  /\ \A p \in Probes :
       /\ WF_vars(power = "on" /\ ProbeStep(p) /\ UNCHANGED <<vmVars, configPc, listenerVars, starts>>)
       /\ WF_vars(power = "on" /\ SecondPasses(p) /\ UNCHANGED <<vmVars, configPc, listenerVars, starts>>)

Spec == Init /\ [][Next]_vars /\ Fairness

-----------------------------------------------------------------------------
(* What the proxy checks of an attestation: the quote is about its own key   *)
(* and challenge, and RTMR3 is exactly one extension by that reservation.    *)
Verifies(c) ==
  /\ attestation[c] # NoQuote
  /\ attestation[c].report.client = c
  /\ attestation[c].rtmr3 = <<attestation[c].report>>

ThisBoot(c) == attestation[c] # NoQuote /\ attestation[c].report.hostKey = boot

(* README: the listener "reserves exactly one connection".  Across every     *)
(* failure and every further start of the unit, a boot acknowledges at most  *)
(* one client.                                                               *)
AtMostOneAdmission == Len(admissions) <= 1

(* README: an RTMR3 of exactly one extension proves that "the proxy is the   *)
(* first to ever connect".  A client whose attestation verifies was the only *)
(* one ever admitted to this VM, and sshd accepts its key and no other.      *)
FirstToConnect ==
  \A c \in Clients : ThisBoot(c) /\ Verifies(c) => admissions = <<c>> /\ authorizedKey = c

(* record_reservation checks the register before anything is signed: no      *)
(* attestation that leaves the VM covers an extension older than its own.    *)
NothingBeforeReservation ==
  \A c \in Clients : attestation[c] # NoQuote =>
      /\ attestation[c].rtmr3 # <<>>
      /\ attestation[c].rtmr3[1] = attestation[c].report
      /\ attestation[c].report.client = c

(* accept_until leaves nothing open behind it: once a client was admitted no *)
(* health probe finds the ready file and no other connection is established, *)
(* in this start of the unit or a later one; and whatever order probe and    *)
(* listener run in, a probe that the load balancer opened after the worker   *)
(* was taken is never answered 200.                                          *)
AdmissionClosesTheDoor ==
  /\ admissions # <<>> => "ready" \notin files /\ ~listening /\ backlog = <<>>
  /\ \A p \in Probes : late[p] => probe[p] # "ok"

(* The ready file advertises a socket that is open, but for the two places   *)
(* where it outlives it: between listener.close() and withdraw_ready, and    *)
(* between a kill of the process and ExecStopPost.                           *)
AdvertisedIsReachable ==
  "ready" \in files => listening \/ pc \in {"withdrawing", "exited"} \/ power = "off"

(* systemd's ordering and the steps of the configuration script together:    *)
(* no listener ever misses a file the configuration provides.                *)
ListenerIsConfigured == pc \in Running => ConfigFiles \subseteq files

(* Every started listener ends in a session of the client it admitted or     *)
(* takes the VM down: a silent, slow or unauthenticated client cannot keep   *)
(* the worker reserved.                                                      *)
ReservationSettles == (power = "on" /\ pc = "claim") ~> (pc = "session" \/ power = "off")

(* Each read times out after a second.  So systemd kills the process of a    *)
(* client that drips, and of no other: one that sent a line for each second  *)
(* but the last.  The limit of lines does not save that process, since 32 of *)
(* them may take longer than RuntimeMaxSec.                                  *)
OnlyDripsAreKilled ==
  \A p \in Probes : probe[p] = "killed" => lineNumber[p] + 1 >= RuntimeSeconds

(* A probe is answered if its client falls silent, or closes, or sends lines *)
(* without a pause and without an end; a process whose client drips gives    *)
(* its connection back at the runtime limit, without an answer.              *)
ProbesEnd ==
  \A p \in Probes :
    p \in Active ~> \/ probe[p] \in {"ok", "unavailable"}
                    \/ probe[p] = "killed" /\ lineNumber[p] + 1 >= RuntimeSeconds
                    \/ power = "off"

-----------------------------------------------------------------------------
(* The inductive invariant behind the safety properties.  Where serve() is   *)
(* decides what the files, the socket, the register and the history hold.    *)

BeforeAcknowledge == {"configure", "bind", "admit", "accepting", "closing",
                      "withdrawing", "acknowledge"}
Authorized        == {"extend", "check", "quote", "send", "execute", "sshd", "session"}
Admitted          == {"readLength", "readBody", "parse"} \cup Authorized

(* The marker precedes every admission, and an admission needs a fresh claim. *)
ClaimInv ==
  /\ "listener-started" \notin files =>
        pc \in {"inactive", "claim", "exited", "stopped"} /\ admissions = <<>>
  /\ pc \in BeforeAcknowledge => admissions = <<>>
  /\ admissions = <<>> \/ \E c \in Clients : admissions = <<c>>

PeerInv ==
  /\ pc = "acknowledge" => peer \in Clients
  /\ pc \in Admitted => peer \in Clients /\ admissions = <<peer>>

DoorInv ==
  /\ pc \in {"admit", "accepting"} => listening
  /\ admissions # <<>> => "ready" \notin files /\ ~listening /\ backlog = <<>>
  /\ pc = "withdrawing" => ~listening /\ backlog = <<>>
  /\ pc = "acknowledge" => "ready" \notin files /\ ~listening /\ backlog = <<>>
  /\ "ready" \in files => \/ pc \in {"accepting", "closing"} /\ listening
                          \/ pc \in {"withdrawing", "exited"}
                          \/ power = "off"

KeyInv ==
  /\ authorizedKey # NoClient => admissions = <<authorizedKey>> /\ "authorized_keys" \in files
  /\ pc \in Authorized => authorizedKey = peer

QuoteInv ==
  /\ pc = "quote" => rtmr3 # <<>> /\ rtmr3[1] = Event(boot, peer)
  /\ pc = "send" => /\ quote \in Quotes
                    /\ quote.report = Event(boot, peer)
                    /\ quote.rtmr3 # <<>> /\ quote.rtmr3[1] = quote.report

AttestationInv ==
  \A c \in Clients : attestation[c] # NoQuote =>
      /\ attestation[c].report.client = c
      /\ attestation[c].report.hostKey <= boot
      /\ attestation[c].rtmr3 # <<>>
      /\ attestation[c].rtmr3[1] = attestation[c].report
      /\ ThisBoot(c) => admissions = <<c>> /\ authorizedKey = c

LateInv ==
  \A p \in Probes : late[p] => admissions # <<>> /\ probe[p] # "ok"

(* Every second a process has run is one of a line it read, or of the last   *)
(* read, which has not brought one.                                          *)
ClockInv ==
  \A p \in Probes :
    /\ probe[p] = "reading" => seconds[p] <= lineNumber[p]
    /\ probe[p] \in {"waited", "checking"} => seconds[p] <= lineNumber[p] + 1
    /\ probe[p] = "killed" => lineNumber[p] + 1 >= RuntimeSeconds

ConfigInv ==
  /\ configPc \in {"publishId", "manifest", "bundle", "done"} => "host-key" \in files
  /\ configPc \in {"manifest", "bundle", "done"} => "instance-id" \in files
  /\ configPc \in {"bundle", "done"} => "manifest" \in files
  /\ configPc = "done" => "bundle" \in files
  /\ pc = "inactive" \/ configPc = "done" \/ power = "off"
  /\ power = "off" => pc = "stopped"

(* Strengthens the safety properties above until every step preserves it.    *)
IndInv ==
  /\ TypeOK
  /\ ClaimInv /\ PeerInv /\ DoorInv /\ KeyInv /\ QuoteInv
  /\ AttestationInv /\ LateInv /\ ClockInv /\ ConfigInv

-----------------------------------------------------------------------------
(* The VM implements Reservation.  A listener that was killed before it      *)
(* claimed the boot leaves the VM open for another start of the unit.        *)
over ==
  power = "off" \/ (pc \in {"claim", "exited", "stopped"} /\ "listener-started" \in files)

phaseBar ==
  IF over                             THEN "over"
  ELSE IF pc = "session"              THEN "session"
  ELSE IF pc \in {"execute", "sshd"}  THEN "attested"
  ELSE IF admissions # <<>>           THEN "held"
  ELSE "open"

holderBar == IF admissions = <<>> THEN NoClient ELSE admissions[1]

R == INSTANCE Reservation WITH phase <- phaseBar, holder <- holderBar, key <- authorizedKey

(* Every behaviour of the VM, with its kills, restarts and power cycles, is  *)
(* one of a reservation: one holder, its key before its attestation, its     *)
(* session only, and a held VM that settles.                                 *)
ImplementsReservation == R!Spec
=============================================================================
