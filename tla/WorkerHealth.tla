---------------------------- MODULE WorkerHealth ----------------------------
(***************************************************************************)
(* confer-worker-health: a socket-activated process per health probe.  It  *)
(* reads at most MaxHeaderLines lines of the request, each with a one      *)
(* second timeout, and then answers 200 when the ready file exists and 503 *)
(* when it does not.  systemd kills the process after RuntimeSeconds and   *)
(* accepts at most MaxProbeConnections probes at a time.                   *)
(*                                                                         *)
(* A process has a clock of its own, in seconds, which advances only while *)
(* the process waits for a line: its own steps take no time to speak of.   *)
(***************************************************************************)
EXTENDS WorkerVM

CONSTANTS
  Probes,               \* the load balancer's probes
  MaxProbeConnections,  \* MaxConnections of confer-worker-health.socket
  MaxHeaderLines,       \* the 32 lines respond_to_health_request reads
  RuntimeSeconds        \* RuntimeMaxSec of confer-worker-health@.service

ASSUME HealthAssumption ==
  /\ MaxProbeConnections \in Nat \ {0}
  /\ MaxHeaderLines \in Nat \ {0}
  /\ RuntimeSeconds \in Nat \ {0}

VARIABLES
  probe,      \* what became of each probe
  lineNumber, \* header lines its process has read
  seconds,    \* how long its process has run
  late        \* history: the probe was accepted after a client was admitted

healthVars == <<probe, lineNumber, seconds, late>>

(* A process that has "waited" has waited a second for its next line. *)
Reading     == {"reading", "waited"}
ProbeStates == Reading \cup {"idle", "checking", "ok", "unavailable", "killed", "refused"}
Active      == {p \in Probes : probe[p] \in Reading \cup {"checking"}}

HealthTypeOK ==
  /\ probe \in [Probes -> ProbeStates]
  /\ lineNumber \in [Probes -> 0..MaxHeaderLines]
  /\ seconds \in [Probes -> 0..RuntimeSeconds]
  /\ late \in [Probes -> BOOLEAN]
  /\ \A p \in Probes : probe[p] \in Reading => lineNumber[p] < MaxHeaderLines

HealthInit ==
  /\ probe = [p \in Probes |-> "idle"]
  /\ lineNumber = [p \in Probes |-> 0]
  /\ seconds = [p \in Probes |-> 0]
  /\ late = [p \in Probes |-> FALSE]

(* systemd accepts the connection and starts a process for it, or closes it *)
(* at once when MaxConnections processes are alive.                         *)
AcceptProbe(p) ==
  /\ power = "on"
  /\ p \notin Active
  /\ probe' = [probe EXCEPT ![p] = IF Cardinality(Active) < MaxProbeConnections
                                   THEN "reading" ELSE "refused"]
  /\ lineNumber' = [lineNumber EXCEPT ![p] = 0]
  /\ seconds' = [seconds EXCEPT ![p] = 0]
  /\ late' = [late EXCEPT ![p] = admissions # <<>>]

(* A whole line arrives.  A blank one ends the loop, and so does the last    *)
(* one that the loop admits.                                                 *)
ReadLine(p) ==
  /\ probe[p] \in Reading
  /\ \E blank \in BOOLEAN :
       /\ lineNumber' = [lineNumber EXCEPT ![p] = @ + 1]
       /\ probe' = [probe EXCEPT ![p] = IF blank \/ lineNumber[p] + 1 = MaxHeaderLines
                                        THEN "checking" ELSE "reading"]
  /\ UNCHANGED <<seconds, late>>

(* Mutant: the read has no timeout. *)
SecondPassesUntimed(p) ==
  /\ probe[p] \in Reading
  /\ seconds[p] < RuntimeSeconds
  /\ probe' = [probe EXCEPT ![p] = "waited"]
  /\ seconds' = [seconds EXCEPT ![p] = @ + 1]
  /\ UNCHANGED <<lineNumber, late>>

(* A second without a whole line; after it the read gives up. *)
SecondPasses(p) ==
  /\ probe[p] = "reading"
  /\ seconds[p] < RuntimeSeconds
  /\ probe' = [probe EXCEPT ![p] = "waited"]
  /\ seconds' = [seconds EXCEPT ![p] = @ + 1]
  /\ UNCHANGED <<lineNumber, late>>

ReadEnds(p) ==
  /\ probe' = [probe EXCEPT ![p] = "checking"]
  /\ UNCHANGED <<lineNumber, seconds, late>>

(* read -t 1 fails and the loop is left; so it is at the client's end of file. *)
ReadTimesOut(p) == probe[p] = "waited"   /\ ReadEnds(p)
EndOfInput(p)   == probe[p] \in Reading  /\ ReadEnds(p)

(* The answer, with which the process ends. *)
Respond(p) ==
  /\ probe[p] = "checking"
  /\ probe' = [probe EXCEPT ![p] = IF "ready" \in files THEN "ok" ELSE "unavailable"]
  /\ lineNumber' = [lineNumber EXCEPT ![p] = 0]
  /\ seconds' = [seconds EXCEPT ![p] = 0]
  /\ UNCHANGED late

(* RuntimeMaxSec, at whatever point of the script.                           *)
KillProbe(p) ==
  /\ p \in Active /\ seconds[p] = RuntimeSeconds
  /\ probe' = [probe EXCEPT ![p] = "killed"]
  /\ UNCHANGED <<lineNumber, seconds, late>>

(* What the process and systemd do by themselves, and what takes the client. *)
ProbeStep(p)   == ReadTimesOut(p) \/ Respond(p) \/ KillProbe(p)
ProbeClient(p) == AcceptProbe(p) \/ ReadLine(p) \/ EndOfInput(p)

HealthNext ==
  \E p \in Probes : (ProbeClient(p) \/ SecondPasses(p) \/ ProbeStep(p)) /\ UNCHANGED vmVars
=============================================================================
