------------------------- MODULE ConferWorker_proofs -------------------------
(***************************************************************************)
(* TLAPS proofs about ConferWorker, for every set of clients and probes    *)
(* and every value of the bounds.                                          *)
(***************************************************************************)
EXTENDS ConferWorker, TLAPS

-----------------------------------------------------------------------------
(* Type correctness, one lemma per component. *)

(* The configuration unit keeps the VM well typed. *)
LEMMA ConfigStepType ==
  ASSUME VMTypeOK, ConfigTypeOK, ConfigNext
  PROVE  VMTypeOK' /\ ConfigTypeOK'
<1>1. CASE FetchInstanceId
  BY <1>1 DEF VMTypeOK, ConfigTypeOK, FetchInstanceId, ConfigStates
<1>2. CASE GenerateHostKey
  BY <1>2 DEF VMTypeOK, ConfigTypeOK, GenerateHostKey, Publish, ConfigStates, FileNames, ConfigFiles
<1>3. CASE PublishInstanceId
  BY <1>3 DEF VMTypeOK, ConfigTypeOK, PublishInstanceId, Publish, ConfigStates, FileNames, ConfigFiles
<1>4. CASE FetchManifest
  BY <1>4 DEF VMTypeOK, ConfigTypeOK, FetchManifest, Publish, ConfigStates, FileNames, ConfigFiles
<1>5. CASE FetchBundle
  BY <1>5 DEF VMTypeOK, ConfigTypeOK, FetchBundle, Publish, ConfigStates, FileNames, ConfigFiles
<1>6. CASE ConfigFails
  BY <1>6 DEF VMTypeOK, ConfigTypeOK, ConfigFails, ConfigStates, vmVars
<1>7. QED
  BY <1>1, <1>2, <1>3, <1>4, <1>5, <1>6 DEF ConfigNext, ConfigStep

(* The probes keep their own state well typed. *)
LEMMA HealthStepType ==
  ASSUME HealthTypeOK, HealthNext
  PROVE  HealthTypeOK'
<1>1. PICK p \in Probes : ProbeClient(p) \/ SecondPasses(p) \/ ProbeStep(p)
  BY DEF HealthNext
<1>2. CASE AcceptProbe(p)
  BY <1>2, HealthAssumption DEF HealthTypeOK, AcceptProbe, ProbeStates, Reading
<1>3. CASE ReadLine(p)
  <2>1. lineNumber[p] \in Nat /\ lineNumber[p] + 1 \in 0..MaxHeaderLines
    BY <1>3, HealthAssumption DEF HealthTypeOK, ReadLine
  <2>2. PICK blank \in BOOLEAN :
          /\ lineNumber' = [lineNumber EXCEPT ![p] = @ + 1]
          /\ probe' = [probe EXCEPT ![p] = IF blank \/ lineNumber[p] + 1 = MaxHeaderLines
                                           THEN "checking" ELSE "reading"]
    BY <1>3 DEF ReadLine
  <2>3. QED
    BY <1>3, <2>1, <2>2, HealthAssumption DEF HealthTypeOK, ReadLine, ProbeStates, Reading
<1>4. CASE SecondPasses(p)
  <2>1. seconds[p] + 1 \in 0..RuntimeSeconds
    BY <1>4, HealthAssumption DEF HealthTypeOK, SecondPasses
  <2>2. QED
    BY <1>4, <2>1 DEF HealthTypeOK, SecondPasses, ProbeStates, Reading
<1>5. CASE EndOfInput(p) \/ ReadTimesOut(p)
  BY <1>5 DEF HealthTypeOK, EndOfInput, ReadTimesOut, ReadEnds, ProbeStates, Reading
<1>6. CASE Respond(p)
  BY <1>6, HealthAssumption DEF HealthTypeOK, Respond, ProbeStates, Reading
<1>7. CASE KillProbe(p)
  BY <1>7 DEF HealthTypeOK, KillProbe, ProbeStates, Reading
<1>8. QED
  BY <1>1, <1>2, <1>3, <1>4, <1>5, <1>6, <1>7 DEF ProbeStep, ProbeClient

(* A goto keeps the listener's own variables well typed when its target is a *)
(* state of serve() and, past accept(), there is a client.                   *)
LEMMA GotoType ==
  ASSUME ListenerTypeOK, NEW state \in PcStates, Goto(state), UNCHANGED clientVars,
         state \in Serving \cup {"sshd", "session"} => peer \in Clients,
         expired' \in BOOLEAN
  PROVE  ListenerTypeOK'
BY DEF ListenerTypeOK, Goto, clientVars

(* A goto that leaves the VM alone. *)
LEMMA QuietGotoType ==
  ASSUME VMTypeOK, ListenerTypeOK, NEW state \in PcStates, Goto(state),
         state \in Serving \cup {"sshd", "session"} => peer \in Clients,
         UNCHANGED <<vmVars, expired, clientVars>>
  PROVE  VMTypeOK' /\ ListenerTypeOK'
BY GotoType DEF VMTypeOK, ListenerTypeOK, vmVars

(* An exception closes everything and changes nothing of the VM. *)
LEMMA RaiseType ==
  ASSUME VMTypeOK, ListenerTypeOK, Raise
  PROVE  VMTypeOK' /\ ListenerTypeOK'
<1>1. VMTypeOK'
  BY DEF VMTypeOK, Raise, vmVars
<1>2. backlog' \in Seq(Clients)
  BY DEF Raise
<1>3. QED
  BY <1>1, <1>2 DEF ListenerTypeOK, Raise, clientVars, PcStates, Serving

(* A reservation event, and a register that is extended. *)
LEMMA RegisterType ==
  ASSUME VMTypeOK, NEW c \in Clients
  PROVE  /\ Event(boot, c) \in Events
         /\ Append(rtmr3, Event(boot, c)) \in Register
         /\ Append(rtmr3, ForeignEvent) \in Register
BY DEF VMTypeOK, Event, Events, Register

(* The listener process keeps the VM and itself well typed. *)
LEMMA ListenerStepType ==
  ASSUME VMTypeOK, ListenerTypeOK, ListenerStep \/ StepFails
  PROVE  VMTypeOK' /\ ListenerTypeOK'
<1> USE DEF PcStates, BeforeAccept, Serving
<1>1. CASE ClaimListenerStart
  <2>1. CASE Raise  BY <2>1, RaiseType
  <2>2. CASE ~Raise
    <3>1. VMTypeOK'
      BY <1>1, <2>2 DEF ClaimListenerStart, VMTypeOK, FileNames
    <3>2. QED
      BY <1>1, <2>2, <3>1, GotoType DEF ClaimListenerStart, ListenerTypeOK
  <2>3. QED  BY <2>1, <2>2
<1>2. CASE PrepareAdmission
  BY <1>2, RaiseType, QuietGotoType DEF PrepareAdmission
<1>3. CASE BindAndListen
  BY <1>3 DEF BindAndListen, VMTypeOK, ListenerTypeOK, vmVars, clientVars
<1>4. CASE PublishReady
  <2>1. VMTypeOK'
    BY <1>4 DEF PublishReady, VMTypeOK, FileNames
  <2>2. QED
    BY <1>4, <2>1, GotoType DEF PublishReady, ListenerTypeOK
<1>5. CASE Accept
  <2>1. Head(backlog) \in Clients /\ Tail(backlog) \in Seq(Clients)
    BY <1>5 DEF Accept, ListenerTypeOK
  <2>2. QED
    BY <1>5, <2>1 DEF Accept, VMTypeOK, ListenerTypeOK, vmVars, clientVars
<1>6. CASE AcceptTimesOut
  BY <1>6, QuietGotoType DEF AcceptTimesOut
<1>7. CASE CloseListener
  <2>1. backlog' \in Seq(Clients)
    BY <1>7 DEF CloseListener
  <2>2. QED
    BY <1>7, <2>1 DEF CloseListener, VMTypeOK, ListenerTypeOK, vmVars, clientVars
<1>8. CASE WithdrawReady
  <2>1. VMTypeOK'
    BY <1>8 DEF WithdrawReady, VMTypeOK
  <2>2. PICK state \in {"exited", "acknowledge"} :
          Goto(state) /\ (state = "acknowledge" => peer \in Clients)
    BY <1>8 DEF WithdrawReady, ListenerTypeOK
  <2>3. QED
    BY <1>8, <2>1, <2>2, GotoType DEF WithdrawReady, ListenerTypeOK
<1>9. CASE SendAcknowledgement
  <2>1. peer \in Clients
    BY <1>9 DEF SendAcknowledgement, ListenerTypeOK
  <2>2. VMTypeOK'
    BY <1>9, <2>1 DEF SendAcknowledgement, VMTypeOK
  <2>3. QED
    BY <1>9, <2>1, <2>2, GotoType DEF SendAcknowledgement, ListenerTypeOK
<1>10. CASE ReadLength
  BY <1>10, RaiseType, QuietGotoType DEF ReadLength, ListenerTypeOK
<1>11. CASE ReadBody
  BY <1>11, QuietGotoType DEF ReadBody, ListenerTypeOK
<1>12. CASE RequestIncomplete \/ RequestTimesOut
  BY <1>12, RaiseType DEF RequestIncomplete, RequestTimesOut
<1>13. CASE WriteAuthorizedKey
  <2>1. CASE Raise  BY <2>1, RaiseType
  <2>2. CASE ~Raise
    <3>1. peer \in Clients
      BY <1>13 DEF WriteAuthorizedKey, ListenerTypeOK
    <3>2. VMTypeOK'
      BY <1>13, <2>2, <3>1 DEF WriteAuthorizedKey, VMTypeOK, FileNames
    <3>3. QED
      BY <1>13, <2>2, <3>1, <3>2, GotoType DEF WriteAuthorizedKey, ListenerTypeOK
  <2>3. QED  BY <2>1, <2>2
<1>14. CASE ExtendRegister
  <2>1. CASE Raise  BY <2>1, RaiseType
  <2>2. CASE ~Raise
    <3>1. peer \in Clients
      BY <1>14 DEF ExtendRegister, ListenerTypeOK
    <3>2. VMTypeOK'
      BY <1>14, <2>2, <3>1, RegisterType DEF ExtendRegister, VMTypeOK
    <3>3. QED
      BY <1>14, <2>2, <3>1, <3>2, GotoType DEF ExtendRegister, ListenerTypeOK
  <2>3. QED  BY <2>1, <2>2
<1>15. CASE CheckRegister
  BY <1>15, RaiseType, QuietGotoType DEF CheckRegister, ListenerTypeOK
<1>16. CASE CreateQuote
  <2>1. CASE Raise  BY <2>1, RaiseType
  <2>2. CASE ~Raise
    <3>1. peer \in Clients
      BY <1>16 DEF CreateQuote, ListenerTypeOK
    <3>2. quote' \in Quotes
      BY <1>16, <2>2, <3>1, RegisterType DEF CreateQuote, Quotes, VMTypeOK
    <3>3. QED
      BY <1>16, <2>2, <3>1, <3>2 DEF CreateQuote, VMTypeOK, ListenerTypeOK, vmVars, clientVars
  <2>3. QED  BY <2>1, <2>2
<1>17. CASE SendAttestation
  <2>1. CASE Raise  BY <2>1, RaiseType
  <2>2. CASE ~Raise
    <3>1. peer \in Clients
      BY <1>17 DEF SendAttestation, ListenerTypeOK
    <3>2. attestation' \in [Clients -> Quotes \cup {NoQuote}]
      BY <1>17, <2>2, <3>1 DEF SendAttestation, ListenerTypeOK
    <3>3. QED
      BY <1>17, <2>2, <3>1, <3>2 DEF SendAttestation, Goto, VMTypeOK, ListenerTypeOK, vmVars
  <2>3. QED  BY <2>1, <2>2
<1>18. CASE ExecuteSshd
  BY <1>18, QuietGotoType DEF ExecuteSshd, ListenerTypeOK
<1>19. CASE StepFails
  BY <1>19, RaiseType, QuietGotoType DEF StepFails
<1>20. QED
  BY <1>1, <1>2, <1>3, <1>4, <1>5, <1>6, <1>7, <1>8, <1>9, <1>10, <1>11, <1>12, <1>13,
     <1>14, <1>15, <1>16, <1>17, <1>18, <1>19 DEF ListenerStep

(* So do sshd, a kill, the clocks and the clients. *)
LEMMA EnvironmentStepType ==
  ASSUME VMTypeOK, ListenerTypeOK, ListenerNext, ~ListenerStep, ~StepFails
  PROVE  VMTypeOK' /\ ListenerTypeOK'
<1> USE DEF PcStates, BeforeAccept, Serving
<1>1. CASE Killed \/ LoginGraceEnds \/ SessionEnds
  BY <1>1, RaiseType DEF Killed, LoginGraceEnds, SessionEnds
<1>2. CASE SshLogin
  BY <1>2, QuietGotoType DEF SshLogin, ListenerTypeOK
<1>3. CASE CutoffPasses
  BY <1>3 DEF CutoffPasses, VMTypeOK, ListenerTypeOK, vmVars, clientVars
<1>4. CASE DeadlineExpires
  BY <1>4 DEF DeadlineExpires, VMTypeOK, ListenerTypeOK, vmVars, clientVars
<1>5. CASE ClientStep
  <2>1. PICK c \in Clients : Connect(c) \/ SendRequest(c) \/ CloseConnection(c)
    BY <1>5 DEF ClientStep
  <2>2. CASE Connect(c)
    <3>1. backlog' \in Seq(Clients)
      BY <2>2 DEF Connect, ListenerTypeOK
    <3>2. request' \in [Clients -> Requests] /\ attestation' \in [Clients -> Quotes \cup {NoQuote}]
      BY <2>2 DEF Connect, ListenerTypeOK, Requests
    <3>3. QED
      BY <2>2, <3>1, <3>2 DEF Connect, VMTypeOK, ListenerTypeOK, vmVars
  <2>3. CASE SendRequest(c)
    <3>1. request' \in [Clients -> Requests]
      BY <2>3 DEF SendRequest, ListenerTypeOK, Requests
    <3>2. QED
      BY <2>3, <3>1 DEF SendRequest, VMTypeOK, ListenerTypeOK, vmVars, procVars
  <2>4. CASE CloseConnection(c)
    BY <2>4 DEF CloseConnection, VMTypeOK, ListenerTypeOK, vmVars, procVars
  <2>5. QED
    BY <2>1, <2>2, <2>3, <2>4
<1>6. QED
  BY <1>1, <1>2, <1>3, <1>4, <1>5 DEF ListenerNext

(* systemd keeps the VM well typed; Halt is shared by both ways to power off. *)
LEMMA SystemdStepType ==
  ASSUME TypeOK, SystemdStep
  PROVE  TypeOK'
<1> USE DEF PcStates, BeforeAccept, Serving
<1>1. CASE StartListener \/ StartAgain
  BY <1>1 DEF StartListener, StartAgain, SystemdStep, TypeOK, VMTypeOK, ListenerTypeOK,
     ConfigTypeOK, HealthTypeOK, vmVars, clientVars, healthVars
<1>2. CASE StartFails
  BY <1>2, RaiseType DEF StartFails, SystemdStep, TypeOK, ConfigTypeOK, HealthTypeOK, healthVars
<1>3. CASE ServiceStops
  BY <1>3 DEF ServiceStops, SystemdStep, TypeOK, VMTypeOK, ListenerTypeOK,
     ConfigTypeOK, HealthTypeOK, clientVars, healthVars
<1>4. CASE Halt
  <2>1. backlog' \in Seq(Clients)
    BY <1>4 DEF Halt
  <2>2. QED
    BY <1>4, <2>1 DEF Halt, SystemdStep, TypeOK, VMTypeOK, ListenerTypeOK,
       ConfigTypeOK, HealthTypeOK, clientVars, healthVars
<1>5. QED
  BY <1>1, <1>2, <1>3, <1>4 DEF SystemdStep, PowerOff, PowerLoss

(* A boot resets everything but the clients. *)
LEMMA BootType ==
  ASSUME TypeOK, Boot
  PROVE  TypeOK'
<1> USE DEF PcStates, BeforeAccept, Serving
<1>1. rtmr3' \in Register /\ admissions' \in Seq(Clients) /\ backlog' \in Seq(Clients)
  BY DEF Boot, Register
<1>2. VMTypeOK'
  BY <1>1 DEF Boot, TypeOK, VMTypeOK
<1>3. ListenerTypeOK'
  BY <1>1 DEF Boot, TypeOK, ListenerTypeOK, clientVars
<1>4. HealthTypeOK'
  BY HealthAssumption DEF Boot, TypeOK, HealthTypeOK, ProbeStates, Reading
<1>5. QED
  BY <1>2, <1>3, <1>4 DEF Boot, TypeOK, ConfigTypeOK, ConfigStates

(* The initial state is well typed. *)
LEMMA InitType == Init => TypeOK
<1> SUFFICES ASSUME Init PROVE TypeOK
  OBVIOUS
<1> USE DEF PcStates, BeforeAccept, Serving
<1>1. rtmr3 \in Register /\ admissions \in Seq(Clients) /\ backlog \in Seq(Clients)
  BY DEF Init, VMInit, VMReset, ListenerInit, ListenerReset, Register
<1>2. VMTypeOK
  BY <1>1 DEF Init, VMInit, VMReset, VMTypeOK
<1>3. ListenerTypeOK
  BY <1>1 DEF Init, ListenerInit, ListenerReset, ListenerTypeOK, Requests
<1>4. HealthTypeOK
  BY HealthAssumption DEF Init, HealthInit, HealthTypeOK, ProbeStates, Reading
<1>5. QED
  BY <1>2, <1>3, <1>4 DEF Init, TypeOK, ConfigInit, ConfigTypeOK, ConfigStates

(* Every step of the VM keeps it well typed. *)
LEMMA NextType ==
  ASSUME TypeOK, [Next]_vars
  PROVE  TypeOK'
<1>1. CASE ConfigNext /\ UNCHANGED <<listenerVars, healthVars, starts>>
  <2>1. ListenerTypeOK' /\ HealthTypeOK' /\ starts' \in Nat
    BY <1>1 DEF TypeOK, ListenerTypeOK, HealthTypeOK, listenerVars, healthVars
  <2>2. QED
    BY <1>1, <2>1, ConfigStepType DEF TypeOK
<1>2. CASE ListenerNext /\ UNCHANGED <<configPc, healthVars, starts>>
  <2>1. ConfigTypeOK' /\ HealthTypeOK' /\ starts' \in Nat
    BY <1>2 DEF TypeOK, ConfigTypeOK, HealthTypeOK, healthVars
  <2>2. QED
    BY <1>2, <2>1, ListenerStepType, EnvironmentStepType DEF TypeOK
<1>3. CASE HealthNext /\ UNCHANGED <<configPc, listenerVars, starts>>
  <2>1. UNCHANGED vmVars
    BY <1>3 DEF HealthNext
  <2>2. VMTypeOK' /\ ConfigTypeOK' /\ ListenerTypeOK' /\ starts' \in Nat
    BY <1>3, <2>1 DEF TypeOK, VMTypeOK, ConfigTypeOK, ListenerTypeOK, listenerVars, vmVars
  <2>3. QED
    BY <1>3, <2>2, HealthStepType DEF TypeOK
<1>4. CASE ForeignExtension /\ UNCHANGED <<configPc, listenerVars, healthVars, starts>>
  <2>1. rtmr3' \in Register /\ foreign' \in Nat
    BY <1>4 DEF ForeignExtension, TypeOK, VMTypeOK, Register
  <2>2. QED
    BY <1>4, <2>1 DEF ForeignExtension, TypeOK, VMTypeOK, ConfigTypeOK, ListenerTypeOK,
       HealthTypeOK, listenerVars, healthVars
<1>5. CASE UNCHANGED vars
  BY <1>5 DEF TypeOK, VMTypeOK, ConfigTypeOK, ListenerTypeOK, HealthTypeOK, vars, vmVars,
     listenerVars, healthVars
<1>6. QED
  BY <1>1, <1>2, <1>3, <1>4, <1>5, SystemdStepType, BootType DEF Next

(* The state of every reachable VM has the types the modules declare. *)
THEOREM TypeCorrect == Spec => []TypeOK
BY InitType, NextType, PTL DEF Spec

-----------------------------------------------------------------------------
(* The safety properties.  ProcInv collects the parts of IndInv that speak of *)
(* the listener; LateInv and ConfigInv follow the other processes.           *)

ProcInv == ClaimInv /\ PeerInv /\ DoorInv /\ KeyInv /\ QuoteInv /\ AttestationInv

(* Closing the connection or the process keeps all of them. *)
LEMMA RaiseInv ==
  ASSUME IndInv, Raise, power = "on", pc # "inactive" \/ "listener-started" \notin files
  PROVE  ProcInv'
BY DEF IndInv, ProcInv, ClaimInv, PeerInv, DoorInv, KeyInv, QuoteInv, AttestationInv, ThisBoot,
   Raise, vmVars, clientVars, BeforeAcknowledge, Admitted, Authorized

(* Each step of serve() keeps them. *)
LEMMA ListenerStepInv ==
  ASSUME IndInv, ListenerStep \/ StepFails, power = "on"
  PROVE  ProcInv'
<1> USE DEF IndInv, ProcInv, ClaimInv, PeerInv, DoorInv, KeyInv, QuoteInv, AttestationInv,
        ThisBoot, BeforeAcknowledge, Admitted, Authorized, Goto, vmVars, clientVars
<1>1. CASE ClaimListenerStart
  BY <1>1, RaiseInv DEF ClaimListenerStart, TypeOK, VMTypeOK, ListenerTypeOK
<1>2. CASE PrepareAdmission
  BY <1>2, RaiseInv DEF PrepareAdmission, TypeOK, VMTypeOK, ListenerTypeOK
<1>3. CASE BindAndListen
  BY <1>3, RaiseInv DEF BindAndListen, TypeOK, VMTypeOK, ListenerTypeOK
<1>4. CASE PublishReady
  BY <1>4, RaiseInv DEF PublishReady, TypeOK, VMTypeOK, ListenerTypeOK
<1>5. CASE Accept
  BY <1>5, RaiseInv DEF Accept, TypeOK, VMTypeOK, ListenerTypeOK
<1>6. CASE AcceptTimesOut
  BY <1>6, RaiseInv DEF AcceptTimesOut, TypeOK, VMTypeOK, ListenerTypeOK
<1>7. CASE CloseListener
  BY <1>7, RaiseInv DEF CloseListener, TypeOK, VMTypeOK, ListenerTypeOK
<1>8. CASE WithdrawReady
  BY <1>8, RaiseInv DEF WithdrawReady, TypeOK, VMTypeOK, ListenerTypeOK
<1>9. CASE SendAcknowledgement
  BY <1>9, RaiseInv DEF SendAcknowledgement, TypeOK, VMTypeOK, ListenerTypeOK
<1>10. CASE ReadLength
  BY <1>10, RaiseInv DEF ReadLength, TypeOK, VMTypeOK, ListenerTypeOK
<1>11. CASE ReadBody
  BY <1>11, RaiseInv DEF ReadBody, TypeOK, VMTypeOK, ListenerTypeOK
<1>12. CASE RequestIncomplete
  BY <1>12, RaiseInv DEF RequestIncomplete, TypeOK, VMTypeOK, ListenerTypeOK
<1>13. CASE RequestTimesOut
  BY <1>13, RaiseInv DEF RequestTimesOut, TypeOK, VMTypeOK, ListenerTypeOK
<1>14. CASE WriteAuthorizedKey
  BY <1>14, RaiseInv DEF WriteAuthorizedKey, TypeOK, VMTypeOK, ListenerTypeOK
<1>15. CASE ExtendRegister
  BY <1>15, RaiseInv DEF ExtendRegister, TypeOK, VMTypeOK, ListenerTypeOK
<1>16. CASE CheckRegister
  <2>1. CASE Raise
    BY <1>16, <2>1, RaiseInv DEF CheckRegister
  <2>2. CASE ~Raise
    <3>1. rtmr3 = <<Event(boot, peer)>> /\ Goto("quote") /\ UNCHANGED <<vmVars, expired, clientVars>>
      BY <1>16, <2>2 DEF CheckRegister
    <3>2. QuoteInv'
      <4>1. rtmr3 # <<>> /\ rtmr3[1] = Event(boot, peer)
        BY <3>1
      <4>2. QED
        BY <3>1, <4>1 DEF Event
    <3>3. ClaimInv' /\ PeerInv' /\ DoorInv' /\ KeyInv' /\ AttestationInv'
      BY <1>16, <3>1 DEF CheckRegister, Event
    <3>4. QED
      BY <3>2, <3>3
  <2>3. QED
    BY <2>1, <2>2
<1>17. CASE CreateQuote
  <2>1. CASE Raise
    BY <1>17, <2>1, RaiseInv DEF CreateQuote
  <2>2. CASE ~Raise
    <3>1. /\ pc = "quote" /\ pc' = "send"
          /\ quote' = [report |-> Event(boot, peer), rtmr3 |-> rtmr3]
          /\ UNCHANGED <<vmVars, listening, backlog, peer, cutoff, clientVars>>
      BY <1>17, <2>2 DEF CreateQuote
    <3>2. QuoteInv'
      <4>1. Event(boot, peer) \in Events /\ rtmr3 \in Register
        BY <3>1, RegisterType DEF TypeOK, VMTypeOK, ListenerTypeOK, Serving
      <4>2. quote' \in Quotes /\ quote'.report = Event(boot, peer) /\ quote'.rtmr3 = rtmr3
        BY <3>1, <4>1 DEF Quotes
      <4>3. rtmr3 # <<>> /\ rtmr3[1] = Event(boot, peer)
        BY <3>1
      <4>4. QED
        BY <3>1, <4>2, <4>3 DEF Event
    <3>3. ClaimInv' /\ PeerInv' /\ DoorInv' /\ KeyInv' /\ AttestationInv'
      BY <3>1
    <3>4. QED
      BY <3>2, <3>3
  <2>3. QED
    BY <2>1, <2>2
<1>18. CASE SendAttestation
  <2>1. CASE Raise
    BY <1>18, <2>1, RaiseInv DEF SendAttestation
  <2>2. CASE ~Raise
    <3>1. /\ pc = "send"
          /\ attestation' = [attestation EXCEPT ![peer] = quote]
          /\ Goto("execute") /\ UNCHANGED <<vmVars, expired, request, gone>>
      BY <1>18, <2>2 DEF SendAttestation
    <3>2. peer \in Clients /\ admissions = <<peer>> /\ authorizedKey = peer /\ boot \in Nat
      BY <3>1 DEF TypeOK, VMTypeOK
    <3>3. ClaimInv' /\ PeerInv' /\ DoorInv' /\ KeyInv' /\ QuoteInv'
      BY <3>1, <3>2
    <3>4. AttestationInv'
      <4>1. /\ quote.report.client = peer /\ quote.report.hostKey = boot
            /\ quote.rtmr3 # <<>> /\ quote.rtmr3[1] = quote.report
        BY <3>1 DEF Event
      <4>2. attestation'[peer] = quote
        BY <3>1, <3>2 DEF TypeOK, ListenerTypeOK
      <4>3. \A c \in Clients \ {peer} : attestation'[c] = attestation[c]
        BY <3>1 DEF TypeOK, ListenerTypeOK
      <4>4. QED
        BY <3>1, <3>2, <4>1, <4>2, <4>3
    <3>5. QED
      BY <3>3, <3>4
  <2>3. QED
    BY <2>1, <2>2
<1>19. CASE ExecuteSshd
  BY <1>19, RaiseInv DEF ExecuteSshd, TypeOK, VMTypeOK, ListenerTypeOK
<1>20. CASE StepFails
  BY <1>20, RaiseInv DEF StepFails, TypeOK, VMTypeOK, ListenerTypeOK
<1>30. QED
  BY <1>1, <1>2, <1>3, <1>4, <1>5, <1>6, <1>7, <1>8, <1>9, <1>10, <1>11, <1>12, <1>13, <1>14, <1>15, <1>16, <1>17, <1>18, <1>19, <1>20 DEF ListenerStep

(* sshd, a kill, the clocks and the clients keep them. *)
LEMMA EnvironmentStepInv ==
  ASSUME IndInv, ListenerNext, ~ListenerStep, ~StepFails, power = "on"
  PROVE  ProcInv'
<1> USE DEF IndInv, ProcInv, ClaimInv, PeerInv, DoorInv, KeyInv, QuoteInv, AttestationInv,
        ThisBoot, BeforeAcknowledge, Admitted, Authorized, vmVars, clientVars
<1>1. CASE Killed \/ LoginGraceEnds \/ SessionEnds
  BY <1>1, RaiseInv DEF Killed, LoginGraceEnds, SessionEnds, Running
<1>2. CASE SshLogin
  BY <1>2 DEF SshLogin, Goto
<1>3. CASE CutoffPasses \/ DeadlineExpires
  BY <1>3 DEF CutoffPasses, DeadlineExpires
<1>4. CASE ClientStep
  <2>1. PICK c \in Clients : Connect(c) \/ SendRequest(c) \/ CloseConnection(c)
    BY <1>4 DEF ClientStep
  <2>2. CASE Connect(c)
    BY <2>2 DEF Connect, TypeOK, ListenerTypeOK
  <2>3. CASE SendRequest(c) \/ CloseConnection(c)
    BY <2>3 DEF SendRequest, CloseConnection, procVars
  <2>4. QED
    BY <2>1, <2>2, <2>3
<1>5. QED
  BY <1>1, <1>2, <1>3, <1>4 DEF ListenerNext

(* systemd keeps them: it starts the listener unadmitted or behind its marker. *)
LEMMA SystemdStepInv ==
  ASSUME IndInv, SystemdStep
  PROVE  ProcInv'
<1> USE DEF IndInv, ProcInv, ClaimInv, PeerInv, DoorInv, KeyInv, QuoteInv, AttestationInv,
        ThisBoot, BeforeAcknowledge, Admitted, Authorized, vmVars, clientVars
<1>1. CASE StartListener \/ StartAgain
  BY <1>1 DEF StartListener, StartAgain
<1>2. CASE StartFails
  <2>1. pc = "inactive" /\ power = "on" /\ Raise
    BY <1>2 DEF StartFails
  <2>2. QED
    BY <2>1 DEF Raise
<1>3. CASE ServiceStops
  BY <1>3 DEF ServiceStops, TypeOK, VMTypeOK
<1>4. CASE Halt
  BY <1>4 DEF Halt
<1>5. QED
  BY <1>1, <1>2, <1>3, <1>4 DEF SystemdStep, PowerOff, PowerLoss

(* A boot makes every earlier attestation one of another boot. *)
LEMMA BootInv ==
  ASSUME IndInv, Boot
  PROVE  ProcInv'
<1> USE DEF IndInv, ProcInv, ClaimInv, PeerInv, DoorInv, KeyInv, QuoteInv, AttestationInv,
        ThisBoot, BeforeAcknowledge, Admitted, Authorized, vmVars, clientVars
<1>1. ClaimInv' /\ PeerInv' /\ DoorInv' /\ KeyInv' /\ QuoteInv'
  BY DEF Boot
<1>2. AttestationInv'
  <2>1. boot \in Nat /\ boot' = boot + 1 /\ attestation' = attestation
    BY DEF Boot, TypeOK, VMTypeOK
  <2>2. SUFFICES ASSUME NEW c \in Clients, attestation[c] # NoQuote
                 PROVE  /\ attestation[c].report.client = c
                        /\ attestation[c].report.hostKey <= boot'
                        /\ attestation[c].report.hostKey # boot'
                        /\ attestation[c].rtmr3 # <<>>
                        /\ attestation[c].rtmr3[1] = attestation[c].report
    BY <2>1
  <2>3. attestation[c].report.hostKey \in Nat
    BY <2>2 DEF TypeOK, ListenerTypeOK, Quotes, Events
  <2>4. QED
    BY <2>1, <2>2, <2>3
<1>3. QED
  BY <1>1, <1>2

(* The configuration and other software of the guest keep them. *)
LEMMA OtherStepInv ==
  ASSUME IndInv, UNCHANGED <<listenerVars, starts>>, ConfigNext \/ ForeignExtension \/ UNCHANGED vmVars
  PROVE  ProcInv'
<1> USE DEF IndInv, ProcInv, ClaimInv, PeerInv, DoorInv, KeyInv, QuoteInv, AttestationInv,
        ThisBoot, BeforeAcknowledge, Admitted, Authorized, vmVars, clientVars
<1> USE DEF listenerVars
<1>1. CASE ConfigNext
  BY <1>1 DEF ConfigNext, ConfigStep, ConfigFails, FetchInstanceId, GenerateHostKey,
     PublishInstanceId, FetchManifest, FetchBundle, Publish
<1>2. CASE ForeignExtension
  <2>1. rtmr3 # <<>> => rtmr3' # <<>> /\ rtmr3'[1] = rtmr3[1]
    BY <1>2 DEF ForeignExtension, TypeOK, VMTypeOK, Register
  <2>2. QED
    BY <1>2, <2>1 DEF ForeignExtension, Event
<1>3. CASE UNCHANGED vmVars
  BY <1>3
<1>4. QED
  BY <1>1, <1>2, <1>3

(* Within a boot the history of admissions never becomes empty again, and    *)
(* no file of the configuration disappears.                                  *)
LEMMA VMProgress ==
  ASSUME IndInv, [Next]_vars, ~Boot
  PROVE  /\ admissions # <<>> => admissions' # <<>>
         /\ files \cap ConfigFiles \subseteq files'
<1> USE DEF vmVars, ConfigFiles
<1>1. CASE ListenerNext
  <2>1. CASE SendAcknowledgement
    BY <2>1 DEF SendAcknowledgement, IndInv, TypeOK, VMTypeOK, ListenerTypeOK, Serving
  <2>2. CASE ~SendAcknowledgement
    BY <1>1, <2>2 DEF ListenerNext, ListenerStep, ClaimListenerStart, PrepareAdmission, BindAndListen, PublishReady,
     Accept, AcceptTimesOut, CloseListener, WithdrawReady, SendAcknowledgement, ReadLength, ReadBody,
     RequestIncomplete, RequestTimesOut, WriteAuthorizedKey, ExtendRegister, CheckRegister,
     CreateQuote, SendAttestation, ExecuteSshd, StepFails,
     Raise, Killed, LoginGraceEnds, SessionEnds, SshLogin, CutoffPasses,
     DeadlineExpires, ClientStep, Connect, SendRequest, CloseConnection
  <2>3. QED
    BY <2>1, <2>2
<1>2. CASE SystemdStep
  BY <1>2 DEF SystemdStep, StartListener, StartFails, StartAgain, ServiceStops, PowerOff, PowerLoss, Halt, Raise
<1>3. CASE ConfigNext
  BY <1>3 DEF ConfigNext, ConfigStep, ConfigFails, FetchInstanceId, GenerateHostKey,
     PublishInstanceId, FetchManifest, FetchBundle, Publish
<1>4. CASE ForeignExtension \/ HealthNext \/ UNCHANGED vars
  BY <1>4 DEF ForeignExtension, HealthNext, vars
<1>5. QED
  BY <1>1, <1>2, <1>3, <1>4 DEF Next

(* A probe of a taken worker never finds the ready file. *)
LEMMA LateStep ==
  ASSUME IndInv, [Next]_vars
  PROVE  LateInv'
<1>1. CASE Boot
  BY <1>1 DEF Boot, LateInv
<1>2. CASE HealthNext
  <2>1. PICK p \in Probes : ProbeClient(p) \/ SecondPasses(p) \/ ProbeStep(p)
    BY <1>2 DEF HealthNext
  <2>2. UNCHANGED vmVars
    BY <1>2 DEF HealthNext
  <2>3. CASE AcceptProbe(p)
    BY <2>2, <2>3 DEF AcceptProbe, IndInv, LateInv, TypeOK, HealthTypeOK, vmVars
  <2>4. CASE ReadLine(p) \/ SecondPasses(p) \/ EndOfInput(p) \/ ReadTimesOut(p) \/ KillProbe(p)
    BY <2>2, <2>4 DEF ReadLine, SecondPasses, EndOfInput, ReadTimesOut, ReadEnds, KillProbe,
       IndInv, LateInv, TypeOK, HealthTypeOK, vmVars
  <2>5. CASE Respond(p)
    <3>1. late[p] => "ready" \notin files
      BY DEF IndInv, LateInv, DoorInv
    <3>2. QED
      BY <2>2, <2>5, <3>1 DEF Respond, IndInv, LateInv, TypeOK, HealthTypeOK, vmVars
  <2>6. QED
    BY <2>1, <2>3, <2>4, <2>5 DEF ProbeStep, ProbeClient
<1>3. CASE ~Boot /\ ~HealthNext
  <2>1. UNCHANGED healthVars
    BY <1>3 DEF Next, SystemdStep, vars
  <2>2. QED
    BY <1>3, <2>1, VMProgress DEF healthVars, IndInv, LateInv
<1>4. QED
  BY <1>1, <1>2, <1>3

(* A process waits no more than a second for each line. *)
LEMMA ClockStep ==
  ASSUME IndInv, [Next]_vars
  PROVE  ClockInv'
<1>1. CASE Boot
  BY <1>1 DEF Boot, ClockInv
<1>2. CASE HealthNext
  <2>1. PICK p \in Probes : ProbeClient(p) \/ SecondPasses(p) \/ ProbeStep(p)
    BY <1>2 DEF HealthNext
  <2>2. /\ ClockInv /\ HealthTypeOK /\ RuntimeSeconds \in Nat /\ MaxHeaderLines \in Nat
        /\ lineNumber[p] \in Nat /\ seconds[p] \in Nat /\ seconds[p] <= RuntimeSeconds
    BY HealthAssumption DEF IndInv, TypeOK, HealthTypeOK
  <2>3. CASE AcceptProbe(p)
    BY <2>2, <2>3 DEF AcceptProbe, ClockInv, HealthTypeOK
  <2>4. CASE ReadLine(p)
    BY <2>2, <2>4 DEF ReadLine, Reading, ClockInv, HealthTypeOK
  <2>5. CASE SecondPasses(p)
    BY <2>2, <2>5 DEF SecondPasses, ClockInv, HealthTypeOK
  <2>6. CASE EndOfInput(p) \/ ReadTimesOut(p)
    BY <2>2, <2>6 DEF EndOfInput, ReadTimesOut, ReadEnds, Reading, ClockInv, HealthTypeOK
  <2>7. CASE Respond(p)
    BY <2>2, <2>7 DEF Respond, ClockInv, HealthTypeOK
  <2>8. CASE KillProbe(p)
    BY <2>2, <2>8 DEF KillProbe, Active, Reading, ClockInv, HealthTypeOK
  <2>9. QED
    BY <2>1, <2>3, <2>4, <2>5, <2>6, <2>7, <2>8 DEF ProbeStep, ProbeClient
<1>3. CASE ~Boot /\ ~HealthNext
  <2>1. UNCHANGED healthVars
    BY <1>3 DEF Next, SystemdStep, vars
  <2>2. QED
    BY <2>1 DEF healthVars, IndInv, ClockInv
<1>4. QED
  BY <1>1, <1>2, <1>3

(* The listener runs only behind a configuration that is complete. *)
LEMMA ConfigInvStep ==
  ASSUME IndInv, [Next]_vars
  PROVE  ConfigInv'
<1> USE DEF vmVars, ConfigFiles, IndInv, ConfigInv
<1>1. CASE Boot
  BY <1>1 DEF Boot
<1>2. CASE ConfigNext /\ UNCHANGED <<listenerVars, healthVars, starts>>
  BY <1>2 DEF ConfigNext, ConfigStep, ConfigFails, FetchInstanceId, GenerateHostKey,
     PublishInstanceId, FetchManifest, FetchBundle, Publish,
     listenerVars
<1>3. CASE SystemdStep
  BY <1>3, VMProgress DEF SystemdStep, StartListener, StartFails, StartAgain, ServiceStops, PowerOff, PowerLoss, Halt, Raise
<1>4. CASE power = "on" /\ ListenerNext /\ UNCHANGED <<configPc, healthVars, starts>>
  <2>1. power' = power /\ (pc = "inactive" => pc' = "inactive")
    BY <1>4 DEF ListenerNext, ListenerStep, ClaimListenerStart, PrepareAdmission, BindAndListen, PublishReady,
     Accept, AcceptTimesOut, CloseListener, WithdrawReady, SendAcknowledgement, ReadLength, ReadBody,
     RequestIncomplete, RequestTimesOut, WriteAuthorizedKey, ExtendRegister, CheckRegister,
     CreateQuote, SendAttestation, ExecuteSshd, StepFails,
     Goto, Raise, Killed, LoginGraceEnds, SessionEnds, SshLogin, CutoffPasses,
     DeadlineExpires, ClientStep, Connect, SendRequest, CloseConnection, procVars, Running
  <2>2. QED
    BY <1>4, <2>1, VMProgress DEF Boot
<1>5. CASE \/ HealthNext /\ UNCHANGED <<configPc, listenerVars, starts>>
           \/ ForeignExtension /\ UNCHANGED <<configPc, listenerVars, healthVars, starts>>
           \/ UNCHANGED vars
  BY <1>5 DEF HealthNext, ForeignExtension, vars, listenerVars
<1>6. QED
  BY <1>1, <1>2, <1>3, <1>4, <1>5 DEF Next

(* IndInv is an inductive invariant of the VM. *)
THEOREM Inductive == Spec => []IndInv
<1>1. Init => IndInv
  <2> SUFFICES ASSUME Init PROVE IndInv
    OBVIOUS
  <2>1. TypeOK
    BY InitType
  <2>2. QED
    BY <2>1 DEF Init, VMInit, VMReset, ConfigInit, ListenerInit, ListenerReset, HealthInit,
       IndInv, ClaimInv, PeerInv, DoorInv, KeyInv, QuoteInv, AttestationInv, LateInv, ClockInv, ConfigInv,
       BeforeAcknowledge, Admitted, Authorized, ThisBoot
<1>2. IndInv /\ [Next]_vars => IndInv'
  <2> SUFFICES ASSUME IndInv, [Next]_vars PROVE IndInv'
    OBVIOUS
  <2>1. TypeOK'
    BY NextType DEF IndInv
  <2>2. ProcInv'
    <3>1. CASE ConfigNext /\ UNCHANGED <<listenerVars, healthVars, starts>>
      BY <3>1, OtherStepInv
    <3>2. CASE power = "on" /\ ListenerNext
      BY <3>2, ListenerStepInv, EnvironmentStepInv
    <3>3. CASE HealthNext /\ UNCHANGED <<configPc, listenerVars, starts>>
      BY <3>3, OtherStepInv DEF HealthNext
    <3>4. CASE \/ ForeignExtension /\ UNCHANGED <<configPc, listenerVars, healthVars, starts>>
               \/ UNCHANGED vars
      BY <3>4, OtherStepInv DEF vars
    <3>5. QED
      BY <3>1, <3>2, <3>3, <3>4, SystemdStepInv, BootInv DEF Next
  <2>3. QED
    BY <2>1, <2>2, LateStep, ClockStep, ConfigInvStep DEF IndInv, ProcInv
<1>3. QED
  BY <1>1, <1>2, PTL DEF Spec

(* At most one client is acknowledged in a boot. *)
THEOREM SingleAdmission == Spec => []AtMostOneAdmission
<1>1. IndInv => AtMostOneAdmission
  <2>1. \A c \in Clients : Len(<<c>>) <= 1
    OBVIOUS
  <2>2. Len(<<>>) <= 1
    OBVIOUS
  <2>3. QED
    BY <2>1, <2>2 DEF IndInv, ClaimInv, AtMostOneAdmission
<1>2. QED
  BY <1>1, Inductive, PTL

(* A client whose attestation verifies is the only one ever admitted, and    *)
(* its key is the one sshd accepts.                                          *)
THEOREM FirstIsOnly == Spec => []FirstToConnect
<1>1. IndInv => FirstToConnect
  BY DEF IndInv, AttestationInv, FirstToConnect, ThisBoot
<1>2. QED
  BY <1>1, Inductive, PTL

(* No attestation covers an extension older than its own reservation; one by *)
(* somebody else that came later it may cover.                               *)
THEOREM RegisterStartsWithReservation == Spec => []NothingBeforeReservation
<1>1. IndInv => NothingBeforeReservation
  BY DEF IndInv, AttestationInv, NothingBeforeReservation
<1>2. QED
  BY <1>1, Inductive, PTL

(* Once a client is admitted there is no ready file, no listening socket and *)
(* no connection in its queue, and a probe that begins from then on is not   *)
(* told ok.  Nothing is said of the cutoff: a client accepted at it is       *)
(* served.                                                                   *)
THEOREM DoorStaysClosed == Spec => []AdmissionClosesTheDoor
<1>1. IndInv => AdmissionClosesTheDoor
  BY DEF IndInv, DoorInv, LateInv, AdmissionClosesTheDoor
<1>2. QED
  BY <1>1, Inductive, PTL

(* The ready file outlives the open socket in two places only. *)
THEOREM ReadyMeansReachable == Spec => []AdvertisedIsReachable
<1>1. IndInv => AdvertisedIsReachable
  BY DEF IndInv, DoorInv, AdvertisedIsReachable
<1>2. QED
  BY <1>1, Inductive, PTL

(* Only the process of a client that drips is killed at the runtime limit. *)
THEOREM SilenceIsAnswered == Spec => []OnlyDripsAreKilled
<1>1. IndInv => OnlyDripsAreKilled
  BY DEF IndInv, ClockInv, OnlyDripsAreKilled
<1>2. QED
  BY <1>1, Inductive, PTL

(* A running listener finds every file of the configuration. *)
THEOREM StartsConfigured == Spec => []ListenerIsConfigured
<1>1. IndInv => ListenerIsConfigured
  BY DEF IndInv, ConfigInv, ListenerIsConfigured, Running, ConfigFiles
<1>2. QED
  BY <1>1, Inductive, PTL

-----------------------------------------------------------------------------
(* The refinement: each step of the VM is a step of Reservation or none.     *)

(* A step that changes neither the history nor the key, and moves pc between *)
(* two states of the same phase, is invisible; an exception ends the phase.  *)
LEMMA PhaseOfRaise ==
  ASSUME IndInv, Raise, power = "on"
  PROVE  R!Next \/ UNCHANGED R!vars
<1>1. power' = "on" /\ pc' = "exited" /\ UNCHANGED <<admissions, authorizedKey, files>>
  BY DEF Raise, vmVars
<1>2. CASE "listener-started" \in files
  <2>1. phaseBar' = "over" /\ holderBar' = holderBar
    BY <1>1, <1>2 DEF over, phaseBar, holderBar
  <2>2. QED
    BY <1>1, <2>1 DEF R!Next, R!End, R!vars
<1>3. CASE "listener-started" \notin files
  <2>1. pc \in {"inactive", "claim", "exited", "stopped"} /\ admissions = <<>>
    BY <1>3 DEF IndInv, ClaimInv
  <2>2. phaseBar = "open" /\ phaseBar' = "open" /\ holderBar' = holderBar
    BY <1>1, <1>3, <2>1 DEF over, phaseBar, holderBar
  <2>3. QED
    BY <1>1, <2>2 DEF R!vars
<1>4. QED
  BY <1>2, <1>3

(* The steps of serve(). *)
LEMMA ListenerStepRefines ==
  ASSUME IndInv, ListenerStep \/ StepFails, power = "on"
  PROVE  R!Next \/ UNCHANGED R!vars
<1> USE DEF over, phaseBar, holderBar, R!vars, vmVars, Goto, IndInv, ClaimInv, PeerInv, KeyInv,
        BeforeAcknowledge, Admitted, Authorized
<1>1. CASE ClaimListenerStart
  BY <1>1, PhaseOfRaise DEF ClaimListenerStart
<1>2. CASE PrepareAdmission
  BY <1>2, PhaseOfRaise DEF PrepareAdmission
<1>3. CASE BindAndListen
  BY <1>3, PhaseOfRaise DEF BindAndListen
<1>4. CASE PublishReady
  BY <1>4, PhaseOfRaise DEF PublishReady, R!Next, R!End
<1>5. CASE Accept
  BY <1>5, PhaseOfRaise DEF Accept
<1>6. CASE AcceptTimesOut
  BY <1>6, PhaseOfRaise DEF AcceptTimesOut
<1>7. CASE CloseListener
  BY <1>7, PhaseOfRaise DEF CloseListener
<1>8. CASE WithdrawReady
  BY <1>8, PhaseOfRaise DEF WithdrawReady, R!Next, R!End
<1>9. CASE SendAcknowledgement
  BY <1>9, PhaseOfRaise DEF SendAcknowledgement, R!Next, R!Hold
<1>10. CASE ReadLength
  BY <1>10, PhaseOfRaise DEF ReadLength
<1>11. CASE ReadBody
  BY <1>11, PhaseOfRaise DEF ReadBody
<1>12. CASE RequestIncomplete
  BY <1>12, PhaseOfRaise DEF RequestIncomplete
<1>13. CASE RequestTimesOut
  BY <1>13, PhaseOfRaise DEF RequestTimesOut
<1>14. CASE WriteAuthorizedKey
  BY <1>14, PhaseOfRaise DEF WriteAuthorizedKey, R!Next, R!Authorize
<1>15. CASE ExtendRegister
  BY <1>15, PhaseOfRaise DEF ExtendRegister
<1>16. CASE CheckRegister
  BY <1>16, PhaseOfRaise DEF CheckRegister
<1>17. CASE CreateQuote
  BY <1>17, PhaseOfRaise DEF CreateQuote
<1>18. CASE SendAttestation
  BY <1>18, PhaseOfRaise DEF SendAttestation, R!Next, R!Attest
<1>19. CASE ExecuteSshd
  BY <1>19, PhaseOfRaise DEF ExecuteSshd
<1>20. CASE StepFails
  BY <1>20, PhaseOfRaise DEF StepFails
<1>30. QED
  BY <1>1, <1>2, <1>3, <1>4, <1>5, <1>6, <1>7, <1>8, <1>9, <1>10, <1>11, <1>12, <1>13, <1>14, <1>15, <1>16, <1>17, <1>18, <1>19, <1>20 DEF ListenerStep

(* sshd, a kill, the clocks and the clients. *)
LEMMA EnvironmentStepRefines ==
  ASSUME IndInv, ListenerNext, ~ListenerStep, ~StepFails, power = "on"
  PROVE  R!Next \/ UNCHANGED R!vars
<1> USE DEF over, phaseBar, holderBar, R!vars, vmVars
<1>1. CASE Killed \/ LoginGraceEnds \/ SessionEnds
  BY <1>1, PhaseOfRaise DEF Killed, LoginGraceEnds, SessionEnds
<1>2. CASE SshLogin
  BY <1>2 DEF SshLogin, Goto, R!Next, R!Login, IndInv, PeerInv, Admitted, Authorized
<1>3. CASE CutoffPasses \/ DeadlineExpires
  BY <1>3 DEF CutoffPasses, DeadlineExpires
<1>4. CASE ClientStep
  BY <1>4 DEF ClientStep, Connect, SendRequest, CloseConnection, procVars
<1>5. QED
  BY <1>1, <1>2, <1>3, <1>4 DEF ListenerNext

(* systemd: a halt ends the reservation. *)
LEMMA SystemdStepRefines ==
  ASSUME IndInv, SystemdStep
  PROVE  R!Next \/ UNCHANGED R!vars
<1> USE DEF over, phaseBar, holderBar, R!vars, vmVars
<1>1. CASE StartListener \/ StartAgain
  BY <1>1 DEF StartListener, StartAgain, IndInv, ClaimInv, R!Next, R!End
<1>2. CASE StartFails
  BY <1>2, PhaseOfRaise DEF StartFails
<1>3. CASE ServiceStops
  BY <1>3 DEF ServiceStops
<1>4. CASE Halt /\ power = "on"
  BY <1>4 DEF Halt, R!Next, R!End
<1>5. QED
  BY <1>1, <1>2, <1>3, <1>4 DEF SystemdStep, PowerOff, PowerLoss

(* A boot opens a new reservation; the other processes do not touch one. *)
LEMMA OtherStepRefines ==
  ASSUME IndInv, Next, ~SystemdStep, ~(power = "on" /\ ListenerNext)
  PROVE  R!Next \/ UNCHANGED R!vars
<1> USE DEF over, phaseBar, holderBar, R!vars
<1>1. CASE Boot
  BY <1>1 DEF Boot, R!Next, R!NewBoot
<1>2. CASE ConfigNext /\ UNCHANGED <<listenerVars, healthVars, starts>>
  BY <1>2 DEF ConfigNext, ConfigStep, ConfigFails, FetchInstanceId, GenerateHostKey,
     PublishInstanceId, FetchManifest, FetchBundle, Publish, vmVars, listenerVars
<1>3. CASE \/ HealthNext /\ UNCHANGED <<configPc, listenerVars, starts>>
           \/ ForeignExtension /\ UNCHANGED <<configPc, listenerVars, healthVars, starts>>
  BY <1>3 DEF HealthNext, ForeignExtension, vmVars, listenerVars
<1>4. QED
  BY <1>1, <1>2, <1>3 DEF Next

(* The VM implements the safety part of Reservation: whatever fails, is      *)
(* killed, started again or rebooted, there is one holder in a boot, only    *)
(* its key is authorised, and it is attested only with its key in place.     *)
THEOREM ReservationRefined == Spec => R!Safety
<1>1. Init => R!Init
  BY DEF Init, VMInit, VMReset, ListenerInit, ListenerReset, R!Init, over, phaseBar, holderBar
<1>2. IndInv /\ [Next]_vars => [R!Next]_(R!vars)
  <2> SUFFICES ASSUME IndInv, [Next]_vars PROVE R!Next \/ UNCHANGED R!vars
    OBVIOUS
  <2>1. CASE UNCHANGED vars
    BY <2>1 DEF vars, vmVars, listenerVars, R!vars, over, phaseBar, holderBar
  <2>2. CASE Next
    <3>1. CASE SystemdStep
      BY <3>1, SystemdStepRefines
    <3>2. CASE power = "on" /\ ListenerNext
      BY <3>2, ListenerStepRefines, EnvironmentStepRefines
    <3>3. CASE ~SystemdStep /\ ~(power = "on" /\ ListenerNext)
      BY <2>2, <3>3, OtherStepRefines
    <3>4. QED
      BY <2>2, <3>1, <3>2, <3>3 DEF Next
  <2>3. QED
    BY <2>1, <2>2
<1>3. QED
  BY <1>1, <1>2, Inductive, PTL DEF Spec, R!Safety
=============================================================================
