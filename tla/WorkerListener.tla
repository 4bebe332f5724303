--------------------------- MODULE WorkerListener ---------------------------
(***************************************************************************)
(* confer-worker-listener: a process that accepts exactly one connection   *)
(* in the life of a boot, attests the VM to it, and becomes its sshd.      *)
(*                                                                         *)
(* Next to the process itself the module has what it shares with the       *)
(* outside: the kernel's queue of connections that were established but    *)
(* not accepted yet, the bytes each client has sent, and the two clocks    *)
(* (the admission deadline and the five second socket deadlines).          *)
(***************************************************************************)
EXTENDS WorkerVM

CONSTANTS
  Backlog,   \* bound: connections the kernel queues for listen()
  NoQuote    \* no attestation was sent

ASSUME ListenerAssumption == Backlog \in Nat \ {0}

VARIABLES
  pc,          \* where serve() is
  listening,   \* the socket of port 22 is in the LISTEN state
  backlog,     \* the established connections accept() has not returned
  peer,        \* the client of the accepted connection
  cutoff,      \* the admission deadline has passed
  expired,     \* the deadline of the current request or response has passed
  quote,       \* the TDX quote create_quote obtained
  request,     \* what each client has sent on its connection
  gone,        \* the clients that closed their end
  attestation  \* history: the quote in the attestation each client received

procVars     == <<pc, listening, backlog, peer, cutoff, expired, quote>>
clientVars   == <<request, gone, attestation>>
listenerVars == <<pc, listening, backlog, peer, cutoff, expired, quote,
                  request, gone, attestation>>

(* "inactive": systemd has not started the unit; "exited": the process is    *)
(* gone; "stopped": ExecStopPost has run.                                    *)
BeforeAccept == {"claim", "configure", "bind", "admit", "accepting"}
Serving      == {"acknowledge", "readLength", "readBody", "parse", "extend",
                 "check", "quote", "send", "execute"}
PcStates     == BeforeAccept \cup Serving
                  \cup {"inactive", "closing", "withdrawing", "sshd", "session",
                        "exited", "stopped"}
Running      == PcStates \ {"inactive", "exited", "stopped"}

(* What a client has sent: only a length prefix, one above the limit or      *)
(* zero, a whole request that parse_request refuses, or a valid one.         *)
Requests == {"none", "length", "badLength", "malformed", "valid"}
Quotes   == [report : Events, rtmr3 : Register]

ListenerTypeOK ==
  /\ pc \in PcStates
  /\ listening \in BOOLEAN
  /\ backlog \in Seq(Clients)
  /\ peer \in Clients \cup {NoClient}
  /\ pc \in Serving \cup {"sshd", "session"} => peer \in Clients
  /\ cutoff \in BOOLEAN
  /\ expired \in BOOLEAN
  /\ quote \in Quotes \cup {NoQuote}
  /\ request \in [Clients -> Requests]
  /\ gone \subseteq Clients
  /\ attestation \in [Clients -> Quotes \cup {NoQuote}]

ListenerReset ==
  /\ pc = "inactive"
  /\ listening = FALSE
  /\ backlog = <<>>
  /\ peer = NoClient
  /\ cutoff = FALSE
  /\ expired = FALSE
  /\ quote = NoQuote

ListenerInit ==
  /\ ListenerReset
  /\ request = [c \in Clients |-> "none"]
  /\ gone = {}
  /\ attestation = [c \in Clients |-> NoQuote]

Queued(c)    == \E i \in 1..Len(backlog) : backlog[i] = c
Connected(c) == c = peer \/ Queued(c)

(* The process leaves serve() with an exception: `with connection` and the   *)
(* kernel close what is open.                                                *)
Raise ==
  /\ pc' = "exited"
  /\ listening' = FALSE
  /\ backlog' = <<>>
  /\ peer' = NoClient
  /\ UNCHANGED <<vmVars, cutoff, expired, quote, clientVars>>

Goto(state) == pc' = state /\ UNCHANGED <<listening, backlog, peer, cutoff, quote>>

-----------------------------------------------------------------------------
(* Mutant: the marker is created without O_EXCL. *)
ClaimWithoutExclusion ==
  /\ pc = "claim"
  /\ files' = files \cup {"listener-started"}
  /\ Goto("configure")
  /\ UNCHANGED <<power, boot, instanceId, authorizedKey, rtmr3, foreign,
                 admissions, expired, clientVars>>

(* claim_listener_start: O_EXCL on a file that only a boot removes. *)
ClaimListenerStart ==
  /\ pc = "claim"
  /\ \/ "listener-started" \in files /\ Raise
     \/ /\ "listener-started" \notin files
        /\ files' = files \cup {"listener-started"}
        /\ Goto("configure")
        /\ UNCHANGED <<power, boot, instanceId, authorizedKey, rtmr3, foreign,
                       admissions, expired, clientVars>>

(* create_reservation_acknowledgement refuses a missing id and one above     *)
(* 2^64 - 1; the admission deadline is fixed from here on.                   *)
PrepareAdmission ==
  /\ pc = "configure"
  /\ \/ ("instance-id" \notin files \/ instanceId # "valid") /\ Raise
     \/ /\ "instance-id" \in files /\ instanceId = "valid"
        /\ Goto("bind")
        /\ UNCHANGED <<vmVars, expired, clientVars>>

(* Mutant: the ready file is published for a socket that only was bound. *)
BindOnly == pc = "bind" /\ Goto("admit") /\ UNCHANGED <<vmVars, expired, clientVars>>

(* bind and listen: connections are queued from here on, before the ready    *)
(* file exists.                                                              *)
BindAndListen ==
  /\ pc = "bind"
  /\ listening' = TRUE
  /\ pc' = "admit"
  /\ UNCHANGED <<vmVars, backlog, peer, cutoff, expired, quote, clientVars>>

(* The head of accept_until: past the deadline it never advertises.          *)
PublishReady ==
  /\ pc = "admit"
  /\ \/ (cutoff \/ "ready" \in files) /\ Goto("closing") /\ UNCHANGED files
     \/ /\ ~cutoff /\ "ready" \notin files
        /\ files' = files \cup {"ready"}
        /\ Goto("accepting")
  /\ UNCHANGED <<power, boot, instanceId, authorizedKey, rtmr3, foreign, admissions,
                 expired, clientVars>>

Accept ==
  /\ pc = "accepting"
  /\ backlog # <<>>
  /\ peer' = Head(backlog)
  /\ backlog' = Tail(backlog)
  /\ pc' = "closing"
  /\ UNCHANGED <<vmVars, listening, cutoff, expired, quote, clientVars>>

(* accept() times out at the admission deadline, or fails. *)
AcceptTimesOut ==
  /\ pc = "accepting"
  /\ cutoff
  /\ Goto("closing")
  /\ UNCHANGED <<vmVars, expired, clientVars>>

(* finally: listener.close() resets the connections nobody accepted ... *)
CloseListener ==
  /\ pc = "closing"
  /\ listening' = FALSE
  /\ backlog' = <<>>
  /\ pc' = "withdrawing"
  /\ UNCHANGED <<vmVars, peer, cutoff, expired, quote, clientVars>>

(* Mutant: the ready file is withdrawn only when nobody was admitted. *)
WithdrawOnCutoffOnly ==
  /\ pc = "withdrawing"
  /\ files' = IF peer = NoClient THEN files \ {"ready"} ELSE files
  /\ Goto(IF peer = NoClient THEN "exited" ELSE "acknowledge")
  /\ UNCHANGED <<power, boot, instanceId, authorizedKey, rtmr3, foreign, admissions,
                 expired, clientVars>>

(* ... and only then is the ready file removed; without a connection, serve  *)
(* raises AdmissionClosed.                                                   *)
WithdrawReady ==
  /\ pc = "withdrawing"
  /\ files' = files \ {"ready"}
  /\ Goto(IF peer = NoClient THEN "exited" ELSE "acknowledge")
  /\ UNCHANGED <<power, boot, instanceId, authorizedKey, rtmr3, foreign, admissions,
                 expired, clientVars>>

(* send_acknowledgement, and the start of the request's five seconds. *)
SendAcknowledgement ==
  /\ pc = "acknowledge"
  /\ admissions' = Append(admissions, peer)
  /\ expired' = FALSE
  /\ Goto("readLength")
  /\ UNCHANGED <<power, boot, files, instanceId, authorizedKey, rtmr3, foreign, clientVars>>

ReadLength ==
  /\ pc = "readLength"
  /\ request[peer] # "none"
  /\ \/ request[peer] = "badLength" /\ Raise
     \/ /\ request[peer] # "badLength"
        /\ Goto("readBody")
        /\ UNCHANGED <<vmVars, expired, clientVars>>

ReadBody ==
  /\ pc = "readBody"
  /\ request[peer] \in {"malformed", "valid"}
  /\ Goto("parse")
  /\ UNCHANGED <<vmVars, expired, clientVars>>

(* read_exact_before gives up when the deadline passes and at end of file. *)
RequestIncomplete ==
  /\ \/ pc = "readLength" /\ request[peer] = "none"
     \/ pc = "readBody"   /\ request[peer] = "length"
  /\ peer \in gone
  /\ Raise

(* Mutant: the deadline is not handed on to the read of the body. *)
LengthTimesOut == pc = "readLength" /\ expired /\ Raise

RequestTimesOut ==
  /\ pc \in {"readLength", "readBody"}
  /\ expired
  /\ Raise

(* Mutant: the client is attested before its key is written. *)
ParseOnly ==
  /\ pc = "parse"
  /\ request[peer] = "valid"
  /\ Goto("extend")
  /\ UNCHANGED <<vmVars, expired, clientVars>>

(* parse_request, then write_authorized_key, which must create the file. *)
WriteAuthorizedKey ==
  /\ pc = "parse"
  /\ \/ (request[peer] # "valid" \/ "authorized_keys" \in files) /\ Raise
     \/ /\ request[peer] = "valid" /\ "authorized_keys" \notin files
        /\ files' = files \cup {"authorized_keys"}
        /\ authorizedKey' = peer
        /\ Goto("extend")
        /\ UNCHANGED <<power, boot, instanceId, rtmr3, foreign, admissions, expired, clientVars>>

(* read_host_key, and the first half of record_reservation. *)
ExtendRegister ==
  /\ pc = "extend"
  /\ \/ "host-key" \notin files /\ Raise
     \/ /\ "host-key" \in files
        /\ rtmr3' = Append(rtmr3, Event(boot, peer))
        /\ Goto("check")
        /\ UNCHANGED <<power, boot, files, instanceId, authorizedKey, foreign, admissions,
                       expired, clientVars>>

(* Mutant: the register is extended but not read back. *)
RegisterUnchecked == pc = "check" /\ Goto("quote") /\ UNCHANGED <<vmVars, expired, clientVars>>

(* The register must hold this reservation and nothing else. *)
CheckRegister ==
  /\ pc = "check"
  /\ \/ rtmr3 # <<Event(boot, peer)>> /\ Raise
     \/ /\ rtmr3 = <<Event(boot, peer)>>
        /\ Goto("quote")
        /\ UNCHANGED <<vmVars, expired, clientVars>>

(* create_quote signs the register as it is now; the release evidence and    *)
(* the size of the document complete create_attestation.                     *)
CreateQuote ==
  /\ pc = "quote"
  /\ \/ ~({"manifest", "bundle"} \subseteq files) /\ Raise
     \/ /\ {"manifest", "bundle"} \subseteq files
        /\ quote' = [report |-> Event(boot, peer), rtmr3 |-> rtmr3]
        /\ pc' = "send"
        /\ expired' = FALSE
        /\ UNCHANGED <<vmVars, listening, backlog, peer, cutoff, clientVars>>

(* A client that reads nothing lets the five seconds pass. *)
SendAttestation ==
  /\ pc = "send"
  /\ \/ expired /\ Raise
     \/ /\ attestation' = [attestation EXCEPT ![peer] = quote]
        /\ Goto("execute")
        /\ UNCHANGED <<vmVars, expired, request, gone>>

ExecuteSshd ==
  /\ pc = "execute"
  /\ Goto("sshd")
  /\ UNCHANGED <<vmVars, expired, clientVars>>

(* Every system call on the way may fail: accept, the acknowledgement or the *)
(* response on a connection the client reset, a short write to the register, *)
(* the quote, execv.  Up to accept the handlers close the listener and       *)
(* withdraw the ready file; afterwards only the connection is left to close. *)
StepFails ==
  \/ /\ pc \in {"bind", "admit", "accepting"}
     /\ Goto("closing")
     /\ UNCHANGED <<vmVars, expired, clientVars>>
  \/ pc \in {"acknowledge", "parse", "extend", "check", "quote", "send", "execute"} /\ Raise

ListenerStep ==
  \/ ClaimListenerStart \/ PrepareAdmission \/ BindAndListen \/ PublishReady
  \/ Accept \/ AcceptTimesOut \/ CloseListener \/ WithdrawReady
  \/ SendAcknowledgement \/ ReadLength \/ ReadBody \/ RequestIncomplete
  \/ RequestTimesOut \/ WriteAuthorizedKey \/ ExtendRegister \/ CheckRegister
  \/ CreateQuote \/ SendAttestation \/ ExecuteSshd

-----------------------------------------------------------------------------
(* sshd -i serves the inherited connection: public key authentication        *)
(* against authorized_keys; it leaves when the login grace time is over or   *)
(* the connection ends.                                                      *)
SshLogin ==
  /\ pc = "sshd"
  /\ authorizedKey = peer
  /\ Goto("session")
  /\ UNCHANGED <<vmVars, expired, clientVars>>

LoginGraceEnds == pc = "sshd" /\ Raise
SessionEnds    == pc = "session" /\ Raise

(* SIGKILL or the OOM killer: no finally clause runs, so a published ready   *)
(* file outlives the process until ExecStopPost.                             *)
Killed == pc \in Running /\ Raise

-----------------------------------------------------------------------------
(* The clocks. *)
CutoffPasses ==
  /\ ~cutoff
  /\ cutoff' = TRUE
  /\ UNCHANGED <<vmVars, pc, listening, backlog, peer, expired, quote, clientVars>>

DeadlineExpires ==
  /\ pc \in {"readLength", "readBody", "send"}
  /\ ~expired
  /\ expired' = TRUE
  /\ UNCHANGED <<vmVars, pc, listening, backlog, peer, cutoff, quote, clientVars>>

(* The clients: a connection is established as soon as the kernel queues it. *)
Connect(c) ==
  /\ listening
  /\ ~Connected(c)
  /\ Len(backlog) < Backlog
  /\ backlog' = Append(backlog, c)
  /\ request' = [request EXCEPT ![c] = "none"]
  /\ gone' = gone \ {c}
  /\ attestation' = [attestation EXCEPT ![c] = NoQuote]
  /\ UNCHANGED <<vmVars, pc, listening, peer, cutoff, expired, quote>>

(* Bytes may arrive before accept(), and in pieces. *)
SendRequest(c) ==
  /\ Connected(c)
  /\ c \notin gone
  /\ \/ request[c] = "none"   /\ \E r \in {"length", "badLength"} :
                                    request' = [request EXCEPT ![c] = r]
     \/ request[c] = "length" /\ \E r \in {"malformed", "valid"} :
                                    request' = [request EXCEPT ![c] = r]
  /\ UNCHANGED <<vmVars, procVars, gone, attestation>>

CloseConnection(c) ==
  /\ Connected(c)
  /\ c \notin gone
  /\ gone' = gone \cup {c}
  /\ UNCHANGED <<vmVars, procVars, request, attestation>>

ClientStep == \E c \in Clients : Connect(c) \/ SendRequest(c) \/ CloseConnection(c)

ListenerNext ==
  \/ ListenerStep \/ StepFails \/ Killed \/ SshLogin \/ LoginGraceEnds \/ SessionEnds
  \/ CutoffPasses \/ DeadlineExpires \/ ClientStep
=============================================================================
