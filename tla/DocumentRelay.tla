---------------------------- MODULE DocumentRelay ----------------------------
(***************************************************************************)
(* confer-document-session: the command an SSH channel runs to talk to one *)
(* document worker. One thread relays standard input to the worker's       *)
(* socket, the main thread relays the socket to standard output.           *)
(*                                                                         *)
(* Bytes are numbered units, and the worker answers unit i with unit i.    *)
(* The pipe or channel on either side and each direction of the socket     *)
(* hold at most Capacity units; a full one blocks its writer.              *)
(***************************************************************************)
EXTENDS Naturals, Sequences, SequencesExt

CONSTANTS
  MaxSent,  \* bound: units one client sends
  Capacity  \* what a pipe or a socket buffer holds

ASSUME RelayAssumption == MaxSent \in Nat /\ Capacity \in Nat \ {0}

VARIABLES
  client,     \* "open", "eof" (it closed its side) or "gone" (channel closed)
  sent,       \* units the client sent
  stdin,      \* units in the input pipe
  input,      \* where the relay_input thread is
  inHand,     \* what it read and has not sent
  toWorker,   \* units in the worker's receive queue
  shutdown,   \* the worker's input has ended
  worker,     \* where the worker is
  taken,      \* units the worker read
  answered,   \* units the worker wrote
  fromWorker, \* units in the relay's receive queue
  reset,      \* the worker went away with units unread
  main,       \* where the main thread is
  outHand,    \* what it received and has not written
  status,     \* the exit status of the command
  stdout,     \* units in the output pipe
  received    \* units the client read

clientVars == <<client, sent, received>>
inVars     == <<input, inHand>>
workerVars == <<worker, taken, answered>>
mainVars   == <<main, outHand, status>>
vars == <<client, sent, stdin, input, inHand, toWorker, shutdown, worker, taken, answered,
          fromWorker, reset, main, outHand, status, stdout, received>>

Units == 1..MaxSent

TypeOK ==
  /\ client \in {"open", "eof", "gone"} /\ sent \in 0..MaxSent
  /\ input \in {"idle", "read", "send", "shut", "ended"}
  /\ worker \in {"starting", "reading", "writing", "ended"}
  /\ main \in {"connect", "recv", "write", "exited"}
  /\ shutdown \in BOOLEAN /\ reset \in BOOLEAN /\ status \in {0, 1}
  /\ \A s \in {stdin, inHand, toWorker, taken, answered, fromWorker, outHand, stdout, received} :
       s \in Seq(Units)

Init ==
  /\ client = "open" /\ sent = 0
  /\ stdin = <<>> /\ stdout = <<>> /\ received = <<>>
  /\ input = "idle" /\ inHand = <<>>
  /\ toWorker = <<>> /\ fromWorker = <<>> /\ shutdown = FALSE /\ reset = FALSE
  /\ worker = "starting" /\ taken = <<>> /\ answered = <<>>
  /\ main = "connect" /\ outHand = <<>> /\ status = 0

(* Some of `source`, at least one unit and no more than fit into `target`,   *)
(* moves from the one to the other.                                          *)
Smaller(x, y) == IF x <= y THEN x ELSE y
Room(target)  == Capacity - Len(target)
Moved(source, target, n, source2, target2) ==
  /\ target2 = target \o SubSeq(source, 1, n)
  /\ source2 = SubSeq(source, n + 1, Len(source))

Alive == main \in {"recv", "write"}

-----------------------------------------------------------------------------
(* The client at the other end of the channel. *)
ClientSend ==
  /\ client = "open" /\ sent < MaxSent /\ Len(stdin) < Capacity
  /\ sent' = sent + 1
  /\ stdin' = Append(stdin, sent + 1)
  /\ UNCHANGED <<client, received, inVars, toWorker, shutdown, workerVars, fromWorker, reset, mainVars, stdout>>

ClientEof ==
  /\ client = "open"
  /\ client' = "eof"
  /\ UNCHANGED <<sent, received, stdin, inVars, toWorker, shutdown, workerVars, fromWorker, reset, mainVars, stdout>>

ClientGone ==
  /\ client # "gone"
  /\ client' = "gone"
  /\ UNCHANGED <<sent, received, stdin, inVars, toWorker, shutdown, workerVars, fromWorker, reset, mainVars, stdout>>

ClientReceive ==
  /\ client # "gone" /\ stdout # <<>>
  /\ received' = Append(received, Head(stdout))
  /\ stdout' = Tail(stdout)
  /\ UNCHANGED <<client, sent, stdin, inVars, toWorker, shutdown, workerVars, fromWorker, reset, mainVars>>

-----------------------------------------------------------------------------
InRead ==
  /\ Alive /\ input = "read" /\ stdin # <<>>
  /\ \E n \in 1..Len(stdin) : Moved(stdin, <<>>, n, stdin', inHand')
  /\ input' = "send"
  /\ UNCHANGED <<clientVars, toWorker, shutdown, workerVars, fromWorker, reset, mainVars, stdout>>

InEof ==
  /\ Alive /\ input = "read" /\ stdin = <<>> /\ client # "open"
  /\ input' = "shut"
  /\ UNCHANGED <<clientVars, stdin, inHand, toWorker, shutdown, workerVars, fromWorker, reset, mainVars, stdout>>

(* Mutant: send in the place of sendall.                        *)
InSendOnce ==
  /\ Alive /\ input = "send" /\ worker # "ended"
  /\ \E n \in 1..Smaller(Len(inHand), Room(toWorker)) : toWorker' = toWorker \o SubSeq(inHand, 1, n)
  /\ inHand' = <<>> /\ input' = "read"
  /\ UNCHANGED <<clientVars, stdin, shutdown, workerVars, fromWorker, reset, mainVars, stdout>>

(* sendall sends until nothing is left in hand. *)
InSend ==
  /\ Alive /\ input = "send" /\ worker # "ended"
  /\ \E n \in 1..Smaller(Len(inHand), Room(toWorker)) : Moved(inHand, toWorker, n, inHand', toWorker')
  /\ input' = IF inHand' = <<>> THEN "read" ELSE "send"
  /\ UNCHANGED <<clientVars, stdin, shutdown, workerVars, fromWorker, reset, mainVars, stdout>>

InSendFails ==
  /\ Alive /\ input = "send" /\ worker = "ended"
  /\ input' = "shut"
  /\ UNCHANGED <<clientVars, stdin, inHand, toWorker, shutdown, workerVars, fromWorker, reset, mainVars, stdout>>

(* Mutant: a thread that ends without the half-close.           *)
InShutSilently ==
  /\ Alive /\ input = "shut"
  /\ input' = "ended"
  /\ UNCHANGED <<clientVars, stdin, inHand, toWorker, shutdown, workerVars, fromWorker, reset, mainVars, stdout>>

(* finally: connection.shutdown(SHUT_WR). *)
InShut ==
  /\ Alive /\ input = "shut"
  /\ shutdown' = TRUE
  /\ input' = "ended"
  /\ UNCHANGED <<clientVars, stdin, inHand, toWorker, workerVars, fromWorker, reset, mainVars, stdout>>

InputStep == InRead \/ InEof \/ InSend \/ InSendFails \/ InShut

-----------------------------------------------------------------------------
(* The worker of the connection, started by systemd for it, or not at all    *)
(* when MaxConnections of them are running.                                  *)
WorkerStart ==
  /\ main # "connect" /\ worker = "starting"
  /\ worker' = "reading"
  /\ UNCHANGED <<clientVars, stdin, inVars, toWorker, shutdown, taken, answered, fromWorker, reset, mainVars, stdout>>

WorkerRead ==
  /\ worker = "reading" /\ toWorker # <<>>
  /\ taken' = Append(taken, Head(toWorker))
  /\ toWorker' = Tail(toWorker)
  /\ worker' = "writing"
  /\ UNCHANGED <<clientVars, stdin, inVars, shutdown, answered, fromWorker, reset, mainVars, stdout>>

WorkerWrite ==
  /\ worker = "writing" /\ main # "exited" /\ Len(fromWorker) < Capacity
  /\ answered' = Append(answered, Last(taken))
  /\ fromWorker' = Append(fromWorker, Last(taken))
  /\ worker' = "reading"
  /\ UNCHANGED <<clientVars, stdin, inVars, toWorker, shutdown, taken, reset, mainVars, stdout>>

(* The kernel remembers that the socket was closed with units unread.        *)
WorkerGone ==
  /\ worker' = "ended"
  /\ reset' = (toWorker # <<>>)
  /\ toWorker' = <<>>
  /\ UNCHANGED <<clientVars, stdin, inVars, shutdown, taken, answered, fromWorker, mainVars, stdout>>

(* Its input ends, or nobody takes its answers. *)
WorkerEnds ==
  /\ \/ worker = "reading" /\ toWorker = <<>> /\ (shutdown \/ main = "exited")
     \/ worker = "writing" /\ main = "exited"
  /\ WorkerGone

(* The connection is refused, the session is closed, a limit is reached.     *)
WorkerKilled ==
  /\ main # "connect" /\ worker # "ended"
  /\ WorkerGone

WorkerStep == WorkerStart \/ WorkerRead \/ WorkerWrite \/ WorkerEnds

-----------------------------------------------------------------------------
(* main. *)
Connect ==
  /\ main = "connect"
  /\ main' = "recv" /\ input' = "read"
  /\ UNCHANGED <<clientVars, stdin, inHand, toWorker, shutdown, workerVars, fromWorker, reset, outHand, status, stdout>>

Exit(code) ==
  /\ main' = "exited" /\ status' = code
  /\ input' = "ended"
  /\ UNCHANGED <<clientVars, stdin, inHand, toWorker, shutdown, workerVars, fromWorker, reset, outHand, stdout>>

ConnectFails == main = "connect" /\ Exit(1)

(* Mutant: one loop, that sends all input and then takes answers. *)
MainReceiveAfterInput ==
  /\ main = "recv" /\ fromWorker # <<>> /\ input = "ended"
  /\ \E n \in 1..Len(fromWorker) : Moved(fromWorker, <<>>, n, fromWorker', outHand')
  /\ main' = "write"
  /\ UNCHANGED <<clientVars, stdin, inVars, toWorker, shutdown, workerVars, reset, status, stdout>>

MainReceive ==
  /\ main = "recv" /\ fromWorker # <<>>
  /\ \E n \in 1..Len(fromWorker) : Moved(fromWorker, <<>>, n, fromWorker', outHand')
  /\ main' = "write"
  /\ UNCHANGED <<clientVars, stdin, inVars, toWorker, shutdown, workerVars, reset, status, stdout>>

(* Behind the last unit recv finds the end, or the reset if the input thread *)
(* has not been told of it before.                                           *)
MainEof ==
  /\ main = "recv" /\ fromWorker = <<>> /\ worker = "ended"
  /\ \E code \in IF reset THEN {0, 1} ELSE {0} : Exit(code)

(* Mutant: one os.write for a chunk.                            *)
MainWriteOnce ==
  /\ main = "write" /\ client # "gone"
  /\ \E n \in 1..Smaller(Len(outHand), Room(stdout)) : stdout' = stdout \o SubSeq(outHand, 1, n)
  /\ outHand' = <<>> /\ main' = "recv"
  /\ UNCHANGED <<clientVars, stdin, inVars, toWorker, shutdown, workerVars, fromWorker, reset, status>>

(* os.write until the view is empty. *)
MainWrite ==
  /\ main = "write" /\ client # "gone"
  /\ \E n \in 1..Smaller(Len(outHand), Room(stdout)) : Moved(outHand, stdout, n, outHand', stdout')
  /\ main' = IF outHand' = <<>> THEN "recv" ELSE "write"
  /\ UNCHANGED <<clientVars, stdin, inVars, toWorker, shutdown, workerVars, fromWorker, reset, status>>

MainWriteFails == main = "write" /\ client = "gone" /\ Exit(1)

MainStep == Connect \/ MainReceive \/ MainEof \/ MainWrite \/ MainWriteFails

Next ==
  \/ ClientSend \/ ClientEof \/ ClientGone \/ ClientReceive
  \/ InputStep \/ WorkerStep \/ WorkerKilled \/ MainStep \/ ConnectFails

(* Both threads and the worker run, and a client that is there reads.        *)
Spec ==
  /\ Init /\ [][Next]_vars
  /\ WF_vars(InputStep) /\ WF_vars(WorkerStep) /\ WF_vars(MainStep) /\ WF_vars(ClientReceive)

-----------------------------------------------------------------------------
(* Both directions are streams: no unit is lost, doubled or overtaken on its *)
(* way, through partial reads and partial writes, as long as both ends live. *)
StreamsIntact ==
  /\ worker # "ended" /\ main # "exited" =>
       taken \o toWorker \o inHand \o stdin = [i \in 1..sent |-> i]
  /\ main # "exited" => received \o stdout \o outHand \o fromWorker = answered
  /\ IsPrefix(taken, [i \in 1..sent |-> i]) /\ IsPrefix(answered, taken)

(* Exit status 0 tells the client that it has every answer the worker gave.  *)
ZeroMeansComplete == main = "exited" /\ status = 0 => received \o stdout = answered

(* Whether a thread of the command, the worker or a client that reads has    *)
(* something to do: what the guards of their steps ask for.                  *)
InputCanMove ==
  \/ input = "read" /\ (stdin # <<>> \/ client # "open")
  \/ input = "send" /\ (Room(toWorker) > 0 \/ worker = "ended")
  \/ input = "shut"
WorkerCanMove ==
  \/ worker = "starting"
  \/ worker = "reading" /\ (toWorker # <<>> \/ shutdown)
  \/ worker = "writing" /\ Room(fromWorker) > 0
  \/ worker # "ended" /\ main = "exited"
MainCanMove ==
  \/ main = "recv" /\ (fromWorker # <<>> \/ worker = "ended")
  \/ main = "write" /\ (Room(stdout) > 0 \/ client = "gone")
ClientCanRead == client # "gone" /\ stdout # <<>>

(* The two threads, the worker and the client never all wait for each other, *)
(* however small the buffers between them are: nobody can move only when     *)
(* both processes have ended, or when it is the client's turn and it has the *)
(* answer to all it sent.                                                    *)
NoDeadlock ==
  main # "connect" =>
    \/ InputCanMove \/ WorkerCanMove \/ MainCanMove \/ ClientCanRead
    \/ main = "exited" /\ worker = "ended"
    \/ client = "open" /\ received = [i \in 1..sent |-> i]

(* How far every unit and every actor is from the end of its way.            *)
ClientAhead == [open |-> 2, eof |-> 1, gone |-> 0]
InputAhead  == [idle |-> 3, read |-> 2, send |-> 2, shut |-> 1, ended |-> 0]
WorkerAhead == [starting |-> 2, reading |-> 1, writing |-> 1, ended |-> 0]
MainAhead   == [connect |-> 2, recv |-> 1, write |-> 1, exited |-> 0]
UnitsAhead ==
  8 * (MaxSent - sent) + 7 * Len(stdin) + 6 * Len(inHand) + 5 * Len(toWorker)
    + 4 * (Len(taken) - Len(answered)) + 3 * Len(fromWorker) + 2 * Len(outHand) + Len(stdout)
StagesAhead == ClientAhead[client] + InputAhead[input] + WorkerAhead[worker] + MainAhead[main]
Ahead == UnitsAhead + StagesAhead

(* Every step brings a unit or an actor nearer to its end: no read, write,   *)
(* failure or half-close is done over again, so that a session of so many    *)
(* units ends or waits for its client after so many steps.                   *)
StepsMoveOn == [][Ahead' < Ahead]_vars

(* Together: wherever a step leads, the session goes on until it ends or     *)
(* waits for its client, and it cannot go on for ever.                       *)
RelayGoesOn == [][Ahead' < Ahead /\ NoDeadlock']_vars

(* A unit that is sent is answered or the command ends, however much the     *)
(* client sends before it reads. The end of the client's input travels       *)
(* through to the worker's end, and back to the end of the command; a        *)
(* channel that is closed, at whatever point of that, leaves no worker       *)
(* behind.                                                                   *)
AnswersAndEndsArrive ==
  /\ \A i \in Units : sent >= i ~> (i <= Len(received) \/ main = "exited" \/ client = "gone")
  /\ client = "eof"  ~> (main = "exited" \/ client = "gone")
  /\ client = "gone" ~> (worker = "ended" \/ main = "connect")
=============================================================================
