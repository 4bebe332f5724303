------------------------ MODULE DocumentRelay_proofs ------------------------
(***************************************************************************)
(* Proofs about DocumentRelay: for every number of units and every         *)
(* capacity of the pipes, no unit is lost, doubled or overtaken.           *)
(*                                                                         *)
(* StreamsIntact compares concatenations; the invariant that proves it     *)
(* numbers the units of every buffer on from those before it, so that each *)
(* step is about the two buffers it touches.                               *)
(***************************************************************************)
EXTENDS DocumentRelay, SequenceTheorems, TLAPS

(* The units of s are numbered on from a. *)
Numbered(s, a) == \A i \in 1..Len(s) : s[i] = a + i

(* From the client to the worker. Once the worker is gone nothing arrives;   *)
(* once the command is, only what already is in the worker's queue.          *)
InputInv ==
  /\ worker # "ended" =>
       /\ Numbered(toWorker, Len(taken))
       /\ Len(taken) + Len(toWorker) <= sent
  /\ worker # "ended" /\ main # "exited" =>
       /\ Numbered(inHand, Len(taken) + Len(toWorker))
       /\ Numbered(stdin, Len(taken) + Len(toWorker) + Len(inHand))
       /\ Len(taken) + Len(toWorker) + Len(inHand) + Len(stdin) = sent

(* The worker answers unit after unit. *)
WorkerInv ==
  /\ Numbered(taken, 0) /\ Numbered(answered, 0)
  /\ Len(answered) <= Len(taken) /\ Len(taken) <= sent
  /\ worker \in {"starting", "reading"} => Len(taken) = Len(answered)
  /\ worker = "writing" => Len(taken) = Len(answered) + 1

(* From the worker to the client. *)
OutputInv ==
  /\ Numbered(received, 0) /\ Numbered(stdout, Len(received))
  /\ main # "exited" =>
       /\ Numbered(outHand, Len(received) + Len(stdout))
       /\ Numbered(fromWorker, Len(received) + Len(stdout) + Len(outHand))
       /\ Len(received) + Len(stdout) + Len(outHand) + Len(fromWorker) = Len(answered)
  /\ main = "exited" /\ status = 0 => Len(received) + Len(stdout) = Len(answered)

(* Nothing is in hand where the next chunk is read. *)
HandInv ==
  /\ main = "connect" => input = "idle"
  /\ input \in {"idle", "read"} => inHand = <<>>
  /\ main \in {"connect", "recv"} => outHand = <<>>

Inv == TypeOK /\ InputInv /\ WorkerInv /\ OutputInv /\ HandInv

-----------------------------------------------------------------------------
(* Facts about numbered sequences. *)

(* A chunk that is moved leaves sequences of units. *)
LEMMA MovedType ==
  ASSUME NEW source \in Seq(Units), NEW target \in Seq(Units),
         NEW source2, NEW target2, NEW n \in 1..Len(source),
         Moved(source, target, n, source2, target2)
  PROVE  source2 \in Seq(Units) /\ target2 \in Seq(Units)
<1>1. SubSeq(source, 1, n) \in Seq(Units) /\ source2 \in Seq(Units)
  BY DEF Moved
<1>2. target \o SubSeq(source, 1, n) \in Seq(Units)
  BY <1>1, ConcatProperties, Zenon
<1> QED
  BY <1>1, <1>2 DEF Moved

(* A chunk that is moved keeps both buffers numbered. *)
LEMMA MovedNumbered ==
  ASSUME NEW source \in Seq(Units), NEW target \in Seq(Units),
         NEW source2, NEW target2, NEW a \in Nat, NEW n \in 1..Len(source),
         Moved(source, target, n, source2, target2),
         Numbered(target, a), Numbered(source, a + Len(target))
  PROVE  /\ source2 \in Seq(Units) /\ target2 \in Seq(Units)
         /\ Len(target2) = Len(target) + n /\ Len(source2) = Len(source) - n
         /\ Numbered(target2, a) /\ Numbered(source2, a + Len(target2))
<1> DEFINE chunk == SubSeq(source, 1, n)
<1>1. /\ chunk \in Seq(Units) /\ Len(chunk) = n
      /\ \A i \in 1..n : chunk[i] = source[i]
  OBVIOUS
<1>2. /\ source2 \in Seq(Units) /\ Len(source2) = Len(source) - n
      /\ \A i \in 1..(Len(source) - n) : source2[i] = source[n + i]
  BY DEF Moved
<1>3. target2 = target \o chunk
  BY DEF Moved
<1> HIDE DEF chunk
<1>4. /\ target2 \in Seq(Units) /\ Len(target2) = Len(target) + n
      /\ \A i \in 1..(Len(target) + n) :
           target2[i] = IF i <= Len(target) THEN target[i] ELSE chunk[i - Len(target)]
  <2>1. /\ target \o chunk \in Seq(Units)
        /\ Len(target \o chunk) = Len(target) + Len(chunk)
        /\ \A i \in 1..(Len(target) + Len(chunk)) :
             (target \o chunk)[i] = IF i <= Len(target) THEN target[i] ELSE chunk[i - Len(target)]
    BY <1>1, ConcatProperties, Zenon
  <2> QED
    BY <1>1, <1>3, <2>1, Zenon
<1>5. Numbered(target2, a)
  <2> SUFFICES ASSUME NEW i \in 1..(Len(target) + n) PROVE target2[i] = a + i
    BY <1>4 DEF Numbered
  <2>1. CASE i <= Len(target)
    BY <1>4, <2>1 DEF Numbered
  <2>2. CASE i > Len(target)
    <3>1. i - Len(target) \in 1..n /\ n <= Len(source)
      BY <2>2
    <3>2. target2[i] = source[i - Len(target)]
      BY <1>1, <1>4, <2>2, <3>1
    <3>3. source[i - Len(target)] = a + Len(target) + (i - Len(target))
      BY <3>1 DEF Numbered
    <3> QED
      BY <3>2, <3>3
  <2> QED
    BY <2>1, <2>2
<1>6. Numbered(source2, a + Len(target2))
  BY <1>2, <1>4 DEF Numbered
<1> QED
  BY <1>2, <1>4, <1>5, <1>6

(* So does a chunk that is moved into an empty buffer. *)
LEMMA ChunkNumbered ==
  ASSUME NEW source \in Seq(Units), NEW source2, NEW target2, NEW a \in Nat,
         NEW n \in 1..Len(source), Moved(source, <<>>, n, source2, target2), Numbered(source, a)
  PROVE  /\ source2 \in Seq(Units) /\ target2 \in Seq(Units)
         /\ Len(target2) = n /\ Len(source2) = Len(source) - n
         /\ Numbered(target2, a) /\ Numbered(source2, a + Len(target2))
<1>1. <<>> \in Seq(Units) /\ Len(<<>>) = 0 /\ a + Len(<<>>) = a /\ n \in Nat /\ 0 + n = n
  OBVIOUS
<1>2. Numbered(<<>>, a) /\ Numbered(source, a + Len(<<>>))
  <2>1. Numbered(<<>>, a)
    BY DEF Numbered
  <2> QED
    BY <1>1, <2>1, Zenon
<1>3. /\ source2 \in Seq(Units) /\ target2 \in Seq(Units)
      /\ Len(target2) = Len(<<>>) + n /\ Len(source2) = Len(source) - n
      /\ Numbered(target2, a) /\ Numbered(source2, a + Len(target2))
  BY <1>1, <1>2, MovedNumbered, Zenon
<1> QED
  BY <1>1, <1>3, Zenon

(* So does a single unit. *)
LEMMA UnitNumbered ==
  ASSUME NEW source \in Seq(Units), NEW target \in Seq(Units), NEW a \in Nat,
         source # <<>>, Numbered(target, a), Numbered(source, a + Len(target))
  PROVE  /\ Tail(source) \in Seq(Units) /\ Append(target, Head(source)) \in Seq(Units)
         /\ Len(Append(target, Head(source))) = Len(target) + 1
         /\ Len(Tail(source)) = Len(source) - 1
         /\ Numbered(Append(target, Head(source)), a)
         /\ Numbered(Tail(source), a + Len(target) + 1)
<1>1. /\ Head(source) = source[1] /\ Len(source) \in Nat \ {0} /\ Head(source) \in Units
      /\ Tail(source) \in Seq(Units) /\ Len(Tail(source)) = Len(source) - 1
      /\ \A i \in 1..Len(Tail(source)) : Tail(source)[i] = source[i + 1]
  OBVIOUS
<1>2. Head(source) = a + Len(target) + 1
  BY <1>1 DEF Numbered
<1>3. /\ Append(target, Head(source)) \in Seq(Units)
      /\ Len(Append(target, Head(source))) = Len(target) + 1
      /\ \A i \in 1..Len(target) : Append(target, Head(source))[i] = target[i]
      /\ Append(target, Head(source))[Len(target) + 1] = Head(source)
  BY <1>1
<1>4. Numbered(Append(target, Head(source)), a)
  <2> SUFFICES ASSUME NEW i \in 1..(Len(target) + 1)
               PROVE  Append(target, Head(source))[i] = a + i
    BY <1>3 DEF Numbered
  <2>1. CASE i \in 1..Len(target)
    BY <1>3, <2>1 DEF Numbered
  <2>2. CASE i = Len(target) + 1
    BY <1>2, <1>3, <2>2
  <2> QED
    BY <2>1, <2>2
<1>5. Numbered(Tail(source), a + Len(target) + 1)
  BY <1>1 DEF Numbered
<1> QED
  BY <1>1, <1>3, <1>4, <1>5

(* Sequences that number on from each other are one numbered sequence.       *)
LEMMA NumberedConcat ==
  ASSUME NEW s \in Seq(Units), NEW t \in Seq(Units), Numbered(s, 0), Numbered(t, Len(s))
  PROVE  s \o t \in Seq(Units) /\ Len(s \o t) = Len(s) + Len(t) /\ Numbered(s \o t, 0)
BY ConcatProperties DEF Numbered

(* There is one numbered sequence of each length. *)
LEMMA NumberedUnique ==
  ASSUME NEW s \in Seq(Units), Numbered(s, 0)
  PROVE  s = [i \in 1..Len(s) |-> i]
BY DEF Numbered, Units

-----------------------------------------------------------------------------
(* One lemma for each actor. *)

Sequenced ==
  /\ stdin \in Seq(Units) /\ inHand \in Seq(Units) /\ toWorker \in Seq(Units)
  /\ taken \in Seq(Units) /\ answered \in Seq(Units) /\ fromWorker \in Seq(Units)
  /\ outHand \in Seq(Units) /\ stdout \in Seq(Units) /\ received \in Seq(Units)

Measured ==
  /\ sent \in Nat
  /\ Len(stdin) \in Nat /\ Len(inHand) \in Nat /\ Len(toWorker) \in Nat
  /\ Len(taken) \in Nat /\ Len(answered) \in Nat /\ Len(fromWorker) \in Nat
  /\ Len(outHand) \in Nat /\ Len(stdout) \in Nat /\ Len(received) \in Nat

LEMMA Types ==
  ASSUME Inv
  PROVE  Sequenced /\ Measured
BY RelayAssumption DEF Inv, TypeOK, Sequenced, Measured

(* The client's unit is numbered on from all that are under way. *)
LEMMA ClientSendStep ==
  ASSUME Inv, ClientSend
  PROVE  Inv'
<1>1. /\ sent' = sent + 1 /\ sent < MaxSent
      /\ stdin' = Append(stdin, sent + 1)
      /\ UNCHANGED <<client, received, input, inHand, toWorker, shutdown, worker, taken, answered,
                     fromWorker, reset, main, outHand, status, stdout>>
  BY DEF ClientSend, inVars, workerVars, mainVars
<1>2. Sequenced /\ Measured
  BY Types
<1>3. /\ sent + 1 \in Units /\ sent' \in 0..MaxSent
      /\ stdin' \in Seq(Units) /\ Len(stdin') = Len(stdin) + 1
      /\ \A i \in 1..Len(stdin) : stdin'[i] = stdin[i]
      /\ stdin'[Len(stdin) + 1] = sent + 1
  BY <1>1, <1>2, RelayAssumption DEF Sequenced, Measured, Units
<1>4. TypeOK'
  BY <1>1, <1>3 DEF Inv, TypeOK
<1>5. ASSUME worker # "ended", main # "exited"
      PROVE  /\ Numbered(stdin', Len(taken) + Len(toWorker) + Len(inHand))
             /\ Len(taken) + Len(toWorker) + Len(inHand) + Len(stdin') = sent'
  <2>1. /\ Len(taken) + Len(toWorker) + Len(inHand) + Len(stdin) = sent
        /\ Numbered(stdin, Len(taken) + Len(toWorker) + Len(inHand))
    BY <1>5 DEF Inv, InputInv
  <2>2. Len(taken) + Len(toWorker) + Len(inHand) + Len(stdin') = sent'
    BY <1>1, <1>2, <1>3, <2>1 DEF Measured
  <2>3. ASSUME NEW i \in 1..(Len(stdin) + 1)
        PROVE  stdin'[i] = Len(taken) + Len(toWorker) + Len(inHand) + i
    <3>1. CASE i \in 1..Len(stdin)
      BY <1>3, <2>1, <3>1 DEF Numbered
    <3>2. CASE i = Len(stdin) + 1
      <4>1. stdin'[i] = sent + 1
        BY <1>3, <3>2
      <4>2. sent + 1 = Len(taken) + Len(toWorker) + Len(inHand) + i
        BY <1>2, <2>1, <3>2 DEF Measured
      <4> QED
        BY <4>1, <4>2
    <3> QED
      BY <1>2, <3>1, <3>2 DEF Measured
  <2> QED
    BY <1>3, <2>2, <2>3 DEF Numbered
<1>6. InputInv'
  <2>1. Len(taken) + Len(toWorker) <= sent => Len(taken) + Len(toWorker) <= sent + 1
    BY <1>2 DEF Measured
  <2> QED
    BY <1>1, <1>5, <2>1 DEF Inv, InputInv, Numbered
<1>7. WorkerInv' /\ OutputInv' /\ HandInv'
  BY <1>1, <1>2 DEF Inv, WorkerInv, OutputInv, HandInv, Numbered, Measured
<1> QED
  BY <1>4, <1>6, <1>7 DEF Inv

(* The client reads the oldest unit, or closes its side. *)
LEMMA ClientStep ==
  ASSUME Inv, ClientEof \/ ClientGone \/ ClientReceive
  PROVE  Inv'
<1>1. CASE ClientEof \/ ClientGone
  <2>1. /\ client' \in {"eof", "gone"}
        /\ UNCHANGED <<sent, stdin, input, inHand, toWorker, shutdown, worker, taken, answered,
                       fromWorker, reset, main, outHand, status, stdout, received>>
    BY <1>1 DEF ClientEof, ClientGone, inVars, workerVars, mainVars
  <2> QED
    BY <2>1 DEF Inv, TypeOK, InputInv, WorkerInv, OutputInv, HandInv, Numbered
<1>2. CASE ClientReceive
  <2>1. /\ stdout # <<>> /\ received' = Append(received, Head(stdout)) /\ stdout' = Tail(stdout)
        /\ UNCHANGED <<client, sent, stdin, input, inHand, toWorker, shutdown, worker, taken,
                       answered, fromWorker, reset, main, outHand, status>>
    BY <1>2 DEF ClientReceive, inVars, workerVars, mainVars
  <2>2. Sequenced /\ Measured
    BY Types
  <2>3. Numbered(received, 0) /\ Numbered(stdout, 0 + Len(received))
    BY <2>2 DEF Inv, OutputInv, Measured
  <2>4. /\ received' \in Seq(Units) /\ stdout' \in Seq(Units)
        /\ Len(received') = Len(received) + 1 /\ Len(stdout') = Len(stdout) - 1
        /\ Numbered(received', 0) /\ Numbered(stdout', 0 + Len(received) + 1)
    BY <2>1, <2>2, <2>3, UnitNumbered DEF Sequenced
  <2>5. TypeOK'
    BY <2>1, <2>4 DEF Inv, TypeOK
  <2>6. /\ 0 + Len(received) + 1 = Len(received')
        /\ Len(received') + Len(stdout') = Len(received) + Len(stdout)
    BY <2>2, <2>4 DEF Measured
  <2>7. OutputInv'
    BY <2>1, <2>4, <2>6 DEF Inv, OutputInv, Numbered
  <2>8. InputInv' /\ WorkerInv' /\ HandInv'
    BY <2>1 DEF Inv, InputInv, WorkerInv, HandInv, Numbered
  <2> QED
    BY <2>5, <2>7, <2>8 DEF Inv
<1> QED
  BY <1>1, <1>2

(* The input thread moves chunks, from the pipe and into the socket. *)
LEMMA InReadStep ==
  ASSUME Inv, InRead
  PROVE  Inv'
<1>1. PICK n \in 1..Len(stdin) : Moved(stdin, <<>>, n, stdin', inHand')
  BY DEF InRead
<1>2. /\ Alive /\ input = "read" /\ input' = "send"
      /\ UNCHANGED <<client, sent, received, toWorker, shutdown, worker, taken, answered,
                     fromWorker, reset, main, outHand, status, stdout>>
  BY DEF InRead, clientVars, workerVars, mainVars
<1>3. Sequenced /\ Measured /\ <<>> \in Seq(Units) /\ inHand = <<>> /\ Len(<<>>) = 0
  BY <1>2, Types DEF Inv, HandInv
<1>4. stdin' \in Seq(Units) /\ inHand' \in Seq(Units)
  BY <1>1, <1>3, MovedType DEF Sequenced
<1>5. TypeOK'
  BY <1>2, <1>4 DEF Inv, TypeOK
<1>6. ASSUME worker # "ended", main # "exited"
      PROVE  /\ Numbered(inHand', Len(taken) + Len(toWorker))
             /\ Numbered(stdin', Len(taken) + Len(toWorker) + Len(inHand'))
             /\ Len(taken) + Len(toWorker) + Len(inHand') + Len(stdin') = sent
  <2> DEFINE a == Len(taken) + Len(toWorker)
  <2>1. a \in Nat /\ Numbered(stdin, a) /\ a + Len(stdin) = sent
    BY <1>3, <1>6 DEF Inv, InputInv, Numbered, Measured
  <2> HIDE DEF a
  <2>2. /\ stdin' \in Seq(Units) /\ inHand' \in Seq(Units)
        /\ Len(inHand') = n /\ Len(stdin') = Len(stdin) - n
        /\ Numbered(inHand', a) /\ Numbered(stdin', a + Len(inHand'))
    <3>1. stdin \in Seq(Units)
      BY <1>3 DEF Sequenced
    <3> QED
      BY <1>1, <2>1, <3>1, ChunkNumbered, Zenon
  <2>3. a + Len(inHand') + Len(stdin') = sent
    <3>1. n \in Nat /\ Len(stdin) \in Nat /\ Len(inHand') = n /\ Len(stdin') = Len(stdin) - n
      BY <1>3, <2>2 DEF Measured
    <3>2. a \in Nat /\ a + Len(stdin) = sent
      BY <2>1
    <3> QED
      BY <3>1, <3>2
  <2> QED
    BY <2>2, <2>3 DEF a
<1>7. InputInv'
  BY <1>2, <1>6 DEF Inv, InputInv, Numbered
<1>8. WorkerInv' /\ OutputInv' /\ HandInv'
  BY <1>2 DEF Inv, WorkerInv, OutputInv, HandInv, Numbered, Alive
<1> QED
  BY <1>5, <1>7, <1>8 DEF Inv

LEMMA InSendStep ==
  ASSUME Inv, InSend
  PROVE  Inv'
<1>1. Sequenced /\ Measured
  BY Types
<1>2. /\ Alive /\ worker # "ended" /\ input = "send"
      /\ input' \in {"read", "send"} /\ (input' = "read" => inHand' = <<>>)
      /\ UNCHANGED <<client, sent, received, stdin, shutdown, worker, taken, answered,
                     fromWorker, reset, main, outHand, status, stdout>>
  BY DEF InSend, clientVars, workerVars, mainVars
<1>3. PICK n \in 1..Len(inHand) : Moved(inHand, toWorker, n, inHand', toWorker')
  <2>1. PICK n \in 1..Smaller(Len(inHand), Room(toWorker)) : Moved(inHand, toWorker, n, inHand', toWorker')
    BY DEF InSend
  <2>2. n \in 1..Len(inHand)
    BY <1>1, RelayAssumption DEF Smaller, Room, Measured
  <2> QED
    BY <2>1, <2>2
<1>4. /\ Numbered(toWorker, Len(taken)) /\ Numbered(inHand, Len(taken) + Len(toWorker))
      /\ Numbered(stdin, Len(taken) + Len(toWorker) + Len(inHand))
      /\ Len(taken) + Len(toWorker) + Len(inHand) + Len(stdin) = sent
  BY <1>2 DEF Inv, InputInv, Alive
<1>5. /\ inHand' \in Seq(Units) /\ toWorker' \in Seq(Units)
      /\ Len(toWorker') = Len(toWorker) + n /\ Len(inHand') = Len(inHand) - n
      /\ Numbered(toWorker', Len(taken)) /\ Numbered(inHand', Len(taken) + Len(toWorker'))
  BY <1>1, <1>3, <1>4, MovedNumbered DEF Sequenced, Measured
<1>6. TypeOK'
  BY <1>2, <1>5 DEF Inv, TypeOK
<1>7. /\ Len(taken) + Len(toWorker') + Len(inHand') = Len(taken) + Len(toWorker) + Len(inHand)
      /\ Len(taken) + Len(toWorker') <= sent
  BY <1>1, <1>3, <1>4, <1>5 DEF Measured
<1>8. InputInv'
  <2>1. /\ Numbered(stdin, Len(taken) + Len(toWorker') + Len(inHand'))
        /\ Len(taken) + Len(toWorker') + Len(inHand') + Len(stdin) = sent
    BY <1>4, <1>7, Zenon
  <2> QED
    BY <1>2, <1>5, <1>7, <2>1 DEF InputInv, Numbered
<1>9. WorkerInv' /\ OutputInv' /\ HandInv'
  BY <1>2 DEF Inv, WorkerInv, OutputInv, HandInv, Numbered, Alive
<1> QED
  BY <1>6, <1>8, <1>9 DEF Inv

(* Its end moves nothing. *)
LEMMA InEndStep ==
  ASSUME Inv, InEof \/ InSendFails \/ InShut
  PROVE  Inv'
<1>1. /\ input' \in {"shut", "ended"} /\ shutdown' \in BOOLEAN /\ main # "connect"
      /\ UNCHANGED <<client, sent, received, stdin, inHand, toWorker, worker, taken, answered,
                     fromWorker, reset, main, outHand, status, stdout>>
  BY DEF Inv, TypeOK, InEof, InSendFails, InShut, Alive, clientVars, workerVars, mainVars
<1> QED
  BY <1>1 DEF Inv, TypeOK, InputInv, WorkerInv, OutputInv, HandInv, Numbered

(* The worker takes one unit, answers it, or goes away. *)
LEMMA WorkerReadStep ==
  ASSUME Inv, WorkerRead
  PROVE  Inv'
<1>1. Sequenced /\ Measured
  BY Types
<1>2. /\ worker = "reading" /\ worker' = "writing" /\ toWorker # <<>>
      /\ taken' = Append(taken, Head(toWorker)) /\ toWorker' = Tail(toWorker)
      /\ UNCHANGED <<client, sent, received, stdin, input, inHand, shutdown, answered,
                     fromWorker, reset, main, outHand, status, stdout>>
  BY DEF WorkerRead, clientVars, inVars, mainVars
<1>3. /\ Numbered(taken, 0) /\ Numbered(toWorker, 0 + Len(taken))
      /\ Len(taken) + Len(toWorker) <= sent /\ Len(taken) = Len(answered)
  BY <1>1, <1>2 DEF Inv, InputInv, WorkerInv, Measured
<1>4. /\ taken' \in Seq(Units) /\ toWorker' \in Seq(Units)
      /\ Len(taken') = Len(taken) + 1 /\ Len(toWorker') = Len(toWorker) - 1
      /\ Numbered(taken', 0) /\ Numbered(toWorker', 0 + Len(taken) + 1)
  BY <1>1, <1>2, <1>3, UnitNumbered DEF Sequenced
<1>5. TypeOK'
  BY <1>2, <1>4 DEF Inv, TypeOK
<1>6. /\ Len(taken') + Len(toWorker') = Len(taken) + Len(toWorker)
      /\ 0 + Len(taken) + 1 = Len(taken') /\ Len(taken') <= sent
  <2>1. Len(toWorker) # 0
    BY <1>1, <1>2 DEF Sequenced
  <2> QED
    BY <1>1, <1>3, <1>4, <2>1 DEF Measured
<1>7. InputInv'
  BY <1>2, <1>3, <1>4, <1>6 DEF Inv, InputInv, Numbered
<1>8. WorkerInv'
  BY <1>1, <1>2, <1>3, <1>4, <1>6 DEF Inv, WorkerInv, Numbered, Measured
<1>9. OutputInv' /\ HandInv'
  BY <1>2 DEF Inv, OutputInv, HandInv, Numbered
<1> QED
  BY <1>5, <1>7, <1>8, <1>9 DEF Inv

LEMMA WorkerWriteStep ==
  ASSUME Inv, WorkerWrite
  PROVE  Inv'
<1>1. Sequenced /\ Measured
  BY Types
<1>2. /\ worker = "writing" /\ worker' = "reading" /\ main # "exited"
      /\ answered' = Append(answered, Last(taken)) /\ fromWorker' = Append(fromWorker, Last(taken))
      /\ UNCHANGED <<client, sent, received, stdin, input, inHand, toWorker, shutdown, taken,
                     reset, main, outHand, status, stdout>>
  BY DEF WorkerWrite, clientVars, inVars, mainVars
<1>3. /\ Len(taken) = Len(answered) + 1 /\ Last(taken) = Len(answered) + 1 /\ Last(taken) \in Units
  BY <1>1, <1>2 DEF Inv, WorkerInv, Numbered, Last, Sequenced, Measured
<1>4. /\ answered' \in Seq(Units) /\ Len(answered') = Len(answered) + 1
      /\ \A i \in 1..Len(answered) : answered'[i] = answered[i]
      /\ answered'[Len(answered) + 1] = Len(answered) + 1
      /\ fromWorker' \in Seq(Units) /\ Len(fromWorker') = Len(fromWorker) + 1
      /\ \A i \in 1..Len(fromWorker) : fromWorker'[i] = fromWorker[i]
      /\ fromWorker'[Len(fromWorker) + 1] = Len(answered) + 1
  BY <1>1, <1>2, <1>3 DEF Sequenced
<1>5. TypeOK'
  BY <1>2, <1>4 DEF Inv, TypeOK
<1>6. Numbered(answered', 0)
  <2> SUFFICES ASSUME NEW i \in 1..(Len(answered) + 1) PROVE answered'[i] = 0 + i
    BY <1>4 DEF Numbered
  <2>1. CASE i \in 1..Len(answered)
    BY <1>4, <2>1 DEF Inv, WorkerInv, Numbered
  <2>2. CASE i = Len(answered) + 1
    BY <1>1, <1>4, <2>2 DEF Measured
  <2> QED
    BY <1>1, <2>1, <2>2 DEF Measured
<1> DEFINE a == Len(received) + Len(stdout) + Len(outHand)
<1>7. a \in Nat /\ a + Len(fromWorker) = Len(answered) /\ Numbered(fromWorker, a)
  BY <1>1, <1>2 DEF Inv, OutputInv, Measured
<1> HIDE DEF a
<1>8. Numbered(fromWorker', a)
  <2> SUFFICES ASSUME NEW i \in 1..(Len(fromWorker) + 1) PROVE fromWorker'[i] = a + i
    BY <1>4 DEF Numbered
  <2>1. CASE i \in 1..Len(fromWorker)
    BY <1>4, <1>7, <2>1 DEF Numbered
  <2>2. CASE i = Len(fromWorker) + 1
    <3>1. fromWorker'[i] = Len(answered) + 1
      BY <1>4, <2>2
    <3>2. Len(answered) + 1 = a + i
      BY <1>1, <1>7, <2>2 DEF Measured
    <3> QED
      BY <3>1, <3>2
  <2> QED
    BY <1>1, <2>1, <2>2 DEF Measured
<1>9. a + Len(fromWorker') = Len(answered')
  BY <1>1, <1>4, <1>7 DEF Measured
<1>10. OutputInv'
  BY <1>2, <1>8, <1>9 DEF Inv, OutputInv, Numbered, a
<1>11. WorkerInv'
  BY <1>1, <1>2, <1>3, <1>4, <1>6 DEF Inv, WorkerInv, Numbered, Measured
<1>12. InputInv' /\ HandInv'
  BY <1>2 DEF Inv, InputInv, HandInv, Numbered
<1> QED
  BY <1>5, <1>10, <1>11, <1>12 DEF Inv

LEMMA WorkerLifeStep ==
  ASSUME Inv, WorkerStart \/ WorkerEnds \/ WorkerKilled
  PROVE  Inv'
<1>1. CASE WorkerStart
  <2>1. /\ worker = "starting" /\ worker' = "reading"
        /\ UNCHANGED <<client, sent, received, stdin, input, inHand, toWorker, shutdown, taken,
                       answered, fromWorker, reset, main, outHand, status, stdout>>
    BY <1>1 DEF WorkerStart, clientVars, inVars, mainVars
  <2> QED
    BY <2>1 DEF Inv, TypeOK, InputInv, WorkerInv, OutputInv, HandInv, Numbered
<1>2. CASE WorkerEnds \/ WorkerKilled
  <2>1. /\ worker' = "ended" /\ toWorker' = <<>> /\ reset' \in BOOLEAN
        /\ UNCHANGED <<client, sent, received, stdin, input, inHand, shutdown, taken,
                       answered, fromWorker, main, outHand, status, stdout>>
    BY <1>2 DEF WorkerEnds, WorkerKilled, WorkerGone, clientVars, inVars, mainVars
  <2> QED
    BY <2>1 DEF Inv, TypeOK, InputInv, WorkerInv, OutputInv, HandInv, Numbered
<1> QED
  BY <1>1, <1>2

(* The main thread moves chunks out of the socket and into the channel. *)
LEMMA MainReceiveStep ==
  ASSUME Inv, MainReceive
  PROVE  Inv'
<1>1. PICK n \in 1..Len(fromWorker) : Moved(fromWorker, <<>>, n, fromWorker', outHand')
  BY DEF MainReceive
<1>2. /\ main = "recv" /\ main' = "write"
      /\ UNCHANGED <<client, sent, received, stdin, input, inHand, toWorker, shutdown, worker,
                     taken, answered, reset, status, stdout>>
  BY DEF MainReceive, clientVars, inVars, workerVars
<1>3. /\ Sequenced /\ Measured /\ <<>> \in Seq(Units) /\ outHand = <<>> /\ Len(<<>>) = 0
      /\ fromWorker \in Seq(Units)
  BY <1>2, Types DEF Inv, HandInv, Sequenced
<1> DEFINE a == Len(received) + Len(stdout)
<1>4. a \in Nat /\ Numbered(fromWorker, a)
      /\ a + Len(fromWorker) = Len(answered)
  BY <1>2, <1>3 DEF Inv, OutputInv, Numbered, Measured
<1> HIDE DEF a
<1>5. /\ fromWorker' \in Seq(Units) /\ outHand' \in Seq(Units)
      /\ Len(outHand') = n /\ Len(fromWorker') = Len(fromWorker) - n
      /\ Numbered(outHand', a) /\ Numbered(fromWorker', a + Len(outHand'))
  BY <1>1, <1>3, <1>4, ChunkNumbered, Zenon
<1>6. a + Len(outHand') + Len(fromWorker') = Len(answered)
  <2>1. /\ n \in Nat /\ Len(fromWorker) \in Nat
        /\ Len(outHand') = n /\ Len(fromWorker') = Len(fromWorker) - n
    BY <1>3, <1>5 DEF Measured
  <2>2. a \in Nat /\ a + Len(fromWorker) = Len(answered)
    BY <1>4
  <2> QED
    BY <2>1, <2>2
<1>7. TypeOK'
  BY <1>2, <1>5 DEF Inv, TypeOK
<1>8. OutputInv'
  BY <1>2, <1>5, <1>6 DEF Inv, OutputInv, Numbered, a
<1>9. InputInv' /\ WorkerInv' /\ HandInv'
  BY <1>2 DEF Inv, InputInv, WorkerInv, HandInv, Numbered
<1> QED
  BY <1>7, <1>8, <1>9 DEF Inv

LEMMA MainWriteStep ==
  ASSUME Inv, MainWrite
  PROVE  Inv'
<1>1. Sequenced /\ Measured
  BY Types
<1>2. /\ main = "write" /\ main' \in {"recv", "write"} /\ (main' = "recv" => outHand' = <<>>)
      /\ UNCHANGED <<client, sent, received, stdin, input, inHand, toWorker, shutdown, worker,
                     taken, answered, fromWorker, reset, status>>
  BY DEF MainWrite, clientVars, inVars, workerVars
<1>3. PICK n \in 1..Len(outHand) : Moved(outHand, stdout, n, outHand', stdout')
  <2>1. PICK n \in 1..Smaller(Len(outHand), Room(stdout)) : Moved(outHand, stdout, n, outHand', stdout')
    BY DEF MainWrite
  <2>2. n \in 1..Len(outHand)
    BY <1>1, RelayAssumption DEF Smaller, Room, Measured
  <2> QED
    BY <2>1, <2>2
<1>4. /\ Numbered(stdout, Len(received)) /\ Numbered(outHand, Len(received) + Len(stdout))
      /\ Numbered(fromWorker, Len(received) + Len(stdout) + Len(outHand))
      /\ Len(received) + Len(stdout) + Len(outHand) + Len(fromWorker) = Len(answered)
  BY <1>2 DEF Inv, OutputInv
<1>5. /\ outHand' \in Seq(Units) /\ stdout' \in Seq(Units)
      /\ Len(stdout') = Len(stdout) + n /\ Len(outHand') = Len(outHand) - n
      /\ Numbered(stdout', Len(received)) /\ Numbered(outHand', Len(received) + Len(stdout'))
  <2>1. outHand \in Seq(Units) /\ stdout \in Seq(Units) /\ Len(received) \in Nat
    BY <1>1 DEF Sequenced, Measured
  <2> QED
    BY <1>3, <1>4, <2>1, MovedNumbered, Zenon
<1>6. TypeOK'
  BY <1>2, <1>5 DEF Inv, TypeOK
<1>7. Len(received) + Len(stdout') + Len(outHand') = Len(received) + Len(stdout) + Len(outHand)
  BY <1>1, <1>3, <1>5 DEF Measured
<1>8. /\ Numbered(fromWorker, Len(received) + Len(stdout') + Len(outHand'))
      /\ Len(received) + Len(stdout') + Len(outHand') + Len(fromWorker) = Len(answered)
  BY <1>4, <1>7, Zenon
<1>9. OutputInv'
  BY <1>2, <1>5, <1>8 DEF Inv, OutputInv, Numbered
<1>10. InputInv' /\ WorkerInv' /\ HandInv'
  BY <1>2 DEF Inv, InputInv, WorkerInv, HandInv, Numbered
<1> QED
  BY <1>6, <1>9, <1>10 DEF Inv

(* The command connects, and ends: with status 0 only when nothing is left.  *)
LEMMA MainLifeStep ==
  ASSUME Inv, Connect \/ ConnectFails \/ MainEof \/ MainWriteFails
  PROVE  Inv'
<1>1. CASE Connect
  <2>1. /\ main = "connect" /\ main' = "recv" /\ input' = "read"
        /\ UNCHANGED <<client, sent, received, stdin, inHand, toWorker, shutdown, worker, taken,
                       answered, fromWorker, reset, outHand, status, stdout>>
    BY <1>1 DEF Connect, clientVars, workerVars
  <2> QED
    BY <2>1 DEF Inv, TypeOK, InputInv, WorkerInv, OutputInv, HandInv, Numbered
<1>2. CASE ConnectFails \/ MainEof \/ MainWriteFails
  <2>1. /\ main # "exited" /\ main' = "exited" /\ input' = "ended" /\ status' \in {0, 1}
        /\ status' = 0 => fromWorker = <<>> /\ outHand = <<>>
        /\ UNCHANGED <<client, sent, received, stdin, inHand, toWorker, shutdown, worker, taken,
                       answered, fromWorker, reset, outHand, stdout>>
    BY <1>2 DEF Inv, HandInv, ConnectFails, MainEof, MainWriteFails, Exit, clientVars, workerVars
  <2>2. status' = 0 => Len(received) + Len(stdout) = Len(answered)
    <3>1. Sequenced /\ Measured /\ Len(<<>>) = 0
      BY Types
    <3> QED
      BY <2>1, <3>1 DEF Inv, OutputInv, Measured
  <2> QED
    BY <2>1, <2>2 DEF Inv, TypeOK, InputInv, WorkerInv, OutputInv, HandInv, Numbered
<1> QED
  BY <1>1, <1>2

LEMMA StutterStep ==
  ASSUME Inv, UNCHANGED vars
  PROVE  Inv'
<1>1. UNCHANGED <<client, sent, received, stdin, input, inHand, toWorker, shutdown, worker, taken,
                  answered, fromWorker, reset, main, outHand, status, stdout>>
  BY DEF vars
<1> QED
  BY <1>1 DEF Inv, TypeOK, InputInv, WorkerInv, OutputInv, HandInv, Numbered

-----------------------------------------------------------------------------
(* Every reachable state satisfies the inductive invariant. *)
THEOREM Inductive == Spec => []Inv
<1>1. Init => Inv
  <2> SUFFICES ASSUME Init PROVE Inv
    OBVIOUS
  <2>1. <<>> \in Seq(Units) /\ Len(<<>>) = 0
    OBVIOUS
  <2>2. TypeOK
    <3>1. 0 \in 0..MaxSent
      BY RelayAssumption
    <3>2. \A q \in {stdin, inHand, toWorker, taken, answered, fromWorker, outHand, stdout, received} :
            q \in Seq(Units)
      BY <2>1, Zenon DEF Init
    <3> QED
      BY <3>1, <3>2, Zenon DEF Init, TypeOK
  <2>3. \A a : Numbered(<<>>, a)
    BY <2>1 DEF Numbered
  <2> QED
    BY <2>1, <2>2, <2>3 DEF Init, Inv, InputInv, WorkerInv, OutputInv, HandInv
<1>2. Inv /\ [Next]_vars => Inv'
  BY ClientSendStep, ClientStep, InReadStep, InSendStep, InEndStep, WorkerReadStep, WorkerWriteStep,
     WorkerLifeStep, MainReceiveStep, MainWriteStep, MainLifeStep, StutterStep
     DEF Next, InputStep, WorkerStep, MainStep
<1> QED
  BY <1>1, <1>2, PTL DEF Spec

(* The relay is well typed. *)
THEOREM TypeCorrect == Spec => []TypeOK
<1>1. Inv => TypeOK
  BY DEF Inv
<1> QED
  BY <1>1, Inductive, PTL

(* Four buffers that number on from each other are one numbered stream. *)
LEMMA FourBuffers ==
  ASSUME NEW s \in Seq(Units), NEW t \in Seq(Units), NEW u \in Seq(Units), NEW v \in Seq(Units),
         Numbered(s, 0), Numbered(t, Len(s)), Numbered(u, Len(s) + Len(t)),
         Numbered(v, Len(s) + Len(t) + Len(u))
  PROVE  /\ Numbered(s \o t \o u \o v, 0) /\ s \o t \o u \o v \in Seq(Units)
         /\ Len(s \o t \o u \o v) = Len(s) + Len(t) + Len(u) + Len(v)
<1>1. s \o t \in Seq(Units) /\ Len(s \o t) = Len(s) + Len(t) /\ Numbered(s \o t, 0)
  BY NumberedConcat, Zenon
<1>2. Numbered(u, Len(s \o t)) /\ Numbered(v, Len(s \o t) + Len(u))
  BY <1>1, Zenon
<1> DEFINE st == s \o t
           stu == st \o u
<1>3. stu \in Seq(Units) /\ Len(stu) = Len(st) + Len(u) /\ Numbered(stu, 0)
  BY <1>1, <1>2, NumberedConcat, Zenon
<1>4. Numbered(v, Len(stu))
  BY <1>2, <1>3, Zenon
<1>5. stu \o v \in Seq(Units) /\ Len(stu \o v) = Len(stu) + Len(v) /\ Numbered(stu \o v, 0)
  BY <1>3, <1>4, NumberedConcat, Zenon
<1> QED
  BY <1>1, <1>3, <1>5, Zenon

(* A numbered sequence is a prefix of every longer one. *)
LEMMA NumberedPrefix ==
  ASSUME NEW s \in Seq(Units), NEW t, NEW n \in Nat, Numbered(s, 0),
         Len(t) = n, \A i \in 1..n : t[i] = i, Len(s) <= n
  PROVE  IsPrefix(s, t)
<1>1. SubSeq(s, 1, Len(s)) = [i \in 1..Len(s) |-> s[i]]
  OBVIOUS
<1>2. SubSeq(t, 1, Len(s)) = [i \in 1..Len(s) |-> t[i]]
  OBVIOUS
<1>3. \A i \in 1..Len(s) : s[i] = t[i]
  BY DEF Numbered
<1> QED
  BY <1>1, <1>2, <1>3 DEF IsPrefix

(* confer-document-session keeps both directions intact, whatever part of a  *)
(* chunk each read and write moves and however small the buffers are.        *)
THEOREM StreamsStayIntact == Spec => []StreamsIntact
<1>1. Inv => StreamsIntact
  <2> SUFFICES ASSUME Inv PROVE StreamsIntact
    OBVIOUS
  <2>1. Sequenced /\ Measured
    BY Types
  <2>2. Numbered(taken, 0) /\ Numbered(answered, 0) /\ Len(answered) <= Len(taken) /\ Len(taken) <= sent
    BY DEF Inv, WorkerInv
  <2>3. ASSUME worker # "ended", main # "exited"
        PROVE  taken \o toWorker \o inHand \o stdin = [i \in 1..sent |-> i]
    <3>1. /\ Numbered(taken \o toWorker \o inHand \o stdin, 0)
          /\ taken \o toWorker \o inHand \o stdin \in Seq(Units)
          /\ Len(taken \o toWorker \o inHand \o stdin) = sent
      BY <2>1, <2>2, <2>3, FourBuffers DEF Inv, InputInv, Sequenced
    <3> QED
      BY <3>1, NumberedUnique, Zenon
  <2>4. ASSUME main # "exited"
        PROVE  received \o stdout \o outHand \o fromWorker = answered
    <3>1. /\ Numbered(received \o stdout \o outHand \o fromWorker, 0)
          /\ received \o stdout \o outHand \o fromWorker \in Seq(Units)
          /\ Len(received \o stdout \o outHand \o fromWorker) = Len(answered)
      BY <2>1, <2>4, FourBuffers DEF Inv, OutputInv, Sequenced
    <3>2. answered = [i \in 1..Len(answered) |-> i]
      BY <2>1, <2>2, NumberedUnique, Zenon DEF Sequenced
    <3> QED
      BY <3>1, <3>2, NumberedUnique, Zenon
  <2>5. IsPrefix(taken, [i \in 1..sent |-> i])
    <3>1. Len([i \in 1..sent |-> i]) = sent
      BY <2>1 DEF Measured
    <3>2. \A i \in 1..sent : [j \in 1..sent |-> j][i] = i
      OBVIOUS
    <3> QED
      BY <2>1, <2>2, <3>1, <3>2, NumberedPrefix, Zenon DEF Sequenced, Measured
  <2>6. IsPrefix(answered, taken)
    <3>1. \A i \in 1..Len(taken) : taken[i] = i
      BY <2>1, <2>2 DEF Numbered, Measured
    <3> QED
      BY <2>1, <2>2, <3>1, NumberedPrefix, Zenon DEF Sequenced, Measured
  <2> QED
    BY <2>3, <2>4, <2>5, <2>6 DEF StreamsIntact
<1> QED
  BY <1>1, Inductive, PTL

(* Exit status 0 means that every answer has reached the client's channel.   *)
THEOREM ZeroIsComplete == Spec => []ZeroMeansComplete
<1>1. Inv => ZeroMeansComplete
  <2> SUFFICES ASSUME Inv, main = "exited", status = 0 PROVE received \o stdout = answered
    BY DEF ZeroMeansComplete
  <2>1. /\ received \in Seq(Units) /\ stdout \in Seq(Units) /\ answered \in Seq(Units)
        /\ Numbered(received, 0) /\ Numbered(stdout, Len(received)) /\ Numbered(answered, 0)
        /\ Len(received) + Len(stdout) = Len(answered)
    BY Types DEF Inv, OutputInv, WorkerInv, Sequenced
  <2>2. /\ received \o stdout \in Seq(Units) /\ Len(received \o stdout) = Len(answered)
        /\ Numbered(received \o stdout, 0)
    BY <2>1, NumberedConcat, Zenon
  <2> QED
    BY <2>1, <2>2, NumberedUnique, Zenon
<1> QED
  BY <1>1, Inductive, PTL

-----------------------------------------------------------------------------
(* The input thread exists once the command is connected, and ends only      *)
(* behind the half-close or with the command.                                *)
WaitInv ==
  /\ main # "connect" => input # "idle"
  /\ input = "ended" /\ main # "exited" => shutdown

THEOREM HalfCloseIsNotMissed == Spec => []WaitInv
<1>1. Init => WaitInv
  BY DEF Init, WaitInv
<1>2. WaitInv /\ [Next]_vars => WaitInv'
  <2> SUFFICES ASSUME WaitInv, [Next]_vars PROVE WaitInv'
    OBVIOUS
  <2>1. CASE ClientSend \/ ClientEof \/ ClientGone \/ ClientReceive
    BY <2>1 DEF WaitInv, ClientSend, ClientEof, ClientGone, ClientReceive, inVars, mainVars
  <2>2. CASE InputStep
    BY <2>2 DEF WaitInv, InputStep, InRead, InEof, InSend, InSendFails, InShut, Alive, mainVars
  <2>3. CASE WorkerStep \/ WorkerKilled
    BY <2>3 DEF WaitInv, WorkerStep, WorkerStart, WorkerRead, WorkerWrite, WorkerEnds, WorkerKilled,
                WorkerGone, inVars, mainVars
  <2>4. CASE MainStep \/ ConnectFails
    BY <2>4 DEF WaitInv, MainStep, Connect, ConnectFails, MainReceive, MainEof, MainWrite,
                MainWriteFails, Exit, inVars
  <2>5. CASE UNCHANGED vars
    BY <2>5 DEF WaitInv, vars
  <2> QED
    BY <2>1, <2>2, <2>3, <2>4, <2>5 DEF Next
<1> QED
  BY <1>1, <1>2, PTL DEF Spec

(* An empty buffer has room, whatever its size. *)
LEMMA EmptyHasRoom == Room(<<>>) > 0
BY RelayAssumption DEF Room

(* The threads, the worker and the client never all wait for each other.     *)
(* Whoever is stuck waits for its neighbour, and around the circle that ends *)
(* at empty buffers: then every unit sent has been taken, answered and read. *)
THEOREM NeverDeadlocks == Spec => []NoDeadlock
<1>1. Inv /\ WaitInv => NoDeadlock
  <2> SUFFICES ASSUME Inv, WaitInv, main # "connect",
                      ~InputCanMove, ~WorkerCanMove, ~MainCanMove, ~ClientCanRead,
                      ~(main = "exited" /\ worker = "ended")
               PROVE  client = "open" /\ received = [i \in 1..sent |-> i]
    BY DEF NoDeadlock
  <2>1. main # "exited"
    BY DEF WorkerCanMove
  <2>2. main = "recv" /\ worker # "ended"
    <3>1. CASE main = "write"
      BY <3>1, EmptyHasRoom DEF MainCanMove, ClientCanRead
    <3> QED
      BY <2>1, <3>1 DEF MainCanMove, Inv, TypeOK
  <2>3. fromWorker = <<>> /\ outHand = <<>>
    BY <2>2 DEF MainCanMove, Inv, HandInv
  <2>4. worker = "reading" /\ toWorker = <<>> /\ ~shutdown
    BY <2>2, <2>3, EmptyHasRoom DEF WorkerCanMove, Inv, TypeOK
  <2>5. input = "read" /\ stdin = <<>> /\ inHand = <<>> /\ client = "open"
    BY <2>1, <2>2, <2>4, EmptyHasRoom DEF InputCanMove, WaitInv, Inv, TypeOK, HandInv
  <2>6. stdout = <<>>
    BY <2>5 DEF ClientCanRead
  <2>7. Len(received) = sent
    <3>1. Sequenced /\ Measured /\ Len(<<>>) = 0
      BY Types
    <3>2. Len(taken) + Len(toWorker) + Len(inHand) + Len(stdin) = sent
      BY <2>1, <2>2 DEF Inv, InputInv
    <3>3. Len(taken) = sent
      BY <2>4, <2>5, <3>1, <3>2 DEF Measured
    <3>4. Len(received) + Len(stdout) + Len(outHand) + Len(fromWorker) = Len(answered)
      BY <2>1 DEF Inv, OutputInv
    <3>5. Len(received) = Len(answered)
      BY <2>3, <2>6, <3>1, <3>4 DEF Measured
    <3>6. Len(taken) = Len(answered)
      BY <2>4 DEF Inv, WorkerInv
    <3> QED
      BY <3>3, <3>5, <3>6, Zenon
  <2>8. received = [i \in 1..Len(received) |-> i]
    BY NumberedUnique, Types, Zenon DEF Inv, OutputInv, Sequenced
  <2> QED
    BY <2>5, <2>7, <2>8, Zenon
<1> QED
  BY <1>1, Inductive, HalfCloseIsNotMissed, PTL

-----------------------------------------------------------------------------
(* The measure: units have eight places to pass, actors a few stages.        *)
LEMMA RanksAre ==
  /\ ClientAhead["open"] = 2 /\ ClientAhead["eof"] = 1 /\ ClientAhead["gone"] = 0
  /\ InputAhead["idle"] = 3 /\ InputAhead["read"] = 2 /\ InputAhead["send"] = 2
  /\ InputAhead["shut"] = 1 /\ InputAhead["ended"] = 0
  /\ WorkerAhead["starting"] = 2 /\ WorkerAhead["reading"] = 1 /\ WorkerAhead["writing"] = 1
  /\ WorkerAhead["ended"] = 0
  /\ MainAhead["connect"] = 2 /\ MainAhead["recv"] = 1 /\ MainAhead["write"] = 1 /\ MainAhead["exited"] = 0
BY DEF ClientAhead, InputAhead, WorkerAhead, MainAhead

LEMMA RanksAreNumbers ==
  ASSUME Inv
  PROVE  /\ ClientAhead[client] \in Nat /\ InputAhead[input] \in 0..3
         /\ WorkerAhead[worker] \in Nat /\ MainAhead[main] \in Nat
<1>1. /\ client \in {"open", "eof", "gone"} /\ input \in {"idle", "read", "send", "shut", "ended"}
      /\ worker \in {"starting", "reading", "writing", "ended"} /\ main \in {"connect", "recv", "write", "exited"}
  BY DEF Inv, TypeOK
<1> QED
  BY <1>1, RanksAre

LEMMA RanksAdd ==
  ASSUME NEW c \in Nat, NEW i \in Nat, NEW w \in Nat, NEW m \in Nat,
         NEW c2 \in Nat, NEW i2 \in Nat, NEW w2 \in Nat, NEW m2 \in Nat,
         c2 <= c, i2 <= i, w2 <= w, m2 <= m, c2 < c \/ i2 < i \/ w2 < w \/ m2 < m
  PROVE  c2 + i2 + w2 + m2 \in Nat /\ c2 + i2 + w2 + m2 < c + i + w + m
OBVIOUS

(* The units before and behind each place, as numbers. *)
Weight(a, b, c, d, e, f, g, h) == 8 * a + 7 * b + 6 * c + 5 * d + 4 * e + 3 * f + 2 * g + h

LEMMA UnitsWeigh ==
  UnitsAhead = Weight(MaxSent - sent, Len(stdin), Len(inHand), Len(toWorker), Len(taken) - Len(answered),
                      Len(fromWorker), Len(outHand), Len(stdout))
BY DEF UnitsAhead, Weight

(* A unit that moves on, alone or in a chunk of n, weighs less in its next   *)
(* place than in the one before.                                             *)
LEMMA SentWeighs ==
  ASSUME NEW a \in Int, NEW b \in Int, NEW c \in Int, NEW d \in Int, NEW e \in Int, NEW f \in Int,
         NEW g \in Int, NEW h \in Int
  PROVE  Weight(a - 1, b + 1, c, d, e, f, g, h) \in Int /\ Weight(a - 1, b + 1, c, d, e, f, g, h) < Weight(a, b, c, d, e, f, g, h)
BY DEF Weight

LEMMA ReadWeighs ==
  ASSUME NEW a \in Int, NEW b \in Int, NEW c \in Int, NEW d \in Int, NEW e \in Int, NEW f \in Int,
         NEW g \in Int, NEW h \in Int, NEW n \in Nat \ {0}
  PROVE  Weight(a, b - n, c + n, d, e, f, g, h) \in Int /\ Weight(a, b - n, c + n, d, e, f, g, h) < Weight(a, b, c, d, e, f, g, h)
BY DEF Weight

LEMMA PassedWeighs ==
  ASSUME NEW a \in Int, NEW b \in Int, NEW c \in Int, NEW d \in Int, NEW e \in Int, NEW f \in Int,
         NEW g \in Int, NEW h \in Int, NEW n \in Nat \ {0}
  PROVE  Weight(a, b, c - n, d + n, e, f, g, h) \in Int /\ Weight(a, b, c - n, d + n, e, f, g, h) < Weight(a, b, c, d, e, f, g, h)
BY DEF Weight

LEMMA TakenWeighs ==
  ASSUME NEW a \in Int, NEW b \in Int, NEW c \in Int, NEW d \in Int, NEW e \in Int, NEW f \in Int,
         NEW g \in Int, NEW h \in Int
  PROVE  Weight(a, b, c, d - 1, e + 1, f, g, h) \in Int /\ Weight(a, b, c, d - 1, e + 1, f, g, h) < Weight(a, b, c, d, e, f, g, h)
BY DEF Weight

LEMMA AnsweredWeighs ==
  ASSUME NEW a \in Int, NEW b \in Int, NEW c \in Int, NEW d \in Int, NEW e \in Int, NEW f \in Int,
         NEW g \in Int, NEW h \in Int
  PROVE  Weight(a, b, c, d, e - 1, f + 1, g, h) \in Int /\ Weight(a, b, c, d, e - 1, f + 1, g, h) < Weight(a, b, c, d, e, f, g, h)
BY DEF Weight

LEMMA FetchedWeighs ==
  ASSUME NEW a \in Int, NEW b \in Int, NEW c \in Int, NEW d \in Int, NEW e \in Int, NEW f \in Int,
         NEW g \in Int, NEW h \in Int, NEW n \in Nat \ {0}
  PROVE  Weight(a, b, c, d, e, f - n, g + n, h) \in Int /\ Weight(a, b, c, d, e, f - n, g + n, h) < Weight(a, b, c, d, e, f, g, h)
BY DEF Weight

LEMMA WrittenWeighs ==
  ASSUME NEW a \in Int, NEW b \in Int, NEW c \in Int, NEW d \in Int, NEW e \in Int, NEW f \in Int,
         NEW g \in Int, NEW h \in Int, NEW n \in Nat \ {0}
  PROVE  Weight(a, b, c, d, e, f, g - n, h + n) \in Int /\ Weight(a, b, c, d, e, f, g - n, h + n) < Weight(a, b, c, d, e, f, g, h)
BY DEF Weight

LEMMA ReceivedWeighs ==
  ASSUME NEW a \in Int, NEW b \in Int, NEW c \in Int, NEW d \in Int, NEW e \in Int, NEW f \in Int,
         NEW g \in Int, NEW h \in Int
  PROVE  Weight(a, b, c, d, e, f, g, h - 1) \in Int /\ Weight(a, b, c, d, e, f, g, h - 1) < Weight(a, b, c, d, e, f, g, h)
BY DEF Weight

LEMMA UnreadWeighs ==
  ASSUME NEW a \in Int, NEW b \in Int, NEW c \in Int, NEW d \in Int, NEW e \in Int, NEW f \in Int,
         NEW g \in Int, NEW h \in Int, d >= 0
  PROVE  Weight(a, b, c, 0, e, f, g, h) \in Int /\ Weight(a, b, c, 0, e, f, g, h) <= Weight(a, b, c, d, e, f, g, h)
BY DEF Weight

LEMMA WeightIsNumber ==
  ASSUME NEW a \in Int, NEW b \in Int, NEW c \in Int, NEW d \in Int, NEW e \in Int, NEW f \in Int,
         NEW g \in Int, NEW h \in Int
  PROVE  Weight(a, b, c, d, e, f, g, h) \in Int
BY DEF Weight

(* What is in the hands of the actors, as a tuple of numbers. *)
LEMMA PlacesAreNumbers ==
  ASSUME Inv
  PROVE  /\ MaxSent - sent \in Int /\ Len(stdin) \in Int /\ Len(inHand) \in Int /\ Len(toWorker) \in Int
         /\ Len(taken) - Len(answered) \in Int /\ Len(fromWorker) \in Int /\ Len(outHand) \in Int
         /\ Len(stdout) \in Int /\ Len(toWorker) >= 0
BY Types, RelayAssumption DEF Measured

LEMMA MovedLengths ==
  ASSUME NEW source \in Seq(Units), NEW target \in Seq(Units), NEW source2, NEW target2,
         NEW n \in 1..Len(source), Moved(source, target, n, source2, target2)
  PROVE  /\ n \in Nat \ {0} /\ Len(source2) = Len(source) - n
         /\ Len(target2) = Len(target) + n
<1>1. SubSeq(source, 1, n) \in Seq(Units) /\ Len(SubSeq(source, 1, n)) = n
  OBVIOUS
<1>2. Len(source2) = Len(source) - n
  BY DEF Moved
<1>3. Len(target \o SubSeq(source, 1, n)) = Len(target) + Len(SubSeq(source, 1, n))
  BY <1>1, ConcatProperties, Zenon
<1> QED
  BY <1>1, <1>2, <1>3 DEF Moved

LEMMA ChunkLengths ==
  ASSUME NEW source \in Seq(Units), NEW source2, NEW target2,
         NEW n \in 1..Len(source), Moved(source, <<>>, n, source2, target2)
  PROVE  /\ n \in Nat \ {0} /\ Len(source2) = Len(source) - n
         /\ Len(target2) = n
<1> DEFINE e == <<>>
           s == SubSeq(source, 1, n)
<1>1. e \in Seq(Units) /\ Len(e) = 0
  OBVIOUS
<1>2. s \in Seq(Units) /\ Len(s) = n /\ n \in Nat \ {0}
  OBVIOUS
<1>3. Len(source2) = Len(source) - n /\ target2 = e \o s
  BY DEF Moved
<1> HIDE DEF e, s
<1>4. Len(e \o s) = Len(e) + Len(s)
  BY <1>1, <1>2, ConcatProperties, Zenon
<1> QED
  BY <1>1, <1>2, <1>3, <1>4

LEMMA ClientMoves ==
  ASSUME Inv, ClientSend \/ ClientReceive
  PROVE  UnitsAhead' \in Int /\ UnitsAhead' < UnitsAhead /\ StagesAhead' = StagesAhead
<1>1. UNCHANGED <<client, input, worker, main, inHand, toWorker, taken, answered, fromWorker, outHand>>
  BY DEF ClientSend, ClientReceive, inVars, workerVars, mainVars
<1>2. Sequenced /\ Measured
  BY Types
<1>5. StagesAhead' = StagesAhead
  BY <1>1 DEF StagesAhead
<1>3. CASE ClientSend
  <2>1. MaxSent - sent' = (MaxSent - sent) - 1 /\ Len(stdin') = Len(stdin) + 1 /\ stdout' = stdout
    BY <1>2, <1>3, RelayAssumption DEF ClientSend, Sequenced, Measured
  <2>2. UnitsAhead' = Weight((MaxSent - sent) - 1, Len(stdin) + 1, Len(inHand), Len(toWorker),
                             Len(taken) - Len(answered), Len(fromWorker), Len(outHand), Len(stdout))
    BY <1>1, <2>1 DEF UnitsAhead, Weight
  <2> QED BY ONLY <1>5, <2>2, Inv, UnitsWeigh, SentWeighs, PlacesAreNumbers
<1>4. CASE ClientReceive
  <2>1. Len(stdout') = Len(stdout) - 1 /\ UNCHANGED <<sent, stdin>>
    BY <1>2, <1>4 DEF ClientReceive, Sequenced, Measured
  <2>2. UnitsAhead' = Weight(MaxSent - sent, Len(stdin), Len(inHand), Len(toWorker),
                             Len(taken) - Len(answered), Len(fromWorker), Len(outHand), Len(stdout) - 1)
    BY <1>1, <2>1 DEF UnitsAhead, Weight
  <2> QED BY ONLY <1>5, <2>2, Inv, UnitsWeigh, ReceivedWeighs, PlacesAreNumbers
<1> QED
  BY <1>3, <1>4

LEMMA InputMoves ==
  ASSUME Inv, InRead \/ InSend
  PROVE  UnitsAhead' \in Int /\ UnitsAhead' < UnitsAhead /\ StagesAhead' = StagesAhead
<1>1. Sequenced /\ Measured /\ <<>> \in Seq(Units) /\ Len(<<>>) = 0
  BY Types
<1>2. CASE InRead
  <2>1. PICK n \in 1..Len(stdin) : Moved(stdin, <<>>, n, stdin', inHand')
    BY <1>2 DEF InRead
  <2>2. /\ input = "read" /\ input' = "send"
        /\ UNCHANGED <<client, worker, main, sent, toWorker, taken, answered, fromWorker, outHand, stdout>>
    BY <1>2 DEF InRead, clientVars, workerVars, mainVars
  <2>3. inHand = <<>>
    BY <2>2 DEF Inv, HandInv
  <2>4. n \in Nat \ {0} /\ Len(stdin') = Len(stdin) - n /\ Len(inHand') = n
    <3>1. stdin \in Seq(Units)
      BY <1>1 DEF Sequenced
    <3> QED BY <2>1, <3>1, ChunkLengths, Zenon
  <2>5. Len(inHand') = Len(inHand) + n
    BY <1>1, <2>3, <2>4
  <2>6. StagesAhead' = StagesAhead
    BY <2>2, RanksAre DEF StagesAhead
  <2>7. UnitsAhead' = Weight(MaxSent - sent, Len(stdin) - n, Len(inHand) + n, Len(toWorker),
                             Len(taken) - Len(answered), Len(fromWorker), Len(outHand), Len(stdout))
    BY <2>2, <2>4, <2>5 DEF UnitsAhead, Weight
  <2> QED BY ONLY <2>4, <2>6, <2>7, Inv, UnitsWeigh, ReadWeighs, PlacesAreNumbers
<1>3. CASE InSend
  <2>1. PICK n \in 1..Smaller(Len(inHand), Room(toWorker)) : Moved(inHand, toWorker, n, inHand', toWorker')
    BY <1>3 DEF InSend
  <2>2. /\ input = "send" /\ input' \in {"read", "send"}
        /\ UNCHANGED <<client, worker, main, sent, stdin, taken, answered, fromWorker, outHand, stdout>>
    BY <1>3 DEF InSend, clientVars, workerVars, mainVars
  <2>3. n \in 1..Len(inHand)
    BY <1>1, RelayAssumption DEF Smaller, Room, Measured
  <2>4. n \in Nat \ {0} /\ Len(inHand') = Len(inHand) - n /\ Len(toWorker') = Len(toWorker) + n
    BY ONLY <1>1, <2>1, <2>3, MovedLengths DEF Sequenced
  <2>6. StagesAhead' = StagesAhead
    BY <2>2, RanksAre DEF StagesAhead
  <2>7. UnitsAhead' = Weight(MaxSent - sent, Len(stdin), Len(inHand) - n, Len(toWorker) + n,
                             Len(taken) - Len(answered), Len(fromWorker), Len(outHand), Len(stdout))
    BY <2>2, <2>4 DEF UnitsAhead, Weight
  <2> QED BY ONLY <2>4, <2>6, <2>7, Inv, UnitsWeigh, PassedWeighs, PlacesAreNumbers
<1> QED
  BY <1>2, <1>3

LEMMA WorkerMoves ==
  ASSUME Inv, WorkerRead \/ WorkerWrite
  PROVE  UnitsAhead' \in Int /\ UnitsAhead' < UnitsAhead /\ StagesAhead' = StagesAhead
<1>1. Sequenced /\ Measured
  BY Types
<1>2. UNCHANGED <<client, input, main, sent, stdin, inHand, outHand, stdout>>
  BY DEF WorkerRead, WorkerWrite, clientVars, inVars, mainVars
<1>3. CASE WorkerRead
  <2>1. /\ worker = "reading" /\ worker' = "writing" /\ UNCHANGED <<answered, fromWorker>>
        /\ toWorker # <<>> /\ taken' = Append(taken, Head(toWorker)) /\ toWorker' = Tail(toWorker)
    BY <1>3 DEF WorkerRead
  <2>2. Len(toWorker') = Len(toWorker) - 1 /\ Len(taken') = Len(taken) + 1
    BY <1>1, <2>1 DEF Sequenced
  <2>3. Len(taken') - Len(answered') = (Len(taken) - Len(answered)) + 1
    BY <1>1, <2>1, <2>2 DEF Measured
  <2>4. StagesAhead' = StagesAhead
    BY <1>2, <2>1, RanksAre DEF StagesAhead
  <2>5. UnitsAhead' = Weight(MaxSent - sent, Len(stdin), Len(inHand), Len(toWorker) - 1,
                             (Len(taken) - Len(answered)) + 1, Len(fromWorker), Len(outHand), Len(stdout))
    BY <1>2, <2>1, <2>2, <2>3 DEF UnitsAhead, Weight
  <2> QED BY ONLY <2>4, <2>5, Inv, UnitsWeigh, TakenWeighs, PlacesAreNumbers
<1>4. CASE WorkerWrite
  <2>1. /\ worker = "writing" /\ worker' = "reading" /\ UNCHANGED <<toWorker, taken>>
        /\ answered' = Append(answered, Last(taken)) /\ fromWorker' = Append(fromWorker, Last(taken))
    BY <1>4 DEF WorkerWrite
  <2>2. Len(answered') = Len(answered) + 1 /\ Len(fromWorker') = Len(fromWorker) + 1
    BY <1>1, <2>1 DEF Sequenced
  <2>3. Len(taken') - Len(answered') = (Len(taken) - Len(answered)) - 1
    BY <1>1, <2>1, <2>2 DEF Measured
  <2>4. StagesAhead' = StagesAhead
    BY <1>2, <2>1, RanksAre DEF StagesAhead
  <2>5. UnitsAhead' = Weight(MaxSent - sent, Len(stdin), Len(inHand), Len(toWorker),
                             (Len(taken) - Len(answered)) - 1, Len(fromWorker) + 1, Len(outHand), Len(stdout))
    BY <1>2, <2>1, <2>2, <2>3 DEF UnitsAhead, Weight
  <2> QED BY ONLY <2>4, <2>5, Inv, UnitsWeigh, AnsweredWeighs, PlacesAreNumbers
<1> QED
  BY <1>3, <1>4

LEMMA MainMoves ==
  ASSUME Inv, MainReceive \/ MainWrite
  PROVE  UnitsAhead' \in Int /\ UnitsAhead' < UnitsAhead /\ StagesAhead' = StagesAhead
<1>1. Sequenced /\ Measured /\ <<>> \in Seq(Units) /\ Len(<<>>) = 0
  BY Types
<1>2. UNCHANGED <<client, input, worker, sent, stdin, inHand, toWorker, taken, answered>>
  BY DEF MainReceive, MainWrite, clientVars, inVars, workerVars
<1>3. CASE MainReceive
  <2>1. PICK n \in 1..Len(fromWorker) : Moved(fromWorker, <<>>, n, fromWorker', outHand')
    BY <1>3 DEF MainReceive
  <2>2. main = "recv" /\ main' = "write" /\ stdout' = stdout
    BY <1>3 DEF MainReceive
  <2>3. outHand = <<>>
    BY <2>2 DEF Inv, HandInv
  <2>4. n \in Nat \ {0} /\ Len(fromWorker') = Len(fromWorker) - n /\ Len(outHand') = n
    <3>1. fromWorker \in Seq(Units)
      BY <1>1 DEF Sequenced
    <3> QED BY <2>1, <3>1, ChunkLengths, Zenon
  <2>5. Len(outHand') = Len(outHand) + n
    BY <1>1, <2>3, <2>4
  <2>6. StagesAhead' = StagesAhead
    BY <1>2, <2>2, RanksAre DEF StagesAhead
  <2>7. UnitsAhead' = Weight(MaxSent - sent, Len(stdin), Len(inHand), Len(toWorker),
                             Len(taken) - Len(answered), Len(fromWorker) - n, Len(outHand) + n, Len(stdout))
    BY <1>2, <2>2, <2>4, <2>5 DEF UnitsAhead, Weight
  <2> QED BY ONLY <2>4, <2>6, <2>7, Inv, UnitsWeigh, FetchedWeighs, PlacesAreNumbers
<1>4. CASE MainWrite
  <2>1. PICK n \in 1..Smaller(Len(outHand), Room(stdout)) : Moved(outHand, stdout, n, outHand', stdout')
    BY <1>4 DEF MainWrite
  <2>2. main = "write" /\ main' \in {"recv", "write"} /\ fromWorker' = fromWorker
    BY <1>4 DEF MainWrite
  <2>3. n \in 1..Len(outHand)
    BY <1>1, RelayAssumption DEF Smaller, Room, Measured
  <2>4. n \in Nat \ {0} /\ Len(outHand') = Len(outHand) - n /\ Len(stdout') = Len(stdout) + n
    BY ONLY <1>1, <2>1, <2>3, MovedLengths DEF Sequenced
  <2>6. StagesAhead' = StagesAhead
    BY <1>2, <2>2, RanksAre DEF StagesAhead
  <2>7. UnitsAhead' = Weight(MaxSent - sent, Len(stdin), Len(inHand), Len(toWorker),
                             Len(taken) - Len(answered), Len(fromWorker), Len(outHand) - n, Len(stdout) + n)
    BY <1>2, <2>2, <2>4 DEF UnitsAhead, Weight
  <2> QED BY ONLY <2>4, <2>6, <2>7, Inv, UnitsWeigh, WrittenWeighs, PlacesAreNumbers
<1> QED
  BY <1>3, <1>4

(* An actor that moves on leaves the units where they are, but for those a   *)
(* worker that goes away leaves unread.                                      *)
LEMMA ActorsMove ==
  ASSUME Inv, ClientEof \/ ClientGone \/ InEof \/ InSendFails \/ InShut \/ WorkerStart \/ WorkerEnds
              \/ WorkerKilled \/ Connect \/ ConnectFails \/ MainEof \/ MainWriteFails
  PROVE  /\ UnitsAhead' \in Int /\ UnitsAhead' <= UnitsAhead
         /\ StagesAhead' \in Nat /\ StagesAhead' < StagesAhead
<1>1. UNCHANGED <<sent, stdin, inHand, taken, answered, fromWorker, outHand, stdout>> /\ toWorker' \in {toWorker, <<>>}
  BY DEF ClientEof, ClientGone, InEof, InSendFails, InShut, WorkerStart, WorkerEnds, WorkerKilled,
         WorkerGone, Connect, ConnectFails, MainEof, MainWriteFails, Exit, clientVars, inVars, workerVars, mainVars
<1>2. UnitsAhead' \in Int /\ UnitsAhead' <= UnitsAhead
  <2>1. CASE toWorker' = toWorker
    <3>1. UnitsAhead' = UnitsAhead
      BY <1>1, <2>1 DEF UnitsAhead
    <3>2. UnitsAhead \in Int
      BY ONLY Inv, UnitsWeigh, WeightIsNumber, PlacesAreNumbers
    <3> QED BY <3>1, <3>2
  <2>2. CASE toWorker' = <<>>
    <3>1. Len(toWorker') = 0
      BY <2>2
    <3>2. UnitsAhead' = Weight(MaxSent - sent, Len(stdin), Len(inHand), 0, Len(taken) - Len(answered),
                               Len(fromWorker), Len(outHand), Len(stdout))
      BY <1>1, <3>1 DEF UnitsAhead, Weight
    <3> QED BY ONLY <3>2, Inv, UnitsWeigh, UnreadWeighs, PlacesAreNumbers
  <2> QED BY <1>1, <2>1, <2>2
<1> DEFINE c == ClientAhead[client]
           i == InputAhead[input]
           w == WorkerAhead[worker]
           m == MainAhead[main]
<1>3. c \in Nat /\ i \in Nat /\ w \in Nat /\ m \in Nat
  BY RanksAreNumbers
<1>4. /\ c' \in Nat /\ i' \in Nat /\ w' \in Nat /\ m' \in Nat
      /\ c' <= c /\ i' <= i /\ w' <= w /\ m' <= m
      /\ c' < c \/ i' < i \/ w' < w \/ m' < m
  <2>1. CASE ClientEof \/ ClientGone
    <3>1. c' < c /\ c' \in Nat
      BY <2>1, RanksAre DEF ClientEof, ClientGone, Inv, TypeOK
    <3>2. UNCHANGED <<i, w, m>>
      BY <2>1 DEF ClientEof, ClientGone, inVars, workerVars, mainVars
    <3> QED BY <1>3, <3>1, <3>2
  <2>2. CASE InEof \/ InSendFails \/ InShut
    <3>1. i' < i /\ i' \in Nat
      BY <2>2, RanksAre DEF InEof, InSendFails, InShut
    <3>2. UNCHANGED <<c, w, m>>
      BY <2>2 DEF InEof, InSendFails, InShut, clientVars, workerVars, mainVars
    <3> QED BY <1>3, <3>1, <3>2
  <2>3. CASE WorkerStart \/ WorkerEnds \/ WorkerKilled
    <3>1. w' < w /\ w' \in Nat
      BY <2>3, RanksAre DEF WorkerStart, WorkerEnds, WorkerKilled, WorkerGone, Inv, TypeOK
    <3>2. UNCHANGED <<c, i, m>>
      BY <2>3 DEF WorkerStart, WorkerEnds, WorkerKilled, WorkerGone, clientVars, inVars, mainVars
    <3> QED BY <1>3, <3>1, <3>2
  <2>4. CASE Connect \/ ConnectFails \/ MainEof \/ MainWriteFails
    <3>1. m' < m /\ m' \in Nat
      BY <2>4, RanksAre DEF Connect, ConnectFails, MainEof, MainWriteFails, Exit
    <3>2. UNCHANGED <<c, w>>
      BY <2>4 DEF Connect, ConnectFails, MainEof, MainWriteFails, Exit, clientVars, workerVars
    <3>3. i' <= i /\ i' \in Nat
      <4>1. \/ main = "connect" /\ input' \in {"read", "ended"}
            \/ input' = "ended"
        BY <2>4 DEF Connect, ConnectFails, MainEof, MainWriteFails, Exit
      <4>2. main = "connect" => input = "idle"
        BY DEF Inv, HandInv
      <4>3. i \in 0..3
        BY RanksAreNumbers
      <4> QED BY <4>1, <4>2, <4>3, RanksAre
    <3> QED BY <1>3, <3>1, <3>2, <3>3
  <2> QED BY <2>1, <2>2, <2>3, <2>4
<1>5. StagesAhead = c + i + w + m /\ StagesAhead' = c' + i' + w' + m'
  BY DEF StagesAhead
<1> HIDE DEF c, i, w, m
<1>6. StagesAhead' \in Nat /\ StagesAhead' < StagesAhead
  BY ONLY <1>3, <1>4, <1>5, RanksAdd
<1> QED
  BY <1>2, <1>6

(* No step of a session is done over again: each brings a unit or an actor   *)
(* nearer to its end, whatever fails and whoever goes away.                  *)
THEOREM EveryStepMovesOn == Spec => StepsMoveOn
<1>1. Inv /\ [Next]_vars => [Ahead' < Ahead]_vars
  <2> SUFFICES ASSUME Inv, Next PROVE Ahead' < Ahead
    OBVIOUS
  <2>1. UnitsAhead \in Int
    BY ONLY Inv, UnitsWeigh, WeightIsNumber, PlacesAreNumbers
  <2>2. StagesAhead \in Nat
    BY RanksAreNumbers DEF StagesAhead
  <2>3. /\ UnitsAhead' \in Int
        /\ \/ UnitsAhead' < UnitsAhead /\ StagesAhead' = StagesAhead
           \/ UnitsAhead' <= UnitsAhead /\ StagesAhead' \in Nat /\ StagesAhead' < StagesAhead
    BY ClientMoves, InputMoves, WorkerMoves, MainMoves, ActorsMove DEF Next, InputStep, WorkerStep, MainStep
  <2> QED
    BY <2>1, <2>2, <2>3 DEF Ahead
<1> QED
  BY <1>1, Inductive, PTL DEF Spec, StepsMoveOn

(* Whatever the client does, the command can go on until there is nothing    *)
(* left to pass on, and it does not go on for ever.                          *)
THEOREM RelayAlwaysGoesOn == Spec => RelayGoesOn
BY NeverDeadlocks, EveryStepMovesOn, PTL DEF StepsMoveOn, RelayGoesOn
=============================================================================
