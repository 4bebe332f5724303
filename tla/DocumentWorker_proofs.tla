----------------------- MODULE DocumentWorker_proofs -----------------------
(***************************************************************************)
(* Proofs about DocumentWorker: for every set of messages and documents,   *)
(* every limit on open documents and on descriptors, and every number of   *)
(* messages sent.                                                          *)
(*                                                                         *)
(* SessionMatchesAnswers speaks of the moments between two messages. It is *)
(* not inductive: while a message is in hand the readers are those of the  *)
(* client's belief, and once it is executed those of the belief the client *)
(* will have when the response reaches it. Agreement says so.              *)
(***************************************************************************)
EXTENDS DocumentWorker, TLAPS

InHand == {"decode", "execute", "write"}

(* The message in hand is the first one that is not answered. *)
OneInHand ==
  /\ pc = "read" => taken = Len(outbox)
  /\ pc \in InHand => taken = Len(outbox) + 1

(* What the client will believe open once it has the response. *)
Expected ==
  IF response # "ok"             THEN BelievedOpen
  ELSE IF current.op \in Openings THEN BelievedOpen \cup {current.doc}
  ELSE IF current.op = "release"  THEN BelievedOpen \ {current.doc}
  ELSE IF current.op = "close"    THEN {}
  ELSE BelievedOpen

Agreement ==
  /\ pc \in {"read", "decode", "execute"} => readers = BelievedOpen
  /\ pc = "write" => readers = Expected

Inv == TypeOK /\ ResponsesFollowMessages /\ OneInHand /\ NothingLeaks /\ Agreement

-----------------------------------------------------------------------------
(* While a message is in hand it is one of the messages sent. *)
LEMMA CurrentIsMessage ==
  ASSUME TypeOK, ResponsesFollowMessages, OneInHand, pc \in InHand
  PROVE  /\ taken \in 1..Len(sent)
         /\ current \in Messages
         /\ current.op \in Operations /\ current.doc \in Documents /\ current.fault \in Faults
<1>1. taken \in 1..Len(sent)
  BY DEF TypeOK, ResponsesFollowMessages, OneInHand
<1>2. current \in Messages
  BY <1>1 DEF TypeOK, current
<1> QED
  BY <1>1, <1>2, WorkerAssumption

(* What a client believes rests on the answered messages alone. *)
LEMMA BelievedStable ==
  ASSUME TypeOK, ResponsesFollowMessages, UNCHANGED outbox,
         \/ UNCHANGED sent
         \/ \E m \in Messages : sent' = Append(sent, m)
  PROVE  BelievedOpen' = BelievedOpen
<1>1. \A i \in 1..Len(outbox) : sent'[i] = sent[i]
  BY DEF TypeOK, ResponsesFollowMessages
<1>2. \A i \in 1..Len(outbox) : \A d \in Documents :
        (Opened(i, d)' <=> Opened(i, d)) /\ (Released(i, d)' <=> Released(i, d))
  BY <1>1 DEF Opened, Released
<1>3. outbox \in Seq(Responses)
  BY DEF TypeOK
<1> QED
  BY <1>2, <1>3 DEF BelievedOpen

(* An answer turns the client's belief into the expected one. *)
LEMMA BelievedAfterWrite ==
  ASSUME TypeOK, ResponsesFollowMessages, OneInHand, pc = "write", Write
  PROVE  BelievedOpen' = Expected
<1>0. PICK n \in Nat : n = Len(outbox)
  BY DEF TypeOK
<1>1. /\ outbox \in Seq(Responses)
      /\ taken = n + 1 /\ current = sent[n + 1]
      /\ current.op \in Operations /\ current.doc \in Documents
  BY <1>0, CurrentIsMessage DEF TypeOK, OneInHand, InHand, current
<1>2. /\ Len(outbox') = n + 1 /\ sent' = sent
      /\ outbox'[n + 1] = [of |-> taken, status |-> response]
      /\ \A i \in 1..n : outbox'[i] = outbox[i]
  BY <1>0, <1>1 DEF Write, clientVars
<1>3. \A i \in 1..n : \A d \in Documents :
        (Opened(i, d)' <=> Opened(i, d)) /\ (Released(i, d)' <=> Released(i, d))
  BY <1>2 DEF Opened, Released
<1>4. \A d \in Documents :
        /\ Opened(n + 1, d)' <=> response = "ok" /\ current.op \in Openings /\ current.doc = d
        /\ Released(n + 1, d)' <=>
             response = "ok" /\ (current.op = "close" \/ (current.op = "release" /\ current.doc = d))
  BY <1>1, <1>2 DEF Opened, Released, Responses
<1>5. \A d \in Documents :
        d \in BelievedOpen' <=>
          \/ response = "ok" /\ current.op \in Openings /\ current.doc = d
          \/ /\ d \in BelievedOpen
             /\ ~(response = "ok" /\ (current.op = "close" \/ (current.op = "release" /\ current.doc = d)))
  <2> TAKE d \in Documents
  <2>1. d \in BelievedOpen' <=>
          \E i \in 1..(n + 1) : Opened(i, d)' /\ \A j \in (i + 1)..(n + 1) : ~Released(j, d)'
    BY <1>2 DEF BelievedOpen
  <2>2. d \in BelievedOpen <=>
          \E i \in 1..n : Opened(i, d) /\ \A j \in (i + 1)..n : ~Released(j, d)
    BY <1>0 DEF BelievedOpen
  <2>3. (\E i \in 1..(n + 1) : Opened(i, d)' /\ \A j \in (i + 1)..(n + 1) : ~Released(j, d)')
        <=> \/ Opened(n + 1, d)'
            \/ /\ \E i \in 1..n : Opened(i, d)' /\ \A j \in (i + 1)..n : ~Released(j, d)'
               /\ ~Released(n + 1, d)'
    BY <1>1
  <2>4. (\E i \in 1..n : Opened(i, d)' /\ \A j \in (i + 1)..n : ~Released(j, d)')
        <=> \E i \in 1..n : Opened(i, d) /\ \A j \in (i + 1)..n : ~Released(j, d)
    BY <1>1, <1>3
  <2> QED
    BY <1>4, <2>1, <2>2, <2>3, <2>4
<1>6. BelievedOpen \subseteq Documents /\ BelievedOpen' \subseteq Documents
  BY DEF BelievedOpen
<1> QED
  BY <1>1, <1>5, <1>6 DEF Expected, Openings

-----------------------------------------------------------------------------
(* One lemma for each kind of step: the client's, those that leave run()'s   *)
(* loop, those that take a message, execute it and answer it.                *)

(* What the client does changes nothing but what is still to be read. *)
LEMMA ClientStep ==
  ASSUME Inv, Send \/ CloseInput \/ CloseOutput
  PROVE  Inv'
<1>1. /\ UNCHANGED <<pc, taken, first, payload, readers, artifact, response, outbox>>
      /\ UNCHANGED sent \/ \E m \in Messages : sent' = Append(sent, m)
      /\ inputEnd' \in BOOLEAN /\ outputEnd' \in BOOLEAN
  BY DEF Inv, TypeOK, Send, CloseInput, CloseOutput
<1>2. TypeOK'
  BY <1>1 DEF Inv, TypeOK
<1>3. Len(sent') >= Len(sent)
  BY <1>1 DEF Inv, TypeOK
<1>4. ResponsesFollowMessages' /\ OneInHand' /\ NothingLeaks'
  BY <1>1, <1>3 DEF Inv, TypeOK, ResponsesFollowMessages, OneInHand, NothingLeaks
<1>5. BelievedOpen' = BelievedOpen
  BY <1>1, BelievedStable DEF Inv
<1>6. pc = "write" => current' = current
  BY <1>1, CurrentIsMessage DEF Inv, TypeOK, InHand, current
<1>7. Agreement'
  BY <1>1, <1>5, <1>6 DEF Inv, Agreement, Expected
<1> QED
  BY <1>2, <1>4, <1>7 DEF Inv

(* However run() is left, everything the process held is given back. *)
LEMMA LeaveStep ==
  ASSUME Inv, ReadFails \/ WriteFails \/ CloseApplication \/ Kill
  PROVE  Inv'
<1>1. /\ pc' \in {"closing", "exited", "killed"}
      /\ UNCHANGED <<sent, inputEnd, outputEnd, taken, first, response, outbox>>
      /\ ~payload' /\ ~artifact'
      /\ payload' \in BOOLEAN /\ artifact' \in BOOLEAN
      /\ readers' \in {readers, {}}
      /\ pc' = "exited" => readers' = {}
  <2>1. CASE ReadFails \/ WriteFails
    BY <2>1 DEF ReadFails, WriteFails, Raise, clientVars
  <2>2. CASE CloseApplication
    BY <2>2 DEF Inv, NothingLeaks, TypeOK, CloseApplication, clientVars
  <2>3. CASE Kill
    BY <2>3 DEF Kill, clientVars
  <2> QED
    BY <2>1, <2>2, <2>3
<1>2. TypeOK'
  BY <1>1 DEF Inv, TypeOK, PcStates
<1> QED
  BY <1>1, <1>2 DEF Inv, ResponsesFollowMessages, OneInHand, NothingLeaks, Agreement, InHand

(* A message is taken when every earlier one was answered. *)
LEMMA ReadStep ==
  ASSUME Inv, ReadMessage
  PROVE  Inv'
<1>1. /\ pc = "read" /\ pc' = "decode" /\ taken' = taken + 1 /\ taken < Len(sent)
      /\ UNCHANGED <<sent, inputEnd, outputEnd, first, readers, artifact, response, outbox>>
      /\ payload' \in BOOLEAN
  BY DEF ReadMessage, Spools, clientVars
<1>2. BelievedOpen' = BelievedOpen
  BY <1>1, BelievedStable DEF Inv
<1>3. TypeOK'
  BY <1>1 DEF Inv, TypeOK, PcStates
<1>4. ResponsesFollowMessages' /\ OneInHand'
  BY <1>1, <1>3 DEF Inv, TypeOK, ResponsesFollowMessages, OneInHand, InHand
<1> QED
  BY <1>1, <1>2, <1>3, <1>4 DEF Inv, NothingLeaks, Agreement

(* Executing the message leaves the readers that its answer announces. *)
LEMMA ExecuteStep ==
  ASSUME Inv, Decode \/ Extract \/ Open \/ Query \/ Release \/ CloseSession
  PROVE  Inv'
<1>1. /\ pc \in {"decode", "execute"} /\ pc' \in {"execute", "write"}
      /\ UNCHANGED <<sent, inputEnd, outputEnd, taken, first, payload, outbox>>
  BY DEF Decode, Extract, Open, Query, Release, CloseSession, Answer, clientVars
<1>2. /\ current.op \in Operations /\ current.doc \in Documents /\ current' = current
  BY <1>1, CurrentIsMessage DEF Inv, InHand, current
<1>3. BelievedOpen' = BelievedOpen /\ readers = BelievedOpen
  BY <1>1, BelievedStable DEF Inv, Agreement
<1>4. readers' \subseteq Documents /\ artifact' \in BOOLEAN /\ response' \in Statuses
  <2>1. QueryStatus \subseteq Statuses
    BY DEF QueryStatus, Statuses
  <2> QED
    BY <1>2, <2>1 DEF Inv, TypeOK, Decode, Extract, Open, Query, Release, CloseSession, Answer, Statuses
<1>5. TypeOK'
  BY <1>1, <1>4 DEF Inv, TypeOK, PcStates
<1>6. ResponsesFollowMessages' /\ OneInHand' /\ NothingLeaks'
  BY <1>1 DEF Inv, ResponsesFollowMessages, OneInHand, NothingLeaks, InHand
<1>7. Agreement'
  <2>1. CASE Decode
    BY <2>1, <1>2, <1>3 DEF Decode, Answer, Agreement, Expected
  <2>2. CASE Extract
    BY <2>2, <1>2, <1>3 DEF Extract, Answer, Agreement, Expected, Openings
  <2>3. CASE Open
    BY <2>3, <1>2, <1>3 DEF Open, Answer, Agreement, Expected
  <2>4. CASE Query
    BY <2>4, <1>2, <1>3 DEF Query, Queries, Answer, Agreement, Expected, Openings
  <2>5. CASE Release
    BY <2>5, <1>2, <1>3 DEF Release, Answer, Agreement, Expected, Openings
  <2>6. CASE CloseSession
    BY <2>6, <1>2, <1>3 DEF CloseSession, Answer, Agreement, Expected, Openings
  <2> QED
    BY <2>1, <2>2, <2>3, <2>4, <2>5, <2>6
<1> QED
  BY <1>5, <1>6, <1>7 DEF Inv

(* The answer makes the client believe what has happened. *)
LEMMA WriteStep ==
  ASSUME Inv, Write
  PROVE  Inv'
<1>1. /\ pc = "write" /\ pc' \in {"read", "closing"}
      /\ UNCHANGED <<sent, inputEnd, outputEnd, taken, readers, response>>
      /\ ~payload' /\ payload' \in BOOLEAN /\ ~artifact' /\ artifact' \in BOOLEAN
      /\ first' \in BOOLEAN
      /\ outbox' = Append(outbox, [of |-> taken, status |-> response])
  BY DEF Write, clientVars
<1>2. [of |-> taken, status |-> response] \in Responses
  BY DEF Inv, TypeOK, Responses
<1>3. TypeOK'
  BY <1>1, <1>2 DEF Inv, TypeOK, PcStates
<1>4. taken = Len(outbox) + 1 /\ Len(outbox') = taken
  BY <1>1, <1>2 DEF Inv, TypeOK, OneInHand, InHand
<1>5. ResponsesFollowMessages' /\ OneInHand'
  <2>1. \A i \in 1..Len(outbox') : outbox'[i].of = i
    BY <1>1, <1>2, <1>4 DEF Inv, TypeOK, ResponsesFollowMessages
  <2> QED
    BY <1>1, <1>3, <1>4, <2>1 DEF Inv, TypeOK, ResponsesFollowMessages, OneInHand, InHand
<1>6. BelievedOpen' = Expected /\ readers = Expected
  BY <1>1, BelievedAfterWrite DEF Inv, Agreement
<1> QED
  BY <1>1, <1>3, <1>5, <1>6 DEF Inv, NothingLeaks, Agreement

(* A step that changes nothing keeps the invariant. *)
LEMMA StutterStep ==
  ASSUME Inv, UNCHANGED vars
  PROVE  Inv'
BY DEF Inv, TypeOK, ResponsesFollowMessages, OneInHand, NothingLeaks, Agreement, Expected,
       BelievedOpen, Opened, Released, current, vars

-----------------------------------------------------------------------------
(* Every reachable state satisfies the inductive invariant. *)
THEOREM Inductive == Spec => []Inv
<1>1. Init => Inv
  <2> SUFFICES ASSUME Init PROVE Inv
    OBVIOUS
  <2>1. Len(outbox) = 0 /\ Len(sent) = 0 /\ outbox \in Seq(Responses) /\ sent \in Seq(Messages)
    BY DEF Init
  <2>2. TypeOK
    BY <2>1 DEF Init, TypeOK, PcStates, Statuses
  <2>3. BelievedOpen = {}
    BY <2>1 DEF BelievedOpen
  <2> QED
    BY <2>1, <2>2, <2>3 DEF Init, Inv, ResponsesFollowMessages, OneInHand, NothingLeaks, Agreement,
                            InHand
<1>2. Inv /\ [Next]_vars => Inv'
  BY ClientStep, LeaveStep, ReadStep, ExecuteStep, WriteStep, StutterStep DEF Next, ProcessStep
<1> QED
  BY <1>1, <1>2, PTL DEF Spec

(* The process is well typed. *)
THEOREM TypeCorrect == Spec => []TypeOK
<1>1. Inv => TypeOK
  BY DEF Inv
<1> QED
  BY <1>1, Inductive, PTL

(* WorkerProcess.run answers the messages once each, in the order they came. *)
THEOREM AnsweredInOrder == Spec => []ResponsesFollowMessages
<1>1. Inv => ResponsesFollowMessages
  BY DEF Inv
<1> QED
  BY <1>1, Inductive, PTL

(* No failure leaves a temporary file to the next message, or to nobody. *)
THEOREM FilesReturned == Spec => []NothingLeaks
<1>1. Inv => NothingLeaks
  BY DEF Inv
<1> QED
  BY <1>1, Inductive, PTL

(* Between messages DocumentSession.readers is what the answers announced,   *)
(* for any limit on documents or on descriptors: no failed opening leaves a  *)
(* trace, and no document is lost.                                           *)
THEOREM SessionAgrees == Spec => []SessionMatchesAnswers
<1>1. Inv => SessionMatchesAnswers
  BY DEF Inv, Agreement, SessionMatchesAnswers
<1> QED
  BY <1>1, Inductive, PTL
=============================================================================
