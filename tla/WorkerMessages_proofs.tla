------------------------ MODULE WorkerMessages_proofs ------------------------
(***************************************************************************)
(* Proofs about ProtocolFrames, ErrorReporter and WorkerMessages: for      *)
(* every message, every way the pipe cuts it, and every failure.           *)
(***************************************************************************)
EXTENDS WorkerMessages, SequenceTheorems, FiniteSetTheorems, WellFoundedInduction, TLAPS

-----------------------------------------------------------------------------
(* The order of the bytes: <<message, field, position>>. *)
Before(p, q) ==
  \/ p[1] < q[1]
  \/ p[1] = q[1] /\ p[2] < q[2]
  \/ p[1] = q[1] /\ p[2] = q[2] /\ p[3] < q[3]

Places == Nat \X Nat \X Nat

LEMMA OrderIsTotal ==
  ASSUME NEW p \in Places, NEW q \in Places
  PROVE  /\ ~Before(p, p)
         /\ Before(p, q) \/ p = q \/ Before(q, p)
         /\ ~(Before(p, q) /\ Before(q, p))
<1>1. p = <<p[1], p[2], p[3]>> /\ q = <<q[1], q[2], q[3]>>
  BY DEF Places
<1>2. p[1] \in Nat /\ p[2] \in Nat /\ p[3] \in Nat /\ q[1] \in Nat /\ q[2] \in Nat /\ q[3] \in Nat
  BY DEF Places
<1>3. (p[1] = q[1] /\ p[2] = q[2] /\ p[3] = q[3]) => p = q
  BY <1>1
<1> QED
  BY <1>2, <1>3 DEF Before

LEMMA OrderIsTransitive ==
  ASSUME NEW p \in Places, NEW q \in Places, NEW r \in Places
  PROVE  Before(p, q) /\ Before(q, r) => Before(p, r)
<1>1. /\ p[1] \in Nat /\ p[2] \in Nat /\ p[3] \in Nat /\ q[1] \in Nat /\ q[2] \in Nat /\ q[3] \in Nat
      /\ r[1] \in Nat /\ r[2] \in Nat /\ r[3] \in Nat
  BY DEF Places
<1> QED
  BY <1>1 DEF Before

LEMMA LeastExists ==
  ASSUME NEW T, T \subseteq Nat, T # {}
  PROVE  \E x \in T : \A y \in T : x <= y
<1> DEFINE R == OpToRel(<, Nat)
<1>1. IsWellFoundedOn(R, Nat)
  BY NatLessThanWellFounded
<1>2. \A y, x \in Nat : <<y, x>> \in R <=> y < x
  BY DEF OpToRel
<1> HIDE DEF R
<1>3. PICK x \in T : \A y \in T : ~ (<<y, x>> \in R)
  BY <1>1, WFMin
<1>4. \A y \in T : y \in Nat /\ x \in Nat /\ ~ (y < x)
  BY <1>2, <1>3
<1> QED
  BY <1>4

LEMMA MinOfTwo ==
  ASSUME NEW a \in Nat, NEW m \in Nat
  PROVE  Min({a, m}) \in Nat /\ Min({a, m}) <= a /\ Min({a, m}) <= m /\ Min({a, m}) \in {a, m}
<1>1. \E x \in {a, m} : \A y \in {a, m} : x <= y
  <2>1. CASE a <= m
    BY <2>1
  <2>2. CASE m <= a
    BY <2>2
  <2> QED
    BY <2>1, <2>2
<1>2. Min({a, m}) \in {a, m} /\ \A y \in {a, m} : Min({a, m}) <= y
  BY <1>1 DEF Min
<1> QED
  BY <1>2

-----------------------------------------------------------------------------
(* Messages and their fields. *)
Payloads == [role : Roles, length : Nat]

LEMMA MessageType ==
  ASSUME NEW message \in Messages
  PROVE  /\ message \in Seq(Payloads) /\ Len(message) \in Nat
         /\ DOMAIN message = 1..Len(message)
         /\ \A f \in 0..(Len(message) + 1) : FieldSize(message, f) \in Nat
<1>1. message \in Seq(Payloads) /\ Len(message) \in Nat /\ DOMAIN message = 1..Len(message)
  <2>1. message \in Seq(Payloads)
    BY FramesAssumption, Zenon DEF Payloads
  <2> QED
    BY <2>1
<1>2. ASSUME NEW f \in 0..(Len(message) + 1) PROVE FieldSize(message, f) \in Nat
  <2>1. CASE f = 0
    BY <2>1, FramesAssumption DEF FieldSize
  <2>2. CASE f = 1
    BY <1>1, <2>2 DEF FieldSize, HeaderSize
  <2>3. CASE f # 0 /\ f # 1
    <3>1. f - 1 \in 1..Len(message)
      BY <1>1, <2>3
    <3>2. message[f - 1] \in Payloads
      BY <1>1, <3>1
    <3>3. message[f - 1].length \in Nat
      BY <3>2 DEF Payloads
    <3> QED
      BY <2>3, <3>3 DEF FieldSize
  <2> QED
    BY <2>1, <2>2, <2>3
<1> QED
  BY <1>1, <1>2

LEMMA LengthField == \A message : FieldSize(message, 0) = LengthBytes /\ LengthBytes \in Nat \ {0}
BY FramesAssumption DEF FieldSize

-----------------------------------------------------------------------------
(* The writer is at a byte of the last message, or ahead of the next one;    *)
(* the reader has complete fields behind it and some bytes of the next.      *)
IsByte(p) ==
  /\ p \in Places
  /\ p[1] \in 1..Len(sent)
  /\ p[2] \in 0..(Len(sent[p[1]]) + 1)
  /\ p[3] \in 1..FieldSize(sent[p[1]], p[2])

WrittenUpTo == <<IF writing THEN Len(sent) ELSE Len(sent) + 1, part, put>>
Number      == Len(received) + 1
ReadUpTo    == <<Number, field, Len(got)>>

WriterInv ==
  /\ sent \in Seq(Messages) /\ writing \in BOOLEAN /\ open \in BOOLEAN
  /\ part \in Nat /\ put \in Nat
  /\ writing => /\ sent # <<>> /\ part <= Len(Last(sent)) + 1
                /\ put <= FieldSize(Last(sent), part)
  /\ ~writing => part = 0 /\ put = 0

(* The pipe holds the bytes between the two, in order and every one. *)
StreamInv ==
  /\ stream \in Seq(Places)
  /\ \A i, j \in 1..Len(stream) : i < j => Before(stream[i], stream[j])
  /\ \A i \in 1..Len(stream) :
       IsByte(stream[i]) /\ Before(ReadUpTo, stream[i]) /\ ~Before(WrittenUpTo, stream[i])
  /\ \A p \in Places : IsByte(p) /\ Before(ReadUpTo, p) /\ ~Before(WrittenUpTo, p)
                          => \E i \in 1..Len(stream) : stream[i] = p
  /\ \A p \in Places : IsByte(p) /\ Before(WrittenUpTo, p) => Before(ReadUpTo, p)

ReceivedInv ==
  /\ received \in Seq(Messages) /\ Len(received) <= Len(sent)
  /\ \A i \in 1..Len(received) : received[i] = sent[i] /\ Valid(received[i])

(* What the reader knows of the message it reads: all it has checked so far. *)
ReadingInv ==
  /\ field \in Nat /\ got \in Seq(Places)
  /\ Len(got) <= FieldSize(sent[Number], field)
  /\ \A i \in 1..Len(got) : got[i] = <<Number, field, i>>
  /\ got # <<>> => Number <= Len(sent)
  /\ field = 0 => current = <<>> /\ spools = {}
  /\ field # 0 => /\ Number <= Len(sent) /\ current = sent[Number] /\ field <= Len(current) + 1
                  /\ HeaderFits(current) /\ spools \subseteq DOMAIN current
                  /\ \A i \in DOMAIN current : i < field => PayloadFits(current, i)

HandlingInv ==
  /\ field = 0 /\ got = <<>>
  /\ received # <<>> /\ current = Last(received) /\ spools \subseteq DOMAIN current

EndedInv ==
  /\ spools = {}
  /\ \/ stream = <<>> /\ ~open
     \/ Number <= Len(sent) /\ ~Valid(sent[Number])

FramesInv ==
  /\ phase \in {"reading", "handling", "reporting", "ended"}
  /\ WriterInv /\ ReceivedInv
  /\ phase # "ended" => StreamInv
  /\ phase = "reading" => ReadingInv
  /\ phase \in {"handling", "reporting"} => HandlingInv
  /\ phase = "ended" => EndedInv

LEMMA InitFrames == FramesInit => FramesInv
<1> SUFFICES ASSUME FramesInit PROVE FramesInv
  OBVIOUS
<1>1. /\ sent = <<>> /\ Len(sent) = 0 /\ received = <<>> /\ stream = <<>> /\ Len(stream) = 0 /\ Len(received) = 0
      /\ got = <<>> /\ Len(got) = 0
  BY DEF FramesInit
<1>2. WriterInv /\ ReceivedInv
  <2>1. /\ sent \in Seq(Messages) /\ received \in Seq(Messages)
    BY <1>1
  <2>2. 0 \in Nat /\ ~writing /\ writing \in BOOLEAN /\ open \in BOOLEAN /\ part = 0 /\ put = 0
    BY DEF FramesInit
  <2>3. WriterInv
    BY <2>1, <2>2, Zenon DEF WriterInv
  <2>4. ReceivedInv
    BY <1>1, <2>1 DEF ReceivedInv
  <2> QED
    BY <2>3, <2>4
<1>3. StreamInv
  <2>1. \A p : ~IsByte(p)
    BY <1>1 DEF IsByte
  <2> QED
    BY <1>1, <2>1 DEF StreamInv
<1>4. ReadingInv
  <2>1. FieldSize(sent[Number], field) = LengthBytes /\ LengthBytes \in Nat
    BY LengthField DEF FramesInit
  <2> QED
    BY <1>1, <2>1 DEF FramesInit, ReadingInv
<1> QED
  BY <1>2, <1>3, <1>4 DEF FramesInit, FramesInv

-----------------------------------------------------------------------------
(* Where writer and reader are. *)
LEMMA Positions ==
  ASSUME WriterInv, ReceivedInv
  PROVE  /\ Len(sent) \in Nat /\ Number \in Nat \ {0}
         /\ WrittenUpTo \in Places /\ WrittenUpTo[2] = part /\ WrittenUpTo[3] = put
         /\ WrittenUpTo[1] = IF writing THEN Len(sent) ELSE Len(sent) + 1
         /\ \A n \in 1..Len(sent) : sent[n] \in Messages
         /\ writing => Last(sent) = sent[Len(sent)] /\ Len(sent) \in 1..Len(sent)
<1>1. Len(sent) \in Nat /\ Len(received) \in Nat /\ part \in Nat /\ put \in Nat /\ sent \in Seq(Messages)
  BY DEF WriterInv, ReceivedInv
<1> DEFINE m == IF writing THEN Len(sent) ELSE Len(sent) + 1
<1>2. m \in Nat
  BY <1>1
<1> HIDE DEF m
<1>3. WrittenUpTo = <<m, part, put>>
  BY DEF WrittenUpTo, m
<1>4. WrittenUpTo \in Places /\ WrittenUpTo[1] = m /\ WrittenUpTo[2] = part /\ WrittenUpTo[3] = put
  BY <1>1, <1>2, <1>3 DEF Places
<1>5. writing => Last(sent) = sent[Len(sent)] /\ Len(sent) \in 1..Len(sent)
  BY <1>1 DEF WriterInv, Last
<1> QED
  BY <1>1, <1>4, <1>5 DEF Number, m

(* More of a message changes neither the bytes there are nor their order.    *)
LEMMA BytesGrow ==
  ASSUME WriterInv, ReceivedInv, NEW message \in Messages, sent' = Append(sent, message),
         NEW p \in Places
  PROVE  /\ IsByte(p) => (p[1] <= Len(sent) /\ p[1] \in 1..Len(sent') /\ sent'[p[1]] = sent[p[1]])
         /\ p[1] \in 1..Len(sent) => sent'[p[1]] = sent[p[1]]
BY DEF WriterInv, IsByte

(* A step that moves neither end over a byte leaves the pipe as it is. *)
LEMMA StreamStays ==
  ASSUME StreamInv, stream' = stream,
         \A p \in Places : IsByte(p) =>
           IsByte(p)' /\ (Before(ReadUpTo', p) <=> Before(ReadUpTo, p))
                      /\ (Before(WrittenUpTo', p) <=> Before(WrittenUpTo, p)),
         \A p \in Places : IsByte(p)' /\ ~IsByte(p) => Before(WrittenUpTo', p) /\ Before(ReadUpTo', p)
  PROVE  StreamInv'
<1>1. stream \in Seq(Places) /\ \A i \in 1..Len(stream) : stream[i] \in Places
  BY DEF StreamInv
<1>2. \A i \in 1..Len(stream) :
        IsByte(stream[i])' /\ Before(ReadUpTo', stream[i]) /\ ~Before(WrittenUpTo', stream[i])
  <2> TAKE i \in 1..Len(stream)
  <2>1. IsByte(stream[i]) /\ Before(ReadUpTo, stream[i]) /\ ~Before(WrittenUpTo, stream[i]) /\ stream[i] \in Places
    BY <1>1 DEF StreamInv
  <2>2. PICK p \in Places : p = stream[i]
    BY <2>1
  <2>3. IsByte(p)' /\ Before(ReadUpTo', p) /\ ~Before(WrittenUpTo', p)
    BY <2>1, <2>2
  <2> QED
    BY <2>2, <2>3 DEF IsByte
<1>3. ASSUME NEW p \in Places, IsByte(p)', Before(ReadUpTo', p), ~Before(WrittenUpTo', p)
      PROVE  \E i \in 1..Len(stream) : stream[i] = p
  <2>1. IsByte(p)
    BY <1>3
  <2> QED
    BY <1>3, <2>1 DEF StreamInv
<1>4. ASSUME NEW p \in Places, IsByte(p)', Before(WrittenUpTo', p)
      PROVE  Before(ReadUpTo', p)
  BY <1>4 DEF StreamInv
<1>5. \A i, j \in 1..Len(stream) : i < j => Before(stream[i], stream[j])
  BY DEF StreamInv
<1>6. (\A i \in 1..Len(stream) :
         IsByte(stream[i]) /\ Before(ReadUpTo, stream[i]) /\ ~Before(WrittenUpTo, stream[i]))'
  BY <1>2 DEF IsByte, Before
<1>7. (\A p \in Places : IsByte(p) /\ Before(ReadUpTo, p) /\ ~Before(WrittenUpTo, p)
                           => \E i \in 1..Len(stream) : stream[i] = p)'
  BY <1>3 DEF Before
<1>8. (\A p \in Places : IsByte(p) /\ Before(WrittenUpTo, p) => Before(ReadUpTo, p))'
  BY <1>4 DEF Before
<1> QED
  BY <1>1, <1>5, <1>6, <1>7, <1>8 DEF StreamInv, Before

(* There is no byte between the end of a field and the start of the next. *)
LEMMA NoByteBetween ==
  ASSUME WriterInv, ReceivedInv, NEW n \in 1..Len(sent), NEW f \in 0..(Len(sent[n]) + 1),
         NEW p \in Places, IsByte(p)
  PROVE  /\ f <= Len(sent[n]) => (Before(<<n, f, FieldSize(sent[n], f)>>, p) <=> Before(<<n, f + 1, 0>>, p))
         /\ f > Len(sent[n]) => (Before(<<n, f, FieldSize(sent[n], f)>>, p) <=> Before(<<n + 1, 0, 0>>, p))
<1> DEFINE size == FieldSize(sent[n], f)
           len  == Len(sent[n])
<1>1. sent[n] \in Messages /\ n \in Nat /\ n >= 1
  BY Positions
<1>2. len \in Nat /\ size \in Nat /\ f \in Nat /\ f <= len + 1
  BY <1>1, MessageType
<1>3. /\ p[1] \in Nat /\ p[2] \in Nat /\ p[3] \in Nat /\ p[3] >= 1
      /\ p[1] = n => p[2] <= len + 1
      /\ p[1] = n /\ p[2] = f => p[3] <= size
  <2>1. p[1] \in Nat /\ p[2] \in Nat /\ p[3] \in Nat
    BY DEF Places
  <2>2. p[1] \in 1..Len(sent) /\ p[2] \in 0..(Len(sent[p[1]]) + 1)
    BY DEF IsByte
  <2>3. FieldSize(sent[p[1]], p[2]) \in Nat
    BY <2>2, Positions, MessageType
  <2>4. p[3] >= 1 /\ p[3] <= FieldSize(sent[p[1]], p[2])
    BY <2>1, <2>3 DEF IsByte
  <2>5. p[1] = n => p[2] <= len + 1
    <3>1. p[1] = n => p[2] \in 0..(len + 1)
      BY <2>2
    <3> QED
      BY <1>2, <3>1
  <2> QED
    BY <2>1, <2>4, <2>5
<1> HIDE DEF size, len
<1>4. f <= len => (Before(<<n, f, size>>, p) <=> Before(<<n, f + 1, 0>>, p))
  BY <1>1, <1>2, <1>3 DEF Before
<1>5. f > len => (Before(<<n, f, size>>, p) <=> Before(<<n + 1, 0, 0>>, p))
  BY <1>1, <1>2, <1>3 DEF Before
<1> QED
  BY <1>4, <1>5 DEF size, len

LEMMA StartMessageFrames ==
  ASSUME FramesInv, NEW message \in Messages, open, ~writing,
         sent' = Append(sent, message), writing' = TRUE, open' = open,
         UNCHANGED <<part, put, stream, readerVars>>
  PROVE  FramesInv'
<1> DEFINE n == Len(sent)
<1>1. /\ WriterInv /\ ReceivedInv /\ n \in Nat /\ sent \in Seq(Messages) /\ Number \in Nat
      /\ Len(received) \in Nat /\ Len(received) <= n
  BY DEF FramesInv, WriterInv, ReceivedInv, Number
<1>2. /\ sent' \in Seq(Messages) /\ Len(sent') = n + 1 /\ sent'[n + 1] = message
      /\ \A i \in 1..n : sent'[i] = sent[i]
  BY <1>1
<1>3. part = 0 /\ put = 0 /\ part' = 0 /\ put' = 0
  BY <1>1 DEF WriterInv
<1>4. /\ phase' = phase /\ current' = current /\ field' = field /\ got' = got /\ spools' = spools
      /\ received' = received /\ stream' = stream /\ Number' = Number /\ ReadUpTo' = ReadUpTo
  BY DEF readerVars, Number, ReadUpTo
<1>5. WrittenUpTo = <<n + 1, 0, 0>> /\ WrittenUpTo' = <<n + 1, 0, 0>>
  BY <1>2, <1>3 DEF WrittenUpTo
<1>6. WriterInv'
  <2>1. Last(sent') = message /\ sent' # <<>>
    BY <1>1, <1>2 DEF Last
  <2>2. FieldSize(message, 0) \in Nat /\ Len(message) \in Nat
    BY MessageType, LengthField
  <2>3. 0 <= Len(message) + 1 /\ 0 <= FieldSize(message, 0)
    BY <2>2
  <2>4. writing' /\ writing' \in BOOLEAN /\ open' \in BOOLEAN /\ 0 \in Nat
    BY <1>1 DEF WriterInv
  <2> QED
    BY <1>2, <1>3, <2>1, <2>3, <2>4, Zenon DEF WriterInv
<1>7. ReceivedInv'
  BY <1>1, <1>2, <1>4 DEF ReceivedInv
<1>8. ASSUME NEW p \in Places
      PROVE  /\ IsByte(p) => IsByte(p)'
             /\ IsByte(p)' /\ ~IsByte(p) => p[1] = n + 1 /\ p[3] >= 1
  <2>1. p[1] \in Nat /\ p[2] \in Nat /\ p[3] \in Nat
    BY DEF Places
  <2>2. CASE p[1] \in 1..n
    <3>1. sent'[p[1]] = sent[p[1]]
      BY <1>2, <2>2
    <3> QED
      BY <1>1, <1>2, <2>1, <2>2, <3>1 DEF IsByte
  <2>3. CASE p[1] \notin 1..n
    <3>1. ~IsByte(p)
      BY <2>3 DEF IsByte
    <3>2. IsByte(p)' => p[1] \in 1..(n + 1) /\ p[3] >= 1
      BY <1>2, <2>1 DEF IsByte
    <3> QED
      BY <1>1, <2>3, <3>1, <3>2
  <2> QED
    BY <2>2, <2>3
<1>9. phase # "ended" => StreamInv'
  <2> SUFFICES ASSUME phase # "ended" PROVE StreamInv'
    OBVIOUS
  <2>1. Number <= n \/ (field = 0 /\ Len(got) = 0)
    <3>1. CASE phase = "reading"
      BY <3>1 DEF FramesInv, ReadingInv
    <3>2. CASE phase # "reading"
      BY <3>2 DEF FramesInv, HandlingInv
    <3> QED
      BY <3>1, <3>2
  <2>2. Number <= n + 1
    BY <1>1 DEF Number
  <2>3. \A p \in Places : IsByte(p)' /\ ~IsByte(p) => Before(WrittenUpTo', p) /\ Before(ReadUpTo', p)
    <3> TAKE p \in Places
    <3> HAVE IsByte(p)' /\ ~IsByte(p)
    <3>1. p[1] = n + 1 /\ p[3] >= 1 /\ p[1] \in Nat /\ p[2] \in Nat /\ p[3] \in Nat
      BY <1>8 DEF Places
    <3>2. Before(<<n + 1, 0, 0>>, p)
      BY <1>1, <3>1 DEF Before
    <3>3. Before(<<Number, field, Len(got)>>, p)
      <4>1. CASE Number <= n
        BY <1>1, <3>1, <4>1 DEF Before
      <4>2. CASE ~(Number <= n)
        <5>1. Number = n + 1 /\ field = 0 /\ Len(got) = 0
          BY <1>1, <2>1, <2>2, <4>2
        <5> QED
          BY <3>2, <5>1
      <4> QED
        BY <4>1, <4>2
    <3> QED
      BY <1>4, <1>5, <3>2, <3>3 DEF ReadUpTo
  <2>4. StreamInv
    BY DEF FramesInv
  <2> QED
    BY <1>4, <1>5, <1>8, <2>3, <2>4, StreamStays
<1>10. phase = "reading" => ReadingInv'
  <2> SUFFICES ASSUME phase = "reading" PROVE ReadingInv'
    OBVIOUS
  <2>1. ReadingInv
    BY DEF FramesInv
  <2>2. Number <= n => sent'[Number] = sent[Number]
    BY <1>1, <1>2 DEF Number
  <2>3. Len(got) <= FieldSize(sent'[Number], field)
    <3>1. CASE Number <= n
      BY <2>1, <2>2, <3>1 DEF ReadingInv
    <3>2. CASE ~(Number <= n)
      <4>1. field = 0
        BY <2>1, <3>2 DEF ReadingInv
      <4> QED
        BY <2>1, <4>1, LengthField DEF ReadingInv
    <3> QED
      BY <3>1, <3>2
  <2>4. Number <= n => Number <= n + 1
    BY <1>1
  <2> QED
    BY <1>2, <1>4, <2>1, <2>2, <2>3, <2>4 DEF ReadingInv
<1>11. phase \in {"handling", "reporting"} => HandlingInv'
  BY <1>4 DEF FramesInv, HandlingInv
<1>12. phase = "ended" => EndedInv'
  <2> SUFFICES ASSUME phase = "ended" PROVE EndedInv'
    OBVIOUS
  <2>1. EndedInv /\ open
    BY DEF FramesInv
  <2>2. Number <= n /\ ~Valid(sent[Number]) /\ spools = {}
    BY <2>1 DEF EndedInv
  <2>3. sent'[Number] = sent[Number] /\ Number <= n + 1
    BY <1>1, <1>2, <2>2 DEF Number
  <2> QED
    BY <1>2, <1>4, <2>2, <2>3 DEF EndedInv
<1> QED
  BY <1>4, <1>6, <1>7, <1>9, <1>10, <1>11, <1>12 DEF FramesInv

(* Closing the writing end. *)
LEMMA CloseFrames ==
  ASSUME FramesInv, open, open' = FALSE, UNCHANGED <<sent, writing, part, put, stream, readerVars>>
  PROVE  FramesInv'
<1>1. /\ sent' = sent /\ writing' = writing /\ part' = part /\ put' = put /\ stream' = stream
      /\ phase' = phase /\ current' = current /\ field' = field /\ got' = got /\ spools' = spools
      /\ received' = received /\ Number' = Number /\ ReadUpTo' = ReadUpTo /\ WrittenUpTo' = WrittenUpTo
  BY DEF readerVars, Number, ReadUpTo, WrittenUpTo
<1>2. WriterInv'
  <2>1. open' \in BOOLEAN /\ WriterInv
    BY DEF FramesInv
  <2>2. /\ sent' \in Seq(Messages) /\ writing' \in BOOLEAN /\ part' \in Nat /\ put' \in Nat
        /\ ~writing' => part' = 0 /\ put' = 0
    BY <1>1, <2>1 DEF WriterInv
  <2>3. writing' => /\ sent' # <<>> /\ part' <= Len(Last(sent')) + 1
                    /\ put' <= FieldSize(Last(sent'), part')
    BY <1>1, <2>1 DEF WriterInv
  <2> QED
    BY <2>1, <2>2, <2>3, Zenon DEF WriterInv
<1>3. ReceivedInv'
  BY <1>1 DEF FramesInv, ReceivedInv
<1>4. StreamInv => StreamInv'
  <2>1. \A p : IsByte(p)' <=> IsByte(p)
    BY <1>1 DEF IsByte
  <2> QED
    BY <1>1, <2>1, StreamStays
<1>5. /\ ReadingInv => ReadingInv'
      /\ HandlingInv => HandlingInv'
      /\ EndedInv => EndedInv'
  <2>1. EndedInv => EndedInv'
    BY <1>1 DEF EndedInv
  <2> QED
    BY <1>1, <2>1 DEF ReadingInv, HandlingInv
<1> QED
  BY <1>1, <1>2, <1>3, <1>4, <1>5 DEF FramesInv

(* What a step of the writer leaves alone of the reader. *)
LEMMA ReaderStays ==
  ASSUME FramesInv, UNCHANGED <<sent, open, readerVars>>,
         phase = "ended" => stream' = stream \/ open
  PROVE  /\ ReceivedInv' /\ phase' = phase /\ ReadUpTo' = ReadUpTo
         /\ phase = "reading" => ReadingInv'
         /\ phase \in {"handling", "reporting"} => HandlingInv'
         /\ phase = "ended" => EndedInv'
<1>1. /\ sent' = sent /\ open' = open
      /\ phase' = phase /\ current' = current /\ field' = field /\ got' = got /\ spools' = spools
      /\ received' = received /\ Number' = Number /\ ReadUpTo' = ReadUpTo
  BY DEF readerVars, Number, ReadUpTo
<1>2. ReceivedInv'
  BY <1>1 DEF FramesInv, ReceivedInv
<1>3. phase = "reading" => ReadingInv'
  BY <1>1 DEF FramesInv, ReadingInv
<1>4. phase \in {"handling", "reporting"} => HandlingInv'
  BY <1>1 DEF FramesInv, HandlingInv
<1>5. phase = "ended" => EndedInv'
  BY <1>1 DEF FramesInv, EndedInv
<1> QED
  BY <1>1, <1>2, <1>3, <1>4, <1>5

LEMMA WriteByteFrames ==
  ASSUME FramesInv, WriteByte
  PROVE  FramesInv'
<1>1. /\ WriterInv /\ ReceivedInv /\ open /\ writing /\ put < FieldSize(Last(sent), part) /\ put' = put + 1
      /\ stream' = Append(stream, <<Len(sent), part, put + 1>>)
      /\ sent' = sent /\ writing' = writing /\ part' = part /\ open' = open
      /\ UNCHANGED <<sent, open, readerVars>>
  BY DEF FramesInv, WriteByte
<1> DEFINE n == Len(sent)
           message == sent[n]
           new == <<n, part, put + 1>>
<1>2. n \in Nat /\ n \in 1..n /\ message \in Messages /\ Last(sent) = message
  BY <1>1, Positions
<1>3. Len(message) \in Nat /\ part \in 0..(Len(message) + 1) /\ FieldSize(message, part) \in Nat
      /\ put \in Nat /\ put < FieldSize(message, part)
  <2>1. Len(message) \in Nat /\ part \in Nat /\ put \in Nat /\ part <= Len(message) + 1
    BY <1>1, <1>2, MessageType DEF WriterInv
  <2>2. part \in 0..(Len(message) + 1)
    BY <2>1
  <2> QED
    BY <1>1, <1>2, <2>1, <2>2, MessageType
<1>4. new \in Places /\ IsByte(new) /\ new[1] = n /\ new[2] = part /\ new[3] = put + 1
  <2>1. new \in Places /\ new[1] = n /\ new[2] = part /\ new[3] = put + 1
    BY <1>2, <1>3 DEF Places
  <2> HIDE DEF new
  <2>2. new[3] \in 1..FieldSize(message, part)
    BY <1>3, <2>1
  <2> QED
    BY <1>2, <1>3, <2>1, <2>2 DEF IsByte
<1>5. WrittenUpTo = <<n, part, put>> /\ WrittenUpTo' = new /\ WrittenUpTo \in Places
  BY <1>1, Positions DEF WrittenUpTo
<1>6. Before(WrittenUpTo, new)
  BY <1>2, <1>3, <1>4, <1>5 DEF Before
<1>7. ASSUME NEW p \in Places, ~Before(new, p)
      PROVE  ~Before(WrittenUpTo, p) \/ p = new
  <2>1. p[1] \in Nat /\ p[2] \in Nat /\ p[3] \in Nat /\ p = <<p[1], p[2], p[3]>>
    BY DEF Places
  <2>2. CASE Before(WrittenUpTo, p)
    <3>1. p[1] = n /\ p[2] = part /\ p[3] = put + 1
      BY <1>2, <1>3, <1>4, <1>5, <1>7, <2>1, <2>2 DEF Before
    <3> QED
      BY <2>1, <3>1
  <2> QED
    BY <2>2
<1> HIDE DEF new, message
<1>8. WriterInv'
  <2>1. put' \in Nat /\ put' <= FieldSize(Last(sent), part)
    BY <1>1, <1>2, <1>3
  <2>2. /\ sent \in Seq(Messages) /\ writing \in BOOLEAN /\ open \in BOOLEAN /\ part \in Nat
        /\ sent # <<>> /\ part <= Len(Last(sent)) + 1
    BY <1>1 DEF WriterInv
  <2> QED
    BY <1>1, <2>1, <2>2 DEF WriterInv
<1>9. phase # "ended" => StreamInv'
  <2> SUFFICES ASSUME phase # "ended" PROVE StreamInv'
    OBVIOUS
  <2> DEFINE k == Len(stream)
  <2>1. StreamInv /\ stream \in Seq(Places) /\ k \in Nat
    BY DEF FramesInv, StreamInv
  <2>2. /\ stream' \in Seq(Places) /\ Len(stream') = k + 1 /\ stream'[k + 1] = new
        /\ \A i \in 1..k : stream'[i] = stream[i] /\ stream[i] \in Places
        /\ \A i \in 1..(k + 1) : i \in 1..k \/ i = k + 1
    <3>1. stream' = Append(stream, new)
      BY <1>1 DEF new
    <3> QED
      BY <1>4, <2>1, <3>1
  <2>3. ReadUpTo' = ReadUpTo /\ \A p : IsByte(p)' <=> IsByte(p)
    BY <1>1 DEF readerVars, ReadUpTo, Number, IsByte
  <2>4. ASSUME NEW i \in 1..(k + 1), NEW j \in 1..(k + 1), i < j PROVE Before(stream'[i], stream'[j])
    <3>1. i \in 1..k
      BY <2>1, <2>4
    <3>2. CASE j \in 1..k
      BY <2>1, <2>2, <2>4, <3>1, <3>2 DEF StreamInv
    <3>3. CASE j = k + 1
      <4>1. stream[i] \in Places /\ ~Before(WrittenUpTo, stream[i])
        BY <2>1, <2>2, <3>1 DEF StreamInv
      <4>2. Before(stream[i], new)
        BY <1>4, <1>5, <1>6, <4>1, OrderIsTotal, OrderIsTransitive
      <4> QED
        BY <2>2, <3>1, <3>3, <4>2
    <3> QED
      BY <2>2, <3>2, <3>3
  <2>5. ASSUME NEW i \in 1..(k + 1)
        PROVE  IsByte(stream'[i]) /\ Before(ReadUpTo, stream'[i]) /\ ~Before(new, stream'[i])
    <3>1. CASE i \in 1..k
      <4>1. /\ stream[i] \in Places /\ IsByte(stream[i]) /\ Before(ReadUpTo, stream[i])
            /\ ~Before(WrittenUpTo, stream[i])
        BY <2>1, <2>2, <3>1 DEF StreamInv
      <4>2. ~Before(new, stream[i])
        BY <1>4, <1>5, <1>6, <4>1, OrderIsTransitive
      <4> QED
        BY <2>2, <3>1, <4>1, <4>2
    <3>2. CASE i = k + 1
      <4>1. Before(ReadUpTo, new)
        BY <1>4, <1>6, <2>1 DEF StreamInv
      <4> QED
        BY <1>4, <2>2, <3>2, <4>1, OrderIsTotal
    <3> QED
      BY <2>2, <3>1, <3>2
  <2>6. ASSUME NEW p \in Places, IsByte(p), Before(ReadUpTo, p), ~Before(new, p)
        PROVE  \E i \in 1..(k + 1) : stream'[i] = p
    <3>1. CASE p = new
      BY <2>1, <2>2, <3>1
    <3>2. CASE p # new
      <4>1. ~Before(WrittenUpTo, p)
        BY <1>7, <2>6, <3>2
      <4>2. PICK i \in 1..k : stream[i] = p
        BY <2>1, <2>6, <4>1 DEF StreamInv
      <4> QED
        BY <2>1, <2>2, <4>2
    <3> QED
      BY <3>1, <3>2
  <2>7. ASSUME NEW p \in Places, IsByte(p), Before(new, p) PROVE Before(ReadUpTo, p)
    BY <1>4, <1>5, <1>6, <2>1, <2>7, OrderIsTransitive DEF StreamInv
  <2>8. (\A i \in 1..Len(stream) :
           IsByte(stream[i]) /\ Before(ReadUpTo, stream[i]) /\ ~Before(WrittenUpTo, stream[i]))'
    BY <1>5, <2>2, <2>3, <2>5
  <2>9. (\A p \in Places : IsByte(p) /\ Before(ReadUpTo, p) /\ ~Before(WrittenUpTo, p)
                             => \E i \in 1..Len(stream) : stream[i] = p)'
    BY <1>5, <2>2, <2>3, <2>6
  <2>10. (\A p \in Places : IsByte(p) /\ Before(WrittenUpTo, p) => Before(ReadUpTo, p))'
    BY <1>5, <2>3, <2>7
  <2> QED
    BY <2>2, <2>4, <2>8, <2>9, <2>10 DEF StreamInv
<1> QED
  BY <1>1, <1>8, <1>9, ReaderStays DEF FramesInv

LEMMA NextPartFrames ==
  ASSUME FramesInv, NextPart
  PROVE  FramesInv'
<1>1. /\ WriterInv /\ ReceivedInv /\ open /\ writing /\ put = FieldSize(Last(sent), part) /\ put' = 0
      /\ part <= Len(Last(sent)) => part' = part + 1 /\ writing' = writing
      /\ ~(part <= Len(Last(sent))) => part' = 0 /\ writing' = FALSE
      /\ sent' = sent /\ open' = open /\ stream' = stream
      /\ UNCHANGED <<sent, open, readerVars>>
  BY DEF FramesInv, NextPart
<1> DEFINE n == Len(sent)
           message == sent[n]
<1>2. n \in Nat /\ n \in 1..n /\ message \in Messages /\ Last(sent) = message
  BY <1>1, Positions
<1>3. Len(message) \in Nat /\ part \in 0..(Len(message) + 1) /\ part \in Nat
  BY <1>1, <1>2, MessageType DEF WriterInv
<1>4. WriterInv'
  <2>1. sent \in Seq(Messages) /\ writing \in BOOLEAN /\ open \in BOOLEAN /\ sent # <<>>
    BY <1>1 DEF WriterInv
  <2>2. CASE part <= Len(message)
    <3>1. part + 1 \in 0..(Len(message) + 1)
      BY <1>3, <2>2
    <3>2. FieldSize(message, part + 1) \in Nat
      BY <1>2, <3>1, MessageType
    <3>3. part' = part + 1 /\ part' \in Nat /\ part' <= Len(Last(sent)) + 1 /\ writing' = writing
          /\ put' \in Nat /\ put' <= FieldSize(Last(sent), part')
      <4>1. part' = part + 1 /\ writing' = writing
        BY <1>1, <1>2, <2>2
      <4>2. put' = 0 /\ 0 <= FieldSize(message, part + 1)
        BY <1>1, <3>2
      <4>3. part' \in Nat /\ part' <= Len(message) + 1
        BY <1>3, <2>2, <4>1
      <4> QED
        BY <1>2, <4>1, <4>2, <4>3
    <3> QED
      BY <1>1, <2>1, <3>3 DEF WriterInv
  <2>3. CASE ~(part <= Len(message))
    <3>1. part' = 0 /\ put' = 0 /\ ~writing' /\ 0 \in Nat /\ writing' \in BOOLEAN
      BY <1>1, <1>2, <2>3
    <3> QED
      BY <1>1, <2>1, <3>1, Zenon DEF WriterInv
  <2> QED
    BY <2>2, <2>3
<1>5. StreamInv => StreamInv'
  <2> SUFFICES ASSUME StreamInv PROVE StreamInv'
    OBVIOUS
  <2>1. ReadUpTo' = ReadUpTo /\ \A p : IsByte(p)' <=> IsByte(p)
    BY <1>1 DEF readerVars, ReadUpTo, Number, IsByte
  <2>2. WrittenUpTo = <<n, part, FieldSize(message, part)>>
    BY <1>1, <1>2 DEF WrittenUpTo
  <2>3. /\ part <= Len(message) => WrittenUpTo' = <<n, part + 1, 0>>
        /\ part > Len(message) => WrittenUpTo' = <<n + 1, 0, 0>>
    <3>1. part <= Len(message) => part' = part + 1 /\ writing'
      BY <1>1, <1>2
    <3>2. part > Len(message) => part' = 0 /\ ~writing'
      <4>1. part > Len(message) => ~(part <= Len(Last(sent)))
        BY <1>2, <1>3
      <4> QED
        BY <1>1, <4>1
    <3> QED
      BY <1>1, <3>1, <3>2 DEF WrittenUpTo
  <2>4. ASSUME NEW p \in Places, IsByte(p)
        PROVE  Before(WrittenUpTo', p) <=> Before(WrittenUpTo, p)
    <3>1. /\ part <= Len(message) =>
               (Before(<<n, part, FieldSize(message, part)>>, p) <=> Before(<<n, part + 1, 0>>, p))
          /\ part > Len(message) =>
               (Before(<<n, part, FieldSize(message, part)>>, p) <=> Before(<<n + 1, 0, 0>>, p))
      BY <1>1, <1>2, <1>3, <2>4, NoByteBetween
    <3>2. part <= Len(message) \/ part > Len(message)
      BY <1>3
    <3> QED
      BY <2>2, <2>3, <3>1, <3>2
  <2> QED
    BY <1>1, <2>1, <2>4, StreamStays
<1> QED
  BY <1>1, <1>4, <1>5, ReaderStays DEF FramesInv

-----------------------------------------------------------------------------
(* The field the reader reads is one of the message it reads. *)
LEMMA CurrentField ==
  ASSUME FramesInv, phase = "reading"
  PROVE  /\ WriterInv /\ ReceivedInv /\ StreamInv /\ ReadingInv
         /\ Number \in Nat \ {0} /\ field \in Nat /\ Len(got) \in Nat
         /\ ReadUpTo \in Places /\ ReadUpTo[1] = Number /\ ReadUpTo[2] = field /\ ReadUpTo[3] = Len(got)
         /\ FieldSize(current, field) = FieldSize(sent[Number], field)
         /\ FieldSize(current, field) \in Nat /\ Len(got) <= FieldSize(current, field)
         /\ Number <= Len(sent) => /\ Number \in 1..Len(sent) /\ sent[Number] \in Messages
                                   /\ field \in 0..(Len(sent[Number]) + 1)
<1>1. WriterInv /\ ReceivedInv /\ StreamInv /\ ReadingInv
  BY DEF FramesInv
<1>2. Number \in Nat \ {0} /\ field \in Nat /\ Len(got) \in Nat
  BY <1>1 DEF ReceivedInv, ReadingInv, Number
<1>3. ReadUpTo \in Places /\ ReadUpTo[1] = Number /\ ReadUpTo[2] = field /\ ReadUpTo[3] = Len(got)
  BY <1>2 DEF ReadUpTo, Places
<1>4. Number <= Len(sent) => Number \in 1..Len(sent) /\ sent[Number] \in Messages
  BY <1>1, <1>2, Positions
<1>5. Number <= Len(sent) => field \in 0..(Len(sent[Number]) + 1)
  <2> SUFFICES ASSUME Number <= Len(sent) PROVE field \in 0..(Len(sent[Number]) + 1)
    OBVIOUS
  <2>1. Len(sent[Number]) \in Nat
    BY <1>4, MessageType
  <2>2. field <= Len(sent[Number]) + 1
    BY <1>1, <1>2, <2>1 DEF ReadingInv
  <2> QED
    BY <1>2, <2>1, <2>2
<1>6. FieldSize(current, field) = FieldSize(sent[Number], field) /\ FieldSize(current, field) \in Nat
  <2>1. CASE field = 0
    BY <2>1, LengthField
  <2>2. CASE field # 0
    <3>1. Number <= Len(sent) /\ current = sent[Number]
      BY <1>1, <2>2 DEF ReadingInv
    <3> QED
      BY <1>4, <1>5, <3>1, MessageType
  <2> QED
    BY <2>1, <2>2
<1>7. Len(got) <= FieldSize(current, field)
  BY <1>1, <1>6 DEF ReadingInv
<1> QED
  BY <1>1, <1>2, <1>3, <1>4, <1>5, <1>6, <1>7

(* What comes out of the pipe, as far as the field goes, are its bytes. *)
LEMMA NextBytes ==
  ASSUME FramesInv, phase = "reading", NEW n \in 1..Len(stream),
         Len(got) + n <= FieldSize(current, field)
  PROVE  /\ \A j \in 1..n : stream[j] = <<Number, field, Len(got) + j>>
         /\ Number <= Len(sent)
<1> DEFINE g == Len(got)
           k == Len(stream)
           size == FieldSize(sent[Number], field)
           Due(j) == <<Number, field, g + j>>
<1>1. /\ Number \in Nat \ {0} /\ field \in Nat /\ g \in Nat /\ size \in Nat /\ g + n <= size
      /\ ReadUpTo \in Places /\ ReadUpTo = Due(0)
      /\ stream \in Seq(Places) /\ k \in Nat /\ n \in Nat /\ n <= k
  <2>1. stream \in Seq(Places) /\ k \in Nat /\ n \in Nat /\ n <= k
    BY CurrentField DEF StreamInv
  <2> QED
    BY <2>1, CurrentField DEF ReadUpTo
<1>2. \A j \in Nat : /\ Due(j) \in Places /\ Due(j)[1] = Number /\ Due(j)[2] = field /\ Due(j)[3] = g + j
  <2> TAKE j \in Nat
  <2>1. g + j \in Nat /\ Number \in Nat /\ field \in Nat
    BY <1>1
  <2> QED
    BY <2>1 DEF Places
<1>3. \A i \in 1..k : stream[i] \in Places /\ IsByte(stream[i]) /\ Before(ReadUpTo, stream[i])
                      /\ ~Before(WrittenUpTo, stream[i])
  <2>1. \A i \in 1..k : stream[i] \in Places
    BY <1>1
  <2>2. StreamInv
    BY CurrentField
  <2> QED
    BY <2>1, <2>2 DEF StreamInv
<1>4. Number <= Len(sent)
  <2>1. 1 \in 1..k
    BY <1>1
  <2>2. stream[1] \in Places /\ stream[1][1] \in 1..Len(sent) /\ Before(ReadUpTo, stream[1])
    BY <1>3, <2>1 DEF IsByte
  <2>3. Number <= stream[1][1] /\ stream[1][1] <= Len(sent) /\ Len(sent) \in Nat
    <3>1. Len(sent) \in Nat /\ ReadUpTo[1] = Number
      BY Positions, CurrentField
    <3> QED
      BY <1>1, <2>2, <3>1 DEF Before
  <2> QED
    BY <1>1, <2>2, <2>3
<1> HIDE DEF Due, size
<1>5. ASSUME NEW j \in 1..n PROVE IsByte(Due(j)) /\ Before(ReadUpTo, Due(j))
  <2>1. Due(j)[1] = Number /\ Due(j)[2] = field /\ Due(j)[3] = g + j /\ Due(j) \in Places
    <3>1. j \in Nat
      OBVIOUS
    <3> QED
      BY <1>2, <3>1
  <2>2. g + j \in 1..size
    BY <1>1
  <2>3. IsByte(Due(j))
    BY <1>4, <2>1, <2>2, CurrentField DEF IsByte, size
  <2>4. Before(ReadUpTo, Due(j))
    BY <1>1, <2>1, CurrentField DEF Before
  <2> QED
    BY <2>3, <2>4
<1> DEFINE T == {j \in 1..n : stream[j] # Due(j)}
<1>6. T = {}
  <2> SUFFICES ASSUME T # {} PROVE FALSE
    OBVIOUS
  <2>1. PICK j \in T : \A i \in T : j <= i
    <3>1. T \subseteq Nat
      OBVIOUS
    <3> HIDE DEF T
    <3> QED BY <3>1, LeastExists
  <2>2. /\ j \in 1..n /\ j \in 1..k /\ stream[j] # Due(j)
        /\ \A i \in 1..n : i < j => stream[i] = Due(i)
    <3>1. j \in 1..n /\ stream[j] # Due(j) /\ \A i \in 1..n : i \in T <=> stream[i] # Due(i)
      OBVIOUS
    <3>2. j \in 1..k
      BY <1>1, <3>1
    <3>3. \A i \in 1..n : i < j => i \notin T
      BY <1>1, <2>1, <3>1
    <3> QED
      BY <3>1, <3>2, <3>3
  <2> HIDE DEF T
  <2>3. Before(Due(j - 1), stream[j])
    <3>1. CASE j = 1
      <4>1. Due(j - 1) = ReadUpTo
        BY <1>1, <3>1
      <4> QED
        BY <1>3, <2>2, <4>1
    <3>2. CASE j # 1
      <4>1. j - 1 \in 1..n /\ j - 1 \in 1..k /\ j - 1 < j
        BY <1>1, <2>2, <3>2
      <4>2. Before(stream[j - 1], stream[j])
        BY <2>2, <4>1, CurrentField DEF StreamInv
      <4> QED
        BY <2>2, <4>1, <4>2
    <3> QED
      BY <3>1, <3>2
  <2>4. Before(Due(j), stream[j])
    <3>1. j - 1 \in Nat /\ j \in Nat
      BY <1>1, <2>2
    <3>2. /\ Due(j - 1)[1] = Number /\ Due(j - 1)[2] = field /\ Due(j - 1)[3] = g + (j - 1)
          /\ Due(j)[1] = Number /\ Due(j)[2] = field /\ Due(j)[3] = g + j
          /\ Due(j) \in Places /\ stream[j] \in Places
      BY <1>2, <1>3, <2>2, <3>1
    <3>3. PICK q \in Places : q = stream[j]
      BY <3>2
    <3>4. q[1] \in Nat /\ q[2] \in Nat /\ q[3] \in Nat /\ q = <<q[1], q[2], q[3]>>
      BY DEF Places
    <3>5. CASE q[1] = Number /\ q[2] = field /\ q[3] = g + j
      BY <2>2, <3>3, <3>4, <3>5 DEF Due
    <3>6. CASE ~(q[1] = Number /\ q[2] = field /\ q[3] = g + j)
      <4>1. Before(Due(j - 1), q)
        BY <2>3, <3>3
      <4>2. \/ Number < q[1]
            \/ Number = q[1] /\ field < q[2]
            \/ Number = q[1] /\ field = q[2] /\ g + (j - 1) < q[3]
        BY <3>2, <4>1 DEF Before
      <4>3. \/ Number < q[1]
            \/ Number = q[1] /\ field < q[2]
            \/ Number = q[1] /\ field = q[2] /\ g + j < q[3]
        <5>1. q[3] \in Nat /\ g \in Nat /\ j \in Nat
          BY <1>1, <3>1, <3>4
        <5>2. g + (j - 1) < q[3] /\ q[3] # g + j => g + j < q[3]
          BY <5>1
        <5> QED
          BY <3>6, <4>2, <5>2
      <4> QED
        BY <3>2, <3>3, <4>3 DEF Before
    <3> QED
      BY <3>5, <3>6
  <2>5. ~Before(WrittenUpTo, Due(j))
    <3>1. Due(j) \in Places /\ stream[j] \in Places /\ WrittenUpTo \in Places
      BY <1>2, <1>3, <2>2, CurrentField, Positions
    <3> QED
      BY <1>3, <2>2, <2>4, <3>1, OrderIsTransitive
  <2>6. PICK m \in 1..k : stream[m] = Due(j)
    BY <1>2, <1>5, <2>2, <2>5, CurrentField DEF StreamInv
  <2>7. m < j
    <3>1. stream[m] \in Places /\ stream[j] \in Places /\ Before(stream[m], stream[j])
      BY <1>3, <2>2, <2>4, <2>6
    <3>2. ~(j < m)
      BY <2>2, <3>1, CurrentField, OrderIsTotal DEF StreamInv
    <3>3. m # j
      BY <2>2, <2>6
    <3> QED
      BY <2>2, <3>2, <3>3
  <2>8. m \in 1..n /\ stream[m] = Due(m)
    BY <1>1, <2>2, <2>7
  <2>9. Due(m)[3] = g + m /\ Due(j)[3] = g + j
    <3>1. m \in Nat /\ j \in Nat
      BY <2>2
    <3> QED
      BY <1>2, <3>1
  <2> QED
    BY <1>1, <2>2, <2>6, <2>7, <2>8, <2>9
<1> QED
  BY <1>4, <1>6 DEF Due

LEMMA ReadPieceFrames ==
  ASSUME FramesInv, ReadPiece
  PROVE  FramesInv'
<1> DEFINE g == Len(got)
           k == Len(stream)
           size == FieldSize(current, field)
<1>1. phase = "reading"
  BY DEF ReadPiece
<1>2. /\ WriterInv /\ ReceivedInv /\ StreamInv /\ ReadingInv
      /\ g \in Nat /\ size \in Nat /\ g <= size /\ size = FieldSize(sent[Number], field)
      /\ ReadUpTo \in Places
  BY <1>1, CurrentField
<1>3. /\ stream \in Seq(Places) /\ k \in Nat /\ got \in Seq(Places)
      /\ Number \in Nat /\ field \in Nat
  BY <1>1, <1>2, CurrentField DEF StreamInv, ReadingInv
<1>4. PICK n \in 1..Min({size - g, k}) :
        got' = got \o SubSeq(stream, 1, n) /\ stream' = SubSeq(stream, n + 1, k)
  BY DEF ReadPiece
<1>5. n \in 1..k /\ g + n <= size /\ n \in Nat
  <2>1. size - g \in Nat
    BY <1>2
  <2>2. Min({size - g, k}) \in Nat /\ Min({size - g, k}) <= size - g /\ Min({size - g, k}) <= k
    BY <1>3, <2>1, MinOfTwo
  <2> HIDE DEF g, k, size
  <2> QED
    BY <1>2, <1>3, <1>4, <2>2
<1>6. Number <= Len(sent) /\ \A j \in 1..n : stream[j] = <<Number, field, g + j>>
  BY <1>1, <1>5, NextBytes
<1>7. /\ UNCHANGED <<writerVars, phase, current, field, spools, received>>
      /\ sent' = sent /\ writing' = writing /\ part' = part /\ put' = put /\ open' = open
      /\ phase' = phase /\ current' = current /\ field' = field /\ spools' = spools /\ received' = received
      /\ Number' = Number /\ WrittenUpTo' = WrittenUpTo
  BY DEF ReadPiece, writerVars, Number, WrittenUpTo
<1>8. /\ stream' \in Seq(Places) /\ Len(stream') = k - n
      /\ \A i \in 1..(k - n) : stream'[i] = stream[n + i] /\ n + i \in 1..k
  BY <1>3, <1>4, <1>5
<1>9. /\ got' \in Seq(Places) /\ Len(got') = g + n
      /\ \A i \in 1..g : got'[i] = got[i]
      /\ \A j \in 1..n : got'[g + j] = stream[j]
  <2> DEFINE piece == SubSeq(stream, 1, n)
  <2>1. piece \in Seq(Places) /\ Len(piece) = n /\ \A j \in 1..n : piece[j] = stream[j]
    BY <1>3, <1>5
  <2>2. got' = got \o piece
    BY <1>4
  <2> HIDE DEF piece
  <2>3. /\ got \o piece \in Seq(Places) /\ Len(got \o piece) = g + n
        /\ \A i \in 1..(g + n) : (got \o piece)[i] = IF i <= g THEN got[i] ELSE piece[i - g]
    BY <1>3, <2>1, ConcatProperties
  <2>4. ASSUME NEW i \in 1..g PROVE got'[i] = got[i]
    BY <1>2, <1>5, <2>2, <2>3
  <2>5. ASSUME NEW j \in 1..n PROVE got'[g + j] = stream[j]
    <3>1. g + j \in 1..(g + n) /\ ~(g + j <= g) /\ (g + j) - g = j
      BY <1>2, <1>5
    <3> QED
      BY <2>1, <2>2, <2>3, <3>1
  <2> QED
    BY <2>2, <2>3, <2>4, <2>5
<1>10. ReadUpTo' = <<Number, field, g + n>> /\ ReadUpTo' = stream[n]
  <2>1. n \in 1..n
    BY <1>5
  <2> QED
    BY <1>6, <1>7, <1>9, <2>1 DEF ReadUpTo
<1>11. \A i \in 1..k : stream[i] \in Places /\ IsByte(stream[i]) /\ Before(ReadUpTo, stream[i])
                       /\ ~Before(WrittenUpTo, stream[i])
  <2>1. \A i \in 1..k : stream[i] \in Places
    BY <1>3
  <2> QED
    BY <1>2, <2>1 DEF StreamInv
<1>12. \A i, j \in 1..k : i < j => Before(stream[i], stream[j])
  BY <1>2 DEF StreamInv
<1>13. \A p : IsByte(p)' <=> IsByte(p)
  BY <1>7 DEF IsByte
<1> HIDE DEF k, g, size
<1>14. StreamInv'
  <2>1. ASSUME NEW i \in 1..(k - n), NEW j \in 1..(k - n), i < j PROVE Before(stream'[i], stream'[j])
    <3>1. n + i < n + j /\ n + i \in 1..k /\ n + j \in 1..k
      BY <1>3, <1>5, <2>1
    <3> QED
      BY <1>8, <1>12, <3>1
  <2>2. ASSUME NEW i \in 1..(k - n)
        PROVE  IsByte(stream'[i]) /\ Before(ReadUpTo', stream'[i]) /\ ~Before(WrittenUpTo, stream'[i])
    <3>1. n < n + i /\ n + i \in 1..k
      BY <1>3, <1>5
    <3> QED
      BY <1>5, <1>8, <1>10, <1>11, <1>12, <3>1
  <2>3. ASSUME NEW p \in Places, IsByte(p), Before(ReadUpTo', p), ~Before(WrittenUpTo, p)
        PROVE  \E i \in 1..(k - n) : stream'[i] = p
    <3>1. stream[n] \in Places /\ Before(ReadUpTo, stream[n])
      BY <1>5, <1>11
    <3>2. Before(ReadUpTo, p)
      BY <1>2, <1>10, <2>3, <3>1, OrderIsTransitive
    <3>3. PICK i \in 1..k : stream[i] = p
      BY <1>2, <2>3, <3>2 DEF StreamInv, k
    <3>4. ~(i <= n)
      <4>1. i # n
        BY <1>10, <2>3, <3>1, <3>3, OrderIsTotal
      <4>2. ~(i < n)
        <5> SUFFICES ASSUME i < n PROVE FALSE
          OBVIOUS
        <5>1. Before(stream[i], stream[n])
          BY <1>5, <1>12, <3>3
        <5> QED
          BY <1>10, <2>3, <3>1, <3>3, <5>1, OrderIsTotal
      <4> QED
        BY <1>5, <3>3, <4>1, <4>2
    <3>5. i - n \in 1..(k - n) /\ n + (i - n) = i
      BY <1>3, <1>5, <3>3, <3>4
    <3> QED
      BY <1>8, <3>3, <3>5
  <2>4. ASSUME NEW p \in Places, IsByte(p), Before(WrittenUpTo, p) PROVE Before(ReadUpTo', p)
    <3>1. stream[n] \in Places /\ ~Before(WrittenUpTo, stream[n]) /\ WrittenUpTo \in Places
      BY <1>2, <1>5, <1>11, Positions
    <3>2. stream[n] = WrittenUpTo \/ Before(stream[n], WrittenUpTo)
      BY <3>1, OrderIsTotal
    <3> QED
      BY <1>10, <2>4, <3>1, <3>2, OrderIsTransitive
  <2>5. (\A i \in 1..Len(stream) :
           IsByte(stream[i]) /\ Before(ReadUpTo, stream[i]) /\ ~Before(WrittenUpTo, stream[i]))'
    BY <1>7, <1>8, <1>13, <2>2
  <2>6. (\A p \in Places : IsByte(p) /\ Before(ReadUpTo, p) /\ ~Before(WrittenUpTo, p)
                             => \E i \in 1..Len(stream) : stream[i] = p)'
    BY <1>7, <1>8, <1>13, <2>3
  <2>7. (\A p \in Places : IsByte(p) /\ Before(WrittenUpTo, p) => Before(ReadUpTo, p))'
    BY <1>7, <1>13, <2>4
  <2> QED
    BY <1>8, <2>1, <2>5, <2>6, <2>7 DEF StreamInv
<1>15. ReadingInv'
  <2>1. ASSUME NEW i \in 1..(g + n) PROVE got'[i] = <<Number, field, i>>
    <3>1. CASE i \in 1..g
      BY <1>2, <1>9, <3>1 DEF ReadingInv, g
    <3>2. CASE i \notin 1..g
      <4>1. i - g \in 1..n /\ g + (i - g) = i
        BY <1>2, <1>5, <3>2
      <4> QED
        BY <1>6, <1>9, <4>1
    <3> QED
      BY <3>1, <3>2
  <2>2. Len(got') <= FieldSize(sent[Number], field)
    BY <1>2, <1>5, <1>9
  <2> QED
    BY <1>2, <1>6, <1>7, <1>9, <2>1, <2>2 DEF ReadingInv
<1>16. WriterInv' /\ ReceivedInv'
  <2>1. ReceivedInv'
    BY <1>2, <1>7 DEF ReceivedInv
  <2>2. WriterInv'
    BY <1>2, <1>7 DEF WriterInv
  <2> QED
    BY <2>1, <2>2
<1> QED
  BY <1>1, <1>7, <1>14, <1>15, <1>16 DEF FramesInv

LEMMA ReadNothingFrames ==
  ASSUME FramesInv, ReadNothing
  PROVE  FramesInv'
<1>1. /\ phase = "reading" /\ phase' = "ended" /\ spools' = {} /\ stream = <<>> /\ ~open
      /\ sent' = sent /\ writing' = writing /\ part' = part /\ put' = put /\ open' = open
      /\ stream' = stream /\ received' = received
  BY DEF ReadNothing, FailReading, writerVars
<1>2. WriterInv'
  BY <1>1 DEF FramesInv, WriterInv
<1>3. ReceivedInv'
  BY <1>1 DEF FramesInv, ReceivedInv
<1>4. EndedInv'
  BY <1>1 DEF EndedInv
<1> QED
  BY <1>1, <1>2, <1>3, <1>4 DEF FramesInv

(* The bytes of a complete field are those of the field. *)
LEMMA CompleteFieldIsWhole ==
  ASSUME FramesInv, phase = "reading", Complete
  PROVE  /\ Number <= Len(sent)
         /\ got # <<>> => got[1][1] = Number /\ got = Field(Number, sent[Number], field)
         /\ field = 0 => got # <<>>
<1> DEFINE size == FieldSize(sent[Number], field)
<1>1. /\ ReadingInv /\ got \in Seq(Places) /\ Len(got) = size /\ size \in Nat /\ Number \in Nat /\ field \in Nat
  BY CurrentField DEF Complete, ReadingInv
<1>2. \A i \in 1..Len(got) : got[i] = <<Number, field, i>>
  BY <1>1 DEF ReadingInv
<1>3. field = 0 => Len(got) >= 1 /\ got # <<>>
  <2>1. field = 0 => size \in Nat \ {0}
    BY LengthField
  <2> HIDE DEF size
  <2> QED
    BY <1>1, <2>1
<1>4. got # <<>> => got[1][1] = Number
  <2>1. got # <<>> => 1 \in 1..Len(got)
    BY <1>1
  <2> QED
    BY <1>2, <2>1
<1>5. got = Field(Number, sent[Number], field)
  <2>1. got = [i \in 1..Len(got) |-> got[i]]
    BY <1>1
  <2>2. [i \in 1..Len(got) |-> got[i]] = [i \in 1..size |-> <<Number, field, i>>]
    BY <1>1, <1>2
  <2> QED
    BY <2>1, <2>2 DEF Field
<1>6. Number <= Len(sent)
  BY <1>1, <1>3 DEF ReadingInv
<1> QED
  BY <1>3, <1>4, <1>5, <1>6

LEMMA ReadFieldFrames ==
  ASSUME FramesInv, ReadField
  PROVE  FramesInv'
<1> DEFINE message == sent[Number]
           bad == \/ field = 0 /\ ~HeaderFits(message)
                  \/ field \in DOMAIN message /\ ~PayloadFits(message, field)
<1>1. phase = "reading" /\ Complete
  BY DEF ReadField
<1>2. /\ sent' = sent /\ writing' = writing /\ part' = part /\ put' = put /\ open' = open
      /\ stream' = stream /\ WrittenUpTo' = WrittenUpTo /\ \A p : IsByte(p)' <=> IsByte(p)
  BY DEF ReadField, writerVars, WrittenUpTo, IsByte
<1>3. /\ WriterInv /\ ReceivedInv /\ StreamInv /\ ReadingInv
      /\ Number \in Nat \ {0} /\ Number \in 1..Len(sent) /\ message \in Messages
      /\ field \in 0..(Len(message) + 1) /\ Len(got) = FieldSize(message, field)
  BY <1>1, CurrentField, CompleteFieldIsWhole DEF Complete
<1>4. /\ Len(message) \in Nat /\ DOMAIN message = 1..Len(message)
      /\ \A f \in 0..(Len(message) + 1) : FieldSize(message, f) \in Nat
  BY <1>3, MessageType
<1>5. NextField(message, field)
  <2>1. field # 0 => current = message
    BY <1>3 DEF ReadingInv
  <2>2. got # <<>> => got[1][1] = Number /\ got = Field(Number, message, field)
    BY <1>1, CompleteFieldIsWhole
  <2>3. field = 0 => got # <<>>
    BY <1>1, CompleteFieldIsWhole
  <2>4. LET n == got[1][1]
        IN  ~(got # <<>> /\ got # Field(n, sent[n], field))
    BY <2>2
  <2>5. LET n == got[1][1] IN (IF field = 0 THEN sent[n] ELSE current) = message
    BY <2>1, <2>2, <2>3
  <2> QED
    BY <2>4, <2>5 DEF ReadField
<1>6. WriterInv'
  BY <1>2, <1>3 DEF WriterInv
<1> HIDE DEF message
<1>7. CASE bad
  <2>1. phase' = "ended" /\ spools' = {} /\ received' = received
    BY <1>5, <1>7 DEF NextField, FailReading
  <2>2. ReceivedInv' /\ Number' = Number
    BY <1>2, <1>3, <2>1 DEF ReceivedInv, Number
  <2>3. ~Valid(message)
    BY <1>7 DEF Valid
  <2>4. EndedInv'
    <3>1. Number <= Len(sent)
      BY <1>3
    <3> QED
      BY <1>2, <2>1, <2>2, <2>3, <3>1 DEF EndedInv, message
  <2> QED
    BY <1>6, <2>1, <2>2, <2>4 DEF FramesInv
<1>8. CASE ~bad
  <2>1. /\ current' = message /\ got' = <<>>
        /\ spools' = IF field \in DOMAIN message THEN spools \cup {field} ELSE spools
        /\ field < 1 \/ field \in DOMAIN message => field' = field + 1 /\ phase' = phase /\ received' = received
        /\ ~(field < 1 \/ field \in DOMAIN message) =>
             field' = 0 /\ phase' = "handling" /\ received' = Append(received, message)
    BY <1>5, <1>8 DEF NextField
  <2>2. spools' \subseteq DOMAIN message
    <3>1. spools \subseteq DOMAIN message
      BY <1>3 DEF ReadingInv, message
    <3> QED
      BY <2>1, <3>1
  <2>3. HeaderFits(message) /\ \A i \in DOMAIN message : i < field + 1 => PayloadFits(message, i)
    <3>1. CASE field = 0
      BY <1>4, <1>8, <3>1
    <3>2. CASE field # 0
      <4>1. /\ HeaderFits(message)
            /\ \A i \in DOMAIN message : i < field => PayloadFits(message, i)
        BY <1>3, <3>2 DEF ReadingInv, message
      <4>2. \A i \in DOMAIN message : i < field + 1 => i < field \/ i = field
        BY <1>3, <1>4
      <4> QED
        BY <1>8, <4>1, <4>2
    <3> QED
      BY <3>1, <3>2
  <2>4. ReadUpTo = <<Number, field, FieldSize(message, field)>> /\ Len(got') = 0
    BY <1>3, <2>1 DEF ReadUpTo
  <2>5. CASE field < 1 \/ field \in DOMAIN message
    <3>1. field <= Len(message) /\ field' = field + 1 /\ phase' = phase /\ received' = received /\ Number' = Number
      BY <1>3, <1>4, <2>1, <2>5 DEF Number
    <3>2. ReadUpTo' = <<Number, field + 1, 0>>
      BY <2>4, <3>1 DEF ReadUpTo
    <3>3. \A p \in Places : IsByte(p) => (Before(ReadUpTo', p) <=> Before(ReadUpTo, p))
      BY <1>3, <2>4, <3>1, <3>2, NoByteBetween DEF message
    <3>4. StreamInv'
      BY <1>2, <1>3, <3>3, StreamStays
    <3>5. ReadingInv'
      <4>1. field' \in Nat /\ field' # 0 /\ field' <= Len(message) + 1 /\ Number' <= Len(sent')
        BY <1>2, <1>3, <1>4, <3>1
      <4>2. got' \in Seq(Places) /\ Len(got') = 0 /\ Len(got') <= FieldSize(message, field')
        BY <1>4, <2>1, <2>4, <4>1
      <4>3. current' = sent'[Number'] /\ sent'[Number'] = message
        BY <1>2, <2>1, <3>1 DEF message
      <4> QED
        BY <2>1, <2>2, <2>3, <3>1, <4>1, <4>2, <4>3 DEF ReadingInv
    <3>6. ReceivedInv'
      BY <1>2, <1>3, <3>1 DEF ReceivedInv
    <3> QED
      BY <1>1, <1>6, <3>1, <3>4, <3>5, <3>6 DEF FramesInv
  <2>6. CASE ~(field < 1 \/ field \in DOMAIN message)
    <3>1. field > Len(message) /\ field' = 0 /\ phase' = "handling" /\ received' = Append(received, message)
      BY <1>3, <1>4, <2>1, <2>6
    <3>2. Valid(message)
      <4>1. \A i \in DOMAIN message : i < field + 1
        BY <1>3, <1>4, <3>1
      <4> QED
        BY <2>3, <4>1 DEF Valid
    <3>3. /\ received' \in Seq(Messages) /\ Len(received') = Number /\ received'[Number] = message
          /\ \A i \in 1..Len(received) : received'[i] = received[i]
          /\ \A i \in 1..Number : i \in 1..Len(received) \/ i = Number
          /\ Number' = Number + 1 /\ received' # <<>>
      BY <1>3, <3>1 DEF ReceivedInv, Number
    <3>4. ReceivedInv'
      <4>1. Len(received') <= Len(sent')
        BY <1>2, <1>3, <3>3
      <4>2. \A i \in 1..Len(received') : received'[i] = sent'[i] /\ Valid(received'[i])
        BY <1>2, <1>3, <3>2, <3>3 DEF ReceivedInv, message
      <4> QED
        BY <3>3, <4>1, <4>2 DEF ReceivedInv
    <3>5. ReadUpTo' = <<Number + 1, 0, 0>>
      BY <2>4, <3>1, <3>3 DEF ReadUpTo
    <3>6. \A p \in Places : IsByte(p) => (Before(ReadUpTo', p) <=> Before(ReadUpTo, p))
      BY <1>3, <2>4, <3>1, <3>5, NoByteBetween DEF message
    <3>7. StreamInv'
      BY <1>2, <1>3, <3>6, StreamStays
    <3>8. HandlingInv'
      <4>1. Last(received') = message
        BY <3>3 DEF Last
      <4> QED
        BY <2>1, <2>2, <3>1, <3>3, <4>1 DEF HandlingInv
    <3> QED
      BY <1>6, <3>1, <3>4, <3>7, <3>8 DEF FramesInv
  <2> QED
    BY <2>5, <2>6
<1> QED
  BY <1>7, <1>8

(* A message is let go of. *)
LEMMA CloseMessageFrames ==
  ASSUME FramesInv, phase \in {"handling", "reporting"}, CloseMessage, UNCHANGED <<writerVars, stream>>
  PROVE  FramesInv'
<1>1. /\ phase' = "reading" /\ current' = <<>> /\ spools' = {} /\ field' = 0 /\ got' = <<>> /\ received' = received
      /\ sent' = sent /\ writing' = writing /\ part' = part /\ put' = put /\ open' = open /\ stream' = stream
      /\ Number' = Number /\ WrittenUpTo' = WrittenUpTo
  BY DEF FramesInv, HandlingInv, CloseMessage, writerVars, Number, WrittenUpTo
<1>2. /\ field = 0 /\ got = <<>> /\ StreamInv
  BY DEF FramesInv, HandlingInv
<1>3. ReadUpTo' = ReadUpTo /\ \A p : IsByte(p)' <=> IsByte(p)
  BY <1>1, <1>2 DEF ReadUpTo, IsByte
<1>4. StreamInv'
  BY <1>1, <1>2, <1>3, StreamStays
<1>5. WriterInv'
  BY <1>1 DEF FramesInv, WriterInv
<1>6. ReceivedInv'
  BY <1>1 DEF FramesInv, ReceivedInv
<1>7. ReadingInv'
  <2>1. Len(got') = 0 /\ got' \in Seq(Places)
    BY <1>1
  <2>2. 0 <= FieldSize(sent'[Number'], 0)
    BY LengthField
  <2> QED
    BY <1>1, <2>1, <2>2 DEF ReadingInv
<1> QED
  BY <1>1, <1>4, <1>5, <1>6, <1>7 DEF FramesInv

LEMMA SameFrames ==
  ASSUME FramesInv, UNCHANGED <<sent, writing, part, put, open, stream, current, field, got, spools, received>>,
         phase' = phase \/ (phase = "handling" /\ phase' = "reporting")
  PROVE  FramesInv'
<1>1. /\ current' = current /\ spools' = spools /\ field' = field /\ got' = got /\ received' = received
      /\ sent' = sent /\ writing' = writing /\ part' = part /\ put' = put /\ open' = open /\ stream' = stream
      /\ Number' = Number /\ WrittenUpTo' = WrittenUpTo /\ ReadUpTo' = ReadUpTo /\ \A p : IsByte(p)' <=> IsByte(p)
  BY DEF Number, WrittenUpTo, ReadUpTo, IsByte
<1>2. StreamInv => StreamInv'
  BY <1>1, StreamStays
<1>3. WriterInv'
  BY <1>1 DEF FramesInv, WriterInv
<1>4. ReceivedInv'
  BY <1>1 DEF FramesInv, ReceivedInv
<1>5. (ReadingInv => ReadingInv') /\ (HandlingInv => HandlingInv') /\ (EndedInv => EndedInv')
  BY <1>1 DEF ReadingInv, HandlingInv, EndedInv
<1> QED
  BY <1>2, <1>3, <1>4, <1>5 DEF FramesInv

LEMMA FramesStep ==
  ASSUME FramesInv, Next \/ UNCHANGED vars
  PROVE  FramesInv'
<1>1. CASE StartMessage
  <2>1. PICK message \in Messages :
          \/ sent' = Append(sent, message) /\ writing' = TRUE /\ UNCHANGED open
          \/ ~Valid(message) /\ open' = FALSE /\ UNCHANGED <<sent, writing>>
    BY <1>1 DEF StartMessage
  <2>2. open /\ ~writing /\ UNCHANGED <<part, put, stream, readerVars>>
    BY <1>1 DEF StartMessage
  <2>3. CASE sent' = Append(sent, message) /\ writing' = TRUE /\ UNCHANGED open
    BY <2>2, <2>3, StartMessageFrames
  <2>4. CASE ~Valid(message) /\ open' = FALSE /\ UNCHANGED <<sent, writing>>
    BY <2>2, <2>4, CloseFrames
  <2> QED
    BY <2>1, <2>3, <2>4
<1>2. CASE WriteByte
  BY <1>2, WriteByteFrames
<1>3. CASE NextPart
  BY <1>3, NextPartFrames
<1>4. CASE EndWriting
  BY <1>4, CloseFrames DEF EndWriting
<1>5. CASE ReadPiece
  BY <1>5, ReadPieceFrames
<1>6. CASE ReadNothing
  BY <1>6, ReadNothingFrames
<1>7. CASE ReadField
  BY <1>7, ReadFieldFrames
<1>8. CASE Handle
  <2>1. phase = "handling" /\ UNCHANGED <<writerVars, stream>>
    BY <1>8 DEF Handle
  <2>2. CASE CloseMessage
    BY <2>1, <2>2, CloseMessageFrames
  <2>3. CASE phase' = "reporting" /\ UNCHANGED <<current, field, got, spools, received>>
    BY <2>1, <2>3, SameFrames DEF writerVars
  <2> QED
    BY <1>8, <2>2, <2>3 DEF Handle
<1>9. CASE EndReport
  BY <1>9, CloseMessageFrames DEF EndReport
<1>10. CASE Report \/ UNCHANGED vars
  <2>1. UNCHANGED frameVars
    BY <1>10 DEF Report, vars
  <2> QED
    BY <2>1, SameFrames DEF frameVars, writerVars, readerVars
<1> QED
  BY <1>1, <1>2, <1>3, <1>4, <1>5, <1>6, <1>7, <1>8, <1>9, <1>10 DEF Next, FramesNext

(* Writer, pipe and reader agree on every byte. *)
THEOREM FramesInductive == Spec => []FramesInv
<1>1. Init => FramesInv
  BY InitFrames DEF Init
<1>2. FramesInv /\ [Next]_vars => FramesInv'
  BY FramesStep
<1> QED
  BY <1>1, <1>2, PTL DEF Spec

(* However a pipe cuts the bytes, messages arrive as they were sent, in      *)
(* order, and none that exceeds a limit; and reading ends only over such a   *)
(* message or at the end of the stream.                                      *)
THEOREM FramesAligned == Spec => []FramesStayAligned
<1>1. FramesInv => FramesStayAligned
  <2> SUFFICES ASSUME FramesInv PROVE FramesStayAligned
    OBVIOUS
  <2>1. /\ received \in Seq(Messages) /\ sent \in Seq(Messages) /\ Len(received) <= Len(sent)
        /\ Len(received) \in Nat /\ Len(sent) \in Nat
        /\ DOMAIN received = 1..Len(received)
        /\ \A i \in 1..Len(received) : received[i] = sent[i] /\ Valid(received[i])
    BY DEF FramesInv, WriterInv, ReceivedInv
  <2>2. SubSeq(received, 1, Len(received)) = SubSeq(sent, 1, Len(received))
    BY <2>1
  <2>3. IsPrefix(received, sent)
    BY <2>1, <2>2 DEF IsPrefix
  <2>4. phase = "ended" => (stream = <<>> /\ ~open) \/ ~Valid(sent[Len(received) + 1])
    BY DEF FramesInv, EndedInv, Number
  <2>5. phase # "lost"
    BY DEF FramesInv
  <2> QED
    BY <2>1, <2>3, <2>4, <2>5 DEF FramesStayAligned
<1> QED
  BY <1>1, FramesInductive, PTL

(* A spool file is open only for a payload of the message in hand. *)
THEOREM NoSpoolIsLeft == Spec => []SpoolsAreClosed
<1>1. FramesInv => SpoolsAreClosed
  <2> SUFFICES ASSUME FramesInv PROVE SpoolsAreClosed
    OBVIOUS
  <2>1. spools \subseteq DOMAIN current
    BY DEF FramesInv, ReadingInv, HandlingInv, EndedInv
  <2>2. phase = "ended" \/ (phase = "reading" /\ field = 0) => spools = {}
    BY DEF FramesInv, ReadingInv, EndedInv
  <2> QED
    BY <2>1, <2>2 DEF SpoolsAreClosed
<1> QED
  BY <1>1, FramesInductive, PTL

-----------------------------------------------------------------------------
(* The report of a failure: a walk along the causes that repeats none.       *)
Entries == [exception : Exceptions, frames : [shown : Nat, more : BOOLEAN]]

WalkInv ==
  /\ failure \in Failures
  /\ chain \in Seq(Entries) /\ Len(chain) <= MaxExceptions
  /\ at \in Exceptions \cup {0}
  /\ at = IF chain = <<>> THEN 1 ELSE Cause(chain[Len(chain)].exception)
  /\ chain # <<>> => chain[1].exception = 1
  /\ \A i, j \in 1..Len(chain) : chain[i].exception = chain[j].exception => i = j
  /\ \A i \in 1..(Len(chain) - 1) : chain[i + 1].exception = Cause(chain[i].exception)
  /\ ~reporting => /\ chain # <<>>
                   /\ at = 0 \/ Len(chain) = MaxExceptions \/ at \in Seen
                   /\ truncated <=> at # 0

ReportInv == reporting \/ failure # NoFailure => WalkInv

LEMMA CauseType ==
  ASSUME failure \in Failures, NEW e \in Exceptions
  PROVE  Cause(e) \in Exceptions \cup {0}
<1>1. failure[e] \in [cause : Exceptions \cup {0}, context : Exceptions \cup {0}, suppress : BOOLEAN, frames : Nat]
  BY ReporterAssumption
<1>2. failure[e].cause \in Exceptions \cup {0} /\ failure[e].context \in Exceptions \cup {0}
  BY <1>1
<1> QED
  BY <1>2 DEF Cause

LEMMA FramesType ==
  ASSUME failure \in Failures, NEW e \in Exceptions
  PROVE  Frames(e) \in [shown : Nat, more : BOOLEAN]
<1>1. failure[e] \in [cause : Exceptions \cup {0}, context : Exceptions \cup {0}, suppress : BOOLEAN, frames : Nat]
  BY ReporterAssumption
<1>2. failure[e].frames \in Nat
  BY <1>1
<1>3. Min({MaxFrames, failure[e].frames}) \in Nat
  BY <1>2, MinOfTwo, ReporterAssumption
<1>4. (failure[e].frames > MaxFrames) \in BOOLEAN
  OBVIOUS
<1> QED
  BY <1>3, <1>4 DEF Frames

LEMMA RaiseReport ==
  ASSUME NEW f \in Failures, Raise(f)
  PROVE  WalkInv'
<1>1. failure' = f /\ at' = 1 /\ chain' = <<>> /\ reporting' = TRUE /\ Len(chain') = 0
  BY DEF Raise
<1>2. chain' \in Seq(Entries) /\ 0 <= MaxExceptions /\ 1 \in Exceptions
  BY <1>1, ReporterAssumption
<1> QED
  BY <1>1, <1>2 DEF WalkInv

LEMMA WalkReport ==
  ASSUME WalkInv, WalkChain
  PROVE  WalkInv'
<1>1. /\ reporting /\ failure' = failure /\ failure \in Failures
      /\ chain \in Seq(Entries) /\ Len(chain) \in Nat /\ DOMAIN chain = 1..Len(chain)
      /\ at \in Exceptions \cup {0} /\ 0 \notin Exceptions /\ MaxExceptions \in Nat \ {0}
      /\ Len(chain) <= MaxExceptions
  BY ReporterAssumption DEF WalkChain, WalkInv
<1>2. \A e : Cause(e)' = Cause(e)
  <2>1. failure' = failure
    BY <1>1
  <2> QED
    BY <2>1 DEF Cause
<1>3. CASE at = 0 \/ Len(chain) = MaxExceptions \/ at \in Seen
  <2>1. truncated' = (at # 0) /\ reporting' = FALSE /\ chain' = chain /\ at' = at
    BY <1>3 DEF WalkChain
  <2>2. chain # <<>>
    <3> SUFFICES ASSUME chain = <<>> PROVE FALSE
      OBVIOUS
    <3>1. at = 1 /\ Len(chain) = 0
      BY DEF WalkInv
    <3>2. Seen = {}
      BY DEF Seen
    <3>3. MaxExceptions # 0
      BY <1>1
    <3> QED
      BY <1>3, <3>1, <3>2, <3>3
  <2>3. at' = 0 \/ Len(chain') = MaxExceptions \/ at' \in Seen'
    BY <1>3, <2>1 DEF Seen
  <2>4. truncated' <=> at' # 0
    BY <2>1
  <2>5. (at = IF chain = <<>> THEN 1 ELSE Cause(chain[Len(chain)].exception))'
    <3>1. at = IF chain = <<>> THEN 1 ELSE Cause(chain[Len(chain)].exception)
      BY Zenon DEF WalkInv
    <3> QED
      BY <1>2, <2>1, <3>1
  <2>6. (\A i \in 1..(Len(chain) - 1) : chain[i + 1].exception = Cause(chain[i].exception))'
    <3>1. \A i \in 1..(Len(chain) - 1) : chain[i + 1].exception = Cause(chain[i].exception)
      BY Zenon DEF WalkInv
    <3> QED
      BY <1>2, <2>1, <3>1
  <2>7. chain'[1].exception = 1 /\ \A i, j \in 1..Len(chain') : chain'[i].exception = chain'[j].exception => i = j
    BY <2>1, <2>2, Zenon DEF WalkInv
  <2> QED
    BY <1>1, <2>1, <2>2, <2>3, <2>4, <2>5, <2>6, <2>7, Zenon DEF WalkInv
<1>4. CASE ~(at = 0 \/ Len(chain) = MaxExceptions \/ at \in Seen)
  <2> DEFINE n == Len(chain)
             new == [exception |-> at, frames |-> Frames(at)]
  <2>1. chain' = Append(chain, new) /\ at' = Cause(at) /\ reporting'
    <3>1. reporting' = reporting
      BY <1>4, Zenon DEF WalkChain
    <3>2. chain' = Append(chain, new) /\ at' = Cause(at)
      BY <1>4, Zenon DEF WalkChain
    <3> QED
      BY <1>1, <3>1, <3>2, Zenon
  <2>2. at \in Exceptions /\ new \in Entries /\ new.exception = at /\ at' \in Exceptions \cup {0}
    <3>1. at \in Exceptions
      BY <1>1, <1>4
    <3>2. Frames(at) \in [shown : Nat, more : BOOLEAN] /\ Cause(at) \in Exceptions \cup {0}
      BY <1>1, <3>1, FramesType, CauseType
    <3>3. new \in Entries /\ new.exception = at
      BY <3>1, <3>2 DEF Entries
    <3> HIDE DEF new
    <3>4. at' \in Exceptions \cup {0}
      BY <2>1, <3>2
    <3> QED
      BY <3>1, <3>3, <3>4, Zenon
  <2> HIDE DEF new
  <2>3. /\ chain' \in Seq(Entries) /\ Len(chain') = n + 1 /\ chain'[n + 1] = new
        /\ \A i \in 1..n : chain'[i] = chain[i]
        /\ \A i \in 1..(n + 1) : i \in 1..n \/ i = n + 1
        /\ chain' # <<>>
    BY <1>1, <2>1, <2>2
  <2>4. Len(chain') <= MaxExceptions
    <3>1. n # MaxExceptions
      BY <1>4
    <3>2. n \in Nat /\ MaxExceptions \in Nat /\ n <= MaxExceptions
      BY <1>1, Zenon
    <3>3. Len(chain') = n + 1
      BY <2>3, Zenon
    <3> HIDE DEF n
    <3> QED
      BY <3>1, <3>2, <3>3
  <2>5. \A i \in 1..n : chain[i].exception # at
    BY <1>1, <1>4, Zenon DEF Seen
  <2>6. chain'[1].exception = 1
    <3>1. CASE n = 0
      <4>1. chain = <<>> /\ at = 1
        BY <1>1, <3>1 DEF WalkInv
      <4> QED
        BY <2>2, <2>3, <3>1, <4>1
    <3>2. CASE n # 0
      <4>1. 1 \in 1..n /\ chain # <<>>
        BY <1>1, <3>2
      <4> QED
        BY <2>3, <4>1 DEF WalkInv
    <3> QED
      BY <3>1, <3>2
  <2>7. ASSUME NEW i \in 1..(n + 1), NEW j \in 1..(n + 1), chain'[i].exception = chain'[j].exception
        PROVE  i = j
    <3>1. CASE i \in 1..n /\ j \in 1..n
      BY <2>3, <2>7, <3>1 DEF WalkInv
    <3>2. CASE i \in 1..n /\ j = n + 1
      BY <2>2, <2>3, <2>5, <2>7, <3>2
    <3>3. CASE i = n + 1 /\ j \in 1..n
      BY <2>2, <2>3, <2>5, <2>7, <3>3
    <3>4. CASE i = n + 1 /\ j = n + 1
      BY <3>4
    <3> QED
      BY <2>3, <3>1, <3>2, <3>3, <3>4
  <2>8. ASSUME NEW i \in 1..((n + 1) - 1) PROVE chain'[i + 1].exception = Cause(chain'[i].exception)
    <3>1. i \in 1..n
      BY <1>1
    <3>2. CASE i = n
      <4>1. chain # <<>> /\ chain'[i] = chain[n] /\ chain'[i + 1] = new
        BY <1>1, <2>3, <3>1, <3>2
      <4> QED
        BY <2>2, <4>1 DEF WalkInv
    <3>3. CASE i # n
      <4>1. i \in 1..(n - 1) /\ i + 1 \in 1..n
        <5>1. n \in Nat
          BY <1>1
        <5> HIDE DEF n
        <5> QED
          BY <3>1, <3>3, <5>1
      <4> QED
        BY <2>3, <3>1, <4>1 DEF WalkInv
    <3> QED
      BY <3>2, <3>3
  <2>9. at' = Cause(chain'[Len(chain')].exception)
    BY <2>1, <2>2, <2>3
  <2>10. at' = (IF chain = <<>> THEN 1 ELSE Cause(chain[Len(chain)].exception))'
    BY <1>2, <2>3, <2>9
  <2>11. (\A i \in 1..(Len(chain) - 1) : chain[i + 1].exception = Cause(chain[i].exception))'
    BY <1>2, <2>3, <2>8
  <2>12. \A i, j \in 1..Len(chain') : chain'[i].exception = chain'[j].exception => i = j
    BY <2>3, <2>7
  <2>13. failure' \in Failures /\ at' \in Exceptions \cup {0} /\ chain' \in Seq(Entries)
    BY <1>1, <2>1, <2>2, <2>3, Zenon
  <2>14. (~reporting => /\ chain # <<>>
                        /\ at = 0 \/ Len(chain) = MaxExceptions \/ at \in Seen
                        /\ truncated <=> at # 0)'
    BY <2>1, Zenon
  <2> HIDE DEF n
  <2> QED
    BY <2>4, <2>6, <2>10, <2>11, <2>12, <2>13, <2>14, Zenon DEF WalkInv
<1> QED
  BY <1>3, <1>4

LEMMA ReportStep ==
  ASSUME ReportInv, Next \/ UNCHANGED vars
  PROVE  ReportInv'
<1>1. CASE UNCHANGED reporterVars
  BY <1>1 DEF reporterVars, ReportInv, WalkInv, Seen, Cause
<1>2. CASE Handle
  <2>1. CASE \E f \in Failures : Raise(f)
    BY <2>1, RaiseReport DEF ReportInv
  <2> QED
    BY <1>1, <1>2, <2>1 DEF Handle
<1>3. CASE Report
  BY <1>3, WalkReport DEF Report, ReportInv, WalkChain
<1>4. CASE EndReport
  BY <1>4 DEF EndReport, ReportInv
<1> QED
  BY <1>1, <1>2, <1>3, <1>4 DEF Next, vars

(* A report is a walk along the chain of the failure, from the failure on. *)
THEOREM ReportInductive == Spec => []ReportInv
<1>1. Init => ReportInv
  BY DEF Init, ReporterInit, ReportInv
<1>2. ReportInv /\ [Next]_vars => ReportInv'
  BY ReportStep
<1> QED
  BY <1>1, <1>2, PTL DEF Spec

-----------------------------------------------------------------------------
(* The report against all of the chain. *)
LEMMA SeenSize ==
  ASSUME WalkInv
  PROVE  /\ Seen \subseteq Exceptions /\ IsFiniteSet(Seen) /\ Cardinality(Seen) = Len(chain)
         /\ Cardinality(Exceptions) \in Nat /\ Len(chain) <= Cardinality(Exceptions)
         /\ \A e \in Seen : e \in Exceptions /\ \E i \in 1..Len(chain) : chain[i].exception = e
         /\ \A i \in 1..Len(chain) : chain[i].exception \in Seen
<1> DEFINE n == Len(chain)
           f == [i \in 1..n |-> chain[i].exception]
<1>1. chain \in Seq(Entries) /\ n \in Nat /\ DOMAIN chain = 1..n
  BY DEF WalkInv
<1>2. \A i \in 1..n : chain[i].exception \in Exceptions /\ chain[i].exception \in Seen
  <2> TAKE i \in 1..n
  <2>1. chain[i] \in Entries
    BY <1>1
  <2> QED
    BY <1>1, <2>1 DEF Entries, Seen
<1>3. \A e \in Seen : \E i \in 1..n : chain[i].exception = e
  BY <1>1 DEF Seen
<1>4. Seen \subseteq Exceptions
  BY <1>2, <1>3
<1>5. f \in [1..n -> Seen]
  BY <1>2
<1>6. IsInjective(f)
  BY DEF WalkInv, IsInjective
<1>7. \A e \in Seen : \E i \in 1..n : f[i] = e
  BY <1>3
<1> HIDE DEF f
<1>8. ExistsBijection(1..n, Seen)
  BY <1>5, <1>6, <1>7 DEF ExistsBijection, Bijection, Injection, Surjection
<1>9. IsFiniteSet(1..n) /\ Cardinality(1..n) = n
  <2>1. 1 \in Int /\ n \in Int
    BY <1>1
  <2>2. IsFiniteSet(1..n) /\ Cardinality(1..n) = IF 1 > n THEN 0 ELSE n - 1 + 1
    BY <2>1, FS_Interval
  <2> QED
    BY <1>1, <2>2
<1>10. IsFiniteSet(Seen) /\ Cardinality(Seen) = n
  BY <1>8, <1>9, FS_Bijection
<1>11. Cardinality(Exceptions) \in Nat /\ Cardinality(Seen) <= Cardinality(Exceptions)
  BY <1>4, FS_Subset, FS_CardinalityType, ReporterAssumption
<1> QED
  BY <1>2, <1>3, <1>4, <1>10, <1>11

LEMMA ReportedHaveLed ==
  ASSUME WalkInv, chain # <<>>
  PROVE  Seen \subseteq Led /\ Led \subseteq Exceptions /\ IsFiniteSet(Led)
<1> DEFINE n == Len(chain)
<1>1. n \in Nat /\ \A i \in 1..n : chain[i].exception \in Exceptions
  BY SeenSize DEF WalkInv
<1>2. ASSUME NEW e \in Seen PROVE e \in Led
  <2>1. PICK m \in 1..n : chain[m].exception = e
    BY SeenSize
  <2> DEFINE path == [i \in 1..m |-> chain[i].exception]
  <2>2. path \in [1..m -> Exceptions] /\ m \in Nat /\ 1 \in 1..m /\ m \in 1..m
    BY <1>1
  <2>3. m \in 0..Cardinality(Exceptions)
    BY <1>1, SeenSize
  <2>4. path \in BoundedSeq(Exceptions, Cardinality(Exceptions))
    <3> HIDE DEF path
    <3> QED BY <2>2, <2>3 DEF BoundedSeq, SeqOf
  <2>5. path \in Seq(Exceptions) /\ Len(path) = m /\ path # <<>>
    BY <2>2
  <2>6. path[1] = 1 /\ path[m] = e
    BY <2>1, <2>2 DEF WalkInv
  <2>7. ASSUME NEW i \in 1..(m - 1) PROVE path[i + 1] = Cause(path[i])
    <3>1. i \in 1..m /\ i + 1 \in 1..m /\ i \in 1..(n - 1)
      BY <1>1
    <3> QED
      BY <3>1 DEF WalkInv
  <2>8. e \in Exceptions
    BY SeenSize
  <2> HIDE DEF path
  <2> QED
    BY <2>4, <2>5, <2>6, <2>7, <2>8 DEF Led
<1>3. Led \subseteq Exceptions
  BY DEF Led
<1>4. IsFiniteSet(Led)
  BY <1>3, FS_Subset, ReporterAssumption
<1> QED
  BY <1>2, <1>3, <1>4

(* When the walk came to an end or back to an exception it has, it has all.  *)
LEMMA ClosedReportIsAll ==
  ASSUME WalkInv, chain # <<>>, at = 0 \/ at \in Seen
  PROVE  Led = Seen
<1> DEFINE n == Len(chain)
<1>1. n \in Nat /\ n >= 1 /\ 0 \notin Exceptions
  BY ReporterAssumption DEF WalkInv
<1>2. ASSUME NEW e \in Led PROVE e \in Seen
  <2>1. PICK path \in BoundedSeq(Exceptions, Cardinality(Exceptions)) :
          /\ path # <<>> /\ path[1] = 1 /\ path[Len(path)] = e
          /\ \A i \in 1..(Len(path) - 1) : path[i + 1] = Cause(path[i])
    BY DEF Led
  <2>2. PICK m \in 0..Cardinality(Exceptions) : path \in [1..m -> Exceptions]
    BY <2>1 DEF BoundedSeq, SeqOf
  <2>3. m \in Nat
    BY <2>2, SeenSize
  <2>4. path \in Seq(Exceptions) /\ Len(path) = m
    BY <2>2, <2>3
  <2>5. m >= 1
    BY <2>1, <2>3, <2>4
  <2> DEFINE T == {i \in 1..m : path[i] \notin Seen}
  <2>6. T = {}
    <3> SUFFICES ASSUME T # {} PROVE FALSE
      OBVIOUS
    <3>1. T \subseteq Nat
      OBVIOUS
    <3>2. PICK j \in T : \A i \in T : j <= i
      <4> HIDE DEF T
      <4> QED BY <3>1, LeastExists
    <3>3. j \in 1..m /\ path[j] \notin Seen /\ path[j] \in Exceptions
      BY <2>2
    <3>4. CASE j = 1
      <4>1. 1 \in 1..n
        BY <1>1
      <4> QED
        BY <2>1, <3>3, <3>4, <4>1, SeenSize DEF WalkInv
    <3>5. CASE j # 1
      <4>1. j - 1 \in 1..m /\ j - 1 \in 1..(m - 1) /\ (j - 1) + 1 = j /\ j - 1 < j
        BY <2>3, <3>3, <3>5
      <4>2. path[j - 1] \in Seen /\ path[j] = Cause(path[j - 1])
        <5>1. j - 1 \notin T
          BY <3>1, <3>2, <4>1
        <5> QED
          BY <2>1, <2>4, <4>1, <5>1
      <4>3. PICK i \in 1..n : chain[i].exception = path[j - 1]
        BY <4>2, SeenSize
      <4>4. CASE i = n
        <5>1. path[j] = at
          BY <4>2, <4>3, <4>4 DEF WalkInv
        <5> QED
          BY <1>1, <3>3, <5>1
      <4>5. CASE i # n
        <5>1. i \in 1..(n - 1) /\ i + 1 \in 1..n
          BY <1>1, <4>5
        <5>2. chain[i + 1].exception = Cause(chain[i].exception)
          BY <5>1 DEF WalkInv
        <5>3. path[j] = chain[i + 1].exception
          BY <4>2, <4>3, <5>2
        <5> QED
          BY <3>3, <5>1, <5>3, SeenSize
      <4> QED
        BY <4>4, <4>5
    <3> QED
      BY <3>4, <3>5
  <2>7. m \in 1..m
    BY <2>3, <2>5
  <2> QED
    BY <2>1, <2>4, <2>6, <2>7
<1> QED
  BY <1>2, ReportedHaveLed

LEMMA ReportIsTrue ==
  ASSUME WalkInv, ~reporting
  PROVE  /\ chain # <<>> /\ chain[1].exception = 1
         /\ IsInjective([i \in DOMAIN chain |-> chain[i].exception])
         /\ \A i \in 1..(Len(chain) - 1) : chain[i + 1].exception = Cause(chain[i].exception)
         /\ Len(chain) = Min({MaxExceptions, Cardinality(Led)})
         /\ truncated <=> (Seen # Led \/ \A e \in Led : Cause(e) # 0)
<1> DEFINE n == Len(chain)
<1>1. /\ chain # <<>> /\ chain \in Seq(Entries) /\ n \in Nat /\ n >= 1 /\ DOMAIN chain = 1..n
      /\ MaxExceptions \in Nat /\ n <= MaxExceptions
  BY ReporterAssumption DEF WalkInv
<1>2. /\ chain[1].exception = 1
      /\ at = Cause(chain[n].exception)
      /\ truncated <=> at # 0
      /\ at = 0 \/ n = MaxExceptions \/ at \in Seen
  <2>1. ~reporting => (truncated <=> at # 0)
    BY ZenonT(30) DEF WalkInv
  <2>2. chain[1].exception = 1 /\ at = Cause(chain[n].exception)
    BY <1>1 DEF WalkInv
  <2>3. at = 0 \/ n = MaxExceptions \/ at \in Seen
    BY Zenon DEF WalkInv
  <2> QED
    BY <2>1, <2>2, <2>3
<1>3. IsInjective([i \in DOMAIN chain |-> chain[i].exception])
  <2>1. \A i, j \in 1..n : chain[i].exception = chain[j].exception => i = j
    BY Zenon DEF WalkInv
  <2> QED
    BY <1>1, <2>1 DEF IsInjective
<1>4. /\ Seen \subseteq Led /\ IsFiniteSet(Led) /\ Cardinality(Led) \in Nat
      /\ n <= Cardinality(Led) /\ Cardinality(Seen) = n
  BY <1>1, ReportedHaveLed, SeenSize, FS_Subset, FS_CardinalityType
<1>5. \A i \in 1..n : chain[i].exception \in Seen
  BY SeenSize
<1>6. n = Min({MaxExceptions, Cardinality(Led)})
  <2>1. /\ Min({MaxExceptions, Cardinality(Led)}) <= MaxExceptions
        /\ Min({MaxExceptions, Cardinality(Led)}) <= Cardinality(Led)
        /\ Min({MaxExceptions, Cardinality(Led)}) \in {MaxExceptions, Cardinality(Led)}
    BY <1>1, <1>4, MinOfTwo
  <2>2. CASE n = MaxExceptions
    <3> HIDE DEF n
    <3> QED BY <1>1, <1>4, <2>1, <2>2
  <2>3. CASE at = 0 \/ at \in Seen
    <3>1. Cardinality(Led) = n
      BY <1>1, <1>4, <2>3, ClosedReportIsAll
    <3> HIDE DEF n
    <3> QED BY <1>1, <1>4, <2>1, <3>1
  <2> QED
    BY <1>2, <2>2, <2>3
<1>7. truncated <=> (Seen # Led \/ \A e \in Led : Cause(e) # 0)
  <2>1. CASE at = 0
    <3>1. Led = Seen
      BY <1>1, <2>1, ClosedReportIsAll
    <3>4. ~truncated
      BY <1>2, <2>1, Zenon
    <3>2. n \in 1..n
      BY <1>1
    <3>3. chain[n].exception \in Led
      BY <1>5, <3>1, <3>2
    <3>5. Cause(chain[n].exception) = 0
      BY <1>2, <2>1
    <3> QED
      BY <3>1, <3>3, <3>4, <3>5
  <2>2. CASE at # 0 /\ at \in Seen
    <3>1. Led = Seen /\ truncated
      <4>1. Led = Seen
        BY <1>1, <2>2, ClosedReportIsAll
      <4> QED
        BY <1>2, <2>2, <4>1, Zenon
    <3>2. ASSUME NEW e \in Led PROVE Cause(e) # 0
      <4>1. PICK i \in 1..n : chain[i].exception = e
        BY <3>1, SeenSize
      <4>2. CASE i = n
        BY <1>2, <2>2, <4>1, <4>2
      <4>3. CASE i # n
        <5>1. i \in 1..(n - 1) /\ i + 1 \in 1..n
          <6>1. n \in Nat
            BY <1>1
          <6> HIDE DEF n
          <6> QED
            BY <4>1, <4>3, <6>1
        <5>2. Cause(e) = chain[i + 1].exception /\ chain[i + 1].exception \in Exceptions
          BY <1>5, <4>1, <5>1, SeenSize DEF WalkInv
        <5> QED
          BY <5>2, ReporterAssumption
      <4> QED
        BY <4>2, <4>3
    <3> QED
      BY <3>1, <3>2
  <2>3. CASE at # 0 /\ at \notin Seen
    <3>1. truncated
      BY <1>2, <2>3, Zenon
    <3>2. ASSUME Seen = Led, NEW e \in Led PROVE Cause(e) # 0
      <4>1. PICK i \in 1..n : chain[i].exception = e
        BY <3>2, SeenSize
      <4>2. CASE i = n
        BY <1>2, <2>3, <4>1, <4>2
      <4>3. CASE i # n
        <5>1. i \in 1..(n - 1) /\ i + 1 \in 1..n
          <6>1. n \in Nat
            BY <1>1
          <6> HIDE DEF n
          <6> QED
            BY <4>1, <4>3, <6>1
        <5>2. Cause(e) = chain[i + 1].exception /\ chain[i + 1].exception \in Exceptions
          BY <1>5, <4>1, <5>1, SeenSize DEF WalkInv
        <5> QED
          BY <5>2, ReporterAssumption
      <4> QED
        BY <4>2, <4>3
    <3> QED
      BY <3>1, <3>2
  <2> QED
    BY <2>1, <2>2, <2>3
<1>8. \A i \in 1..(Len(chain) - 1) : chain[i + 1].exception = Cause(chain[i].exception)
  BY Zenon DEF WalkInv
<1> QED
  BY <1>1, <1>2, <1>3, <1>6, <1>7, <1>8, Zenon

(* A report shows the exceptions that led to a failure once each, in their   *)
(* order, as many as it may, and says when that is not the whole story.      *)
THEOREM ChainReported == Spec => []ChainIsReportedOnce
<1>1. ReportInv => ChainIsReportedOnce
  BY ReportIsTrue DEF ReportInv, ChainIsReportedOnce
<1> QED
  BY <1>1, ReportInductive, PTL
=============================================================================
