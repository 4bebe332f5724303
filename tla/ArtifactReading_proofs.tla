----------------------- MODULE ArtifactReading_proofs -----------------------
(***************************************************************************)
(* Proofs about ArtifactWriter and ArtifactReading: for every document,    *)
(* every chunk size and every window.                                      *)
(***************************************************************************)
EXTENDS ArtifactReading, SequenceTheorems, FiniteSetTheorems, WellFoundedInduction, TLAPS

(* What is not true of every chunk size the constructor accepts: the overlap *)
(* leaves room for a newline in the second half of a chunk and for a         *)
(* character that is cut. The sizes the program uses are 6,000 and 600.      *)
ModestOverlap == ChunkBytes >= 8 /\ OverlapBytes <= ChunkBytes \div 2 - 3

-----------------------------------------------------------------------------
(* Numbers: the least and the greatest of a set. *)
LEMMA LeastExists ==
  ASSUME NEW T, T \subseteq Nat, T # {}
  PROVE  \E x \in T : \A y \in T : x <= y
<1> DEFINE R == OpToRel(<, Nat)
<1>1. IsWellFoundedOn(R, Nat)
  BY NatLessThanWellFounded
<1>2. \A y, x \in Nat : <<y, x>> \in R <=> y < x
  BY DEF OpToRel
<1> HIDE DEF R
<1>3. PICK x \in T : \A y \in T : ~ (<<y, x>> \in R)
  BY <1>1, WFMin
<1>4. \A y \in T : y \in Nat /\ x \in Nat /\ ~ (y < x)
  BY <1>2, <1>3
<1>5. \A y \in T : x <= y
  BY <1>4
<1> QED
  BY <1>5

LEMMA LeastOf ==
  ASSUME NEW T, T \subseteq Nat, T # {}
  PROVE  Least(T) \in T /\ \A y \in T : Least(T) <= y
BY LeastExists DEF Least

LEMMA GreatestOf ==
  ASSUME NEW T, T \subseteq Nat, T # {}, NEW n \in Nat, \A y \in T : y <= n
  PROVE  Greatest(T) \in T /\ \A y \in T : y <= Greatest(T)
<1> DEFINE U == {k \in Nat : n - k \in T}
<1>1. \A y \in T : n - y \in Nat /\ n - (n - y) = y
  OBVIOUS
<1>2. \A y \in T : n - y \in U
  BY <1>1
<1>3. U \subseteq Nat /\ U # {}
  BY <1>2
<1>4. PICK u \in U : \A y \in U : u <= y
  <2> HIDE DEF U
  <2> QED BY <1>3, LeastExists
<1>5. n - u \in T /\ \A y \in T : y <= n - u
  BY <1>1, <1>2, <1>4
<1> QED
  BY <1>5 DEF Greatest

-----------------------------------------------------------------------------
(* Text: what stays true of a text when another one is put behind it. *)
CutIn(s, o) == o = 0 \/ o = Len(s) \/ s[o + 1] # "cont"

LEMMA Grown ==
  ASSUME NEW s, IsUtf8(s), NEW t, IsUtf8(t)
  PROVE  /\ IsUtf8(s \o t)
         /\ Len(s \o t) = Len(s) + Len(t)
         /\ \A o \in 0..Len(s) : CutIn(s, o) => CutIn(s \o t, o)
         /\ CutIn(s \o t, Len(s))
<1>1. s \in Seq(Bytes) /\ t \in Seq(Bytes) /\ Len(s) \in Nat /\ Len(t) \in Nat
  BY DEF IsUtf8
<1>2. /\ s \o t \in Seq(Bytes)
      /\ Len(s \o t) = Len(s) + Len(t)
      /\ \A i \in 1..Len(s) : (s \o t)[i] = s[i]
      /\ \A i \in 1..Len(t) : (s \o t)[Len(s) + i] = t[i]
  BY <1>1
<1>3. t # <<>> => Len(t) >= 1 /\ t[1] # "cont"
  BY <1>1 DEF IsUtf8
<1>4. \A i \in (Len(s) + 1)..(Len(s) + Len(t)) : i - Len(s) \in 1..Len(t) /\ (s \o t)[i] = t[i - Len(s)]
  <2> TAKE i \in (Len(s) + 1)..(Len(s) + Len(t))
  <2>1. i - Len(s) \in 1..Len(t) /\ Len(s) + (i - Len(s)) = i
    BY <1>1
  <2> QED
    BY <1>2, <2>1
<1> DEFINE u == s \o t
<1> HIDE DEF u
<1>5. ASSUME NEW i \in 1..(Len(s) + Len(t)) PROVE \E j \in 1..i : i - j <= 3 /\ u[j] # "cont"
  <2>1. CASE i <= Len(s)
    <3>1. PICK j \in 1..i : i - j <= 3 /\ s[j] # "cont"
      BY <1>1, <2>1 DEF IsUtf8
    <3>2. u[j] = s[j]
      BY <1>1, <1>2, <2>1 DEF u
    <3> QED
      BY <3>1, <3>2
  <2>2. CASE i > Len(s)
    <3>1. i - Len(s) \in 1..Len(t)
      BY <1>1, <2>2
    <3>2. PICK j \in 1..(i - Len(s)) : (i - Len(s)) - j <= 3 /\ t[j] # "cont"
      BY <3>1 DEF IsUtf8
    <3>3. Len(s) + j \in 1..i /\ i - (Len(s) + j) <= 3 /\ j \in 1..Len(t)
      BY <1>1, <3>1, <3>2
    <3>4. u[Len(s) + j] = t[j]
      BY <1>2, <3>3 DEF u
    <3> QED
      BY <3>2, <3>3, <3>4
  <2> QED
    BY <1>1, <2>1, <2>2
<1>6. ASSUME NEW i \in 2..(Len(s) + Len(t)), u[i] = "cont" PROVE u[i - 1] \in {"other", "cont"}
  <2>1. CASE i <= Len(s)
    <3>1. i \in 2..Len(s) /\ i - 1 \in 1..Len(s)
      BY <1>1, <2>1
    <3>2. u[i] = s[i] /\ u[i - 1] = s[i - 1]
      BY <1>2, <3>1 DEF u
    <3> QED
      BY <1>6, <3>1, <3>2 DEF IsUtf8
  <2>2. CASE i = Len(s) + 1
    BY <1>1, <1>2, <1>3, <1>6, <2>2 DEF u
  <2>3. CASE i > Len(s) + 1
    <3>1. /\ i - Len(s) \in 2..Len(t) /\ i - 1 \in (Len(s) + 1)..(Len(s) + Len(t))
          /\ i \in (Len(s) + 1)..(Len(s) + Len(t)) /\ (i - 1) - Len(s) = (i - Len(s)) - 1
      BY <1>1, <2>3
    <3>2. u[i] = t[i - Len(s)] /\ u[i - 1] = t[(i - Len(s)) - 1]
      BY <1>4, <3>1 DEF u
    <3> QED
      BY <1>6, <3>1, <3>2 DEF IsUtf8
  <2> QED
    BY <1>1, <2>1, <2>2, <2>3
<1>7. IsUtf8(u) /\ Len(u) = Len(s) + Len(t)
  BY <1>1, <1>2, <1>5, <1>6 DEF IsUtf8, u
<1>8. ASSUME NEW o \in 0..Len(s), CutIn(s, o) \/ o = Len(s) PROVE CutIn(u, o)
  <2>1. CASE o < Len(s)
    <3>1. o + 1 \in 1..Len(s)
      BY <1>1, <2>1
    <3>2. u[o + 1] = s[o + 1]
      BY <1>2, <3>1 DEF u
    <3> QED
      BY <1>1, <1>8, <2>1, <3>2 DEF CutIn
  <2>2. CASE o = Len(s)
    <3>1. CASE t = <<>>
      BY <1>1, <1>7, <2>2, <3>1 DEF CutIn
    <3>2. CASE t # <<>>
      BY <1>1, <1>2, <1>3, <2>2, <3>2 DEF CutIn, u
    <3> QED
      BY <3>1, <3>2
  <2> QED
    BY <1>1, <2>1, <2>2
<1> QED
  BY <1>1, <1>7, <1>8 DEF u

LEMMA SliceKept ==
  ASSUME NEW s, IsUtf8(s), NEW t, IsUtf8(t), NEW m \in Nat, NEW n \in 0..Len(s)
  PROVE  SubSeq(s \o t, m + 1, n) = SubSeq(s, m + 1, n)
<1>1. s \in Seq(Bytes) /\ t \in Seq(Bytes) /\ Len(s) \in Nat /\ n \in Int /\ m + 1 \in Int
  BY DEF IsUtf8
<1>2. CASE n < m + 1
  BY <1>1, <1>2, SubSeqEmpty
<1>3. CASE n >= m + 1
  BY <1>1, <1>3, SubSeqOfConcat1
<1> QED
  BY <1>1, <1>2, <1>3

LEMMA SliceAdded ==
  ASSUME NEW s, IsUtf8(s), NEW t, IsUtf8(t)
  PROVE  SubSeq(s \o t, Len(s) + 1, Len(s) + Len(t)) = t
<1>1. s \in Seq(Bytes) /\ t \in Seq(Bytes) /\ Len(s) \in Nat /\ Len(t) \in Nat
  BY DEF IsUtf8
<1>2. CASE t = <<>>
  BY <1>1, <1>2, SubSeqEmpty
<1>3. CASE t # <<>>
  <2>1. Len(t) >= 1
    BY <1>1, <1>3
  <2>2. SubSeq(s \o t, Len(s) + 1, Len(s) + Len(t)) = SubSeq(t, (Len(s) + 1) - Len(s), (Len(s) + Len(t)) - Len(s))
    BY <1>1, <2>1, SubSeqOfConcat2
  <2>3. (Len(s) + 1) - Len(s) = 1 /\ (Len(s) + Len(t)) - Len(s) = Len(t)
    BY <1>1
  <2> QED
    BY <1>1, <2>2, <2>3, SubSeqFull
<1> QED
  BY <1>2, <1>3

-----------------------------------------------------------------------------
(* The text and its ranges. The types, and how far the writer is. *)
Progress ==
  /\ doc \in Documents
  /\ pc \in {"container", "block", "chunk", "done"}
  /\ c \in 1..(Len(doc) + 1) /\ b \in Nat \ {0}
  /\ IsUtf8(canonical)
  /\ blocks \in Seq(Seq(Ranges)) /\ containers \in Seq(Ranges)
  /\ Len(blocks) = Len(containers)
  /\ pc = "block" => Len(containers) = c /\ c <= Len(doc) /\ b <= Len(doc[c]) + 1 /\ Len(blocks[c]) = b - 1
  /\ pc # "block" => Len(containers) = c - 1
  /\ pc \in {"chunk", "done"} => c = Len(doc) + 1

(* The ranges that are written lie in a text and read back from it. *)
BlocksIn(text) ==
  \A k \in 1..Len(blocks) : \A i \in 1..Len(blocks[k]) :
    /\ blocks[k][i].to <= Len(text)
    /\ SubSeq(text, blocks[k][i].from + 1, blocks[k][i].to) = doc[k][i]
ContainersIn(text) ==
  \A k \in 1..Len(containers) :
    /\ containers[k].from <= containers[k].to /\ containers[k].to <= Len(text)
    /\ CutIn(text, containers[k].from) /\ CutIn(text, containers[k].to)
SeparatorsIn(text) ==
  \A k \in 1..(Len(containers) - 1) :
    /\ containers[k + 1].from <= Len(text)
    /\ SubSeq(text, containers[k].to + 1, containers[k + 1].from) = Separator

(* The containers lie in order, with their blocks; a container that is open  *)
(* has no end yet.                                                           *)
InOrder ==
  /\ \A k, l \in 1..Len(containers) : k < l => containers[k].to <= containers[l].from
  /\ \A k \in 1..Len(blocks) : \A i \in 1..Len(blocks[k]) :
       /\ containers[k].from <= blocks[k][i].from
       /\ k < c => blocks[k][i].to <= containers[k].to
  /\ pc # "block" /\ c > 1 => containers[c - 1].to = Len(canonical)

ContentInv ==
  /\ Progress
  /\ BlocksIn(canonical) /\ ContainersIn(canonical) /\ SeparatorsIn(canonical)
  /\ InOrder

LEMMA RangesGrow ==
  ASSUME Progress, NEW s, IsUtf8(s), NEW t, IsUtf8(t),
         BlocksIn(s), ContainersIn(s), SeparatorsIn(s)
  PROVE  BlocksIn(s \o t) /\ ContainersIn(s \o t) /\ SeparatorsIn(s \o t)
<1>1. Len(s) \in Nat /\ Len(t) \in Nat /\ Len(s \o t) = Len(s) + Len(t)
  BY Grown DEF IsUtf8
<1>2. \A k \in 1..Len(blocks) : \A i \in 1..Len(blocks[k]) : blocks[k][i] \in Ranges
  BY DEF Progress
<1>3. \A k \in 1..Len(containers) : containers[k] \in Ranges
  BY DEF Progress
<1>4. BlocksIn(s \o t)
  <2> SUFFICES ASSUME NEW k \in 1..Len(blocks), NEW i \in 1..Len(blocks[k])
               PROVE  /\ blocks[k][i].to <= Len(s \o t)
                      /\ SubSeq(s \o t, blocks[k][i].from + 1, blocks[k][i].to) = doc[k][i]
    BY DEF BlocksIn
  <2>1. blocks[k][i].from \in Nat /\ blocks[k][i].to \in 0..Len(s)
    BY <1>1, <1>2 DEF BlocksIn, Ranges
  <2>2. SubSeq(s \o t, blocks[k][i].from + 1, blocks[k][i].to) = SubSeq(s, blocks[k][i].from + 1, blocks[k][i].to)
    BY <2>1, SliceKept
  <2>3. SubSeq(s, blocks[k][i].from + 1, blocks[k][i].to) = doc[k][i]
    BY DEF BlocksIn
  <2>4. blocks[k][i].to <= Len(s \o t)
    BY <1>1, <2>1
  <2> QED
    BY <2>2, <2>3, <2>4
<1>5. ContainersIn(s \o t)
  <2> SUFFICES ASSUME NEW k \in 1..Len(containers)
               PROVE  /\ containers[k].from <= containers[k].to /\ containers[k].to <= Len(s \o t)
                      /\ CutIn(s \o t, containers[k].from) /\ CutIn(s \o t, containers[k].to)
    BY DEF ContainersIn
  <2>1. containers[k].from \in 0..Len(s) /\ containers[k].to \in 0..Len(s)
    BY <1>1, <1>3 DEF ContainersIn, Ranges
  <2> QED
    BY <1>1, <2>1, Grown DEF ContainersIn
<1>6. SeparatorsIn(s \o t)
  <2> SUFFICES ASSUME NEW k \in 1..(Len(containers) - 1)
               PROVE  /\ containers[k + 1].from <= Len(s \o t)
                      /\ SubSeq(s \o t, containers[k].to + 1, containers[k + 1].from) = Separator
    BY DEF SeparatorsIn
  <2>1. k \in 1..Len(containers) /\ k + 1 \in 1..Len(containers)
    BY DEF Progress
  <2>2. containers[k].to \in Nat /\ containers[k + 1].from \in 0..Len(s)
    BY <1>1, <1>3, <2>1 DEF SeparatorsIn, Ranges
  <2>3. SubSeq(s \o t, containers[k].to + 1, containers[k + 1].from) = SubSeq(s, containers[k].to + 1, containers[k + 1].from)
    BY <2>2, SliceKept
  <2>4. containers[k + 1].from <= Len(s \o t)
    <3> DEFINE x == containers[k + 1].from
    <3>1. x \in 0..Len(s)
      BY <2>2
    <3> HIDE DEF x
    <3>2. x <= Len(s \o t)
      BY <1>1, <3>1
    <3> QED
      BY <3>2 DEF x
  <2>5. SubSeq(s, containers[k].to + 1, containers[k + 1].from) = Separator
    BY Zenon DEF SeparatorsIn
  <2> QED
    BY <2>3, <2>4, <2>5, Zenon
<1> QED
  BY <1>4, <1>5, <1>6

LEMMA InitContent == Init => ContentInv
<1> SUFFICES ASSUME Init PROVE ContentInv
  OBVIOUS
<1>1. doc \in Seq(Seq(Seq(Bytes)))
  BY DocumentAssumption DEF Init
<1>2. Len(doc) \in Nat /\ canonical = <<>> /\ blocks = <<>> /\ containers = <<>> /\ Len(canonical) = 0
  BY <1>1 DEF Init
<1>3. Progress
  BY <1>1, <1>2 DEF Init, Progress, IsUtf8
<1> QED
  BY <1>2, <1>3 DEF Init, ContentInv, BlocksIn, ContainersIn, SeparatorsIn, InOrder

LEMMA SeparatorText == IsUtf8(Separator) /\ Len(Separator) = 3
<1>1. /\ Separator \in Seq(Bytes) /\ Len(Separator) = 3
      /\ Separator[1] = "nl" /\ Separator[2] = "other" /\ Separator[3] = "nl"
  BY DEF Separator, Bytes
<1>2. \A i \in 1..3 : Separator[i] # "cont"
  BY <1>1
<1> QED
  BY <1>1, <1>2 DEF IsUtf8

LEMMA StartContainerContent ==
  ASSUME ContentInv, StartContainer
  PROVE  ContentInv'
<1> USE DEF ContentInv
<1>1. /\ pc = "container" /\ pc' = "block" /\ b' = 1 /\ doc' = doc /\ c' = c /\ c <= Len(doc)
      /\ canonical' = IF c > 1 THEN canonical \o Separator ELSE canonical
      /\ blocks' = Append(blocks, <<>>)
      /\ containers' = Append(containers, [from |-> Len(canonical'), to |-> Len(canonical')])
  BY DEF StartContainer
<1>2. /\ Len(containers) = c - 1 /\ Len(blocks) = c - 1 /\ c \in Nat \ {0}
      /\ Len(doc) \in Nat /\ Len(canonical) \in Nat
      /\ blocks \in Seq(Seq(Ranges)) /\ containers \in Seq(Ranges)
      /\ doc \in Seq(Seq(Seq(Bytes)))
  BY <1>1, DocumentAssumption DEF Progress, IsUtf8
<1>3. /\ IsUtf8(canonical') /\ Len(canonical') \in Nat
      /\ Len(canonical') = Len(canonical) + (IF c > 1 THEN 3 ELSE 0)
      /\ BlocksIn(canonical') /\ ContainersIn(canonical') /\ SeparatorsIn(canonical')
  <2>1. CASE c > 1
    <3>1. canonical' = canonical \o Separator
      BY <1>1, <2>1
    <3>2. IsUtf8(canonical)
      BY DEF Progress
    <3>3. IsUtf8(canonical \o Separator) /\ Len(canonical \o Separator) = Len(canonical) + 3
      BY <3>2, SeparatorText, Grown
    <3> QED
      BY <1>2, <2>1, <3>1, <3>2, <3>3, SeparatorText, RangesGrow
  <2>2. CASE ~(c > 1)
    BY <1>1, <1>2, <2>2 DEF Progress
  <2> QED
    BY <2>1, <2>2
<1>4. /\ blocks' \in Seq(Seq(Ranges)) /\ Len(blocks') = c /\ blocks'[c] = <<>> /\ Len(blocks'[c]) = 0
      /\ \A k \in 1..(c - 1) : blocks'[k] = blocks[k]
  BY <1>1, <1>2
<1>5. /\ containers' \in Seq(Ranges) /\ Len(containers') = c
      /\ containers'[c].from = Len(canonical') /\ containers'[c].to = Len(canonical')
      /\ \A k \in 1..(c - 1) : containers'[k] = containers[k]
  <2> DEFINE r == [from |-> Len(canonical'), to |-> Len(canonical')]
  <2>1. r \in Ranges /\ r.from = Len(canonical') /\ r.to = Len(canonical')
    BY <1>3 DEF Ranges
  <2> HIDE DEF r
  <2>2. containers' = Append(containers, r)
    BY <1>1 DEF r
  <2> QED
    BY <1>2, <2>1, <2>2
<1>6. \A k \in 1..(c - 1) : containers[k] \in Ranges /\ containers[k].to <= Len(canonical)
  BY <1>2 DEF ContainersIn
<1>7. \A k \in 1..c : k \in 1..(c - 1) \/ k = c
  BY <1>2
<1>8. Progress'
  <2>1. Len(doc[c]) \in Nat
    BY <1>1, <1>2
  <2> QED
    BY <1>1, <1>2, <1>3, <1>4, <1>5, <2>1 DEF Progress
<1>9. BlocksIn(canonical)'
  <2> SUFFICES ASSUME NEW k \in 1..Len(blocks'), NEW i \in 1..Len(blocks'[k])
               PROVE  /\ blocks'[k][i].to <= Len(canonical')
                      /\ SubSeq(canonical', blocks'[k][i].from + 1, blocks'[k][i].to) = doc'[k][i]
    BY DEF BlocksIn
  <2>1. k \in 1..(c - 1)
    BY <1>4, <1>7
  <2>2. blocks'[k] = blocks[k] /\ k \in 1..Len(blocks)
    BY <1>2, <1>4, <2>1
  <2> QED
    BY <1>1, <1>3, <2>2 DEF BlocksIn
<1>10. ContainersIn(canonical)'
  <2> SUFFICES ASSUME NEW k \in 1..c
               PROVE  /\ containers'[k].from <= containers'[k].to /\ containers'[k].to <= Len(canonical')
                      /\ CutIn(canonical', containers'[k].from) /\ CutIn(canonical', containers'[k].to)
    BY <1>5 DEF ContainersIn
  <2>1. CASE k = c
    BY <1>3, <1>5, <2>1 DEF CutIn
  <2>2. CASE k \in 1..(c - 1)
    BY <1>2, <1>3, <1>5, <2>2 DEF ContainersIn
  <2> QED
    BY <1>7, <2>1, <2>2
<1>11. SeparatorsIn(canonical)'
  <2> SUFFICES ASSUME NEW k \in 1..(c - 1)
               PROVE  /\ containers'[k + 1].from <= Len(canonical')
                      /\ SubSeq(canonical', containers'[k].to + 1, containers'[k + 1].from) = Separator
    BY <1>5 DEF SeparatorsIn
  <2>1. CASE k = c - 1
    <3>1. c > 1 /\ k \in 1..(c - 1) /\ k + 1 = c
      BY <1>2, <2>1
    <3>2. containers'[k].to = Len(canonical) /\ containers'[k + 1].from = Len(canonical) + 3
      BY <1>1, <1>3, <1>5, <2>1, <3>1 DEF InOrder
    <3>3. canonical' = canonical \o Separator
      BY <1>1, <3>1
    <3>4. SubSeq(canonical \o Separator, Len(canonical) + 1, Len(canonical) + Len(Separator)) = Separator
      BY SeparatorText, SliceAdded DEF Progress
    <3> QED
      BY <1>2, <1>3, <3>1, <3>2, <3>3, <3>4, SeparatorText
  <2>2. CASE k # c - 1
    <3>1. k \in 1..((c - 1) - 1) /\ k \in 1..(c - 1) /\ k + 1 \in 1..(c - 1)
      BY <1>2, <2>2
    <3> QED
      BY <1>2, <1>3, <1>5, <3>1 DEF SeparatorsIn
  <2> QED
    BY <2>1, <2>2
<1>12. InOrder'
  <2>1. ASSUME NEW k \in 1..c, NEW l \in 1..c, k < l PROVE containers'[k].to <= containers'[l].from
    <3>1. k \in 1..(c - 1)
      BY <1>2, <2>1
    <3>2. CASE l = c
      <4>1. containers'[k].to = containers[k].to /\ containers[k].to \in Nat /\ containers[k].to <= Len(canonical)
        BY <1>5, <1>6, <3>1 DEF Ranges
      <4>2. containers'[l].from = Len(canonical')
        BY <1>5, <3>2
      <4> QED
        BY <1>2, <1>3, <4>1, <4>2
    <3>3. CASE l \in 1..(c - 1)
      BY <1>2, <1>5, <2>1, <3>1, <3>3 DEF InOrder
    <3> QED
      BY <1>7, <3>2, <3>3
  <2>2. ASSUME NEW k \in 1..c, NEW i \in 1..Len(blocks'[k])
        PROVE  /\ containers'[k].from <= blocks'[k][i].from
               /\ k < c => blocks'[k][i].to <= containers'[k].to
    <3>1. k \in 1..(c - 1)
      BY <1>4, <1>7
    <3> QED
      BY <1>2, <1>4, <1>5, <3>1 DEF InOrder
  <2> QED
    BY <1>1, <1>4, <1>5, <2>1, <2>2 DEF InOrder
<1> QED
  BY <1>8, <1>9, <1>10, <1>11, <1>12

LEMMA EndContainerContent ==
  ASSUME ContentInv, EndContainer
  PROVE  ContentInv'
<1> USE DEF ContentInv
<1>1. /\ pc = "block" /\ pc' = "container" /\ b' = b /\ doc' = doc /\ c' = c + 1 /\ b > Len(doc[c])
      /\ canonical' = canonical /\ blocks' = blocks
      /\ containers' = [containers EXCEPT ![c].to = Len(canonical)]
  BY DEF EndContainer
<1>2. /\ Len(containers) = c /\ Len(blocks) = c /\ c \in Nat \ {0} /\ c \in 1..Len(containers) /\ c <= Len(doc)
      /\ Len(doc) \in Nat /\ Len(canonical) \in Nat
      /\ blocks \in Seq(Seq(Ranges)) /\ containers \in Seq(Ranges)
  BY <1>1, DocumentAssumption DEF Progress, IsUtf8
<1>3. /\ containers' \in Seq(Ranges) /\ Len(containers') = c
      /\ containers'[c].from = containers[c].from /\ containers'[c].to = Len(canonical)
      /\ \A k \in 1..(c - 1) : containers'[k] = containers[k]
  <2>1. PICK r \in Ranges : r = containers[c]
    BY <1>2
  <2>2. [r EXCEPT !.to = Len(canonical)] \in Ranges
    BY <1>2, <2>1 DEF Ranges
  <2>3. containers' = [containers EXCEPT ![c] = [r EXCEPT !.to = Len(canonical)]]
    BY <1>1, <2>1
  <2>4. [r EXCEPT !.to = Len(canonical)].from = r.from /\ [r EXCEPT !.to = Len(canonical)].to = Len(canonical)
    BY <2>1 DEF Ranges
  <2> QED
    BY <1>2, <2>1, <2>2, <2>3, <2>4
<1>4. \A k \in 1..c : k \in 1..(c - 1) \/ k = c
  BY <1>2
<1>5. \A k \in 1..c : containers'[k].from = containers[k].from
  BY <1>3, <1>4
<1>6. \A k \in 1..c : containers[k] \in Ranges /\ containers[k].from <= Len(canonical) /\ containers[k].from <= containers[k].to
  <2> TAKE k \in 1..c
  <2>1. containers[k] \in Ranges /\ containers[k].from <= containers[k].to /\ containers[k].to <= Len(canonical)
    BY <1>2 DEF ContainersIn
  <2> QED
    BY <1>2, <2>1 DEF Ranges
<1>7. Progress'
  BY <1>1, <1>2, <1>3 DEF Progress
<1>8. BlocksIn(canonical)'
  BY <1>1 DEF BlocksIn
<1>9. ContainersIn(canonical)'
  <2> SUFFICES ASSUME NEW k \in 1..c
               PROVE  /\ containers'[k].from <= containers'[k].to /\ containers'[k].to <= Len(canonical)
                      /\ CutIn(canonical, containers'[k].from) /\ CutIn(canonical, containers'[k].to)
    BY <1>1, <1>3 DEF ContainersIn
  <2>1. CASE k = c
    <3>1. containers'[k].from = containers[k].from /\ containers'[k].to = Len(canonical)
      BY <1>3, <2>1
    <3> QED
      BY <1>2, <1>6, <3>1 DEF ContainersIn, CutIn
  <2>2. CASE k \in 1..(c - 1)
    BY <1>2, <1>3, <2>2 DEF ContainersIn
  <2> QED
    BY <1>4, <2>1, <2>2
<1>10. SeparatorsIn(canonical)'
  <2> SUFFICES ASSUME NEW k \in 1..(c - 1)
               PROVE  /\ containers'[k + 1].from <= Len(canonical)
                      /\ SubSeq(canonical, containers'[k].to + 1, containers'[k + 1].from) = Separator
    BY <1>1, <1>3 DEF SeparatorsIn
  <2>1. k + 1 \in 1..c
    BY <1>2
  <2> QED
    BY <1>2, <1>3, <1>5, <2>1 DEF SeparatorsIn
<1>11. InOrder'
  <2>1. ASSUME NEW k \in 1..c, NEW l \in 1..c, k < l PROVE containers'[k].to <= containers'[l].from
    <3>1. k \in 1..(c - 1)
      BY <1>2, <2>1
    <3> QED
      BY <1>2, <1>3, <1>5, <2>1, <3>1 DEF InOrder
  <2>2. ASSUME NEW k \in 1..c, NEW i \in 1..Len(blocks[k])
        PROVE  /\ containers'[k].from <= blocks[k][i].from
               /\ blocks[k][i].to <= containers'[k].to
    <3>1. CASE k = c
      BY <1>2, <1>3, <1>5, <2>2, <3>1 DEF InOrder, BlocksIn
    <3>2. CASE k \in 1..(c - 1)
      <4>1. k < c
        BY <1>2, <3>2
      <4> QED
        BY <1>2, <1>3, <2>2, <3>2, <4>1 DEF InOrder
    <3> QED
      BY <1>4, <3>1, <3>2
  <2>3. containers'[c' - 1].to = Len(canonical')
    BY <1>1, <1>2, <1>3
  <2> QED
    BY <1>1, <1>2, <1>3, <2>1, <2>2, <2>3 DEF InOrder
<1> QED
  BY <1>7, <1>8, <1>9, <1>10, <1>11

LEMMA WriteBlockContent ==
  ASSUME ContentInv, WriteBlock
  PROVE  ContentInv'
<1> USE DEF ContentInv
<1> DEFINE before == IF NeedsNewline THEN Append(canonical, "nl") ELSE canonical
           text   == doc[c][b]
           range  == [from |-> Len(before), to |-> Len(canonical')]
<1>1. /\ pc = "block" /\ pc' = pc /\ b' = b + 1 /\ doc' = doc /\ c' = c /\ containers' = containers
      /\ b <= Len(doc[c]) /\ canonical' = before \o text
      /\ blocks' = [blocks EXCEPT ![c] = Append(@, range)]
  BY DEF WriteBlock
<1>2. /\ Len(containers) = c /\ Len(blocks) = c /\ c \in Nat \ {0} /\ c \in 1..Len(doc) /\ b \in Nat \ {0}
      /\ Len(blocks[c]) = b - 1 /\ b <= Len(doc[c]) /\ Len(doc[c]) \in Nat
      /\ blocks \in Seq(Seq(Ranges)) /\ containers \in Seq(Ranges)
      /\ IsUtf8(canonical) /\ canonical \in Seq(Bytes) /\ Len(canonical) \in Nat
      /\ IsUtf8(text)
  <2>1. doc \in Seq(Seq(Seq(Bytes))) /\ c \in Nat \ {0} /\ c <= Len(doc) /\ b \in Nat \ {0}
    BY <1>1, DocumentAssumption DEF Progress
  <2>2. c \in 1..Len(doc) /\ doc[c] \in Seq(Seq(Bytes)) /\ Len(doc[c]) \in Nat
    BY <2>1
  <2>3. b \in 1..Len(doc[c])
    BY <1>1, <2>1, <2>2
  <2>4. IsUtf8(text)
    BY <2>2, <2>3, DocumentAssumption DEF Progress
  <2> QED
    BY <1>1, <2>1, <2>2, <2>4 DEF Progress, IsUtf8
<1> HIDE DEF text
<1>3. /\ IsUtf8(before) /\ Len(before) \in Nat /\ Len(canonical) <= Len(before)
      /\ BlocksIn(before) /\ ContainersIn(before) /\ SeparatorsIn(before)
  <2>1. CASE NeedsNewline
    <3>1. IsUtf8(<<"nl">>) /\ Len(<<"nl">>) = 1
      BY DEF IsUtf8, Bytes
    <3>2. before = canonical \o <<"nl">>
      <4>1. before = Append(canonical, "nl")
        BY <2>1
      <4> QED
        BY <1>2, <4>1, AppendIsConcat DEF Bytes
    <3>3. IsUtf8(canonical \o <<"nl">>) /\ Len(canonical \o <<"nl">>) = Len(canonical) + 1
      BY <1>2, <3>1, Grown
    <3>4. /\ BlocksIn(canonical \o <<"nl">>) /\ ContainersIn(canonical \o <<"nl">>)
          /\ SeparatorsIn(canonical \o <<"nl">>)
      BY <1>2, <3>1, RangesGrow
    <3>5. Len(before) \in Nat /\ Len(canonical) <= Len(before)
      BY <1>2, <3>2, <3>3
    <3> QED
      BY <3>2, <3>3, <3>4, <3>5
  <2>2. CASE ~NeedsNewline
    <3>1. before = canonical
      BY <2>2
    <3> QED
      BY <1>2, <3>1
  <2> QED
    BY <2>1, <2>2
<1> HIDE DEF before
<1>4. /\ IsUtf8(canonical') /\ Len(canonical') = Len(before) + Len(text) /\ Len(text) \in Nat
      /\ BlocksIn(canonical') /\ ContainersIn(canonical') /\ SeparatorsIn(canonical')
  <2>1. Len(text) \in Nat
    BY <1>2 DEF IsUtf8
  <2>2. IsUtf8(before \o text) /\ Len(before \o text) = Len(before) + Len(text)
    BY <1>2, <1>3, Grown
  <2>3. BlocksIn(before \o text) /\ ContainersIn(before \o text) /\ SeparatorsIn(before \o text)
    BY <1>2, <1>3, RangesGrow
  <2> QED
    BY <1>1, <2>1, <2>2, <2>3
<1>5. /\ range \in Ranges /\ range.from = Len(before) /\ range.to = Len(before) + Len(text)
      /\ Len(canonical') \in Nat
  BY <1>3, <1>4 DEF Ranges
<1> HIDE DEF range
<1>6. /\ blocks' \in Seq(Seq(Ranges)) /\ Len(blocks') = c
      /\ Len(blocks'[c]) = b /\ blocks'[c][b] = range
      /\ \A i \in 1..(b - 1) : blocks'[c][i] = blocks[c][i]
      /\ \A k \in 1..(c - 1) : blocks'[k] = blocks[k]
  <2>1. PICK row \in Seq(Ranges) : row = blocks[c]
    BY <1>2
  <2>2. blocks' = [blocks EXCEPT ![c] = Append(row, range)]
    BY <1>1, <2>1
  <2>3. /\ Append(row, range) \in Seq(Ranges) /\ Len(Append(row, range)) = b /\ Append(row, range)[b] = range
        /\ \A i \in 1..(b - 1) : Append(row, range)[i] = row[i]
    BY <1>2, <1>5, <2>1
  <2>4. c \in 1..Len(blocks)
    BY <1>2
  <2>5. blocks'[c] = Append(row, range) /\ \A k \in 1..(c - 1) : blocks'[k] = blocks[k]
    BY <1>2, <2>2, <2>4
  <2>6. blocks' \in Seq(Seq(Ranges)) /\ Len(blocks') = c
    BY <1>2, <2>2, <2>3, <2>4
  <2> QED
    BY <2>1, <2>3, <2>5, <2>6
<1>7. \A k \in 1..c : \A i \in 1..Len(blocks'[k]) :
        \/ k = c /\ i = b
        \/ k \in 1..Len(blocks) /\ i \in 1..Len(blocks[k]) /\ blocks'[k][i] = blocks[k][i]
  <2> TAKE k \in 1..c
  <2> TAKE i \in 1..Len(blocks'[k])
  <2>1. CASE k = c
    <3>1. i \in 1..b
      BY <1>6, <2>1
    <3>2. i = b \/ i \in 1..(b - 1)
      BY <1>2, <3>1
    <3> QED
      BY <1>2, <1>6, <2>1, <3>2
  <2>2. CASE k # c
    <3>1. k \in 1..(c - 1) /\ k \in 1..Len(blocks)
      BY <1>2, <2>2
    <3>2. blocks'[k] = blocks[k]
      BY <1>6, <3>1
    <3> QED
      BY <3>1, <3>2
  <2> QED
    BY <2>1, <2>2
<1>8. Progress'
  BY <1>1, <1>2, <1>4, <1>6 DEF Progress
<1>9. BlocksIn(canonical)'
  <2> SUFFICES ASSUME NEW k \in 1..Len(blocks'), NEW i \in 1..Len(blocks'[k])
               PROVE  /\ blocks'[k][i].to <= Len(canonical')
                      /\ SubSeq(canonical', blocks'[k][i].from + 1, blocks'[k][i].to) = doc'[k][i]
    BY DEF BlocksIn
  <2>1. CASE k = c /\ i = b
    <3>1. SubSeq(before \o text, Len(before) + 1, Len(before) + Len(text)) = text
      BY <1>2, <1>3, SliceAdded
    <3>2. blocks'[k][i] = range /\ doc'[k][i] = text
      BY <1>1, <1>6, <2>1 DEF text
    <3>3. range.to <= Len(canonical')
      BY <1>4, <1>5
    <3> QED
      BY <1>1, <1>5, <3>1, <3>2, <3>3
  <2>2. CASE k \in 1..Len(blocks) /\ i \in 1..Len(blocks[k]) /\ blocks'[k][i] = blocks[k][i]
    BY <1>1, <1>4, <2>2 DEF BlocksIn
  <2> QED
    BY <1>6, <1>7, <2>1, <2>2
<1>10. ContainersIn(canonical)' /\ SeparatorsIn(canonical)'
  BY <1>1, <1>4 DEF ContainersIn, SeparatorsIn
<1>11. InOrder'
  <2>1. ASSUME NEW k \in 1..c, NEW i \in 1..Len(blocks'[k])
        PROVE  /\ containers[k].from <= blocks'[k][i].from
               /\ k < c => blocks'[k][i].to <= containers[k].to
    <3>1. CASE k = c /\ i = b
      <4>1. blocks'[k][i].from = Len(before)
        BY <1>5, <1>6, <3>1
      <4>2. containers[c] \in Ranges /\ containers[c].from <= containers[c].to /\ containers[c].to <= Len(canonical)
        BY <1>2 DEF ContainersIn
      <4>3. containers[c].from <= Len(before)
        BY <1>2, <1>3, <4>2 DEF Ranges
      <4> QED
        BY <1>2, <3>1, <4>1, <4>3
    <3>2. CASE k \in 1..Len(blocks) /\ i \in 1..Len(blocks[k]) /\ blocks'[k][i] = blocks[k][i]
      BY <3>2 DEF InOrder
    <3> QED
      BY <1>7, <3>1, <3>2
  <2> QED
    BY <1>1, <1>2, <1>6, <2>1 DEF InOrder
<1> QED
  BY <1>8, <1>9, <1>10, <1>11

(* The steps that leave the content alone. *)
LEMMA ContentStays ==
  ASSUME ContentInv, UNCHANGED contentVars, pc # "block", pc' # "block",
         pc' \in {"container", "chunk", "done"},
         pc' \in {"chunk", "done"} => c = Len(doc) + 1
  PROVE  ContentInv'
BY DEF ContentInv, Progress, BlocksIn, ContainersIn, SeparatorsIn, InOrder, contentVars

LEMMA ContentStep ==
  ASSUME ContentInv, ReadNext \/ UNCHANGED readVars
  PROVE  ContentInv'
<1>1. CASE StartContainer
  BY <1>1, StartContainerContent
<1>2. CASE WriteBlock
  BY <1>2, WriteBlockContent
<1>3. CASE EndContainer
  BY <1>3, EndContainerContent
<1>4. CASE ContentWritten
  <2>1. c = Len(doc) + 1
    BY <1>4, DocumentAssumption DEF ContentInv, Progress, ContentWritten
  <2> QED
    BY <1>4, <2>1, ContentStays DEF ContentWritten
<1>5. CASE WriteChunk
  BY <1>5, ContentStays DEF WriteChunk, ContentInv, Progress
<1>6. CASE UNCHANGED vars
  BY <1>6 DEF vars, ContentInv, Progress, BlocksIn, ContainersIn, SeparatorsIn, InOrder
<1> QED
  BY <1>1, <1>2, <1>3, <1>4, <1>5, <1>6 DEF ReadNext, WriteStep, Next, Read, readVars

(* The content, its ranges and their order are inductive. *)
THEOREM ContentInductive == ReadSpec => []ContentInv
<1>1. ReadInit => ContentInv
  BY InitContent DEF ReadInit
<1>2. ContentInv /\ [ReadNext]_readVars => ContentInv'
  BY ContentStep
<1> QED
  BY <1>1, <1>2, PTL DEF ReadSpec

(* Every offset that is stored reads back the text it was stored for. *)
THEOREM RangesAreKept == ReadSpec => []RangesReadBack
<1>1. ContentInv => RangesReadBack
  <2> SUFFICES ASSUME ContentInv PROVE RangesReadBack
    OBVIOUS
  <2>1. /\ c \in Nat \ {0} /\ Len(containers) = Len(blocks) /\ Len(containers) \in {c - 1, c}
        /\ Len(containers) \in Nat
    BY DocumentAssumption DEF ContentInv, Progress
  <2>2. \A k \in 1..(c - 1) : \A i \in 1..Len(blocks[k]) :
          containers[k].from <= blocks[k][i].from /\ blocks[k][i].to <= containers[k].to
    <3> TAKE k \in 1..(c - 1)
    <3>1. k \in 1..Len(blocks) /\ k < c
      BY <2>1
    <3> QED
      BY <3>1 DEF ContentInv, InOrder
  <2> QED
    BY <2>2 DEF ContentInv, BlocksIn, SeparatorsIn, RangesReadBack, Slice
<1> QED
  BY <1>1, ContentInductive, PTL

-----------------------------------------------------------------------------
(* Offsets into a text: a character is at most three bytes back.             *)
LEMMA BoundaryIsCut ==
  ASSUME IsUtf8(canonical), NEW o \in 0..Length
  PROVE  /\ Utf8Boundary(o) \in 0..o /\ o - Utf8Boundary(o) <= 3
         /\ IsCut(Utf8Boundary(o))
<1>1. Length \in Nat /\ canonical \in Seq(Bytes)
  BY DEF Length, IsUtf8
<1>2. CASE o >= Length
  <2>1. o = Length /\ Utf8Boundary(o) = o
    BY <1>1, <1>2 DEF Utf8Boundary
  <2> QED
    BY <1>1, <2>1 DEF IsCut
<1>3. CASE o < Length
  <2>1. o + 1 \in 1..Len(canonical) /\ o \in Nat
    BY <1>1, <1>3 DEF Length
  <2>2. PICK j \in 1..(o + 1) : (o + 1) - j <= 3 /\ canonical[j] # "cont"
    BY <2>1 DEF IsUtf8
  <2>3. j - 1 \in 0..o /\ o - (j - 1) <= 3 /\ (j - 1) + 1 = j
    BY <2>1, <2>2
  <2>4. IsCut(j - 1)
    BY <2>2, <2>3 DEF IsCut, Byte
  <2> DEFINE T == {i \in 0..o : IsCut(i)}
  <2>5. T \subseteq Nat /\ T # {} /\ j - 1 \in T /\ \A i \in T : i <= o
    BY <2>1, <2>3, <2>4
  <2>6. Greatest(T) \in T /\ \A y \in T : y <= Greatest(T)
    <3> HIDE DEF T
    <3> QED BY <2>1, <2>5, GreatestOf
  <2>7. \E i \in 0..o : IsCut(i) /\ \A k \in (i + 1)..o : ~IsCut(k)
    <3>1. \A k \in (Greatest(T) + 1)..o : k \in 0..o /\ ~(k <= Greatest(T))
      BY <2>1, <2>6
    <3> QED
      BY <2>6, <3>1
  <2> DEFINE u == Utf8Boundary(o)
  <2>8. u \in 0..o /\ IsCut(u) /\ \A k \in (u + 1)..o : ~IsCut(k)
    BY <1>3, <2>1, <1>1, <2>7 DEF Utf8Boundary
  <2> HIDE DEF u
  <2>9. j - 1 <= u
    BY <2>1, <2>3, <2>4, <2>8
  <2> QED
    BY <2>1, <2>3, <2>8, <2>9 DEF u
<1> QED
  BY <1>1, <1>2, <1>3

(* Behind a newline or a space there is a character. *)
LEMMA BehindBreakIsCut ==
  ASSUME IsUtf8(canonical), NEW o \in 0..(Length - 1), Byte(o) \in {"nl", "sp"}
  PROVE  IsCut(o + 1)
<1>1. Length \in Nat /\ canonical \in Seq(Bytes) /\ Length = Len(canonical)
  BY DEF Length, IsUtf8
<1>2. CASE o + 1 = Length
  BY <1>2 DEF IsCut
<1>3. CASE o + 1 # Length
  <2>1. (o + 1) + 1 \in 2..Len(canonical) /\ ((o + 1) + 1) - 1 = o + 1
    BY <1>1, <1>3
  <2>2. canonical[o + 1] \in {"nl", "sp"}
    BY DEF Byte
  <2>3. canonical[(o + 1) + 1] # "cont"
    BY <2>1, <2>2 DEF IsUtf8
  <2> QED
    BY <2>3 DEF IsCut, Byte
<1> QED
  BY <1>2, <1>3

(* Where a chunk ends: at a character, within its size, and unless it ends   *)
(* the text in its second half.                                              *)
LEMMA ChunkEnds ==
  ASSUME IsUtf8(canonical), start \in 0..Length
  PROVE  /\ ChunkEnd \in 0..Length /\ ChunkEnd <= start + ChunkBytes
         /\ IsCut(ChunkEnd)
         /\ ChunkEnd # Length =>
              \/ ChunkEnd >= start + ChunkBytes \div 2 + 1
              \/ ChunkEnd >= start + ChunkBytes - 3
<1> DEFINE hard     == Smaller(Length, start + ChunkBytes)
           minimum  == Smaller(hard, start + ChunkBytes \div 2)
           newlines == Occurrences("nl", minimum, hard)
           spaces   == Occurrences("sp", minimum, hard)
           half     == ChunkBytes \div 2
<1>1. Length \in Nat /\ start \in Nat /\ start <= Length /\ ChunkBytes \in Nat /\ half \in Nat /\ half <= ChunkBytes
  BY ChunkAssumption DEF Length, IsUtf8
<1>2. ChunkEnd = CASE hard = Length                               -> hard
                   [] hard # Length /\ newlines # {}              -> Greatest(newlines) + 1
                   [] hard # Length /\ newlines = {} /\ spaces # {} -> Greatest(spaces) + 1
                   [] OTHER                                       -> Utf8Boundary(hard)
  BY DEF ChunkEnd
<1> HIDE DEF half
<1>3. hard \in 0..Length /\ hard <= start + ChunkBytes
  BY <1>1 DEF Smaller
<1>4. CASE hard = Length
  <2>1. ChunkEnd = Length
    BY <1>2, <1>4
  <2> QED
    BY <1>1, <1>3, <1>4, <2>1 DEF IsCut
<1>5. CASE hard # Length
  <2>1. hard = start + ChunkBytes /\ hard < Length
    BY <1>1, <1>5 DEF Smaller
  <2>2. minimum = start + half /\ minimum \in Nat /\ minimum <= hard
    BY <1>1, <2>1 DEF Smaller, half
  <2> HIDE DEF hard, minimum
  <2>3. ASSUME NEW T, T # {}, T = newlines \/ T = spaces
        PROVE  /\ Greatest(T) + 1 \in (minimum + 1)..hard
               /\ IsCut(Greatest(T) + 1)
    <3>1. T \subseteq minimum..(hard - 1) /\ \A o \in T : Byte(o) \in {"nl", "sp"}
      BY <2>3 DEF Occurrences
    <3>2. T \subseteq Nat /\ hard \in Nat /\ \A o \in T : o <= hard
      BY <1>3, <2>2, <3>1
    <3>3. Greatest(T) \in T
      BY <2>3, <3>2, GreatestOf
    <3>4. Greatest(T) \in minimum..(hard - 1) /\ Byte(Greatest(T)) \in {"nl", "sp"}
      BY <3>1, <3>3
    <3>5. Greatest(T) \in 0..(Length - 1) /\ Greatest(T) + 1 \in (minimum + 1)..hard
      BY <1>1, <1>3, <2>1, <2>2, <3>4
    <3> QED
      BY <3>4, <3>5, BehindBreakIsCut
  <2>4. CASE newlines # {}
    <3>1. ChunkEnd = Greatest(newlines) + 1
      BY <1>2, <1>5, <2>4
    <3>2. ChunkEnd \in (minimum + 1)..hard /\ IsCut(ChunkEnd)
      BY <2>3, <2>4, <3>1
    <3> QED
      BY <1>1, <1>3, <2>2, <3>2 DEF half
  <2>5. CASE newlines = {} /\ spaces # {}
    <3>1. ChunkEnd = Greatest(spaces) + 1
      BY <1>2, <1>5, <2>5
    <3>2. ChunkEnd \in (minimum + 1)..hard /\ IsCut(ChunkEnd)
      BY <2>3, <2>5, <3>1
    <3> QED
      BY <1>1, <1>3, <2>2, <3>2 DEF half
  <2>6. CASE newlines = {} /\ spaces = {}
    <3>1. ChunkEnd = Utf8Boundary(hard)
      BY <1>2, <1>5, <2>6
    <3>2. ChunkEnd \in 0..hard /\ hard - ChunkEnd <= 3 /\ IsCut(ChunkEnd)
      BY <1>3, <3>1, BoundaryIsCut
    <3> QED
      BY <1>1, <1>3, <2>1, <3>2
  <2> QED
    BY <2>4, <2>5, <2>6
<1> QED
  BY <1>4, <1>5

(* The text starts with the first container. *)
StartsWithFirst ==
  /\ containers = <<>> => canonical = <<>>
  /\ containers # <<>> => containers[1].from = 0

(* What a chunk cites reaches from the first to the last container that it   *)
(* touches; if it touches none, it lies behind the start of the one cited.   *)
LEMMA ChunkCites ==
  ASSUME ContentInv, StartsWithFirst, canonical # <<>>, NEW from \in Nat, NEW to \in Nat
  PROVE  LET first == Least(Cited(from, to)) - 1
             last  == Greatest(Cited(from, to)) - 1
         IN  /\ first \in Nat /\ last \in Nat /\ first <= last /\ last < Len(containers)
             /\ \A k \in Touched(from, to) : first <= k - 1 /\ k - 1 <= last
             /\ \/ first + 1 \in Touched(from, to) /\ last + 1 \in Touched(from, to)
                \/ /\ first = last
                   /\ containers[first + 1].from <= from
                   /\ first + 1 < Len(containers) => to <= containers[first + 2].from
<1> DEFINE T == Cited(from, to)
           n == Len(containers)
           N == Nearest(from)
<1>1. containers \in Seq(Ranges) /\ n \in Nat /\ n >= 1 /\ containers[1].from = 0
  BY DEF ContentInv, Progress, StartsWithFirst
<1>2. /\ N \in 1..n /\ containers[N].from <= from
      /\ \A k \in 1..n : containers[k].from <= from => k <= N
  <2> DEFINE P == {k \in 1..n : containers[k].from <= from}
  <2>1. P \subseteq Nat /\ (\A k \in P : k <= n) /\ 1 \in P
    BY <1>1
  <2>2. N = Greatest(P)
    BY <2>1 DEF Nearest
  <2>3. Greatest(P) \in P /\ \A k \in P : k <= Greatest(P)
    <3> HIDE DEF P, n
    <3> QED BY <1>1, <2>1, GreatestOf
  <2> QED
    BY <2>2, <2>3
<1>3. Touched(from, to) \subseteq T /\ T # {}
  BY DEF Cited
<1>4. T \subseteq 1..n
  BY <1>2 DEF Cited, Touched
<1>5. T \subseteq Nat /\ \A k \in T : k <= n
  BY <1>1, <1>4
<1>6. CASE Touched(from, to) = {}
  <2>1. T = {N}
    BY <1>6 DEF Cited
  <2>2. Least(T) = N /\ Greatest(T) = N
    BY <1>1, <1>3, <1>5, <2>1, LeastOf, GreatestOf
  <2>3. N + 1 <= n => to <= containers[N + 1].from
    <3> SUFFICES ASSUME N + 1 <= n PROVE to <= containers[N + 1].from
      OBVIOUS
    <3> HIDE DEF N
    <3>1. N + 1 \in 1..n /\ ~(N + 1 <= N)
      BY <1>1, <1>2
    <3>2. containers[N + 1] \in Ranges /\ containers[N + 1].from <= containers[N + 1].to
      BY <1>1, <3>1 DEF ContentInv, ContainersIn
    <3>3. containers[N + 1].from > from /\ containers[N + 1].to > from
      BY <1>2, <3>1, <3>2 DEF Ranges
    <3>4. ~(containers[N + 1].from < to)
      BY <1>6, <3>1, <3>3 DEF Touched
    <3> QED
      BY <3>2, <3>4 DEF Ranges
  <2> HIDE DEF N, n, T
  <2>4. N - 1 \in Nat /\ (N - 1) + 1 = N /\ (N - 1) + 2 = N + 1 /\ N - 1 < n
    BY <1>1, <1>2
  <2>5. N < n => N + 1 <= n
    BY <1>1, <1>2
  <2> QED
    BY <1>2, <1>6, <2>2, <2>3, <2>4, <2>5 DEF T, n
<1>7. CASE Touched(from, to) # {}
  <2>1. T = Touched(from, to)
    BY <1>7 DEF Cited
  <2> HIDE DEF T, n
  <2>2. Least(T) \in T /\ \A y \in T : Least(T) <= y
    BY <1>3, <1>5, LeastOf
  <2>3. Greatest(T) \in T /\ \A y \in T : y <= Greatest(T)
    BY <1>1, <1>3, <1>5, GreatestOf
  <2> DEFINE least == Least(T)
             most  == Greatest(T)
  <2> HIDE DEF least, most
  <2>4. /\ least \in 1..n /\ most \in 1..n /\ least <= most /\ least \in T /\ most \in T
        /\ \A y \in T : y \in 1..n /\ least <= y /\ y <= most
    BY <1>4, <2>2, <2>3 DEF least, most
  <2>5. /\ least - 1 \in Nat /\ most - 1 \in Nat /\ least - 1 <= most - 1 /\ most - 1 < n
        /\ (least - 1) + 1 = least /\ (most - 1) + 1 = most
        /\ \A y \in T : least - 1 <= y - 1 /\ y - 1 <= most - 1
    BY <1>1, <2>4
  <2> QED
    BY <2>1, <2>4, <2>5 DEF T, n, least, most
<1> QED
  BY <1>6, <1>7

(* The chunks that are written, whatever the overlap. *)
ChunkInv ==
  /\ chunks \in Seq(Chunks)
  /\ pc \in {"container", "block"} => chunks = <<>> /\ start = 0
  /\ pc = "chunk" => start \in 0..Length /\ canonical # <<>>
  /\ StartsWithFirst
  /\ CitationsHoldTheHit

(* What one more chunk is. *)
LEMMA ChunkWritten ==
  ASSUME ContentInv, ChunkInv, WriteChunk
  PROVE  /\ start \in 0..Length /\ pc = "chunk" /\ chunks \in Seq(Chunks)
         /\ \E chunk \in Chunks :
              /\ chunks' = Append(chunks, chunk)
              /\ chunk.from = start /\ chunk.to = ChunkEnd
              /\ CitesWell(chunk)
         /\ ChunkEnd = Length => pc' = "done" /\ start' = start
         /\ ChunkEnd # Length =>
              /\ pc' = "chunk" /\ start < Length
              /\ start' = Utf8Boundary(Larger(start + 1, ChunkEnd - OverlapBytes))
<1>1. start \in 0..Length /\ pc = "chunk" /\ chunks \in Seq(Chunks) /\ IsUtf8(canonical) /\ Length \in Nat
  BY DEF ChunkInv, WriteChunk, ContentInv, Progress, Length, IsUtf8
<1>2. ChunkEnd \in 0..Length
  BY <1>1, ChunkEnds
<1> DEFINE first == Least(Cited(start, ChunkEnd)) - 1
           last  == Greatest(Cited(start, ChunkEnd)) - 1
           chunk == [from |-> start, to |-> ChunkEnd, first |-> first, last |-> last]
<1>3. /\ first \in Nat /\ last \in Nat /\ first <= last /\ last < Len(containers)
      /\ \A k \in Touched(start, ChunkEnd) : first <= k - 1 /\ k - 1 <= last
      /\ \/ first + 1 \in Touched(start, ChunkEnd) /\ last + 1 \in Touched(start, ChunkEnd)
         \/ /\ first = last
            /\ containers[first + 1].from <= start
            /\ first + 1 < Len(containers) => ChunkEnd <= containers[first + 2].from
  <2>1. start \in Nat /\ ChunkEnd \in Nat /\ canonical # <<>> /\ StartsWithFirst
    BY <1>1, <1>2 DEF ChunkInv
  <2> QED
    BY <2>1, ChunkCites
<1>4. chunks' = Append(chunks, chunk)
  BY DEF WriteChunk
<1> HIDE DEF first, last
<1>5. chunk \in Chunks
  BY <1>1, <1>2, <1>3 DEF Chunks
<1>6. CitesWell(chunk)
  <2>1. ASSUME NEW k \in 1..Len(containers), HasTextOf(chunk, k) PROVE k \in Touched(start, ChunkEnd)
    <3>1. PICK o \in start..(ChunkEnd - 1) : containers[k].from <= o /\ o < containers[k].to
      BY <2>1 DEF HasTextOf
    <3>2. containers[k] \in Ranges
      BY DEF ContentInv, Progress
    <3>3. containers[k].from < ChunkEnd /\ containers[k].to > start
      BY <1>1, <1>2, <3>1, <3>2 DEF Ranges
    <3> QED
      BY <3>3 DEF Touched
  <2>2. \A k \in Touched(start, ChunkEnd) : Reaches(chunk, k)
    <3> SUFFICES ASSUME NEW k \in Touched(start, ChunkEnd) PROVE Reaches(chunk, k)
      OBVIOUS
    <3>1. containers[k] \in Ranges
      BY DEF ContentInv, Progress, Touched
    <3> QED
      BY <1>1, <1>2, <3>1 DEF Touched, Reaches, Ranges
  <2>3. (first + 1) + 1 = first + 2
    BY <1>3
  <2> QED
    BY <1>3, <2>1, <2>2, <2>3 DEF CitesWell, LiesBehind
<1>7. ChunkEnd # Length => start < Length
  <2> SUFFICES ASSUME ~(start < Length) PROVE ChunkEnd = Length
    OBVIOUS
  <2>1. start = Length
    BY <1>1
  <2>2. Smaller(Length, start + ChunkBytes) = Length
    BY <1>1, <2>1, ChunkAssumption DEF Smaller
  <2> QED
    BY <2>2 DEF ChunkEnd
<1>8. /\ ChunkEnd = Length => pc' = "done" /\ start' = start
      /\ ChunkEnd # Length => pc' = pc /\ start' = Utf8Boundary(Larger(start + 1, ChunkEnd - OverlapBytes))
  BY DEF WriteChunk
<1> QED
  BY <1>1, <1>4, <1>5, <1>6, <1>7, <1>8

LEMMA NextStart ==
  ASSUME ContentInv, start \in 0..Length, start < Length, ChunkEnd \in 0..Length
  PROVE  LET offset == Larger(start + 1, ChunkEnd - OverlapBytes)
         IN  offset \in 0..Length /\ Utf8Boundary(offset) \in 0..Length /\ IsCut(Utf8Boundary(offset))
             /\ Utf8Boundary(offset) <= offset /\ offset - Utf8Boundary(offset) <= 3
<1> DEFINE offset == Larger(start + 1, ChunkEnd - OverlapBytes)
<1>1. Length \in Nat /\ IsUtf8(canonical)
  BY DEF ContentInv, Progress, Length, IsUtf8
<1>2. offset \in 0..Length
  BY <1>1, ChunkAssumption DEF Larger
<1> HIDE DEF offset
<1>3. Utf8Boundary(offset) \in 0..offset /\ offset - Utf8Boundary(offset) <= 3 /\ IsCut(Utf8Boundary(offset))
  BY <1>1, <1>2, BoundaryIsCut
<1> QED
  BY <1>1, <1>2, <1>3 DEF offset

LEMMA ChunkInvStep ==
  ASSUME ContentInv, ChunkInv, ReadNext \/ UNCHANGED readVars
  PROVE  ChunkInv'
<1>1. CASE WriteChunk
  <2>1. /\ start \in 0..Length /\ pc = "chunk" /\ chunks \in Seq(Chunks)
        /\ ChunkEnd = Length => pc' = "done" /\ start' = start
        /\ ChunkEnd # Length =>
             pc' = "chunk" /\ start < Length /\ start' = Utf8Boundary(Larger(start + 1, ChunkEnd - OverlapBytes))
    BY <1>1, ChunkWritten
  <2>2. PICK chunk \in Chunks :
          /\ chunks' = Append(chunks, chunk)
          /\ chunk.from = start /\ chunk.to = ChunkEnd
          /\ CitesWell(chunk)
    BY <1>1, ChunkWritten
  <2>3. Length' = Length /\ containers' = containers /\ Length \in Nat /\ IsUtf8(canonical)
    BY <1>1 DEF WriteChunk, contentVars, Length, ContentInv, Progress, IsUtf8
  <2>4. ChunkEnd \in 0..Length
    BY <2>1, <2>3, ChunkEnds
  <2>5. pc' = "chunk" => start' \in 0..Length'
    BY <2>1, <2>3, <2>4, NextStart
  <2>6. CitationsHoldTheHit'
    <3>1. ASSUME NEW i \in 1..Len(chunks') PROVE CitesWell(chunks'[i])
      <4>1. (i \in 1..Len(chunks) /\ chunks'[i] = chunks[i]) \/ chunks'[i] = chunk
        BY <2>1, <2>2
      <4> QED
        BY <2>2, <4>1 DEF ChunkInv, CitationsHoldTheHit
    <3> QED
      BY <2>3, <3>1 DEF CitationsHoldTheHit, CitesWell, HasTextOf, Reaches, LiesBehind
  <2>7. chunks' \in Seq(Chunks)
    BY <2>1, <2>2
  <2>8. pc' \in {"chunk", "done"} /\ canonical' = canonical
    BY <1>1, <2>1 DEF WriteChunk, contentVars
  <2>9. StartsWithFirst'
    BY <2>3, <2>8 DEF ChunkInv, StartsWithFirst
  <2> QED
    BY <2>1, <2>5, <2>6, <2>7, <2>8, <2>9 DEF ChunkInv
<1>2. CASE ContentWritten
  <2>1. /\ pc = "container" /\ pc' \in {"done", "chunk"} /\ chunks' = chunks /\ start' = start
        /\ canonical' = canonical /\ containers' = containers
    BY <1>2 DEF ContentWritten, contentVars
  <2>2. Length \in Nat /\ Length' = Length
    BY <2>1 DEF Length, ContentInv, Progress, IsUtf8
  <2>3. start' \in 0..Length'
    BY <2>1, <2>2 DEF ChunkInv
  <2>4. CitationsHoldTheHit' /\ StartsWithFirst'
    BY <2>1 DEF ChunkInv, CitationsHoldTheHit, StartsWithFirst
  <2>5. pc' = "chunk" => canonical' # <<>>
    BY <1>2, <2>1 DEF ContentWritten
  <2> QED
    BY <2>1, <2>3, <2>4, <2>5 DEF ChunkInv
<1>3. CASE StartContainer \/ WriteBlock \/ EndContainer
  <2>1. pc \in {"container", "block"} /\ pc' \in {"container", "block"} /\ chunks' = chunks /\ start' = start
    BY <1>3 DEF StartContainer, WriteBlock, EndContainer
  <2>2. /\ containers \in Seq(Ranges) /\ c \in Nat \ {0} /\ Len(canonical) \in Nat
        /\ pc = "block" => Len(containers) = c
        /\ pc # "block" => Len(containers) = c - 1
    BY DocumentAssumption DEF ContentInv, Progress, IsUtf8
  <2>3. StartsWithFirst'
    <3>1. CASE StartContainer
      <4>1. /\ canonical' = IF c > 1 THEN canonical \o Separator ELSE canonical
            /\ containers' = Append(containers, [from |-> Len(canonical'), to |-> Len(canonical')])
            /\ Len(containers) = c - 1
        BY <2>2, <3>1 DEF StartContainer
      <4>2. containers' # <<>>
        BY <2>2, <4>1
      <4>3. CASE c = 1
        <5>1. containers = <<>> /\ canonical = <<>>
          BY <2>2, <4>1, <4>3 DEF ChunkInv, StartsWithFirst
        <5>2. canonical' = <<>> /\ containers'[1].from = 0
          BY <4>1, <4>3, <5>1
        <5> QED
          BY <4>2, <5>2 DEF StartsWithFirst
      <4>4. CASE c # 1
        <5>1. containers # <<>> /\ containers'[1] = containers[1]
          BY <2>2, <4>1, <4>4
        <5> QED
          BY <4>2, <5>1 DEF ChunkInv, StartsWithFirst
      <4> QED
        BY <4>3, <4>4
    <3>2. CASE WriteBlock
      <4>1. containers' = containers /\ containers # <<>>
        BY <2>2, <3>2 DEF WriteBlock
      <4> QED
        BY <4>1 DEF ChunkInv, StartsWithFirst
    <3>3. CASE EndContainer
      <4>1. /\ containers' = [containers EXCEPT ![c].to = Len(canonical)]
            /\ Len(containers) = c /\ 1 \in DOMAIN containers
        BY <2>2, <3>3 DEF EndContainer
      <4>2. containers[1] \in Ranges /\ containers # <<>> /\ containers' # <<>>
        BY <2>2, <4>1
      <4>3. containers'[1].from = containers[1].from
        BY <2>2, <4>1, <4>2 DEF Ranges
      <4> QED
        BY <4>2, <4>3 DEF ChunkInv, StartsWithFirst
    <3> QED
      BY <1>3, <3>1, <3>2, <3>3
  <2> QED
    BY <2>1, <2>3 DEF ChunkInv, CitationsHoldTheHit
<1>4. CASE UNCHANGED vars
  <2>1. UNCHANGED <<pc, canonical, containers, start, chunks>>
    BY <1>4 DEF vars
  <2> QED
    BY <2>1 DEF ChunkInv, StartsWithFirst, CitationsHoldTheHit, CitesWell, HasTextOf, Reaches, LiesBehind, Length
<1> QED
  BY <1>1, <1>2, <1>3, <1>4 DEF ReadNext, WriteStep, Next, Read, readVars

(* Every chunk cites the containers that it has text of, and goes no further. *)
THEOREM ChunksInductive == ReadSpec => [](ContentInv /\ ChunkInv)
<1>1. ReadInit => ContentInv /\ ChunkInv
  <2>1. ReadInit => ChunkInv
    BY DEF ReadInit, Init, ChunkInv, StartsWithFirst, CitationsHoldTheHit
  <2> QED
    BY <2>1, InitContent DEF ReadInit
<1>2. ContentInv /\ ChunkInv /\ [ReadNext]_readVars => (ContentInv /\ ChunkInv)'
  BY ContentStep, ChunkInvStep
<1> QED
  BY <1>1, <1>2, PTL DEF ReadSpec

(* A search hit names every container its chunk has text of, and the first   *)
(* and last it names are of its place in the text, whatever the overlap of   *)
(* the chunks.                                                               *)
THEOREM HitsAreCited == ReadSpec => []CitationsHoldTheHit
<1>1. ContentInv /\ ChunkInv => CitationsHoldTheHit
  BY DEF ChunkInv
<1> QED
  BY <1>1, ChunksInductive, PTL

-----------------------------------------------------------------------------
(* The chunks of a modest overlap: the next chunk starts behind the start of *)
(* this one and at least its overlap before its end, less than half a chunk. *)
Phrase == Smaller(Length, OverlapBytes)
HeldByOne(o) == \E i \in 1..Len(chunks) : chunks[i].from <= o /\ o + Phrase <= chunks[i].to

AdvanceInv ==
  /\ pc = "chunk" => start < Length /\ IsCut(start)
  /\ pc = "chunk" /\ chunks # <<>> =>
       LET last == chunks[Len(chunks)]
       IN  last.from < start /\ last.to <= start + ChunkBytes \div 2 /\ last.to < Length
  /\ ChunksAdvance
  /\ \A i \in 1..Len(chunks) : IsCut(chunks[i].from) /\ IsCut(chunks[i].to)
  /\ \A o \in 0..(Length - Phrase) : o < start \/ (pc = "done" /\ canonical # <<>>) => HeldByOne(o)

LEMMA ChunkAdvances ==
  ASSUME ModestOverlap, ContentInv, ChunkInv, AdvanceInv, WriteChunk
  PROVE  AdvanceInv'
<1> DEFINE half == ChunkBytes \div 2
           n == Len(chunks)
<1>1. /\ start \in 0..Length /\ start < Length /\ IsCut(start) /\ pc = "chunk" /\ chunks \in Seq(Chunks)
      /\ ChunkEnd = Length => pc' = "done" /\ start' = start
      /\ ChunkEnd # Length =>
           pc' = "chunk" /\ start' = Utf8Boundary(Larger(start + 1, ChunkEnd - OverlapBytes))
  BY ChunkWritten DEF AdvanceInv
<1>2. PICK chunk \in Chunks :
        chunks' = Append(chunks, chunk) /\ chunk.from = start /\ chunk.to = ChunkEnd
  BY ChunkWritten
<1>3. /\ canonical' = canonical /\ Length' = Length /\ Length \in Nat /\ IsUtf8(canonical)
      /\ Phrase' = Phrase /\ Phrase \in Nat /\ Phrase <= OverlapBytes /\ Phrase <= Length
      /\ OverlapBytes \in Nat /\ ChunkBytes \in Nat /\ half \in Nat /\ start \in Nat /\ n \in Nat
  <2>1. canonical' = canonical /\ Length' = Length /\ Length \in Nat /\ IsUtf8(canonical)
    BY DEF WriteChunk, contentVars, Length, ContentInv, Progress, IsUtf8
  <2> QED
    BY <1>1, <2>1, ChunkAssumption DEF Phrase, Smaller
<1>4. \A o : IsCut(o) <=> (o = 0 \/ o = Length' \/ canonical'[o + 1] # "cont")
  BY <1>3 DEF IsCut, Byte
<1>5. /\ ChunkEnd \in 0..Length /\ IsCut(ChunkEnd) /\ ChunkEnd <= start + ChunkBytes
      /\ ChunkEnd # Length => ChunkEnd >= start + half + 1
  <2>1. ChunkBytes - 3 >= half + 1
    BY <1>3 DEF ModestOverlap
  <2>2. /\ ChunkEnd \in 0..Length /\ ChunkEnd <= start + ChunkBytes /\ IsCut(ChunkEnd)
        /\ ChunkEnd # Length =>
              \/ ChunkEnd >= start + half + 1
              \/ ChunkEnd >= start + ChunkBytes - 3
    BY <1>1, <1>3, ChunkEnds
  <2> HIDE DEF half
  <2> QED
    BY <1>3, <2>1, <2>2
<1>6. OverlapBytes <= half - 3
  BY DEF ModestOverlap
<1> HIDE DEF half
<1>7. ChunkEnd # Length =>
        /\ start < start' /\ start' \in 0..Length /\ start' < Length /\ IsCut(start')
        /\ ChunkEnd <= start' + half /\ start' <= ChunkEnd - OverlapBytes
  <2> SUFFICES ASSUME ChunkEnd # Length
               PROVE  /\ start < start' /\ start' \in 0..Length /\ start' < Length /\ IsCut(start')
                      /\ ChunkEnd <= start' + half /\ start' <= ChunkEnd - OverlapBytes
    OBVIOUS
  <2> DEFINE offset == Larger(start + 1, ChunkEnd - OverlapBytes)
  <2>1. offset = ChunkEnd - OverlapBytes
    BY <1>3, <1>5, <1>6 DEF Larger
  <2> HIDE DEF offset
  <2>2. start' = Utf8Boundary(offset)
    BY <1>1 DEF offset
  <2>3. /\ Utf8Boundary(offset) \in 0..Length /\ IsCut(Utf8Boundary(offset))
        /\ Utf8Boundary(offset) <= offset /\ offset - Utf8Boundary(offset) <= 3
    BY <1>1, <1>5, NextStart DEF offset
  <2> QED
    BY <1>3, <1>5, <1>6, <2>1, <2>2, <2>3
<1>8. /\ Len(chunks') = n + 1 /\ chunks' \in Seq(Chunks) /\ chunks'[n + 1] = chunk
      /\ \A i \in 1..n : chunks'[i] = chunks[i]
      /\ \A i \in 1..(n + 1) : i \in 1..n \/ i = n + 1
  BY <1>1, <1>2
<1>9. pc' = "chunk" => start' < Length' /\ IsCut(start)'
  <2>1. pc' = "chunk" => ChunkEnd # Length
    BY <1>1
  <2>2. IsCut(start') <=> IsCut(start)'
    BY <1>4 DEF IsCut, Byte
  <2> QED
    BY <1>3, <1>7, <2>1, <2>2
<1>10. pc' = "chunk" => chunks'[Len(chunks')].from < start' /\ chunks'[Len(chunks')].to <= start' + half
                        /\ chunks'[Len(chunks')].to < Length'
  <2> SUFFICES ASSUME pc' = "chunk" PROVE start < start' /\ ChunkEnd <= start' + half /\ ChunkEnd < Length
    BY <1>2, <1>3, <1>8
  <2>1. ChunkEnd # Length
    BY <1>1
  <2> QED
    BY <1>3, <1>5, <1>7, <2>1
<1>11. ChunksAdvance'
  <2>1. ASSUME NEW i \in 1..(n + 1) PROVE chunks'[i].to - chunks'[i].from \in 1..ChunkBytes
    <3>1. CASE i \in 1..n
      BY <1>8, <3>1 DEF AdvanceInv, ChunksAdvance
    <3>2. CASE i = n + 1
      <4>1. start < ChunkEnd
        BY <1>1, <1>3, <1>5
      <4> QED
        BY <1>2, <1>3, <1>5, <1>8, <3>2, <4>1
    <3> QED
      BY <1>8, <3>1, <3>2
  <2>2. ASSUME NEW i \in 1..n
        PROVE  chunks'[i].from < chunks'[i + 1].from /\ chunks'[i].to < chunks'[i + 1].to
    <3>1. CASE i = n
      <4>1. chunks'[i] = chunks[n] /\ chunks'[i + 1] = chunk /\ chunks # <<>> /\ chunks[n] \in Chunks
        BY <1>1, <1>8, <3>1
      <4>2. chunks[n].from < start /\ chunks[n].to <= start + half /\ chunks[n].to < Length
        BY <1>1, <4>1 DEF AdvanceInv, half
      <4>3. chunks[n].to < ChunkEnd
        <5>1. chunks[n].to \in Nat
          BY <4>1 DEF Chunks
        <5> QED
          BY <1>3, <1>5, <4>2, <5>1
      <4> QED
        BY <1>2, <4>1, <4>2, <4>3
    <3>2. CASE i # n
      <4>1. i \in 1..(n - 1) /\ i \in 1..n /\ i + 1 \in 1..n
        BY <1>3, <3>2
      <4> QED
        BY <1>8, <4>1 DEF AdvanceInv, ChunksAdvance
    <3> QED
      BY <3>1, <3>2
  <2>3. (n + 1) - 1 = n
    BY <1>3
  <2> QED
    BY <1>8, <2>1, <2>2, <2>3 DEF ChunksAdvance
<1>12. \A i \in 1..(n + 1) : IsCut(chunks'[i].from) /\ IsCut(chunks'[i].to)
  <2>1. IsCut(chunk.from) /\ IsCut(chunk.to)
    BY <1>1, <1>2, <1>5
  <2>2. \A i \in 1..n : IsCut(chunks[i].from) /\ IsCut(chunks[i].to)
    BY DEF AdvanceInv
  <2> QED
    BY <1>8, <2>1, <2>2
<1>13. \A o \in 0..(Length - Phrase) : o < start' \/ pc' = "done" => HeldByOne(o)'
  <2> SUFFICES ASSUME NEW o \in 0..(Length - Phrase), o < start' \/ pc' = "done"
               PROVE  \E i \in 1..(n + 1) : chunks'[i].from <= o /\ o + Phrase <= chunks'[i].to
    BY <1>3, <1>8 DEF HeldByOne
  <2>1. o \in Nat /\ o + Phrase <= Length
    BY <1>3
  <2>2. CASE o < start
    <3>1. PICK i \in 1..n : chunks[i].from <= o /\ o + Phrase <= chunks[i].to
      BY <2>2 DEF AdvanceInv, HeldByOne
    <3> QED
      BY <1>3, <1>8, <3>1
  <2>3. CASE ~(o < start)
    <3>1. start <= o
      BY <1>3, <2>1, <2>3
    <3>2. o + Phrase <= ChunkEnd
      <4>1. CASE ChunkEnd = Length
        BY <2>1, <4>1
      <4>2. CASE ChunkEnd # Length
        <5>1. o < start'
          BY <1>1, <4>2
        <5> QED
          BY <1>3, <1>5, <1>7, <2>1, <4>2, <5>1
      <4> QED
        BY <4>1, <4>2
    <3> QED
      BY <1>2, <1>3, <1>8, <3>1, <3>2
  <2> QED
    BY <2>2, <2>3
<1> QED
  <2>1. Len(chunks') = n + 1 /\ chunks' # <<>>
    BY <1>8
  <2>2. (\A i \in 1..Len(chunks) : IsCut(chunks[i].from) /\ IsCut(chunks[i].to))'
    BY <1>4, <1>12, <2>1 DEF IsCut, Byte
  <2>3. (\A o \in 0..(Length - Phrase) : o < start \/ (pc = "done" /\ canonical # <<>>) => HeldByOne(o))'
    BY <1>3, <1>13
  <2>4. (pc = "chunk" /\ chunks # <<>> =>
           LET last == chunks[Len(chunks)]
           IN  last.from < start /\ last.to <= start + ChunkBytes \div 2 /\ last.to < Length)'
    BY <1>10 DEF half
  <2> QED
    BY <1>9, <1>11, <2>2, <2>3, <2>4 DEF AdvanceInv

LEMMA AdvanceStep ==
  ASSUME ModestOverlap, ContentInv, ChunkInv, AdvanceInv, ReadNext \/ UNCHANGED readVars
  PROVE  AdvanceInv'
<1>1. CASE WriteChunk
  BY <1>1, ChunkAdvances
<1>2. CASE ContentWritten
  <2>1. /\ pc = "container" /\ pc' = (IF canonical = <<>> THEN "done" ELSE "chunk") /\ canonical' = canonical
        /\ chunks' = <<>> /\ start' = 0 /\ canonical \in Seq(Bytes)
    BY <1>2 DEF ContentWritten, contentVars, ChunkInv, ContentInv, Progress, IsUtf8
  <2>2. Length \in Nat /\ Length' = Length /\ (canonical # <<>> => 0 < Length)
    BY <2>1 DEF Length
  <2>3. \A o \in 0..(Length - Phrase)' : o < start' \/ (pc' = "done" /\ canonical' # <<>>) => HeldByOne(o)'
    BY <2>1
  <2>4. IsCut(start)'
    BY <2>1 DEF IsCut
  <2> QED
    BY <2>1, <2>2, <2>3, <2>4 DEF AdvanceInv, ChunksAdvance
<1>3. CASE StartContainer \/ WriteBlock \/ EndContainer
  <2>1. pc' \in {"container", "block"} /\ chunks' = <<>> /\ start' = 0
    BY <1>3 DEF StartContainer, WriteBlock, EndContainer, ChunkInv
  <2>2. \A o \in 0..(Length - Phrase)' : o < start' \/ (pc' = "done" /\ canonical' # <<>>) => HeldByOne(o)'
    BY <2>1
  <2> QED
    BY <2>1, <2>2 DEF AdvanceInv, ChunksAdvance
<1>4. CASE UNCHANGED vars
  BY <1>4 DEF vars, AdvanceInv, ChunksAdvance, HeldByOne, Phrase, Length, IsCut, Byte
<1> QED
  BY <1>1, <1>2, <1>3, <1>4 DEF ReadNext, WriteStep, Next, Read, readVars

LEMMA AdvanceInductive ==
  ASSUME ModestOverlap
  PROVE  ReadSpec => [](ContentInv /\ ChunkInv /\ AdvanceInv)
<1>1. ReadInit => AdvanceInv
  BY DEF ReadInit, Init, AdvanceInv, ChunksAdvance
<1>2. ContentInv /\ ChunkInv /\ AdvanceInv /\ [ReadNext]_readVars => AdvanceInv'
  BY AdvanceStep
<1> QED
  BY <1>1, <1>2, ChunksInductive, PTL DEF ReadSpec

(* With a modest overlap every phrase up to its length is held by a chunk.   *)
THEOREM PhrasesAreHeld ==
  ASSUME ModestOverlap
  PROVE  ReadSpec => []PhrasesAreSearchable
<1>1. AdvanceInv => PhrasesAreSearchable
  BY DEF AdvanceInv, PhrasesAreSearchable, HeldByOne, Phrase
<1> QED
  BY <1>1, AdvanceInductive, PTL

-----------------------------------------------------------------------------
(* Paging: the windows a client is given follow each other, and each says    *)
(* truly which containers it holds.                                          *)
Windows == [first : Nat, last : Nat, from : Nat, to : Nat, truncated : BOOLEAN]

IsWindow(w) ==
  /\ w.first <= w.last /\ w.last < Len(containers)
  /\ w.from = Row(w.first).from /\ w.to - w.from <= MaxBytes
  /\ IsCut(w.from) /\ IsCut(w.to)
  /\ IF w.truncated
     THEN /\ w.first = w.last
          /\ Row(w.first).to - Row(w.first).from > MaxBytes /\ w.to > w.from + MaxBytes - 4
     ELSE w.to = Row(w.last).to

PagingInv ==
  /\ windows \in Seq(Windows)
  /\ pc # "done" => windows = <<>> /\ next = 0
  /\ next \in 0..Len(containers)
  /\ \A i \in 1..Len(windows) : IsWindow(windows[i]) /\ windows[i].last < next
  /\ windows # <<>> => windows[Len(windows)].last + 1 = next
  /\ \A i \in 1..(Len(windows) - 1) : windows[i + 1].first = windows[i].last + 1
  /\ \A i, j \in 1..Len(windows) : i < j => windows[i].last < windows[j].first
  /\ \A k \in 0..(next - 1) : \E i \in 1..Len(windows) : windows[i].first <= k /\ k <= windows[i].last

LEMMA WindowFields ==
  ASSUME NEW w \in Windows
  PROVE  w.first \in Nat /\ w.last \in Nat /\ w.from \in Nat /\ w.to \in Nat /\ w.truncated \in BOOLEAN
BY DEF Windows

LEMMA WindowBounds ==
  ASSUME NEW w, IsWindow(w)
  PROVE  /\ w.first <= w.last /\ w.last < Len(containers)
         /\ w.from = Row(w.first).from /\ w.to - w.from <= MaxBytes
         /\ IsCut(w.from) /\ IsCut(w.to)
BY DEF IsWindow

LEMMA WindowIsTrue ==
  ASSUME ContentInv, pc = "done", NEW number \in 0..(Len(containers) - 1), NEW count \in 1..MaxCount
  PROVE  LET w == Window(number, count)
         IN  w \in Windows /\ IsWindow(w) /\ w.first = number
<1> DEFINE n == Len(containers)
           T == Fitting(number, count)
           w == Window(number, count)
<1>1. /\ containers \in Seq(Ranges) /\ n \in Nat /\ number \in Nat /\ number < n
      /\ MaxBytes \in Nat /\ MaxBytes >= 4 /\ Length \in Nat /\ IsUtf8(canonical)
  BY WindowAssumption DEF ContentInv, Progress, Length, IsUtf8
<1>2. \A k \in 0..(n - 1) :
        /\ Row(k).from \in 0..Length /\ Row(k).to \in 0..Length /\ Row(k).from <= Row(k).to
        /\ IsCut(Row(k).from) /\ IsCut(Row(k).to)
  <2> TAKE k \in 0..(n - 1)
  <2>1. k + 1 \in 1..n
    BY <1>1
  <2>2. containers[k + 1] \in Ranges
    BY <1>1, <2>1
  <2>3. /\ containers[k + 1].from <= containers[k + 1].to /\ containers[k + 1].to <= Len(canonical)
        /\ CutIn(canonical, containers[k + 1].from) /\ CutIn(canonical, containers[k + 1].to)
    BY <2>1 DEF ContentInv, ContainersIn
  <2> QED
    BY <1>1, <2>2, <2>3 DEF Row, Ranges, Length, CutIn, IsCut, Byte
<1>3. CASE T = {}
  <2>1. w = [first |-> number, last |-> number, from |-> Row(number).from,
             to |-> Utf8Boundary(Row(number).from + MaxBytes), truncated |-> TRUE]
    BY <1>3 DEF Window
  <2>2. Row(number).to - Row(number).from > MaxBytes
    <3>1. number \in Requested(number, count)
      BY <1>1 DEF Requested, Smaller
    <3>2. ~(Row(number).to - Row(number).from <= MaxBytes)
      BY <1>3, <3>1 DEF Fitting
    <3> QED
      BY <1>1, <1>2, <3>2
  <2> DEFINE o == Row(number).from + MaxBytes
  <2>3. o \in 0..Length
    BY <1>1, <1>2, <2>2
  <2>4. o = Row(number).from + MaxBytes /\ Row(number).from \in Nat
    BY <1>1, <1>2
  <2>5. w.to = Utf8Boundary(o) /\ w.from = Row(number).from
    BY <2>1
  <2> HIDE DEF o
  <2>6. Utf8Boundary(o) \in 0..o /\ o - Utf8Boundary(o) <= 3 /\ IsCut(Utf8Boundary(o))
    BY <1>1, <2>3, BoundaryIsCut
  <2>7. w \in Windows
    BY <1>1, <2>1, <2>3, <2>4, <2>5, <2>6 DEF Windows
  <2>8. /\ w.first = number /\ w.last = number /\ w.truncated /\ w.from = Row(w.first).from
        /\ w.to - w.from <= MaxBytes /\ w.to > w.from + MaxBytes - 4
        /\ IsCut(w.from) /\ IsCut(w.to)
    <3> HIDE DEF w
    <3>1. w.first = number /\ w.last = number /\ w.truncated
      BY <2>1
    <3> QED
      BY <1>1, <1>2, <2>3, <2>4, <2>5, <2>6, <3>1
  <2> HIDE DEF w
  <2>9. IsWindow(w)
    <3>1. w.first <= w.last /\ w.last < Len(containers) /\ Row(w.first) = Row(number)
      BY <1>1, <2>8
    <3> QED
      BY <2>2, <2>8, <3>1 DEF IsWindow
  <2> QED
    BY <2>7, <2>8, <2>9 DEF w
<1>4. CASE T # {}
  <2> DEFINE last == Greatest(T)
  <2>1. w = [first |-> number, last |-> last, from |-> Row(number).from,
             to |-> Row(last).to, truncated |-> FALSE]
    BY <1>4 DEF Window
  <2>2. T \subseteq number..(n - 1) /\ \A k \in T : Row(k).to - Row(number).from <= MaxBytes
    <3>1. Requested(number, count) \subseteq number..(n - 1)
      BY <1>1 DEF Requested, Smaller
    <3> QED
      BY <3>1 DEF Fitting
  <2>3. T \subseteq Nat /\ \A k \in T : k <= n
    BY <1>1, <2>2
  <2>4. last \in T
    <3> HIDE DEF T
    <3> QED BY <1>1, <1>4, <2>3, GreatestOf
  <2>5. last \in number..(n - 1) /\ Row(last).to - Row(number).from <= MaxBytes
    BY <2>2, <2>4
  <2> HIDE DEF last
  <2>6. last \in 0..(n - 1) /\ last \in Nat /\ number <= last /\ last < n
    BY <1>1, <2>5
  <2>7. /\ Row(number).from \in Nat /\ Row(last).to \in Nat
        /\ IsCut(Row(number).from) /\ IsCut(Row(last).to)
    BY <1>2, <2>6
  <2>8. w \in Windows
    BY <1>1, <2>1, <2>6, <2>7 DEF Windows
  <2>9. w.first = number /\ w.last = last /\ w.from = Row(number).from /\ w.to = Row(last).to /\ ~w.truncated
    BY <2>1
  <2> HIDE DEF w
  <2>10. IsWindow(w)
    <3>1. /\ w.first <= w.last /\ w.last < Len(containers) /\ w.from = Row(w.first).from
          /\ w.to - w.from <= MaxBytes /\ w.to = Row(w.last).to
      BY <2>5, <2>6, <2>9
    <3> QED
      BY <2>7, <2>9, <3>1 DEF IsWindow
  <2> QED
    BY <2>8, <2>9, <2>10 DEF w
<1> QED
  BY <1>3, <1>4

LEMMA ReadPages ==
  ASSUME ContentInv, PagingInv, Read
  PROVE  PagingInv'
<1> DEFINE n == Len(windows)
<1>1. pc = "done" /\ next < Len(containers) /\ UNCHANGED vars
  BY DEF Read
<1>2. PICK count \in 1..MaxCount :
        windows' = Append(windows, Window(next, count)) /\ next' = Window(next, count).last + 1
  BY DEF Read
<1>3. Len(containers) \in Nat /\ next \in 0..Len(containers) /\ windows \in Seq(Windows) /\ n \in Nat
  BY DEF ContentInv, Progress, PagingInv
<1>4. next \in 0..(Len(containers) - 1)
  BY <1>1, <1>3
<1>5. PICK w : w = Window(next, count)
  OBVIOUS
<1>6. w \in Windows /\ IsWindow(w) /\ w.first = next
  BY <1>1, <1>4, <1>5, WindowIsTrue
<1>7. /\ pc' = pc /\ containers' = containers /\ canonical' = canonical
  BY <1>1 DEF vars
<1>8. /\ windows' \in Seq(Windows) /\ Len(windows') = n + 1 /\ windows'[n + 1] = w
      /\ \A i \in 1..n : windows'[i] = windows[i]
      /\ \A i \in 1..(n + 1) : i \in 1..n \/ i = n + 1
      /\ next' = w.last + 1
  BY <1>2, <1>3, <1>5, <1>6
<1>9. /\ w.last \in Nat /\ w.first \in Nat /\ w.first <= w.last /\ w.last < Len(containers)
      /\ next' \in 0..Len(containers) /\ next < next' /\ next \in Nat /\ next' \in Nat
  <2>1. w.last \in Nat /\ w.first \in Nat
    BY <1>6, WindowFields
  <2>2. w.first <= w.last /\ w.last < Len(containers)
    BY <1>6, WindowBounds
  <2> QED
    BY <1>3, <1>6, <1>8, <2>1, <2>2
<1>10. ASSUME NEW i \in 1..(n + 1) PROVE IsWindow(windows'[i]) /\ windows'[i].last < next'
  <2>1. CASE i \in 1..n
    <3>1. windows[i].last \in Nat /\ windows[i].last < next /\ IsWindow(windows[i])
      <4>1. windows[i] \in Windows
        BY <1>3, <2>1
      <4> QED
        BY <2>1, <4>1, WindowFields DEF PagingInv
    <3> QED
      BY <1>8, <1>9, <2>1, <3>1
  <2>2. CASE i = n + 1
    BY <1>6, <1>8, <1>9, <2>2
  <2> QED
    BY <1>8, <2>1, <2>2
<1>11. ASSUME NEW i \in 1..(Len(windows') - 1) PROVE windows'[i + 1].first = windows'[i].last + 1
  <2>1. i \in 1..n
    BY <1>3, <1>8
  <2>2. CASE i = n
    <3>1. windows # <<>> /\ windows'[i] = windows[n] /\ windows'[i + 1] = w
      BY <1>3, <1>8, <2>1, <2>2
    <3> QED
      BY <1>6, <3>1 DEF PagingInv
  <2>3. CASE i # n
    <3>1. i \in 1..(n - 1) /\ i + 1 \in 1..n
      BY <1>3, <2>1, <2>3
    <3> QED
      BY <1>8, <2>1, <3>1 DEF PagingInv
  <2> QED
    BY <2>2, <2>3
<1>12. ASSUME NEW i \in 1..(n + 1), NEW j \in 1..(n + 1), i < j PROVE windows'[i].last < windows'[j].first
  <2>1. i \in 1..n
    BY <1>3, <1>12
  <2>2. CASE j = n + 1
    BY <1>6, <1>8, <2>1, <2>2 DEF PagingInv
  <2>3. CASE j \in 1..n
    BY <1>8, <1>12, <2>1, <2>3 DEF PagingInv
  <2> QED
    BY <1>8, <2>2, <2>3
<1>13. ASSUME NEW k \in 0..(next' - 1)
       PROVE  \E i \in 1..(n + 1) : windows'[i].first <= k /\ k <= windows'[i].last
  <2>1. CASE k < next
    <3>1. PICK i \in 1..n : windows[i].first <= k /\ k <= windows[i].last
      BY <1>3, <2>1 DEF PagingInv
    <3>2. i \in 1..(n + 1)
      BY <1>3
    <3> QED
      BY <1>8, <3>1, <3>2
  <2>2. CASE ~(k < next)
    <3>1. w.first <= k /\ k <= w.last /\ n + 1 \in 1..(n + 1)
      BY <1>3, <1>6, <1>8, <1>9, <2>2
    <3> QED
      BY <1>8, <3>1
  <2> QED
    BY <2>1, <2>2
<1>14. (\A i \in 1..Len(windows) : IsWindow(windows[i]) /\ windows[i].last < next)'
  BY <1>7, <1>8, <1>10 DEF IsWindow, Row, IsCut, Byte, Length
<1> QED
  <2>1. windows' # <<>> => windows'[Len(windows')].last + 1 = next'
    BY <1>8
  <2> QED
    BY <1>1, <1>7, <1>8, <1>9, <1>11, <1>12, <1>13, <1>14, <2>1 DEF PagingInv

LEMMA PagingStep ==
  ASSUME ContentInv, PagingInv, ReadNext \/ UNCHANGED readVars
  PROVE  PagingInv'
<1>1. CASE Read
  BY <1>1, ReadPages
<1>2. CASE WriteStep
  <2>1. pc # "done" /\ windows' = <<>> /\ next' = 0
    BY <1>2 DEF WriteStep, Next, StartContainer, WriteBlock, EndContainer, ContentWritten, WriteChunk, PagingInv
  <2>2. Len(containers') \in Nat
    BY ContentStep, <1>2 DEF ReadNext, ContentInv, Progress
  <2> QED
    BY <2>1, <2>2 DEF PagingInv
<1>3. CASE UNCHANGED readVars
  BY <1>3 DEF readVars, vars, PagingInv, IsWindow, Row, IsCut, Byte, Length
<1> QED
  BY <1>1, <1>2, <1>3 DEF ReadNext

LEMMA PagingInductive == ReadSpec => [](ContentInv /\ PagingInv)
<1>1. ReadInit => PagingInv
  BY DEF ReadInit, Init, PagingInv
<1>2. ContentInv /\ PagingInv /\ [ReadNext]_readVars => PagingInv'
  BY PagingStep
<1> QED
  BY <1>1, <1>2, ContentInductive, PTL DEF ReadSpec

LEMMA PagesHoldEverything ==
  ASSUME ContentInv, PagingInv
  PROVE  PagingReadsEverything
<1> DEFINE n == Len(containers)
<1>1. containers \in Seq(Ranges) /\ n \in Nat /\ windows \in Seq(Windows) /\ Len(windows) \in Nat /\ MaxBytes \in Nat
  BY WindowAssumption DEF ContentInv, Progress, PagingInv
<1>2. \A k \in 0..(n - 1) : k + 1 \in 1..n /\ Row(k).from \in Nat /\ Row(k).to \in Nat /\ Row(k).from <= Row(k).to
  <2> TAKE k \in 0..(n - 1)
  <2>1. k + 1 \in 1..n
    BY <1>1
  <2>2. containers[k + 1] \in Ranges
    BY <1>1, <2>1
  <2> QED
    BY <2>1, <2>2 DEF Row, Ranges, ContentInv, ContainersIn
<1>3. \A k, l \in 0..(n - 1) : k <= l => Row(k).from <= Row(l).from /\ Row(k).to <= Row(l).to
  <2> SUFFICES ASSUME NEW k \in 0..(n - 1), NEW l \in 0..(n - 1), k < l
               PROVE  Row(k).from <= Row(l).from /\ Row(k).to <= Row(l).to
    BY <1>1, <1>2
  <2>1. k + 1 < l + 1 /\ k + 1 \in 1..n /\ l + 1 \in 1..n
    BY <1>1
  <2>2. Row(k).to <= Row(l).from
    BY <2>1 DEF ContentInv, InOrder, Row
  <2>3. /\ Row(k).from \in Nat /\ Row(k).to \in Nat /\ Row(k).from <= Row(k).to
        /\ Row(l).from \in Nat /\ Row(l).to \in Nat /\ Row(l).from <= Row(l).to
    BY <1>2
  <2> QED
    BY <2>2, <2>3
<1>4. ASSUME next = n, NEW k \in 0..(n - 1)
      PROVE  IF Row(k).to - Row(k).from <= MaxBytes
             THEN Cardinality({i \in 1..Len(windows) :
                                 windows[i].first <= k /\ k <= windows[i].last /\ Holds(windows[i], k)}) = 1
             ELSE \E i \in 1..Len(windows) :
                    /\ windows[i].first = k /\ windows[i].last = k
                    /\ windows[i].truncated /\ windows[i].from = Row(k).from
                    /\ windows[i].to > windows[i].from + MaxBytes - 4
  <2>1. PICK i \in 1..Len(windows) : windows[i].first <= k /\ k <= windows[i].last
    BY <1>4 DEF PagingInv
  <2>2. PICK w \in Windows : w = windows[i]
    BY <1>1
  <2>3. IsWindow(w)
    BY <2>2 DEF PagingInv
  <2>4. w.first \in 0..(n - 1) /\ w.last \in 0..(n - 1) /\ w.first <= k /\ k <= w.last
        /\ w.from \in Nat /\ w.to \in Nat
    <3>1. w.first \in Nat /\ w.last \in Nat /\ w.from \in Nat /\ w.to \in Nat
      BY WindowFields
    <3>2. w.first <= w.last /\ w.last < Len(containers)
      BY <2>3, WindowBounds
    <3> QED
      BY <1>1, <2>1, <2>2, <3>1, <3>2
  <2>5. /\ Row(w.first).from <= Row(k).from /\ Row(k).to <= Row(w.last).to
        /\ Row(k).from \in Nat /\ Row(k).to \in Nat
    BY <1>2, <1>3, <2>4
  <2>6. CASE w.truncated
    <3>1. w.first = k /\ w.last = k
      BY <1>1, <2>3, <2>4, <2>6 DEF IsWindow
    <3>2. /\ Row(k).to - Row(k).from > MaxBytes /\ w.from = Row(k).from
          /\ w.to > w.from + MaxBytes - 4
      BY <2>3, <2>6, <3>1 DEF IsWindow
    <3>3. ~(Row(k).to - Row(k).from <= MaxBytes)
      BY <1>1, <2>5, <3>2
    <3> QED
      BY <2>2, <2>6, <3>1, <3>2, <3>3
  <2>7. CASE ~w.truncated
    <3>1. w.from = Row(w.first).from /\ w.to = Row(w.last).to /\ w.to - w.from <= MaxBytes
      BY <2>3, <2>7 DEF IsWindow
    <3>2. w.from <= Row(k).from /\ Row(k).to <= w.to /\ Row(k).to - Row(k).from <= MaxBytes
      BY <1>1, <2>4, <2>5, <3>1
    <3>3. Holds(w, k)
      BY <2>7, <3>2 DEF Holds
    <3>4. ASSUME NEW j \in 1..Len(windows), windows[j].first <= k, k <= windows[j].last PROVE j = i
      <4>1. windows[i] \in Windows /\ windows[j] \in Windows
        BY <1>1
      <4>2. /\ windows[j].first \in Nat /\ windows[j].last \in Nat
            /\ windows[i].first \in Nat /\ windows[i].last \in Nat
        BY <4>1, WindowFields
      <4>3. /\ i < j => windows[i].last < windows[j].first
            /\ j < i => windows[j].last < windows[i].first
        BY DEF PagingInv
      <4>4. ~(i < j) /\ ~(j < i)
        BY <1>4, <2>1, <3>4, <4>2, <4>3
      <4> QED
        BY <4>4
    <3>5. {j \in 1..Len(windows) : windows[j].first <= k /\ k <= windows[j].last /\ Holds(windows[j], k)} = {i}
      BY <2>1, <2>2, <3>3, <3>4
    <3>6. Cardinality({i}) = 1
      BY FS_Singleton
    <3> QED
      BY <3>2, <3>5, <3>6
  <2> QED
    BY <2>6, <2>7
<1> QED
  BY <1>4 DEF PagingReadsEverything, PagingInv

(* A client that follows the answers reads every container once and whole,   *)
(* but for the ones it is told are cut, which exceed the budget.             *)
THEOREM PagingIsComplete == ReadSpec => []PagingReadsEverything
<1>1. ContentInv /\ PagingInv => PagingReadsEverything
  BY PagesHoldEverything
<1> QED
  BY <1>1, PagingInductive, PTL

(* With a modest overlap the chunks advance within their size; an answer     *)
(* stays within its budget; and all of them decode.                          *)
THEOREM PiecesAreText ==
  ASSUME ModestOverlap
  PROVE  ReadSpec => []PiecesAreBoundedText
<1>1. AdvanceInv /\ PagingInv => PiecesAreBoundedText
  BY DEF AdvanceInv, PagingInv, IsWindow, PiecesAreBoundedText
<1> QED
  BY <1>1, AdvanceInductive, PagingInductive, PTL
=============================================================================
