----------------------- MODULE DocumentQueries_proofs -----------------------
(***************************************************************************)
(* Proofs about DocumentQueries: for every size of database, limit and     *)
(* alteration, what a session has open is the whole database; and for      *)
(* every document and search, a search answers with the chunks that match. *)
(***************************************************************************)
EXTENDS DocumentQueries, FiniteSetTheorems, SequenceTheorems, TLAPS

Stages == {"extracted", "built", "lost", "written", "header", "unpacking", "unpacked", "refused", "failed",
           "open", "closed"}

Written == [header |-> "whole", declared |-> database, content |-> database, decodes |-> TRUE, schema |-> "current"]

(* Until the client has it, and when it left it alone, the artifact is the   *)
(* one that was written.                                                     *)
ArtifactInv ==
  /\ stage \in Stages /\ database \in Nat
  /\ artifact.declared \in Nat /\ artifact.content \in Nat
  /\ stage \in {"extracted", "built", "lost"} => artifact = NoArtifact
  /\ stage \in {"extracted", "built", "lost", "written"} => ~altered
  /\ stage \notin {"extracted", "built", "lost"} => altered \/ artifact = Written

(* What was copied is a part of the content and of what was declared; and it *)
(* is all of both behind the check at the end.                               *)
CopyInv ==
  /\ copied \in Nat
  /\ copied <= artifact.content /\ copied <= artifact.declared /\ copied <= MaxDatabase
  /\ stage \in {"extracted", "built", "lost", "written", "header"} => copied = 0
  /\ stage \in {"unpacking", "unpacked"} => artifact.declared <= MaxDatabase
  /\ stage \in {"unpacked", "open", "closed"} => copied = artifact.declared

(* An artifact that was left alone is refused for its size only, and no      *)
(* temporary file is left behind.                                            *)
EndInv ==
  /\ stage \in {"lost", "refused", "failed", "closed"} => files = {}
  /\ stage = "refused" => altered \/ database > MaxDatabase

FileInv == ArtifactInv /\ CopyInv /\ EndInv

-----------------------------------------------------------------------------
(* Building, writing and keeping an artifact copies nothing. *)
LEMMA WriterStep ==
  ASSUME FileInv, BuildDatabase \/ WriteArtifact \/ WriteFails \/ ReturnArtifact \/ OpenOwn
  PROVE  FileInv'
<1> USE DEF FileInv, ArtifactInv, CopyInv, EndInv, Stages, Written, NoArtifact
<1>1. CASE BuildDatabase
  BY <1>1 DEF BuildDatabase
<1>2. CASE WriteArtifact
  BY <1>2, FileAssumption DEF WriteArtifact
<1>3. CASE WriteFails
  BY <1>3 DEF WriteFails
<1>4. CASE ReturnArtifact
  <2>1. /\ stage = "written" /\ stage' = "header" /\ copied = 0
        /\ artifact = Written /\ database \in Nat
        /\ UNCHANGED <<database, copied>>
    BY <1>4 DEF ReturnArtifact
  <2>2. ASSUME NEW a \in Alterations PROVE a.declared \in Nat /\ a.content \in Nat
    <3>1. CASE a \in {[artifact EXCEPT !.header = h] : h \in {"short", "foreign"}} \cup {[artifact EXCEPT !.schema = "other"]}
      BY <2>1, <3>1
    <3>2. CASE a \in {[artifact EXCEPT !.content = n] : n \in (0..(database + 2)) \ {database}}
      BY <2>1, <3>2
    <3>3. CASE a \in {[artifact EXCEPT !.declared = n] : n \in (0..(database + 1)) \ {database}}
      BY <2>1, <3>3
    <3>4. CASE a \in {[artifact EXCEPT !.decodes = FALSE, !.content = n] : n \in 0..database}
      <4>1. PICK n \in 0..database : a = [[artifact EXCEPT !.decodes = FALSE] EXCEPT !.content = n]
        BY <3>4, Zenon
      <4> QED
        BY <2>1, <4>1
    <3> QED
      BY <3>1, <3>2, <3>3, <3>4 DEF Alterations
  <2>3. artifact'.declared \in Nat /\ artifact'.content \in Nat
    BY <1>4, <2>2 DEF ReturnArtifact
  <2>4. altered' \/ artifact' = Written'
    BY <1>4, <2>1 DEF ReturnArtifact
  <2> QED
    BY <2>1, <2>3, <2>4, FileAssumption
<1>5. CASE OpenOwn
  BY <1>5 DEF OpenOwn
<1> QED
  BY <1>1, <1>2, <1>3, <1>4, <1>5

(* Nothing is copied beyond what the header declares. *)
LEMMA ReaderStep ==
  ASSUME FileInv, ReadHeader \/ UnpackChunk \/ EndUnpack \/ Connect \/ ReadFails \/ Close
  PROVE  FileInv'
<1> USE DEF FileInv, ArtifactInv, CopyInv, EndInv, Stages, Refuse
<1>1. CASE ReadHeader
  <2>1. CASE HeaderIsGood
    BY <1>1, <2>1 DEF ReadHeader, HeaderIsGood, Written
  <2>2. CASE ~HeaderIsGood
    <3>1. stage = "header" /\ stage' = "refused" /\ files' = {} /\ UNCHANGED <<database, artifact, altered, copied>>
      BY <1>1, <2>2 DEF ReadHeader
    <3>2. altered \/ database > MaxDatabase
      BY <2>2, <3>1, FileAssumption DEF HeaderIsGood, Written
    <3> QED
      BY <3>1, <3>2 DEF Written
  <2> QED
    BY <2>1, <2>2
<1>2. CASE UnpackChunk
  <2>1. Piece \in Nat /\ copied + Piece <= artifact.content
    BY <1>2, FileAssumption DEF UnpackChunk, Piece, Remaining
  <2>2. stage = "unpacking" /\ UNCHANGED <<database, artifact, altered>>
    BY <1>2 DEF UnpackChunk
  <2>3. CASE copied + Piece > artifact.declared \/ copied + Piece > MaxDatabase
    <3>1. stage' = "refused" /\ files' = {} /\ copied' = copied
      BY <1>2, <2>3 DEF UnpackChunk
    <3>2. altered \/ (artifact.declared = database /\ artifact.content = database /\ database <= MaxDatabase)
      BY <2>2 DEF Written
    <3>3. altered
      BY <2>1, <2>3, <3>2, FileAssumption
    <3> QED
      BY <2>2, <3>1, <3>3 DEF Written
  <2>4. CASE ~(copied + Piece > artifact.declared \/ copied + Piece > MaxDatabase)
    <3>1. copied' = copied + Piece /\ stage' = stage /\ files' = files
      BY <1>2, <2>4 DEF UnpackChunk
    <3> QED
      BY <2>1, <2>2, <2>4, <3>1, FileAssumption DEF Written
  <2> QED
    BY <2>3, <2>4
<1>3. CASE EndUnpack
  BY <1>3 DEF EndUnpack, Remaining, Written
<1>4. CASE Connect
  BY <1>4 DEF Connect, Written
<1>5. CASE ReadFails
  BY <1>5 DEF ReadFails, Written
<1>6. CASE Close
  BY <1>6 DEF Close, Written
<1> QED
  BY <1>1, <1>2, <1>3, <1>4, <1>5, <1>6

(* Every reachable state satisfies the invariant of the file. *)
THEOREM FileInductive == QuerySpec => []FileInv
<1>1. QueryInit => FileInv
  BY FileAssumption
     DEF QueryInit, FileInit, FileInv, ArtifactInv, CopyInv, EndInv, Stages, NoArtifact
<1>2. FileInv /\ [QueryNext]_queryVars => FileInv'
  <2>1. FileInv /\ UNCHANGED fileVars => FileInv'
    BY DEF FileInv, ArtifactInv, CopyInv, EndInv, Written, fileVars
  <2> QED
    BY <2>1, WriterStep, ReaderStep DEF QueryNext, Query, FileStep, queryVars
<1> QED
  BY <1>1, <1>2, PTL DEF QuerySpec

(* ArtifactReader opens the whole database its header declares, which is the *)
(* one ArtifactWriter made unless the artifact was altered; and refuses an   *)
(* artifact that was left alone only for the size the writer does not check. *)
THEOREM OpenIsWhole == QuerySpec => []OpenedIsWhole
<1>1. FileInv => OpenedIsWhole
  BY DEF FileInv, ArtifactInv, CopyInv, EndInv, Stages, Written, OpenedIsWhole
<1> QED
  BY <1>1, FileInductive, PTL

-----------------------------------------------------------------------------
(* Facts about finite sets of numbers.                                       *)
LEMMA LeastIndex ==
  ASSUME NEW n \in Nat, NEW F, F \subseteq 1..n, F # {}
  PROVE  \E k \in F : \A j \in F : k <= j
<1>1. F \subseteq Nat
  OBVIOUS
<1>2. IsWellFoundedOn(OpToRel(<, Nat), Nat)
  BY NatLessThanWellFounded
<1>3. PICK k \in F : \A j \in F : ~(<<j, k>> \in OpToRel(<, Nat))
  BY <1>1, <1>2, WFMin
<1>4. \A j \in F : ~(j < k)
  BY <1>1, <1>3 DEF OpToRel
<1>5. \A j \in F : k <= j
  <2> SUFFICES ASSUME NEW j \in F PROVE k <= j
    OBVIOUS
  <2>1. j \in Nat /\ k \in Nat /\ ~(j < k)
    BY <1>1, <1>3, <1>4
  <2> QED BY <2>1
<1> QED
  BY <1>3, <1>5

LEMMA GreatestIndex ==
  ASSUME NEW n \in Nat, NEW F, F \subseteq 0..n, F # {}
  PROVE  \E k \in F : \A j \in F : k >= j
<1> DEFINE G == {i \in 1..(n + 1) : n + 1 - i \in F}
<1>1. PICK f \in F : f \in 0..n
  OBVIOUS
<1>2. n + 1 - f \in G
  BY <1>1
<1>3. n + 1 \in Nat /\ G \subseteq 1..(n + 1) /\ G # {}
  <2>1. n + 1 \in Nat /\ G \subseteq 1..(n + 1)
    OBVIOUS
  <2> HIDE DEF G
  <2> QED BY <1>2, <2>1
<1>4. PICK k \in G : \A j \in G : k <= j
  <2> DEFINE m == n + 1
  <2>1. m \in Nat /\ G \subseteq 1..m /\ G # {}
    BY <1>3
  <2> HIDE DEF G, m
  <2> QED BY <2>1, LeastIndex
<1>5. n + 1 - k \in F /\ k \in 1..(n + 1)
  BY <1>4
<1>6. \A j \in F : j \in 0..n /\ n + 1 - j \in G
  OBVIOUS
<1>7. \A j \in F : k <= n + 1 - j /\ j \in 0..n
  BY <1>4, <1>6
<1> QED
  BY <1>5, <1>7

LEMMA MaxIsIn ==
  ASSUME NEW n \in Nat, NEW F, F \subseteq 0..n, F # {}
  PROVE  Max(F) \in F
BY GreatestIndex DEF Max

LEMMA MinOfTwo ==
  ASSUME NEW a \in Int, NEW b \in Int
  PROVE  Min({a, b}) = IF a <= b THEN a ELSE b
<1>1. Min({a, b}) \in {a, b} /\ Min({a, b}) <= a /\ Min({a, b}) <= b
  <2>1. \E x \in {a, b} : \A y \in {a, b} : x <= y
    OBVIOUS
  <2> QED BY <2>1 DEF Min
<1> QED
  BY <1>1

(* A text of single characters put one behind the other is that text again:  *)
(* by the least place where it would not be.                                 *)
FlatRec(q, n, f) == f = [i \in 1..n |-> IF i = 1 THEN q[i] ELSE f[i - 1] \o q[i]]

LEMMA SinglesFlatten ==
  ASSUME NEW S, NEW text \in Seq(S)
  PROVE  FlattenSeq([i \in DOMAIN text |-> <<text[i]>>]) = text
<1> DEFINE n == Len(text)
           q == [i \in DOMAIN text |-> <<text[i]>>]
           f == [i \in 1..n |-> SubSeq(text, 1, i)]
<1>1. n \in Nat /\ DOMAIN text = 1..n /\ Len(q) = n
  OBVIOUS
<1>2. CASE n = 0
  <2>1. q = text
    BY <1>1, <1>2
  <2> QED BY <1>1, <1>2, <2>1 DEF FlattenSeq
<1>3. CASE n # 0
  <2>1. ASSUME NEW i \in 1..n
        PROVE  f[i] = IF i = 1 THEN q[i] ELSE f[i - 1] \o q[i]
    <3>1. q[i] = <<text[i]>> /\ f[i] = SubSeq(text, 1, i)
      BY <1>1
    <3>2. SubSeq(text, 1, i) = SubSeq(text, 1, i - 1) \o <<text[i]>>
      BY <1>1, SubSeqRecursiveSecond
    <3>3. CASE i = 1
      <4>1. SubSeq(text, 1, 0) = <<>>
        BY SubSeqEmpty
      <4>2. <<text[1]>> \in Seq(S)
        BY <1>1, <3>3
      <4>3. <<>> \o <<text[1]>> = <<text[1]>>
        BY <4>2, ConcatEmptySeq
      <4> QED BY <3>1, <3>2, <3>3, <4>1, <4>3
    <3>4. CASE i # 1
      <4>1. i - 1 \in 1..n
        BY <1>1, <3>4
      <4> QED BY <3>1, <3>2, <3>4, <4>1
    <3> QED BY <3>3, <3>4
  <2>2. FlatRec(q, n, f)
    <3>1. f = [i \in 1..n |-> IF i = 1 THEN q[i] ELSE f[i - 1] \o q[i]]
      BY <2>1
    <3> HIDE DEF f, q, n
    <3> QED BY <3>1 DEF FlatRec
  <2>3. ASSUME NEW g, FlatRec(q, n, g)
        PROVE  g[n] = text
    <3> HIDE DEF f, q, n
    <3> DEFINE F == {k \in 1..n : g[k] # f[k]}
    <3>1. ASSUME F # {} PROVE FALSE
      <4>1. PICK k \in F : \A j \in F : k <= j
        <5>1. F \subseteq 1..n
          OBVIOUS
        <5> HIDE DEF F
        <5> QED BY <1>1, <3>1, <5>1, LeastIndex
      <4>2. k \in 1..n /\ g[k] # f[k]
        BY <4>1
      <4>3. k # 1 => k - 1 \in 1..n /\ g[k - 1] = f[k - 1]
        <5>1. k # 1 => k - 1 \in 1..n /\ ~(k <= k - 1)
          BY <1>1, <4>2
        <5> QED BY <4>1, <5>1
      <4>4. g[k] = IF k = 1 THEN q[k] ELSE g[k - 1] \o q[k]
        BY <2>3, <4>2 DEF FlatRec
      <4>5. f[k] = IF k = 1 THEN q[k] ELSE f[k - 1] \o q[k]
        BY <2>2, <4>2 DEF FlatRec
      <4> QED BY <4>2, <4>3, <4>4, <4>5
    <3>2. g[n] = f[n]
      <4>1. n \in 1..n
        BY <1>1, <1>3
      <4> QED BY <3>1, <4>1
    <3>3. f[n] = SubSeq(text, 1, n)
      BY <1>1, <1>3 DEF f
    <3>4. SubSeq(text, 1, n) = text
      BY SubSeqFull DEF n
    <3> QED BY <3>2, <3>3, <3>4
  <2>4. FlattenSeq(q) = (CHOOSE g : FlatRec(q, n, g))[n]
    BY <1>1, <1>3 DEF FlattenSeq, FlatRec
  <2> HIDE DEF q, n, f
  <2>5. FlatRec(q, n, CHOOSE g : FlatRec(q, n, g))
    BY <2>2
  <2>6. FlattenSeq(q) = text
    BY <2>3, <2>4, <2>5
  <2> QED BY <2>6 DEF q
<1> QED
  BY <1>2, <1>3

(* A term without a letter that casefold rewrites is looked up as it is.     *)
LEMMA PlainPhrase ==
  ASSUME NEW term \in Seq(Characters), "z" \notin ToSet(term)
  PROVE  Phrase(term) = Words(term)
<1>1. \A i \in DOMAIN term : term[i] # "z"
  BY DEF ToSet
<1>2. [i \in DOMAIN term |-> IF term[i] = "z" THEN <<"s", "s">> ELSE <<term[i]>>] = [i \in DOMAIN term |-> <<term[i]>>]
  BY <1>1
<1>3. Casefold(term) = term
  BY <1>2, SinglesFlatten DEF Casefold
<1> QED
  BY <1>3 DEF Phrase

-----------------------------------------------------------------------------
(* The chunks a search selects are the ones that have every term of one of   *)
(* its queries.                                                              *)
Asked(queries, c) ==
  \E q \in ToSet(queries) : \A term \in ToSet(q) : HasTerm(document.chunks[c], Phrase(term))

LEMMA MatchingIs ==
  ASSUME NEW queries
  PROVE  Matching(MatchQuery(queries)) = {c \in DOMAIN document.chunks : Asked(queries, c)}
<1>1. ASSUME NEW c \in DOMAIN document.chunks, NEW phrases \in MatchQuery(queries),
             Matches(document.chunks[c], phrases)
      PROVE  Asked(queries, c)
  <2>1. PICK q \in ToSet(queries) : /\ \A literal \in ToSet(q) : Phrase(literal) # <<>>
                                    /\ phrases = {Phrase(literal) : literal \in ToSet(q)}
    BY DEF MatchQuery
  <2>2. \A literal \in ToSet(q) : Places(document.chunks[c], Phrase(literal)) # {}
    BY <1>1, <2>1 DEF Matches
  <2> QED BY <2>1, <2>2 DEF Asked, HasTerm
<1>2. ASSUME NEW c \in DOMAIN document.chunks, Asked(queries, c)
      PROVE  \E phrases \in MatchQuery(queries) : Matches(document.chunks[c], phrases)
  <2>1. PICK q \in ToSet(queries) : \A term \in ToSet(q) : HasTerm(document.chunks[c], Phrase(term))
    BY <1>2 DEF Asked
  <2> DEFINE phrases == {Phrase(literal) : literal \in ToSet(q)}
  <2>2. phrases \in MatchQuery(queries)
    BY <2>1 DEF MatchQuery, HasTerm
  <2>3. Matches(document.chunks[c], phrases)
    BY <2>1 DEF Matches, HasTerm
  <2> QED BY <2>2, <2>3
<1> QED
  BY <1>1, <1>2 DEF Matching

(* The first of the ranked chunks, one more than asked for: it is there      *)
(* exactly if the first ones are not all.                                    *)
FirstOfThem(M, fetched, limit) ==
  LET m     == Min({limit, Len(fetched)})
      found == {fetched[i] : i \in 1..m}
  IN  /\ m \in Nat /\ m <= limit /\ 1..m \subseteq DOMAIN fetched
      /\ \A i \in 1..m : fetched[i] \in M
      /\ Cardinality(found) = m
      /\ Len(fetched) > limit <=> found # M

LEMMA RankedFacts ==
  ASSUME NEW M, IsFiniteSet(M), NEW ranked \in SetToSeqs(M), NEW limit \in Nat \ {0}
  PROVE  FirstOfThem(M, Fetched(ranked, limit), limit)
<1> DEFINE n       == Cardinality(M)
           k       == Min({Len(ranked), limit + 1})
           fetched == Fetched(ranked, limit)
           m       == Min({limit, Len(fetched)})
           found   == {fetched[i] : i \in 1..m}
<1>1. n \in Nat /\ ranked \in [1..n -> M] /\ \A i, j \in 1..n : i # j => ranked[i] # ranked[j]
  BY FS_CardinalityType DEF SetToSeqs
<1>2. ranked \in Seq(M) /\ Len(ranked) = n
  BY <1>1
<1> HIDE DEF n
<1>3. k \in Nat /\ k = IF n <= limit + 1 THEN n ELSE limit + 1
  <2>1. n \in Int /\ limit + 1 \in Int
    BY <1>1
  <2>2. k = Min({n, limit + 1})
    BY <1>2
  <2> HIDE DEF k
  <2> QED BY <1>1, <2>1, <2>2, MinOfTwo
<1>4. fetched = SubSeq(ranked, 1, k)
  BY DEF Fetched
<1> HIDE DEF k, fetched
<1>5. Len(fetched) = k /\ fetched \in Seq(M) /\ \A i \in 1..k : fetched[i] = ranked[i]
  <2>1. 1 \in Int /\ k \in Int /\ \A i \in 1..k : ranked[i] \in M
    BY <1>1, <1>3
  <2>2. /\ SubSeq(ranked, 1, k) \in Seq(M)
        /\ Len(SubSeq(ranked, 1, k)) = IF 1 <= k THEN k - 1 + 1 ELSE 0
        /\ \A i \in 1..(k - 1 + 1) : SubSeq(ranked, 1, k)[i] = ranked[1 + i - 1]
    BY <2>1, SubSeqProperties
  <2> QED BY <1>3, <1>4, <2>2
<1>6. m \in Nat /\ m = IF limit <= k THEN limit ELSE k
  <2>1. limit \in Int /\ k \in Int /\ m = Min({limit, k})
    BY <1>3, <1>5
  <2> HIDE DEF m
  <2> QED BY <1>3, <2>1, MinOfTwo
<1> HIDE DEF m
<1>7. m <= n /\ m <= k /\ m <= limit
  BY <1>1, <1>3, <1>6
<1>8. found = {ranked[i] : i \in 1..m}
  BY <1>3, <1>5, <1>6, <1>7
<1>9. IsFiniteSet(found) /\ Cardinality(found) = m
  <2> DEFINE g == [i \in 1..m |-> ranked[i]]
  <2>1. g \in Bijection(1..m, found)
    <3>1. g \in [1..m -> found] /\ \A t \in found : \E s \in 1..m : g[s] = t
      BY <1>8
    <3>2. \A a, b \in DOMAIN g : g[a] = g[b] => a = b
      BY <1>1, <1>6, <1>7
    <3> HIDE DEF g, found
    <3> QED BY <3>1, <3>2 DEF Bijection, Injection, Surjection, IsInjective
  <2> HIDE DEF g, found
  <2>2. ExistsBijection(1..m, found)
    BY <2>1 DEF ExistsBijection
  <2>3. IsFiniteSet(1..m) /\ Cardinality(1..m) = m
    <3>1. 1 \in Int /\ m \in Int
      BY <1>6
    <3>2. IsFiniteSet(1..m) /\ Cardinality(1..m) = IF 1 > m THEN 0 ELSE m - 1 + 1
      BY <3>1, FS_Interval
    <3> QED BY <1>6, <3>2
  <2> QED BY <2>2, <2>3, FS_Bijection
<1>10. found \subseteq M
  BY <1>1, <1>6, <1>7, <1>8
<1>11. k > limit <=> found # M
  <2>1. CASE n <= limit
    <3>1. m = n /\ ~(k > limit)
      BY <1>1, <1>3, <1>6, <2>1
    <3> HIDE DEF found
    <3>2. found = M
      BY <1>9, <1>10, <3>1, FS_Subset DEF n
    <3> QED BY <3>1, <3>2
  <2>2. CASE ~(n <= limit)
    <3>1. m < n /\ k > limit
      BY <1>1, <1>3, <1>6, <2>2
    <3> HIDE DEF found
    <3>2. found # M
      BY <1>1, <1>6, <1>9, <3>1 DEF n
    <3> QED BY <3>1, <3>2
  <2> QED BY <2>1, <2>2
<1>12. \A i \in 1..m : fetched[i] \in M
  BY <1>10
<1>13. DOMAIN fetched = 1..Len(fetched) /\ Len(fetched) \in Nat
  BY <1>5
<1>14. 1..m \subseteq DOMAIN fetched
  BY <1>3, <1>5, <1>6, <1>7, <1>13
<1> QED
  BY <1>5, <1>6, <1>7, <1>9, <1>11, <1>12, <1>14 DEF m, fetched, FirstOfThem

LEMMA ChunksAreFinite ==
  ASSUME document \in Documents, NEW P
  PROVE  IsFiniteSet({c \in DOMAIN document.chunks : c \in P})
<1>1. document.chunks \in Seq(Seq(Characters))
  BY QueryAssumption
<1> DEFINE n == Len(document.chunks)
<1>2. n \in Nat /\ DOMAIN document.chunks = 1..n
  BY <1>1
<1> HIDE DEF n
<1>3. IsFiniteSet(1..n)
  BY <1>2, FS_Interval
<1>4. {c \in DOMAIN document.chunks : c \in P} \subseteq 1..n
  BY <1>2
<1> QED
  BY <1>3, <1>4, FS_Subset

(* AnswersMatchTheQuery of an answer and a document that are given.          *)
FoundMatch(found, size, s, more, d) ==
  LET asked(c) == \E q \in ToSet(s.queries) : \A term \in ToSet(q) :
                    HasTerm(d.chunks[c], Phrase(term))
      plain(c) == \E q \in ToSet(s.queries) : \A term \in ToSet(q) :
                    "z" \notin ToSet(term) /\ HasTerm(d.chunks[c], Words(term))
  IN  /\ \A c \in found : asked(c)
      /\ Cardinality(found) = size /\ size <= s.limit
      /\ more <=> \E c \in DOMAIN d.chunks \ found : asked(c)
      /\ ~more => \A c \in DOMAIN d.chunks : plain(c) => c \in found

HitsMatch(a, d) ==
  FoundMatch({a.hits[n].chunk : n \in DOMAIN a.hits}, Len(a.hits), a.asked, a.more, d)

OverviewMatches(a, d) == a.truncated <=> Len(d.outline) > Cardinality(1..a.outline)

LEMMA MatchesByKind ==
  /\ AnswersMatchTheQuery <=>
       (answer.kind = "hits" => HitsMatch(answer, document))
         /\ (answer.kind = "overview" => OverviewMatches(answer, document))
  /\ AnswersMatchTheQuery' <=>
       (answer'.kind = "hits" => HitsMatch(answer', document'))
         /\ (answer'.kind = "overview" => OverviewMatches(answer', document'))
BY Zenon DEF AnswersMatchTheQuery, HitsMatch, FoundMatch, OverviewMatches

LEMMA SearchMatches ==
  ASSUME document \in Documents, NEW s \in Searches, Search(s), document' = document
  PROVE  AnswersMatchTheQuery'
<1> DEFINE alternatives == MatchQuery(s.queries)
           M == Matching(alternatives)
<1>1. M = {c \in DOMAIN document.chunks : Asked(s.queries, c)}
  BY MatchingIs
<1>2. IsFiniteSet(M)
  <2> DEFINE P == M
  <2>1. M = {c \in DOMAIN document.chunks : c \in P}
    BY <1>1
  <2> HIDE DEF P, M
  <2> QED BY <2>1, ChunksAreFinite
<1>3. s.limit \in Nat \ {0} /\ s.queries \in Seq(Seq(Seq(Characters)))
  BY QueryAssumption
<1>4. PICK ranked \in SetToSeqs(M) :
        LET fetched == Fetched(ranked, s.limit)
        IN  \E windows \in [DOMAIN fetched -> 1..Longest] :
              answer' = [kind |-> "refused", asked |-> s]
              \/ answer' = [kind |-> "hits", asked |-> s,
                            hits |-> [n \in 1..Min({s.limit, Len(fetched)}) |->
                                        Hit(fetched[n], alternatives, windows[n], s.characters)],
                            more |-> Len(fetched) > s.limit]
  BY Zenon DEF Search
<1> HIDE DEF alternatives
<1> DEFINE fetched == Fetched(ranked, s.limit)
           m       == Min({s.limit, Len(fetched)})
           found   == {fetched[i] : i \in 1..m}
<1>5. /\ m \in Nat /\ m <= s.limit
      /\ \A i \in 1..m : fetched[i] \in M
      /\ Cardinality(found) = m
      /\ Len(fetched) > s.limit <=> found # M
  <2> HIDE DEF M
  <2>1. FirstOfThem(M, Fetched(ranked, s.limit), s.limit)
    BY <1>2, <1>3, RankedFacts
  <2> QED BY <2>1 DEF FirstOfThem
<1>6. PICK windows \in [DOMAIN fetched -> 1..Longest] :
        answer' = [kind |-> "refused", asked |-> s]
        \/ answer' = [kind |-> "hits", asked |-> s,
                      hits |-> [n \in 1..m |-> Hit(fetched[n], alternatives, windows[n], s.characters)],
                      more |-> Len(fetched) > s.limit]
  BY <1>4, Zenon
<1> HIDE DEF fetched, m, M
<1>7. CASE answer' = [kind |-> "refused", asked |-> s]
  <2>1. answer'.kind = "refused"
    BY <1>7
  <2> QED BY <2>1 DEF AnswersMatchTheQuery
<1>8. CASE answer' = [kind |-> "hits", asked |-> s,
                      hits |-> [n \in 1..m |-> Hit(fetched[n], alternatives, windows[n], s.characters)],
                      more |-> Len(fetched) > s.limit]
  <2> DEFINE hits == [n \in 1..m |-> Hit(fetched[n], alternatives, windows[n], s.characters)]
             more == Len(fetched) > s.limit
  <2>1. answer'.kind = "hits" /\ answer'.asked = s /\ answer'.hits = hits /\ answer'.more = more
    BY <1>8
  <2>2. DOMAIN hits = 1..m /\ Len(hits) = m
    BY <1>5
  <2>3. \A n \in 1..m : hits[n].chunk = fetched[n]
    BY DEF Hit
  <2>4. {hits[n].chunk : n \in DOMAIN hits} = found
    BY <2>2, <2>3
  <2>5. \A c \in found : c \in M
    BY <1>5
  <2>6. \A c \in DOMAIN document.chunks :
          (\E q \in ToSet(s.queries) : \A term \in ToSet(q) :
             "z" \notin ToSet(term) /\ HasTerm(document.chunks[c], Words(term))) => c \in M
    <3> SUFFICES ASSUME NEW c \in DOMAIN document.chunks, NEW q \in ToSet(s.queries),
                        \A term \in ToSet(q) : "z" \notin ToSet(term) /\ HasTerm(document.chunks[c], Words(term))
                 PROVE  c \in M
      BY Zenon
    <3>1. q \in Seq(Seq(Characters))
      BY <1>3 DEF ToSet
    <3>2. \A term \in ToSet(q) : term \in Seq(Characters)
      BY <3>1 DEF ToSet
    <3>3. \A term \in ToSet(q) : HasTerm(document.chunks[c], Phrase(term))
      BY <3>2, PlainPhrase
    <3> QED BY <1>1, <3>3 DEF Asked
  <2> HIDE DEF hits, found, more
  <2>7. \A c \in found : Asked(s.queries, c)
    BY <1>1, <2>5
  <2>8. more <=> \E c \in DOMAIN document.chunks \ found : Asked(s.queries, c)
    <3>1. more <=> found # M
      BY <1>5 DEF more, found
    <3>2. found # M <=> \E c \in M : c \notin found
      BY <2>5
    <3> QED BY <1>1, <3>1, <3>2, Zenon
  <2>9. ~more => \A c \in M : c \in found
    BY <1>5 DEF more, found
  <2>10. Cardinality(found) = Len(hits) /\ Len(hits) <= s.limit
    BY <1>5, <2>2 DEF found
  <2>11. \A c \in DOMAIN document.chunks :
           Asked(s.queries, c) <=>
             \E q \in ToSet(s.queries) : \A term \in ToSet(q) : HasTerm(document.chunks[c], Phrase(term))
    BY Zenon DEF Asked
  <2>12. found \subseteq DOMAIN document.chunks
    BY <1>1, <2>5
  <2>13. answer'.kind # "overview"
    BY <2>1
  <2>14. \A c \in found :
           \E q \in ToSet(s.queries) : \A term \in ToSet(q) : HasTerm(document.chunks[c], Phrase(term))
    BY <2>7, <2>11, <2>12, Zenon
  <2>15. more <=> \E c \in DOMAIN document.chunks \ found :
           \E q \in ToSet(s.queries) : \A term \in ToSet(q) : HasTerm(document.chunks[c], Phrase(term))
    BY <2>8, <2>11, Zenon
  <2>16. ~more => \A c \in DOMAIN document.chunks :
           (\E q \in ToSet(s.queries) : \A term \in ToSet(q) :
              "z" \notin ToSet(term) /\ HasTerm(document.chunks[c], Words(term))) => c \in found
    BY <2>6, <2>9, Zenon
  <2>17. HitsMatch(answer', document)
    <3>1. FoundMatch(found, Len(hits), s, more, document)
      BY <2>10, <2>14, <2>15, <2>16, Zenon DEF FoundMatch
    <3>2. {answer'.hits[n].chunk : n \in DOMAIN answer'.hits} = found
      BY <2>1, <2>4, Zenon
    <3>3. FoundMatch({answer'.hits[n].chunk : n \in DOMAIN answer'.hits}, Len(answer'.hits),
                     answer'.asked, answer'.more, document)
      BY <2>1, <3>1, <3>2, Zenon
    <3> QED BY <3>3, Zenon DEF HitsMatch
  <2> QED BY <2>13, <2>17, MatchesByKind
<1> QED
  BY <1>6, <1>7, <1>8

(* What the outline of an overview adds up to starts with nothing.           *)
Chosen(S) == CHOOSE x \in S : TRUE
SizeRec(w, f) ==
  f = [T \in SUBSET (DOMAIN w) |-> IF T = {} THEN 0 ELSE f[T \ {Chosen(T)}] + w[Chosen(T)] + 1]

LEMMA NothingIsEmpty ==
  ASSUME NEW w, DOMAIN w = {}
  PROVE  FoldSeq(LAMBDA size, sum : sum + size + 1, 0, w) = 0
<1>1. FoldSeq(LAMBDA size, sum : sum + size + 1, 0, w) = (CHOOSE f : SizeRec(w, f))[DOMAIN w]
  BY DEF FoldSeq, FoldFunction, FoldFunctionOnSet, MapThenFoldSet, SizeRec, Chosen
<1> DEFINE g == [T \in SUBSET {} |-> 0]
<1>2. \A T \in SUBSET {} : T = {}
  OBVIOUS
<1>3. g = [T \in SUBSET {} |-> IF T = {} THEN 0 ELSE g[T \ {Chosen(T)}] + w[Chosen(T)] + 1]
  BY <1>2
<1>4. SizeRec(w, g)
  <2> HIDE DEF g
  <2> QED BY <1>3 DEF SizeRec
<1> DEFINE f == CHOOSE h : SizeRec(w, h)
<1>5. SizeRec(w, f)
  <2> HIDE DEF g
  <2> QED BY <1>4
<1> HIDE DEF f
<1>6. f[{}] = 0
  BY <1>5 DEF SizeRec
<1> QED
  BY <1>1, <1>6 DEF f

(* What an overview tells of the outline is a beginning of it.               *)
Entries == SubSeq(document.outline, 1, Min({Len(document.outline), OutlineLimit}))
Bytes(n) == FoldSeq(LAMBDA size, sum : sum + size + 1, 0, SubSeq(Entries, 1, n))

LEMMA ToldIs ==
  Told = Max({n \in 0..Len(Entries) : Bytes(n) <= OutlineBytes})
BY DEF Told, Entries, Bytes

LEMMA EntriesFacts ==
  ASSUME document \in Documents
  PROVE  Len(document.outline) \in Nat /\ Entries \in Seq(Nat) /\ Len(Entries) \in Nat
           /\ Len(Entries) <= Len(document.outline)
<1> DEFINE w == document.outline
           k == Min({Len(w), OutlineLimit})
<1>1. w \in Seq(Nat) /\ OutlineLimit \in Int
  BY QueryAssumption
<1>2. Len(w) \in Nat /\ \A i \in 1..Len(w) : w[i] \in Nat
  BY <1>1
<1>3. k = IF Len(w) <= OutlineLimit THEN Len(w) ELSE OutlineLimit
  BY <1>1, <1>2, MinOfTwo
<1>4. k \in Nat /\ k <= Len(w)
  <2>1. OutlineLimit \in Nat
    BY QueryAssumption
  <2> HIDE DEF k, w
  <2> QED BY <1>2, <1>3, <2>1
<1>5. Entries = SubSeq(w, 1, k)
  BY DEF Entries
<1> HIDE DEF k, w
<1>6. 1 \in Int /\ k \in Int /\ \A i \in 1..k : w[i] \in Nat
  BY <1>2, <1>4
<1>7. SubSeq(w, 1, k) \in Seq(Nat) /\ Len(SubSeq(w, 1, k)) = IF 1 <= k THEN k - 1 + 1 ELSE 0
  BY <1>6, SubSeqProperties
<1> QED
  BY <1>2, <1>4, <1>5, <1>7 DEF w

LEMMA ToldIsThere ==
  ASSUME document \in Documents
  PROVE  Told \in Nat /\ Told <= Len(document.outline)
<1> DEFINE F == {n \in 0..Len(Entries) : Bytes(n) <= OutlineBytes}
<1>1. Len(Entries) \in Nat /\ Entries \in Seq(Nat) /\ Len(Entries) <= Len(document.outline)
        /\ Len(document.outline) \in Nat
  BY EntriesFacts
<1>2. Bytes(0) = 0
  <2> DEFINE v == SubSeq(Entries, 1, 0)
  <2>1. DOMAIN v = {}
    BY <1>1
  <2> HIDE DEF v
  <2>2. FoldSeq(LAMBDA size, sum : sum + size + 1, 0, v) = 0
    BY <2>1, NothingIsEmpty
  <2> QED BY <2>2 DEF Bytes, v
<1>3. OutlineBytes \in Nat
  BY QueryAssumption
<1>4. 0 \in F
  BY <1>1, <1>2, <1>3
<1>5. F \subseteq 0..Len(Entries)
  OBVIOUS
<1>6. Told = Max(F)
  BY ToldIs
<1> HIDE DEF F
<1>7. Max(F) \in F
  BY <1>1, <1>4, <1>5, MaxIsIn
<1>8. Told \in 0..Len(Entries)
  BY <1>5, <1>6, <1>7, Zenon
<1> DEFINE size == Len(Entries)
           all  == Len(document.outline)
<1>9. Told \in 0..size /\ size \in Nat /\ all \in Nat /\ size <= all
  BY <1>1, <1>8
<1> HIDE DEF size, all
<1>10. Told \in Nat /\ Told <= all
  BY <1>9
<1> QED
  BY <1>10 DEF all

LEMMA OverviewIsTrue ==
  ASSUME document \in Documents, Overview, document' = document
  PROVE  AnswersMatchTheQuery'
<1>1. answer'.kind = "overview" /\ answer'.outline = Told
        /\ answer'.truncated = (Told < Len(document.outline))
  BY DEF Overview
<1>2. Told \in Nat /\ Told <= Len(document.outline) /\ Len(document.outline) \in Nat
  BY ToldIsThere, EntriesFacts
<1>3. Cardinality(1..Told) = Told
  <2>1. 1 \in Int /\ Told \in Int
    BY <1>2
  <2>2. Cardinality(1..Told) = IF 1 > Told THEN 0 ELSE Told - 1 + 1
    BY <2>1, FS_Interval
  <2> QED BY <1>2, <2>2
<1>4. Told < Len(document.outline) <=> Len(document.outline) > Cardinality(1..Told)
  BY <1>2, <1>3
<1>5. OverviewMatches(answer', document)
  BY <1>1, <1>4, Zenon DEF OverviewMatches
<1>6. answer'.kind # "hits"
  BY <1>1
<1> QED
  BY <1>5, <1>6, MatchesByKind

-----------------------------------------------------------------------------
(* The answer to a question stays the answer to it: no other step changes    *)
(* the document or the answer.                                               *)
AnswerInv == document \in Documents /\ AnswersMatchTheQuery

LEMMA QueryStep ==
  ASSUME AnswerInv, [QueryNext]_queryVars
  PROVE  AnswerInv'
<1>1. CASE Query
  <2>1. document' = document /\ document \in Documents
    BY <1>1 DEF Query, AnswerInv
  <2>2. CASE Overview
    BY <2>1, <2>2, OverviewIsTrue DEF AnswerInv
  <2>3. CASE \E s \in Searches : Search(s)
    BY <2>1, <2>3, SearchMatches DEF AnswerInv
  <2> QED BY <1>1, <2>2, <2>3 DEF Query
<1>2. CASE UNCHANGED <<document, answer>>
  BY <1>2, MatchesByKind DEF AnswerInv
<1> QED
  BY <1>1, <1>2 DEF QueryNext, queryVars

(* DocumentSession._search and _overview: a search answers with chunks that  *)
(* have every term of one of the queries, none twice, and either with all of *)
(* them or with the remark that there are more; and an overview says when it *)
(* tells less of the outline than there is.                                  *)
THEOREM AnswersMatch == QuerySpec => []AnswersMatchTheQuery
<1>1. QueryInit => AnswerInv
  BY MatchesByKind DEF QueryInit, NoAnswer, AnswerInv
<1>2. AnswerInv /\ [QueryNext]_queryVars => AnswerInv'
  BY QueryStep
<1>3. AnswerInv => AnswersMatchTheQuery
  BY DEF AnswerInv
<1> QED
  BY <1>1, <1>2, <1>3, PTL DEF QuerySpec

-----------------------------------------------------------------------------
(* Numbers in ascending order, by how many are not greater.                  *)
Rank(S, x) == Cardinality({y \in S : y <= x})

LEMMA RankFacts ==
  ASSUME NEW S, IsFiniteSet(S), S \subseteq Int
  PROVE  /\ Cardinality(S) \in Nat
         /\ \A x \in S : Rank(S, x) \in 1..Cardinality(S)
         /\ \A x, y \in S : x < y => Rank(S, x) < Rank(S, y)
         /\ \A n \in 1..Cardinality(S) : \E x \in S : Rank(S, x) = n
<1> DEFINE Upto(x) == {y \in S : y <= x}
           m == Cardinality(S)
           f == [x \in S |-> Rank(S, x)]
<1>1. m \in Nat
  BY FS_CardinalityType
<1>2. ASSUME NEW x \in S
      PROVE  IsFiniteSet(Upto(x)) /\ Rank(S, x) = Cardinality(Upto(x)) /\ x \in Upto(x)
  <2>1. Upto(x) \in SUBSET S /\ x \in Upto(x)
    OBVIOUS
  <2>2. IsFiniteSet(Upto(x))
    BY <2>1, FS_Subset
  <2> QED BY <2>1, <2>2 DEF Rank
<1>3. ASSUME NEW x \in S
      PROVE  Rank(S, x) \in 1..m
  <2>1. Cardinality(Upto(x)) <= m
    <3>1. Upto(x) \in SUBSET S
      OBVIOUS
    <3> HIDE DEF Upto
    <3> QED BY <3>1, FS_Subset
  <2>2. Cardinality(Upto(x)) \in Nat /\ Cardinality(Upto(x)) # 0
    <3>1. IsFiniteSet(Upto(x)) /\ Upto(x) # {}
      BY <1>2
    <3> HIDE DEF Upto
    <3> QED BY <3>1, FS_CardinalityType, FS_EmptySet
  <2> HIDE DEF Upto, m
  <2> QED BY <1>1, <1>2, <2>1, <2>2
<1>4. ASSUME NEW x \in S, NEW y \in S, x < y
      PROVE  Rank(S, x) < Rank(S, y)
  <2>1. Upto(x) \in SUBSET Upto(y) /\ y \in Upto(y) /\ y \notin Upto(x)
    <3>1. x \in Int /\ y \in Int /\ S \subseteq Int
      OBVIOUS
    <3>2. \A z \in S : z <= x => z <= y
      BY <1>4, <3>1
    <3>3. y <= y /\ ~(y <= x)
      BY <1>4, <3>1
    <3> QED BY <3>2, <3>3
  <2>2. IsFiniteSet(Upto(y)) /\ Rank(S, x) = Cardinality(Upto(x)) /\ Rank(S, y) = Cardinality(Upto(y))
    BY <1>2
  <2>3. Cardinality(Upto(x)) <= Cardinality(Upto(y)) /\ Cardinality(Upto(x)) # Cardinality(Upto(y))
    <3> HIDE DEF Upto
    <3> QED BY <2>1, <2>2, FS_Subset
  <2>4. Rank(S, x) \in Int /\ Rank(S, y) \in Int
    BY <1>1, <1>3
  <2> QED BY <2>2, <2>3, <2>4
<1>5. f \in Injection(S, 1..m)
  <2>1. f \in [S -> 1..m]
    BY <1>3
  <2>2. ASSUME NEW x \in S, NEW y \in S, f[x] = f[y]
        PROVE  x = y
    <3>1. Rank(S, x) = Rank(S, y) /\ Rank(S, x) \in Int
      BY <1>1, <1>3, <2>2
    <3>2. x < y \/ y < x \/ x = y
      OBVIOUS
    <3> QED BY <1>4, <3>1, <3>2
  <2>3. IsInjective(f)
    BY <2>1, <2>2 DEF IsInjective
  <2> QED BY <2>1, <2>3 DEF Injection
<1>6. f \in Surjection(S, 1..m)
  <2>1. IsFiniteSet(1..m) /\ Cardinality(1..m) = m
    <3> HIDE DEF m
    <3> QED BY <1>1, FS_Interval
  <2> HIDE DEF f
  <2> QED BY <1>5, <2>1, FS_Injection DEF m
<1>7. \A n \in 1..m : \E x \in S : f[x] = n
  <2> HIDE DEF f
  <2> QED BY <1>6 DEF Surjection
<1> QED
  BY <1>1, <1>3, <1>4, <1>7

LEMMA AscendingFacts ==
  ASSUME NEW S, IsFiniteSet(S), S \subseteq Int
  PROVE  /\ Cardinality(S) \in Nat
         /\ DOMAIN Ascending(S) = 1..Cardinality(S) /\ Len(Ascending(S)) = Cardinality(S)
         /\ \A n \in 1..Cardinality(S) : Ascending(S)[n] \in S /\ Rank(S, Ascending(S)[n]) = n
         /\ \A x \in S : Rank(S, x) \in 1..Cardinality(S) /\ Ascending(S)[Rank(S, x)] = x
         /\ \A i, j \in 1..Cardinality(S) : i < j => Ascending(S)[i] < Ascending(S)[j]
<1> DEFINE m == Cardinality(S)
           A == Ascending(S)
<1>1. /\ m \in Nat
      /\ \A x \in S : Rank(S, x) \in 1..m
      /\ \A x, y \in S : x < y => Rank(S, x) < Rank(S, y)
      /\ \A n \in 1..m : \E x \in S : Rank(S, x) = n
  BY RankFacts
<1>2. A = [n \in 1..m |-> CHOOSE x \in S : Rank(S, x) = n]
  BY DEF Ascending, Rank
<1>3. \A n \in 1..m : A[n] \in S /\ Rank(S, A[n]) = n
  <2> HIDE DEF A, m
  <2> QED BY <1>1, <1>2
<1>4. DOMAIN A = 1..m /\ Len(A) = m
  <2> HIDE DEF A, m
  <2> QED BY <1>1, <1>2
<1>5. \A x, y \in S : x < y \/ x = y \/ y < x
  OBVIOUS
<1>6. \A x, y \in S : Rank(S, x) = Rank(S, y) => x = y
  <2> SUFFICES ASSUME NEW x \in S, NEW y \in S, Rank(S, x) = Rank(S, y) PROVE x = y
    OBVIOUS
  <2>1. Rank(S, x) \in Int /\ Rank(S, y) \in Int
    BY <1>1
  <2> QED BY <1>1, <1>5, <2>1
<1>7. \A x \in S : A[Rank(S, x)] = x
  <2> HIDE DEF A, m
  <2> QED BY <1>1, <1>3, <1>6
<1>8. ASSUME NEW i \in 1..m, NEW j \in 1..m, i < j
      PROVE  A[i] < A[j]
  <2>1. A[i] \in S /\ A[j] \in S /\ Rank(S, A[i]) = i /\ Rank(S, A[j]) = j
    BY <1>3
  <2> HIDE DEF A, m
  <2>2. ~(j < i) /\ i # j
    BY <1>1, <1>8
  <2>3. A[i] # A[j]
    BY <2>1, <2>2, Zenon
  <2>4. ~(A[j] < A[i])
    <3> SUFFICES ASSUME A[j] < A[i] PROVE FALSE
      OBVIOUS
    <3>1. Rank(S, A[j]) < Rank(S, A[i])
      BY <1>1, <2>1, Zenon
    <3> QED
      BY <2>1, <2>2, <3>1, Zenon
  <2> QED BY <1>5, <2>1, <2>3, <2>4, Zenon
<1> QED
  BY <1>1, <1>3, <1>4, <1>7, <1>8

-----------------------------------------------------------------------------
(* Greatest and least numbers.                                               *)
LEMMA Bounds ==
  ASSUME NEW n \in Nat, NEW F, F \subseteq 0..n, F # {}
  PROVE  /\ Max(F) \in F /\ \A j \in F : Max(F) >= j
         /\ Min(F) \in F /\ \A j \in F : Min(F) <= j
<1>1. \E k \in F : \A j \in F : k >= j
  BY GreatestIndex
<1>2. \E k \in F : \A j \in F : k <= j
  <2>1. CASE 0 \in F
    BY <2>1
  <2>2. CASE 0 \notin F
    <3>1. F \subseteq 1..n
      BY <2>2
    <3> QED BY <3>1, LeastIndex
  <2> QED BY <2>1, <2>2
<1>3. Max(F) \in F /\ \A j \in F : Max(F) >= j
  BY <1>1 DEF Max
<1>4. Min(F) \in F /\ \A j \in F : Min(F) <= j
  BY <1>2 DEF Min
<1> QED
  BY <1>3, <1>4

LEMMA MaxOfTwo ==
  ASSUME NEW a \in Int, NEW b \in Int
  PROVE  Max({a, b}) = IF a >= b THEN a ELSE b
<1>1. Max({a, b}) \in {a, b} /\ Max({a, b}) >= a /\ Max({a, b}) >= b
  <2>1. \E x \in {a, b} : \A y \in {a, b} : x >= y
    OBVIOUS
  <2> QED BY <2>1 DEF Max
<1> QED
  BY <1>1

-----------------------------------------------------------------------------
(* The words of a text: each begins and ends within the text, and is there   *)
(* before the next begins.                                                   *)
Begins(text) == {i \in DOMAIN text : text[i] \in Letters /\ (i > 1 => text[i - 1] \notin Letters)}

LEMMA WordEnds ==
  ASSUME NEW text \in Seq(Characters), NEW i \in 1..Len(text), text[i] \in Letters
  PROVE  /\ WordEnd(text, i) \in i..Len(text)
         /\ \A k \in i..WordEnd(text, i) : text[k] \in Letters
<1> DEFINE n == Len(text)
           F == {k \in 1..n : k > i /\ text[k] \notin Letters}
           Good(j) == (\A k \in i..j : text[k] \in Letters) /\ (j < n => text[j + 1] \notin Letters)
<1>1. n \in Nat /\ i \in 1..n
  OBVIOUS
<1> HIDE DEF n
<1>2. \E j \in i..n : Good(j)
  <2>1. CASE F = {}
    <3>1. \A k \in i..n : k = i \/ (k \in 1..n /\ k > i)
      BY <1>1
    <3>2. \A k \in i..n : text[k] \in Letters
      BY <2>1, <3>1
    <3>3. n \in i..n /\ ~(n < n)
      BY <1>1
    <3> QED BY <3>2, <3>3
  <2>2. CASE F # {}
    <3>1. PICK k \in F : \A j \in F : k <= j
      <4>1. F \subseteq 1..n
        OBVIOUS
      <4> HIDE DEF F
      <4> QED BY <1>1, <2>2, <4>1, LeastIndex
    <3>2. k \in 1..n /\ k > i /\ text[k] \notin Letters
      BY <3>1
    <3>3. PICK j \in Int : j = k - 1
      BY <3>2
    <3>4. j \in i..n /\ j + 1 = k
      BY <1>1, <3>2, <3>3
    <3>5. ASSUME NEW l \in i..j PROVE text[l] \in Letters
      <4>1. l \in 1..n /\ ~(k <= l) /\ (l = i \/ l > i)
        BY <1>1, <3>2, <3>3
      <4>2. l \notin F
        BY <3>1, <4>1
      <4> QED BY <4>1, <4>2
    <3> QED BY <3>2, <3>4, <3>5
  <2> QED BY <2>1, <2>2
<1>3. WordEnd(text, i) = CHOOSE j \in i..n : Good(j)
  BY DEF WordEnd, n
<1> HIDE DEF Good
<1>4. WordEnd(text, i) \in i..n /\ Good(WordEnd(text, i))
  BY <1>2, <1>3
<1> QED
  BY <1>4 DEF Good, n

WordsIn(text, m) ==
  /\ m \in Nat
  /\ Tokens(text) = [n \in 1..m |-> Tokens(text)[n]]
  /\ \A n \in 1..m :
       /\ Tokens(text)[n].from \in Nat /\ Tokens(text)[n].to \in Nat
       /\ Tokens(text)[n].from < Tokens(text)[n].to /\ Tokens(text)[n].to <= Len(text)
  /\ \A i, j \in 1..m :
       i < j => Tokens(text)[i].from <= Tokens(text)[j].from /\ Tokens(text)[i].to <= Tokens(text)[j].to
  /\ Words(text) \in Seq(Seq(Characters)) /\ Len(Words(text)) = m
  /\ \A n \in 1..m : Words(text)[n] = SubSeq(text, Tokens(text)[n].from + 1, Tokens(text)[n].to)

LEMMA WordFacts ==
  ASSUME NEW text \in Seq(Characters)
  PROVE  WordsIn(text, Len(Words(text)))
<1> DEFINE N == Len(text)
           S == Begins(text)
           A == Ascending(S)
           m == Cardinality(S)
           T == Tokens(text)
<1>1. N \in Nat /\ DOMAIN text = 1..N /\ \A i \in 1..N : text[i] \in Characters
  OBVIOUS
<1> HIDE DEF N
<1>2. S \subseteq 1..N
  BY <1>1 DEF Begins
<1>3. IsFiniteSet(S) /\ S \subseteq Int
  <2>1. IsFiniteSet(1..N)
    BY <1>1, FS_Interval
  <2> HIDE DEF S
  <2>2. IsFiniteSet(S)
    BY <1>2, <2>1, FS_Subset
  <2> QED BY <1>1, <1>2, <2>2
<1>4. T = [n \in DOMAIN A |-> [from |-> A[n] - 1, to |-> WordEnd(text, A[n])]]
  BY DEF Tokens, Begins
<1>5. Words(text) = [n \in DOMAIN T |-> SubSeq(text, T[n].from + 1, T[n].to)]
  BY DEF Words
<1> HIDE DEF T
<1>6. /\ m \in Nat /\ DOMAIN A = 1..m
      /\ \A n \in 1..m : A[n] \in S
      /\ \A i, j \in 1..m : i < j => A[i] < A[j]
  <2> HIDE DEF S
  <2> QED BY <1>3, AscendingFacts
<1> HIDE DEF A, m
<1>7. ASSUME NEW n \in 1..m
      PROVE  /\ A[n] \in 1..N /\ text[A[n]] \in Letters /\ (A[n] > 1 => text[A[n] - 1] \notin Letters)
             /\ WordEnd(text, A[n]) \in A[n]..N
             /\ \A k \in A[n]..WordEnd(text, A[n]) : text[k] \in Letters
  <2>1. A[n] \in 1..N /\ text[A[n]] \in Letters /\ (A[n] > 1 => text[A[n] - 1] \notin Letters)
    BY <1>1, <1>6 DEF Begins
  <2>2. WordEnd(text, A[n]) \in A[n]..N /\ \A k \in A[n]..WordEnd(text, A[n]) : text[k] \in Letters
    BY <2>1, WordEnds DEF N
  <2> QED BY <2>1, <2>2
<1>8. ASSUME NEW n \in 1..m
      PROVE  T[n].from = A[n] - 1 /\ T[n].to = WordEnd(text, A[n])
  BY <1>4, <1>6
<1>9. ASSUME NEW n \in 1..m
      PROVE  T[n].from \in Nat /\ T[n].to \in Nat /\ T[n].from < T[n].to /\ T[n].to <= N
  <2>1. A[n] \in 1..N /\ WordEnd(text, A[n]) \in A[n]..N
    BY <1>7
  <2> QED BY <1>1, <1>8, <2>1
<1>10. ASSUME NEW i \in 1..m, NEW j \in 1..m, i < j
       PROVE  T[i].from <= T[j].from /\ T[i].to <= T[j].to
  <2> DEFINE a == A[i]
             b == A[j]
             c == WordEnd(text, a)
             d == WordEnd(text, b)
  <2>1. a \in 1..N /\ b \in 1..N /\ c \in a..N /\ d \in b..N /\ a < b
    BY <1>6, <1>7, <1>10
  <2>2. \A k \in a..c : text[k] \in Letters
    BY <1>7
  <2>3. b > 1 => text[b - 1] \notin Letters
    BY <1>7
  <2>4. T[i].from = a - 1 /\ T[j].from = b - 1 /\ T[i].to = c /\ T[j].to = d
    BY <1>8
  <2> HIDE DEF a, b, c, d
  <2>5. b > 1 /\ b - 1 \in Int /\ b - 1 >= a
    BY <1>1, <2>1
  <2>6. ~(b - 1 <= c)
    BY <2>1, <2>2, <2>3, <2>5
  <2>7. c < b
    BY <2>1, <2>6
  <2> QED BY <2>1, <2>4, <2>7
<1>11. DOMAIN T = 1..m /\ T = [n \in 1..m |-> T[n]]
  BY <1>4, <1>6
<1>12. Words(text) \in Seq(Seq(Characters)) /\ Len(Words(text)) = m /\ \A n \in 1..m : Words(text)[n] = SubSeq(text, T[n].from + 1, T[n].to)
  <2>1. ASSUME NEW n \in 1..m PROVE SubSeq(text, T[n].from + 1, T[n].to) \in Seq(Characters)
    <3>1. T[n].from + 1 \in Int /\ T[n].to \in Int /\ (T[n].from + 1)..T[n].to \subseteq 1..N
      BY <1>1, <1>9
    <3>2. \A i \in (T[n].from + 1)..T[n].to : text[i] \in Characters
      BY <1>1, <3>1
    <3> QED BY <3>1, <3>2, SubSeqProperties
  <2>2. Words(text) = [n \in 1..m |-> SubSeq(text, T[n].from + 1, T[n].to)]
    BY <1>5, <1>11
  <2> DEFINE word(n) == SubSeq(text, T[n].from + 1, T[n].to)
             W == Words(text)
             C == Seq(Characters)
  <2>3. (\A n \in 1..m : word(n) \in C) /\ W = [n \in 1..m |-> word(n)]
    BY <2>1, <2>2
  <2> HIDE DEF word, W, C
  <2>4. W \in Seq(C) /\ Len(W) = m /\ \A n \in 1..m : W[n] = word(n)
    BY <1>6, <2>3
  <2> QED BY <2>4 DEF word, W, C
<1> QED
  BY <1>6, <1>9, <1>10, <1>11, <1>12 DEF WordsIn, T, N

-----------------------------------------------------------------------------
(* What casefold makes of a term is a text, and its words are texts.         *)
LEMMA FlatExists ==
  ASSUME NEW q, NEW n \in Nat
  PROVE  \E f : FlatRec(q, n, f)
<1> DEFINE F == {k \in 1..n : ~ \E f : FlatRec(q, k, f)}
<1>1. SUFFICES ASSUME F # {} PROVE FALSE
  <2>1. FlatRec(q, 0, [i \in 1..0 |-> q[i]])
    BY DEF FlatRec
  <2>2. n = 0 \/ n \in 1..n
    OBVIOUS
  <2> QED BY <2>1, <2>2
<1>2. PICK k \in F : \A j \in F : k <= j
  <2>1. F \subseteq 1..n
    OBVIOUS
  <2> HIDE DEF F
  <2> QED BY <1>1, <2>1, LeastIndex
<1>3. k \in 1..n /\ k - 1 \in 0..n /\ k - 1 < k
  BY <1>2
<1>4. PICK f : FlatRec(q, k - 1, f)
  <2>1. CASE k = 1
    <3>1. FlatRec(q, 0, [i \in 1..0 |-> q[i]])
      BY DEF FlatRec
    <3> QED BY <2>1, <3>1
  <2>2. CASE k # 1
    <3>1. k - 1 \in 1..n /\ k - 1 \notin F
      BY <1>2, <1>3, <2>2
    <3> QED BY <3>1
  <2> QED BY <2>1, <2>2
<1> DEFINE g == [i \in 1..k |-> IF i = k THEN IF k = 1 THEN q[1] ELSE f[k - 1] \o q[k] ELSE f[i]]
<1>5. \A i \in 1..k : g[i] = IF i = 1 THEN q[i] ELSE g[i - 1] \o q[i]
  <2> SUFFICES ASSUME NEW i \in 1..k
               PROVE  g[i] = IF i = 1 THEN q[i] ELSE g[i - 1] \o q[i]
    OBVIOUS
  <2>1. CASE i = k
    <3>1. k # 1 => k - 1 \in 1..k /\ k - 1 # k
      BY <1>3
    <3> QED BY <2>1, <3>1
  <2>2. CASE i # k
    <3>1. i \in 1..(k - 1) /\ (i # 1 => i - 1 \in 1..(k - 1) /\ i - 1 \in 1..k /\ i - 1 # k)
      BY <1>3, <2>2
    <3>2. f[i] = IF i = 1 THEN q[i] ELSE f[i - 1] \o q[i]
      BY <1>4, <3>1 DEF FlatRec
    <3> QED BY <2>2, <3>1, <3>2
  <2> QED BY <2>1, <2>2
<1>6. g = [i \in 1..k |-> IF i = 1 THEN q[i] ELSE g[i - 1] \o q[i]]
  BY <1>5
<1>7. FlatRec(q, k, g)
  <2> HIDE DEF g
  <2> QED BY <1>6 DEF FlatRec
<1> QED
  BY <1>2, <1>7

LEMMA FlattenIs ==
  ASSUME NEW q, Len(q) \in Nat, Len(q) # 0
  PROVE  \E f : FlatRec(q, Len(q), f) /\ FlattenSeq(q) = f[Len(q)]
<1>1. FlattenSeq(q) = (CHOOSE f : FlatRec(q, Len(q), f))[Len(q)]
  BY DEF FlattenSeq, FlatRec
<1>2. \E f : FlatRec(q, Len(q), f)
  BY FlatExists
<1> QED
  BY <1>1, <1>2

LEMMA FlattenType ==
  ASSUME NEW S, NEW q \in Seq(Seq(S))
  PROVE  FlattenSeq(q) \in Seq(S)
<1> DEFINE n == Len(q)
<1>1. n \in Nat /\ \A k \in 1..n : q[k] \in Seq(S)
  OBVIOUS
<1>2. CASE n = 0
  <2>1. FlattenSeq(q) = q /\ q = <<>>
    BY <1>2 DEF FlattenSeq
  <2>2. <<>> \in Seq(S)
    OBVIOUS
  <2> QED BY <2>1, <2>2
<1>3. CASE n # 0
  <2>1. PICK f : FlatRec(q, n, f) /\ FlattenSeq(q) = f[n]
    BY <1>1, <1>3, FlattenIs
  <2> HIDE DEF n
  <2> DEFINE F == {k \in 1..n : f[k] \notin Seq(S)}
  <2>2. ASSUME F # {} PROVE FALSE
    <3>1. PICK k \in F : \A j \in F : k <= j
      <4>1. F \subseteq 1..n
        OBVIOUS
      <4> HIDE DEF F
      <4> QED BY <1>1, <2>2, <4>1, LeastIndex
    <3>2. k \in 1..n /\ f[k] \notin Seq(S)
      BY <3>1
    <3>3. f[k] = IF k = 1 THEN q[k] ELSE f[k - 1] \o q[k]
      BY <2>1, <3>2 DEF FlatRec
    <3>4. q[k] \in Seq(S)
      BY <1>1, <3>2
    <3>5. CASE k = 1
      BY <3>2, <3>3, <3>4, <3>5
    <3>6. CASE k # 1
      <4>1. k - 1 \in 1..n /\ ~(k <= k - 1)
        BY <1>1, <3>2, <3>6
      <4>2. f[k - 1] \in Seq(S)
        BY <3>1, <4>1
      <4>3. f[k - 1] \o q[k] \in Seq(S)
        BY <3>4, <4>2, ConcatProperties
      <4> QED BY <3>2, <3>3, <3>6, <4>3
    <3> QED BY <3>5, <3>6
  <2>3. n \in 1..n
    BY <1>1, <1>3
  <2> QED BY <2>1, <2>2, <2>3
<1> QED
  BY <1>2, <1>3

LEMMA PhraseType ==
  ASSUME NEW term \in Seq(Characters)
  PROVE  Phrase(term) \in Seq(Seq(Characters))
<1> DEFINE q == [i \in DOMAIN term |-> IF term[i] = "z" THEN <<"s", "s">> ELSE <<term[i]>>]
<1>1. q \in Seq(Seq(Characters))
  <2>1. "s" \in Characters
    BY DEF Characters, Letters
  <2>2. \A i \in 1..Len(term) : q[i] \in Seq(Characters)
    BY <2>1
  <2>3. q = [i \in 1..Len(term) |-> q[i]]
    OBVIOUS
  <2> HIDE DEF q
  <2> QED BY <2>2, <2>3
<1>2. Casefold(term) = FlattenSeq(q)
  BY DEF Casefold
<1> HIDE DEF q
<1>3. Casefold(term) \in Seq(Characters)
  BY <1>1, <1>2, FlattenType
<1>4. WordsIn(Casefold(term), Len(Words(Casefold(term))))
  BY <1>3, WordFacts
<1> QED
  BY <1>4 DEF WordsIn, Phrase

-----------------------------------------------------------------------------
(* Where a chunk has what was asked for: each place begins with the first    *)
(* word of a term, and so does each mark.                                    *)
BeginsAsked(text, queries, k) ==
  \E q \in ToSet(queries) : \E term \in ToSet(q) :
    Phrase(term) # <<>> /\ Phrase(term)[1] = Words(text)[k]

LEMMA PlaceFacts ==
  ASSUME NEW queries \in Seq(Seq(Seq(Characters))), NEW text \in Seq(Characters),
         NEW p \in Matched(text, MatchQuery(queries))
  PROVE  /\ p.first \in 1..Len(Words(text)) /\ p.last \in p.first..Len(Words(text))
         /\ BeginsAsked(text, queries, p.first)
<1> DEFINE W == Words(text)
           m == Len(W)
<1>1. W \in Seq(Seq(Characters)) /\ m \in Nat
  BY WordFacts DEF WordsIn
<1>2. PICK a \in MatchQuery(queries) : \E x \in a : p \in Places(text, x)
  <2> DEFINE all == MatchQuery(queries)
             There(a) == UNION {Places(text, x) : x \in a}
  <2>1. p \in UNION {There(a) : a \in {b \in all : Matches(text, b)}}
    BY DEF Matched
  <2>2. PICK a \in all : p \in There(a)
    <3> HIDE DEF all, There
    <3> QED BY <2>1
  <2>3. \E x \in a : p \in Places(text, x)
    BY <2>2
  <2> QED BY <2>2, <2>3
<1>3. PICK x \in a : p \in Places(text, x)
  BY <1>2
<1>4. PICK q \in ToSet(queries) : (\A literal \in ToSet(q) : Phrase(literal) # <<>>)
                                  /\ a = {Phrase(literal) : literal \in ToSet(q)}
  BY DEF MatchQuery
<1>5. PICK term \in ToSet(q) : x = Phrase(term) /\ x # <<>>
  BY <1>3, <1>4
<1>6. x \in Seq(Seq(Characters))
  <2>1. q \in Seq(Seq(Characters))
    BY DEF ToSet
  <2>2. term \in Seq(Characters)
    BY <2>1 DEF ToSet
  <2> QED BY <1>5, <2>2, PhraseType
<1> DEFINE l == Len(x)
<1>7. l \in Nat /\ l >= 1
  BY <1>5, <1>6
<1> HIDE DEF W
<1>8. PICK k \in 1..(m - l + 1) : p = [first |-> k, last |-> k + l - 1] /\ SubSeq(W, k, k + l - 1) = x
  BY <1>3 DEF Places, W
<1> HIDE DEF l, m
<1>9. k \in 1..m /\ k + l - 1 \in k..m
  BY <1>1, <1>7, <1>8
<1>10. x[1] = W[k]
  <2>1. \A i \in k..(k + l - 1) : W[i] \in Seq(Characters)
    <3>1. \A i \in k..(k + l - 1) : i \in 1..m
      BY <1>1, <1>9
    <3> QED BY <1>1, <3>1 DEF m
  <2>2. k \in Int /\ k + l - 1 \in Int /\ 1 \in 1..((k + l - 1) - k + 1)
    BY <1>7, <1>9
  <2>3. SubSeq(W, k, k + l - 1)[1] = W[k + 1 - 1]
    BY <2>1, <2>2, SubSeqProperties
  <2>4. k + 1 - 1 = k
    BY <1>9
  <2> QED BY <1>8, <2>3, <2>4
<1>11. BeginsAsked(text, queries, k)
  BY <1>4, <1>5, <1>10 DEF BeginsAsked, W
<1>12. p.first = k /\ p.last = k + l - 1
  BY <1>8
<1> QED
  BY <1>9, <1>11, <1>12 DEF m, W

LEMMA MarkFacts ==
  ASSUME NEW queries \in Seq(Seq(Seq(Characters))), NEW text \in Seq(Characters),
         NEW mark \in Marks(Matched(text, MatchQuery(queries)))
  PROVE  /\ mark.first \in 1..Len(Words(text)) /\ mark.last \in mark.first..Len(Words(text))
         /\ BeginsAsked(text, queries, mark.first)
<1> DEFINE places == Matched(text, MatchQuery(queries))
           starts == {p.first : p \in {q \in places : ~\E r \in places : r.first < q.first /\ q.first <= r.last}}
           Run(s) == {p \in places : p.first >= s /\ ~\E t \in starts : s < t /\ t <= p.first}
           m == Len(Words(text))
<1>1. m \in Nat
  BY WordFacts DEF WordsIn
<1>2. PICK s \in starts : mark = [first |-> s, last |-> Max({p.last : p \in Run(s)})]
  BY DEF Marks
<1>3. PICK p \in places : p.first = s
  OBVIOUS
<1> HIDE DEF m, starts
<1>4. \A r \in places : r.first \in 1..m /\ r.last \in r.first..m /\ BeginsAsked(text, queries, r.first)
  BY PlaceFacts DEF m
<1> HIDE DEF places
<1>5. p \in Run(s)
  <2>1. p.first >= s
    BY <1>3, <1>4
  <2>2. ~\E t \in starts : s < t /\ t <= p.first
    <3>1. \A t \in starts : t \in 1..m
      <4>1. \A t \in starts : \E r \in places : t = r.first
        BY DEF starts
      <4> QED BY <1>4, <4>1
    <3> QED BY <1>3, <1>4, <3>1
  <2> QED BY <2>1, <2>2
<1> DEFINE L == {r.last : r \in Run(s)}
<1>6. L \subseteq 0..m /\ p.last \in L
  <2>1. \A r \in Run(s) : r \in places
    OBVIOUS
  <2> HIDE DEF Run
  <2> QED BY <1>1, <1>4, <1>5, <2>1
<1> HIDE DEF L
<1>7. Max(L) \in 0..m /\ Max(L) >= p.last
  BY <1>1, <1>6, Bounds
<1>8. mark.first = s /\ mark.last = Max(L)
  BY <1>2 DEF L
<1>9. p.last \in s..m /\ s \in 1..m /\ BeginsAsked(text, queries, s)
  BY <1>3, <1>4
<1>10. Max(L) \in s..m
  BY <1>7, <1>9
<1> QED
  BY <1>8, <1>9, <1>10 DEF m

-----------------------------------------------------------------------------
(* The fragment, and what is marked in it: its marked part lies within it    *)
(* and begins with a word that was asked for.                                *)
SpanAt(text, places, w, k, l) ==
  /\ k \in 1..Len(Words(text)) /\ l \in k..Len(Words(text))
  /\ FragmentFrom(text, w) \in Nat /\ FragmentTo(text, w) \in Nat /\ FragmentTo(text, w) <= Len(text)
  /\ FragmentFrom(text, w) <= Tokens(text)[k].from /\ Tokens(text)[l].to <= FragmentTo(text, w)
  /\ Span(text, places, w).from = Tokens(text)[k].from - FragmentFrom(text, w)
  /\ Span(text, places, w).to = Tokens(text)[l].to - FragmentFrom(text, w)

LEMMA SpanFacts ==
  ASSUME NEW queries \in Seq(Seq(Seq(Characters))), NEW text \in Seq(Characters), NEW w \in Nat \ {0},
         NEW places, places = Matched(text, MatchQuery(queries)), Marked(text, places, w) # {}
  PROVE  \E k, l : SpanAt(text, places, w, k, l) /\ BeginsAsked(text, queries, k)
<1> DEFINE T == Tokens(text)
           m == Len(Words(text))
           N == Len(text)
           marked == Marked(text, places, w)
           end == LastWord(text, w)
           FF == FragmentFrom(text, w)
           FT == FragmentTo(text, w)
           F == {b.first : b \in marked}
           L == {b.last : b \in marked}
           k == Min(F)
           last == Min({end, Max(L)})
<1>1. /\ m \in Nat
      /\ \A n \in 1..m : T[n].from \in Nat /\ T[n].to \in Nat /\ T[n].from < T[n].to /\ T[n].to <= N
      /\ \A i, j \in 1..m : i < j => T[i].from <= T[j].from /\ T[i].to <= T[j].to
  BY WordFacts DEF WordsIn
<1>2. N \in Nat
  OBVIOUS
<1> HIDE DEF T, N
<1>3. \A b \in marked : /\ b \in Marks(places) /\ b.first \in w..end
                        /\ b.first \in 1..m /\ b.last \in b.first..m /\ BeginsAsked(text, queries, b.first)
  BY MarkFacts DEF Marked
<1>4. SnippetTokens \in Nat /\ SnippetTokens >= 1
  BY QueryAssumption
<1>5. end = (IF w + SnippetTokens - 1 <= m THEN w + SnippetTokens - 1 ELSE m)
  <2> DEFINE e == w + SnippetTokens - 1
  <2>1. e \in Int /\ m \in Int
    BY <1>1, <1>4
  <2>2. end = Min({e, m})
    BY DEF LastWord
  <2> HIDE DEF e, m, end
  <2>3. end = IF e <= m THEN e ELSE m
    BY <2>1, <2>2, MinOfTwo
  <2> QED BY <2>3 DEF e
<1>6. Span(text, places, w).from = T[k].from - FF /\ Span(text, places, w).to = T[last].to - FF
  BY DEF Span, T
<1>7. /\ FF = IF w = 1 THEN 0 ELSE T[w].from
      /\ FT = IF end = m THEN N ELSE T[end].to
  BY DEF FragmentFrom, FragmentTo, T, N
<1> HIDE DEF m, marked, end, FF, FT
<1>8. PICK b \in marked : b.first = k
  <2>1. F \subseteq 0..m /\ F # {}
    BY <1>1, <1>3 DEF marked
  <2> HIDE DEF F
  <2>2. Min(F) \in F
    BY <1>1, <2>1, Bounds
  <2> QED BY <2>2 DEF F
<1>9. Max(L) \in b.last..m
  <2>1. L \subseteq 0..m /\ b.last \in L
    BY <1>1, <1>3, <1>8
  <2> HIDE DEF L
  <2>2. Max(L) \in 0..m /\ Max(L) >= b.last
    BY <1>1, <2>1, Bounds
  <2>3. b.last \in Int
    BY <1>3, <1>8
  <2> QED BY <2>2, <2>3
<1> HIDE DEF F, L, k
<1>10. /\ k \in 1..m /\ w <= k /\ k <= end /\ b.last \in k..m /\ BeginsAsked(text, queries, k)
       /\ end \in 1..m /\ w \in 1..m
  <2>1. k \in w..end /\ k \in 1..m /\ b.last \in k..m /\ BeginsAsked(text, queries, k)
    BY <1>3, <1>8
  <2>2. end \in Int /\ end <= m
    BY <1>1, <1>4, <1>5
  <2> QED BY <1>1, <2>1, <2>2
<1>11. last \in k..m /\ last <= end
  <2> DEFINE g == Max(L)
  <2>1. g \in Int /\ g >= b.last /\ end \in Int
    BY <1>1, <1>9, <1>10
  <2> HIDE DEF g
  <2>2. Min({end, g}) = IF end <= g THEN end ELSE g
    BY <2>1, MinOfTwo
  <2>3. last = IF end <= g THEN end ELSE g
    BY <2>2 DEF g
  <2> HIDE DEF last
  <2> QED BY <1>1, <1>10, <2>1, <2>3
<1> HIDE DEF last
<1>12. FF \in Nat /\ FF <= T[k].from
  <2>1. CASE w = 1
    BY <1>1, <1>7, <1>10, <2>1
  <2>2. CASE w # 1
    <3>1. T[w].from \in Nat /\ T[k].from \in Nat /\ (w = k \/ w < k)
      BY <1>1, <1>10
    <3>2. w < k => T[w].from <= T[k].from
      BY <1>1, <1>10
    <3> QED BY <1>7, <2>2, <3>1, <3>2
  <2> QED BY <2>1, <2>2
<1>13. last \in 1..m
  BY <1>1, <1>10, <1>11
<1>14. FT \in Nat /\ FT <= N /\ T[last].to <= FT
  <2>1. CASE end = m
    BY <1>1, <1>2, <1>7, <1>13, <2>1
  <2>2. CASE end # m
    <3>1. T[end].to \in Nat /\ T[end].to <= N /\ T[last].to \in Nat /\ (last = end \/ last < end)
      BY <1>1, <1>10, <1>11, <1>13
    <3>2. last < end => T[last].to <= T[end].to
      BY <1>1, <1>10, <1>13
    <3> QED BY <1>7, <2>2, <3>1, <3>2
  <2> QED BY <2>1, <2>2
<1>15. SpanAt(text, places, w, k, last)
  BY <1>6, <1>10, <1>11, <1>12, <1>14 DEF SpanAt, m, T, N, FF, FT
<1> QED
  BY <1>10, <1>15

LEMMA FindFacts ==
  ASSUME NEW text \in Seq(Characters), NEW a \in Nat, NEW b \in Nat, a <= b, b <= Len(text)
  PROVE  LET o == Find(text, SubSeq(text, a + 1, b))
         IN  /\ o \in Nat /\ o + (b - a) <= Len(text)
             /\ \A i \in 1..(b - a) : text[o + i] = text[a + i]
<1> DEFINE N == Len(text)
           part == SubSeq(text, a + 1, b)
           l == b - a
           F == {o \in 0..(N - Len(part)) : SubSeq(text, o + 1, o + Len(part)) = part}
           o == Find(text, part)
<1>1. N \in Nat /\ l \in Nat /\ a + l = b /\ b <= N /\ \A i \in 1..N : text[i] \in Characters
  OBVIOUS
<1>2. ASSUME NEW c \in Nat, c + l <= N
      PROVE  /\ SubSeq(text, c + 1, c + l) \in Seq(Characters) /\ Len(SubSeq(text, c + 1, c + l)) = l
             /\ \A i \in 1..l : SubSeq(text, c + 1, c + l)[i] = text[c + i]
  <2> HIDE DEF N, l
  <2>1. c + 1 \in Int /\ c + l \in Int /\ (c + 1)..(c + l) \subseteq 1..N
    BY <1>1, <1>2
  <2>2. \A i \in (c + 1)..(c + l) : text[i] \in Characters
    BY <1>1, <2>1
  <2> DEFINE x == c + 1
             y == c + l
             s == SubSeq(text, x, y)
  <2>3. x \in Int /\ y \in Int /\ \A i \in x..y : text[i] \in Characters
    BY <2>1, <2>2
  <2> HIDE DEF x, y
  <2>4. s \in Seq(Characters) /\ Len(s) = (IF x <= y THEN y - x + 1 ELSE 0) /\ \A i \in 1..(y - x + 1) : s[i] = text[x + i - 1]
    BY <2>3, SubSeqProperties
  <2> HIDE DEF s
  <2>5. Len(s) = l
    BY <1>1, <2>4 DEF x, y
  <2>6. ASSUME NEW i \in 1..l PROVE s[i] = text[c + i]
    <3>1. i \in 1..(y - x + 1) /\ x + i - 1 = c + i
      BY <1>1 DEF x, y
    <3> QED BY <2>4, <3>1
  <2> QED BY <2>4, <2>5, <2>6 DEF s, x, y
<1> HIDE DEF N, l
<1>3. part = SubSeq(text, a + 1, a + l) /\ Len(part) = l
  <2>1. a + l <= N
    BY <1>1
  <2>2. Len(SubSeq(text, a + 1, a + l)) = l
    BY <1>2, <2>1
  <2>3. part = SubSeq(text, a + 1, a + l)
    BY <1>1
  <2> QED BY <2>2, <2>3
<1> HIDE DEF part
<1>4. o \in F
  <2>1. a \in F
    <3>1. a \in 0..(N - l)
      BY <1>1
    <3> QED BY <1>3, <3>1
  <2>2. F \subseteq 0..N
    BY <1>1, <1>3
  <2>3. o = Min(F)
    BY DEF Find, N
  <2> HIDE DEF F, o
  <2> QED BY <1>1, <2>1, <2>2, <2>3, Bounds
<1> HIDE DEF o
<1>5. o \in 0..(N - l) /\ SubSeq(text, o + 1, o + l) = SubSeq(text, a + 1, a + l)
  BY <1>3, <1>4
<1> HIDE DEF F
<1>6. o \in Nat /\ o + l <= N /\ a + l <= N
  BY <1>1, <1>5
<1>7. \A i \in 1..l : SubSeq(text, o + 1, o + l)[i] = text[o + i]
  BY <1>2, <1>6
<1>8. \A i \in 1..l : SubSeq(text, a + 1, a + l)[i] = text[a + i]
  BY <1>2, <1>6
<1>9. \A i \in 1..l : text[o + i] = text[a + i]
  BY <1>5, <1>7, <1>8
<1> QED
  BY <1>6, <1>9 DEF N, l, o, part

(* The match lies within the chunk and begins with a word that was asked     *)
(* for, wherever its fragment was found.                                     *)
MatchIn(text, queries, match) ==
  /\ match.from \in Nat /\ match.to \in Nat /\ match.from <= match.to /\ match.to <= Len(text)
  /\ \E q \in ToSet(queries) : \E term \in ToSet(q) :
       Phrase(term) # <<>> /\ IsPrefix(Phrase(term)[1], SubSeq(text, match.from + 1, match.to))

LEMMA MatchFacts ==
  ASSUME NEW queries \in Seq(Seq(Seq(Characters))), NEW text \in Seq(Characters), NEW w \in Nat \ {0},
         NEW places, places = Matched(text, MatchQuery(queries)), Marked(text, places, w) # {}
  PROVE  MatchIn(text, queries,
                 [from |-> Find(text, Fragment(text, w)) + Span(text, places, w).from,
                  to   |-> Find(text, Fragment(text, w)) + Span(text, places, w).to])
<1>1. PICK k, l : SpanAt(text, places, w, k, l) /\ BeginsAsked(text, queries, k)
  BY SpanFacts
<1> DEFINE T == Tokens(text)
           m == Len(Words(text))
           N == Len(text)
           a == FragmentFrom(text, w)
           b == FragmentTo(text, w)
           o == Find(text, Fragment(text, w))
           x == T[k].from
           y == T[k].to
           z == T[l].to
           from == o + Span(text, places, w).from
           to == o + Span(text, places, w).to
<1>2. N \in Nat /\ \A i \in 1..N : text[i] \in Characters
  OBVIOUS
<1>3. /\ k \in 1..m /\ l \in k..m /\ a \in Nat /\ b \in Nat /\ b <= N /\ a <= x /\ z <= b
      /\ from = o + (x - a) /\ to = o + (z - a)
  BY <1>1 DEF SpanAt
<1>4. m \in Nat /\ x \in Nat /\ y \in Nat /\ x < y /\ z \in Nat /\ y <= z
      /\ Words(text)[k] = SubSeq(text, x + 1, y)
  <2>1. /\ m \in Nat
        /\ \A n \in 1..m : /\ T[n].from \in Nat /\ T[n].to \in Nat /\ T[n].from < T[n].to
                           /\ Words(text)[n] = SubSeq(text, T[n].from + 1, T[n].to)
        /\ \A i, j \in 1..m : i < j => T[i].to <= T[j].to
    BY WordFacts DEF WordsIn
  <2> HIDE DEF m, T
  <2>2. l \in 1..m /\ k \in 1..m /\ (k = l \/ k < l)
    BY <1>3, <2>1
  <2>3. y \in Nat /\ z \in Nat
    BY <2>1, <2>2
  <2>4. y <= z
    <3>1. k < l => y <= z
      BY <2>1, <2>2
    <3> QED BY <2>2, <2>3, <3>1
  <2> QED BY <2>1, <2>2, <2>3, <2>4
<1> HIDE DEF T, m, N, x, y, z
<1>5. a <= b
  BY <1>3, <1>4
<1>6. o \in Nat /\ o + (b - a) <= N /\ \A i \in 1..(b - a) : text[o + i] = text[a + i]
  <2>1. Fragment(text, w) = SubSeq(text, a + 1, b)
    BY DEF Fragment
  <2> HIDE DEF a, b, o
  <2>2. /\ Find(text, SubSeq(text, a + 1, b)) \in Nat
        /\ Find(text, SubSeq(text, a + 1, b)) + (b - a) <= N
        /\ \A i \in 1..(b - a) : text[Find(text, SubSeq(text, a + 1, b)) + i] = text[a + i]
    BY <1>3, <1>5, FindFacts DEF N
  <2> QED BY <2>1, <2>2 DEF o
<1> HIDE DEF a, b, o, from, to
<1>7. from \in Nat /\ to \in Nat /\ from <= to /\ to <= N
  BY <1>2, <1>3, <1>4, <1>5, <1>6
<1> DEFINE u == y - x
           v == to - from
           p == SubSeq(text, x + 1, y)
           s == SubSeq(text, from + 1, to)
<1>8. u \in Nat /\ v \in Nat /\ u <= v
  BY <1>3, <1>4, <1>6, <1>7
<1>9. p \in Seq(Characters) /\ Len(p) = u /\ \A i \in 1..u : p[i] = text[x + i]
  <2>1. x + 1 \in Int /\ y \in Int /\ (x + 1)..y \subseteq 1..N
    BY <1>2, <1>3, <1>4
  <2>2. \A i \in (x + 1)..y : text[i] \in Characters
    BY <1>2, <2>1
  <2> DEFINE c == x + 1
  <2>3. c \in Int /\ y \in Int /\ \A i \in c..y : text[i] \in Characters
    BY <2>1, <2>2
  <2>4. p = SubSeq(text, c, y)
    OBVIOUS
  <2> HIDE DEF c, p
  <2>5. p \in Seq(Characters) /\ Len(p) = (IF c <= y THEN y - c + 1 ELSE 0) /\ \A i \in 1..(y - c + 1) : p[i] = text[c + i - 1]
    BY <2>3, <2>4, SubSeqProperties
  <2>6. Len(p) = u
    BY <1>4, <2>5 DEF c
  <2>7. ASSUME NEW i \in 1..u PROVE p[i] = text[x + i]
    <3>1. i \in 1..(y - c + 1) /\ c + i - 1 = x + i
      BY <1>4 DEF c
    <3> QED BY <2>5, <3>1
  <2> QED BY <2>5, <2>6, <2>7
<1>10. s \in Seq(Characters) /\ Len(s) = v /\ \A i \in 1..v : s[i] = text[from + i]
  <2>1. from + 1 \in Int /\ to \in Int /\ (from + 1)..to \subseteq 1..N
    BY <1>2, <1>7
  <2>2. \A i \in (from + 1)..to : text[i] \in Characters
    BY <1>2, <2>1
  <2> DEFINE c == from + 1
  <2>3. c \in Int /\ to \in Int /\ \A i \in c..to : text[i] \in Characters
    BY <2>1, <2>2
  <2>4. s = SubSeq(text, c, to)
    OBVIOUS
  <2> HIDE DEF c, s
  <2>5. s \in Seq(Characters) /\ Len(s) = (IF c <= to THEN to - c + 1 ELSE 0) /\ \A i \in 1..(to - c + 1) : s[i] = text[c + i - 1]
    BY <2>3, <2>4, SubSeqProperties
  <2>6. Len(s) = v
    BY <1>7, <2>5 DEF c
  <2>7. ASSUME NEW i \in 1..v PROVE s[i] = text[from + i]
    <3>1. i \in 1..(to - c + 1) /\ c + i - 1 = from + i
      BY <1>7 DEF c
    <3> QED BY <2>5, <3>1
  <2> QED BY <2>5, <2>6, <2>7
<1> HIDE DEF u, v, p, s
<1>11. ASSUME NEW i \in 1..u PROVE p[i] = s[i]
  <2>1. PICK j \in Int : j = (x - a) + i
    BY <1>3, <1>4, <1>8
  <2>2. j \in 1..(b - a) /\ o + j = from + i /\ a + j = x + i
    BY <1>3, <1>4, <1>6, <1>8, <2>1 DEF u
  <2>3. text[o + j] = text[a + j]
    BY <1>6, <2>2
  <2>4. i \in 1..v
    BY <1>8
  <2> QED BY <1>9, <1>10, <2>2, <2>3, <2>4
<1>12. IsPrefix(p, s)
  <2>1. SubSeq(p, 1, u) = [i \in 1..u |-> p[i]] /\ SubSeq(s, 1, u) = [i \in 1..u |-> s[i]]
    <3>1. SubSeq(p, 1, u) = [i \in 1..(1 + u - 1) |-> p[i + 1 - 1]]
      BY <1>8, <1>9
    <3>2. SubSeq(s, 1, u) = [i \in 1..(1 + u - 1) |-> s[i + 1 - 1]]
      BY <1>8, <1>10
    <3>3. 1 + u - 1 = u /\ \A i \in 1..u : i + 1 - 1 = i
      BY <1>8
    <3> QED BY <3>1, <3>2, <3>3
  <2>2. SubSeq(p, 1, u) = SubSeq(s, 1, u)
    BY <1>11, <2>1
  <2> QED BY <1>8, <1>9, <1>10, <2>2 DEF IsPrefix
<1>13. \E q \in ToSet(queries) : \E term \in ToSet(q) : Phrase(term) # <<>> /\ IsPrefix(Phrase(term)[1], s)
  <2>1. PICK q \in ToSet(queries) : \E term \in ToSet(q) : Phrase(term) # <<>> /\ Phrase(term)[1] = Words(text)[k]
    BY <1>1, Zenon DEF BeginsAsked
  <2>2. PICK term \in ToSet(q) : Phrase(term) # <<>> /\ Phrase(term)[1] = Words(text)[k]
    BY <2>1
  <2>3. Phrase(term)[1] = p
    BY <1>4, <2>2 DEF p
  <2> QED BY <1>12, <2>2, <2>3
<1> DEFINE match == [from |-> from, to |-> to]
<1>14. match.from = from /\ match.to = to
  OBVIOUS
<1> HIDE DEF match
<1>15. MatchIn(text, queries, match)
  BY <1>7, <1>13, <1>14 DEF MatchIn, s, N
<1> QED
  BY <1>15 DEF match, from, to, o

-----------------------------------------------------------------------------
(* How a snippet is bounded.                                                 *)
CoverFrom(n, start, length, b) ==
  IF (IF n <= start + length THEN n ELSE start + length) < b
  THEN IF b - length >= 0 THEN b - length ELSE 0
  ELSE start
CoverTo(n, start, length, b) ==
  IF (IF n <= start + length THEN n ELSE start + length) < b THEN b
  ELSE IF n <= start + length THEN n ELSE start + length

LEMMA CoverIs ==
  ASSUME NEW text \in Seq(Characters), NEW match, match.to \in Nat, NEW start \in Nat, NEW length \in Nat
  PROVE  /\ Cover(text, start, length, match).from = CoverFrom(Len(text), start, length, match.to)
         /\ Cover(text, start, length, match).to = CoverTo(Len(text), start, length, match.to)
<1> DEFINE N == Len(text)
           e == start + length
           g == match.to - length
           end == Min({N, e})
<1>1. N \in Int /\ e \in Int /\ g \in Int
  OBVIOUS
<1> HIDE DEF N, e, g
<1>2. Min({N, e}) = IF N <= e THEN N ELSE e
  BY <1>1, MinOfTwo
<1>3. Max({0, g}) = IF g >= 0 THEN g ELSE 0
  <2>1. Max({0, g}) = IF 0 >= g THEN 0 ELSE g
    BY <1>1, MaxOfTwo
  <2> DEFINE y == Max({0, g})
  <2> HIDE DEF y
  <2>2. y = IF 0 >= g THEN 0 ELSE g
    BY <2>1 DEF y
  <2>3. y = IF g >= 0 THEN g ELSE 0
    BY <1>1, <2>2
  <2> QED BY <2>3 DEF y
<1> HIDE DEF end
<1>4. Cover(text, start, length, match) = IF end < match.to THEN [from |-> Max({0, g}), to |-> match.to]
                                          ELSE [from |-> start, to |-> end]
  BY DEF Cover, end, N, e, g
<1>5. end = IF N <= e THEN N ELSE e
  BY <1>2 DEF end
<1>6. CASE end < match.to
  <2>1. Cover(text, start, length, match).from = Max({0, g}) /\ Cover(text, start, length, match).to = match.to
    BY <1>4, <1>6
  <2> QED BY <1>3, <1>5, <1>6, <2>1 DEF N, e, g, CoverFrom, CoverTo
<1>7. CASE ~(end < match.to)
  <2>1. Cover(text, start, length, match).from = start /\ Cover(text, start, length, match).to = end
    BY <1>4, <1>7
  <2> QED BY <1>5, <1>7, <2>1 DEF N, e, g, CoverFrom, CoverTo
<1> QED
  BY <1>6, <1>7

LEMMA BoundaryFacts ==
  ASSUME NEW text \in Seq(Characters), NEW offset \in 0..Len(text)
  PROVE  /\ ForwardTo(text, offset) \in offset..Len(text) /\ (offset = 0 => ForwardTo(text, offset) = 0)
         /\ BackTo(text, offset) \in 0..offset /\ (offset = Len(text) => BackTo(text, offset) = offset)
<1> DEFINE N == Len(text)
           F == {o \in offset..N : o = N \/ White(text, o + 1)}
           B == {o \in 0..offset : o = 0 \/ White(text, o)}
<1>1. N \in Nat /\ offset \in 0..N
  OBVIOUS
<1> HIDE DEF N
<1>2. Min(F) \in F
  <2>1. F \subseteq 0..N /\ N \in F
    BY <1>1
  <2> HIDE DEF F
  <2> QED BY <1>1, <2>1, Bounds
<1>3. Max(B) \in B
  <2>1. B \subseteq 0..N /\ 0 \in B
    BY <1>1
  <2> HIDE DEF B
  <2> QED BY <1>1, <2>1, Bounds
<1>4. Min(F) \in offset..N /\ Max(B) \in 0..offset
  BY <1>2, <1>3
<1>5. ForwardTo(text, offset) = (IF offset = 0 THEN 0 ELSE Min(F)) /\ BackTo(text, offset) = IF offset = N THEN offset ELSE Max(B)
  BY DEF ForwardTo, BackTo, F, B, N
<1> HIDE DEF F, B
<1> QED
  BY <1>1, <1>4, <1>5 DEF N

SnippetFits(shown, text, match, limit) ==
  /\ shown.to - shown.from + (IF shown.before THEN 1 ELSE 0) + (IF shown.after THEN 1 ELSE 0) <= limit
  /\ shown.before <=> shown.from > 0
  /\ shown.after  <=> shown.to < Len(text)
  /\ match.to <= shown.to
  /\ match.to - match.from <= limit - 2 => shown.from <= match.from

LEMMA BoundedFits ==
  ASSUME NEW text \in Seq(Characters), NEW match, match.from \in Nat, match.to \in Nat,
         match.from <= match.to, match.to <= Len(text), NEW limit \in Nat, limit >= 3
  PROVE  SnippetFits(Bounded(text, match, limit), text, match, limit)
<1> DEFINE N == Len(text)
           a == match.from
           b == match.to
           shown == Bounded(text, match, limit)
<1>1. N \in Nat /\ a \in Nat /\ b \in Nat /\ a <= b /\ b <= N
  OBVIOUS
<1>2. CASE N <= limit
  <2>1. shown = [from |-> 0, to |-> N, before |-> FALSE, after |-> FALSE]
    BY <1>2 DEF Bounded
  <2>2. shown.from = 0 /\ shown.to = N /\ ~shown.before /\ ~shown.after
    BY <2>1
  <2> HIDE DEF shown, N, a, b
  <2>3. /\ 0 <= a /\ b <= N /\ ~(0 > 0) /\ ~(N < N) /\ N - 0 + 0 + 0 <= limit
    BY <1>1, <1>2
  <2>4. /\ shown.to - shown.from + (IF shown.before THEN 1 ELSE 0) + (IF shown.after THEN 1 ELSE 0) <= limit
        /\ ~(shown.from > 0) /\ ~(shown.to < N) /\ b <= shown.to /\ shown.from <= a
    BY <2>2, <2>3
  <2> QED BY <2>2, <2>4 DEF SnippetFits, N, a, b, shown
<1>3. CASE ~(N <= limit)
  <2> DEFINE context == Max({0, limit - 2 - (b - a)})
             third   == context \div 3
             start   == Max({0, a - third})
             first   == Cover(text, start, limit - 2, match)
             before  == first.from > 0
             after   == first.to < N
             room    == limit - (IF before THEN 1 ELSE 0) - (IF after THEN 1 ELSE 0)
             second  == Cover(text, first.from, room, match)
             x == first.from
             y == first.to
             p == second.from
             q == second.to
  <2>1. shown = [from |-> StartAt(text, p, match), to |-> EndAt(text, q, match), before |-> before, after |-> after]
    BY <1>3, Zenon DEF Bounded
  <2>2. third \in Nat
    <3> DEFINE g == limit - 2 - (b - a)
    <3>1. 0 \in Int /\ g \in Int
      BY <1>1
    <3> HIDE DEF g
    <3>2. Max({0, g}) = IF 0 >= g THEN 0 ELSE g
      BY <3>1, MaxOfTwo
    <3>3. context \in Nat
      <4> DEFINE c == Max({0, g})
      <4>1. c = IF 0 >= g THEN 0 ELSE g
        BY <3>2
      <4> HIDE DEF c
      <4>2. c \in Nat
        BY <3>1, <4>1
      <4> QED BY <4>2 DEF c, g
    <3> HIDE DEF context
    <3> QED BY <3>3
  <2> HIDE DEF third
  <2>3. start \in 0..a
    <3> DEFINE g == a - third
    <3>1. 0 \in Int /\ g \in Int
      BY <1>1, <2>2
    <3> HIDE DEF g
    <3>2. Max({0, g}) = IF 0 >= g THEN 0 ELSE g
      BY <3>1, MaxOfTwo
    <3> DEFINE c == Max({0, g})
    <3>3. c = IF 0 >= g THEN 0 ELSE g
      BY <3>2
    <3> HIDE DEF c
    <3>4. c \in 0..a
      BY <1>1, <2>2, <3>1, <3>3 DEF g
    <3> QED BY <3>4 DEF c, g
  <2> HIDE DEF start, N, a, b, shown
  <2>4. x = CoverFrom(N, start, limit - 2, b) /\ y = CoverTo(N, start, limit - 2, b)
    <3>1. start \in Nat /\ limit - 2 \in Nat /\ b \in Nat
      BY <1>1, <2>3
    <3> QED BY <3>1, CoverIs DEF N, b
  <2> HIDE DEF first
  <2>5. x \in Nat /\ y \in Nat
    BY <1>1, <2>3, <2>4 DEF CoverFrom, CoverTo
  <2> DEFINE l == limit
  <2>6. room \in {l - 2, l - 1, l} /\ room \in Nat
    OBVIOUS
  <2>7. p = CoverFrom(N, x, room, b) /\ q = CoverTo(N, x, room, b)
    BY <1>1, <2>5, <2>6, CoverIs DEF N, b
  <2> HIDE DEF second, x, y, p, q
  <2>8. room = (IF x > 0 THEN IF y < N THEN limit - 2 ELSE limit - 1 ELSE IF y < N THEN limit - 1 ELSE limit)
    BY DEF x, y
  <2> DEFINE r == room
  <2>9. r = (IF x > 0 THEN IF y < N THEN limit - 2 ELSE limit - 1 ELSE IF y < N THEN limit - 1 ELSE limit)
    BY <2>8
  <2> HIDE DEF r
  <2>10. p = CoverFrom(N, x, r, b) /\ q = CoverTo(N, x, r, b)
    BY <2>7 DEF r
  <2>12. /\ p \in 0..N /\ q \in 0..N /\ p <= q /\ b <= q
         /\ q - p <= r
         /\ (x > 0 <=> p > 0) /\ (y < N <=> q < N)
         /\ (b - a <= limit - 2 => p <= a)
    BY <1>1, <1>3, <2>3, <2>4, <2>5, <2>9, <2>10 DEF CoverFrom, CoverTo
  <2> DEFINE f == StartAt(text, p, match)
             t == EndAt(text, q, match)
  <2>13. f \in p..N /\ (p = 0 => f = 0) /\ (p <= a => f <= a)
    <3>1. ForwardTo(text, p) \in p..N /\ (p = 0 => ForwardTo(text, p) = 0)
      BY <2>12, BoundaryFacts DEF N
    <3>2. f = IF ForwardTo(text, p) <= a THEN ForwardTo(text, p) ELSE p
      BY DEF StartAt, a
    <3> HIDE DEF f
    <3> QED BY <1>1, <2>12, <3>1, <3>2
  <2>14. t \in 0..q /\ (q = N => t = N) /\ b <= t
    <3>1. BackTo(text, q) \in 0..q /\ (q = N => BackTo(text, q) = N)
      BY <2>12, BoundaryFacts DEF N
    <3>2. t = IF BackTo(text, q) >= b THEN BackTo(text, q) ELSE q
      BY DEF EndAt, b
    <3> HIDE DEF t
    <3> QED BY <1>1, <2>12, <3>1, <3>2
  <2> HIDE DEF f, t
  <2>15. /\ (f > 0 <=> x > 0) /\ (t < N <=> y < N) /\ b <= t /\ (b - a <= limit - 2 => f <= a)
         /\ t - f <= r
    <3>1. f \in Nat /\ t \in Nat /\ p <= f /\ t <= q /\ (p = 0 => f = 0) /\ (q = N => t = N) /\ p \in Nat /\ q \in Nat /\ q <= N
      BY <1>1, <2>12, <2>13, <2>14
    <3>2. (f > 0 <=> p > 0) /\ (t < N <=> q < N)
      BY <1>1, <3>1
    <3>3. r \in Int
      BY <2>9
    <3>4. t - f <= r
      BY <2>12, <3>1, <3>3
    <3> QED BY <2>12, <2>13, <2>14, <3>2, <3>4
  <2>16. shown.from = f /\ shown.to = t /\ shown.before = (x > 0) /\ shown.after = (y < N)
    BY <2>1 DEF f, t, x, y
  <2>17. t - f + (IF x > 0 THEN 1 ELSE 0) + (IF y < N THEN 1 ELSE 0) <= limit
    BY <1>1, <2>5, <2>9, <2>12, <2>13, <2>14, <2>15
  <2> QED BY <2>15, <2>16, <2>17 DEF SnippetFits, shown, N, a, b
<1> QED
  BY <1>2, <1>3

-----------------------------------------------------------------------------
(* SnippetsShowTheMatch of a hit and a document that are given.              *)
Shows(hit, asked, d) ==
  /\ SnippetFits(hit.shown, d.chunks[hit.chunk], hit.match, asked.characters)
  /\ \E q \in ToSet(asked.queries) : \E term \in ToSet(q) :
       Phrase(term) # <<>> /\ IsPrefix(Phrase(term)[1], SubSeq(d.chunks[hit.chunk], hit.match.from + 1, hit.match.to))
AllShow(a, d) == a.kind = "hits" => \A n \in DOMAIN a.hits : Shows(a.hits[n], a.asked, d)

LEMMA ShowsByHit ==
  (SnippetsShowTheMatch <=> AllShow(answer, document)) /\ (SnippetsShowTheMatch' <=> AllShow(answer', document'))
<1>1. SnippetsShowTheMatch <=> AllShow(answer, document)
  BY Zenon DEF SnippetsShowTheMatch, AllShow, Shows, SnippetFits
<1>2. SnippetsShowTheMatch' <=> AllShow(answer', document')
  BY Zenon DEF SnippetsShowTheMatch, AllShow, Shows, SnippetFits
<1> QED
  BY <1>1, <1>2

LEMMA SearchShows ==
  ASSUME document \in Documents, NEW s \in Searches, Search(s), document' = document
  PROVE  SnippetsShowTheMatch'
<1> DEFINE alternatives == MatchQuery(s.queries)
           M == Matching(alternatives)
           text(c) == document.chunks[c]
           places(c) == Matched(text(c), alternatives)
<1>1. IsFiniteSet(M) /\ \A c \in M : c \in DOMAIN document.chunks
  <2>1. M = {c \in DOMAIN document.chunks : Asked(s.queries, c)}
    BY MatchingIs
  <2> DEFINE P == M
  <2>2. M = {c \in DOMAIN document.chunks : c \in P}
    BY <2>1
  <2> HIDE DEF P, M
  <2>3. IsFiniteSet(M)
    BY <2>2, ChunksAreFinite
  <2> QED BY <2>1, <2>3
<1>2. s.limit \in Nat \ {0} /\ s.queries \in Seq(Seq(Seq(Characters))) /\ s.characters \in Nat /\ s.characters >= 3
      /\ document.chunks \in Seq(Seq(Characters))
  BY QueryAssumption
<1>3. PICK ranked \in SetToSeqs(M) :
        LET fetched == Fetched(ranked, s.limit)
        IN  \E windows \in [DOMAIN fetched -> 1..Longest] :
              answer' = [kind |-> "refused", asked |-> s]
              \/ /\ \A n \in DOMAIN fetched : Marked(text(fetched[n]), places(fetched[n]), windows[n]) # {}
                 /\ answer' = [kind |-> "hits", asked |-> s,
                               hits |-> [n \in 1..Min({s.limit, Len(fetched)}) |->
                                           Hit(fetched[n], alternatives, windows[n], s.characters)],
                               more |-> Len(fetched) > s.limit]
  BY Zenon DEF Search
<1> HIDE DEF alternatives
<1> DEFINE fetched == Fetched(ranked, s.limit)
           m       == Min({s.limit, Len(fetched)})
<1>4. \A n \in 1..m : fetched[n] \in M /\ n \in DOMAIN fetched
  <2> HIDE DEF M
  <2>1. FirstOfThem(M, Fetched(ranked, s.limit), s.limit)
    BY <1>1, <1>2, RankedFacts
  <2> QED BY <2>1 DEF FirstOfThem
<1>5. PICK windows \in [DOMAIN fetched -> 1..Longest] :
        answer' = [kind |-> "refused", asked |-> s]
        \/ /\ \A n \in DOMAIN fetched : Marked(text(fetched[n]), places(fetched[n]), windows[n]) # {}
           /\ answer' = [kind |-> "hits", asked |-> s,
                         hits |-> [n \in 1..m |-> Hit(fetched[n], alternatives, windows[n], s.characters)],
                         more |-> Len(fetched) > s.limit]
  BY <1>3, Zenon
<1> HIDE DEF fetched, m, M
<1>6. CASE answer' = [kind |-> "refused", asked |-> s]
  <2>1. answer'.kind = "refused"
    BY <1>6
  <2> QED BY <2>1, ShowsByHit DEF AllShow
<1>7. ASSUME \A n \in DOMAIN fetched : Marked(text(fetched[n]), places(fetched[n]), windows[n]) # {},
             answer' = [kind |-> "hits", asked |-> s,
                        hits |-> [n \in 1..m |-> Hit(fetched[n], alternatives, windows[n], s.characters)],
                        more |-> Len(fetched) > s.limit]
      PROVE  SnippetsShowTheMatch'
  <2> DEFINE hits == [n \in 1..m |-> Hit(fetched[n], alternatives, windows[n], s.characters)]
  <2>1. answer'.asked = s /\ answer'.hits = hits
    BY <1>7
  <2>2. ASSUME NEW n \in 1..m
        PROVE  Shows(hits[n], s, document)
    <3> DEFINE c == fetched[n]
               w == windows[n]
               t == text(c)
               pl == places(c)
               match == [from |-> Find(t, Fragment(t, w)) + Span(t, pl, w).from,
                         to   |-> Find(t, Fragment(t, w)) + Span(t, pl, w).to]
    <3>1. c \in DOMAIN document.chunks /\ n \in DOMAIN fetched
      BY <1>1, <1>4
    <3>2. t \in Seq(Characters)
      BY <1>2, <3>1
    <3>3. w \in Nat \ {0}
      BY <1>5, <3>1
    <3>4. Marked(t, pl, w) # {} /\ pl = Matched(t, MatchQuery(s.queries))
      BY <1>7, <3>1 DEF alternatives
    <3>5. hits[n] = [chunk |-> c, match |-> match, shown |-> Bounded(t, match, s.characters)]
      BY DEF Hit
    <3>6. hits[n].chunk = c /\ hits[n].match = match /\ hits[n].shown = Bounded(t, match, s.characters)
      BY <3>5
    <3> HIDE DEF hits, w, pl
    <3>7. MatchIn(t, s.queries, match)
      BY <1>2, <3>2, <3>3, <3>4, MatchFacts
    <3> HIDE DEF match
    <3>8. SnippetFits(Bounded(t, match, s.characters), t, match, s.characters)
      BY <1>2, <3>2, <3>7, BoundedFits DEF MatchIn
    <3>9. \E q \in ToSet(s.queries) : \E term \in ToSet(q) :
            Phrase(term) # <<>> /\ IsPrefix(Phrase(term)[1], SubSeq(t, match.from + 1, match.to))
      BY <3>7, Zenon DEF MatchIn
    <3> QED BY <3>6, <3>8, <3>9, Zenon DEF Shows
  <2>3. DOMAIN hits = 1..m
    OBVIOUS
  <2> HIDE DEF hits
  <2>4. AllShow(answer', document')
    BY <2>1, <2>2, <2>3 DEF AllShow
  <2> QED BY <2>4, ShowsByHit
<1> QED
  BY <1>5, <1>6, <1>7

ShowInv == document \in Documents /\ SnippetsShowTheMatch

LEMMA ShowStep ==
  ASSUME ShowInv, [QueryNext]_queryVars
  PROVE  ShowInv'
<1>1. CASE Query
  <2>1. document' = document /\ document \in Documents
    BY <1>1 DEF Query, ShowInv
  <2>2. CASE Overview
    <3>1. answer'.kind = "overview"
      BY <2>2 DEF Overview
    <3> QED BY <2>1, <3>1, ShowsByHit DEF ShowInv, AllShow
  <2>3. CASE \E s \in Searches : Search(s)
    BY <2>1, <2>3, SearchShows DEF ShowInv
  <2> QED BY <1>1, <2>2, <2>3 DEF Query
<1>2. CASE UNCHANGED <<document, answer>>
  BY <1>2, ShowsByHit DEF ShowInv
<1> QED
  BY <1>1, <1>2 DEF QueryNext, queryVars

(* _fts_snippet and _bounded_snippet: whatever the chunk, the query and the  *)
(* length, a snippet keeps to its length, has an ellipsis exactly where it   *)
(* leaves something out, ends no earlier than the match, holds all of it     *)
(* when it fits, and takes for the match what begins with a word asked for.  *)
THEOREM SnippetsShow == QuerySpec => []SnippetsShowTheMatch
<1>1. QueryInit => ShowInv
  BY ShowsByHit DEF QueryInit, NoAnswer, ShowInv, AllShow
<1>2. ShowInv /\ [QueryNext]_queryVars => ShowInv'
  BY ShowStep
<1>3. ShowInv => SnippetsShowTheMatch
  BY DEF ShowInv
<1> QED
  BY <1>1, <1>2, <1>3, PTL DEF QuerySpec

=============================================================================
