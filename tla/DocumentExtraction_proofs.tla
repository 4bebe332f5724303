---------------------- MODULE DocumentExtraction_proofs ----------------------
(***************************************************************************)
(* Proofs about DocumentExtraction and the extractors it routes to: for    *)
(* every text, every answer of a parser and everything found on a page.    *)
(***************************************************************************)
EXTENDS DocumentExtraction, SequenceTheorems, FiniteSetTheorems, WellFoundedInduction, TLAPS

-----------------------------------------------------------------------------
(* Finite sets: a family of them has a smallest, and one of numbers has a    *)
(* least and a greatest element.                                             *)
LEMMA SmallestSet ==
  ASSUME NEW S, IsFiniteSet(S), NEW F, F \subseteq SUBSET S, F # {}
  PROVE  \E T \in F : \A U \in F : U \subseteq T => U = T
<1> DEFINE R == StrictSubsetOrdering(S)
<1>1. IsWellFoundedOn(R, SUBSET S)
  BY FS_StrictSubsetOrderingWellFounded, FS_FiniteSubsetsOfFinite
<1>2. \A T, U \in SUBSET S : U \subseteq T /\ U # T => <<U, T>> \in R
  BY DEF StrictSubsetOrdering
<1> HIDE DEF R
<1>3. PICK T \in F : \A U \in F : ~ (<<U, T>> \in R)
  BY <1>1, WFMin
<1> QED
  BY <1>2, <1>3

LEMMA GreatestExists ==
  ASSUME NEW S, IsFiniteSet(S), S \subseteq Int, S # {}
  PROVE  \E x \in S : \A y \in S : x >= y
<1> DEFINE F == {T \in SUBSET S : T # {} /\ ~ \E x \in T : \A y \in T : x >= y}
<1>1. SUFFICES ASSUME F # {} PROVE FALSE
  OBVIOUS
<1>2. PICK T \in F : \A U \in F : U \subseteq T => U = T
  <2>1. F \subseteq SUBSET S
    OBVIOUS
  <2> HIDE DEF F
  <2>2. IsFiniteSet(S)
    OBVIOUS
  <2> QED BY ONLY <1>1, <2>1, <2>2, SmallestSet
<1> DEFINE Bound(U) == \E x \in U : \A y \in U : x >= y
<1>3. PICK a \in T : a \in S
  BY <1>2
<1>4. T \ {a} \notin F
  BY <1>2, <1>3
<1>5. T \ {a} = {} \/ Bound(T \ {a})
  BY <1>2, <1>4
<1>6. CASE T \ {a} = {}
  <2>1. a >= a /\ \A y \in T : y = a
    BY <1>3, <1>6
  <2>2. Bound(T)
    BY <2>1
  <2> QED BY <1>2, <2>2
<1>7. CASE Bound(T \ {a})
  <2>1. PICK m \in T \ {a} : \A y \in T \ {a} : m >= y
    BY <1>7
  <2>2. T \subseteq Int
    BY <1>2
  <2>3. CASE m >= a
    <3>1. \A y \in T : m >= y
      BY <2>1, <2>3
    <3>2. Bound(T)
      BY <2>1, <3>1
    <3> QED BY <1>2, <3>2
  <2>4. CASE a >= m
    <3>1. \A y \in T : a >= y
      BY <1>3, <2>1, <2>2, <2>4
    <3>2. Bound(T)
      BY <1>3, <3>1
    <3> QED BY <1>2, <3>2
  <2> QED BY <1>3, <2>1, <2>2, <2>3, <2>4
<1> QED
  BY <1>5, <1>6, <1>7

LEMMA LeastOfFinite ==
  ASSUME NEW S, IsFiniteSet(S), S \subseteq Int, S # {}
  PROVE  \E x \in S : \A y \in S : x <= y
<1> DEFINE T == {-y : y \in S}
<1>1. IsFiniteSet(T)
  <2> DEFINE f == [y \in S |-> -y]
  <2>1. f \in Surjection(S, T)
    BY DEF Surjection
  <2> HIDE DEF f, T
  <2> QED BY <2>1, FS_Surjection
<1>2. T \subseteq Int /\ T # {}
  OBVIOUS
<1>3. PICK t \in T : \A u \in T : t >= u
  <2> HIDE DEF T
  <2> QED BY <1>1, <1>2, GreatestExists
<1>4. -t \in S /\ \A y \in S : t >= -y
  BY <1>3
<1>5. \A y \in S : -t <= y
  BY <1>2, <1>3, <1>4
<1> QED
  BY <1>4, <1>5

LEMMA Extremes ==
  ASSUME NEW S, IsFiniteSet(S), S \subseteq Int, S # {}
  PROVE  /\ Max(S) \in S /\ \A y \in S : Max(S) >= y
         /\ Min(S) \in S /\ \A y \in S : Min(S) <= y
         /\ Max(S) \in Int /\ Min(S) \in Int
BY GreatestExists, LeastOfFinite DEF Max, Min

LEMMA TwoExtremes ==
  ASSUME NEW a \in Int, NEW b \in Int
  PROVE  /\ Max({a, b}) = IF a >= b THEN a ELSE b
         /\ Min({a, b}) = IF a <= b THEN a ELSE b
<1>1. /\ Max({a, b}) \in {a, b} /\ Max({a, b}) >= a /\ Max({a, b}) >= b
      /\ Min({a, b}) \in {a, b} /\ Min({a, b}) <= a /\ Min({a, b}) <= b
  <2>1. IsFiniteSet({a, b})
    <3>1. IsFiniteSet({a}) /\ {a, b} = {a} \cup {b}
      BY FS_Singleton
    <3> QED BY <3>1, FS_AddElement
  <2> QED BY <2>1, Extremes
<1> QED
  BY <1>1

-----------------------------------------------------------------------------
(* Sums. The folds of the libraries choose the elements of a set in an order *)
(* of their own; SumRec says what such a fold computes.                      *)
Chosen(S) == CHOOSE x \in S : TRUE
SumRec(w, S, f) == f = [T \in SUBSET S |-> IF T = {} THEN 0 ELSE w[Chosen(T)] + f[T \ {Chosen(T)}]]
Total(w, S) == (CHOOSE f : SumRec(w, S, f))[S]

LEMMA SumUnique ==
  ASSUME NEW w, NEW S, IsFiniteSet(S), NEW f, NEW g, SumRec(w, S, f), SumRec(w, S, g)
  PROVE  f = g
<1> DEFINE F == {T \in SUBSET S : f[T] # g[T]}
<1>1. ASSUME F # {} PROVE FALSE
  <2>1. PICK T \in F : \A U \in F : U \subseteq T => U = T
    <3>1. F \subseteq SUBSET S
      OBVIOUS
    <3> HIDE DEF F
    <3> QED BY <1>1, <3>1, SmallestSet
  <2>2. T # {} /\ T \in SUBSET S
    BY <2>1 DEF SumRec
  <2>3. Chosen(T) \in T
    BY <2>2 DEF Chosen
  <2>4. f[T \ {Chosen(T)}] = g[T \ {Chosen(T)}]
    BY <2>1, <2>2, <2>3
  <2>5. /\ f[T] = w[Chosen(T)] + f[T \ {Chosen(T)}]
        /\ g[T] = w[Chosen(T)] + g[T \ {Chosen(T)}]
    BY <2>2 DEF SumRec
  <2> QED
    BY <2>1, <2>4, <2>5
<1>2. \A T \in SUBSET S : f[T] = g[T]
  BY <1>1
<1>3. /\ f = [T \in SUBSET S |-> f[T]]
      /\ g = [T \in SUBSET S |-> g[T]]
  BY DEF SumRec
<1> QED
  BY <1>2, <1>3

LEMMA SumRestricts ==
  ASSUME NEW w, NEW S, IsFiniteSet(S), NEW f, SumRec(w, S, f), NEW T \in SUBSET S
  PROVE  Total(w, T) = f[T]
<1> DEFINE g == [U \in SUBSET T |-> f[U]]
<1>1. SumRec(w, T, g)
  <2>1. \A U \in SUBSET T : U # {} => Chosen(U) \in U
    BY DEF Chosen
  <2>2. \A U \in SUBSET T : U \in SUBSET S /\ U \ {Chosen(U)} \in SUBSET T
    OBVIOUS
  <2>3. \A U \in SUBSET T : f[U] = IF U = {} THEN 0 ELSE w[Chosen(U)] + f[U \ {Chosen(U)}]
    BY <2>2 DEF SumRec
  <2>4. g = [U \in SUBSET T |-> IF U = {} THEN 0 ELSE w[Chosen(U)] + g[U \ {Chosen(U)}]]
    BY <2>2, <2>3
  <2> HIDE DEF g
  <2> QED BY <2>4 DEF SumRec
<1>2. IsFiniteSet(T)
  BY FS_Subset
<1>3. (CHOOSE h : SumRec(w, T, h)) = g
  <2> HIDE DEF g
  <2> QED BY <1>1, <1>2, SumUnique
<1>4. g[T] = f[T]
  OBVIOUS
<1> QED
  BY <1>3, <1>4 DEF Total

LEMMA SumExists ==
  ASSUME NEW w, NEW S, IsFiniteSet(S)
  PROVE  \E f : SumRec(w, S, f)
<1> DEFINE F == {T \in SUBSET S : ~ \E f : SumRec(w, T, f)}
<1>1. SUFFICES ASSUME F # {} PROVE FALSE
  OBVIOUS
<1>2. PICK T \in F : \A U \in F : U \subseteq T => U = T
  <2>1. F \subseteq SUBSET S
    OBVIOUS
  <2> HIDE DEF F
  <2> QED BY <1>1, <2>1, SmallestSet
<1>3. \A U \in SUBSET T : U # T => \E f : SumRec(w, U, f)
  BY <1>2
<1> DEFINE g == [U \in SUBSET T |-> IF U = {} THEN 0 ELSE w[Chosen(U)] + Total(w, U \ {Chosen(U)})]
<1>4. ASSUME NEW V \in SUBSET T, V # T
      PROVE  g[V] = Total(w, V)
  <2>1. PICK f : SumRec(w, V, f)
    BY <1>3, <1>4
  <2>2. IsFiniteSet(V)
    BY <1>2, FS_Subset
  <2>3. V \in SUBSET V /\ V \ {Chosen(V)} \in SUBSET V
    OBVIOUS
  <2>4. Total(w, V) = f[V] /\ Total(w, V \ {Chosen(V)}) = f[V \ {Chosen(V)}]
    BY <2>1, <2>2, <2>3, SumRestricts
  <2>5. f[V] = IF V = {} THEN 0 ELSE w[Chosen(V)] + f[V \ {Chosen(V)}]
    BY <2>1, <2>3 DEF SumRec
  <2> QED
    BY <2>4, <2>5
<1>5. \A U \in SUBSET T : U # {} => U \ {Chosen(U)} \in SUBSET T /\ U \ {Chosen(U)} # T
  BY DEF Chosen
<1>6. \A U \in SUBSET T : U # {} => Total(w, U \ {Chosen(U)}) = g[U \ {Chosen(U)}]
  <2> HIDE DEF g
  <2> QED BY <1>4, <1>5
<1>7. g = [U \in SUBSET T |-> IF U = {} THEN 0 ELSE w[Chosen(U)] + g[U \ {Chosen(U)}]]
  BY <1>6
<1>8. SumRec(w, T, g)
  <2> HIDE DEF g
  <2> QED BY <1>7 DEF SumRec
<1> QED
  BY <1>2, <1>8

(* Whatever the order, a sum is any one term and the sum of the others.      *)
LEMMA SumStep ==
  ASSUME NEW w, NEW S, IsFiniteSet(S)
  PROVE  Total(w, S) = IF S = {} THEN 0 ELSE w[Chosen(S)] + Total(w, S \ {Chosen(S)})
<1>1. PICK f : SumRec(w, S, f)
  BY SumExists
<1>2. S \in SUBSET S /\ S \ {Chosen(S)} \in SUBSET S
  OBVIOUS
<1>3. Total(w, S) = f[S] /\ Total(w, S \ {Chosen(S)}) = f[S \ {Chosen(S)}]
  BY <1>1, <1>2, SumRestricts
<1>4. f[S] = IF S = {} THEN 0 ELSE w[Chosen(S)] + f[S \ {Chosen(S)}]
  BY <1>1, <1>2 DEF SumRec
<1> QED
  BY <1>3, <1>4

LEMMA SumIsNat ==
  ASSUME NEW w, NEW S, IsFiniteSet(S), \A x \in S : w[x] \in Nat
  PROVE  Total(w, S) \in Nat
<1> DEFINE F == {T \in SUBSET S : Total(w, T) \notin Nat}
<1>1. SUFFICES ASSUME F # {} PROVE FALSE
  OBVIOUS
<1>2. PICK T \in F : \A U \in F : U \subseteq T => U = T
  <2>1. F \subseteq SUBSET S
    OBVIOUS
  <2> HIDE DEF F
  <2> QED BY <1>1, <2>1, SmallestSet
<1>3. IsFiniteSet(T)
  BY <1>2, FS_Subset
<1>4. T # {}
  <2>1. T = {} => Total(w, T) = 0
    BY <1>3, SumStep
  <2> QED BY <1>2, <2>1
<1>5. Chosen(T) \in T
  BY <1>4 DEF Chosen
<1>6. Total(w, T \ {Chosen(T)}) \in Nat /\ w[Chosen(T)] \in Nat
  BY <1>2, <1>5
<1>7. Total(w, T) = w[Chosen(T)] + Total(w, T \ {Chosen(T)})
  BY <1>3, <1>4, SumStep
<1> QED
  BY <1>2, <1>6, <1>7

LEMMA SumOfOne ==
  ASSUME NEW w, NEW S, IsFiniteSet(S), \A x \in S : w[x] \in Nat, NEW a \in S
  PROVE  Total(w, S) = w[a] + Total(w, S \ {a})
<1> DEFINE Splits(T, b) == Total(w, T) = w[b] + Total(w, T \ {b})
           F == {T \in SUBSET S : \E b \in T : ~Splits(T, b)}
<1>1. SUFFICES ASSUME F # {} PROVE FALSE
  OBVIOUS
<1>2. PICK T \in F : \A U \in F : U \subseteq T => U = T
  <2>1. F \subseteq SUBSET S
    OBVIOUS
  <2> HIDE DEF F
  <2> QED BY <1>1, <2>1, SmallestSet
<1>3. PICK b \in T : ~Splits(T, b)
  BY <1>2
<1> DEFINE c == Chosen(T)
<1>4. IsFiniteSet(T) /\ T \subseteq S /\ T # {} /\ c \in T
  BY <1>2, <1>3, FS_Subset DEF Chosen
<1>5. Total(w, T) = w[c] + Total(w, T \ {c})
  BY <1>4, SumStep
<1>6. c # b
  BY <1>3, <1>5
<1>7. Splits(T \ {c}, b) /\ Splits(T \ {b}, c)
  <2>1. T \ {c} \notin F /\ T \ {b} \notin F
    BY <1>2, <1>3, <1>4
  <2> QED BY <1>3, <1>4, <1>6, <2>1
<1>8. (T \ {c}) \ {b} = (T \ {b}) \ {c}
  OBVIOUS
<1>9. Total(w, (T \ {b}) \ {c}) \in Nat /\ w[b] \in Nat /\ w[c] \in Nat
  <2>1. IsFiniteSet((T \ {b}) \ {c}) /\ \A x \in (T \ {b}) \ {c} : w[x] \in Nat
    BY <1>4, FS_Subset
  <2> QED BY <1>3, <1>4, <2>1, SumIsNat
<1> HIDE DEF c
<1>10. Total(w, T) = w[b] + Total(w, T \ {b})
  BY <1>5, <1>7, <1>8, <1>9
<1> QED
  BY <1>3, <1>10

LEMMA SumAgrees ==
  ASSUME NEW w, NEW v, NEW S, IsFiniteSet(S), \A x \in S : w[x] = v[x]
  PROVE  Total(w, S) = Total(v, S)
<1> DEFINE F == {T \in SUBSET S : Total(w, T) # Total(v, T)}
<1>1. SUFFICES ASSUME F # {} PROVE FALSE
  OBVIOUS
<1>2. PICK T \in F : \A U \in F : U \subseteq T => U = T
  <2>1. F \subseteq SUBSET S
    OBVIOUS
  <2> HIDE DEF F
  <2> QED BY <1>1, <2>1, SmallestSet
<1>3. IsFiniteSet(T) /\ T \in SUBSET S
  BY <1>2, FS_Subset
<1>4. /\ Total(w, T) = IF T = {} THEN 0 ELSE w[Chosen(T)] + Total(w, T \ {Chosen(T)})
      /\ Total(v, T) = IF T = {} THEN 0 ELSE v[Chosen(T)] + Total(v, T \ {Chosen(T)})
  BY <1>3, SumStep
<1>5. T # {}
  BY <1>2, <1>4
<1>6. Chosen(T) \in T /\ w[Chosen(T)] = v[Chosen(T)]
  BY <1>3, <1>5 DEF Chosen
<1>7. Total(w, T \ {Chosen(T)}) = Total(v, T \ {Chosen(T)})
  BY <1>2, <1>6
<1> QED
  BY <1>2, <1>4, <1>6, <1>7

LEMMA SumOfFunction ==
  ASSUME NEW w
  PROVE  SumFunction(w) = Total(w, DOMAIN w)
BY DEF SumFunction, SumFunctionOnSet, FoldFunctionOnSet, MapThenFoldSet, SumRec, Total, Chosen

-----------------------------------------------------------------------------
(* Sequences of sequences, put one behind the other.                         *)
LEMMA LeastIndex ==
  ASSUME NEW n \in Nat, NEW F, F \subseteq 1..n, F # {}
  PROVE  \E k \in F : \A j \in F : k <= j
<1>1. IsFiniteSet(1..n)
  BY FS_Interval
<1>2. IsFiniteSet(F)
  BY <1>1, FS_Subset
<1>3. F \subseteq Int
  OBVIOUS
<1> QED
  BY <1>2, <1>3, LeastOfFinite

FlatRec(q, n, f) == f = [i \in 1..n |-> IF i = 1 THEN q[i] ELSE f[i - 1] \o q[i]]

LEMMA FlatExists ==
  ASSUME NEW q, NEW n \in Nat
  PROVE  \E f : FlatRec(q, n, f)
<1> DEFINE F == {k \in 1..n : ~ \E f : FlatRec(q, k, f)}
<1>1. SUFFICES ASSUME F # {} PROVE FALSE
  <2>1. FlatRec(q, 0, [i \in 1..0 |-> q[i]])
    BY DEF FlatRec
  <2>2. n = 0 \/ n \in 1..n
    OBVIOUS
  <2> QED BY <2>1, <2>2
<1>2. PICK k \in F : \A j \in F : k <= j
  <2>1. F \subseteq 1..n
    OBVIOUS
  <2> HIDE DEF F
  <2> QED BY <1>1, <2>1, LeastIndex
<1>3. k \in 1..n /\ k - 1 \in 0..n /\ k - 1 < k
  BY <1>2
<1>4. PICK f : FlatRec(q, k - 1, f)
  <2>1. CASE k = 1
    <3>1. FlatRec(q, 0, [i \in 1..0 |-> q[i]])
      BY DEF FlatRec
    <3> QED BY <2>1, <3>1
  <2>2. CASE k # 1
    <3>1. k - 1 \in 1..n /\ k - 1 \notin F
      BY <1>2, <1>3, <2>2
    <3> QED BY <3>1
  <2> QED BY <2>1, <2>2
<1> DEFINE g == [i \in 1..k |-> IF i = k THEN IF k = 1 THEN q[1] ELSE f[k - 1] \o q[k] ELSE f[i]]
<1>5. \A i \in 1..k : g[i] = IF i = 1 THEN q[i] ELSE g[i - 1] \o q[i]
  <2> SUFFICES ASSUME NEW i \in 1..k
               PROVE  g[i] = IF i = 1 THEN q[i] ELSE g[i - 1] \o q[i]
    OBVIOUS
  <2>1. CASE i = k
    <3>1. k # 1 => k - 1 \in 1..k /\ k - 1 # k
      BY <1>3
    <3> QED BY <2>1, <3>1
  <2>2. CASE i # k
    <3>1. i \in 1..(k - 1) /\ (i # 1 => i - 1 \in 1..(k - 1) /\ i - 1 \in 1..k /\ i - 1 # k)
      BY <1>3, <2>2
    <3>2. f[i] = IF i = 1 THEN q[i] ELSE f[i - 1] \o q[i]
      BY <1>4, <3>1 DEF FlatRec
    <3> QED BY <2>2, <3>1, <3>2
  <2> QED BY <2>1, <2>2
<1>6. g = [i \in 1..k |-> IF i = 1 THEN q[i] ELSE g[i - 1] \o q[i]]
  BY <1>5
<1>7. FlatRec(q, k, g)
  <2> HIDE DEF g
  <2> QED BY <1>6 DEF FlatRec
<1> QED
  BY <1>2, <1>7

LEMMA FlattenIs ==
  ASSUME NEW q, Len(q) \in Nat, Len(q) # 0
  PROVE  \E f : FlatRec(q, Len(q), f) /\ FlattenSeq(q) = f[Len(q)]
<1>1. FlattenSeq(q) = (CHOOSE f : FlatRec(q, Len(q), f))[Len(q)]
  BY DEF FlattenSeq, FlatRec
<1>2. \E f : FlatRec(q, Len(q), f)
  BY FlatExists
<1> QED
  BY <1>1, <1>2

(* Every element of the whole is one of a part; and where no part has an     *)
(* element twice and no two parts share one, the whole has none twice.       *)
Shares(q) == \E k, m \in DOMAIN q : k # m /\ \E i \in DOMAIN q[k], j \in DOMAIN q[m] : q[k][i] = q[m][j]

LEMMA FlattenFacts ==
  ASSUME NEW S, NEW q \in Seq(Seq(S))
  PROVE  /\ FlattenSeq(q) \in Seq(S)
         /\ \A i \in DOMAIN FlattenSeq(q) :
              \E k \in DOMAIN q : \E j \in DOMAIN q[k] : FlattenSeq(q)[i] = q[k][j]
         /\ (\A k \in DOMAIN q : IsInjective(q[k])) /\ ~Shares(q) => IsInjective(FlattenSeq(q))
<1> DEFINE n == Len(q)
           From(s, m) == \A i \in DOMAIN s : \E k \in 1..m : \E j \in DOMAIN q[k] : s[i] = q[k][j]
           Apart == (\A k \in DOMAIN q : IsInjective(q[k])) /\ ~Shares(q)
           Fine(s, m) == s \in Seq(S) /\ From(s, m) /\ (Apart => IsInjective(s))
<1>1. n \in Nat /\ DOMAIN q = 1..n /\ \A k \in 1..n : q[k] \in Seq(S)
  OBVIOUS
<1>2. CASE n = 0
  <2>1. FlattenSeq(q) = q /\ q = <<>>
    BY <1>2 DEF FlattenSeq
  <2> QED BY <2>1 DEF IsInjective
<1>3. CASE n # 0
  <2>1. PICK f : FlatRec(q, n, f) /\ FlattenSeq(q) = f[n]
    BY <1>1, <1>3, FlattenIs
  <2> DEFINE F == {k \in 1..n : ~Fine(f[k], k)}
  <2>2. ASSUME F # {} PROVE FALSE
    <3>1. PICK k \in F : \A j \in F : k <= j
      <4>1. F \subseteq 1..n
        OBVIOUS
      <4> HIDE DEF F, n
      <4> QED BY <1>1, <2>2, <4>1, LeastIndex
    <3>2. k \in 1..n /\ q[k] \in Seq(S)
      BY <1>1, <3>1
    <3>3. f[k] = IF k = 1 THEN q[k] ELSE f[k - 1] \o q[k]
      BY <2>1, <3>2 DEF FlatRec
    <3>4. CASE k = 1
      <4>1. f[k] = q[k] /\ k \in 1..k
        BY <3>2, <3>3, <3>4
      <4>2. Fine(f[k], k)
        BY <1>1, <3>2, <4>1
      <4> QED BY <3>1, <4>2
    <3>5. CASE k # 1
      <4> DEFINE a == f[k - 1]
                 b == q[k]
      <4>1. k - 1 \in 1..n /\ k - 1 \notin F /\ 1..(k - 1) \subseteq 1..k /\ k \in 1..k /\ k \notin 1..(k - 1)
        <5>1. k - 1 \in 1..n /\ ~(k <= k - 1)
          BY <1>1, <3>2, <3>5
        <5>2. 1..(k - 1) \subseteq 1..k /\ k \in 1..k /\ k \notin 1..(k - 1)
          BY <1>1, <3>2
        <5> QED BY <3>1, <5>1, <5>2
      <4>2. Fine(a, k - 1) /\ b \in Seq(S) /\ f[k] = a \o b
        BY <3>2, <3>3, <3>5, <4>1
      <4>3. /\ f[k] \in Seq(S) /\ Len(f[k]) = Len(a) + Len(b)
            /\ \A i \in 1..Len(f[k]) : f[k][i] = IF i <= Len(a) THEN a[i] ELSE b[i - Len(a)]
        <5>1. a \in Seq(S) /\ b \in Seq(S) /\ f[k] = a \o b
          BY <4>2
        <5> HIDE DEF a, b
        <5> QED BY <5>1, ConcatProperties
      <4>4. /\ Len(a) \in Nat /\ Len(b) \in Nat /\ DOMAIN a = 1..Len(a) /\ DOMAIN b = 1..Len(b)
            /\ DOMAIN f[k] = 1..Len(f[k])
        BY <4>2, <4>3
      <4>5. \A i \in DOMAIN f[k] :
              IF i <= Len(a) THEN i \in DOMAIN a ELSE i - Len(a) \in DOMAIN b
        <5> HIDE DEF a, b
        <5>1. \A i \in 1..Len(f[k]) : IF i <= Len(a) THEN i \in 1..Len(a) ELSE i - Len(a) \in 1..Len(b)
          BY <4>3, <4>4
        <5> QED BY <4>4, <5>1
      <4>6. From(f[k], k)
        <5> SUFFICES ASSUME NEW i \in DOMAIN f[k]
                     PROVE  \E m \in 1..k : \E j \in DOMAIN q[m] : f[k][i] = q[m][j]
          OBVIOUS
        <5>1. CASE i <= Len(a)
          <6>1. i \in DOMAIN a /\ f[k][i] = a[i]
            BY <4>3, <4>4, <4>5, <5>1
          <6>2. PICK m \in 1..(k - 1) : \E j \in DOMAIN q[m] : a[i] = q[m][j]
            BY <4>2, <6>1
          <6> QED BY <4>1, <6>1, <6>2
        <5>2. CASE ~(i <= Len(a))
          <6>1. i - Len(a) \in DOMAIN q[k] /\ f[k][i] = q[k][i - Len(a)]
            BY <4>3, <4>4, <4>5, <5>2
          <6> QED BY <4>1, <6>1
        <5> QED BY <5>1, <5>2
      <4>7. ASSUME Apart, NEW i \in DOMAIN f[k], NEW j \in DOMAIN f[k], i <= Len(a), ~(j <= Len(a))
            PROVE  f[k][i] # f[k][j]
        <5>1. i \in DOMAIN a /\ f[k][i] = a[i] /\ j - Len(a) \in DOMAIN b /\ f[k][j] = b[j - Len(a)]
          BY <4>3, <4>4, <4>5, <4>7
        <5>2. PICK m \in 1..(k - 1) : \E x \in DOMAIN q[m] : a[i] = q[m][x]
          BY <4>2, <5>1
        <5>3. m \in DOMAIN q /\ k \in DOMAIN q /\ m # k
          BY <1>1, <3>2, <4>1, <5>2
        <5> QED BY <4>7, <5>1, <5>2, <5>3 DEF Shares
      <4>8. Apart => IsInjective(f[k])
        <5> SUFFICES ASSUME Apart, NEW i \in DOMAIN f[k], NEW j \in DOMAIN f[k], f[k][i] = f[k][j]
                     PROVE  i = j
          BY DEF IsInjective
        <5>1. IsInjective(a) /\ IsInjective(b)
          BY <1>1, <3>2, <4>2
        <5>2. (i <= Len(a) /\ j <= Len(a)) \/ (~(i <= Len(a)) /\ ~(j <= Len(a)))
          BY <4>7
        <5>3. CASE i <= Len(a) /\ j <= Len(a)
          <6>1. i \in DOMAIN a /\ j \in DOMAIN a /\ a[i] = a[j]
            BY <4>3, <4>4, <4>5, <5>3
          <6> QED BY <5>1, <6>1 DEF IsInjective
        <5>4. CASE ~(i <= Len(a)) /\ ~(j <= Len(a))
          <6>1. i - Len(a) \in DOMAIN b /\ j - Len(a) \in DOMAIN b /\ b[i - Len(a)] = b[j - Len(a)]
            BY <4>3, <4>4, <4>5, <5>4
          <6>2. i - Len(a) = j - Len(a)
            BY <5>1, <6>1 DEF IsInjective
          <6> QED BY <4>4, <4>3, <6>2
        <5> QED BY <5>2, <5>3, <5>4
      <4>9. Fine(f[k], k)
        BY <4>3, <4>6, <4>8
      <4> QED BY <3>1, <4>9
    <3> QED BY <3>4, <3>5
  <2>3. Fine(f[n], n)
    <3>1. n \in 1..n
      BY <1>1, <1>3
    <3> QED BY <2>2, <3>1
  <2>4. Fine(FlattenSeq(q), n)
    BY <2>1, <2>3
  <2> QED BY <1>1, <2>4
<1> QED
  BY <1>2, <1>3

-----------------------------------------------------------------------------
(* The elements of a set in order: the n-th has n elements up to it.         *)
Rank(S, x) == Cardinality({y \in S : y <= x})

LEMMA RankFacts ==
  ASSUME NEW S, IsFiniteSet(S), S \subseteq Int
  PROVE  /\ Cardinality(S) \in Nat
         /\ \A x \in S : Rank(S, x) \in 1..Cardinality(S)
         /\ \A x, y \in S : x < y => Rank(S, x) < Rank(S, y)
         /\ \A n \in 1..Cardinality(S) : \E x \in S : Rank(S, x) = n
<1> DEFINE Upto(x) == {y \in S : y <= x}
           m == Cardinality(S)
           f == [x \in S |-> Rank(S, x)]
<1>1. m \in Nat
  BY FS_CardinalityType
<1>2. ASSUME NEW x \in S
      PROVE  IsFiniteSet(Upto(x)) /\ Rank(S, x) = Cardinality(Upto(x)) /\ x \in Upto(x)
  <2>1. Upto(x) \in SUBSET S /\ x \in Upto(x)
    OBVIOUS
  <2>2. IsFiniteSet(Upto(x))
    BY <2>1, FS_Subset
  <2> QED BY <2>1, <2>2 DEF Rank
<1>3. ASSUME NEW x \in S
      PROVE  Rank(S, x) \in 1..m
  <2>1. Cardinality(Upto(x)) <= m
    <3>1. Upto(x) \in SUBSET S
      OBVIOUS
    <3> HIDE DEF Upto
    <3> QED BY <3>1, FS_Subset
  <2>2. Cardinality(Upto(x)) \in Nat /\ Cardinality(Upto(x)) # 0
    <3>1. IsFiniteSet(Upto(x)) /\ Upto(x) # {}
      BY <1>2
    <3> HIDE DEF Upto
    <3> QED BY <3>1, FS_CardinalityType, FS_EmptySet
  <2> HIDE DEF Upto, m
  <2> QED BY <1>1, <1>2, <2>1, <2>2
<1>4. ASSUME NEW x \in S, NEW y \in S, x < y
      PROVE  Rank(S, x) < Rank(S, y)
  <2>1. Upto(x) \in SUBSET Upto(y) /\ y \in Upto(y) /\ y \notin Upto(x)
    <3>1. x \in Int /\ y \in Int /\ S \subseteq Int
      OBVIOUS
    <3>2. \A z \in S : z <= x => z <= y
      BY <1>4, <3>1
    <3>3. y <= y /\ ~(y <= x)
      BY <1>4, <3>1
    <3> QED BY <3>2, <3>3
  <2>2. IsFiniteSet(Upto(y)) /\ Rank(S, x) = Cardinality(Upto(x)) /\ Rank(S, y) = Cardinality(Upto(y))
    BY <1>2
  <2>3. Cardinality(Upto(x)) <= Cardinality(Upto(y)) /\ Cardinality(Upto(x)) # Cardinality(Upto(y))
    <3> HIDE DEF Upto
    <3> QED BY <2>1, <2>2, FS_Subset
  <2>4. Rank(S, x) \in Int /\ Rank(S, y) \in Int
    BY <1>1, <1>3
  <2> QED BY <2>2, <2>3, <2>4
<1>5. f \in Injection(S, 1..m)
  <2>1. f \in [S -> 1..m]
    BY <1>3
  <2>2. ASSUME NEW x \in S, NEW y \in S, f[x] = f[y]
        PROVE  x = y
    <3>1. Rank(S, x) = Rank(S, y) /\ Rank(S, x) \in Int
      BY <1>1, <1>3, <2>2
    <3>2. x < y \/ y < x \/ x = y
      OBVIOUS
    <3> QED BY <1>4, <3>1, <3>2
  <2>3. IsInjective(f)
    BY <2>1, <2>2 DEF IsInjective
  <2> QED BY <2>1, <2>3 DEF Injection
<1>6. f \in Surjection(S, 1..m)
  <2>1. IsFiniteSet(1..m) /\ Cardinality(1..m) = m
    <3> HIDE DEF m
    <3> QED BY <1>1, FS_Interval
  <2> HIDE DEF f
  <2> QED BY <1>5, <2>1, FS_Injection DEF m
<1>7. \A n \in 1..m : \E x \in S : f[x] = n
  <2> HIDE DEF f
  <2> QED BY <1>6 DEF Surjection
<1> QED
  BY <1>1, <1>3, <1>4, <1>7

LEMMA AscendingFacts ==
  ASSUME NEW S, IsFiniteSet(S), S \subseteq Int
  PROVE  /\ Cardinality(S) \in Nat
         /\ DOMAIN Ascending(S) = 1..Cardinality(S) /\ Len(Ascending(S)) = Cardinality(S)
         /\ \A n \in 1..Cardinality(S) : Ascending(S)[n] \in S /\ Rank(S, Ascending(S)[n]) = n
         /\ \A x \in S : Rank(S, x) \in 1..Cardinality(S) /\ Ascending(S)[Rank(S, x)] = x
         /\ \A i, j \in 1..Cardinality(S) : i < j => Ascending(S)[i] < Ascending(S)[j]
<1> DEFINE m == Cardinality(S)
           A == Ascending(S)
<1>1. /\ m \in Nat
      /\ \A x \in S : Rank(S, x) \in 1..m
      /\ \A x, y \in S : x < y => Rank(S, x) < Rank(S, y)
      /\ \A n \in 1..m : \E x \in S : Rank(S, x) = n
  BY RankFacts
<1>2. A = [n \in 1..m |-> CHOOSE x \in S : Rank(S, x) = n]
  BY DEF Ascending, Rank
<1>3. \A n \in 1..m : A[n] \in S /\ Rank(S, A[n]) = n
  <2> HIDE DEF A, m
  <2> QED BY <1>1, <1>2
<1>4. DOMAIN A = 1..m /\ Len(A) = m
  <2> HIDE DEF A, m
  <2> QED BY <1>1, <1>2
<1>5. \A x, y \in S : x < y \/ x = y \/ y < x
  OBVIOUS
<1>6. \A x, y \in S : Rank(S, x) = Rank(S, y) => x = y
  <2> SUFFICES ASSUME NEW x \in S, NEW y \in S, Rank(S, x) = Rank(S, y) PROVE x = y
    OBVIOUS
  <2>1. Rank(S, x) \in Int /\ Rank(S, y) \in Int
    BY <1>1
  <2> QED BY <1>1, <1>5, <2>1
<1>7. \A x \in S : A[Rank(S, x)] = x
  <2> HIDE DEF A, m
  <2> QED BY <1>1, <1>3, <1>6
<1>8. ASSUME NEW i \in 1..m, NEW j \in 1..m, i < j
      PROVE  A[i] < A[j]
  <2>1. A[i] \in S /\ A[j] \in S /\ Rank(S, A[i]) = i /\ Rank(S, A[j]) = j
    BY <1>3
  <2> HIDE DEF A, m
  <2>2. ~(j < i) /\ i # j
    BY <1>1, <1>8
  <2>3. A[i] # A[j]
    BY <2>1, <2>2, Zenon
  <2>4. ~(A[j] < A[i])
    <3> SUFFICES ASSUME A[j] < A[i] PROVE FALSE
      OBVIOUS
    <3>1. Rank(S, A[j]) < Rank(S, A[i])
      BY <1>1, <2>1, Zenon
    <3> QED
      BY <2>1, <2>2, <3>1, Zenon
  <2> QED BY <1>5, <2>1, <2>3, <2>4, Zenon
<1> QED
  BY <1>1, <1>3, <1>4, <1>7, <1>8

(* A map that keeps the order takes the n-th element to the n-th.            *)
KeepsOrder(f, S, T) ==
  /\ IsFiniteSet(S) /\ S \subseteq Int /\ IsFiniteSet(T) /\ T \subseteq Int
  /\ f \in [S -> T] /\ \A t \in T : \E x \in S : f[x] = t
  /\ \A x, y \in S : x < y => f[x] < f[y]

LEMMA AscendingImage ==
  ASSUME NEW S, NEW T, NEW f, KeepsOrder(f, S, T)
  PROVE  /\ Cardinality(T) = Cardinality(S)
         /\ \A n \in 1..Cardinality(S) : Ascending(T)[n] = f[Ascending(S)[n]]
<1> USE DEF KeepsOrder
<1>1. \A x, y \in S : x < y \/ x = y \/ y < x
  OBVIOUS
<1>2. \A x, y \in S : f[x] \in Int /\ f[y] \in Int
  OBVIOUS
<1>3. \A x, y \in S : (f[x] <= f[y]) <=> (x <= y)
  <2> SUFFICES ASSUME NEW x \in S, NEW y \in S PROVE (f[x] <= f[y]) <=> (x <= y)
    OBVIOUS
  <2>1. x \in Int /\ y \in Int /\ f[x] \in Int /\ f[y] \in Int
    BY <1>2
  <2>2. CASE x < y
    BY <2>1, <2>2
  <2>3. CASE y < x
    BY <2>1, <2>3
  <2>4. CASE x = y
    BY <2>1, <2>4
  <2> QED BY <1>1, <2>2, <2>3, <2>4
<1>4. ASSUME NEW U \in SUBSET S
      PROVE  Cardinality({f[x] : x \in U}) = Cardinality(U)
  <2> DEFINE V == {f[x] : x \in U}
             g == [x \in U |-> f[x]]
  <2>1. g \in Surjection(U, V)
    BY DEF Surjection
  <2>2. g \in Injection(U, V)
    <3>1. g \in [U -> V]
      OBVIOUS
    <3>2. ASSUME NEW x \in U, NEW y \in U, g[x] = g[y] PROVE x = y
      <4>1. x \in S /\ y \in S /\ f[x] = f[y]
        BY <3>2
      <4>2. f[x] <= f[y] /\ f[y] <= f[x]
        BY <1>2, <4>1
      <4>3. x <= y /\ y <= x /\ x \in Int /\ y \in Int
        BY <1>3, <4>1, <4>2
      <4> QED BY <4>3
    <3>3. IsInjective(g)
      BY <3>1, <3>2 DEF IsInjective
    <3> QED BY <3>1, <3>3 DEF Injection
  <2>3. IsFiniteSet(U)
    BY FS_Subset
  <2> HIDE DEF V, g
  <2>4. Cardinality(V) = Cardinality(U)
    BY <2>1, <2>2, <2>3, FS_Surjection
  <2> QED BY <2>4 DEF V
<1>5. T = {f[x] : x \in S}
  OBVIOUS
<1>6. Cardinality(T) = Cardinality(S)
  BY <1>4, <1>5
<1>7. ASSUME NEW x \in S
      PROVE  Rank(T, f[x]) = Rank(S, x)
  <2>1. {t \in T : t <= f[x]} = {f[y] : y \in {z \in S : z <= x}}
    BY <1>3, <1>5
  <2>2. {z \in S : z <= x} \in SUBSET S
    OBVIOUS
  <2> QED BY <1>4, <2>1, <2>2 DEF Rank
<1>8. ASSUME NEW n \in 1..Cardinality(S)
      PROVE  Ascending(T)[n] = f[Ascending(S)[n]]
  <2>1. Ascending(S)[n] \in S /\ Rank(S, Ascending(S)[n]) = n
    BY AscendingFacts
  <2>2. f[Ascending(S)[n]] \in T /\ Rank(T, f[Ascending(S)[n]]) = n
    BY <1>7, <2>1
  <2>3. \A t \in T : Ascending(T)[Rank(T, t)] = t
    BY AscendingFacts
  <2> QED BY <2>2, <2>3
<1> QED
  BY <1>6, <1>8

-----------------------------------------------------------------------------
(* Paragraphs: white space with two newlines is between two neighbouring     *)
(* characters with ink exactly where one ends a paragraph and the other      *)
(* starts one.                                                               *)
Inks(s) == Inked(s, 1, Len(s))

LEMMA InkFacts ==
  ASSUME NEW s, Len(s) \in Nat
  PROVE  /\ IsFiniteSet(Inks(s)) /\ Inks(s) \subseteq 1..Len(s) /\ Inks(s) \subseteq Int
         /\ \A i \in 1..Len(s) : i \in Inks(s) <=> s[i] \notin White
         /\ \A j \in Inks(s) : /\ Inked(s, 1, j - 1) = {i \in Inks(s) : i < j}
                               /\ Inked(s, j + 1, Len(s)) = {i \in Inks(s) : i > j}
<1>1. Inks(s) \in SUBSET (1..Len(s))
  BY DEF Inks, Inked
<1>2. IsFiniteSet(1..Len(s))
  BY FS_Interval
<1>3. IsFiniteSet(Inks(s))
  BY <1>1, <1>2, FS_Subset
<1>4. Inks(s) \subseteq Int
  BY <1>1
<1>5. \A i \in 1..Len(s) : i \in Inks(s) <=> s[i] \notin White
  BY DEF Inks, Inked
<1>6. ASSUME NEW j \in Inks(s)
      PROVE  /\ Inked(s, 1, j - 1) = {i \in Inks(s) : i < j}
             /\ Inked(s, j + 1, Len(s)) = {i \in Inks(s) : i > j}
  <2>1. j \in 1..Len(s)
    BY <1>1
  <2>2. \A i : i \in 1..(j - 1) <=> (i \in 1..Len(s) /\ i < j)
    BY <2>1
  <2>3. \A i : i \in (j + 1)..Len(s) <=> (i \in 1..Len(s) /\ i > j)
    BY <2>1
  <2> QED BY <2>2, <2>3 DEF Inks, Inked
<1> QED
  BY <1>1, <1>3, <1>4, <1>5, <1>6

StartSet(s) == {j \in Inks(s) : Starts(s, j)}
EndSet(s) == {i \in Inks(s) : Ends(s, i)}

LEMMA Neighbours ==
  ASSUME NEW s, Len(s) \in Nat, NEW p \in Inks(s), NEW q \in Inks(s), p < q,
         \A x \in Inks(s) : ~(p < x /\ x < q)
  PROVE  /\ p \in EndSet(s) <=> Parted(s, p, q)
         /\ q \in StartSet(s) <=> Parted(s, p, q)
<1> DEFINE before == Inked(s, 1, q - 1)
           after == Inked(s, p + 1, Len(s))
<1>1. before = {i \in Inks(s) : i < q} /\ after = {i \in Inks(s) : i > p} /\ Inks(s) \subseteq Int
  BY InkFacts
<1>2. IsFiniteSet(before) /\ IsFiniteSet(after)
  <2>1. before \in SUBSET Inks(s) /\ after \in SUBSET Inks(s)
    BY <1>1
  <2>2. IsFiniteSet(Inks(s))
    BY InkFacts
  <2> HIDE DEF before, after
  <2> QED BY <2>1, <2>2, FS_Subset
<1>3. p \in before /\ q \in after /\ before \subseteq Int /\ after \subseteq Int
  BY <1>1
<1> HIDE DEF before, after
<1>4. Max(before) \in before /\ Max(before) >= p /\ Min(after) \in after /\ Min(after) <= q
  BY <1>2, <1>3, Extremes
<1>5. Max(before) = p
  <2>1. Max(before) \in Inks(s) /\ Max(before) < q
    BY <1>1, <1>4
  <2>2. Max(before) \in Int /\ p \in Int /\ ~(p < Max(before))
    BY <1>1, <2>1
  <2> QED BY <1>4, <2>2
<1>6. Min(after) = q
  <2>1. Min(after) \in Inks(s) /\ Min(after) > p
    BY <1>1, <1>4
  <2>2. Min(after) \in Int /\ p \in Int /\ q \in Int
    BY <1>1, <2>1
  <2>3. p < Min(after)
    BY <2>1, <2>2
  <2>4. ~(Min(after) < q)
    BY <2>1, <2>3
  <2> QED BY <1>4, <2>2, <2>4
<1>7. Starts(s, q) <=> Parted(s, p, q)
  BY <1>3, <1>5 DEF Starts, before
<1>8. Ends(s, p) <=> Parted(s, p, q)
  BY <1>3, <1>6 DEF Ends, after
<1> QED
  BY <1>7, <1>8 DEF StartSet, EndSet

(* The nearest ink on either side of a place.                                *)
LEMMA InkBefore ==
  ASSUME NEW s, Len(s) \in Nat, NEW k \in Int, NEW a \in Inks(s), a <= k
  PROVE  \E p \in Inks(s) : a <= p /\ p <= k /\ \A x \in Inks(s) : x <= k => x <= p
<1> DEFINE U == {x \in Inks(s) : x <= k}
<1>1. U \in SUBSET Inks(s) /\ a \in U /\ U \subseteq Int
  BY InkFacts
<1>2. IsFiniteSet(U)
  <2>1. IsFiniteSet(Inks(s))
    BY InkFacts
  <2> HIDE DEF U
  <2> QED BY <1>1, <2>1, FS_Subset
<1>3. PICK p \in U : \A x \in U : p >= x
  <2> HIDE DEF U
  <2> QED BY <1>1, <1>2, GreatestExists
<1>4. p \in Int /\ \A x \in U : x \in Int /\ x <= p
  BY <1>1, <1>3
<1> QED
  BY <1>1, <1>3, <1>4

LEMMA InkAfter ==
  ASSUME NEW s, Len(s) \in Nat, NEW k \in Int, NEW a \in Inks(s), a >= k
  PROVE  \E p \in Inks(s) : k <= p /\ p <= a /\ \A x \in Inks(s) : x >= k => p <= x
<1> DEFINE U == {x \in Inks(s) : x >= k}
<1>1. U \in SUBSET Inks(s) /\ a \in U /\ U \subseteq Int
  BY InkFacts
<1>2. IsFiniteSet(U)
  <2>1. IsFiniteSet(Inks(s))
    BY InkFacts
  <2> HIDE DEF U
  <2> QED BY <1>1, <2>1, FS_Subset
<1>3. PICK p \in U : \A x \in U : p <= x
  <2> HIDE DEF U
  <2> QED BY <1>1, <1>2, LeastOfFinite
<1>4. p \in Int /\ k <= p
  BY <1>1, <1>3
<1> QED
  BY <1>1, <1>3, <1>4

LEMMA PartedIsWide ==
  ASSUME NEW s, NEW p \in Int, NEW q \in Int, Parted(s, p, q)
  PROVE  p + 1 < q
<1> DEFINE U == {k \in (p + 1)..(q - 1) : s[k] = "nl"}
<1>1. Cardinality(U) >= 2
  BY DEF Parted
<1>2. U # {}
  <2> HIDE DEF U
  <2> QED BY <1>1, FS_EmptySet
<1>3. PICK k \in (p + 1)..(q - 1) : TRUE
  BY <1>2
<1> QED
  BY <1>3

LEMMA PartedGrows ==
  ASSUME NEW s, NEW p \in Int, NEW i \in Int, NEW j \in Int, NEW q \in Int,
         p <= i, j <= q, Parted(s, i, j), Inked(s, p + 1, q - 1) = {}
  PROVE  Parted(s, p, q)
<1> DEFINE U(a, b) == {k \in (a + 1)..(b - 1) : s[k] = "nl"}
<1>1. \A k \in (i + 1)..(j - 1) : k \in (p + 1)..(q - 1)
  OBVIOUS
<1>2. U(i, j) \in SUBSET U(p, q) /\ U(p, q) \in SUBSET ((p + 1)..(q - 1))
  BY <1>1
<1>3. IsFiniteSet((p + 1)..(q - 1))
  BY FS_Interval
<1> HIDE DEF U
<1>4. IsFiniteSet(U(p, q)) /\ IsFiniteSet(U(i, j)) /\ Cardinality(U(i, j)) <= Cardinality(U(p, q))
  BY <1>2, <1>3, FS_Subset
<1>5. Cardinality(U(i, j)) \in Nat /\ Cardinality(U(p, q)) \in Nat
  BY <1>4, FS_CardinalityType
<1>6. Cardinality(U(i, j)) >= 2
  BY DEF Parted, U
<1>7. Cardinality(U(p, q)) >= 2
  BY <1>4, <1>5, <1>6
<1> QED
  BY <1>7 DEF Parted, U

(* A range is whole when it begins and ends with ink and lies within one     *)
(* paragraph.                                                                *)
Ranges(s) == [from : 1..Len(s), to : 1..Len(s)]
Whole(s, r) ==
  /\ r \in Ranges(s) /\ r.from <= r.to
  /\ s[r.from] \notin White /\ s[r.to] \notin White
  /\ \A i, j \in r.from..r.to : i < j => ~Parted(s, i, j)

(* The end that goes with a start: the first one from there on.              *)
EndFrom(s, j) == Min({i \in EndSet(s) : i >= j})

LEMMA StartsHaveEnds ==
  ASSUME NEW s, Len(s) \in Nat, NEW j \in Inks(s)
  PROVE  /\ EndFrom(s, j) \in EndSet(s) /\ EndFrom(s, j) >= j
         /\ \A i \in EndSet(s) : i >= j => EndFrom(s, j) <= i
<1> DEFINE U == {i \in EndSet(s) : i >= j}
           last == Max(Inks(s))
<1>1. IsFiniteSet(Inks(s)) /\ Inks(s) \subseteq Int /\ Inks(s) # {}
  BY InkFacts
<1>2. last \in Inks(s) /\ \A x \in Inks(s) : last >= x
  BY <1>1, Extremes
<1>3. last \in EndSet(s)
  <2>1. Inked(s, last + 1, Len(s)) = {i \in Inks(s) : i > last}
    BY <1>2, InkFacts
  <2>2. {i \in Inks(s) : i > last} = {}
    <3> SUFFICES ASSUME NEW i \in Inks(s), i > last PROVE FALSE
      OBVIOUS
    <3> HIDE DEF last
    <3>1. i \in Int /\ last \in Int /\ last >= i
      BY <1>1, <1>2
    <3> QED BY <3>1
  <2> QED BY <1>2, <2>1, <2>2 DEF EndSet, Ends
<1>4. U \in SUBSET Inks(s) /\ U \subseteq Int /\ U # {}
  BY <1>1, <1>2, <1>3 DEF EndSet
<1>5. IsFiniteSet(U)
  <2> HIDE DEF U
  <2> QED BY <1>1, <1>4, FS_Subset
<1>6. Min(U) \in U /\ \A i \in U : Min(U) <= i
  <2> HIDE DEF U
  <2> QED BY <1>4, <1>5, Extremes
<1> QED
  BY <1>6 DEF EndFrom

(* What ends before a later start: the paragraphs do not overlap.            *)
LEMMA EndsBeforeNext ==
  ASSUME NEW s, Len(s) \in Nat, NEW j \in StartSet(s), NEW k \in StartSet(s), j < k
  PROVE  EndFrom(s, j) + 1 < k
<1>1. j \in Inks(s) /\ k \in Inks(s) /\ Inks(s) \subseteq Int
  BY InkFacts DEF StartSet
<1>2. j <= k - 1 /\ k - 1 \in Int
  BY <1>1
<1>3. PICK p \in Inks(s) : j <= p /\ p <= k - 1 /\ \A x \in Inks(s) : x <= k - 1 => x <= p
  BY <1>1, <1>2, InkBefore
<1>4. p \in Int /\ p < k
  BY <1>1, <1>3
<1>5. \A x \in Inks(s) : ~(p < x /\ x < k)
  <2> SUFFICES ASSUME NEW x \in Inks(s), p < x, x < k PROVE FALSE
    OBVIOUS
  <2>1. x \in Int /\ x <= k - 1
    BY <1>1
  <2> QED BY <1>3, <1>4, <2>1
<1>6. p \in EndSet(s) /\ Parted(s, p, k)
  BY <1>1, <1>3, <1>4, <1>5, Neighbours
<1>7. EndFrom(s, j) <= p /\ EndFrom(s, j) \in Inks(s)
  BY <1>1, <1>3, <1>6, StartsHaveEnds DEF EndSet
<1>8. p + 1 < k
  BY <1>1, <1>4, <1>6, PartedIsWide
<1> QED
  BY <1>1, <1>4, <1>7, <1>8

(* Every place with ink has a start before it, and lies within its range.    *)
LEMMA InkIsCovered ==
  ASSUME NEW s, Len(s) \in Nat, NEW i \in Inks(s)
  PROVE  \E j \in StartSet(s) : j <= i /\ i <= EndFrom(s, j)
<1>1. IsFiniteSet(Inks(s)) /\ Inks(s) \subseteq Int
  BY InkFacts
<1> DEFINE U == {j \in StartSet(s) : j <= i}
<1>2. U \in SUBSET Inks(s) /\ U \subseteq Int /\ i \in Int
  BY <1>1 DEF StartSet
<1>3. U # {}
  <2> DEFINE first == Min(Inks(s))
  <2>1. first \in Inks(s) /\ \A x \in Inks(s) : first <= x
    BY <1>1, Extremes
  <2>2. Inked(s, 1, first - 1) = {x \in Inks(s) : x < first}
    BY <2>1, InkFacts
  <2>3. {x \in Inks(s) : x < first} = {}
    <3> SUFFICES ASSUME NEW x \in Inks(s), x < first PROVE FALSE
      OBVIOUS
    <3> HIDE DEF first
    <3>1. x \in Int /\ first \in Int /\ first <= x
      BY <1>1, <2>1
    <3> QED BY <3>1
  <2>4. first \in StartSet(s)
    BY <2>1, <2>2, <2>3 DEF StartSet, Starts
  <2> HIDE DEF first
  <2> QED BY <2>1, <2>4
<1>4. IsFiniteSet(U)
  <2> HIDE DEF U
  <2> QED BY <1>1, <1>2, FS_Subset
<1>5. PICK j \in U : \A x \in U : j >= x
  <2> HIDE DEF U
  <2> QED BY <1>2, <1>3, <1>4, GreatestExists
<1> DEFINE e == EndFrom(s, j)
<1>6. j \in StartSet(s) /\ j <= i /\ j \in Inks(s)
  BY <1>2, <1>5
<1>7. e \in EndSet(s) /\ e >= j /\ e \in Inks(s)
  BY <1>6, StartsHaveEnds DEF EndSet
<1>8. ASSUME e < i PROVE FALSE
  <2> HIDE DEF e
  <2>1. i >= e + 1 /\ e + 1 \in Int /\ e \in Int /\ j \in Int
    BY <1>1, <1>2, <1>6, <1>7, <1>8
  <2>2. PICK q \in Inks(s) : e + 1 <= q /\ q <= i /\ \A x \in Inks(s) : x >= e + 1 => q <= x
    BY <2>1, InkAfter
  <2>3. q \in Int /\ e < q
    BY <1>1, <2>1, <2>2
  <2>4. \A x \in Inks(s) : ~(e < x /\ x < q)
    <3> SUFFICES ASSUME NEW x \in Inks(s), e < x, x < q PROVE FALSE
      OBVIOUS
    <3>1. x \in Int /\ x >= e + 1
      BY <1>1, <2>1
    <3> QED BY <2>2, <2>3, <3>1
  <2>5. q \in StartSet(s)
    BY <1>7, <2>3, <2>4, Neighbours
  <2>6. q \in U
    BY <2>2, <2>5
  <2>7. j >= q
    BY <1>5, <2>6
  <2> QED BY <1>7, <2>1, <2>3, <2>7
<1>9. i <= e
  <2> HIDE DEF e
  <2>1. e \in Int
    BY <1>1, <1>7
  <2> QED BY <1>2, <1>8, <2>1
<1> QED
  BY <1>6, <1>9

LEMMA RangeIsWhole ==
  ASSUME NEW s, Len(s) \in Nat, NEW a \in StartSet(s)
  PROVE  Whole(s, [from |-> a, to |-> EndFrom(s, a)])
<1> DEFINE b == EndFrom(s, a)
<1>1. IsFiniteSet(Inks(s)) /\ Inks(s) \subseteq Int /\ Inks(s) \subseteq 1..Len(s)
  BY InkFacts
<1>2. a \in Inks(s) /\ b \in EndSet(s) /\ b \in Inks(s) /\ a <= b
      /\ \A i \in EndSet(s) : i >= a => b <= i
  <2>1. a \in Inks(s)
    BY DEF StartSet
  <2>2. b \in EndSet(s) /\ b >= a /\ \A i \in EndSet(s) : i >= a => b <= i
    BY <2>1, StartsHaveEnds
  <2>3. b \in Inks(s)
    BY <2>2 DEF EndSet
  <2> HIDE DEF b
  <2>4. a <= b
    BY <1>1, <2>1, <2>2, <2>3
  <2> QED BY <2>1, <2>2, <2>3, <2>4
<1> HIDE DEF b
<1>3. s[a] \notin White /\ s[b] \notin White /\ a \in 1..Len(s) /\ b \in 1..Len(s)
  BY <1>1, <1>2, InkFacts
<1>4. ASSUME NEW i \in a..b, NEW j \in a..b, i < j, Parted(s, i, j)
      PROVE  FALSE
  <2>1. a \in Int /\ b \in Int /\ i \in Int /\ j \in Int /\ a <= i /\ j <= b
    BY <1>1, <1>2
  <2>2. PICK p \in Inks(s) : a <= p /\ p <= i /\ \A x \in Inks(s) : x <= i => x <= p
    BY <1>2, <2>1, InkBefore
  <2>3. PICK q \in Inks(s) : j <= q /\ q <= b /\ \A x \in Inks(s) : x >= j => q <= x
    <3>1. b \in Inks(s) /\ b >= j /\ j \in Int /\ Len(s) \in Nat
      BY <1>2, <2>1
    <3> QED BY ONLY <3>1, InkAfter
  <2>4. p \in Int /\ q \in Int /\ p < q
    BY <1>1, <1>4, <2>1, <2>2, <2>3
  <2>5. \A x \in Inks(s) : ~(p < x /\ x < q)
    <3> SUFFICES ASSUME NEW x \in Inks(s), p < x, x < q PROVE FALSE
      OBVIOUS
    <3>1. x \in 1..Len(s) /\ x \in Int /\ s[x] \notin White
      BY <1>1, InkFacts
    <3>2. ~(x <= i) /\ ~(x >= j)
      BY <2>2, <2>3, <2>4, <3>1
    <3>3. x \in (i + 1)..(j - 1)
      BY <2>1, <3>1, <3>2
    <3>4. x \in Inked(s, i + 1, j - 1)
      BY <3>1, <3>3 DEF Inked
    <3> QED BY <1>4, <3>4 DEF Parted
  <2>6. Inked(s, p + 1, q - 1) = {}
    <3> SUFFICES ASSUME NEW x \in (p + 1)..(q - 1), s[x] \notin White PROVE FALSE
      BY DEF Inked
    <3>1. p \in 1..Len(s) /\ q \in 1..Len(s)
      BY <1>1
    <3>2. x \in 1..Len(s) /\ p < x /\ x < q
      BY <2>4, <3>1
    <3>3. x \in Inks(s)
      BY <3>2, InkFacts
    <3> QED BY <2>5, <3>2, <3>3
  <2>7. Parted(s, p, q)
    BY <1>4, <2>1, <2>2, <2>3, <2>4, <2>6, PartedGrows
  <2>8. p \in EndSet(s)
    BY <2>4, <2>5, <2>7, Neighbours
  <2>9. b <= p
    <3>1. p >= a
      BY <2>1, <2>2, <2>4
    <3> QED BY <1>2, <2>8, <3>1
  <2> QED BY <2>1, <2>3, <2>4, <2>9
<1>5. Whole(s, [from |-> a, to |-> b])
  BY <1>2, <1>3, <1>4 DEF Whole, Ranges
<1> QED
  BY <1>5 DEF b

(* The paragraphs of a text: whole ranges, well apart, that hold all of its  *)
(* ink. The ends are the images of the starts, in the same order.            *)
LEMMA ParagraphFacts ==
  ASSUME NEW s, Len(s) \in Nat
  PROVE  /\ Paragraphs(s) \in Seq(Ranges(s))
         /\ \A n \in DOMAIN Paragraphs(s) : Whole(s, Paragraphs(s)[n])
         /\ \A n \in 1..(Len(Paragraphs(s)) - 1) : Paragraphs(s)[n].to + 1 < Paragraphs(s)[n + 1].from
         /\ \A i \in Inks(s) : \E n \in DOMAIN Paragraphs(s) : Within(i, Paragraphs(s)[n])
<1> DEFINE A == StartSet(s)
           B == EndSet(s)
           f == [j \in A |-> EndFrom(s, j)]
           m == Cardinality(A)
<1>1. IsFiniteSet(Inks(s)) /\ Inks(s) \subseteq Int /\ Inks(s) \subseteq 1..Len(s)
  BY InkFacts
<1>2. A \in SUBSET Inks(s) /\ B \in SUBSET Inks(s)
  BY DEF StartSet, EndSet
<1>3. IsFiniteSet(A) /\ IsFiniteSet(B) /\ A \subseteq Int /\ B \subseteq Int
  <2>1. IsFiniteSet(A) /\ IsFiniteSet(B)
    BY <1>1, <1>2, FS_Subset
  <2> QED BY <1>1, <1>2, <2>1
<1>4. f \in [A -> B]
  BY <1>2, StartsHaveEnds
<1>5. ASSUME NEW x \in A, NEW y \in A, x < y
      PROVE  f[x] < f[y] /\ f[x] + 1 < y
  <2>1. f[x] + 1 < y
    BY <1>5, EndsBeforeNext
  <2>2. f[y] >= y
    BY <1>2, StartsHaveEnds
  <2>3. f[x] \in Int /\ f[y] \in Int /\ y \in Int
    BY <1>3, <1>4
  <2> HIDE DEF f
  <2> QED BY <2>1, <2>2, <2>3
<1>6. ASSUME NEW t \in B
      PROVE  \E x \in A : f[x] = t
  <2>1. PICK x \in A : x <= t /\ t <= EndFrom(s, x)
    BY <1>2, InkIsCovered
  <2>2. x \in Int /\ t \in Int /\ t >= x
    BY <1>3, <2>1
  <2>3. EndFrom(s, x) <= t /\ EndFrom(s, x) \in Int
    BY <1>2, <1>3, <2>2, StartsHaveEnds
  <2>4. EndFrom(s, x) = t
    BY <2>1, <2>2, <2>3
  <2> QED BY <2>4
<1>7. /\ Cardinality(B) = m
      /\ \A n \in 1..m : Ascending(B)[n] = f[Ascending(A)[n]]
  <2> HIDE DEF f, A, B
  <2>1. KeepsOrder(f, A, B)
    BY <1>3, <1>4, <1>5, <1>6 DEF KeepsOrder
  <2> QED BY <2>1, AscendingImage
<1>8. /\ m \in Nat /\ DOMAIN Ascending(A) = 1..m
      /\ \A n \in 1..m : Ascending(A)[n] \in A
      /\ \A i, j \in 1..m : i < j => Ascending(A)[i] < Ascending(A)[j]
      /\ \A x \in A : \E n \in 1..m : Ascending(A)[n] = x
  <2> HIDE DEF A
  <2> QED BY <1>3, AscendingFacts
<1> DEFINE P == Paragraphs(s)
           r(n) == [from |-> Ascending(A)[n], to |-> EndFrom(s, Ascending(A)[n])]
<1>9. P = [n \in 1..m |-> r(n)]
  <2>1. P = [n \in 1..m |-> [from |-> Ascending(A)[n], to |-> Ascending(B)[n]]]
    BY <1>8 DEF Paragraphs, StartSet, EndSet, Inks
  <2>2. \A n \in 1..m : f[Ascending(A)[n]] = EndFrom(s, Ascending(A)[n])
    BY <1>8
  <2> HIDE DEF A, B, P, f
  <2> QED BY <1>7, <2>1, <2>2
<1>10. \A n \in 1..m : Whole(s, P[n])
  BY <1>8, <1>9, RangeIsWhole
<1>11. P \in Seq(Ranges(s)) /\ Len(P) = m /\ DOMAIN P = 1..m
  <2>1. \A n \in 1..m : P[n] \in Ranges(s)
    BY <1>10 DEF Whole
  <2>2. P = [n \in 1..m |-> P[n]]
    BY <1>9
  <2> HIDE DEF P, m
  <2> QED BY <1>8, <2>1, <2>2
<1>12. ASSUME NEW n \in 1..(m - 1)
       PROVE  P[n].to + 1 < P[n + 1].from
  <2>1. n \in 1..m /\ n + 1 \in 1..m /\ n < n + 1
    BY <1>8
  <2>2. Ascending(A)[n] < Ascending(A)[n + 1] /\ Ascending(A)[n] \in A /\ Ascending(A)[n + 1] \in A
    BY <1>8, <2>1
  <2>3. f[Ascending(A)[n]] + 1 < Ascending(A)[n + 1]
    BY <1>5, <2>2
  <2>4. P[n].to = f[Ascending(A)[n]] /\ P[n + 1].from = Ascending(A)[n + 1]
    BY <1>9, <2>1, <2>2
  <2> QED BY <2>3, <2>4
<1>13. ASSUME NEW i \in Inks(s)
       PROVE  \E n \in 1..m : Within(i, P[n])
  <2>1. PICK x \in A : x <= i /\ i <= EndFrom(s, x)
    BY InkIsCovered
  <2>2. PICK n \in 1..m : Ascending(A)[n] = x
    BY <1>8
  <2>3. P[n].from = x /\ P[n].to = EndFrom(s, x)
    BY <1>9, <2>2
  <2>4. Within(i, P[n])
    BY <2>1, <2>3 DEF Within
  <2> QED BY <2>4
<1> HIDE DEF P, m
<1> QED
  BY <1>10, <1>11, <1>12, <1>13 DEF P

-----------------------------------------------------------------------------
(* Blocks: what strip() leaves of a range, and where a range is cut.         *)
LEMMA StripFacts ==
  ASSUME NEW s, Len(s) \in Nat, NEW a \in 1..Len(s), NEW b \in 1..Len(s),
         NEW x \in a..b, s[x] \notin White
  PROVE  \E c, d \in a..b :
           /\ Strip(s, a, b) = <<[from |-> c, to |-> d]>>
           /\ s[c] \notin White /\ s[d] \notin White /\ c <= d
           /\ \A i \in a..b : s[i] \notin White => c <= i /\ i <= d
<1> DEFINE inked == Inked(s, a, b)
<1>1. inked \in SUBSET (a..b) /\ x \in inked /\ inked \subseteq Int
  BY DEF Inked
<1>2. IsFiniteSet(inked)
  <2>1. IsFiniteSet(a..b)
    BY FS_Interval
  <2> HIDE DEF inked
  <2> QED BY <1>1, <2>1, FS_Subset
<1>3. /\ Min(inked) \in inked /\ Max(inked) \in inked
      /\ \A i \in inked : Min(inked) <= i /\ Max(inked) >= i
  <2> HIDE DEF inked
  <2> QED BY <1>1, <1>2, Extremes
<1>4. Strip(s, a, b) = <<[from |-> Min(inked), to |-> Max(inked)]>>
  BY <1>1 DEF Strip
<1>5. s[Min(inked)] \notin White /\ s[Max(inked)] \notin White
  BY <1>3 DEF Inked
<1>6. \A i \in a..b : s[i] \notin White => i \in inked
  BY DEF Inked
<1> HIDE DEF inked
<1>7. \A i \in inked : i \in Int /\ Max(inked) \in Int /\ i <= Max(inked)
  BY <1>1, <1>3
<1> QED
  BY <1>1, <1>3, <1>4, <1>5, <1>6, <1>7

Full(s, r) ==
  /\ r.to - r.from = BlockCharacters - 1
  /\ \A i \in (r.from + BlockCharacters \div 2)..r.to : s[i] \notin {"nl", "sp"}

LEMMA PartIsWhole ==
  ASSUME NEW s, NEW r, Whole(s, r), NEW c \in r.from..r.to, NEW d \in r.from..r.to,
         c <= d, s[c] \notin White, s[d] \notin White, Len(s) \in Nat
  PROVE  Whole(s, [from |-> c, to |-> d])
<1>1. r.from \in 1..Len(s) /\ r.to \in 1..Len(s)
  BY DEF Whole, Ranges
<1>2. c \in 1..Len(s) /\ d \in 1..Len(s)
  BY <1>1
<1>3. \A i \in c..d : i \in r.from..r.to
  BY <1>1
<1> QED
  BY <1>2, <1>3 DEF Whole, Ranges

LEMMA CutFacts ==
  ASSUME NEW r, Whole(text, r), Len(text) \in Nat, ~(r.to - r.from < BlockCharacters)
  PROVE  /\ Cut(r) \in 1..BlockCharacters
         /\ Cut(r) = BlockCharacters \/ text[r.from + Cut(r)] \in White
         /\ Cut(r) = BlockCharacters =>
              \A k \in (BlockCharacters \div 2)..(BlockCharacters - 1) : text[r.from + k] \notin {"nl", "sp"}
<1> DEFINE half == BlockCharacters \div 2
           at(class) == {k \in half..(BlockCharacters - 1) : text[r.from + k] = class}
<1>1. BlockCharacters \in Nat \ {0} /\ half \in Nat /\ r.from \in Int
  <2>1. BlockCharacters \in Nat \ {0}
    BY TextAssumption
  <2> QED BY <2>1 DEF Whole, Ranges
<1> HIDE DEF half
<1>2. ASSUME NEW class, class \in White, at(class) # {}
      PROVE  /\ Max(at(class)) \in at(class)
             /\ Max(at(class)) \in 1..(BlockCharacters - 1)
  <2>1. at(class) \in SUBSET (half..(BlockCharacters - 1)) /\ at(class) \subseteq Int
    BY <1>1
  <2>2. IsFiniteSet(at(class))
    <3>1. IsFiniteSet(half..(BlockCharacters - 1))
      BY <1>1, FS_Interval
    <3> HIDE DEF at
    <3> QED BY <2>1, <3>1, FS_Subset
  <2>3. Max(at(class)) \in at(class)
    <3> HIDE DEF at
    <3> QED BY <1>2, <2>1, <2>2, Extremes
  <2> DEFINE k == Max(at(class))
  <2>4. k \in half..(BlockCharacters - 1) /\ text[r.from + k] \in White
    BY <1>2, <2>3
  <2> HIDE DEF k
  <2>5. k # 0
    <3>1. r.from + 0 = r.from
      BY <1>1
    <3> QED BY <2>4, <3>1 DEF Whole
  <2>6. k \in 1..(BlockCharacters - 1)
    BY <1>1, <2>4, <2>5
  <2> QED BY <2>3, <2>6 DEF k
<1>3. Cut(r) = IF at("nl") # {} THEN Max(at("nl"))
               ELSE IF at("sp") # {} THEN Max(at("sp")) ELSE BlockCharacters
  BY DEF Cut, half
<1>4. "nl" \in White /\ "sp" \in White
  BY DEF White
<1>5. CASE at("nl") # {}
  <2>1. Cut(r) \in at("nl") /\ Cut(r) \in 1..(BlockCharacters - 1)
    BY <1>2, <1>3, <1>4, <1>5
  <2> HIDE DEF Cut
  <2> QED BY <1>1, <1>4, <2>1
<1>6. CASE at("nl") = {} /\ at("sp") # {}
  <2>1. Cut(r) \in at("sp") /\ Cut(r) \in 1..(BlockCharacters - 1)
    BY <1>2, <1>3, <1>4, <1>6
  <2> QED BY <1>1, <1>4, <2>1
<1>7. CASE at("nl") = {} /\ at("sp") = {}
  <2>1. Cut(r) = BlockCharacters
    BY <1>3, <1>7
  <2>2. \A k \in half..(BlockCharacters - 1) : text[r.from + k] \notin {"nl", "sp"}
    BY <1>7
  <2> QED BY <1>1, <2>1, <2>2 DEF half
<1> QED
  BY <1>5, <1>6, <1>7

(* A range that is too long becomes a block and a rest.                      *)
LEMMA SplitFacts ==
  ASSUME NEW r, Whole(text, r), Len(text) \in Nat, ~(r.to - r.from < BlockCharacters)
  PROVE  \E m, p \in r.from..r.to :
           /\ Strip(text, r.from, r.from + Cut(r) - 1) = <<[from |-> r.from, to |-> m]>>
           /\ Strip(text, r.from + Cut(r), r.to) = <<[from |-> p, to |-> r.to]>>
           /\ Whole(text, [from |-> r.from, to |-> m]) /\ Whole(text, [from |-> p, to |-> r.to])
           /\ m < p /\ m - r.from <= BlockCharacters - 1
           /\ \A i \in r.from..r.to : text[i] \notin White => i <= m \/ p <= i
           /\ m + 1 = p => Full(text, [from |-> r.from, to |-> m])
<1> DEFINE a == r.from
           b == r.to
           c == Cut(r)
           B == BlockCharacters
<1>1. /\ a \in 1..Len(text) /\ b \in 1..Len(text) /\ a \in Int /\ b \in Int
      /\ text[a] \notin White /\ text[b] \notin White
  BY DEF Whole, Ranges
<1>2. /\ c \in 1..B /\ B \in Nat \ {0}
      /\ c = B \/ text[a + c] \in White
      /\ c = B => \A k \in (B \div 2)..(B - 1) : text[a + k] \notin {"nl", "sp"}
  <2>1. B \in Nat \ {0}
    BY TextAssumption
  <2> QED BY <2>1, CutFacts
<1>3. ~(b - a < B)
  OBVIOUS
<1> HIDE DEF a, b, c, B
<1>4. /\ a + c - 1 \in 1..Len(text) /\ a + c \in 1..Len(text)
      /\ a \in a..(a + c - 1) /\ b \in (a + c)..b /\ a + c - 1 < b
  BY <1>1, <1>2, <1>3
<1>5. PICK x, m \in a..(a + c - 1) :
        /\ Strip(text, a, a + c - 1) = <<[from |-> x, to |-> m]>>
        /\ text[x] \notin White /\ text[m] \notin White /\ x <= m
        /\ \A i \in a..(a + c - 1) : text[i] \notin White => x <= i /\ i <= m
  BY <1>1, <1>4, StripFacts
<1>6. PICK p, y \in (a + c)..b :
        /\ Strip(text, a + c, b) = <<[from |-> p, to |-> y]>>
        /\ text[p] \notin White /\ text[y] \notin White /\ p <= y
        /\ \A i \in (a + c)..b : text[i] \notin White => p <= i /\ i <= y
  BY <1>1, <1>4, StripFacts
<1>7. x = a /\ y = b
  BY <1>1, <1>4, <1>5, <1>6
<1>8. m \in a..b /\ p \in a..b /\ m < p /\ m - a <= B - 1 /\ a <= m /\ p <= b /\ a \in a..b /\ b \in a..b
  BY <1>1, <1>2, <1>4, <1>5, <1>6
<1>9. Whole(text, [from |-> a, to |-> m]) /\ Whole(text, [from |-> p, to |-> b])
  BY <1>1, <1>5, <1>6, <1>8, PartIsWhole DEF a, b
<1>10. \A i \in a..b : text[i] \notin White => i <= m \/ p <= i
  <2> SUFFICES ASSUME NEW i \in a..b, text[i] \notin White PROVE i <= m \/ p <= i
    OBVIOUS
  <2>1. i \in a..(a + c - 1) \/ i \in (a + c)..b
    BY <1>1, <1>2
  <2> QED BY <1>5, <1>6, <2>1
<1>11. ASSUME m + 1 = p
       PROVE  Full(text, [from |-> a, to |-> m])
  <2>1. m = a + c - 1 /\ p = a + c
    BY <1>1, <1>2, <1>5, <1>6, <1>11
  <2>2. c = B
    BY <1>2, <1>6, <2>1
  <2>3. m - a = B - 1
    BY <1>1, <1>2, <2>1, <2>2
  <2>4. ASSUME NEW i \in (a + B \div 2)..m
        PROVE  text[i] \notin {"nl", "sp"}
    <3>1. B \div 2 \in Nat
      BY <1>2
    <3> DEFINE h == B \div 2
    <3> HIDE DEF h
    <3>2. i - a \in h..(B - 1) /\ a + (i - a) = i
      BY <1>1, <1>2, <2>1, <2>2, <2>4, <3>1 DEF h
    <3> QED BY <1>2, <2>2, <3>2 DEF h
  <2> QED BY <2>3, <2>4 DEF Full, B
<1> QED
  BY <1>5, <1>6, <1>7, <1>8, <1>9, <1>10, <1>11 DEF a, b, c, B

-----------------------------------------------------------------------------
(* What is true while a text is split, and stays so: the blocks, and what is *)
(* still to be split behind them, are whole ranges in the order of the text  *)
(* that hold all of its ink; and only a full block touches the next range.   *)
Joint(s, b, r) == b.to < r.from /\ (b.to + 1 = r.from => Full(s, b))

SplitInv ==
  /\ Len(text) \in Nat /\ blocks \in Seq(Ranges(text)) /\ todo \in Seq(Ranges(text))
  /\ \A n \in DOMAIN blocks : Whole(text, blocks[n]) /\ blocks[n].to - blocks[n].from <= BlockCharacters - 1
  /\ \A n \in DOMAIN todo : Whole(text, todo[n])
  /\ \A n \in 1..(Len(blocks) - 1) : Joint(text, blocks[n], blocks[n + 1])
  /\ \A n \in 1..(Len(todo) - 1) : todo[n].to + 1 < todo[n + 1].from
  /\ blocks # <<>> /\ todo # <<>> => Joint(text, blocks[Len(blocks)], todo[1])
  /\ \A i \in Inks(text) :
       \/ \E n \in DOMAIN blocks : Within(i, blocks[n])
       \/ \E n \in DOMAIN todo : Within(i, todo[n])

LEMMA SplitStarts ==
  ASSUME Len(text') \in Nat, todo' = Paragraphs(text'), blocks' = <<>>
  PROVE  SplitInv'
BY ParagraphFacts DEF SplitInv

(* One more block, and the rest of what it was cut from, if there is one.    *)
LEMMA SplitMoves ==
  ASSUME SplitInv, todo # <<>>, NEW b \in Ranges(text), Whole(text, b),
         b.to - b.from <= BlockCharacters - 1, b.from = Head(todo).from,
         blocks' = Append(blocks, b), text' = text,
         \/ b = Head(todo) /\ todo' = Tail(todo)
         \/ \E p \in Head(todo).from..Head(todo).to :
              /\ todo' = <<[from |-> p, to |-> Head(todo).to]>> \o Tail(todo)
              /\ Whole(text, [from |-> p, to |-> Head(todo).to])
              /\ Joint(text, b, [from |-> p, to |-> Head(todo).to])
              /\ \A i \in Head(todo).from..Head(todo).to : text[i] \notin White => i <= b.to \/ p <= i
  PROVE  SplitInv'
<1> DEFINE m == Len(blocks)
           k == Len(todo)
           r == Head(todo)
<1>1. /\ m \in Nat /\ k \in Nat \ {0} /\ DOMAIN blocks = 1..m /\ DOMAIN todo = 1..k
      /\ r = todo[1] /\ r \in Ranges(text) /\ Whole(text, r) /\ 1 \in 1..k
  BY DEF SplitInv
<1>2. /\ blocks' \in Seq(Ranges(text)) /\ Len(blocks') = m + 1 /\ DOMAIN blocks' = 1..(m + 1)
      /\ blocks'[m + 1] = b /\ \A n \in 1..m : blocks'[n] = blocks[n]
  BY <1>1 DEF SplitInv
<1>3. \A n \in 1..(m + 1) : n \in 1..m \/ n = m + 1
  <2> HIDE DEF m
  <2> QED BY <1>1
<1> DEFINE tail == Tail(todo)
<1>4. /\ tail \in Seq(Ranges(text)) /\ Len(tail) = k - 1 /\ DOMAIN tail = 1..(k - 1)
      /\ \A n \in 1..(k - 1) : tail[n] = todo[n + 1] /\ n + 1 \in 1..k
  BY <1>1 DEF SplitInv
<1>5. /\ \A n \in 1..m : Whole(text, blocks[n]) /\ blocks[n].to - blocks[n].from <= BlockCharacters - 1
      /\ \A n \in 1..k : Whole(text, todo[n]) /\ todo[n].to \in Int /\ todo[n].from \in Int
      /\ \A n \in 1..(m - 1) : Joint(text, blocks[n], blocks[n + 1])
      /\ \A n \in 1..(k - 1) : todo[n].to + 1 < todo[n + 1].from
      /\ m # 0 => Joint(text, blocks[m], r)
      /\ \A i \in Inks(text) :
           \/ \E n \in 1..m : Within(i, blocks[n])
           \/ \E n \in 1..k : Within(i, todo[n])
      /\ Len(text) \in Nat
  <2>1. m # 0 => blocks # <<>>
    BY <1>1
  <2>2. \A n \in 1..k : todo[n] \in Ranges(text)
    BY <1>1 DEF SplitInv
  <2>3. \A n \in 1..k : todo[n].to \in Int /\ todo[n].from \in Int
    BY <2>2 DEF Ranges
  <2>4. m # 0 => Joint(text, blocks[m], r)
    BY <1>1, <2>1 DEF SplitInv
  <2>5. \A i \in Inks(text) :
           \/ \E n \in 1..m : Within(i, blocks[n])
           \/ \E n \in 1..k : Within(i, todo[n])
    BY <1>1 DEF SplitInv
  <2> QED BY <1>1, <2>3, <2>4, <2>5 DEF SplitInv
<1>10. (b = r /\ todo' = tail) \/ \E p \in r.from..r.to :
              /\ todo' = <<[from |-> p, to |-> r.to]>> \o tail
              /\ Whole(text, [from |-> p, to |-> r.to])
              /\ Joint(text, b, [from |-> p, to |-> r.to])
              /\ \A i \in r.from..r.to : text[i] \notin White => i <= b.to \/ p <= i
  OBVIOUS
<1>11. Whole(text, b) /\ b.to - b.from <= BlockCharacters - 1 /\ b.from = r.from /\ text' = text
  OBVIOUS
<1> HIDE DEF m, k, r, tail
<1>6. \A n \in DOMAIN blocks' : Whole(text, blocks'[n]) /\ blocks'[n].to - blocks'[n].from <= BlockCharacters - 1
  BY <1>1, <1>2, <1>3, <1>5, <1>11
<1>7. ASSUME NEW n \in 1..(Len(blocks') - 1)
      PROVE  Joint(text, blocks'[n], blocks'[n + 1])
  <2>1. n \in 1..m /\ (n = m \/ (n \in 1..(m - 1) /\ n + 1 \in 1..m))
    BY <1>1, <1>2
  <2>2. CASE n = m
    <3>1. Joint(text, blocks[m], r)
      BY <1>1, <1>5, <2>1
    <3>2. Joint(text, blocks[m], b)
      BY <1>11, <3>1 DEF Joint
    <3> QED BY <1>2, <2>1, <2>2, <3>2
  <2>3. CASE n \in 1..(m - 1) /\ n + 1 \in 1..m
    BY <1>2, <1>5, <2>1, <2>3
  <2> QED BY <2>1, <2>2, <2>3
<1>8. CASE b = r /\ todo' = tail
  <2>1. todo' \in Seq(Ranges(text)) /\ DOMAIN todo' = 1..(k - 1) /\ \A n \in 1..(k - 1) : todo'[n] = todo[n + 1]
    BY <1>4, <1>8
  <2>2. \A n \in DOMAIN todo' : Whole(text, todo'[n])
    BY <1>1, <1>4, <1>5, <2>1
  <2>3. \A n \in 1..(Len(todo') - 1) : todo'[n].to + 1 < todo'[n + 1].from
    <3> SUFFICES ASSUME NEW n \in 1..(Len(todo') - 1) PROVE todo'[n].to + 1 < todo'[n + 1].from
      OBVIOUS
    <3>1. n \in 1..(k - 1) /\ n + 1 \in 1..(k - 1) /\ Len(todo') = k - 1
      BY <1>1, <1>4, <1>8
    <3>2. n + 1 \in 1..(k - 1) /\ todo[n + 1].to + 1 < todo[(n + 1) + 1].from
      BY <1>5, <3>1
    <3> QED BY <2>1, <3>1, <3>2
  <2>4. todo' # <<>> => Joint(text, b, todo'[1])
    <3> SUFFICES ASSUME todo' # <<>> PROVE Joint(text, b, todo'[1])
      OBVIOUS
    <3>1. 1 \in 1..(k - 1)
      <4>1. Len(tail) # 0
        BY <1>4, <1>8
      <4> QED BY <1>1, <1>4, <4>1
    <3>2. todo'[1] = todo[2] /\ todo[1].to + 1 < todo[2].from
      <4>1. todo'[1] = todo[1 + 1] /\ todo[1].to + 1 < todo[1 + 1].from
        BY <1>5, <2>1, <3>1
      <4> QED BY <4>1
    <3>3. todo[1].to \in Int /\ todo[2].from \in Int
      <4>1. 1 \in 1..k /\ 1 + 1 \in 1..k
        BY <1>1, <1>4, <3>1
      <4> QED BY <1>5, <4>1
    <3> QED BY <1>1, <1>8, <3>2, <3>3 DEF Joint
  <2>5. ASSUME NEW i \in Inks(text)
        PROVE  (\E n \in DOMAIN blocks' : Within(i, blocks'[n])) \/ \E n \in DOMAIN todo' : Within(i, todo'[n])
    <3>1. CASE \E n \in 1..m : Within(i, blocks[n])
      <4>1. \A n \in 1..m : n \in 1..(m + 1)
        BY <1>1
      <4> QED BY <1>2, <3>1, <4>1
    <3>2. CASE \E n \in 1..k : Within(i, todo[n])
      <4>1. PICK n \in 1..k : Within(i, todo[n])
        BY <3>2
      <4>2. CASE n = 1
        <5>1. Within(i, blocks'[m + 1])
          BY <1>1, <1>2, <1>8, <4>1, <4>2
        <5>2. m + 1 \in DOMAIN blocks'
          BY <1>1, <1>2
        <5> QED BY <5>1, <5>2
      <4>3. CASE n # 1
        <5>1. n - 1 \in 1..(k - 1) /\ (n - 1) + 1 = n
          BY <1>1, <4>3
        <5>2. Within(i, todo'[n - 1]) /\ n - 1 \in DOMAIN todo'
          BY <2>1, <4>1, <5>1
        <5> QED BY <5>2
      <4> QED BY <4>2, <4>3
    <3> QED BY <1>5, <3>1, <3>2
  <2>6. blocks'[Len(blocks')] = b
    BY <1>2
  <2> QED BY <1>2, <1>5, <1>6, <1>7, <1>11, <2>1, <2>2, <2>3, <2>4, <2>5, <2>6 DEF SplitInv
<1>9. ASSUME NEW p \in r.from..r.to,
             todo' = <<[from |-> p, to |-> r.to]>> \o tail,
             Whole(text, [from |-> p, to |-> r.to]), Joint(text, b, [from |-> p, to |-> r.to]),
             \A i \in r.from..r.to : text[i] \notin White => i <= b.to \/ p <= i
      PROVE  SplitInv'
  <2> DEFINE rest == [from |-> p, to |-> r.to]
  <2>1. rest \in Ranges(text)
    BY <1>9 DEF Whole
  <2>2. /\ todo' \in Seq(Ranges(text)) /\ Len(todo') = k /\ DOMAIN todo' = 1..k
        /\ todo'[1] = rest /\ \A n \in 2..k : todo'[n] = todo[n]
    <3>1. <<rest>> \in Seq(Ranges(text)) /\ Len(<<rest>>) = 1
      BY <2>1
    <3> DEFINE one == <<rest>>
    <3>2. todo' = one \o tail /\ one[1] = rest
      BY <1>9
    <3>3. one \in Seq(Ranges(text)) /\ Len(one) = 1
      BY <3>1
    <3> HIDE DEF rest, one
    <3>4. /\ one \o tail \in Seq(Ranges(text)) /\ Len(one \o tail) = 1 + (k - 1)
          /\ \A n \in 1..(1 + (k - 1)) : (one \o tail)[n] = IF n <= 1 THEN one[n] ELSE tail[n - 1]
      <4>1. /\ one \o tail \in Seq(Ranges(text)) /\ Len(one \o tail) = Len(one) + Len(tail)
            /\ \A n \in 1..(Len(one) + Len(tail)) : (one \o tail)[n] = IF n <= Len(one) THEN one[n] ELSE tail[n - Len(one)]
        BY <1>4, <3>3, ConcatProperties
      <4> QED BY <1>4, <3>3, <4>1
    <3>5. 1 + (k - 1) = k
      BY <1>1
    <3>6. ASSUME NEW n \in 2..k PROVE todo'[n] = todo[n]
      <4>1. n \in 1..k /\ ~(n <= 1) /\ n - 1 \in 1..(k - 1) /\ (n - 1) + 1 = n
        BY <1>1
      <4>2. todo'[n] = tail[n - 1]
        BY <3>2, <3>4, <3>5, <4>1
      <4>3. tail[n - 1] = todo[(n - 1) + 1]
        BY <1>4, <4>1
      <4> QED BY <4>1, <4>2, <4>3
    <3>7. todo'[1] = rest
      <4>1. 1 \in 1..(1 + (k - 1)) /\ 1 <= 1
        BY <1>1
      <4> QED BY <3>2, <3>4, <4>1
    <3>8. todo' \in Seq(Ranges(text)) /\ Len(todo') = k
      BY <3>2, <3>4, <3>5
    <3>9. DOMAIN todo' = 1..k
      BY <3>8
    <3> QED BY <3>6, <3>7, <3>8, <3>9 DEF rest
  <2>3. \A n \in 1..k : n = 1 \/ n \in 2..k
    BY <1>1
  <2>4. \A n \in DOMAIN todo' : Whole(text, todo'[n])
    <3> SUFFICES ASSUME NEW n \in 1..k PROVE Whole(text, todo'[n])
      BY <2>2
    <3>1. CASE n = 1
      BY <1>9, <2>2, <3>1
    <3>2. CASE n \in 2..k
      BY <1>1, <1>5, <2>2, <3>2
    <3> QED BY <2>3, <3>1, <3>2
  <2>5. ASSUME NEW n \in 1..(Len(todo') - 1)
        PROVE  todo'[n].to + 1 < todo'[n + 1].from
    <3>1. n \in 1..(k - 1) /\ n + 1 \in 2..k /\ n \in 1..k
      BY <1>1, <2>2
    <3>2. todo[n].to + 1 < todo[n + 1].from
      BY <1>5, <3>1
    <3>3. todo'[n].to = todo[n].to
      <4>1. CASE n = 1
        BY <1>1, <2>2, <4>1
      <4>2. CASE n \in 2..k
        BY <2>2, <4>2
      <4> QED BY <2>3, <3>1, <4>1, <4>2
    <3> QED BY <2>2, <3>1, <3>2, <3>3
  <2>6. Joint(text, b, todo'[1])
    BY <1>9, <2>2
  <2>7. ASSUME NEW i \in Inks(text)
        PROVE  (\E n \in DOMAIN blocks' : Within(i, blocks'[n])) \/ \E n \in DOMAIN todo' : Within(i, todo'[n])
    <3>1. CASE \E n \in 1..m : Within(i, blocks[n])
      <4>1. \A n \in 1..m : n \in 1..(m + 1)
        BY <1>1
      <4> QED BY <1>2, <3>1, <4>1
    <3>2. CASE \E n \in 1..k : Within(i, todo[n])
      <4>1. PICK n \in 1..k : Within(i, todo[n])
        BY <3>2
      <4>2. CASE n = 1
        <5>6. r.from <= i /\ i <= r.to
          BY <1>1, <4>1, <4>2 DEF Within
        <5>7. i \in 1..Len(text) /\ text[i] \notin White
          BY <1>5, InkFacts
        <5>8. r.from \in Int /\ r.to \in Int
          BY <1>1, <1>5
        <5>1. r.from <= i /\ i <= r.to /\ i \in Int /\ text[i] \notin White /\ r.from \in Int /\ r.to \in Int
          BY <5>6, <5>7, <5>8
        <5>2. i \in r.from..r.to
          BY <5>1
        <5>3. i <= b.to \/ p <= i
          BY <1>9, <5>1, <5>2
        <5>4. Within(i, blocks'[m + 1]) \/ Within(i, todo'[1])
          BY <1>2, <1>11, <2>2, <5>1, <5>3 DEF Within
        <5>5. m + 1 \in DOMAIN blocks' /\ 1 \in DOMAIN todo'
          BY <1>1, <1>2, <2>2
        <5> QED BY <5>4, <5>5
      <4>3. CASE n \in 2..k
        BY <2>2, <4>1, <4>3
      <4> QED BY <2>3, <4>2, <4>3
    <3> QED BY <1>5, <3>1, <3>2
  <2>8. blocks'[Len(blocks')] = b
    BY <1>2
  <2> QED BY <1>2, <1>5, <1>6, <1>7, <1>11, <2>2, <2>4, <2>5, <2>6, <2>7, <2>8 DEF SplitInv
<1> QED
  BY <1>8, <1>9, <1>10

-----------------------------------------------------------------------------
(* What the conversions make of a text is a text.                            *)
LEMMA DecodedType ==
  ASSUME NEW s \in Seq(Characters)
  PROVE  Decoded(s) \in Seq(Characters)
<1> DEFINE q == [i \in DOMAIN s |-> IF s[i] = "nul" THEN <<>> ELSE <<s[i]>>]
<1>1. q \in Seq(Seq(Characters))
  <2>1. \A i \in 1..Len(s) : q[i] \in Seq(Characters)
    OBVIOUS
  <2>2. q = [i \in 1..Len(s) |-> q[i]]
    OBVIOUS
  <2> HIDE DEF q
  <2> QED BY <2>1, <2>2
<1> HIDE DEF q
<1>2. FlattenSeq(q) \in Seq(Characters)
  BY <1>1, FlattenFacts
<1> QED
  BY <1>2 DEF Decoded, q

LEMMA CellType ==
  ASSUME NEW s \in Seq(Characters)
  PROVE  Cell(s) \in Seq(Characters)
<1> DEFINE written(c) == CASE c = "bar" -> <<"escape", "bar">>
                           [] c = "nl"  -> <<"sp">>
                           [] OTHER     -> <<c>>
           q == [i \in DOMAIN s |-> written(s[i])]
<1>1. \A c \in Characters : written(c) \in Seq(Characters)
  <2> SUFFICES ASSUME NEW c \in Characters PROVE written(c) \in Seq(Characters)
    OBVIOUS
  <2>1. "escape" \in Characters /\ "bar" \in Characters /\ "sp" \in Characters
    BY DEF Characters
  <2>2. <<"escape", "bar">> \in Seq(Characters) /\ <<"sp">> \in Seq(Characters) /\ <<c>> \in Seq(Characters)
    BY <2>1
  <2> QED BY <2>2
<1> HIDE DEF written
<1>2. q \in Seq(Seq(Characters))
  <2>1. \A i \in 1..Len(s) : q[i] \in Seq(Characters)
    BY <1>1
  <2>2. q = [i \in 1..Len(s) |-> q[i]]
    OBVIOUS
  <2> HIDE DEF q
  <2> QED BY <2>1, <2>2
<1>3. FlattenSeq(q) \in Seq(Characters)
  <2> HIDE DEF q
  <2> QED BY <1>2, FlattenFacts
<1> QED
  BY <1>3 DEF Cell, written

LEMMA JoinType ==
  ASSUME NEW parts \in Seq(Seq(Characters)), NEW separator \in Seq(Characters)
  PROVE  Join(parts, separator) \in Seq(Characters)
<1> DEFINE q == [i \in DOMAIN parts |-> IF i = 1 THEN parts[i] ELSE separator \o parts[i]]
<1>1. \A i \in 1..Len(parts) : parts[i] \in Seq(Characters)
  OBVIOUS
<1>2. \A i \in 1..Len(parts) : separator \o parts[i] \in Seq(Characters)
  BY <1>1, ConcatProperties
<1>3. q \in Seq(Seq(Characters))
  <2>1. \A i \in 1..Len(parts) : q[i] \in Seq(Characters)
    BY <1>1, <1>2
  <2>2. q = [i \in 1..Len(parts) |-> q[i]]
    OBVIOUS
  <2> HIDE DEF q
  <2> QED BY <2>1, <2>2
<1> HIDE DEF q
<1>4. FlattenSeq(q) \in Seq(Characters)
  BY <1>3, FlattenFacts
<1> QED
  BY <1>4 DEF Join, q

LEMMA RowLineType ==
  ASSUME NEW cells \in Seq(Seq(Characters))
  PROVE  RowLine(cells) \in Seq(Characters)
<1>1. "bar" \in Characters /\ "sp" \in Characters
  BY DEF Characters
<1>2. <<"bar", "sp">> \in Seq(Characters) /\ <<"sp", "bar", "sp">> \in Seq(Characters) /\ <<"sp", "bar">> \in Seq(Characters)
  BY <1>1
<1>3. Join(cells, <<"sp", "bar", "sp">>) \in Seq(Characters)
  BY <1>2, JoinType
<1>4. <<"bar", "sp">> \o Join(cells, <<"sp", "bar", "sp">>) \in Seq(Characters)
  BY <1>2, <1>3, ConcatProperties
<1> QED
  BY <1>2, <1>4, ConcatProperties DEF RowLine

LEMMA MarkdownType ==
  ASSUME rows \in Seq(Seq(Seq(Characters)))
  PROVE  Markdown \in Seq(Characters)
<1> DEFINE cells(i) == [j \in DOMAIN rows[i] |-> Cell(Decoded(rows[i][j]))]
           line(i) == RowLine(cells(i))
<1>1. ASSUME NEW i \in 1..Len(rows)
      PROVE  line(i) \in Seq(Characters) /\ Len(rows[i]) \in Nat
  <2>1. rows[i] \in Seq(Seq(Characters))
    OBVIOUS
  <2>2. \A j \in 1..Len(rows[i]) : rows[i][j] \in Seq(Characters)
    BY <2>1
  <2>3. \A j \in 1..Len(rows[i]) : Cell(Decoded(rows[i][j])) \in Seq(Characters)
    BY <2>2, DecodedType, CellType
  <2>4. cells(i) \in Seq(Seq(Characters))
    <3>1. Len(rows[i]) \in Nat /\ DOMAIN rows[i] = 1..Len(rows[i])
      BY <2>1
    <3> QED BY <2>3, <3>1
  <2> QED BY <2>1, <2>4, RowLineType
<1>2. CASE rows = <<>>
  <2>1. Markdown = <<>>
    BY <1>2 DEF Markdown
  <2> QED BY <2>1
<1>3. CASE rows # <<>>
  <2>1. 1 \in 1..Len(rows) /\ Len(rows) \in Nat
    BY <1>3
  <2> DEFINE width == Max({1, Len(rows[1])})
             rule == RuleLine(rows[1])
  <2>2. width \in Nat
    <3>1. Len(rows[1]) \in Nat
      BY <1>1, <2>1
    <3>2. width = IF 1 >= Len(rows[1]) THEN 1 ELSE Len(rows[1])
      <4>1. 1 \in Int /\ Len(rows[1]) \in Int
        BY <3>1
      <4> QED BY <4>1, TwoExtremes
    <3> HIDE DEF width
    <3> QED BY <3>1, <3>2
  <2>3. rule \in Seq(Characters)
    <3>1. <<"word">> \in Seq(Characters)
      BY DEF Characters
    <3>2. [i \in 1..width |-> <<"word">>] \in Seq(Seq(Characters))
      <4> HIDE DEF width
      <4> QED BY <2>2, <3>1
    <3> QED BY <3>2, RowLineType DEF RuleLine
  <2> DEFINE top == <<line(1), rule>>
             others == [i \in 1..(Len(rows) - 1) |-> line(i + 1)]
  <2>4. top \in Seq(Seq(Characters))
    <3>1. line(1) \in Seq(Characters)
      BY <1>1, <2>1
    <3> HIDE DEF line, rule
    <3> QED BY <2>3, <3>1
  <2>5. others \in Seq(Seq(Characters))
    <3>1. \A i \in 1..(Len(rows) - 1) : i + 1 \in 1..Len(rows)
      BY <2>1
    <3>2. \A i \in 1..(Len(rows) - 1) : line(i + 1) \in Seq(Characters)
      BY <1>1, <3>1
    <3>3. Len(rows) - 1 \in Nat
      BY <2>1
    <3> HIDE DEF line
    <3> QED BY <3>2, <3>3
  <2>6. top \o others \in Seq(Seq(Characters))
    <3> HIDE DEF top, others
    <3> QED BY <2>4, <2>5, ConcatProperties
  <2>7. <<"nl">> \in Seq(Characters)
    BY DEF Characters
  <2>8. Markdown = Join(top \o others, <<"nl">>)
    BY <1>3 DEF Markdown
  <2> HIDE DEF top, others
  <2> QED BY <2>6, <2>7, <2>8, JoinType
<1> QED
  BY <1>2, <1>3

-----------------------------------------------------------------------------
(* Which phases belong to which extractor.                                   *)
Final == {"done", "failed", "rejected"}
PhaseInv ==
  /\ media \in MediaTypes
  /\ media \in Plain      => phase \in {"start", "split"} \cup Final
  /\ media \in Structured => phase \in {"start", "alias", "open", "convert", "unload", "unalias", "pages", "items"} \cup Final
  /\ media = "pdf"        => phase \in {"start", "rasterize", "scale", "recognize"} \cup Final
  /\ media = "unsupported" => phase \in {"start"} \cup Final

TextInv ==
  media \in Plain =>
    /\ rows \in Seq(Seq(Seq(Characters)))
    /\ phase = "start" => blocks = <<>> /\ (media = "plain" => text \in Seq(Characters))
    /\ phase \in {"split", "done", "rejected"} => SplitInv
    /\ phase = "done" => todo = <<>>

LEMMA MediaApart ==
  /\ Plain \cap Structured = {}
  /\ "pdf" \notin Plain /\ "pdf" \notin Structured
  /\ "unsupported" \notin Plain /\ "unsupported" \notin Structured
BY DEF Plain, Structured

LEMMA FinishPhase ==
  ASSUME NEW value, Finish(value)
  PROVE  content' = value /\ phase' = (IF Accepted(value) THEN "done" ELSE "rejected")
BY DEF Finish

LEMMA PhaseInit == Init => PhaseInv
BY DEF Init, PhaseInv, MediaTypes, Plain, Structured, Final

LEMMA PhaseStep ==
  ASSUME PhaseInv, [Next]_vars
  PROVE  PhaseInv'
<1> USE DEF PhaseInv, Final
<1>1. SUFFICES ASSUME Next PROVE PhaseInv'
  BY DEF vars, contentVars
<1>2. CASE RefuseMediaType
  BY <1>2 DEF RefuseMediaType, Fail, Plain, Structured
<1>3. CASE TextNext
  <2>1. CASE ReadText
    <3>1. media \in Plain /\ media' = media /\ phase' \in {"split", "failed"}
      BY <2>1 DEF ReadText, Fail
    <3> QED BY <3>1, MediaApart
  <2>2. CASE SplitBlock
    BY <2>2 DEF SplitBlock, contentVars
  <2>3. CASE FinishText
    <3>1. media' = media /\ phase' \in {"done", "rejected"}
      BY <2>3 DEF FinishText, Finish
    <3> QED BY <3>1
  <2> QED BY <1>3, <2>1, <2>2, <2>3 DEF TextNext
<1>4. CASE OfficeNext
  <2>1. CASE Preflight
    <3>1. media \in Structured /\ media' = media /\ phase' \in {"alias", "failed"}
      BY <2>1 DEF Preflight, Fail
    <3> QED BY <3>1, MediaApart
  <2>2. CASE MakeDirectory
    <3>1. phase = "alias" /\ media' = media /\ phase' \in {"alias", "failed"}
      BY <2>2 DEF MakeDirectory, Fail
    <3> QED BY <3>1
  <2>3. CASE LinkAlias
    <3>1. phase = "alias" /\ media' = media /\ phase' \in {"open", "failed"}
      BY <2>3 DEF LinkAlias, Fail
    <3>2. media \in Structured
      BY <3>1 DEF MediaTypes
    <3> QED BY <3>1, <3>2, MediaApart
  <2>4. CASE OpenBackend
    <3>1. phase = "open" /\ media' = media /\ phase' \in {"convert", "unalias"}
      BY <2>4 DEF OpenBackend
    <3>2. media \in Structured
      BY <3>1 DEF MediaTypes
    <3> QED BY <3>1, <3>2, MediaApart
  <2>5. CASE Convert
    <3>1. phase = "convert" /\ media' = media /\ phase' = "unload"
      BY <2>5 DEF Convert
    <3>2. media \in Structured
      BY <3>1 DEF MediaTypes
    <3> QED BY <3>1, <3>2, MediaApart
  <2>6. CASE Unload
    <3>1. phase = "unload" /\ media' = media /\ phase' = "unalias"
      BY <2>6 DEF Unload
    <3>2. media \in Structured
      BY <3>1 DEF MediaTypes
    <3> QED BY <3>1, <3>2, MediaApart
  <2>7. CASE CloseAlias
    <3>1. phase = "unalias" /\ media' = media /\ phase' \in {"pages", "failed"}
      BY <2>7 DEF CloseAlias, Fail
    <3>2. media \in Structured
      BY <3>1 DEF MediaTypes
    <3> QED BY <3>1, <3>2, MediaApart
  <2>8. CASE MapPages
    <3>1. phase = "pages" /\ media' = media /\ phase' \in {"items", "failed"}
      BY <2>8 DEF MapPages, Fail
    <3>2. media \in Structured
      BY <3>1 DEF MediaTypes
    <3> QED BY <3>1, <3>2, MediaApart
  <2>9. CASE MapItem
    <3>1. phase = "items" /\ media' = media /\ phase' \in {"items", "failed"}
      BY <2>9 DEF MapItem, Fail
    <3> QED BY <3>1
  <2>10. CASE FinishMapping
    <3>1. media' = media /\ phase' \in {"done", "rejected"}
      BY <2>10 DEF FinishMapping, Finish
    <3> QED BY <3>1
  <2> QED BY <1>4, <2>1, <2>2, <2>3, <2>4, <2>5, <2>6, <2>7, <2>8, <2>9, <2>10 DEF OfficeNext
<1>5. CASE PageNext
  <2>1. CASE ScanPage
    <3>1. media = "pdf" /\ media' = media /\ phase' \in {"done", "rejected", "rasterize"}
      BY <2>1 DEF ScanPage, Finish
    <3> QED BY <3>1, MediaApart
  <2>2. CASE RasterizePage
    <3>1. phase = "rasterize" /\ media' = media /\ phase' \in {"recognize", "scale"}
      BY <2>2 DEF RasterizePage
    <3>2. media = "pdf"
      BY <3>1 DEF MediaTypes
    <3> QED BY <3>1, <3>2, MediaApart
  <2>3. CASE ScalePage
    <3>1. phase = "scale" /\ media' = media /\ phase' \in {"recognize", "scale"}
      BY <2>3 DEF ScalePage
    <3>2. media = "pdf"
      BY <3>1 DEF MediaTypes
    <3> QED BY <3>1, <3>2, MediaApart
  <2>4. CASE RecognizePage
    <3>1. media' = media /\ phase' \in {"done", "rejected"}
      BY <2>4 DEF RecognizePage, Finish
    <3> QED BY <3>1
  <2> QED BY <1>5, <2>1, <2>2, <2>3, <2>4 DEF PageNext
<1> QED
  BY <1>1, <1>2, <1>3, <1>4, <1>5 DEF Next

-----------------------------------------------------------------------------
(* The text extractor.                                                       *)
LEMMA TextInvInit == Init => TextInv
<1> SUFFICES ASSUME Init, media \in Plain PROVE TextInv
  BY DEF TextInv
<1>1. phase = "start" /\ TextInit
  BY DEF Init
<1>2. blocks = <<>>
  BY <1>1 DEF TextInit
<1>3. CASE media = "plain" /\ rows = <<>> /\ text \in Texts
  <2>1. text \in Seq(Characters)
    BY <1>3, TextAssumption
  <2>2. rows \in Seq(Seq(Seq(Characters)))
    BY <1>3
  <2> QED BY <1>1, <1>2, <2>1, <2>2 DEF TextInv
<1>4. CASE media = "csv" /\ rows \in Tables
  BY <1>1, <1>2, <1>4, TextAssumption DEF TextInv
<1> QED
  BY <1>1, <1>3, <1>4 DEF TextInit

LEMMA ReadTextStep ==
  ASSUME TextInv, ReadText
  PROVE  TextInv'
<1>1. media \in Plain /\ phase = "start" /\ media' = media /\ rows' = rows /\ blocks' = blocks
  BY DEF ReadText
<1>2. rows \in Seq(Seq(Seq(Characters))) /\ blocks = <<>> /\ (media = "plain" => text \in Seq(Characters))
  BY <1>1 DEF TextInv
<1> DEFINE result == IF media = "csv" THEN Markdown ELSE Decoded(text)
<1>3. result \in Seq(Characters)
  <2>1. CASE media = "csv"
    BY <1>2, <2>1, MarkdownType
  <2>2. CASE media # "csv"
    <3>1. text \in Seq(Characters)
      BY <1>1, <1>2, <2>2 DEF Plain
    <3> QED BY <2>2, <3>1, DecodedType
  <2> QED BY <2>1, <2>2
<1>4. \/ text' = result /\ todo' = Paragraphs(result) /\ phase' = "split"
      \/ phase' = "failed"
  BY DEF ReadText, Fail
<1> HIDE DEF result
<1>5. CASE text' = result /\ todo' = Paragraphs(result) /\ phase' = "split"
  <2>1. Len(text') \in Nat /\ todo' = Paragraphs(text') /\ blocks' = <<>>
    BY <1>1, <1>2, <1>3, <1>5
  <2>2. SplitInv'
    BY <2>1, SplitStarts
  <2> QED BY <1>1, <1>2, <1>5, <2>2 DEF TextInv
<1>6. CASE phase' = "failed"
  BY <1>1, <1>2, <1>6 DEF TextInv
<1> QED
  BY <1>4, <1>5, <1>6

LEMMA SplitBlockStep ==
  ASSUME TextInv, PhaseInv, SplitBlock
  PROVE  TextInv'
<1>1. /\ phase = "split" /\ todo # <<>> /\ phase' = phase /\ media' = media /\ rows' = rows /\ text' = text
  BY DEF SplitBlock, contentVars
<1>2. media \in Plain
  BY <1>1 DEF PhaseInv, MediaTypes, Final
<1>3. SplitInv /\ rows \in Seq(Seq(Seq(Characters)))
  BY <1>1, <1>2 DEF TextInv
<1> DEFINE r == Head(todo)
<1>4. /\ Len(text) \in Nat /\ r \in Ranges(text) /\ Whole(text, r) /\ r.from \in Int /\ r.to \in Int
  <2>1. todo \in Seq(Ranges(text)) /\ Len(todo) # 0 /\ r = todo[1] /\ 1 \in DOMAIN todo
    BY <1>1, <1>3 DEF SplitInv
  <2>2. r \in Ranges(text)
    BY <2>1
  <2>3. Len(text) \in Nat /\ Whole(text, r)
    BY <1>3, <2>1 DEF SplitInv
  <2>4. r.from \in Int /\ r.to \in Int
    <3> HIDE DEF r
    <3> QED BY <2>2, <2>3 DEF Ranges
  <2> QED BY <2>2, <2>3, <2>4
<1>5. CASE r.to - r.from < BlockCharacters
  <2>1. blocks' = Append(blocks, r) /\ todo' = Tail(todo)
    BY <1>5 DEF SplitBlock
  <2>2. r.to - r.from <= BlockCharacters - 1
    BY <1>4, <1>5, TextAssumption
  <2>3. SplitInv'
    BY <1>1, <1>3, <1>4, <2>1, <2>2, SplitMoves
  <2> QED BY <1>1, <1>3, <2>3 DEF TextInv
<1>6. CASE ~(r.to - r.from < BlockCharacters)
  <2>1. /\ blocks' = blocks \o Strip(text, r.from, r.from + Cut(r) - 1)
        /\ todo' = Strip(text, r.from + Cut(r), r.to) \o Tail(todo)
    BY <1>6 DEF SplitBlock
  <2>2. PICK m, p \in r.from..r.to :
           /\ Strip(text, r.from, r.from + Cut(r) - 1) = <<[from |-> r.from, to |-> m]>>
           /\ Strip(text, r.from + Cut(r), r.to) = <<[from |-> p, to |-> r.to]>>
           /\ Whole(text, [from |-> r.from, to |-> m]) /\ Whole(text, [from |-> p, to |-> r.to])
           /\ m < p /\ m - r.from <= BlockCharacters - 1
           /\ \A i \in r.from..r.to : text[i] \notin White => i <= m \/ p <= i
           /\ m + 1 = p => Full(text, [from |-> r.from, to |-> m])
    <3> HIDE DEF r
    <3> QED BY <1>4, <1>6, SplitFacts
  <2> DEFINE b == [from |-> r.from, to |-> m]
             rest == [from |-> p, to |-> r.to]
  <2>3. b \in Ranges(text) /\ Whole(text, b) /\ b.from = r.from /\ b.to = m /\ b.to - b.from <= BlockCharacters - 1
    BY <2>2 DEF Whole
  <2>4. Joint(text, b, rest) /\ Whole(text, rest)
    BY <2>2 DEF Joint
  <2>5. blocks' = Append(blocks, b)
    <3>1. blocks' = blocks \o <<b>>
      BY <2>1, <2>2
    <3>2. blocks \in Seq(Ranges(text))
      BY <1>3 DEF SplitInv
    <3> HIDE DEF b
    <3> QED BY <2>3, <3>1, <3>2
  <2>6. todo' = <<rest>> \o Tail(todo)
    BY <2>1, <2>2
  <2>7. \A i \in r.from..r.to : text[i] \notin White => i <= b.to \/ p <= i
    BY <2>2
  <2>8. \E q \in r.from..r.to :
              /\ todo' = <<[from |-> q, to |-> r.to]>> \o Tail(todo)
              /\ Whole(text, [from |-> q, to |-> r.to])
              /\ Joint(text, b, [from |-> q, to |-> r.to])
              /\ \A i \in r.from..r.to : text[i] \notin White => i <= b.to \/ q <= i
    <3> HIDE DEF b, r
    <3>1. p \in r.from..r.to
      OBVIOUS
    <3> QED BY <2>4, <2>6, <2>7, <3>1
  <2>9. SplitInv'
    <3> HIDE DEF b
    <3> QED BY <1>1, <1>3, <2>3, <2>5, <2>8, SplitMoves
  <2> QED BY <1>1, <1>3, <2>9 DEF TextInv
<1> QED
  BY <1>5, <1>6

LEMMA TextStep ==
  ASSUME PhaseInv, TextInv, [Next]_vars
  PROVE  TextInv'
<1>1. ASSUME media' = media, UNCHANGED textVars, media \in Plain => phase' = "failed" \/ phase' = phase
      PROVE  TextInv'
  <2>1. rows' = rows /\ text' = text /\ todo' = todo /\ blocks' = blocks
    BY <1>1 DEF textVars
  <2>2. SplitInv => SplitInv'
    BY <2>1 DEF SplitInv
  <2> QED BY <1>1, <2>1, <2>2 DEF TextInv
<1>2. CASE UNCHANGED vars
  <2>1. media' = media /\ phase' = phase /\ UNCHANGED textVars
    BY <1>2 DEF vars, contentVars
  <2> QED BY <1>1, <2>1
<1>3. CASE RefuseMediaType
  <2>1. media' = media /\ phase' = "failed" /\ UNCHANGED textVars
    BY <1>3 DEF RefuseMediaType, Fail
  <2> QED BY <1>1, <2>1
<1>4. CASE TextNext
  <2>1. CASE ReadText
    BY <2>1, ReadTextStep
  <2>2. CASE SplitBlock
    BY <2>2, SplitBlockStep
  <2>3. CASE FinishText
    <3>1. phase = "split" /\ todo = <<>> /\ media' = media /\ phase' \in {"done", "rejected"}
      BY <2>3 DEF FinishText, Finish
    <3>2. rows' = rows /\ text' = text /\ todo' = todo /\ blocks' = blocks
      BY <2>3 DEF FinishText, textVars
    <3>3. SplitInv => SplitInv'
      BY <3>2 DEF SplitInv
    <3> QED BY <3>1, <3>2, <3>3 DEF TextInv
  <2> QED BY <1>4, <2>1, <2>2, <2>3 DEF TextNext
<1>5. CASE OfficeNext /\ UNCHANGED textVars
  <2>1. phase \in {"start", "alias", "open", "convert", "unload", "unalias", "pages", "items"}
        /\ (phase = "start" => media \in Structured) /\ media' = media
    BY <1>5 DEF OfficeNext, Preflight, MakeDirectory, LinkAlias, OpenBackend, Convert, Unload, CloseAlias,
                MapPages, MapItem, FinishMapping
  <2>2. media \notin Plain
    BY <2>1, MediaApart DEF PhaseInv, Final
  <2> QED BY <1>1, <1>5, <2>1, <2>2
<1>6. CASE PageNext /\ UNCHANGED textVars
  <2>1. phase \in {"start", "rasterize", "scale", "recognize"}
        /\ (phase = "start" => media = "pdf") /\ media' = media
    BY <1>6 DEF PageNext, ScanPage, RasterizePage, ScalePage, RecognizePage
  <2>2. media \notin Plain
    BY <2>1, MediaApart DEF PhaseInv, Final
  <2> QED BY <1>1, <1>6, <2>1, <2>2
<1> QED
  BY <1>2, <1>3, <1>4, <1>5, <1>6 DEF Next

LEMMA SplitKeepsTheText ==
  ASSUME PhaseInv, TextInv
  PROVE  BlocksKeepTheText
<1> SUFFICES ASSUME phase = "done", media \in Plain
             PROVE  BlocksKeepTheText
  BY DEF BlocksKeepTheText
<1>1. SplitInv /\ todo = <<>>
  BY DEF TextInv
<1> DEFINE m == Len(blocks)
<1>2. m \in Nat /\ DOMAIN blocks = 1..m /\ Len(text) \in Nat
  BY <1>1 DEF SplitInv
<1>3. ASSUME NEW n \in 1..m
      PROVE  /\ Whole(text, blocks[n]) /\ blocks[n].to - blocks[n].from <= BlockCharacters - 1
             /\ blocks[n].to \in Int /\ blocks[n].from \in Int
  <2>1. Whole(text, blocks[n]) /\ blocks[n].to - blocks[n].from <= BlockCharacters - 1
    BY <1>1, <1>2 DEF SplitInv
  <2>2. blocks[n] \in Ranges(text)
    BY <2>1 DEF Whole
  <2> QED BY <2>1, <2>2 DEF Ranges
<1>4. \A n \in 1..(m - 1) : Joint(text, blocks[n], blocks[n + 1])
  BY <1>1 DEF SplitInv
<1> HIDE DEF m
<1>5. ASSUME NEW n \in 1..m
      PROVE  /\ blocks[n].to - blocks[n].from \in 0..(BlockCharacters - 1)
             /\ {text[blocks[n].from], text[blocks[n].to]} \cap White = {}
             /\ \A i, j \in blocks[n].from..blocks[n].to : i < j => ~Parted(text, i, j)
             /\ n > 1 => blocks[n - 1].to < blocks[n].from
  <2>1. /\ blocks[n].from <= blocks[n].to
        /\ text[blocks[n].from] \notin White /\ text[blocks[n].to] \notin White
        /\ \A i, j \in blocks[n].from..blocks[n].to : i < j => ~Parted(text, i, j)
    BY <1>3 DEF Whole
  <2>2. blocks[n].to - blocks[n].from \in 0..(BlockCharacters - 1)
    BY <1>3, <2>1, TextAssumption
  <2>3. n > 1 => blocks[n - 1].to < blocks[n].from
    <3> SUFFICES ASSUME n > 1 PROVE blocks[n - 1].to < blocks[n].from
      OBVIOUS
    <3>1. n - 1 \in 1..(m - 1) /\ (n - 1) + 1 = n
      BY <1>2
    <3>2. Joint(text, blocks[n - 1], blocks[n])
      BY <1>4, <3>1
    <3> QED BY <3>2 DEF Joint
  <2> QED BY <2>1, <2>2, <2>3
<1>6. \A i \in Inked(text, 1, Len(text)) : \E n \in 1..m : Within(i, blocks[n])
  <2>1. DOMAIN todo = {}
    BY <1>1
  <2> QED BY <1>1, <1>2, <2>1 DEF SplitInv, Inks
<1>7. ASSUME NEW n \in 1..(m - 1), blocks[n].to + 1 = blocks[n + 1].from
      PROVE  /\ blocks[n].to - blocks[n].from = BlockCharacters - 1
             /\ \A i \in (blocks[n].from + BlockCharacters \div 2)..blocks[n].to : text[i] \notin {"nl", "sp"}
  BY <1>4, <1>7 DEF Joint, Full
<1> QED
  BY <1>2, <1>5, <1>6, <1>7 DEF BlocksKeepTheText, m

(* The text extractor's invariant: of the phase and the media type, and of   *)
(* what is split and still to be split.                                      *)
THEOREM SplittingInductive == Spec => [](PhaseInv /\ TextInv)
<1>1. Init => PhaseInv /\ TextInv
  BY PhaseInit, TextInvInit
<1>2. PhaseInv /\ TextInv /\ [Next]_vars => (PhaseInv /\ TextInv)'
  BY PhaseStep, TextStep
<1> QED
  BY <1>1, <1>2, PTL DEF Spec

-----------------------------------------------------------------------------
(* The mapper of the Office extractor: what it makes of an item, wherever    *)
(* the parser puts it, has an area on its page.                              *)
Proper(r) == r \in Rects /\ 0 <= r.x0 /\ r.x0 < r.x1 /\ 0 <= r.y0 /\ r.y0 < r.y1

LEMMA ProperRect ==
  ASSUME NEW a \in Int, NEW b \in Int, NEW c \in Int, NEW d \in Int, 0 <= a, a < c, 0 <= b, b < d
  PROVE  Proper(Rect(a, b, c, d))
BY DEF Proper, Rect, Rects

LEMMA LineIsProper ==
  ASSUME NEW y \in Nat
  PROVE  Proper(Line(y))
<1>1. y * 2 \in Int /\ (y + 1) * 2 \in Int /\ 0 <= y * 2 /\ y * 2 < (y + 1) * 2
  OBVIOUS
<1> QED
  BY <1>1, ProperRect DEF Line, Unit

LEMMA SpanFacts ==
  ASSUME NEW a \in Int, NEW b \in Int
  PROVE  Span(a, b)[1] \in Int /\ Span(a, b)[2] \in Int /\ 0 <= Span(a, b)[1] /\ Span(a, b)[1] < Span(a, b)[2]
<1> DEFINE low == Larger(0, Smaller(a, b))
           high == Larger(low + 1, Larger(a, b))
<1>1. low \in Int /\ 0 <= low
  BY DEF Larger, Smaller
<1>2. Larger(a, b) \in Int
  BY DEF Larger
<1> HIDE DEF low
<1>3. high \in Int /\ low < high
  BY <1>1, <1>2 DEF Larger
<1>4. Span(a, b)[1] = low /\ Span(a, b)[2] = high
  BY DEF Span, low
<1> QED
  BY <1>1, <1>3, <1>4

LEMMA ThreeMax ==
  ASSUME NEW a \in Int, NEW b \in Int, NEW c \in Int
  PROVE  Max({a, b, c}) \in Int
<1>1. IsFiniteSet({a}) /\ {a, b} = {a} \cup {b} /\ {a, b, c} = {a, b} \cup {c}
  BY FS_Singleton
<1>2. IsFiniteSet({a, b})
  BY <1>1, FS_AddElement
<1>3. IsFiniteSet({a, b, c}) /\ {a, b, c} \subseteq Int /\ {a, b, c} # {}
  BY <1>1, <1>2, FS_AddElement
<1> QED
  BY <1>3, Extremes

Heights(D) == \A n \in DOMAIN D : D[n].height \in Int

LEMMA PlaceFacts ==
  ASSUME NEW item \in Items, Heights(drafts), item.place # <<>>
  PROVE  Proper(Place(item))
<1> DEFINE place  == item.place[1]
           box    == place.box
           height == IF Container(item) \in DOMAIN drafts THEN drafts[Container(item)].height
                     ELSE Max({Unit, box.y0, box.y1})
           top(y) == IF place.fromBottom THEN height - y ELSE y
           xs     == Span(box.x0, box.x1)
           ys     == Span(top(box.y0), top(box.y1))
           Places == [page : Int, box : [x0 : Int, y0 : Int, x1 : Int, y1 : Int], fromBottom : BOOLEAN]
<1>1. place \in Places
  <2>1. item.place \in Seq(Places)
    BY OfficeAssumption
  <2> HIDE DEF Places
  <2> QED BY <2>1
<1>2. box.x0 \in Int /\ box.x1 \in Int /\ box.y0 \in Int /\ box.y1 \in Int
  <2> HIDE DEF place
  <2> QED BY <1>1
<1>3. height \in Int
  <2>1. Max({Unit, box.y0, box.y1}) \in Int
    <3> HIDE DEF box
    <3> QED BY <1>2, ThreeMax DEF Unit
  <2>2. Container(item) \in DOMAIN drafts => drafts[Container(item)].height \in Int
    BY DEF Heights
  <2> HIDE DEF box
  <2> QED BY <2>1, <2>2
<1> HIDE DEF height, box, place
<1>4. top(box.y0) \in Int /\ top(box.y1) \in Int
  BY <1>2, <1>3
<1> HIDE DEF top
<1>5. /\ xs[1] \in Int /\ xs[2] \in Int /\ 0 <= xs[1] /\ xs[1] < xs[2]
      /\ ys[1] \in Int /\ ys[2] \in Int /\ 0 <= ys[1] /\ ys[1] < ys[2]
  BY <1>2, <1>4, SpanFacts
<1>6. Place(item) = Rect(xs[1], ys[1], xs[2], ys[2])
  BY DEF Place, xs, ys, top, height, box, place
<1> HIDE DEF xs, ys
<1> QED
  BY <1>5, <1>6, ProperRect

LEMMA ContainerIsNat ==
  ASSUME NEW item \in Items
  PROVE  Container(item) \in Nat
<1> DEFINE Places == [page : Int, box : [x0 : Int, y0 : Int, x1 : Int, y1 : Int], fromBottom : BOOLEAN]
<1>1. item.place \in Seq(Places)
  BY OfficeAssumption
<1>2. item.place # <<>> => item.place[1] \in Places
  <2> HIDE DEF Places
  <2> QED BY <1>1
<1>3. item.place # <<>> => item.place[1].page \in Int
  BY <1>2
<1> QED
  BY <1>3 DEF Container, Larger

(* Pictures: what is kept of them is the sum over a container's regions, and *)
(* of that the sum over the containers.                                      *)
LEMMA SumOfNothing ==
  ASSUME NEW w, NEW S, IsFiniteSet(S), \A x \in S : w[x] = 0
  PROVE  Total(w, S) = 0
<1> DEFINE F == {T \in SUBSET S : Total(w, T) # 0}
<1>1. SUFFICES ASSUME F # {} PROVE FALSE
  OBVIOUS
<1>2. PICK T \in F : \A U \in F : U \subseteq T => U = T
  <2>1. F \subseteq SUBSET S
    OBVIOUS
  <2> HIDE DEF F
  <2> QED BY <1>1, <2>1, SmallestSet
<1>3. IsFiniteSet(T) /\ T \in SUBSET S
  BY <1>2, FS_Subset
<1>4. Total(w, T) = IF T = {} THEN 0 ELSE w[Chosen(T)] + Total(w, T \ {Chosen(T)})
  BY <1>3, SumStep
<1>5. T # {}
  BY <1>2, <1>4
<1>6. Chosen(T) \in T /\ w[Chosen(T)] = 0
  BY <1>3, <1>5 DEF Chosen
<1>7. Total(w, T \ {Chosen(T)}) = 0
  BY <1>2, <1>6
<1> QED
  BY <1>2, <1>4, <1>5, <1>6, <1>7

Kinds   == {item.kind : item \in Items}
Regions == [id : Nat \X Kinds \X Nat, bounds : Rects, asset : Nat, own : Nat]
Sizing(regions) == [r \in DOMAIN regions |-> regions[r].asset]
Weight(D) == [n \in DOMAIN D |-> SumFunction(Sizing(D[n].regions))]
Held(D) == Total(Weight(D), DOMAIN D)

LEMMA SizingFacts ==
  ASSUME NEW regions \in Seq(Regions)
  PROVE  /\ SumFunction(Sizing(regions)) \in Nat
         /\ SumFunction(Sizing(regions)) = Total(Sizing(regions), 1..Len(regions))
         /\ \A r \in 1..Len(regions) : Sizing(regions)[r] \in Nat
<1>1. Len(regions) \in Nat /\ DOMAIN regions = 1..Len(regions) /\ DOMAIN Sizing(regions) = 1..Len(regions)
  BY DEF Sizing
<1>2. \A r \in 1..Len(regions) : Sizing(regions)[r] \in Nat
  <2>1. \A r \in 1..Len(regions) : regions[r] \in Regions
    OBVIOUS
  <2> QED BY <1>1, <2>1 DEF Sizing, Regions
<1>3. IsFiniteSet(1..Len(regions))
  BY <1>1, FS_Interval
<1>4. Total(Sizing(regions), 1..Len(regions)) \in Nat
  BY <1>2, <1>3, SumIsNat
<1> QED
  BY <1>1, <1>2, <1>4, SumOfFunction

LEMMA SizingGrows ==
  ASSUME NEW regions \in Seq(Regions), NEW region \in Regions
  PROVE  SumFunction(Sizing(Append(regions, region))) = SumFunction(Sizing(regions)) + region.asset
<1> DEFINE more == Append(regions, region)
           k == Len(regions)
           w == Sizing(more)
           v == Sizing(regions)
<1>1. /\ more \in Seq(Regions) /\ Len(more) = k + 1 /\ k \in Nat /\ more[k + 1] = region
      /\ \A r \in 1..k : more[r] = regions[r]
  BY AppendProperties
<1> HIDE DEF more
<1>2. SumFunction(w) = Total(w, 1..(k + 1)) /\ \A r \in 1..(k + 1) : w[r] \in Nat
  BY <1>1, SizingFacts
<1>3. SumFunction(v) = Total(v, 1..k) /\ SumFunction(v) \in Nat
  BY SizingFacts
<1>4. w[k + 1] = region.asset /\ \A r \in 1..k : w[r] = v[r]
  BY <1>1 DEF Sizing
<1> HIDE DEF w, v, k
<1>5. (1..(k + 1)) \ {k + 1} = 1..k /\ k + 1 \in 1..(k + 1) /\ IsFiniteSet(1..(k + 1)) /\ IsFiniteSet(1..k)
  <2>1. (1..(k + 1)) \ {k + 1} = 1..k /\ k + 1 \in 1..(k + 1)
    BY <1>1
  <2>2. IsFiniteSet(1..(k + 1)) /\ IsFiniteSet(1..k)
    <3>1. k \in Int /\ k + 1 \in Int /\ 1 \in Int
      BY <1>1
    <3> QED BY <3>1, FS_Interval
  <2> QED BY <2>1, <2>2
<1>6. Total(w, 1..(k + 1)) = w[k + 1] + Total(w, (1..(k + 1)) \ {k + 1})
  BY <1>2, <1>5, SumOfOne
<1>7. Total(w, 1..k) = Total(v, 1..k)
  BY <1>4, <1>5, SumAgrees
<1>8. Total(w, 1..(k + 1)) = region.asset + Total(v, 1..k)
  BY <1>4, <1>5, <1>6, <1>7
<1>9. Total(w, 1..(k + 1)) = Total(v, 1..k) + region.asset
  <2>1. region.asset \in Nat
    BY DEF Regions
  <2>2. Total(v, 1..k) \in Nat
    BY <1>3 DEF k
  <2> DEFINE t == Total(v, 1..k)
  <2> HIDE DEF t
  <2>3. region.asset + t = t + region.asset
    BY <2>1, <2>2 DEF t
  <2> QED BY <1>8, <2>3 DEF t
<1>10. SumFunction(v) = Total(v, 1..k) /\ SumFunction(w) = Total(w, 1..(k + 1))
  BY <1>2, <1>3 DEF k
<1> QED
  BY <1>9, <1>10 DEF more, w, v

LEMMA SizingOfNone == SumFunction(Sizing(<<>>)) = 0
<1>1. DOMAIN Sizing(<<>>) = {}
  BY DEF Sizing
<1>2. IsFiniteSet({})
  BY FS_EmptySet
<1>3. Total(Sizing(<<>>), {}) = 0
  BY <1>2, SumStep
<1> QED
  BY <1>1, <1>3, SumOfFunction

(* One container more, or one that holds so much more.                       *)
HoldsMore(D, E, n, a) ==
  /\ a \in Nat /\ IsFiniteSet(DOMAIN D) /\ DOMAIN E = DOMAIN D \cup {n}
  /\ \A k \in DOMAIN D : Weight(D)[k] \in Nat
  /\ \A k \in DOMAIN D \ {n} : Weight(E)[k] = Weight(D)[k]
  /\ Weight(E)[n] = (IF n \in DOMAIN D THEN Weight(D)[n] ELSE 0) + a

LEMMA HeldGrows ==
  ASSUME NEW D, NEW E, NEW n, NEW a, HoldsMore(D, E, n, a)
  PROVE  Held(E) = Held(D) + a
<1>0. /\ a \in Nat /\ IsFiniteSet(DOMAIN D) /\ DOMAIN E = DOMAIN D \cup {n}
      /\ \A k \in DOMAIN D : Weight(D)[k] \in Nat
      /\ \A k \in DOMAIN D \ {n} : Weight(E)[k] = Weight(D)[k]
      /\ Weight(E)[n] = (IF n \in DOMAIN D THEN Weight(D)[n] ELSE 0) + a
  BY DEF HoldsMore
<1> USE <1>0
<1> DEFINE w == Weight(D)
           v == Weight(E)
           S == DOMAIN D
           T == DOMAIN E
           R == S \ {n}
<1> HIDE DEF w, v
<1>1. IsFiniteSet(S) /\ IsFiniteSet(T) /\ IsFiniteSet(R) /\ T \ {n} = R /\ n \in T
  BY FS_AddElement, FS_RemoveElement
<1>2. \A k \in T : v[k] \in Nat
  BY DEF w, v
<1>3. Total(v, T) = v[n] + Total(v, R)
  BY <1>1, <1>2, SumOfOne
<1>4. Total(v, R) = Total(w, R)
  <2>1. \A k \in R : v[k] = w[k]
    BY DEF w, v
  <2> QED BY <1>1, <2>1, SumAgrees
<1>5. Total(w, R) \in Nat
  <2>1. \A k \in R : w[k] \in Nat
    BY DEF w
  <2> QED BY <1>1, <2>1, SumIsNat
<1>6. CASE n \in S
  <2>1. Total(w, S) = w[n] + Total(w, R)
    <3>1. \A k \in S : w[k] \in Nat
      BY DEF w
    <3> QED BY <1>1, <1>6, <3>1, SumOfOne
  <2>2. v[n] = w[n] + a /\ w[n] \in Nat
    BY <1>6 DEF w, v
  <2>3. Total(v, T) = Total(w, S) + a
    <3> HIDE DEF S, T, R
    <3> QED BY <1>3, <1>4, <1>5, <2>1, <2>2
  <2> QED BY <2>3 DEF Held, w, v
<1>7. CASE n \notin S
  <2>1. R = S /\ v[n] = a
    BY <1>7 DEF w, v
  <2>2. Total(v, T) = Total(w, S) + a
    <3> HIDE DEF S, T, R
    <3> QED BY <1>3, <1>4, <1>5, <2>1
  <2> QED BY <2>2 DEF Held, w, v
<1> QED
  BY <1>6, <1>7

(* A draft is sound when its blocks have an area, its regions lie on their   *)
(* own block, and the numbers of its regions are taken once for each type.   *)
DraftSet == [height : Int, blocks : Seq(Rects), regions : Seq(Regions)]
OfType(regions, type) == {i \in DOMAIN regions : regions[i].id[2] = type}
Numbered(n, regions) ==
  /\ \A r \in DOMAIN regions : /\ regions[r].id[1] = n + 1
                               /\ regions[r].id[3] <= Cardinality(OfType(regions, regions[r].id[2]))
  /\ \A q, r \in DOMAIN regions : regions[q].id = regions[r].id => q = r
Sound(n, d) ==
  /\ d \in DraftSet
  /\ \A b \in DOMAIN d.blocks : Proper(d.blocks[b])
  /\ \A r \in DOMAIN d.regions : /\ d.regions[r].own \in DOMAIN d.blocks
                                 /\ d.regions[r].bounds = d.blocks[d.regions[r].own]
                                 /\ d.regions[r].asset <= MaxImage
  /\ Numbered(n, d.regions)

LEMMA SoundEmpty ==
  ASSUME NEW n, NEW h \in Int
  PROVE  Sound(n, Draft(h))
BY DEF Sound, Draft, DraftSet, Numbered

LEMMA OfTypeFacts ==
  ASSUME NEW regions \in Seq(Regions), NEW type
  PROVE  IsFiniteSet(OfType(regions, type)) /\ Cardinality(OfType(regions, type)) \in Nat
<1>1. OfType(regions, type) \in SUBSET (1..Len(regions))
  BY DEF OfType
<1>2. IsFiniteSet(1..Len(regions))
  BY FS_Interval
<1> QED
  BY <1>1, <1>2, FS_Subset, FS_CardinalityType

LEMMA NumberedGrows ==
  ASSUME NEW n \in Nat, NEW regions \in Seq(Regions), Numbered(n, regions), NEW region \in Regions,
         NEW kind, region.id = RegionId(n, kind, regions)
  PROVE  Numbered(n, Append(regions, region))
<1> DEFINE more == Append(regions, region)
           k == Len(regions)
           c == Cardinality(OfType(regions, kind))
<1>1. /\ more \in Seq(Regions) /\ Len(more) = k + 1 /\ k \in Nat /\ more[k + 1] = region
      /\ \A r \in 1..k : more[r] = regions[r]
      /\ DOMAIN more = 1..(k + 1) /\ DOMAIN regions = 1..k
  BY AppendProperties
<1>2. region.id[1] = n + 1 /\ region.id[2] = kind /\ region.id[3] = c + 1 /\ c \in Nat
  <2>1. region.id = <<n + 1, kind, c + 1>>
    BY DEF RegionId, OfType
  <2>2. c \in Nat
    BY OfTypeFacts
  <2> HIDE DEF c
  <2> QED BY <2>1, <2>2
<1> HIDE DEF more, k, c
<1>3. \A r \in 1..(k + 1) : r \in 1..k \/ r = k + 1
  BY <1>1
<1>4. ~(k + 1 \in 1..k) /\ k + 1 \in 1..(k + 1) /\ \A r \in 1..k : r \in 1..(k + 1)
  BY <1>1
<1>5. \A type : type # kind => OfType(more, type) = OfType(regions, type)
  BY <1>1, <1>2, <1>3, <1>4 DEF OfType
<1>6. OfType(more, kind) = OfType(regions, kind) \cup {k + 1} /\ k + 1 \notin OfType(regions, kind)
  BY <1>1, <1>2, <1>3, <1>4 DEF OfType
<1>7. Cardinality(OfType(more, kind)) = c + 1
  BY <1>6, OfTypeFacts, FS_AddElement DEF c
<1>8. ASSUME NEW r \in 1..k
      PROVE  /\ regions[r].id[1] = n + 1 /\ regions[r].id[3] \in Nat
             /\ regions[r].id[3] <= Cardinality(OfType(regions, regions[r].id[2]))
             /\ regions[r].id[2] = kind => regions[r].id[3] <= c
             /\ regions[r].id # region.id
  <2>1. /\ regions[r].id[1] = n + 1
        /\ regions[r].id[3] <= Cardinality(OfType(regions, regions[r].id[2]))
    BY <1>1 DEF Numbered
  <2>2. regions[r].id[3] \in Nat
    <3>1. regions[r] \in Regions
      BY <1>1
    <3> QED BY <3>1 DEF Regions
  <2>3. regions[r].id[2] = kind => regions[r].id[3] <= c
    BY <2>1 DEF c
  <2>4. regions[r].id[2] = kind => regions[r].id[3] # c + 1
    BY <1>2, <2>2, <2>3
  <2> QED BY <1>2, <2>1, <2>2, <2>3, <2>4
<1>9. ASSUME NEW r \in 1..(k + 1)
      PROVE  more[r].id[1] = n + 1 /\ more[r].id[3] <= Cardinality(OfType(more, more[r].id[2]))
  <2>1. CASE r = k + 1
    BY <1>1, <1>2, <1>7, <2>1
  <2>2. CASE r \in 1..k
    <3>1. more[r] = regions[r]
      BY <1>1, <2>2
    <3>2. CASE regions[r].id[2] = kind
      BY <1>2, <1>7, <1>8, <2>2, <3>1, <3>2
    <3>3. CASE regions[r].id[2] # kind
      BY <1>5, <1>8, <2>2, <3>1, <3>3
    <3> QED BY <3>2, <3>3
  <2> QED BY <1>3, <2>1, <2>2
<1>10. ASSUME NEW q \in 1..(k + 1), NEW r \in 1..(k + 1), more[q].id = more[r].id
       PROVE  q = r
  <2>1. CASE q \in 1..k /\ r \in 1..k
    BY <1>1, <1>10, <2>1 DEF Numbered
  <2>2. CASE q = k + 1 /\ r \in 1..k
    BY <1>1, <1>8, <1>10, <2>2
  <2>3. CASE q \in 1..k /\ r = k + 1
    BY <1>1, <1>8, <1>10, <2>3
  <2> QED BY <1>3, <2>1, <2>2, <2>3
<1> QED
  BY <1>1, <1>9, <1>10 DEF Numbered, more

(* The two ways a draft grows: a block, and a block with its region.         *)
LEMMA SoundWithBlock ==
  ASSUME NEW n, NEW d, Sound(n, d), NEW h \in Int, NEW bounds, Proper(bounds)
  PROVE  Sound(n, [height |-> h, blocks |-> Append(d.blocks, bounds), regions |-> d.regions])
<1> DEFINE more == Append(d.blocks, bounds)
           k == Len(d.blocks)
<1>1. d.blocks \in Seq(Rects) /\ d.regions \in Seq(Regions) /\ bounds \in Rects /\ k \in Nat
  BY DEF Sound, DraftSet, Proper
<1>2. /\ more \in Seq(Rects) /\ DOMAIN more = 1..(k + 1) /\ DOMAIN d.blocks = 1..k
      /\ more[k + 1] = bounds /\ \A b \in 1..k : more[b] = d.blocks[b]
  BY <1>1, AppendProperties
<1> HIDE DEF more, k
<1>3. \A b \in 1..(k + 1) : b \in 1..k \/ b = k + 1
  BY <1>1
<1>4. \A b \in 1..k : b \in 1..(k + 1)
  BY <1>1
<1>5. \A b \in DOMAIN more : Proper(more[b])
  BY <1>2, <1>3 DEF Sound
<1>6. \A r \in DOMAIN d.regions : /\ d.regions[r].own \in DOMAIN more
                                  /\ d.regions[r].bounds = more[d.regions[r].own]
                                  /\ d.regions[r].asset <= MaxImage
  BY <1>2, <1>4 DEF Sound
<1>7. Numbered(n, d.regions)
  BY DEF Sound
<1> DEFINE e == [height |-> h, blocks |-> more, regions |-> d.regions]
<1>8. e \in DraftSet
  BY <1>1, <1>2 DEF DraftSet
<1>9. e.blocks = more /\ e.regions = d.regions
  OBVIOUS
<1> HIDE DEF e
<1>10. Sound(n, e)
  BY <1>5, <1>6, <1>7, <1>8, <1>9 DEF Sound
<1> QED
  BY <1>10 DEF e, more

LEMMA SoundWithRegion ==
  ASSUME NEW n \in Nat, NEW d, Sound(n, d), NEW h \in Int, NEW bounds, Proper(bounds),
         NEW region \in Regions, NEW kind, region.id = RegionId(n, kind, d.regions),
         region.bounds = bounds, region.own = Len(d.blocks) + 1, region.asset <= MaxImage
  PROVE  Sound(n, [height |-> h, blocks |-> Append(d.blocks, bounds), regions |-> Append(d.regions, region)])
<1> DEFINE e == [height |-> h, blocks |-> Append(d.blocks, bounds), regions |-> d.regions]
           more == Append(d.regions, region)
           k == Len(d.regions)
<1>1. d.blocks \in Seq(Rects) /\ d.regions \in Seq(Regions) /\ k \in Nat
  BY DEF Sound, DraftSet
<1>2. Sound(n, e)
  BY SoundWithBlock
<1>3. e.blocks = Append(d.blocks, bounds) /\ e.regions = d.regions /\ e.height = h
  OBVIOUS
<1>4. e.blocks \in Seq(Rects) /\ region.own \in DOMAIN e.blocks /\ e.blocks[region.own] = bounds
  <2>1. bounds \in Rects
    BY DEF Proper
  <2> HIDE DEF e
  <2> QED BY <1>1, <1>3, <2>1, AppendProperties
<1>5. /\ more \in Seq(Regions) /\ DOMAIN more = 1..(k + 1) /\ DOMAIN d.regions = 1..k
      /\ more[k + 1] = region /\ \A r \in 1..k : more[r] = d.regions[r]
  BY <1>1, AppendProperties
<1>6. Numbered(n, more)
  BY <1>1, NumberedGrows DEF Sound
<1> HIDE DEF more, k, e
<1>7. \A r \in 1..(k + 1) : r \in 1..k \/ r = k + 1
  BY <1>1
<1>8. \A r \in DOMAIN more : /\ more[r].own \in DOMAIN e.blocks
                             /\ more[r].bounds = e.blocks[more[r].own]
                             /\ more[r].asset <= MaxImage
  <2>1. \A r \in 1..k : /\ d.regions[r].own \in DOMAIN e.blocks
                        /\ d.regions[r].bounds = e.blocks[d.regions[r].own]
                        /\ d.regions[r].asset <= MaxImage
    BY <1>2, <1>3, <1>5 DEF Sound
  <2> QED BY <1>4, <1>5, <1>7, <2>1
<1> DEFINE g == [height |-> h, blocks |-> e.blocks, regions |-> more]
<1>9. g \in DraftSet
  BY <1>4, <1>5 DEF DraftSet
<1>10. g.blocks = e.blocks /\ g.regions = more
  OBVIOUS
<1>11. \A b \in DOMAIN e.blocks : Proper(e.blocks[b])
  BY <1>2 DEF Sound
<1> HIDE DEF g
<1>12. Sound(n, g)
  BY <1>6, <1>8, <1>9, <1>10, <1>11 DEF Sound
<1> QED
  BY <1>3, <1>12 DEF g, more

-----------------------------------------------------------------------------
(* The Office extractor: the parser is on its alias only between the check   *)
(* of the archive and the pages; and the drafts are sound, the containers of *)
(* the outline are among them, and what is held of pictures is counted.      *)
Working == {"alias", "open", "convert", "unload", "unalias"}
ParserInv ==
  /\ expanded \in Nat /\ expanded <= MaxExpanded
  /\ phase \notin Working => alias = "none" /\ backend # "open"
  /\ phase \in {"start", "alias", "open"} => backend = "none"
  /\ phase = "alias" => alias \in {"none", "empty"}
  /\ phase = "unalias" => backend # "open"

DraftsInv ==
  /\ phase \notin {"items"} \cup Final => drafts = NoDrafts /\ outline = <<>>
  /\ phase = "items" => DOMAIN drafts # {}
  /\ IsFiniteSet(DOMAIN drafts) /\ DOMAIN drafts \subseteq Nat
  /\ \A n \in DOMAIN drafts : Sound(n, drafts[n])
  /\ outline \in Seq(Nat) /\ \A i \in DOMAIN outline : outline[i] \in DOMAIN drafts
  /\ images \in Nat /\ images = Held(drafts) /\ images <= MaxImages

LEMMA ParserInit == Init => ParserInv
BY OfficeAssumption DEF Init, OfficeInit, ParserInv, Working

LEMMA ParserStep ==
  ASSUME ParserInv, [Next]_vars
  PROVE  ParserInv'
<1> USE DEF ParserInv, Working
<1>1. ASSUME expanded' = expanded, alias' = alias, backend' = backend, phase \notin Working,
             phase' \notin Working, phase' = "start" => phase = "start"
      PROVE  ParserInv'
  BY <1>1
<1>2. CASE UNCHANGED vars
  BY <1>2 DEF vars, contentVars, officeVars
<1>3. CASE RefuseMediaType
  BY <1>1, <1>3 DEF RefuseMediaType, Fail, officeVars
<1>4. CASE TextNext /\ UNCHANGED <<officeVars, pageVars>>
  BY <1>1, <1>4 DEF TextNext, ReadText, SplitBlock, FinishText, Finish, Fail, contentVars, officeVars
<1>5. CASE PageNext /\ UNCHANGED <<textVars, officeVars>>
  BY <1>1, <1>5 DEF PageNext, ScanPage, RasterizePage, ScalePage, RecognizePage, Finish, Fail, officeVars
<1>6. CASE OfficeNext
  <2>1. CASE Preflight
    <3>1. phase = "start" /\ alias' = alias /\ backend' = backend /\ phase' \in {"alias", "failed"}
      BY <2>1 DEF Preflight, Fail
    <3>2. expanded' \in Nat /\ expanded' <= MaxExpanded
      <4>1. expanded' = expanded \/ \E archive \in BoundedSeq(Members, MaxEntries + 1) :
              Permitted(archive) /\ expanded' = SumFunction(Sizes(archive))
        BY <2>1 DEF Preflight
      <4>2. ASSUME NEW archive \in BoundedSeq(Members, MaxEntries + 1), Permitted(archive)
            PROVE  SumFunction(Sizes(archive)) \in Nat /\ SumFunction(Sizes(archive)) <= MaxExpanded
        <5>1. archive \in Seq(Members)
          BY OfficeAssumption DEF BoundedSeq, SeqOf
        <5>2. DOMAIN Sizes(archive) = 1..Len(archive) /\ Len(archive) \in Nat
          BY <5>1 DEF Sizes
        <5>3. \A i \in 1..Len(archive) : Sizes(archive)[i] \in Nat
          <6>1. \A i \in 1..Len(archive) : archive[i] \in [name : STRING, size : Nat, safe : BOOLEAN]
            BY <5>1, OfficeAssumption
          <6> QED BY <5>2, <6>1 DEF Sizes
        <5>4. IsFiniteSet(1..Len(archive))
          BY <5>2, FS_Interval
        <5>5. SumFunction(Sizes(archive)) \in Nat
          BY <5>2, <5>3, <5>4, SumIsNat, SumOfFunction
        <5> QED BY <4>2, <5>5 DEF Permitted
      <4> QED BY <4>1, <4>2
    <3> QED BY <3>1, <3>2
  <2>2. CASE MakeDirectory
    BY <2>2 DEF MakeDirectory, Fail
  <2>3. CASE LinkAlias
    BY <2>3 DEF LinkAlias, Fail
  <2>4. CASE OpenBackend
    BY <2>4 DEF OpenBackend
  <2>5. CASE Convert
    BY <2>5 DEF Convert
  <2>6. CASE Unload
    BY <2>6 DEF Unload
  <2>7. CASE CloseAlias
    BY <2>7 DEF CloseAlias, Fail
  <2>8. CASE MapPages
    BY <1>1, <2>8 DEF MapPages, Fail, parserVars
  <2>9. CASE MapItem
    BY <1>1, <2>9 DEF MapItem, Fail, parserVars
  <2>10. CASE FinishMapping
    BY <1>1, <2>10 DEF FinishMapping, Finish, officeVars
  <2> QED BY <1>6, <2>1, <2>2, <2>3, <2>4, <2>5, <2>6, <2>7, <2>8, <2>9, <2>10 DEF OfficeNext
<1> QED
  BY <1>2, <1>3, <1>4, <1>5, <1>6 DEF Next

LEMMA HeldOfEmpty ==
  ASSUME NEW D, IsFiniteSet(DOMAIN D), \A n \in DOMAIN D : D[n].regions = <<>>
  PROVE  Held(D) = 0
<1>1. \A n \in DOMAIN D : Weight(D)[n] = 0
  BY SizingOfNone DEF Weight
<1> QED
  BY <1>1, SumOfNothing DEF Held

LEMMA HeldOfNone == Held(NoDrafts) = 0 /\ DOMAIN NoDrafts = {} /\ IsFiniteSet(DOMAIN NoDrafts)
<1>1. DOMAIN NoDrafts = {} /\ IsFiniteSet(DOMAIN NoDrafts)
  BY FS_EmptySet DEF NoDrafts
<1> QED
  BY <1>1, HeldOfEmpty

LEMMA DraftsInit == Init => DraftsInv
<1> SUFFICES ASSUME Init PROVE DraftsInv
  OBVIOUS
<1>1. drafts = NoDrafts /\ outline = <<>> /\ images = 0 /\ phase = "start"
  BY DEF Init, OfficeInit
<1> QED
  BY <1>1, HeldOfNone, OfficeAssumption DEF DraftsInv

LEMMA MapPagesStep ==
  ASSUME DraftsInv, MapPages
  PROVE  DraftsInv'
<1>1. /\ phase = "pages" /\ outline' = outline /\ images' = images
      /\ drafts = NoDrafts /\ outline = <<>> /\ images = 0
  <2>1. phase = "pages" /\ outline' = outline /\ images' = images
    BY DEF MapPages
  <2>2. drafts = NoDrafts /\ outline = <<>>
    BY <2>1 DEF DraftsInv, Final
  <2> QED BY <2>1, <2>2, HeldOfNone DEF DraftsInv
<1>2. PICK pages \in PageSets :
       IF Cardinality(DOMAIN pages) > MaxContainers
       THEN Fail /\ UNCHANGED drafts
       ELSE /\ drafts' = IF pages = NoDrafts THEN [n \in {0} |-> Draft(Unit)]
                         ELSE [n \in {p - 1 : p \in DOMAIN pages} |-> Draft(Max({Unit, pages[n + 1]}))]
            /\ phase' = "items" /\ UNCHANGED content
  BY DEF MapPages
<1>3. CASE phase' = "failed" /\ drafts' = drafts
  BY <1>1, <1>3, HeldOfNone, OfficeAssumption DEF DraftsInv, Final
<1>4. ASSUME phase' = "items", DOMAIN drafts' # {}, IsFiniteSet(DOMAIN drafts'), DOMAIN drafts' \subseteq Nat,
             \A n \in DOMAIN drafts' : \E h \in Int : drafts'[n] = Draft(h)
      PROVE  DraftsInv'
  <2>1. \A n \in DOMAIN drafts' : Sound(n, drafts'[n])
    BY <1>4, SoundEmpty
  <2>2. \A n \in DOMAIN drafts' : drafts'[n].regions = <<>>
    BY <1>4 DEF Draft
  <2>3. Held(drafts') = 0
    BY <1>4, <2>2, HeldOfEmpty
  <2> QED BY <1>1, <1>4, <2>1, <2>3, OfficeAssumption DEF DraftsInv, Final
<1>5. CASE phase' = "items" /\ drafts' = [n \in {0} |-> Draft(Unit)]
  <2>1. DOMAIN drafts' = {0} /\ drafts'[0] = Draft(Unit)
    BY <1>5
  <2>2. IsFiniteSet({0})
    BY FS_Singleton
  <2>3. Unit \in Int
    BY DEF Unit
  <2>4. \A n \in DOMAIN drafts' : \E h \in Int : drafts'[n] = Draft(h)
    BY <2>1, <2>3
  <2>5. {0} \subseteq Nat
    OBVIOUS
  <2> QED BY <1>4, <1>5, <2>1, <2>2, <2>4, <2>5
<1>6. CASE /\ phase' = "items" /\ pages # NoDrafts
           /\ drafts' = [n \in {p - 1 : p \in DOMAIN pages} |-> Draft(Max({Unit, pages[n + 1]}))]
  <2> DEFINE S == DOMAIN pages
             T == {p - 1 : p \in DOMAIN pages}
             f == [p \in S |-> p - 1]
  <2>1. IsFiniteSet(S) /\ S \subseteq Nat \ {0} /\ pages \in [S -> Int]
    BY OfficeAssumption
  <2>2. S # {}
    <3> SUFFICES ASSUME S = {} PROVE FALSE
      OBVIOUS
    <3>1. pages = [n \in {} |-> 0]
      BY <2>1
    <3> QED BY <1>6, <3>1 DEF NoDrafts
  <2>3. T # {} /\ T \subseteq Nat /\ \A n \in T : n + 1 \in S
    BY <2>1, <2>2
  <2>4. IsFiniteSet(T)
    <3>1. f \in Surjection(S, T)
      BY DEF Surjection
    <3> HIDE DEF f, S, T
    <3> QED BY <2>1, <3>1, FS_Surjection
  <2>5. ASSUME NEW n \in T
        PROVE  Max({Unit, pages[n + 1]}) \in Int /\ drafts'[n] = Draft(Max({Unit, pages[n + 1]}))
    <3>1. pages[n + 1] \in Int /\ Unit \in Int
      BY <2>1, <2>3 DEF Unit
    <3>2. Max({Unit, pages[n + 1]}) \in Int
      BY <3>1, TwoExtremes
    <3> QED BY <1>6, <3>2
  <2>6. DOMAIN drafts' = T
    BY <1>6
  <2> HIDE DEF T
  <2>7. \A n \in DOMAIN drafts' : \E h \in Int : drafts'[n] = Draft(h)
    BY <2>5, <2>6
  <2> QED BY <1>4, <1>6, <2>3, <2>4, <2>6, <2>7
<1> QED
  BY <1>2, <1>3, <1>5, <1>6 DEF Fail

(* What an item adds to its draft, and to what the draft holds of pictures.  *)
Adds(n, draft, h, grown, bounds, kind, a, region, kept, new) ==
  /\ n \in Nat /\ Sound(n, draft) /\ h \in Int /\ Proper(bounds) /\ kind \in Kinds
  /\ a \in Nat /\ a <= MaxImage /\ kept \in BOOLEAN
  /\ kind = "picture" => kept
  /\ kind # "picture" => a = 0
  /\ grown = draft \/ grown = [draft EXCEPT !.height = h]
  /\ region = [id |-> RegionId(n, kind, draft.regions), bounds |-> bounds, asset |-> a, own |-> Len(draft.blocks) + 1]
  /\ new = IF ~kept THEN grown
           ELSE [grown EXCEPT !.blocks  = Append(@, bounds),
                              !.regions = IF kind \in {"table", "picture"} THEN Append(@, region) ELSE @]

LEMMA DraftGrows ==
  ASSUME NEW n, NEW draft, NEW h, NEW grown, NEW bounds, NEW kind, NEW a, NEW region, NEW kept, NEW new,
         Adds(n, draft, h, grown, bounds, kind, a, region, kept, new)
  PROVE  Sound(n, new) /\ SumFunction(Sizing(new.regions)) = SumFunction(Sizing(draft.regions)) + a
<1>0. /\ n \in Nat /\ Sound(n, draft) /\ h \in Int /\ Proper(bounds) /\ kind \in Kinds
      /\ a \in Nat /\ a <= MaxImage /\ kept \in BOOLEAN
      /\ kind = "picture" => kept
      /\ kind # "picture" => a = 0
      /\ grown = draft \/ grown = [draft EXCEPT !.height = h]
      /\ region = [id |-> RegionId(n, kind, draft.regions), bounds |-> bounds, asset |-> a, own |-> Len(draft.blocks) + 1]
      /\ new = IF ~kept THEN grown
               ELSE [grown EXCEPT !.blocks  = Append(@, bounds),
                                  !.regions = IF kind \in {"table", "picture"} THEN Append(@, region) ELSE @]
  BY DEF Adds
<1> USE <1>0
<1>1. /\ draft \in DraftSet /\ draft.height \in Int /\ draft.blocks \in Seq(Rects) /\ draft.regions \in Seq(Regions)
      /\ draft = [height |-> draft.height, blocks |-> draft.blocks, regions |-> draft.regions]
  BY DEF Sound, DraftSet
<1>2. PICK g \in Int : grown = [height |-> g, blocks |-> draft.blocks, regions |-> draft.regions]
  <2>1. CASE grown = draft
    BY <1>1, <2>1
  <2>2. CASE grown = [draft EXCEPT !.height = h]
    BY <1>1, <2>2
  <2> QED BY <2>1, <2>2
<1>3. region \in Regions
  <2>1. RegionId(n, kind, draft.regions) \in Nat \X Kinds \X Nat
    <3> DEFINE c == Cardinality(OfType(draft.regions, kind))
    <3>1. c \in Nat
      BY <1>1, OfTypeFacts
    <3>2. RegionId(n, kind, draft.regions) = <<n + 1, kind, c + 1>>
      BY DEF RegionId, OfType
    <3> HIDE DEF c
    <3> QED BY <3>1, <3>2
  <2>2. bounds \in Rects
    BY DEF Proper
  <2>3. Len(draft.blocks) + 1 \in Nat
    BY <1>1
  <2> QED BY <2>1, <2>2, <2>3 DEF Regions
<1>4. SumFunction(Sizing(draft.regions)) \in Nat
  BY <1>1, SizingFacts
<1>5. CASE ~kept
  <2>1. new = grown /\ a = 0
    BY <1>5
  <2>2. Sound(n, grown)
    <3>1. grown.height = g /\ grown.blocks = draft.blocks /\ grown.regions = draft.regions /\ grown \in DraftSet
      BY <1>1, <1>2 DEF DraftSet
    <3> QED BY <3>1 DEF Sound
  <2>3. new.regions = draft.regions
    BY ONLY <1>2, <2>1
  <2> QED BY <1>4, <2>1, <2>2, <2>3
<1>6. CASE kept /\ kind \notin {"table", "picture"}
  <2>1. new = [height |-> g, blocks |-> Append(draft.blocks, bounds), regions |-> draft.regions]
    BY <1>2, <1>6
  <2>2. new.regions = draft.regions /\ a = 0
    <3>1. new.regions = draft.regions
      BY ONLY <2>1
    <3> QED BY <1>6, <3>1
  <2>3. Sound(n, new)
    BY <2>1, SoundWithBlock
  <2> QED BY <1>4, <2>2, <2>3
<1>7. CASE kept /\ kind \in {"table", "picture"}
  <2>1. new = [height |-> g, blocks |-> Append(draft.blocks, bounds), regions |-> Append(draft.regions, region)]
    BY <1>2, <1>7
  <2>2. new.regions = Append(draft.regions, region)
    BY ONLY <2>1
  <2>3. /\ region.id = RegionId(n, kind, draft.regions) /\ region.bounds = bounds
        /\ region.own = Len(draft.blocks) + 1 /\ region.asset = a /\ region.asset <= MaxImage
    OBVIOUS
  <2>4. Sound(n, new)
    <3>1. n \in Nat /\ Sound(n, draft) /\ g \in Int /\ Proper(bounds)
      OBVIOUS
    <3> QED BY ONLY <1>3, <2>1, <2>3, <3>1, SoundWithRegion
  <2>5. SumFunction(Sizing(new.regions)) = SumFunction(Sizing(draft.regions)) + a
    BY <1>1, <1>3, <2>2, <2>3, SizingGrows
  <2> QED BY <2>4, <2>5
<1> QED
  BY <1>5, <1>6, <1>7

LEMMA MapItemStep ==
  ASSUME DraftsInv, MapItem
  PROVE  DraftsInv'
<1>1. phase = "items"
  BY DEF MapItem
<1>2. PICK item \in Items :
       LET n      == Container(item)
           draft  == DraftOf(n)
           y      == Len(draft.blocks)
           bounds == IF item.place = <<>> THEN Line(y) ELSE Place(item)
           grown  == IF item.place = <<>> THEN [draft EXCEPT !.height = Larger(@, (y + 1) * Unit)] ELSE draft
           region == [id |-> RegionId(n, item.kind, draft.regions), bounds |-> bounds,
                      asset |-> IF item.kind = "picture" THEN Asset(item) ELSE 0, own |-> y + 1]
           kept   == item.kind = "picture" \/ item.text
       IN  IF n >= MaxContainers THEN Fail /\ UNCHANGED <<drafts, outline, images>>
           ELSE /\ drafts' = With(n, IF ~kept THEN grown
                                     ELSE [grown EXCEPT
                                             !.blocks  = Append(@, bounds),
                                             !.regions = IF item.kind \in {"table", "picture"} THEN Append(@, region) ELSE @])
                /\ outline' = IF item.kind = "heading" /\ kept THEN Append(outline, n) ELSE outline
                /\ images' = images + region.asset
                /\ UNCHANGED <<phase, content>>
  BY DEF MapItem
<1> DEFINE n      == Container(item)
           draft  == DraftOf(n)
           y      == Len(draft.blocks)
           bounds == IF item.place = <<>> THEN Line(y) ELSE Place(item)
           h      == Larger(draft.height, (y + 1) * Unit)
           grown  == IF item.place = <<>> THEN [draft EXCEPT !.height = h] ELSE draft
           a      == IF item.kind = "picture" THEN Asset(item) ELSE 0
           region == [id |-> RegionId(n, item.kind, draft.regions), bounds |-> bounds, asset |-> a, own |-> y + 1]
           kept   == item.kind = "picture" \/ item.text
           new    == IF ~kept THEN grown
                     ELSE [grown EXCEPT !.blocks  = Append(@, bounds),
                                        !.regions = IF item.kind \in {"table", "picture"} THEN Append(@, region) ELSE @]
<1>3. CASE n >= MaxContainers
  <2>1. phase' = "failed" /\ drafts' = drafts /\ outline' = outline /\ images' = images
    BY <1>2, <1>3 DEF Fail
  <2> QED BY <1>1, <2>1 DEF DraftsInv, Final
<1>4. CASE ~(n >= MaxContainers)
  <2>1. /\ drafts' = With(n, new) /\ images' = images + a /\ phase' = phase
        /\ outline' = IF item.kind = "heading" /\ kept THEN Append(outline, n) ELSE outline
    BY <1>2, <1>4
  <2>2. /\ n \in Nat /\ kept \in BOOLEAN /\ item.kind \in Kinds
        /\ item.kind = "picture" => kept
        /\ item.kind # "picture" => a = 0
    BY ContainerIsNat, OfficeAssumption DEF Kinds
  <2>3. a \in Nat /\ a <= MaxImage /\ images + a <= MaxImages
    <3>1. item.image \in Nat /\ MaxImage \in Nat /\ MaxImages \in Nat
      BY OfficeAssumption
    <3>2. images \in Nat /\ images <= MaxImages
      BY DEF DraftsInv
    <3> QED BY <3>1, <3>2 DEF Asset
  <2>4. /\ Sound(n, draft)
        /\ n \notin DOMAIN drafts => draft.regions = <<>>
        /\ n \in DOMAIN drafts => draft = drafts[n]
    <3>1. Sound(n, Draft(Unit)) /\ Draft(Unit).regions = <<>>
      BY SoundEmpty DEF Unit, Draft
    <3> QED BY <3>1 DEF DraftsInv, DraftOf
  <2>5. y \in Nat /\ draft.height \in Int /\ draft.regions \in Seq(Regions)
    BY <2>4 DEF Sound, DraftSet
  <2>6. h \in Int
    <3>1. (y + 1) * 2 \in Int
      BY <2>5
    <3> HIDE DEF y, draft
    <3> QED BY <2>5, <3>1 DEF Larger, Unit
  <2>7. Proper(bounds)
    <3>1. Heights(drafts)
      BY DEF Heights, DraftsInv, Sound, DraftSet
    <3>2. item.place = <<>> => Proper(Line(y))
      BY <2>5, LineIsProper
    <3>3. item.place # <<>> => Proper(Place(item))
      BY <3>1, PlaceFacts
    <3> QED BY <3>2, <3>3
  <2>8. grown = draft \/ grown = [draft EXCEPT !.height = h]
    OBVIOUS
  <2>9. /\ region = [id |-> RegionId(n, item.kind, draft.regions), bounds |-> bounds, asset |-> a, own |-> Len(draft.blocks) + 1]
        /\ new = IF ~kept THEN grown
                 ELSE [grown EXCEPT !.blocks  = Append(@, bounds),
                                    !.regions = IF item.kind \in {"table", "picture"} THEN Append(@, region) ELSE @]
    OBVIOUS
  <2> HIDE DEF n, draft, y, bounds, h, grown, a, region, kept, new
  <2>10. Sound(n, new) /\ SumFunction(Sizing(new.regions)) = SumFunction(Sizing(draft.regions)) + a
    <3>1. Adds(n, draft, h, grown, bounds, item.kind, a, region, kept, new)
      BY <2>2, <2>3, <2>4, <2>6, <2>7, <2>8, <2>9 DEF Adds
    <3> QED BY ONLY <3>1, DraftGrows
  <2>11. /\ DOMAIN drafts' = DOMAIN drafts \cup {n} /\ drafts'[n] = new
         /\ \A k \in DOMAIN drafts : k # n => drafts'[k] = drafts[k]
    BY <2>1 DEF With
  <2>12. IsFiniteSet(DOMAIN drafts) /\ DOMAIN drafts \subseteq Nat /\ \A k \in DOMAIN drafts : Sound(k, drafts[k])
    BY DEF DraftsInv
  <2>13. IsFiniteSet(DOMAIN drafts') /\ DOMAIN drafts' \subseteq Nat /\ DOMAIN drafts' # {}
    BY <2>2, <2>11, <2>12, FS_AddElement
  <2>14. \A k \in DOMAIN drafts' : Sound(k, drafts'[k])
    BY <2>10, <2>11, <2>12
  <2>15. Held(drafts') = Held(drafts) + a
    <3>1. \A k \in DOMAIN drafts : Weight(drafts)[k] \in Nat
      <4>1. \A k \in DOMAIN drafts : drafts[k].regions \in Seq(Regions)
        BY <2>12 DEF Sound, DraftSet
      <4> QED BY <4>1, SizingFacts DEF Weight
    <3>2. \A k \in DOMAIN drafts \ {n} : Weight(drafts')[k] = Weight(drafts)[k]
      BY <2>11 DEF Weight
    <3>3. Weight(drafts')[n] = (IF n \in DOMAIN drafts THEN Weight(drafts)[n] ELSE 0) + a
      <4>1. Weight(drafts')[n] = SumFunction(Sizing(draft.regions)) + a
        BY <2>10, <2>11 DEF Weight
      <4>2. n \in DOMAIN drafts => Weight(drafts)[n] = SumFunction(Sizing(draft.regions))
        BY <2>4 DEF Weight
      <4>3. n \notin DOMAIN drafts => SumFunction(Sizing(draft.regions)) = 0
        BY <2>4, SizingOfNone
      <4> QED BY <4>1, <4>2, <4>3
    <3>4. HoldsMore(drafts, drafts', n, a)
      BY <2>3, <2>11, <2>12, <3>1, <3>2, <3>3 DEF HoldsMore
    <3> QED BY ONLY <3>4, HeldGrows
  <2>16. images' \in Nat /\ images' = Held(drafts') /\ images' <= MaxImages
    <3>1. images \in Nat /\ images = Held(drafts)
      BY DEF DraftsInv
    <3> QED BY <2>1, <2>3, <2>15, <3>1
  <2>17. outline' \in Seq(Nat) /\ \A i \in DOMAIN outline' : outline'[i] \in DOMAIN drafts'
    <3>1. outline \in Seq(Nat) /\ \A i \in DOMAIN outline : outline[i] \in DOMAIN drafts'
      BY <2>11 DEF DraftsInv
    <3>2. CASE outline' = outline
      BY <3>1, <3>2
    <3>3. CASE outline' = Append(outline, n)
      <4>1. /\ outline' \in Seq(Nat) /\ DOMAIN outline' = 1..(Len(outline) + 1)
            /\ DOMAIN outline = 1..Len(outline) /\ outline'[Len(outline) + 1] = n
            /\ \A i \in 1..Len(outline) : outline'[i] = outline[i]
        BY <2>2, <3>1, <3>3, AppendProperties
      <4>2. \A i \in 1..(Len(outline) + 1) : i \in 1..Len(outline) \/ i = Len(outline) + 1
        BY <3>1
      <4> QED BY <2>11, <3>1, <4>1, <4>2
    <3> QED BY <2>1, <3>2, <3>3
  <2> QED BY <1>1, <2>1, <2>13, <2>14, <2>16, <2>17 DEF DraftsInv
<1> QED
  BY <1>3, <1>4

LEMMA DraftsStep ==
  ASSUME DraftsInv, [Next]_vars
  PROVE  DraftsInv'
<1>1. ASSUME UNCHANGED mapperVars, phase' = "items" => phase = "items",
             phase \in {"items"} \cup Final => phase' \in {"items"} \cup Final
      PROVE  DraftsInv'
  BY <1>1 DEF DraftsInv, mapperVars
<1> USE DEF Final
<1>2. CASE UNCHANGED vars
  BY <1>1, <1>2 DEF vars, contentVars, officeVars, mapperVars
<1>3. CASE RefuseMediaType
  BY <1>1, <1>3 DEF RefuseMediaType, Fail, officeVars, mapperVars
<1>4. CASE TextNext /\ UNCHANGED <<officeVars, pageVars>>
  BY <1>1, <1>4 DEF TextNext, ReadText, SplitBlock, FinishText, Finish, Fail, contentVars, officeVars, mapperVars
<1>5. CASE PageNext /\ UNCHANGED <<textVars, officeVars>>
  BY <1>1, <1>5 DEF PageNext, ScanPage, RasterizePage, ScalePage, RecognizePage, Finish, Fail, officeVars, mapperVars
<1>6. CASE OfficeNext
  <2>1. CASE Preflight
    BY <1>1, <2>1 DEF Preflight, Fail
  <2>2. CASE MakeDirectory
    BY <1>1, <2>2 DEF MakeDirectory, Fail
  <2>3. CASE LinkAlias
    BY <1>1, <2>3 DEF LinkAlias, Fail
  <2>4. CASE OpenBackend
    BY <1>1, <2>4 DEF OpenBackend
  <2>5. CASE Convert
    BY <1>1, <2>5 DEF Convert
  <2>6. CASE Unload
    BY <1>1, <2>6 DEF Unload
  <2>7. CASE CloseAlias
    BY <1>1, <2>7 DEF CloseAlias, Fail
  <2>8. CASE MapPages
    BY <2>8, MapPagesStep
  <2>9. CASE MapItem
    BY <2>9, MapItemStep
  <2>10. CASE FinishMapping
    BY <1>1, <2>10 DEF FinishMapping, Finish, officeVars, mapperVars
  <2> QED BY <1>6, <2>1, <2>2, <2>3, <2>4, <2>5, <2>6, <2>7, <2>8, <2>9, <2>10 DEF OfficeNext
<1> QED
  BY <1>2, <1>3, <1>4, <1>5, <1>6 DEF Next

LEMMA NothingIsLeft ==
  ASSUME ParserInv, DraftsInv
  PROVE  ParserLeavesNothing
<1>1. phase \in {"pages", "items", "done", "failed", "rejected"} => alias = "none" /\ backend # "open"
  BY DEF ParserInv, Working
<1>2. \A n \in DOMAIN drafts : Assets(n) = Sizing(drafts[n].regions)
  BY DEF Assets, Sizing
<1>3. \A n \in DOMAIN drafts : \A r \in DOMAIN Assets(n) : Assets(n)[r] <= MaxImage
  BY DEF DraftsInv, Sound, Assets
<1> DEFINE w == [n \in DOMAIN drafts |-> SumFunction(Assets(n))]
<1>4. MapThenSumSet(LAMBDA n : SumFunction(Assets(n)), DOMAIN drafts) = Total(w, DOMAIN drafts)
  BY DEF MapThenSumSet, MapThenFoldSet, SumRec, Total, Chosen
<1>5. w = Weight(drafts)
  BY <1>2 DEF Weight
<1>6. Total(w, DOMAIN drafts) <= MaxImages
  <2> HIDE DEF w
  <2> QED BY <1>5 DEF DraftsInv, Held
<1> QED
  BY <1>1, <1>3, <1>4, <1>6 DEF ParserLeavesNothing, ParserInv

(* The Office extractor's invariant: where the parser and its alias are, and *)
(* what the drafts hold.                                                     *)
THEOREM MappingInductive == Spec => [](ParserInv /\ DraftsInv)
<1>1. Init => ParserInv /\ DraftsInv
  BY ParserInit, DraftsInit
<1>2. ParserInv /\ DraftsInv /\ [Next]_vars => (ParserInv /\ DraftsInv)'
  BY ParserStep, DraftsStep
<1> QED
  BY <1>1, <1>2, PTL DEF Spec

(* Nothing of the parser is left when its answer is used, it saw no archive  *)
(* larger than allowed, and pictures stay within their limits, one by one    *)
(* and together (DoclingSlimDocumentExtractor, DoclingDocumentMapper).       *)
THEOREM ParserIsGone == Spec => []ParserLeavesNothing
<1>1. ParserInv /\ DraftsInv => ParserLeavesNothing
  BY NothingIsLeft
<1> QED
  BY <1>1, MappingInductive, PTL

-----------------------------------------------------------------------------
(* What makes content acceptable: ids whose first part is their container,   *)
(* and that differ within it, differ everywhere.                             *)
Apart(containers, S, k) ==
  /\ k \in Nat /\ DOMAIN containers = 1..k
  /\ \A c \in 1..k :
       /\ \E m \in Nat : DOMAIN containers[c].regions = 1..m
       /\ \A r \in DOMAIN containers[c].regions : containers[c].regions[r].id \in S /\ containers[c].regions[r].id[1] = c
       /\ \A q, r \in DOMAIN containers[c].regions :
            containers[c].regions[q].id = containers[c].regions[r].id => q = r

LEMMA IdsAreApart ==
  ASSUME NEW containers, NEW S, NEW k, Apart(containers, S, k)
  PROVE  IsInjective(FlattenSeq(RegionIds(containers)))
<1> DEFINE q == RegionIds(containers)
           regions(c) == containers[c].regions
<1>1. k \in Nat /\ DOMAIN containers = 1..k /\ DOMAIN q = 1..k /\ q = [c \in 1..k |-> q[c]]
  BY DEF Apart, RegionIds
<1>2. ASSUME NEW c \in 1..k
      PROVE  /\ q[c] \in Seq(S) /\ DOMAIN q[c] = DOMAIN regions(c)
             /\ \A r \in DOMAIN q[c] : q[c][r] = regions(c)[r].id /\ q[c][r][1] = c
             /\ IsInjective(q[c])
  <2>1. q[c] = [r \in DOMAIN regions(c) |-> regions(c)[r].id]
    BY <1>1 DEF RegionIds
  <2>2. PICK m \in Nat : DOMAIN regions(c) = 1..m
    BY DEF Apart
  <2>3. \A r \in 1..m : regions(c)[r].id \in S /\ regions(c)[r].id[1] = c
    BY <2>2 DEF Apart
  <2>4. \A p, r \in 1..m : regions(c)[p].id = regions(c)[r].id => p = r
    BY <2>2 DEF Apart
  <2> HIDE DEF q, regions
  <2>5. q[c] \in Seq(S)
    BY <2>1, <2>2, <2>3
  <2>6. IsInjective(q[c])
    BY <2>1, <2>2, <2>4 DEF IsInjective
  <2> QED BY <2>1, <2>2, <2>3, <2>5, <2>6
<1> HIDE DEF q, regions
<1>3. q \in Seq(Seq(S))
  BY <1>1, <1>2
<1>4. ~Shares(q)
  BY <1>1, <1>2 DEF Shares
<1>5. IsInjective(FlattenSeq(q))
  BY <1>1, <1>2, <1>3, <1>4, FlattenFacts
<1> QED
  BY <1>5 DEF q

LEMMA AcceptedFacts ==
  ASSUME NEW value, NEW S, NEW k, Apart(value.containers, S, k), Len(value.containers) = k,
         \A i \in DOMAIN value.outline : value.outline[i] < k,
         \A c \in 1..k : /\ \A b \in DOMAIN value.containers[c].blocks : IsBounds(value.containers[c].blocks[b])
                         /\ \A r \in DOMAIN value.containers[c].regions : IsBounds(value.containers[c].regions[r].bounds)
  PROVE  Accepted(value)
<1>1. IsInjective(FlattenSeq(RegionIds(value.containers)))
  BY IdsAreApart
<1>2. DOMAIN value.containers = 1..k
  BY DEF Apart
<1> QED
  BY <1>1, <1>2 DEF Accepted

(* A region that has an area in common with a block has that block in its    *)
(* text.                                                                     *)
LEMMA OwnIsInText ==
  ASSUME NEW container, NEW region, NEW k \in Nat, DOMAIN container.blocks = 1..k,
         NEW own \in 1..k, Intersects(container.blocks[own], region.bounds)
  PROVE  own \in RegionText(container, region)
<1> DEFINE S == {b \in DOMAIN container.blocks : Intersects(container.blocks[b], region.bounds)}
<1>1. S \in SUBSET (1..k) /\ own \in S /\ S \subseteq Int
  OBVIOUS
<1>2. IsFiniteSet(S)
  <2>1. IsFiniteSet(1..k)
    BY FS_Interval
  <2> HIDE DEF S
  <2> QED BY <1>1, <2>1, FS_Subset
<1>3. RegionText(container, region) = Min(S)..Max(S)
  BY <1>1 DEF RegionText
<1> HIDE DEF S
<1>4. Min(S) \in Int /\ Max(S) \in Int /\ Min(S) <= own /\ Max(S) >= own
  BY <1>1, <1>2, Extremes
<1> QED
  BY <1>3, <1>4

Cites(value) ==
  \A c \in DOMAIN value.containers :
    \A r \in DOMAIN value.containers[c].regions :
      value.containers[c].regions[r].own # 0 =>
        value.containers[c].regions[r].own \in RegionText(value.containers[c], value.containers[c].regions[r])

LEMMA FinishTextAnswers ==
  ASSUME SplitInv, FinishText
  PROVE  phase' = "done" /\ Cites(content')
<1> DEFINE height == Max({1, Len(blocks)})
           table  == [id |-> <<1, "table", 1>>, bounds |-> Rect(0, 0, Unit, height * Unit), asset |-> 0, own |-> 1]
           lines  == [i \in DOMAIN blocks |-> Line(i - 1)]
           regions == IF media = "csv" /\ blocks # <<>> THEN <<table>> ELSE <<>>
           container == [blocks |-> lines, regions |-> regions]
           value == [containers |-> <<container>>, outline |-> <<>>]
           S     == {<<1, "table", 1>>}
<1>1. Finish(value)
  BY DEF FinishText
<1>2. Len(blocks) \in Nat /\ DOMAIN blocks = 1..Len(blocks)
  BY DEF SplitInv
<1>3. height \in Int /\ height >= 1
  <2> DEFINE m == Len(blocks)
  <2>1. m \in Int /\ height = Max({1, m})
    BY <1>2
  <2> HIDE DEF m, height
  <2>2. Max({1, m}) = IF 1 >= m THEN 1 ELSE m
    BY <2>1, TwoExtremes
  <2> QED BY <2>1, <2>2
<1> HIDE DEF height
<1>4. Proper(table.bounds) /\ table.bounds = Rect(0, 0, 2, height * 2)
  <2>1. height * 2 \in Int /\ 0 < height * 2
    BY <1>3
  <2> DEFINE h == height * 2
  <2> HIDE DEF h
  <2>2. Proper(Rect(0, 0, 2, h))
    BY <2>1, ProperRect DEF h
  <2>3. table.bounds = Rect(0, 0, 2, h)
    BY DEF Unit, h
  <2> QED BY <2>2, <2>3 DEF h
<1>5. /\ DOMAIN lines = 1..Len(blocks)
      /\ \A i \in 1..Len(blocks) : Proper(lines[i])
  <2>1. \A i \in 1..Len(blocks) : i - 1 \in Nat
    BY <1>2
  <2> QED BY <1>2, <2>1, LineIsProper
<1>6. /\ regions = <<>> \/ (regions = <<table>> /\ blocks # <<>>)
      /\ table.id = <<1, "table", 1>> /\ table.own = 1
  OBVIOUS
<1> HIDE DEF table, lines, regions
<1>7. /\ value.containers = <<container>> /\ value.outline = <<>> /\ Len(value.containers) = 1
      /\ DOMAIN value.containers = 1..1 /\ value.containers[1] = container
      /\ container.blocks = lines /\ container.regions = regions
  OBVIOUS
<1>8. /\ \E m \in Nat : DOMAIN regions = 1..m
      /\ \A r \in DOMAIN regions : regions[r] = table /\ r = 1 /\ blocks # <<>>
  <2>1. CASE regions = <<>>
    <3>1. DOMAIN regions = 1..0
      BY <2>1
    <3> QED BY <3>1
  <2>2. CASE regions = <<table>> /\ blocks # <<>>
    <3>1. DOMAIN regions = 1..1 /\ regions[1] = table
      BY <2>2
    <3> QED BY <2>2, <3>1
  <2> QED BY <1>6, <2>1, <2>2
<1> HIDE DEF value, container
<1>9. Apart(value.containers, S, 1)
  <2>1. \A c \in 1..1 : value.containers[c].regions = regions /\ c = 1
    BY <1>7
  <2>2. table.id \in S /\ table.id[1] = 1
    BY <1>6
  <2> HIDE DEF S
  <2> QED BY <1>7, <1>8, <2>1, <2>2 DEF Apart
<1>10. Accepted(value)
  <2>1. \A r : Proper(r) => IsBounds(r)
    BY DEF Proper, IsBounds, Rects
  <2>2. \A i \in DOMAIN value.outline : value.outline[i] < 1
    BY <1>7
  <2>3. \A c \in 1..1 : /\ \A b \in DOMAIN value.containers[c].blocks : IsBounds(value.containers[c].blocks[b])
                        /\ \A r \in DOMAIN value.containers[c].regions : IsBounds(value.containers[c].regions[r].bounds)
    BY <1>4, <1>5, <1>7, <1>8, <2>1
  <2> QED BY <1>7, <1>9, <2>2, <2>3, AcceptedFacts
<1>11. Cites(value)
  <2>1. ASSUME NEW r \in DOMAIN regions
        PROVE  regions[r].own \in RegionText(container, regions[r])
    <3>1. regions[r] = table /\ regions[r].own = 1 /\ 1 \in 1..Len(blocks)
      <4>1. blocks # <<>> => 1 \in 1..Len(blocks)
        BY <1>2 DEF SplitInv
      <4> QED BY <1>6, <1>8, <4>1
    <3>2. Intersects(container.blocks[1], table.bounds)
      <4>1. container.blocks[1] = Rect(0, 0, 2, 2)
        <5>1. Line(1 - 1) = Rect(0, 0, 2, 2)
          BY DEF Line, Unit
        <5> QED BY <1>2, <1>7, <3>1, <5>1 DEF lines
      <4>2. 0 < height * 2
        BY <1>3
      <4> QED BY <1>4, <4>1, <4>2 DEF Intersects, Rect
    <3>3. DOMAIN container.blocks = 1..Len(blocks)
      BY <1>5, <1>7
    <3> QED BY <1>2, <3>1, <3>2, <3>3, OwnIsInText
  <2> QED BY <1>7, <2>1 DEF Cites
<1> QED
  BY <1>1, <1>10, <1>11, FinishPhase

LEMMA FinishMappingAnswers ==
  ASSUME DraftsInv, FinishMapping
  PROVE  phase' = "done" /\ Cites(content')
<1> DEFINE last  == Max(DOMAIN drafts)
           k     == last + 1
           containers == [i \in 1..k |-> [blocks |-> DraftOf(i - 1).blocks, regions |-> DraftOf(i - 1).regions]]
           value == [containers |-> containers, outline |-> outline]
           S     == Nat \X Kinds \X Nat
<1>1. Finish(value) /\ phase = "items"
  BY DEF FinishMapping
<1>2. last \in Nat /\ \A n \in DOMAIN drafts : last >= n
  <2>1. IsFiniteSet(DOMAIN drafts) /\ DOMAIN drafts \subseteq Nat /\ DOMAIN drafts # {} /\ DOMAIN drafts \subseteq Int
    BY <1>1 DEF DraftsInv
  <2> QED BY <2>1, Extremes
<1>3. \A n \in Nat : Sound(n, DraftOf(n))
  <2>1. \A n \in Nat : Sound(n, Draft(Unit))
    BY SoundEmpty DEF Unit
  <2> QED BY <2>1 DEF DraftOf, DraftsInv
<1> HIDE DEF last
<1>4. k \in Nat /\ k >= 1 /\ \A n \in DOMAIN drafts : n < k
  <2>1. DOMAIN drafts \subseteq Nat
    BY DEF DraftsInv
  <2> QED BY <1>2, <2>1
<1> HIDE DEF k
<1>5. /\ value.containers = containers /\ value.outline = outline
      /\ DOMAIN containers = 1..k /\ Len(containers) = k
  <2> DEFINE element(i) == [blocks |-> DraftOf(i - 1).blocks, regions |-> DraftOf(i - 1).regions]
  <2>1. containers = [i \in 1..k |-> element(i)]
    OBVIOUS
  <2> HIDE DEF element
  <2>2. containers \in Seq({element(i) : i \in 1..k})
    <3> HIDE DEF containers
    <3> QED BY <1>4, <2>1
  <2> HIDE DEF containers
  <2>3. DOMAIN containers = 1..k /\ Len(containers) = k
    BY <1>4, <2>1, <2>2
  <2> QED BY <2>3
<1>6. ASSUME NEW c \in 1..k
      PROVE  /\ containers[c].blocks = DraftOf(c - 1).blocks /\ containers[c].regions = DraftOf(c - 1).regions
             /\ Sound(c - 1, DraftOf(c - 1)) /\ c - 1 \in Nat /\ (c - 1) + 1 = c
             /\ DraftOf(c - 1).blocks \in Seq(Rects) /\ DraftOf(c - 1).regions \in Seq(Regions)
  <2>1. c - 1 \in Nat /\ (c - 1) + 1 = c
    BY <1>4
  <2>2. Sound(c - 1, DraftOf(c - 1))
    BY <1>3, <2>1
  <2> QED BY <2>1, <2>2 DEF Sound, DraftSet
<1> HIDE DEF value, containers
<1>7. Apart(containers, S, k)
  <2>1. ASSUME NEW c \in 1..k
        PROVE  /\ \E m \in Nat : DOMAIN containers[c].regions = 1..m
               /\ \A r \in DOMAIN containers[c].regions : containers[c].regions[r].id \in S /\ containers[c].regions[r].id[1] = c
               /\ \A q, r \in DOMAIN containers[c].regions :
                    containers[c].regions[q].id = containers[c].regions[r].id => q = r
    <3> DEFINE regions == DraftOf(c - 1).regions
    <3>1. containers[c].regions = regions /\ regions \in Seq(Regions) /\ Numbered(c - 1, regions) /\ (c - 1) + 1 = c
      BY <1>6 DEF Sound
    <3> HIDE DEF regions
    <3>2. \A r \in DOMAIN regions : regions[r].id \in S
      <4>1. \A r \in DOMAIN regions : regions[r] \in Regions
        BY <3>1
      <4> QED BY <4>1 DEF Regions
    <3>3. Len(regions) \in Nat /\ DOMAIN regions = 1..Len(regions)
      BY <3>1
    <3>4. /\ \A r \in DOMAIN regions : regions[r].id[1] = (c - 1) + 1
          /\ \A q, r \in DOMAIN regions : regions[q].id = regions[r].id => q = r
      BY <3>1, Zenon DEF Numbered
    <3> QED BY <3>1, <3>2, <3>3, <3>4, Zenon
  <2>2. k \in Nat /\ DOMAIN containers = 1..k
    BY <1>4, <1>5
  <2> HIDE DEF S
  <2> QED BY <2>1, <2>2, Zenon DEF Apart
<1>8. ASSUME NEW c \in 1..k
      PROVE  /\ \A b \in DOMAIN containers[c].blocks : IsBounds(containers[c].blocks[b])
             /\ \A r \in DOMAIN containers[c].regions :
                  /\ IsBounds(containers[c].regions[r].bounds)
                  /\ containers[c].regions[r].own \in RegionText(containers[c], containers[c].regions[r])
  <2> DEFINE d == DraftOf(c - 1)
  <2>1. /\ containers[c].blocks = d.blocks /\ containers[c].regions = d.regions /\ Sound(c - 1, d)
        /\ d.blocks \in Seq(Rects)
    BY <1>6
  <2> HIDE DEF d
  <2>2. \A r : Proper(r) => IsBounds(r) /\ Intersects(r, r)
    BY DEF Proper, IsBounds, Intersects, Rects
  <2>3. \A b \in DOMAIN d.blocks : Proper(d.blocks[b])
    BY <2>1 DEF Sound
  <2>4. ASSUME NEW r \in DOMAIN d.regions
        PROVE  /\ IsBounds(d.regions[r].bounds)
               /\ d.regions[r].own \in RegionText(containers[c], d.regions[r])
    <3>1. d.regions[r].own \in DOMAIN d.blocks /\ d.regions[r].bounds = d.blocks[d.regions[r].own]
      BY <2>1 DEF Sound
    <3>2. Len(d.blocks) \in Nat /\ DOMAIN d.blocks = 1..Len(d.blocks)
      BY <2>1
    <3>3. Intersects(containers[c].blocks[d.regions[r].own], d.regions[r].bounds)
      BY <2>1, <2>2, <2>3, <3>1
    <3>4. DOMAIN containers[c].blocks = 1..Len(d.blocks) /\ d.regions[r].own \in 1..Len(d.blocks)
      BY <2>1, <3>1, <3>2
    <3>5. d.regions[r].own \in RegionText(containers[c], d.regions[r])
      BY <3>2, <3>3, <3>4, OwnIsInText
    <3> QED BY <2>2, <2>3, <3>1, <3>5
  <2> QED BY <2>1, <2>2, <2>3, <2>4
<1>9. \A i \in DOMAIN outline : outline[i] < k
  BY <1>4 DEF DraftsInv
<1>10. Accepted(value)
  BY <1>5, <1>7, <1>8, <1>9, AcceptedFacts
<1>11. Cites(value)
  BY <1>5, <1>8 DEF Cites
<1> QED
  BY <1>1, <1>10, <1>11, FinishPhase

-----------------------------------------------------------------------------
(* Rectangles on a page.                                                     *)
LEMMA MeetFacts ==
  ASSUME NEW a \in Rects, NEW b \in Rects
  PROVE  /\ Meet(a, b) = Rect(Larger(a.x0, b.x0), Larger(a.y0, b.y0), Smaller(a.x1, b.x1), Smaller(a.y1, b.y1))
         /\ Meet(a, b) \in Rects
         /\ Meet(a, b) = Meet(b, a)
<1>1. ASSUME NEW u \in Int, NEW v \in Int
      PROVE  Max({u, v}) = Larger(u, v) /\ Min({u, v}) = Smaller(u, v) /\ Larger(u, v) \in Int /\ Smaller(u, v) \in Int
  BY TwoExtremes DEF Larger, Smaller
<1>2. /\ a.x0 \in Int /\ a.y0 \in Int /\ a.x1 \in Int /\ a.y1 \in Int
      /\ b.x0 \in Int /\ b.y0 \in Int /\ b.x1 \in Int /\ b.y1 \in Int
  BY DEF Rects
<1>3. Meet(a, b) = Rect(Larger(a.x0, b.x0), Larger(a.y0, b.y0), Smaller(a.x1, b.x1), Smaller(a.y1, b.y1))
  BY <1>1, <1>2 DEF Meet
<1>4. Meet(a, b) \in Rects
  <2>1. /\ Larger(a.x0, b.x0) \in Int /\ Larger(a.y0, b.y0) \in Int
        /\ Smaller(a.x1, b.x1) \in Int /\ Smaller(a.y1, b.y1) \in Int
    BY <1>2 DEF Larger, Smaller
  <2> QED BY ONLY <1>3, <2>1 DEF Rect, Rects
<1>5. Meet(a, b) = Meet(b, a)
  <2>1. \A u, v : {u, v} = {v, u}
    OBVIOUS
  <2> QED BY <2>1 DEF Meet
<1> QED
  BY <1>3, <1>4, <1>5

LEMMA AreaFacts ==
  ASSUME NEW r \in Rects
  PROVE  /\ Area(r) \in Nat
         /\ Area(r) # 0 => r.x0 < r.x1 /\ r.y0 < r.y1
         /\ r.x0 < r.x1 /\ r.y0 < r.y1 => Area(r) = (r.x1 - r.x0) * (r.y1 - r.y0) /\ Area(r) # 0
<1>1. /\ r.x0 \in Int /\ r.y0 \in Int /\ r.x1 \in Int /\ r.y1 \in Int
  BY DEF Rects
<1>2. /\ Width(r) = IF 0 >= r.x1 - r.x0 THEN 0 ELSE r.x1 - r.x0
      /\ Height(r) = IF 0 >= r.y1 - r.y0 THEN 0 ELSE r.y1 - r.y0
  <2>1. r.x1 - r.x0 \in Int /\ r.y1 - r.y0 \in Int /\ 0 \in Int
    BY <1>1
  <2>2. Width(r) = Max({0, r.x1 - r.x0}) /\ Height(r) = Max({0, r.y1 - r.y0})
    BY DEF Width, Height
  <2> DEFINE w == r.x1 - r.x0
             h == r.y1 - r.y0
  <2> HIDE DEF w, h
  <2>3. Max({0, w}) = (IF 0 >= w THEN 0 ELSE w) /\ Max({0, h}) = (IF 0 >= h THEN 0 ELSE h)
    BY <2>1, TwoExtremes DEF w, h
  <2> QED BY <2>2, <2>3 DEF w, h
<1> DEFINE w == Width(r)
           h == Height(r)
<1>3. /\ w \in Nat /\ h \in Nat
      /\ w # 0 => r.x0 < r.x1
      /\ h # 0 => r.y0 < r.y1
      /\ r.x0 < r.x1 => w = r.x1 - r.x0 /\ w # 0
      /\ r.y0 < r.y1 => h = r.y1 - r.y0 /\ h # 0
  <2> HIDE DEF w, h
  <2> QED BY <1>1, <1>2 DEF w, h
<1>4. Area(r) = w * h
  BY DEF Area
<1> HIDE DEF w, h
<1>5. w * h \in Nat /\ (w * h # 0 => w # 0 /\ h # 0) /\ (w # 0 /\ h # 0 => w * h # 0)
  BY <1>3
<1> QED
  BY <1>3, <1>4, <1>5

(* A rectangle within another has no larger area.                            *)
LEMMA AreaGrows ==
  ASSUME NEW a \in Rects, NEW b \in Rects, Meet(a, b) = a, a.x0 < a.x1, a.y0 < a.y1
  PROVE  Area(a) <= Area(b)
<1>1. /\ a.x0 \in Int /\ a.y0 \in Int /\ a.x1 \in Int /\ a.y1 \in Int
      /\ b.x0 \in Int /\ b.y0 \in Int /\ b.x1 \in Int /\ b.y1 \in Int
  BY DEF Rects
<1>2. a = Rect(Larger(a.x0, b.x0), Larger(a.y0, b.y0), Smaller(a.x1, b.x1), Smaller(a.y1, b.y1))
  BY MeetFacts
<1>3. b.x0 <= a.x0 /\ b.y0 <= a.y0 /\ a.x1 <= b.x1 /\ a.y1 <= b.y1
  <2>1. /\ a.x0 = Larger(a.x0, b.x0) /\ a.y0 = Larger(a.y0, b.y0)
        /\ a.x1 = Smaller(a.x1, b.x1) /\ a.y1 = Smaller(a.y1, b.y1)
    BY <1>2 DEF Rect
  <2> QED BY <1>1, <2>1 DEF Larger, Smaller
<1> DEFINE u == a.x1 - a.x0
           v == a.y1 - a.y0
           w == b.x1 - b.x0
           h == b.y1 - b.y0
<1>4. u \in Nat /\ v \in Nat /\ w \in Nat /\ h \in Nat /\ u <= w /\ v <= h
  BY <1>1, <1>3
<1>5. Area(a) = u * v /\ Area(b) = w * h
  <2>1. b.x0 < b.x1 /\ b.y0 < b.y1
    BY <1>1, <1>3
  <2> QED BY <2>1, AreaFacts
<1> HIDE DEF u, v, w, h
<1>6. u * v <= w * h
  <2>1. u * v <= w * v
    BY <1>4
  <2>2. w * v <= w * h
    BY <1>4
  <2>3. u * v \in Int /\ w * v \in Int /\ w * h \in Int
    BY <1>4
  <2> QED BY <2>1, <2>2, <2>3
<1> QED
  BY <1>5, <1>6

(* What lies on a page.                                                      *)
Lies(r, p) ==
  r \in Rects /\ 0 <= r.x0 /\ r.x0 <= r.x1 /\ r.x1 <= p.width /\ 0 <= r.y0 /\ r.y0 <= r.y1 /\ r.y1 <= p.height

LEMMA SheetFacts ==
  ASSUME page.width \in Nat \ {0}, page.height \in Nat \ {0}
  PROVE  /\ Sheet \in Rects /\ Proper(Sheet) /\ Lies(Sheet, page)
         /\ Sheet.x0 = 0 /\ Sheet.y0 = 0 /\ Sheet.x1 = page.width /\ Sheet.y1 = page.height
         /\ \A r : Lies(r, page) => IsBounds(r) /\ Meet(r, Sheet) = r
<1>1. Sheet.x0 = 0 /\ Sheet.y0 = 0 /\ Sheet.x1 = page.width /\ Sheet.y1 = page.height /\ Sheet \in Rects
  BY DEF Sheet, Rect, Rects
<1>2. Proper(Sheet) /\ Lies(Sheet, page)
  BY <1>1 DEF Proper, Lies
<1>3. ASSUME NEW r, Lies(r, page)
      PROVE  IsBounds(r) /\ Meet(r, Sheet) = r
  <2>1. /\ r \in Rects /\ r.x0 \in Int /\ r.y0 \in Int /\ r.x1 \in Int /\ r.y1 \in Int
        /\ r = Rect(r.x0, r.y0, r.x1, r.y1)
    BY <1>3 DEF Lies, Rects, Rect
  <2>2. /\ 0 <= r.x0 /\ r.x0 <= r.x1 /\ r.x1 <= page.width
        /\ 0 <= r.y0 /\ r.y0 <= r.y1 /\ r.y1 <= page.height
    BY <1>3 DEF Lies
  <2>3. Meet(r, Sheet) = Rect(Larger(r.x0, 0), Larger(r.y0, 0), Smaller(r.x1, page.width), Smaller(r.y1, page.height))
    BY <1>1, <2>1, MeetFacts
  <2>4. Larger(r.x0, 0) = r.x0 /\ Larger(r.y0, 0) = r.y0 /\ Smaller(r.x1, page.width) = r.x1 /\ Smaller(r.y1, page.height) = r.y1
    BY <2>1, <2>2 DEF Larger, Smaller
  <2> QED BY <2>1, <2>2, <2>3, <2>4 DEF IsBounds
<1> QED
  BY <1>1, <1>2, <1>3

LEMMA MeetLies ==
  ASSUME page.width \in Nat \ {0}, page.height \in Nat \ {0}, NEW r \in Rects, Area(Meet(r, Sheet)) # 0
  PROVE  Lies(Meet(r, Sheet), page) /\ Proper(Meet(r, Sheet))
<1> DEFINE m == Meet(r, Sheet)
<1>1. /\ m = Rect(Larger(r.x0, 0), Larger(r.y0, 0), Smaller(r.x1, page.width), Smaller(r.y1, page.height))
      /\ m \in Rects
  BY SheetFacts, MeetFacts
<1>2. r.x0 \in Int /\ r.y0 \in Int /\ r.x1 \in Int /\ r.y1 \in Int
  BY DEF Rects
<1>3. m.x0 < m.x1 /\ m.y0 < m.y1
  BY <1>1, AreaFacts
<1>4. /\ m.x0 = Larger(r.x0, 0) /\ m.y0 = Larger(r.y0, 0)
      /\ m.x1 = Smaller(r.x1, page.width) /\ m.y1 = Smaller(r.y1, page.height)
  BY <1>1 DEF Rect
<1> HIDE DEF m
<1>5. 0 <= m.x0 /\ 0 <= m.y0 /\ m.x1 <= page.width /\ m.y1 <= page.height
  BY <1>2, <1>4 DEF Larger, Smaller
<1>6. m.x0 \in Int /\ m.y0 \in Int /\ m.x1 \in Int /\ m.y1 \in Int
  BY <1>1 DEF Rects
<1>7. Lies(m, page) /\ Proper(m)
  BY <1>1, <1>3, <1>5, <1>6 DEF Lies, Proper
<1> QED
  BY <1>7 DEF m

LEMMA ClippedFacts ==
  ASSUME page.width \in Nat \ {0}, page.height \in Nat \ {0}, NEW r \in Rects
  PROVE  Clipped(r) = <<>> \/ \E m : Clipped(r) = <<m>> /\ Lies(m, page) /\ Proper(m)
BY MeetLies DEF Clipped

LEMMA ImageIsFinite ==
  ASSUME NEW S, IsFiniteSet(S), NEW f
  PROVE  IsFiniteSet({f[x] : x \in S})
<1> DEFINE T == {f[x] : x \in S}
           g == [x \in S |-> f[x]]
<1>1. g \in Surjection(S, T)
  BY DEF Surjection
<1> HIDE DEF g
<1> QED
  BY <1>1, FS_Surjection

LEMMA HullFacts ==
  ASSUME NEW boxes, IsFiniteSet(boxes), boxes \subseteq Rects, boxes # {}
  PROVE  Hull(boxes) \in Rects
<1>1. ASSUME NEW f, \A b \in boxes : f[b] \in Int
      PROVE  Min({f[b] : b \in boxes}) \in Int /\ Max({f[b] : b \in boxes}) \in Int
  <2> DEFINE T == {f[b] : b \in boxes}
  <2>1. IsFiniteSet(T) /\ T # {} /\ T \subseteq Int
    BY <1>1, ImageIsFinite
  <2> HIDE DEF T
  <2>2. Min(T) \in Int /\ Max(T) \in Int
    BY <2>1, Extremes
  <2> QED BY <2>2 DEF T
<1>2. \A b \in boxes : b.x0 \in Int /\ b.y0 \in Int /\ b.x1 \in Int /\ b.y1 \in Int
  BY DEF Rects
<1>3. Min({b.x0 : b \in boxes}) \in Int
  <2> DEFINE f == [b \in boxes |-> b.x0]
  <2>1. (\A b \in boxes : f[b] \in Int) /\ {f[b] : b \in boxes} = {b.x0 : b \in boxes}
    BY <1>2
  <2> HIDE DEF f
  <2> QED BY <1>1, <2>1
<1>4. Min({b.y0 : b \in boxes}) \in Int
  <2> DEFINE f == [b \in boxes |-> b.y0]
  <2>1. (\A b \in boxes : f[b] \in Int) /\ {f[b] : b \in boxes} = {b.y0 : b \in boxes}
    BY <1>2
  <2> HIDE DEF f
  <2> QED BY <1>1, <2>1
<1>5. Max({b.x1 : b \in boxes}) \in Int
  <2> DEFINE f == [b \in boxes |-> b.x1]
  <2>1. (\A b \in boxes : f[b] \in Int) /\ {f[b] : b \in boxes} = {b.x1 : b \in boxes}
    BY <1>2
  <2> HIDE DEF f
  <2> QED BY <1>1, <2>1
<1>6. Max({b.y1 : b \in boxes}) \in Int
  <2> DEFINE f == [b \in boxes |-> b.y1]
  <2>1. (\A b \in boxes : f[b] \in Int) /\ {f[b] : b \in boxes} = {b.y1 : b \in boxes}
    BY <1>2
  <2> HIDE DEF f
  <2> QED BY <1>1, <2>1
<1> QED
  BY <1>3, <1>4, <1>5, <1>6 DEF Hull, Rect, Rects

(* The tables a page may have: at most two, and neither within the other.    *)
Told(s) ==
  /\ \A i \in DOMAIN s : Lies(s[i], page) /\ Proper(s[i])
  /\ \E m \in Nat : DOMAIN s = 1..m
OnePiece(s) == s = <<>> \/ \E m : s = <<m>> /\ Lies(m, page) /\ Proper(m)

LEMMA ElementsAreFinite ==
  ASSUME NEW S, NEW s \in Seq(S)
  PROVE  IsFiniteSet(ToSet(s)) /\ ToSet(s) \subseteq S
<1>1. Len(s) \in Nat /\ DOMAIN s = 1..Len(s)
  OBVIOUS
<1>2. ToSet(s) = {s[i] : i \in 1..Len(s)}
  BY <1>1 DEF ToSet
<1>3. IsFiniteSet(1..Len(s))
  BY <1>1, FS_Interval
<1> QED
  BY <1>1, <1>2, <1>3, ImageIsFinite

LEMMA AlignedFacts ==
  ASSUME page \in PdfPages
  PROVE  OnePiece(AlignedTable)
<1> DEFINE Words == [line : Nat, box : Rects]
           candidates == {l \in {w.line : w \in ToSet(page.words)} : Cardinality(Cells(l)) >= 2}
           stable     == {c \in UNION {Columns(l) : l \in candidates} :
                            Cardinality({l \in candidates : c \in Columns(l)}) >= ColumnLines}
           aligned    == {l \in candidates : Cardinality(Columns(l) \cap stable) >= 2}
           chosen     == {v \in ToSet(page.words) : v.line \in aligned}
           boxes      == {w.box : w \in chosen}
           small      == Cardinality(candidates) < TableLines \/ Cardinality(aligned) < TableLines
<1>1. AlignedTable = IF small THEN <<>> ELSE Clipped(Hull(boxes))
  BY DEF AlignedTable
<1>2. page.width \in Nat \ {0} /\ page.height \in Nat \ {0} /\ page.words \in Seq(Words) /\ TableLines \in Nat \ {0}
  BY PageAssumption
<1>3. IsFiniteSet(ToSet(page.words)) /\ ToSet(page.words) \subseteq Words
  <2> HIDE DEF Words
  <2> QED BY <1>2, ElementsAreFinite
<1>4. \A l \in aligned : \E w \in ToSet(page.words) : w.line = l
  OBVIOUS
<1> HIDE DEF candidates, stable, aligned
<1>5. IsFiniteSet(chosen) /\ chosen \subseteq Words
  <2>1. chosen \in SUBSET ToSet(page.words)
    OBVIOUS
  <2> HIDE DEF chosen
  <2> QED BY <1>3, <2>1, FS_Subset
<1>6. ~small => boxes # {}
  <2> SUFFICES ASSUME ~small PROVE boxes # {}
    OBVIOUS
  <2>1. aligned # {}
    <3>1. aligned = {} => Cardinality(aligned) = 0
      BY FS_EmptySet
    <3> QED BY <1>2, <3>1
  <2>2. PICK l \in aligned : TRUE
    BY <2>1
  <2>3. PICK w \in ToSet(page.words) : w.line = l
    BY <1>4
  <2>4. w \in chosen
    BY <2>3
  <2>5. w.box \in boxes
    BY <2>4
  <2> QED BY <2>5
<1>7. IsFiniteSet(boxes) /\ boxes \subseteq Rects
  <2> DEFINE f == [w \in chosen |-> w.box]
  <2>1. {f[w] : w \in chosen} = boxes
    OBVIOUS
  <2>2. boxes \subseteq Rects
    BY <1>5
  <2> HIDE DEF f, chosen, boxes
  <2> QED BY <1>5, <2>1, <2>2, ImageIsFinite
<1> HIDE DEF boxes, small
<1>8. CASE ~small
  <2>1. Hull(boxes) \in Rects
    BY <1>6, <1>7, <1>8, HullFacts
  <2> QED BY <1>1, <1>2, <1>8, <2>1, ClippedFacts DEF OnePiece
<1>9. CASE small
  BY <1>1, <1>9 DEF OnePiece
<1> QED
  BY <1>8, <1>9

(* A sequence one longer.                                                    *)
LEMMA OneMore ==
  ASSUME NEW S, NEW s \in Seq(S), NEW r \in S
  PROVE  /\ s \o <<r>> \in Seq(S) /\ Len(s \o <<r>>) = Len(s) + 1
         /\ DOMAIN (s \o <<r>>) = 1..(Len(s) + 1)
         /\ \A i \in 1..Len(s) : (s \o <<r>>)[i] = s[i]
         /\ (s \o <<r>>)[Len(s) + 1] = r
<1> DEFINE one == <<r>>
           m   == Len(s)
           t   == s \o one
<1>1. one \in Seq(S) /\ Len(one) = 1 /\ one[1] = r /\ m \in Nat
  OBVIOUS
<1> HIDE DEF one
<1>2. t \in Seq(S) /\ Len(t) = m + Len(one) /\ \A i \in 1..(m + Len(one)) : t[i] = IF i <= m THEN s[i] ELSE one[i - m]
  BY <1>1, ConcatProperties, Zenon
<1> HIDE DEF t
<1>3. Len(t) = m + 1 /\ DOMAIN t = 1..(m + 1)
  BY <1>1, <1>2
<1>4. m + 1 \in 1..(m + 1) /\ ~(m + 1 <= m) /\ (m + 1) - m = 1 /\ \A i \in 1..m : i \in 1..(m + 1) /\ i <= m
  <2> HIDE DEF m
  <2> QED BY <1>1
<1>5. t[m + 1] = r /\ \A i \in 1..m : t[i] = s[i]
  <2> HIDE DEF m
  <2> QED BY <1>1, <1>2, <1>4
<1> QED
  BY <1>2, <1>3, <1>5, Zenon DEF t, one

LEMMA TwoInOrder ==
  ASSUME NEW a, NEW b
  PROVE  /\ DOMAIN (<<a>> \o <<b>>) = 1..2
         /\ (<<a>> \o <<b>>)[1] = a /\ (<<a>> \o <<b>>)[2] = b
OBVIOUS

LEMMA ExtremesAreInt ==
  ASSUME NEW a \in Int, NEW b \in Int
  PROVE  Min({a, b}) \in Int /\ Max({a, b}) \in Int
BY TwoExtremes

LEMMA OrderedFacts ==
  ASSUME NEW r \in Rects
  PROVE  Ordered(r) \in Rects
<1>1. r.x0 \in Int /\ r.y0 \in Int /\ r.x1 \in Int /\ r.y1 \in Int
  BY DEF Rects
<1>2. /\ Min({r.x0, r.x1}) \in Int /\ Min({r.y0, r.y1}) \in Int
      /\ Max({r.x0, r.x1}) \in Int /\ Max({r.y0, r.y1}) \in Int
  BY <1>1, ExtremesAreInt
<1> QED
  BY <1>2 DEF Ordered, Rect, Rects

LEMMA RuledFacts ==
  ASSUME page \in PdfPages
  PROVE  OnePiece(RuledTable)
<1> DEFINE Drawn  == [kind : {"l", "re"}, box : Rects]
           all    == ToSet(page.drawings)
           wide   == {i \in DOMAIN page.drawings : Wide(page.drawings[i])}
           tall   == {i \in DOMAIN page.drawings : Tall(page.drawings[i])}
           across == MapThenSumSet(LAMBDA i : IF page.drawings[i].kind = "re" THEN 2 ELSE 1, wide)
           down   == MapThenSumSet(LAMBDA i : IF page.drawings[i].kind = "re" THEN 2 ELSE 1, tall)
           chosen == {e \in all : e.kind = "re" \/ Wide(e) \/ Tall(e)}
           boxes  == {Ordered(d.box) : d \in chosen}
           few    == across < 3 \/ down < 2
<1>1. RuledTable = IF few THEN <<>> ELSE Clipped(Hull(boxes))
  BY DEF RuledTable
<1>2. page.width \in Nat \ {0} /\ page.height \in Nat \ {0} /\ page.drawings \in Seq(Drawn)
  BY PageAssumption
<1>3. IsFiniteSet(all) /\ all \subseteq Drawn
  <2> HIDE DEF Drawn
  <2> QED BY <1>2, ElementsAreFinite
<1>4. wide = {} => across = 0
  <2> DEFINE w == [i \in wide |-> IF page.drawings[i].kind = "re" THEN 2 ELSE 1]
  <2>1. across = Total(w, wide)
    <3> HIDE DEF wide
    <3> QED BY ZenonT(30) DEF MapThenSumSet, MapThenFoldSet, SumRec, Total, Chosen
  <2>2. wide = {} => Total(w, wide) = 0
    <3> HIDE DEF w, wide
    <3> QED BY SumStep, FS_EmptySet
  <2> QED BY <2>1, <2>2
<1>5. ~few => boxes # {}
  <2> SUFFICES ASSUME ~few PROVE boxes # {}
    OBVIOUS
  <2>1. wide # {}
    <3>1. ~(across < 3)
      <4> HIDE DEF across, down
      <4> QED OBVIOUS
    <3>2. across # 0
      <4> HIDE DEF across
      <4> QED BY ONLY <3>1
    <3> HIDE DEF wide, across
    <3> QED BY <1>4, <3>2
  <2>2. PICK i \in DOMAIN page.drawings : Wide(page.drawings[i])
    BY <2>1
  <2>3. page.drawings[i] \in chosen
    BY <2>2 DEF ToSet
  <2>4. Ordered(page.drawings[i].box) \in boxes
    BY <2>3
  <2> QED BY <2>4
<1>6. IsFiniteSet(chosen) /\ chosen \subseteq Drawn
  <2>1. chosen \in SUBSET all
    OBVIOUS
  <2> HIDE DEF chosen, all
  <2> QED BY <1>3, <2>1, FS_Subset
<1>7. IsFiniteSet(boxes) /\ boxes \subseteq Rects
  <2> DEFINE f == [d \in chosen |-> Ordered(d.box)]
  <2>1. {f[d] : d \in chosen} = boxes
    OBVIOUS
  <2>2. boxes \subseteq Rects
    <3>1. \A d \in chosen : d.box \in Rects
      BY <1>6
    <3> HIDE DEF chosen
    <3> QED BY <3>1, OrderedFacts
  <2> HIDE DEF f, chosen, boxes
  <2> QED BY <1>6, <2>1, <2>2, ImageIsFinite
<1> HIDE DEF boxes, few
<1>8. CASE ~few
  <2>1. Hull(boxes) \in Rects
    BY <1>5, <1>7, <1>8, HullFacts
  <2> QED BY <1>1, <1>2, <1>8, <2>1, ClippedFacts DEF OnePiece
<1>9. CASE few
  BY <1>1, <1>9 DEF OnePiece
<1> QED
  BY <1>8, <1>9

LEMMA NestedIsSame ==
  ASSUME NEW a, NEW b, Proper(a), Proper(b), Meet(a, b) = a
  PROVE  MostlySame(a, b) /\ MostlySame(b, a)
<1>1. a \in Rects /\ b \in Rects /\ a.x0 < a.x1 /\ a.y0 < a.y1
  BY DEF Proper
<1>2. Area(a) \in Nat /\ Area(b) \in Nat /\ Area(a) # 0 /\ Area(a) <= Area(b)
  BY <1>1, AreaFacts, AreaGrows
<1> DEFINE u == Area(a)
           v == Area(b)
<1>3. Area(Meet(a, b)) = u /\ Area(Meet(b, a)) = u
  <2>1. Meet(b, a) = a
    BY <1>1, MeetFacts
  <2> QED BY <2>1
<1> HIDE DEF u, v
<1>4. u \in Nat /\ v \in Nat /\ u # 0 /\ u <= v
  BY <1>2 DEF u, v
<1>5. Min({u, v}) = u /\ Min({v, u}) = u
  <2>1. {u, v} = {v, u}
    OBVIOUS
  <2>2. Min({u, v}) = IF u <= v THEN u ELSE v
    BY <1>4, TwoExtremes
  <2> QED BY <1>4, <2>1, <2>2
<1>6. Max({1, u}) = u
  <2>1. Max({1, u}) = IF 1 >= u THEN 1 ELSE u
    <3>1. 1 \in Int /\ u \in Int
      BY <1>4
    <3> QED BY <3>1, TwoExtremes
  <2> QED BY <1>4, <2>1
<1>7. 10 * u >= 8 * u
  BY <1>4
<1> QED
  BY <1>3, <1>5, <1>6, <1>7 DEF MostlySame, u, v

LEMMA TableFacts ==
  ASSUME page \in PdfPages
  PROVE  /\ Told(FoundTables)
         /\ \A i, j \in DOMAIN FoundTables : i # j => Meet(FoundTables[i], FoundTables[j]) # FoundTables[i]
<1> DEFINE R == RuledTable
           A == AlignedTable
           T == FoundTables
<1>1. /\ R = <<>> \/ \E m : R = <<m>> /\ Lies(m, page) /\ Proper(m)
      /\ A = <<>> \/ \E m : A = <<m>> /\ Lies(m, page) /\ Proper(m)
  BY RuledFacts, AlignedFacts DEF OnePiece
<1>2. T = IF R # <<>> /\ A # <<>> /\ MostlySame(R[1], A[1]) THEN R ELSE R \o A
  BY DEF FoundTables
<1> HIDE DEF R, A, T
<1>3. ASSUME T = <<>> \/ \E m : T = <<m>> /\ Lies(m, page) /\ Proper(m)
      PROVE  Told(T) /\ \A i, j \in DOMAIN T : i # j => Meet(T[i], T[j]) # T[i]
  <2>1. CASE T = <<>>
    <3>1. DOMAIN T = 1..0
      BY <2>1
    <3> QED BY <3>1 DEF Told
  <2>2. CASE \E m : T = <<m>> /\ Lies(m, page) /\ Proper(m)
    <3>1. DOMAIN T = 1..1 /\ Lies(T[1], page) /\ Proper(T[1])
      BY <2>2
    <3> QED BY <3>1 DEF Told
  <2> QED BY <1>3, <2>1, <2>2
<1>4. CASE R = <<>>
  <2>1. T = A
    BY <1>1, <1>2, <1>4
  <2> QED BY <1>1, <1>3, <2>1 DEF T
<1>5. CASE A = <<>>
  <2>1. T = R
    BY <1>1, <1>2, <1>5
  <2> QED BY <1>1, <1>3, <2>1 DEF T
<1>6. CASE R # <<>> /\ A # <<>>
  <2>1. PICK r : R = <<r>> /\ Lies(r, page) /\ Proper(r)
    BY <1>1, <1>6
  <2>2. PICK a : A = <<a>> /\ Lies(a, page) /\ Proper(a)
    BY <1>1, <1>6
  <2>3. CASE MostlySame(r, a)
    <3>1. T = R
      BY <1>2, <2>1, <2>2, <2>3
    <3> QED BY <1>1, <1>3, <3>1 DEF T
  <2>4. CASE ~MostlySame(r, a)
    <3>1. T = R \o A
      <4>1. R[1] = r /\ A[1] = a
        BY <2>1, <2>2
      <4> QED BY <1>2, <2>4, <4>1
    <3>2. DOMAIN T = 1..2 /\ T[1] = r /\ T[2] = a
      <4>1. T = <<r>> \o <<a>>
        BY <2>1, <2>2, <3>1, Zenon
      <4> HIDE DEF T
      <4> QED BY <4>1, TwoInOrder, Zenon
    <3>3. \A i \in 1..2 : i = 1 \/ i = 2
      OBVIOUS
    <3>4. Told(T)
      BY <2>1, <2>2, <3>2, <3>3 DEF Told
    <3>5. Meet(r, a) # r /\ Meet(a, r) # a
      BY <2>1, <2>2, <2>4, NestedIsSame
    <3> HIDE DEF T
    <3>6. \A i, j \in DOMAIN T : i # j => Meet(T[i], T[j]) # T[i]
      BY <3>2, <3>3, <3>5, ZenonT(30)
    <3> QED BY <3>4, <3>6 DEF T
  <2> QED BY <2>3, <2>4
<1> QED
  BY <1>4, <1>5, <1>6

(* What is asked of the blocks and the regions of a page.                    *)
RegionTypes == {"image", "table", "scanned-page", "ocr-table", "ocr-low-confidence"}
PageBlocks(blocks_) ==
  /\ \E k \in Nat : DOMAIN blocks_ = 1..k
  /\ \A b \in DOMAIN blocks_ : Lies(blocks_[b], page)
PageRegions(regions) ==
  /\ \E k \in Nat : DOMAIN regions = 1..k
  /\ \A r \in DOMAIN regions : /\ regions[r].id \in Nat \X RegionTypes \X Nat /\ regions[r].id[1] = 1
                               /\ regions[r].own = 0 /\ Lies(regions[r].bounds, page)
  /\ \A q, r \in DOMAIN regions : regions[q].id = regions[r].id => q = r
  /\ \A i, j \in DOMAIN regions :
       i # j /\ regions[i].id[2] = "table" /\ regions[j].id[2] = "table" =>
         Meet(regions[i].bounds, regions[j].bounds) # regions[i].bounds

LEMMA NativeBlocksFacts ==
  ASSUME page \in PdfPages
  PROVE  PageBlocks(NativeBlocks)
<1> DEFINE S == {r \in Rects : Lies(r, page)}
           part(b) == IF page.blocks[b].ink = 0 THEN <<>> ELSE Clipped(page.blocks[b].box)
           q == [b \in DOMAIN page.blocks |-> part(b)]
           Found == [box : Rects, ink : Nat, bad : Nat]
<1>1. page.width \in Nat \ {0} /\ page.height \in Nat \ {0} /\ page.blocks \in Seq(Found)
  BY PageAssumption
<1>2. ASSUME NEW b \in DOMAIN page.blocks
      PROVE  part(b) \in Seq(S)
  <2>1. page.blocks[b].box \in Rects
    <3>1. page.blocks[b] \in Found
      <4> HIDE DEF Found
      <4> QED BY <1>1
    <3> QED BY <3>1
  <2>2. Clipped(page.blocks[b].box) = <<>> \/ \E m : Clipped(page.blocks[b].box) = <<m>> /\ Lies(m, page) /\ Proper(m)
    BY <1>1, <2>1, ClippedFacts
  <2>3. \A m : Lies(m, page) => m \in S
    BY DEF Lies
  <2>4. Clipped(page.blocks[b].box) = <<>> \/ \E m \in S : Clipped(page.blocks[b].box) = <<m>>
    BY <2>2, <2>3
  <2> HIDE DEF S
  <2>5. \A m \in S : <<m>> \in Seq(S)
    OBVIOUS
  <2>6. <<>> \in Seq(S)
    OBVIOUS
  <2>7. Clipped(page.blocks[b].box) \in Seq(S)
    BY ONLY <2>4, <2>5, <2>6
  <2> QED BY <2>6, <2>7
<1>3. q \in Seq(Seq(S))
  <2>1. Len(page.blocks) \in Nat /\ DOMAIN page.blocks = 1..Len(page.blocks)
    BY <1>1
  <2> HIDE DEF S, part
  <2> QED BY <1>2, <2>1
<1>4. NativeBlocks = FlattenSeq(q)
  BY DEF NativeBlocks
<1> HIDE DEF q, S
<1>5. NativeBlocks \in Seq(S)
  BY <1>3, <1>4, FlattenFacts
<1>6. /\ Len(NativeBlocks) \in Nat /\ DOMAIN NativeBlocks = 1..Len(NativeBlocks)
      /\ \A b \in DOMAIN NativeBlocks : NativeBlocks[b] \in S
  BY <1>5
<1>7. \A r \in S : Lies(r, page)
  BY DEF S
<1> QED
  BY <1>6, <1>7 DEF PageBlocks

LEMMA NativeRegionsFacts ==
  ASSUME page \in PdfPages
  PROVE  PageRegions(NativeRegions)
<1> DEFINE Images   == [box : Rects, width : Nat, height : Nat, embedded : BOOLEAN]
           image(i) == Clipped(page.images[i].box)
           shown    == {i \in DOMAIN page.images : image(i) # <<>> /\ 1000 * Area(image(i)[1]) >= 5 * Area(Sheet)}
           m        == Cardinality(shown)
           A        == Ascending(shown)
           first    == [k \in 1..m |-> Region("image", A[k], image(A[k])[1])]
           T        == FoundTables
           second   == IF MayContainTable THEN [t \in DOMAIN T |-> Region("table", t, T[t])] ELSE <<>>
           all      == first \o second
           Good(g)  == /\ g.id \in Nat \X RegionTypes \X Nat /\ g.id[1] = 1 /\ g.own = 0 /\ Lies(g.bounds, page)
<1>1. page.width \in Nat \ {0} /\ page.height \in Nat \ {0} /\ page.images \in Seq(Images)
  BY PageAssumption
<1>2. NativeRegions = all
  BY DEF NativeRegions
<1>3. /\ Len(page.images) \in Nat /\ DOMAIN page.images = 1..Len(page.images)
      /\ \A i \in DOMAIN page.images : page.images[i].box \in Rects
  <2>1. \A i \in DOMAIN page.images : page.images[i] \in Images
    <3> HIDE DEF Images
    <3> QED BY <1>1
  <2> QED BY <1>1, <2>1
<1>4. \A i \in shown : Lies(image(i)[1], page) /\ i \in Nat
  <2> SUFFICES ASSUME NEW i \in shown PROVE Lies(image(i)[1], page) /\ i \in Nat
    OBVIOUS
  <2>1. i \in DOMAIN page.images /\ i \in Nat /\ image(i) # <<>>
    BY <1>3
  <2>2. image(i) = <<>> \/ \E r : image(i) = <<r>> /\ Lies(r, page) /\ Proper(r)
    BY <1>1, <1>3, <2>1, ClippedFacts
  <2> HIDE DEF image, shown
  <2> QED BY <2>1, <2>2
<1>5. IsFiniteSet(shown) /\ shown \subseteq Int
  <2>1. shown \in SUBSET (1..Len(page.images)) /\ shown \subseteq Int
    BY <1>3
  <2>2. IsFiniteSet(1..Len(page.images))
    BY <1>3, FS_Interval
  <2> HIDE DEF shown
  <2> QED BY <2>1, <2>2, FS_Subset
<1> HIDE DEF shown
<1>6. /\ m \in Nat /\ \A k \in 1..m : A[k] \in shown
      /\ \A k, l \in 1..m : A[k] = A[l] => k = l
  <2>1. m \in Nat /\ \A k \in 1..m : A[k] \in shown /\ Rank(shown, A[k]) = k
    BY <1>5, AscendingFacts
  <2> HIDE DEF A, m
  <2> QED BY <2>1
<1> HIDE DEF A, m, image
<1>7. \A type, n, r : /\ Region(type, n, r).id = <<1, type, n>> /\ Region(type, n, r).own = 0
                      /\ Region(type, n, r).bounds = r
  BY DEF Region
<1>70. \A type \in RegionTypes, n \in Nat : \A r : Lies(r, page) => Good(Region(type, n, r))
  <2> SUFFICES ASSUME NEW type \in RegionTypes, NEW n \in Nat, NEW r, Lies(r, page)
               PROVE  Good(Region(type, n, r))
    OBVIOUS
  <2> DEFINE g == Region(type, n, r)
  <2>1. g.id = <<1, type, n>> /\ g.own = 0 /\ g.bounds = r
    BY <1>7
  <2> HIDE DEF g
  <2>2. Good(g)
    BY <2>1
  <2> QED BY <2>2 DEF g
<1>71. "image" \in RegionTypes /\ "table" \in RegionTypes
  BY DEF RegionTypes
<1> HIDE DEF Good
<1>8. /\ first \in Seq({Region("image", n, r) : n \in Nat, r \in Rects}) /\ Len(first) = m
      /\ \A k \in 1..m : Good(first[k]) /\ first[k].id = <<1, "image", A[k]>>
  <2>1. \A k \in 1..m : first[k] = Region("image", A[k], image(A[k])[1]) /\ A[k] \in Nat /\ Lies(image(A[k])[1], page)
    BY <1>4, <1>6
  <2> HIDE DEF first
  <2>2. \A k \in 1..m : Good(first[k]) /\ first[k].id = <<1, "image", A[k]>>
    <3> SUFFICES ASSUME NEW k \in 1..m
                 PROVE  Good(first[k]) /\ first[k].id = <<1, "image", A[k]>>
      OBVIOUS
    <3>1. Good(Region("image", A[k], image(A[k])[1]))
      BY <1>70, <1>71, <2>1
    <3>2. Region("image", A[k], image(A[k])[1]).id = <<1, "image", A[k]>>
      BY <1>7
    <3> QED BY <2>1, <3>1, <3>2
  <2>3. \A k \in 1..m : first[k] \in {Region("image", n, r) : n \in Nat, r \in Rects}
    BY <2>1 DEF Lies
  <2>4. first \in Seq({Region("image", n, r) : n \in Nat, r \in Rects}) /\ Len(first) = m
    <3> DEFINE S == {Region("image", n, r) : n \in Nat, r \in Rects}
    <3>1. first = [k \in 1..m |-> first[k]]
      BY DEF first
    <3> HIDE DEF S, first
    <3>2. \A k \in 1..m : first[k] \in S
      BY <2>3 DEF S
    <3>3. first \in Seq(S) /\ Len(first) = m
      BY <1>6, <3>1, <3>2
    <3> QED BY <3>3 DEF S
  <2> QED BY <2>2, <2>4
<1>9. /\ Told(T) /\ \A i, j \in DOMAIN T : i # j => Meet(T[i], T[j]) # T[i]
  BY TableFacts
<1> HIDE DEF T, first
<1> DEFINE t == Len(second)
<1>10. /\ second \in Seq({Region("table", n, r) : n \in Nat, r \in Rects}) /\ t \in Nat
       /\ \A k \in 1..t : /\ k \in DOMAIN T /\ Good(second[k])
                          /\ second[k].id = <<1, "table", k>> /\ second[k].bounds = T[k]
  <2> DEFINE S == {Region("table", n, r) : n \in Nat, r \in Rects}
  <2>1. CASE ~MayContainTable
    <3>1. second = <<>> /\ <<>> \in Seq(S)
      <4> HIDE DEF S
      <4> QED BY <2>1
    <3> HIDE DEF second
    <3>2. t = 0 /\ second \in Seq(S) /\ 1..t = {}
      BY ONLY <3>1 DEF t
    <3> QED BY <3>2 DEF S
  <2>2. CASE MayContainTable
    <3>1. PICK l \in Nat : DOMAIN T = 1..l
      BY <1>9 DEF Told
    <3>2. second = [k \in 1..l |-> Region("table", k, T[k])]
      BY <2>2, <3>1
    <3> HIDE DEF second
    <3>3. \A k \in 1..l : Lies(T[k], page)
      BY <1>9, <3>1 DEF Told
    <3>4. \A k \in 1..l : second[k] = Region("table", k, T[k]) /\ second[k] \in S
      BY <3>2, <3>3 DEF Lies
    <3>5. second \in Seq(S) /\ t = l
      <4> HIDE DEF S
      <4>1. second = [k \in 1..l |-> second[k]]
        BY <3>2
      <4> QED BY <3>1, <3>4, <4>1
    <3>6. ASSUME NEW k \in 1..l
          PROVE  /\ k \in DOMAIN T /\ Good(second[k])
                 /\ second[k].id = <<1, "table", k>> /\ second[k].bounds = T[k]
      <4>1. Good(Region("table", k, T[k]))
        BY <1>70, <1>71, <3>3
      <4>2. Region("table", k, T[k]).id = <<1, "table", k>> /\ Region("table", k, T[k]).bounds = T[k]
        BY <1>7
      <4>3. second[k] = Region("table", k, T[k])
        BY <3>4
      <4> QED BY <3>1, <4>1, <4>2, <4>3
    <3> HIDE DEF t
    <3> QED BY <3>5, <3>6 DEF S
  <2> HIDE DEF second, t
  <2> QED BY <2>1, <2>2
<1> HIDE DEF t, second
<1>11. /\ DOMAIN all = 1..(m + t)
       /\ \A k \in 1..m : all[k] = first[k]
       /\ \A k \in (m + 1)..(m + t) : all[k] = second[k - m] /\ k - m \in 1..t
  <2> DEFINE S == {Region("image", n, r) : n \in Nat, r \in Rects} \cup {Region("table", n, r) : n \in Nat, r \in Rects}
  <2>1. first \in Seq(S) /\ second \in Seq(S)
    BY <1>8, <1>10
  <2> HIDE DEF S
  <2>2. all \in Seq(S) /\ Len(all) = m + t /\ \A i \in 1..(m + t) : all[i] = IF i <= m THEN first[i] ELSE second[i - m]
    <3>1. Len(first) = m /\ Len(second) = t
      BY <1>8 DEF t
    <3>2. /\ all \in Seq(S) /\ Len(all) = Len(first) + Len(second)
          /\ \A i \in 1..(Len(first) + Len(second)) : all[i] = IF i <= Len(first) THEN first[i] ELSE second[i - Len(first)]
      BY <2>1, ConcatProperties
    <3> HIDE DEF all
    <3> QED BY ONLY <3>1, <3>2
  <2> HIDE DEF all
  <2> QED BY <1>6, <1>10, <2>2
<1>12. \A k \in 1..(m + t) : k \in 1..m \/ k \in (m + 1)..(m + t)
  BY <1>6, <1>10
<1> HIDE DEF all
<1>13. ASSUME NEW k \in 1..(m + t)
       PROVE  Good(all[k])
  <2>1. CASE k \in 1..m
    <3>1. all[k] = first[k] /\ Good(first[k])
      BY <1>8, <1>11, <2>1
    <3> QED BY <3>1
  <2>2. CASE k \in (m + 1)..(m + t)
    <3>1. all[k] = second[k - m] /\ Good(second[k - m])
      BY <1>10, <1>11, <2>2
    <3> QED BY <3>1
  <2> QED BY <1>12, <2>1, <2>2
<1>14. ASSUME NEW k \in 1..(m + t), NEW l \in 1..(m + t), all[k].id = all[l].id
       PROVE  k = l
  <2>0. /\ \A i \in 1..m : all[i].id = <<1, "image", A[i]>>
        /\ \A i \in (m + 1)..(m + t) : all[i].id = <<1, "table", i - m>>
    <3>1. ASSUME NEW i \in 1..m
          PROVE  all[i].id = <<1, "image", A[i]>>
      <4>1. all[i] = first[i] /\ first[i].id = <<1, "image", A[i]>>
        BY <1>8, <1>11
      <4> QED BY <4>1
    <3>2. ASSUME NEW i \in (m + 1)..(m + t)
          PROVE  all[i].id = <<1, "table", i - m>>
      <4>1. all[i] = second[i - m] /\ second[i - m].id = <<1, "table", i - m>>
        BY <1>10, <1>11
      <4> QED BY <4>1
    <3> QED BY <3>1, <3>2
  <2>1. CASE k \in 1..m /\ l \in 1..m
    <3>1. A[k] = A[l]
      BY <1>14, <2>0, <2>1
    <3> QED BY <1>6, <2>1, <3>1
  <2>2. CASE k \in 1..m /\ l \in (m + 1)..(m + t)
    BY <1>14, <2>0, <2>2
  <2>3. CASE k \in (m + 1)..(m + t) /\ l \in 1..m
    BY <1>14, <2>0, <2>3
  <2>4. CASE k \in (m + 1)..(m + t) /\ l \in (m + 1)..(m + t)
    <3>1. k - m = l - m
      BY <1>10, <1>11, <1>14, <2>4
    <3> QED BY <1>6, <2>4, <3>1
  <2> QED BY <1>12, <2>1, <2>2, <2>3, <2>4
<1>15. ASSUME NEW k \in 1..(m + t), NEW l \in 1..(m + t), k # l, all[k].id[2] = "table", all[l].id[2] = "table"
       PROVE  Meet(all[k].bounds, all[l].bounds) # all[k].bounds
  <2>1. \A i \in 1..m : all[i].id[2] = "image"
    BY <1>8, <1>11
  <2>2. k \in (m + 1)..(m + t) /\ l \in (m + 1)..(m + t)
    BY <1>12, <1>15, <2>1
  <2>3. /\ all[k].bounds = T[k - m] /\ all[l].bounds = T[l - m]
        /\ k - m \in DOMAIN T /\ l - m \in DOMAIN T
    BY <1>10, <1>11, <2>2
  <2>4. k - m # l - m
    BY <1>6, <1>15, <2>2
  <2> QED BY <1>9, <2>3, <2>4
<1>16. m + t \in Nat
  BY <1>6, <1>10
<1>17. PageRegions(all)
  BY <1>11, <1>13, <1>14, <1>15, <1>16 DEF PageRegions, Good
<1> QED
  BY <1>2, <1>17

-----------------------------------------------------------------------------
(* Whole-number division, and with it the image of a page.                   *)
LEMMA Division ==
  ASSUME NEW a \in Int, NEW b \in Nat \ {0}
  PROVE  a \div b \in Int /\ b * (a \div b) <= a /\ a < b * (a \div b) + b
OBVIOUS

LEMMA MultiplesApart ==
  ASSUME NEW b \in Nat \ {0}, NEW p \in Int, NEW q \in Int, p < q
  PROVE  b * p + b <= b * q
<1>1. q - p - 1 \in Nat
  OBVIOUS
<1>2. b * (q - p - 1) >= 0
  BY <1>1
<1>3. b * (q - p - 1) = b * q - b * p - b
  OBVIOUS
<1>4. b * p \in Int /\ b * q \in Int
  OBVIOUS
<1> QED
  BY <1>2, <1>3, <1>4

LEMMA DivisionGrows ==
  ASSUME NEW a \in Int, NEW c \in Int, NEW b \in Nat \ {0}, a <= c
  PROVE  a \div b <= c \div b
<1> DEFINE p == a \div b
           q == c \div b
<1>1. p \in Int /\ q \in Int /\ b * p <= a /\ c < b * q + b
  BY Division
<1> HIDE DEF p, q
<1>2. SUFFICES ASSUME q < p PROVE FALSE
  BY <1>1 DEF p, q
<1>3. b * q + b <= b * p
  BY <1>1, <1>2, MultiplesApart
<1>4. b * p \in Int /\ b * q + b \in Int
  BY <1>1
<1> QED
  BY <1>1, <1>3, <1>4

LEMMA DivisionOfMultiple ==
  ASSUME NEW n \in Int, NEW b \in Nat \ {0}
  PROVE  (b * n) \div b = n
<1> DEFINE q == (b * n) \div b
<1>1. b * n \in Int
  OBVIOUS
<1>2. q \in Int /\ b * q <= b * n /\ b * n < b * q + b
  BY <1>1, Division
<1> HIDE DEF q
<1>3. ~(q < n)
  <2> SUFFICES ASSUME q < n PROVE FALSE
    OBVIOUS
  <2>1. b * q + b <= b * n
    BY <1>2, MultiplesApart
  <2>2. b * q + b \in Int
    BY <1>2
  <2> QED BY <1>1, <1>2, <2>1, <2>2
<1>4. ~(n < q)
  <2> SUFFICES ASSUME n < q PROVE FALSE
    OBVIOUS
  <2>1. b * n + b <= b * q
    BY <1>2, MultiplesApart
  <2>2. b * q \in Int
    BY <1>2
  <2> QED BY <1>1, <1>2, <2>1, <2>2
<1>5. q = n
  BY <1>2, <1>3, <1>4
<1> QED
  BY <1>5 DEF q

LEMMA CeilIsInt ==
  ASSUME NEW a \in Int, NEW b \in Nat \ {0}
  PROVE  Ceil(a, b) \in Int
<1>1. a + b - 1 \in Int
  OBVIOUS
<1> QED
  BY <1>1, Division DEF Ceil

(* Too many pixels shrink by a root that there is, and that is no less than  *)
(* the root of their number in the limit.                                    *)
LEMMA RootRounds ==
  ASSUME NEW pixels \in Int, MaxPixels <= pixels
  PROVE  /\ Root(pixels) \in 1..1000
         /\ MaxPixels * 1000000 <= pixels * (Root(pixels) * Root(pixels))
<1> DEFINE a      == MaxPixels * 1000000 + pixels - 1
           square == Ceil(MaxPixels * 1000000, pixels)
           K      == {k \in 1..1000 : square <= k * k}
<1>1. MaxPixels \in Nat \ {0} /\ pixels \in Nat \ {0}
  <2>1. MaxPixels \in Nat \ {0}
    BY PageAssumption
  <2> QED BY <2>1
<1>2. a \in Int /\ pixels <= a /\ a < pixels * 1000000 + pixels
  BY <1>1
<1>3. square = a \div pixels
  BY DEF Ceil
<1> HIDE DEF a, square
<1>4. square \in Int /\ pixels * square <= a /\ a < pixels * square + pixels
  BY <1>1, <1>2, <1>3, Division
<1>5. ~(1000000 < square)
  <2> SUFFICES ASSUME 1000000 < square PROVE FALSE
    OBVIOUS
  <2>1. pixels * 1000000 + pixels <= pixels * square
    BY <1>1, <1>4, MultiplesApart
  <2>2. pixels * square \in Int
    BY <1>1, <1>4
  <2> QED BY <1>2, <1>4, <2>1, <2>2
<1>6. ~(square < 1)
  <2> SUFFICES ASSUME square < 1 PROVE FALSE
    OBVIOUS
  <2>1. pixels * square + pixels <= pixels * 1
    BY <1>1, <1>4, MultiplesApart
  <2>2. pixels * square \in Int
    BY <1>1, <1>4
  <2> QED BY <1>2, <1>4, <2>1, <2>2
<1>7. 1000 \in K /\ K \subseteq 1..1000
  BY <1>4, <1>5
<1>8. PICK k \in K : \A j \in K : k <= j
  <2> HIDE DEF K
  <2> DEFINE top == 1000
  <2>1. top \in Nat /\ K \subseteq 1..top /\ K # {}
    BY <1>7
  <2> HIDE DEF top
  <2> QED BY <2>1, LeastIndex, Zenon
<1>9. k \in 1..1000 /\ square <= k * k /\ (k - 1) * (k - 1) < square
  <2>1. CASE k = 1
    BY <1>4, <1>6, <1>8, <2>1
  <2>2. CASE k # 1
    <3>1. k - 1 \in 1..1000 /\ ~(k <= k - 1)
      BY <1>8, <2>2
    <3>2. ~(k - 1 \in K)
      <4> HIDE DEF K
      <4> QED BY ONLY <1>8, <3>1, Zenon
    <3>3. ~(square <= (k - 1) * (k - 1))
      BY <3>1, <3>2
    <3> DEFINE before == (k - 1) * (k - 1)
    <3>4. before \in Int /\ k \in 1..1000 /\ square <= k * k
      BY <1>8
    <3> HIDE DEF before
    <3>5. before < square
      BY <1>4, <3>3, <3>4 DEF before
    <3> QED BY <3>4, <3>5 DEF before
  <2> QED BY <2>1, <2>2
<1> DEFINE Rounds(j) == (j - 1) * (j - 1) < square /\ square <= j * j
           D         == 1..1000
<1>10. k \in D /\ Rounds(k)
  BY <1>9, SMT
<1>11. Root(pixels) = CHOOSE j \in D : Rounds(j)
  BY SMT DEF Root, square
<1> HIDE DEF Rounds, D, K
<1>12. Root(pixels) \in D /\ Rounds(Root(pixels))
  BY <1>10, <1>11, Zenon
<1> DEFINE r  == Root(pixels)
           rr == r * r
<1>13. r \in 1..1000
  BY <1>12 DEF D
<1> HIDE DEF r
<1>14. rr \in Int /\ square <= rr
  <2>1. Rounds(r)
    BY <1>12 DEF r
  <2> QED BY <1>13, <2>1 DEF Rounds
<1> HIDE DEF rr
<1>15. MaxPixels * 1000000 <= pixels * square
  <2>1. a < pixels * square + pixels /\ a = MaxPixels * 1000000 + pixels - 1
    BY <1>4 DEF a
  <2>2. pixels * square \in Int /\ MaxPixels * 1000000 \in Int
    BY <1>1, <1>4
  <2> QED BY <1>1, <2>1, <2>2
<1>16. pixels * square <= pixels * rr
  <2>1. pixels * (rr - square) >= 0
    BY <1>1, <1>4, <1>14
  <2>2. pixels * (rr - square) = pixels * rr - pixels * square
    BY <1>1, <1>4, <1>14
  <2>3. pixels * rr \in Int /\ pixels * square \in Int
    BY <1>1, <1>4, <1>14
  <2> QED BY <2>1, <2>2, <2>3
<1>17. MaxPixels * 1000000 <= pixels * rr
  <2>1. pixels * rr \in Int /\ pixels * square \in Int /\ MaxPixels * 1000000 \in Int
    BY <1>1, <1>4, <1>14
  <2> QED BY <1>15, <1>16, <2>1
<1> QED
  BY <1>13, <1>17 DEF r, rr

LEMMA RootIsInt ==
  ASSUME NEW pixels \in Int, MaxPixels <= pixels
  PROVE  Root(pixels) \in 1..1000
BY RootRounds

LEMMA AnyRootIsInt ==
  ASSUME NEW pixels \in Int, MaxPixels <= pixels
  PROVE  Root(pixels) \in Int
<1> DEFINE r == Root(pixels)
<1>1. r \in 1..1000
  BY RootIsInt, ZenonT(30)
<1> HIDE DEF r
<1>2. r \in Int
  BY <1>1
<1> QED
  BY <1>2 DEF r

LEMMA PixelsArePositive ==
  ASSUME NEW length \in Nat \ {0}, scale \in Int
  PROVE  Pixels(length) \in Nat \ {0}
<1> DEFINE c == Ceil(length * scale, 1000)
<1>1. c \in Int
  <2>1. length * scale \in Int
    OBVIOUS
  <2> QED BY <2>1, CeilIsInt
<1>2. Pixels(length) = Max({1, c})
  BY DEF Pixels
<1> HIDE DEF c
<1> QED
  BY <1>1, <1>2, TwoExtremes

LEMMA ShrunkIsInt ==
  ASSUME page.width \in Nat \ {0}, page.height \in Nat \ {0}, scale \in Int,
         NEW w \in Nat \ {0}, NEW h \in Nat \ {0}, MaxPixels <= w * h
  PROVE  Shrunk(w, h) \in Int
<1>1. MaxPixels \in Nat \ {0}
  BY PageAssumption
<1>2. ASSUME NEW side \in Nat \ {0}
      PROVE  Ceil(Min({scale, Ceil(1000 * MaxPixels, side)}) * 99, 100) \in Int
  <2> DEFINE c == Ceil(1000 * MaxPixels, side)
             m == Min({scale, c})
  <2>1. c \in Int
    <3>1. 1000 * MaxPixels \in Int
      BY <1>1
    <3> QED BY <3>1, CeilIsInt
  <2> HIDE DEF c
  <2>a. scale \in Int
    OBVIOUS
  <2>b. Min({scale, c}) = IF scale <= c THEN scale ELSE c
    BY <2>1, <2>a, TwoExtremes, Zenon
  <2>2. m \in Int
    BY <2>1, <2>a, <2>b
  <2> HIDE DEF m
  <2>3. m * 99 \in Int
    BY <2>2
  <2>4. Ceil(m * 99, 100) \in Int
    BY <2>3, CeilIsInt
  <2> QED BY <2>4 DEF m, c
<1>3. Ceil(scale * Root(w * h) * 99, 100000) \in Int
  <2> DEFINE pixels == w * h
  <2>1. pixels \in Int /\ MaxPixels <= pixels
    OBVIOUS
  <2> HIDE DEF pixels
  <2>a. Root(pixels) \in Int
    BY <2>1, AnyRootIsInt, Zenon
  <2>2. Root(w * h) \in Int
    BY <2>a DEF pixels
  <2> DEFINE r == Root(w * h)
  <2> HIDE DEF r
  <2>3. scale * r * 99 \in Int
    BY <2>2 DEF r
  <2> QED BY <2>3, CeilIsInt DEF r
<1> QED
  BY <1>2, <1>3 DEF Shrunk

(* A line of the image, wherever it starts and ends, is put on the page.     *)
LEMMA ShareOfSide ==
  ASSUME NEW n \in Nat \ {0}, NEW side \in Nat, NEW k \in 0..n
  PROVE  (k * side) \div n \in 0..side
<1>1. k * side \in Int /\ n * side \in Int /\ 0 <= k * side /\ k * side <= n * side
  <2>1. k * side >= 0 /\ (n - k) * side >= 0
    OBVIOUS
  <2>2. (n - k) * side = n * side - k * side
    OBVIOUS
  <2>3. k * side \in Int /\ n * side \in Int
    OBVIOUS
  <2> QED BY <2>1, <2>2, <2>3
<1> DEFINE a == k * side
           c == n * side
<1>2. a \in Int /\ c \in Int /\ 0 <= a /\ a <= c
  BY <1>1
<1>3. c \div n = side /\ (n * 0) \div n = 0
  BY DivisionOfMultiple
<1>4. 0 \div n = 0
  BY <1>3
<1> HIDE DEF a, c
<1>5. 0 \div n <= a \div n /\ a \div n <= c \div n /\ a \div n \in Int
  BY <1>2, DivisionGrows, Division
<1>6. a \div n \in 0..side
  BY <1>3, <1>4, <1>5
<1> QED
  BY <1>6 DEF a

LEMMA SharesGrow ==
  ASSUME NEW n \in Nat \ {0}, NEW side \in Nat, NEW j \in 0..n, NEW k \in 0..n, j < k
  PROVE  (j * side) \div n <= (k * side) \div n
<1> DEFINE a == j * side
           c == k * side
<1>1. a \in Int /\ c \in Int /\ a <= c
  <2>1. (k - j) * side >= 0
    OBVIOUS
  <2>2. (k - j) * side = k * side - j * side
    OBVIOUS
  <2>3. k * side \in Int /\ j * side \in Int
    OBVIOUS
  <2> QED BY <2>1, <2>2, <2>3
<1> HIDE DEF a, c
<1>2. a \div n <= c \div n
  BY <1>1, DivisionGrows
<1> QED
  BY <1>2 DEF a, c

LEMMA EdgesAreWithin ==
  ASSUME NEW n \in Nat \ {0}
  PROVE  Edges(n) \subseteq 0..n
<1>1. n \div 2 \in Int /\ 2 * (n \div 2) <= n /\ n < 2 * (n \div 2) + 2
  BY Division
<1> DEFINE q == n \div 2
<1> HIDE DEF q
<1>2. q \in Int /\ 2 * q <= n /\ n < 2 * q + 2
  BY <1>1 DEF q
<1>3. q \in 0..n
  BY <1>2
<1> QED
  BY <1>3 DEF Edges, q

LEMMA LinesLie ==
  ASSUME NEW line \in Lines, raster.width \in Nat \ {0}, raster.height \in Nat \ {0},
         Lies(raster.box, page), Proper(raster.box), page.width \in Nat \ {0}, page.height \in Nat \ {0}
  PROVE  Lies(line, page)
<1>1. PICK r \in [x0 : Edges(raster.width), y0 : Edges(raster.height),
                  x1 : Edges(raster.width), y1 : Edges(raster.height)] :
        r.x0 < r.x1 /\ r.y0 < r.y1 /\ line = OnPage(r)
  BY DEF Lines
<1> DEFINE W == Width(raster.box)
           H == Height(raster.box)
           n == raster.width
           m == raster.height
           box == raster.box
<1>2. /\ r.x0 \in Edges(n) /\ r.x1 \in Edges(n)
      /\ r.y0 \in Edges(m) /\ r.y1 \in Edges(m)
  OBVIOUS
<1>3. box.x0 \in Int /\ box.y0 \in Int /\ box.x1 \in Int /\ box.y1 \in Int
  BY DEF Lies, Rects
<1>4. W = box.x1 - box.x0 /\ H = box.y1 - box.y0 /\ W \in Nat /\ H \in Nat
  <2>1. 0 \in Int /\ box.x1 - box.x0 \in Int /\ box.y1 - box.y0 \in Int
        /\ box.x1 - box.x0 > 0 /\ box.y1 - box.y0 > 0
    BY <1>3 DEF Proper
  <2> DEFINE u == box.x1 - box.x0
             v == box.y1 - box.y0
  <2>2. u \in Int /\ v \in Int /\ u > 0 /\ v > 0 /\ W = Max({0, u}) /\ H = Max({0, v})
    BY <2>1 DEF Width, Height
  <2> HIDE DEF u, v, W, H
  <2>3. W = u /\ H = v
    BY <2>2, TwoExtremes
  <2>4. W \in Nat /\ H \in Nat
    BY <2>2, <2>3
  <2> QED BY <2>3, <2>4 DEF u, v
<1> DEFINE a == (r.x0 * W) \div n
           b == (r.y0 * H) \div m
           c == (r.x1 * W) \div n
           d == (r.y1 * H) \div m
<1>5. line = Rect(box.x0 + a, box.y0 + b, box.x0 + c, box.y0 + d)
  BY <1>1 DEF OnPage
<1> HIDE DEF W, H, n, m, box
<1>6. n \in Nat \ {0} /\ m \in Nat \ {0} /\ Edges(n) \subseteq 0..n /\ Edges(m) \subseteq 0..m
  BY EdgesAreWithin DEF n, m
<1>7. a \in 0..W /\ c \in 0..W /\ b \in 0..H /\ d \in 0..H
  BY <1>2, <1>4, <1>6, ShareOfSide
<1>8. a <= c /\ b <= d
  BY <1>1, <1>2, <1>4, <1>6, SharesGrow
<1> HIDE DEF a, b, c, d
<1>9. /\ 0 <= box.x0 /\ box.x1 <= page.width
      /\ 0 <= box.y0 /\ box.y1 <= page.height
  BY DEF Lies, box
<1>10. /\ line \in Rects
       /\ line.x0 = box.x0 + a /\ line.y0 = box.y0 + b /\ line.x1 = box.x0 + c /\ line.y1 = box.y0 + d
  BY <1>3, <1>4, <1>5, <1>7 DEF Rect, Rects
<1>11. /\ 0 <= box.x0 + a /\ box.x0 + a <= box.x0 + c /\ box.x0 + c <= box.x1
       /\ 0 <= box.y0 + b /\ box.y0 + b <= box.y0 + d /\ box.y0 + d <= box.y1
  BY <1>3, <1>4, <1>7, <1>8, <1>9
<1>12. box.x0 + c <= page.width /\ box.y0 + d <= page.height
  <2>1. page.width \in Int /\ page.height \in Int
    OBVIOUS
  <2> QED BY <1>3, <1>4, <1>7, <1>9, <1>11, <2>1
<1> QED
  BY <1>10, <1>11, <1>12 DEF Lies

-----------------------------------------------------------------------------
(* What a page ends with is accepted, cited and on the page.                 *)
AnswerInv ==
  /\ BuiltContentIsAccepted
  /\ phase = "done" => Cites(content)
  /\ PageIsConsistent

LEMMA ContentsAnswers ==
  ASSUME NEW blocks_, NEW regions, PageBlocks(blocks_), PageRegions(regions), page \in PdfPages,
         Finish(Contents(blocks_, regions)), page' = page
  PROVE  AnswerInv'
<1> DEFINE container == [blocks |-> blocks_, regions |-> regions]
           value == Contents(blocks_, regions)
           S     == Nat \X RegionTypes \X Nat
<1>1. value.containers = <<container>> /\ value.outline = <<>>
  BY DEF Contents
<1>2. content' = value /\ phase' = IF Accepted(value) THEN "done" ELSE "rejected"
  BY FinishPhase
<1>3. page.width \in Nat \ {0} /\ page.height \in Nat \ {0}
  BY PageAssumption
<1>4. /\ \A b \in DOMAIN blocks_ : IsBounds(blocks_[b]) /\ Meet(blocks_[b], Sheet) = blocks_[b]
      /\ \A r \in DOMAIN regions : IsBounds(regions[r].bounds) /\ Meet(regions[r].bounds, Sheet) = regions[r].bounds
  <2>1. \A r : Lies(r, page) => IsBounds(r) /\ Meet(r, Sheet) = r
    BY <1>3, SheetFacts, Zenon
  <2> QED BY <2>1, Zenon DEF PageBlocks, PageRegions
<1> DEFINE containers == <<container>>
<1>5. DOMAIN containers = 1..1 /\ containers[1].blocks = blocks_ /\ containers[1].regions = regions
  OBVIOUS
<1> HIDE DEF value, containers, container
<1>6. value.containers = containers /\ value.outline = <<>> /\ Len(value.containers) = 1
  BY <1>1, <1>5 DEF containers
<1>7. Apart(containers, S, 1)
  <2>1. PICK k \in Nat : DOMAIN regions = 1..k
    BY DEF PageRegions
  <2>2. \A r \in DOMAIN regions : regions[r].id \in S /\ regions[r].id[1] = 1
    BY Zenon DEF PageRegions
  <2>3. \A q, r \in DOMAIN regions : regions[q].id = regions[r].id => q = r
    BY Zenon DEF PageRegions
  <2>4. \A c \in 1..1 : c = 1
    OBVIOUS
  <2> HIDE DEF S
  <2> QED BY <1>5, <2>1, <2>2, <2>3, <2>4 DEF Apart
<1>8. Accepted(value)
  <2>1. \A i \in DOMAIN value.outline : value.outline[i] < 1
    BY <1>6
  <2>2. \A c \in 1..1 : c = 1
    OBVIOUS
  <2>3. \A c \in 1..1 : /\ \A b \in DOMAIN value.containers[c].blocks : IsBounds(value.containers[c].blocks[b])
                        /\ \A r \in DOMAIN value.containers[c].regions : IsBounds(value.containers[c].regions[r].bounds)
    BY <1>4, <1>5, <1>6, <2>2, Zenon
  <2>4. Apart(value.containers, S, 1)
    BY <1>6, <1>7
  <2> HIDE DEF S
  <2> QED BY <1>6, <2>1, <2>3, <2>4, AcceptedFacts
<1>9. phase' = "done" /\ BuiltContentIsAccepted'
  BY <1>2, <1>8 DEF BuiltContentIsAccepted
<1>10. Cites(content')
  <2>1. \A c \in DOMAIN containers : c = 1
    BY <1>5
  <2>2. \A r \in DOMAIN regions : regions[r].own = 0
    BY Zenon DEF PageRegions
  <2> QED BY <1>2, <1>5, <1>6, <2>1, <2>2, Zenon DEF Cites
<1>11. PageIsConsistent'
  <2>1. Sheet' = Sheet
    BY DEF Sheet
  <2>2. content'.containers[1].blocks = blocks_ /\ content'.containers[1].regions = regions
    BY <1>2, <1>5, <1>6
  <2>3. \A i, j \in DOMAIN regions :
          i # j /\ regions[i].id[2] = "table" /\ regions[j].id[2] = "table" =>
            Meet(regions[i].bounds, regions[j].bounds) # regions[i].bounds
    BY Zenon DEF PageRegions
  <2> QED BY <1>4, <2>1, <2>2, <2>3, Zenon DEF PageIsConsistent
<1> QED
  BY <1>9, <1>10, <1>11 DEF AnswerInv

(* A page's regions with one more, of a type they do not have.               *)
PageRegion == [id : Nat \X RegionTypes \X Nat, bounds : Rects, asset : Nat, own : Nat]

LEMMA RegionIsTyped ==
  ASSUME NEW type \in RegionTypes, NEW bounds, Lies(bounds, page)
  PROVE  /\ Region(type, 1, bounds) \in PageRegion
         /\ Region(type, 1, bounds).id = <<1, type, 1>> /\ Region(type, 1, bounds).own = 0
         /\ Region(type, 1, bounds).bounds = bounds
<1>1. bounds \in Rects
  BY DEF Lies
<1>2. <<1, type, 1>> \in Nat \X RegionTypes \X Nat
  <2> HIDE DEF RegionTypes
  <2> QED OBVIOUS
<1> QED
  BY <1>1, <1>2 DEF Region, PageRegion

LEMMA MoreRegions ==
  ASSUME NEW s \in Seq(PageRegion), PageRegions(s), NEW type \in RegionTypes \ {"table"}, NEW bounds, Lies(bounds, page),
         \A i \in DOMAIN s : s[i].id[2] # type
  PROVE  /\ s \o <<Region(type, 1, bounds)>> \in Seq(PageRegion)
         /\ PageRegions(s \o <<Region(type, 1, bounds)>>)
         /\ \A i \in DOMAIN (s \o <<Region(type, 1, bounds)>>) :
              \/ (s \o <<Region(type, 1, bounds)>>)[i].id[2] = type
              \/ i \in DOMAIN s /\ (s \o <<Region(type, 1, bounds)>>)[i] = s[i]
<1> DEFINE r == Region(type, 1, bounds)
           t == s \o <<r>>
           m == Len(s)
<1>1. r \in PageRegion /\ r.id = <<1, type, 1>> /\ r.own = 0 /\ r.bounds = bounds
  BY RegionIsTyped
<1>2. r.id \in Nat \X RegionTypes \X Nat /\ r.id[1] = 1 /\ r.id[2] = type
  <2>1. <<1, type, 1>>[1] = 1 /\ <<1, type, 1>>[2] = type
    OBVIOUS
  <2>2. <<1, type, 1>> \in Nat \X RegionTypes \X Nat
    <3> HIDE DEF RegionTypes
    <3> QED OBVIOUS
  <2> QED BY <1>1, <2>1, <2>2
<1> HIDE DEF r
<1>3. m \in Nat /\ DOMAIN s = 1..m
  OBVIOUS
<1>4. t \in Seq(PageRegion) /\ DOMAIN t = 1..(m + 1)
      /\ (\A i \in 1..m : t[i] = s[i]) /\ t[m + 1] = r
  <2>1. r \in PageRegion
    BY <1>1
  <2> QED BY <1>3, <2>1, OneMore
<1> HIDE DEF t, m
<1>5. \A i \in DOMAIN t : (i \in DOMAIN s /\ t[i] = s[i]) \/ (i = m + 1 /\ t[i] = r)
  BY <1>3, <1>4
<1>6. \E k \in Nat : DOMAIN t = 1..k
  BY <1>3, <1>4
<1>7. \A i \in DOMAIN s : s[i].id # r.id
  BY <1>2
<1>8. PageRegions(t)
  <2>1. \A i \in DOMAIN t : /\ t[i].id \in Nat \X RegionTypes \X Nat /\ t[i].id[1] = 1
                            /\ t[i].own = 0 /\ Lies(t[i].bounds, page)
    <3>1. \A i \in DOMAIN s : /\ s[i].id \in Nat \X RegionTypes \X Nat /\ s[i].id[1] = 1
                              /\ s[i].own = 0 /\ Lies(s[i].bounds, page)
      BY Zenon DEF PageRegions
    <3>2. r.id \in Nat \X RegionTypes \X Nat /\ r.id[1] = 1 /\ r.own = 0 /\ Lies(r.bounds, page)
      BY <1>1, <1>2, Zenon
    <3> SUFFICES ASSUME NEW i \in DOMAIN t
                 PROVE  /\ t[i].id \in Nat \X RegionTypes \X Nat /\ t[i].id[1] = 1
                        /\ t[i].own = 0 /\ Lies(t[i].bounds, page)
      BY Zenon
    <3>3. CASE i \in DOMAIN s /\ t[i] = s[i]
      BY <3>1, <3>3, Zenon
    <3>4. CASE t[i] = r
      BY <3>2, <3>4, Zenon
    <3> QED BY <1>5, <3>3, <3>4, Zenon
  <2>2. \A p, q \in DOMAIN t : t[p].id = t[q].id => p = q
    <3>1. \A p, q \in DOMAIN s : s[p].id = s[q].id => p = q
      BY Zenon DEF PageRegions
    <3> QED BY <1>5, <1>7, <3>1, Zenon
  <2>3. \A i, j \in DOMAIN t :
          i # j /\ t[i].id[2] = "table" /\ t[j].id[2] = "table" => Meet(t[i].bounds, t[j].bounds) # t[i].bounds
    <3>1. \A i \in DOMAIN t : t[i].id[2] = "table" => i \in DOMAIN s /\ t[i] = s[i]
      BY <1>2, <1>5
    <3>2. \A i, j \in DOMAIN s :
            i # j /\ s[i].id[2] = "table" /\ s[j].id[2] = "table" => Meet(s[i].bounds, s[j].bounds) # s[i].bounds
      BY Zenon DEF PageRegions
    <3> QED BY <3>1, <3>2, Zenon
  <2> QED BY <1>6, <2>1, <2>2, <2>3, Zenon DEF PageRegions
<1>9. \A i \in DOMAIN t : t[i].id[2] = type \/ (i \in DOMAIN s /\ t[i] = s[i])
  BY <1>2, <1>5
<1> QED
  BY <1>4, <1>8, <1>9 DEF t, r

LEMMA ScannedRegionsFacts ==
  ASSUME page \in PdfPages, NEW tabular \in BOOLEAN, NEW unsure \in BOOLEAN
  PROVE  PageRegions(<<Region("scanned-page", 1, Sheet)>>
                     \o (IF tabular THEN <<Region("ocr-table", 1, Sheet)>> ELSE <<>>)
                     \o (IF unsure THEN <<Region("ocr-low-confidence", 1, Sheet)>> ELSE <<>>))
<1> DEFINE r == Region("scanned-page", 1, Sheet)
           s == <<r>>
           t == s \o (IF tabular THEN <<Region("ocr-table", 1, Sheet)>> ELSE <<>>)
           u == t \o (IF unsure THEN <<Region("ocr-low-confidence", 1, Sheet)>> ELSE <<>>)
<1>1. Lies(Sheet, page)
  BY PageAssumption, SheetFacts
<1>2. {"scanned-page", "ocr-table", "ocr-low-confidence"} \subseteq RegionTypes \ {"table"}
  BY DEF RegionTypes
<1>3. s \in Seq(PageRegion) /\ PageRegions(s) /\ \A i \in DOMAIN s : s[i].id[2] = "scanned-page"
  <2>1. r \in PageRegion /\ r.id = <<1, "scanned-page", 1>> /\ r.own = 0 /\ r.bounds = Sheet
    BY <1>1, <1>2, RegionIsTyped
  <2>2. r.id \in Nat \X RegionTypes \X Nat /\ r.id[1] = 1 /\ r.id[2] = "scanned-page"
    <3>1. <<1, "scanned-page", 1>> \in Nat \X RegionTypes \X Nat
      BY DEF RegionTypes
    <3> QED BY <2>1, <3>1
  <2> HIDE DEF r
  <2>3. s \in Seq(PageRegion) /\ DOMAIN s = 1..1 /\ s[1] = r /\ \A i \in 1..1 : i = 1
    BY <2>1
  <2> HIDE DEF s
  <2>4. PageRegions(s)
    <3>1. \E k \in Nat : DOMAIN s = 1..k
      BY <2>3
    <3>2. \A i \in DOMAIN s : /\ s[i].id \in Nat \X RegionTypes \X Nat /\ s[i].id[1] = 1
                              /\ s[i].own = 0 /\ Lies(s[i].bounds, page)
      BY <1>1, <2>1, <2>2, <2>3, Zenon
    <3>3. \A i, j \in DOMAIN s : i = j
      BY <2>3, Zenon
    <3> QED BY <3>1, <3>2, <3>3, Zenon DEF PageRegions
  <2> QED BY <2>2, <2>3, <2>4, Zenon
<1> HIDE DEF s
<1>4. t \in Seq(PageRegion) /\ PageRegions(t) /\ \A i \in DOMAIN t : t[i].id[2] # "ocr-low-confidence"
  <2>1. CASE ~tabular
    <3>1. t = s
      BY <1>3, <2>1, ConcatEmptySeq
    <3> QED BY <1>3, <3>1
  <2>2. CASE tabular
    <3>1. t = s \o <<Region("ocr-table", 1, Sheet)>>
      BY <2>2
    <3>2. \A i \in DOMAIN s : s[i].id[2] # "ocr-table"
      BY <1>3
    <3> DEFINE v == s \o <<Region("ocr-table", 1, Sheet)>>
    <3>3. v \in Seq(PageRegion) /\ PageRegions(v)
          /\ \A i \in DOMAIN v : v[i].id[2] = "ocr-table" \/ (i \in DOMAIN s /\ v[i] = s[i])
      BY <1>1, <1>2, <1>3, <3>2, MoreRegions, Zenon
    <3>4. t = v
      BY <3>1
    <3> HIDE DEF t, v
    <3> QED BY <1>3, <3>3, <3>4
  <2> QED BY <2>1, <2>2
<1> HIDE DEF t
<1>5. PageRegions(u)
  <2>1. CASE ~unsure
    <3>1. u = t
      BY <1>4, <2>1, ConcatEmptySeq
    <3> QED BY <1>4, <3>1
  <2>2. CASE unsure
    <3>1. u = t \o <<Region("ocr-low-confidence", 1, Sheet)>>
      BY <2>2
    <3> HIDE DEF u
    <3>2. PageRegions(t \o <<Region("ocr-low-confidence", 1, Sheet)>>)
      BY <1>1, <1>2, <1>4, MoreRegions, Zenon
    <3> QED BY <3>1, <3>2
  <2> QED BY <2>1, <2>2
<1> QED
  BY <1>5 DEF u, t, s

-----------------------------------------------------------------------------
(* The image for OCR shows a part of the page that is not empty.             *)
LEMMA DominantFacts ==
  ASSUME page \in PdfPages, page.images # <<>>
  PROVE  Dominant \in [box : Rects, width : Nat, height : Nat, embedded : BOOLEAN]
<1> DEFINE Images == [box : Rects, width : Nat, height : Nat, embedded : BOOLEAN]
           s      == page.images
           area   == [i \in DOMAIN s |-> Area(s[i].box)]
           A      == {area[i] : i \in DOMAIN s}
           F      == {i \in DOMAIN s : \A j \in DOMAIN s : Area(s[j].box) <= Area(s[i].box)}
<1>1. s \in Seq(Images)
  BY PageAssumption
<1>20. s # <<>>
  OBVIOUS
<1> HIDE DEF s, Images
<1>2. \A i \in DOMAIN s : s[i] \in Images /\ area[i] = Area(s[i].box) /\ area[i] \in Int
  <2> SUFFICES ASSUME NEW i \in DOMAIN s
               PROVE  s[i] \in Images /\ area[i] = Area(s[i].box) /\ area[i] \in Int
    OBVIOUS
  <2>1. s[i] \in Images
    BY <1>1
  <2>2. s[i].box \in Rects
    BY <2>1 DEF Images
  <2>3. Area(s[i].box) \in Nat
    BY <2>2, AreaFacts
  <2> QED BY <2>1, <2>3
<1>3. IsFiniteSet(DOMAIN s) /\ DOMAIN s \subseteq Int /\ DOMAIN s # {}
  <2>1. Len(s) \in Nat /\ DOMAIN s = 1..Len(s) /\ Len(s) # 0
    BY <1>1, <1>20
  <2>2. IsFiniteSet(1..Len(s))
    BY <2>1, FS_Interval
  <2>3. DOMAIN s # {}
    BY <2>1
  <2> QED BY <2>1, <2>2, <2>3
<1> HIDE DEF area
<1>4. IsFiniteSet(A)
  BY <1>3, ImageIsFinite
<1>5. A \subseteq Int /\ A # {}
  BY <1>2, <1>3
<1>6. PICK x \in A : \A y \in A : x >= y
  <2> HIDE DEF A
  <2> QED BY <1>4, <1>5, GreatestExists
<1>7. PICK i \in DOMAIN s : x = area[i]
  BY <1>6
<1>8. \A j \in DOMAIN s : area[i] >= area[j]
  BY <1>6, <1>7
<1>9. i \in F
  BY <1>2, <1>7, <1>8
<1>10. IsFiniteSet(F) /\ F \subseteq Int /\ F # {} /\ F \subseteq DOMAIN s
  <2>1. F \subseteq DOMAIN s
    OBVIOUS
  <2> HIDE DEF F
  <2> QED BY <1>3, <1>9, <2>1, FS_Subset
<1>11. Dominant = s[Min(F)]
  BY DEF Dominant, s
<1> HIDE DEF F
<1>12. Min(F) \in F
  BY <1>10, Extremes
<1> QED
  BY <1>2, <1>10, <1>11, <1>12 DEF Images

PageInv ==
  media = "pdf" =>
    /\ page \in PdfPages
    /\ phase = "scale" => scale \in Int
    /\ phase = "recognize" => /\ raster.width \in Nat \ {0} /\ raster.height \in Nat \ {0}
                              /\ Lies(raster.box, page) /\ Proper(raster.box)

LEMMA PageInvInit == Init => PageInv
<1> SUFFICES ASSUME Init, media = "pdf" PROVE PageInv
  BY DEF PageInv
<1>1. page \in PdfPages /\ phase = "start"
  BY DEF Init, PageInit
<1> QED
  BY <1>1 DEF PageInv

LEMMA RasterizeStep ==
  ASSUME page \in PdfPages, RasterizePage
  PROVE  PageInv'
<1>1. page.width \in Nat \ {0} /\ page.height \in Nat \ {0} /\ MaxPixels \in Nat \ {0} /\ Dpi \in Nat \ {0}
  BY PageAssumption
<1>2. page' = page
  BY DEF RasterizePage
<1>3. CASE TakenAsIs
  <2> DEFINE box == Meet(Dominant.box, Sheet)
  <2>1. raster' = [width |-> Dominant.width, height |-> Dominant.height, box |-> box] /\ phase' = "recognize"
    BY <1>3 DEF RasterizePage
  <2>2. Dominant \in [box : Rects, width : Nat, height : Nat, embedded : BOOLEAN]
    BY <1>3, DominantFacts DEF TakenAsIs
  <2>3. Dominant.width \in Nat \ {0} /\ Dominant.height \in Nat \ {0} /\ Dominant.box \in Rects
    BY <1>3, <2>2 DEF TakenAsIs, Permits
  <2>4. Lies(box, page) /\ Proper(box)
    <3>1. Sheet \in Rects /\ Area(Sheet) \in Nat /\ Area(Sheet) # 0 /\ Area(box) \in Nat
      <4>1. Sheet \in Rects /\ Proper(Sheet)
        BY <1>1, SheetFacts
      <4>2. box \in Rects
        BY <2>3, <4>1, MeetFacts
      <4> QED BY <4>1, <4>2, AreaFacts DEF Proper
    <3>2. 10 * Area(box) >= 4 * Area(Sheet)
      BY <1>3 DEF TakenAsIs
    <3>3. Area(box) # 0
      <4> DEFINE u == Area(box)
                 v == Area(Sheet)
      <4>1. u \in Nat /\ v \in Nat /\ v # 0 /\ 10 * u >= 4 * v
        BY <3>1, <3>2
      <4> HIDE DEF u, v
      <4>2. u # 0
        BY <4>1
      <4> QED BY <4>2 DEF u
    <3> QED BY <1>1, <2>3, <3>3, MeetLies
  <2>5. raster'.width = Dominant.width /\ raster'.height = Dominant.height /\ raster'.box = box
    BY <2>1
  <2> HIDE DEF box
  <2> QED BY <1>2, <2>1, <2>3, <2>4, <2>5 DEF PageInv
<1>4. CASE ~TakenAsIs
  <2>1. scale' = Ceil(1000 * Dpi, 72) /\ phase' = "scale"
    BY <1>4 DEF RasterizePage
  <2>2. Ceil(1000 * Dpi, 72) \in Int
    <3>1. 1000 * Dpi \in Int
      BY <1>1
    <3> QED BY <3>1, CeilIsInt
  <2> QED BY <1>2, <2>1, <2>2 DEF PageInv
<1> QED
  BY <1>3, <1>4

LEMMA ScaleStep ==
  ASSUME page \in PdfPages, scale \in Int, ScalePage
  PROVE  PageInv'
<1> DEFINE w == Pixels(page.width)
           h == Pixels(page.height)
<1>1. page.width \in Nat \ {0} /\ page.height \in Nat \ {0} /\ MaxPixels \in Nat \ {0}
  BY PageAssumption
<1>2. page' = page
  BY DEF ScalePage
<1>3. w \in Nat \ {0} /\ h \in Nat \ {0}
  BY <1>1, PixelsArePositive
<1>4. CASE w * h <= MaxPixels
  <2>1. raster' = [width |-> w, height |-> h, box |-> Sheet] /\ phase' = "recognize"
    BY <1>4 DEF ScalePage
  <2>2. raster'.width = w /\ raster'.height = h /\ raster'.box = Sheet
    BY <2>1
  <2> HIDE DEF w, h
  <2>3. Lies(Sheet, page) /\ Proper(Sheet)
    BY <1>1, SheetFacts
  <2> QED BY <1>2, <1>3, <2>1, <2>2, <2>3 DEF PageInv
<1>5. CASE ~(w * h <= MaxPixels)
  <2>1. scale' = Shrunk(w, h) /\ phase' = phase /\ phase = "scale"
    BY <1>5 DEF ScalePage
  <2> HIDE DEF w, h
  <2>2. MaxPixels <= w * h
    BY <1>1, <1>3, <1>5
  <2>3. Shrunk(w, h) \in Int
    BY <1>1, <1>3, <2>2, ShrunkIsInt
  <2> QED BY <1>2, <2>1, <2>3 DEF PageInv
<1> QED
  BY <1>4, <1>5

LEMMA PageStep ==
  ASSUME PhaseInv, PageInv, [Next]_vars
  PROVE  PageInv'
<1>1. SUFFICES ASSUME Next, media' = "pdf" PROVE PageInv'
  <2>1. UNCHANGED vars => PageInv'
    <3> SUFFICES ASSUME UNCHANGED vars PROVE PageInv'
      OBVIOUS
    <3>1. media' = media /\ page' = page /\ phase' = phase /\ scale' = scale /\ raster' = raster
      BY DEF vars, contentVars, pageVars
    <3> QED BY <3>1, Zenon DEF PageInv
  <2>2. ~(media' = "pdf") => PageInv'
    BY Zenon DEF PageInv
  <2> QED BY <2>1, <2>2
<1>2. media' = media
  BY <1>1, Zenon DEF Next, RefuseMediaType, TextNext, ReadText, SplitBlock, FinishText, contentVars, OfficeNext, Preflight,
              MakeDirectory, LinkAlias, OpenBackend, Convert, Unload, CloseAlias, MapPages, MapItem, FinishMapping,
              PageNext, ScanPage, RasterizePage, ScalePage, RecognizePage
<1>3. media = "pdf" /\ page \in PdfPages
      /\ phase \in {"start", "rasterize", "scale", "recognize", "done", "failed", "rejected"}
      /\ media \notin Plain /\ media \notin Structured
  BY <1>1, <1>2, MediaApart DEF PageInv, PhaseInv, Final
<1>4. CASE RefuseMediaType
  BY <1>3, <1>4 DEF RefuseMediaType
<1>5. CASE TextNext
  BY <1>3, <1>5 DEF TextNext, ReadText, SplitBlock, FinishText
<1>6. CASE OfficeNext
  BY <1>3, <1>6 DEF OfficeNext, Preflight, MakeDirectory, LinkAlias, OpenBackend, Convert, Unload, CloseAlias,
                    MapPages, MapItem, FinishMapping
<1>7. CASE PageNext
  <2>1. CASE ScanPage
    <3>1. page' = page /\ phase' \in {"done", "rejected", "rasterize"}
      BY <2>1 DEF ScanPage, Finish, pageVars
    <3> QED BY <1>3, <3>1 DEF PageInv
  <2>2. CASE RasterizePage
    BY <1>3, <2>2, RasterizeStep
  <2>3. CASE ScalePage
    <3>1. scale \in Int
      BY <1>3, <2>3 DEF PageInv, ScalePage
    <3> QED BY <1>3, <2>3, <3>1, ScaleStep
  <2>4. CASE RecognizePage
    <3>1. page' = page /\ phase' \in {"done", "rejected"}
      BY <2>4 DEF RecognizePage, Finish, pageVars
    <3> QED BY <1>3, <3>1 DEF PageInv
  <2> QED BY <1>7, <2>1, <2>2, <2>3, <2>4 DEF PageNext
<1> QED
  BY <1>1, <1>4, <1>5, <1>6, <1>7 DEF Next

-----------------------------------------------------------------------------
(* The answer of every extractor.                                            *)
LEMMA AnswerInit == Init => AnswerInv
BY DEF Init, AnswerInv, BuiltContentIsAccepted, PageIsConsistent

LEMMA NotYetAnswered ==
  ASSUME phase' \notin {"done", "rejected"}
  PROVE  AnswerInv'
BY DEF AnswerInv, BuiltContentIsAccepted, PageIsConsistent

LEMMA AnswerStep ==
  ASSUME PhaseInv, TextInv, DraftsInv, PageInv, AnswerInv, [Next]_vars
  PROVE  AnswerInv'
<1>1. CASE UNCHANGED vars
  BY <1>1 DEF vars, contentVars, pageVars, AnswerInv, BuiltContentIsAccepted, PageIsConsistent, Sheet
<1>2. CASE RefuseMediaType
  <2>1. phase' = "failed"
    BY <1>2 DEF RefuseMediaType, Fail
  <2> QED BY <2>1, NotYetAnswered
<1>3. CASE TextNext
  <2>1. CASE ReadText
    <3>1. phase' \in {"split", "failed"}
      BY <2>1 DEF ReadText, Fail
    <3> QED BY <3>1, NotYetAnswered
  <2>2. CASE SplitBlock
    <3>1. phase' = "split"
      BY <2>2 DEF SplitBlock, contentVars
    <3> QED BY <3>1, NotYetAnswered
  <2>3. CASE FinishText
    <3>1. phase = "split" /\ media' = media
      BY <2>3 DEF FinishText
    <3>2. media \in Plain
      BY <3>1 DEF PhaseInv, MediaTypes, Final
    <3>3. SplitInv
      BY <3>1, <3>2 DEF TextInv
    <3>4. phase' = "done" /\ Cites(content') /\ media' # "pdf"
      BY <2>3, <3>1, <3>2, <3>3, FinishTextAnswers, MediaApart
    <3> QED BY <3>4 DEF AnswerInv, BuiltContentIsAccepted, PageIsConsistent
  <2> QED BY <1>3, <2>1, <2>2, <2>3 DEF TextNext
<1>4. CASE OfficeNext
  <2>1. CASE FinishMapping
    <3>1. phase = "items" /\ media' = media
      BY <2>1 DEF FinishMapping
    <3>2. media # "pdf"
      BY <3>1 DEF PhaseInv, Final
    <3>3. phase' = "done" /\ Cites(content') /\ media' # "pdf"
      BY <2>1, <3>1, <3>2, FinishMappingAnswers
    <3> QED BY <3>3 DEF AnswerInv, BuiltContentIsAccepted, PageIsConsistent
  <2>2. CASE ~FinishMapping
    <3>1. phase' \notin {"done", "rejected"}
      BY <1>4, <2>2 DEF OfficeNext, Preflight, MakeDirectory, LinkAlias, OpenBackend, Convert, Unload, CloseAlias,
                        MapPages, MapItem, Fail
    <3> QED BY <3>1, NotYetAnswered
  <2> QED BY <2>1, <2>2
<1>5. CASE PageNext
  <2>1. CASE ScanPage
    <3>1. media = "pdf" /\ page' = page
      BY <2>1 DEF ScanPage, pageVars
    <3>2. page \in PdfPages
      BY <3>1 DEF PageInv
    <3>3. CASE Route = "native"
      <4>1. Finish(Contents(NativeBlocks, NativeRegions))
        BY <2>1, <3>3 DEF ScanPage
      <4> QED BY <3>1, <3>2, <4>1, NativeBlocksFacts, NativeRegionsFacts, ContentsAnswers, Zenon
    <3>4. CASE Route = "blank"
      <4>1. Finish(Contents(<<>>, <<>>))
        BY <2>1, <3>4 DEF ScanPage
      <4>2. PageBlocks(<<>>) /\ PageRegions(<<>>)
        <5>1. DOMAIN <<>> = 1..0 /\ 0 \in Nat /\ \A i \in 1..0 : FALSE
          OBVIOUS
        <5> QED BY <5>1, Zenon DEF PageBlocks, PageRegions
      <4> QED BY <3>1, <3>2, <4>1, <4>2, ContentsAnswers, Zenon
    <3>5. CASE Route \notin {"native", "blank"}
      <4>1. phase' = "rasterize"
        BY <2>1, <3>5 DEF ScanPage
      <4> QED BY <4>1, NotYetAnswered
    <3> QED BY <3>3, <3>4, <3>5
  <2>2. CASE RasterizePage
    <3>1. phase' \in {"recognize", "scale"}
      BY <2>2 DEF RasterizePage
    <3> QED BY <3>1, NotYetAnswered
  <2>3. CASE ScalePage
    <3>1. phase' \in {"recognize", "scale"}
      BY <2>3 DEF ScalePage
    <3> QED BY <3>1, NotYetAnswered
  <2>4. CASE RecognizePage
    <3>1. phase = "recognize" /\ page' = page
      BY <2>4 DEF RecognizePage, pageVars
    <3>2. media = "pdf"
      BY <3>1 DEF PhaseInv, MediaTypes, Final
    <3>3. /\ page \in PdfPages /\ raster.width \in Nat \ {0} /\ raster.height \in Nat \ {0}
          /\ Lies(raster.box, page) /\ Proper(raster.box)
          /\ page.width \in Nat \ {0} /\ page.height \in Nat \ {0}
      BY <3>1, <3>2, PageAssumption DEF PageInv
    <3>4. PICK found \in {<<>>} \cup {<<line>> : line \in Lines}, tabular \in BOOLEAN, unsure \in BOOLEAN :
            Finish(Contents(found,
                            <<Region("scanned-page", 1, Sheet)>>
                            \o (IF tabular THEN <<Region("ocr-table", 1, Sheet)>> ELSE <<>>)
                            \o (IF unsure THEN <<Region("ocr-low-confidence", 1, Sheet)>> ELSE <<>>)))
      BY <2>4, Zenon DEF RecognizePage
    <3>5. PageBlocks(found)
      <4>1. CASE found = <<>>
        <5>1. DOMAIN <<>> = 1..0 /\ 0 \in Nat /\ \A i \in 1..0 : FALSE
          OBVIOUS
        <5> QED BY <4>1, <5>1, Zenon DEF PageBlocks
      <4>2. CASE found # <<>>
        <5>1. PICK line \in Lines : found = <<line>>
          BY <3>4, <4>2
        <5>2. DOMAIN found = 1..1 /\ found[1] = line /\ \A i \in 1..1 : i = 1
          BY <5>1
        <5>3. Lies(line, page)
          BY <3>3, LinesLie
        <5>4. \A b \in DOMAIN found : Lies(found[b], page)
          BY <5>2, <5>3, Zenon
        <5> QED BY <5>2, <5>4 DEF PageBlocks
      <4> QED BY <4>1, <4>2
    <3> DEFINE regions == <<Region("scanned-page", 1, Sheet)>>
                          \o (IF tabular THEN <<Region("ocr-table", 1, Sheet)>> ELSE <<>>)
                          \o (IF unsure THEN <<Region("ocr-low-confidence", 1, Sheet)>> ELSE <<>>)
    <3>6. PageRegions(regions)
      BY <3>3, ScannedRegionsFacts, Zenon
    <3>7. Finish(Contents(found, regions))
      BY <3>4
    <3> HIDE DEF regions
    <3> QED BY <3>1, <3>3, <3>5, <3>6, <3>7, ContentsAnswers, Zenon
  <2> QED BY <1>5, <2>1, <2>2, <2>3, <2>4 DEF PageNext
<1> QED
  BY <1>1, <1>2, <1>3, <1>4, <1>5 DEF Next

(* The invariant of the answers: with the phase, what the text extractor has *)
(* split, what the mapper has drafted, and the image of the page, the content *)
(* that any extractor returns is accepted, cited, and, for a page, on it.    *)
THEOREM AnswersInductive == Spec => [](PhaseInv /\ TextInv /\ DraftsInv /\ PageInv /\ AnswerInv)
<1>1. Init => PhaseInv /\ TextInv /\ DraftsInv /\ PageInv /\ AnswerInv
  BY PhaseInit, TextInvInit, DraftsInit, PageInvInit, AnswerInit
<1>2. PhaseInv /\ TextInv /\ DraftsInv /\ PageInv /\ AnswerInv /\ [Next]_vars
      => (PhaseInv /\ TextInv /\ DraftsInv /\ PageInv /\ AnswerInv)'
  BY PhaseStep, TextStep, DraftsStep, PageStep, AnswerStep
<1> QED
  BY <1>1, <1>2, PTL DEF Spec

(* No extractor builds content that DocumentContent or the schema of the     *)
(* artifact refuses: outline, bounds and region ids are right whatever the   *)
(* document, the text or the page.                                           *)
THEOREM ContentAccepted == Spec => []BuiltContentIsAccepted
<1>1. AnswerInv => BuiltContentIsAccepted
  BY DEF AnswerInv
<1> QED
  BY <1>1, AnswersInductive, PTL

(* A region's range in the text holds the block it was made with             *)
(* (ArtifactWriter._write_content), in every extractor's content.            *)
THEOREM RegionsCited == Spec => []RegionsComeWithTheirText
<1>1. AnswerInv => RegionsComeWithTheirText
  BY Zenon DEF AnswerInv, Cites, RegionsComeWithTheirText
<1> QED
  BY <1>1, AnswersInductive, PTL

(* Text and regions of a page lie on the page, and no table lies within      *)
(* another (PdfPageScanner.scan, TableDetector.detect), whatever MuPDF and   *)
(* Tesseract report.                                                         *)
THEOREM PageConsistent == Spec => []PageIsConsistent
<1>1. AnswerInv => PageIsConsistent
  BY DEF AnswerInv
<1> QED
  BY <1>1, AnswersInductive, PTL

-----------------------------------------------------------------------------
(* Where the parts of a joined text are: part k from behind at[k] up to      *)
(* at[k + 1].                                                                *)
Layout(s, q, at) ==
  /\ at \in [1..(Len(q) + 1) -> Nat] /\ at[1] = 0 /\ at[Len(q) + 1] = Len(s)
  /\ \A k \in 1..Len(q) : at[k + 1] = at[k] + Len(q[k])
  /\ \A k \in 1..Len(q) : \A j \in 1..Len(q[k]) : s[at[k] + j] = q[k][j]
  /\ \A k \in 1..Len(q) : \A m \in 1..k : at[m + 1] <= at[k + 1]
  /\ \A i \in 1..Len(s) : \E k \in 1..Len(q) : at[k] < i /\ i <= at[k + 1]

LEMMA PlaceBefore ==
  ASSUME NEW x \in Nat, NEW l \in Nat, NEW a \in Nat, NEW b \in Nat, x + l <= a
  PROVE  \A j \in 1..l : x + j \in 1..(a + b) /\ x + j <= a
OBVIOUS

LEMMA PlaceBehind ==
  ASSUME NEW a \in Nat, NEW b \in Nat
  PROVE  \A j \in 1..b : a + j \in 1..(a + b) /\ ~(a + j <= a) /\ a + j - a = j
OBVIOUS

LEMMA FlattenLayout ==
  ASSUME NEW S, NEW q \in Seq(Seq(S))
  PROVE  \E at : Layout(FlattenSeq(q), q, at)
<1> DEFINE n == Len(q)
<1>1. n \in Nat /\ DOMAIN q = 1..n /\ \A k \in 1..n : q[k] \in Seq(S)
  OBVIOUS
<1>2. CASE n = 0
  <2>1. FlattenSeq(q) = q /\ q = <<>>
    BY <1>2 DEF FlattenSeq
  <2> DEFINE at == [k \in 1..1 |-> 0]
  <2>2. Layout(<<>>, <<>>, at)
    BY DEF Layout
  <2> QED BY <2>1, <2>2
<1>3. CASE n # 0
  <2>1. PICK f : FlatRec(q, n, f) /\ FlattenSeq(q) = f[n]
    BY <1>1, <1>3, FlattenIs
  <2> DEFINE at == [k \in 1..(n + 1) |-> IF k = 1 THEN 0 ELSE Len(f[k - 1])]
             Holds(k) ==
               /\ f[k] \in Seq(S)
               /\ \A m \in 1..k : /\ at[m + 1] <= Len(f[k]) /\ at[m] \in Nat /\ at[m + 1] = at[m] + Len(q[m])
                                  /\ \A j \in 1..Len(q[m]) : f[k][at[m] + j] = q[m][j]
               /\ \A i \in 1..Len(f[k]) : \E m \in 1..k : at[m] < i /\ i <= at[m + 1]
             F == {k \in 1..n : ~Holds(k)}
  <2>2. at[1] = 0 /\ \A k \in 1..n : at[k + 1] = Len(f[k])
    BY <1>1
  <2> HIDE DEF at
  <2>3. ASSUME F # {} PROVE FALSE
    <3>1. PICK k \in F : \A j \in F : k <= j
      <4>1. F \subseteq 1..n
        OBVIOUS
      <4> HIDE DEF F, n
      <4> QED BY <1>1, <2>3, <4>1, LeastIndex
    <3>2. k \in 1..n /\ q[k] \in Seq(S) /\ Len(q[k]) \in Nat
      BY <1>1, <3>1
    <3>3. f[k] = IF k = 1 THEN q[k] ELSE f[k - 1] \o q[k]
      BY <2>1, <3>2 DEF FlatRec
    <3>4. CASE k = 1
      <4>1. f[k] = q[k] /\ at[k] = 0 /\ at[k + 1] = Len(q[k])
        BY <2>2, <3>2, <3>3, <3>4
      <4>2. \A m \in 1..k : m = k
        BY <3>4
      <4>3. k \in 1..k /\ \A j \in 1..Len(q[k]) : f[k][at[k] + j] = q[k][j]
        BY <3>4, <4>1
      <4>4. at[k + 1] <= Len(f[k]) /\ at[k] \in Nat /\ at[k + 1] = at[k] + Len(q[k])
        BY <3>2, <4>1
      <4>5. \A i \in 1..Len(f[k]) : at[k] < i /\ i <= at[k + 1]
        BY <3>2, <4>1
      <4>6. \A m \in 1..k : /\ at[m + 1] <= Len(f[k]) /\ at[m] \in Nat /\ at[m + 1] = at[m] + Len(q[m])
                            /\ \A j \in 1..Len(q[m]) : f[k][at[m] + j] = q[m][j]
        BY <4>2, <4>3, <4>4, Zenon
      <4>7. Holds(k)
        BY <3>2, <4>1, <4>3, <4>5, <4>6, Zenon
      <4> QED BY <3>1, <4>7
    <3>5. CASE k # 1
      <4> DEFINE p == k - 1
                 a == f[p]
                 b == q[k]
      <4>1. p \in 1..n /\ p \notin F /\ p + 1 = k /\ (\A m \in 1..k : m \in 1..p \/ m = k) /\ 1..p \subseteq 1..k /\ k \in 1..k
        <5>1. p \in 1..n /\ ~(k <= p)
          BY <1>1, <3>2, <3>5
        <5>2. p + 1 = k /\ (\A m \in 1..k : m \in 1..p \/ m = k) /\ 1..p \subseteq 1..k /\ k \in 1..k
          BY <1>1, <3>2
        <5> QED BY <3>1, <5>1, <5>2
      <4>2. Holds(p)
        BY <4>1
      <4>3. a \in Seq(S) /\ b \in Seq(S) /\ f[k] = a \o b
        BY <3>2, <3>3, <3>5, <4>2
      <4>4. /\ f[k] \in Seq(S) /\ Len(f[k]) = Len(a) + Len(b)
            /\ \A i \in 1..Len(f[k]) : f[k][i] = IF i <= Len(a) THEN a[i] ELSE b[i - Len(a)]
        <5> HIDE DEF a, b
        <5> QED BY <4>3, ConcatProperties
      <4>5. Len(a) \in Nat /\ Len(b) \in Nat
        BY <4>3
      <4>6. at[k] = Len(a) /\ at[k + 1] = Len(a) + Len(b)
        BY <2>2, <3>2, <4>1, <4>2, <4>4
      <4>7. ASSUME NEW m \in 1..p
            PROVE  /\ at[m + 1] <= Len(f[k]) /\ at[m] \in Nat /\ at[m + 1] = at[m] + Len(q[m])
                   /\ \A j \in 1..Len(q[m]) : f[k][at[m] + j] = q[m][j]
        <5>1. /\ at[m + 1] <= Len(a) /\ at[m] \in Nat /\ at[m + 1] = at[m] + Len(q[m])
              /\ \A j \in 1..Len(q[m]) : a[at[m] + j] = q[m][j]
          BY <4>2, <4>7
        <5>2. Len(q[m]) \in Nat
          <6>1. m \in 1..n
            BY <1>1, <4>1
          <6> QED BY <1>1, <6>1
        <5> HIDE DEF a, b, p
        <5>3. \A j \in 1..Len(q[m]) : at[m] + j \in 1..Len(f[k]) /\ at[m] + j <= Len(a)
          <6>1. at[m] + Len(q[m]) <= Len(a) /\ at[m] \in Nat /\ Len(f[k]) = Len(a) + Len(b)
            BY <4>4, <5>1
          <6>2. \A j \in 1..Len(q[m]) : at[m] + j \in 1..(Len(a) + Len(b)) /\ at[m] + j <= Len(a)
            BY <4>5, <5>2, <6>1, PlaceBefore
          <6> QED BY <6>1, <6>2
        <5>4. \A j \in 1..Len(q[m]) : f[k][at[m] + j] = q[m][j]
          BY <4>4, <5>1, <5>3
        <5> QED BY <4>4, <4>5, <5>1, <5>2, <5>4
      <4>8. \A j \in 1..Len(b) : f[k][at[k] + j] = b[j]
        <5> HIDE DEF a, b, p
        <5>1. \A j \in 1..Len(b) : at[k] + j \in 1..Len(f[k]) /\ ~(at[k] + j <= Len(a)) /\ at[k] + j - Len(a) = j
          <6>1. Len(f[k]) = Len(a) + Len(b) /\ at[k] = Len(a)
            BY <4>4, <4>6
          <6>2. \A j \in 1..Len(b) : Len(a) + j \in 1..(Len(a) + Len(b)) /\ ~(Len(a) + j <= Len(a)) /\ Len(a) + j - Len(a) = j
            BY <4>5, PlaceBehind
          <6> QED BY <6>1, <6>2
        <5>2. \A i \in 1..Len(f[k]) : ~(i <= Len(a)) => f[k][i] = b[i - Len(a)]
          BY <4>4
        <5> DEFINE w == f[k]
                   x == at[k]
                   l == Len(w)
        <5>3. \A j \in 1..Len(b) : x + j \in 1..l /\ ~(x + j <= Len(a)) /\ x + j - Len(a) = j
          BY <5>1
        <5>5. \A i \in 1..l : ~(i <= Len(a)) => w[i] = b[i - Len(a)]
          BY <5>2
        <5>6. x \in Nat /\ Len(a) \in Nat /\ l \in Nat /\ Len(b) \in Nat
          BY <4>4, <4>5, <4>6
        <5> HIDE DEF w, x, l
        <5>4. ASSUME NEW j \in 1..Len(b) PROVE w[x + j] = b[j]
          <6> DEFINE i == x + j
          <6>1. i \in 1..l /\ ~(i <= Len(a)) /\ i - Len(a) = j
            BY ONLY <5>3, <5>6
          <6> HIDE DEF i
          <6>2. w[i] = b[i - Len(a)]
            BY <5>5, <6>1, Zenon
          <6>3. w[i] = b[j]
            BY <6>1, <6>2
          <6> QED BY <6>3 DEF i
        <5> QED BY <5>4 DEF w, x
      <4>9. \A m \in 1..k : /\ at[m + 1] <= Len(f[k]) /\ at[m] \in Nat /\ at[m + 1] = at[m] + Len(q[m])
                            /\ \A j \in 1..Len(q[m]) : f[k][at[m] + j] = q[m][j]
        <5> SUFFICES ASSUME NEW m \in 1..k
                     PROVE  /\ at[m + 1] <= Len(f[k]) /\ at[m] \in Nat /\ at[m + 1] = at[m] + Len(q[m])
                            /\ \A j \in 1..Len(q[m]) : f[k][at[m] + j] = q[m][j]
          OBVIOUS
        <5>1. CASE m \in 1..p
          BY <4>7, <5>1
        <5>2. CASE m = k
          <6>1. at[k + 1] <= Len(f[k]) /\ at[k] \in Nat /\ at[k + 1] = at[k] + Len(b)
            <7> HIDE DEF a, b
            <7> QED BY <4>4, <4>5, <4>6
          <6> QED BY <4>8, <5>2, <6>1
        <5> QED BY <4>1, <5>1, <5>2
      <4>10. \A i \in 1..Len(f[k]) : \E m \in 1..k : at[m] < i /\ i <= at[m + 1]
        <5> SUFFICES ASSUME NEW i \in 1..Len(f[k]) PROVE \E m \in 1..k : at[m] < i /\ i <= at[m + 1]
          OBVIOUS
        <5>1. CASE i <= Len(a)
          <6>1. i \in 1..Len(a)
            <7> HIDE DEF a, b
            <7> QED BY <4>4, <4>5, <5>1
          <6>2. PICK m \in 1..p : at[m] < i /\ i <= at[m + 1]
            BY <4>2, <6>1
          <6> QED BY <4>1, <6>2
        <5>2. CASE ~(i <= Len(a))
          <6>1. at[k] < i /\ i <= at[k + 1]
            <7> HIDE DEF a, b
            <7> QED BY <4>4, <4>5, <4>6, <5>2
          <6> QED BY <4>1, <6>1
        <5> QED BY <5>1, <5>2
      <4>11. Holds(k)
        <5>1. at[k + 1] = Len(f[k])
          BY <2>2, <3>2
        <5> QED BY <4>1, <4>4, <4>9, <4>10, <5>1
      <4> QED BY <3>1, <4>11
    <3> QED BY <3>4, <3>5
  <2>4. \A k \in 1..n : Holds(k)
    BY <2>3
  <2>5. n \in 1..n
    BY <1>1, <1>3
  <2> DEFINE s == FlattenSeq(q)
  <2>6. at \in [1..(n + 1) -> Nat]
    <3>1. \A k \in 1..(n + 1) : at[k] \in Nat
      <4> SUFFICES ASSUME NEW k \in 1..(n + 1) PROVE at[k] \in Nat
        OBVIOUS
      <4>1. CASE k = 1
        BY <2>2, <4>1
      <4>2. CASE k # 1
        <5>1. k - 1 \in 1..n /\ (k - 1) + 1 = k
          BY <1>1, <4>2
        <5>2. f[k - 1] \in Seq(S) /\ at[(k - 1) + 1] = Len(f[k - 1])
          BY <2>2, <2>4, <5>1, Zenon
        <5> QED BY <5>1, <5>2
      <4> QED BY <4>1, <4>2
    <3> QED BY <3>1 DEF at
  <2>7. at[n + 1] = Len(s)
    BY <2>1, <2>2, <2>5
  <2>8. \A k \in 1..n : at[k + 1] = at[k] + Len(q[k])
    BY <2>4
  <2>9. \A k \in 1..n : \A j \in 1..Len(q[k]) : s[at[k] + j] = q[k][j]
    BY <2>1, <2>4, <2>5
  <2>10. \A k \in 1..n : \A m \in 1..k : at[m + 1] <= at[k + 1]
    <3> SUFFICES ASSUME NEW k \in 1..n, NEW m \in 1..k PROVE at[m + 1] <= at[k + 1]
      OBVIOUS
    <3>1. Holds(k) /\ at[k + 1] = Len(f[k])
      BY <2>2, <2>4
    <3> QED BY <3>1, Zenon
  <2>11. \A i \in 1..Len(s) : \E k \in 1..n : at[k] < i /\ i <= at[k + 1]
    BY <2>1, <2>4, <2>5
  <2>12. Layout(s, q, at)
    <3> HIDE DEF s, n, Holds, F
    <3>1. n = Len(q)
      BY DEF n
    <3> QED BY <2>2, <2>6, <2>7, <2>8, <2>9, <2>10, <2>11, <3>1 DEF Layout
  <2> QED BY <2>12
<1> QED
  BY <1>2, <1>3

(* What a value of a table becomes has no line break, and no bar that is not *)
(* escaped.                                                                  *)
LoneBars(s) == {i \in 1..Len(s) : s[i] = "bar" /\ (i = 1 \/ s[i - 1] # "escape")}
Bare(s) == \A i \in 1..Len(s) : s[i] # "nl" /\ (s[i] = "bar" => i > 1 /\ s[i - 1] = "escape")

LEMMA CellIsBare ==
  ASSUME NEW v \in Seq(Characters)
  PROVE  Bare(Cell(v))
<1> DEFINE written(c) == CASE c = "bar" -> <<"escape", "bar">>
                           [] c = "nl"  -> <<"sp">>
                           [] OTHER     -> <<c>>
           q == [i \in DOMAIN v |-> written(v[i])]
           s == FlattenSeq(q)
<1>1. ASSUME NEW c \in Characters
      PROVE  /\ written(c) \in Seq(Characters) /\ Len(written(c)) \in {1, 2}
             /\ \A j \in 1..Len(written(c)) :
                  /\ written(c)[j] # "nl"
                  /\ written(c)[j] = "bar" => j = 2 /\ written(c)[1] = "escape"
  <2>1. "escape" \in Characters /\ "bar" \in Characters /\ "sp" \in Characters
    BY DEF Characters
  <2>2. CASE c = "bar"
    <3>1. written(c) = <<"escape", "bar">>
      BY <2>2
    <3>2. <<"escape", "bar">> \in Seq(Characters) /\ Len(<<"escape", "bar">>) = 2
      BY <2>1
    <3>3. \A j \in 1..2 : <<"escape", "bar">>[j] # "nl" /\ (<<"escape", "bar">>[j] = "bar" => j = 2)
      <4>1. \A j \in 1..2 : j = 1 \/ j = 2
        OBVIOUS
      <4> QED BY <4>1
    <3> QED BY <3>1, <3>2, <3>3
  <2>3. CASE c = "nl"
    <3>1. written(c) = <<"sp">>
      BY <2>3
    <3>2. <<"sp">> \in Seq(Characters) /\ Len(<<"sp">>) = 1
      BY <2>1
    <3>3. \A j \in 1..1 : <<"sp">>[j] = "sp"
      OBVIOUS
    <3> QED BY <3>1, <3>2, <3>3
  <2>4. CASE c # "bar" /\ c # "nl"
    <3>1. written(c) = <<c>>
      BY <2>4
    <3>2. <<c>> \in Seq(Characters) /\ Len(<<c>>) = 1
      BY <2>1
    <3>3. \A j \in 1..1 : <<c>>[j] = c
      OBVIOUS
    <3> QED BY <2>4, <3>1, <3>2, <3>3
  <2> QED BY <2>2, <2>3, <2>4
<1> HIDE DEF written
<1>2. Len(q) = Len(v) /\ Len(q) \in Nat /\ \A k \in 1..Len(q) : q[k] = written(v[k]) /\ v[k] \in Characters
  OBVIOUS
<1>3. q \in Seq(Seq(Characters))
  <2>1. q = [k \in 1..Len(q) |-> q[k]]
    OBVIOUS
  <2>2. \A k \in 1..Len(q) : q[k] \in Seq(Characters)
    <3> HIDE DEF q
    <3> QED BY <1>1, <1>2
  <2> HIDE DEF q
  <2> QED BY <1>2, <2>1, <2>2
<1> HIDE DEF q
<1>4. PICK at : Layout(s, q, at)
  BY <1>3, FlattenLayout
<1>5. s \in Seq(Characters)
  BY <1>3, FlattenFacts
<1> HIDE DEF s
<1>6. ASSUME NEW i \in 1..Len(s)
      PROVE  s[i] # "nl" /\ (s[i] = "bar" => i > 1 /\ s[i - 1] = "escape")
  <2>1. PICK k \in 1..Len(q) : at[k] < i /\ i <= at[k + 1]
    BY <1>4 DEF Layout
  <2> DEFINE j == i - at[k]
             l == Len(q[k])
             a == at[k]
  <2>2. at[k + 1] = a + l /\ (\A m \in 1..l : s[a + m] = q[k][m]) /\ a \in Nat /\ l \in Nat
    <3>1. at \in [1..(Len(q) + 1) -> Nat] /\ k \in 1..(Len(q) + 1)
      BY <1>2, <1>4 DEF Layout
    <3>2. q[k] \in Seq(Characters)
      BY <1>3
    <3>3. at[k] \in Nat /\ Len(q[k]) \in Nat
      BY <3>1, <3>2
    <3>4. at[k + 1] = at[k] + Len(q[k]) /\ \A m \in 1..Len(q[k]) : s[at[k] + m] = q[k][m]
      BY <1>4, Zenon DEF Layout
    <3> QED BY <3>3, <3>4
  <2>3. \A m \in 1..l : q[k][m] # "nl" /\ (q[k][m] = "bar" => m = 2 /\ q[k][1] = "escape")
    BY <1>1, <1>2
  <2> HIDE DEF l, a
  <2>4. j \in 1..l /\ a + j = i /\ i \in Nat
    <3>1. a < i /\ i <= a + l /\ i \in Int
      BY <1>5, <2>1, <2>2 DEF a
    <3>2. i - a \in 1..l /\ a + (i - a) = i /\ i \in Nat
      BY <2>2, <3>1
    <3> QED BY <3>2 DEF a
  <2> HIDE DEF j
  <2>5. s[i] = q[k][j]
    BY <2>2, <2>4
  <2>6. ASSUME s[i] = "bar" PROVE i > 1 /\ s[i - 1] = "escape"
    <3>1. j = 2 /\ q[k][1] = "escape"
      BY <2>3, <2>4, <2>5, <2>6
    <3>2. i = a + 2 /\ 1 \in 1..l
      BY <2>2, <2>4, <3>1
    <3>3. i - 1 = a + 1 /\ i > 1
      BY <2>2, <3>2
    <3>4. s[a + 1] = q[k][1]
      BY <2>2, <3>2
    <3> QED BY <3>1, <3>3, <3>4
  <2> QED BY <2>3, <2>4, <2>5, <2>6
<1> QED
  BY <1>6 DEF Bare, Cell, s, q, written

(* Where the parts of a join are, and the separators before all but one.     *)
Gap(k, separator) == IF k = 1 THEN 0 ELSE Len(separator)
Joined(s, parts, separator, at) ==
  /\ at \in [1..(Len(parts) + 1) -> Nat] /\ at[1] = 0 /\ at[Len(parts) + 1] = Len(s)
  /\ \A k \in 1..Len(parts) :
       /\ at[k + 1] = at[k] + Gap(k, separator) + Len(parts[k])
       /\ \A j \in 1..Gap(k, separator) : s[at[k] + j] = separator[j]
       /\ \A j \in 1..Len(parts[k]) : s[at[k] + Gap(k, separator) + j] = parts[k][j]
  /\ \A k \in 1..Len(parts) : \A m \in 1..k : at[m + 1] <= at[k + 1]
  /\ \A i \in 1..Len(s) : \E k \in 1..Len(parts) : at[k] < i /\ i <= at[k + 1]

Follows(c, a, b, S) ==
  /\ Len(c) = Len(a) + Len(b) /\ Len(a) \in Nat /\ Len(b) \in Nat /\ c \in Seq(S)
  /\ \A j \in 1..Len(a) : c[j] = a[j]
  /\ \A j \in 1..Len(b) : c[Len(a) + j] = b[j]

LEMMA ConcatPlaces ==
  ASSUME NEW S, NEW a \in Seq(S), NEW b \in Seq(S)
  PROVE  Follows(a \o b, a, b, S)
<1> DEFINE c == a \o b
<1>1. /\ c \in Seq(S) /\ Len(c) = Len(a) + Len(b)
      /\ \A i \in 1..Len(c) : c[i] = IF i <= Len(a) THEN a[i] ELSE b[i - Len(a)]
  BY ConcatProperties
<1>2. Len(a) \in Nat /\ Len(b) \in Nat
  OBVIOUS
<1> HIDE DEF c
<1>3. ASSUME NEW j \in 1..Len(a) PROVE c[j] = a[j]
  <2>1. j \in 1..Len(c) /\ j <= Len(a)
    BY <1>1, <1>2
  <2> QED BY <1>1, <2>1
<1>4. ASSUME NEW j \in 1..Len(b) PROVE c[Len(a) + j] = b[j]
  <2>1. Len(a) + j \in 1..Len(c) /\ ~(Len(a) + j <= Len(a)) /\ Len(a) + j - Len(a) = j
    BY <1>1, <1>2
  <2> QED BY <1>1, <1>2, <2>1
<1> QED
  BY <1>1, <1>2, <1>3, <1>4 DEF c, Follows

LEMMA JoinLayout ==
  ASSUME NEW parts \in Seq(Seq(Characters)), NEW separator \in Seq(Characters)
  PROVE  \E at : Joined(Join(parts, separator), parts, separator, at)
<1> DEFINE q == [i \in DOMAIN parts |-> IF i = 1 THEN parts[i] ELSE separator \o parts[i]]
           n == Len(parts)
           s == Join(parts, separator)
<1>1. n \in Nat /\ DOMAIN parts = 1..n /\ Len(separator) \in Nat /\ \A k \in 1..n : parts[k] \in Seq(Characters) /\ Len(parts[k]) \in Nat
  OBVIOUS
<1>2. Len(q) = n /\ \A k \in 1..n : q[k] = IF k = 1 THEN parts[k] ELSE separator \o parts[k]
  BY <1>1
<1>3. ASSUME NEW k \in 1..n
      PROVE  /\ q[k] \in Seq(Characters) /\ Len(q[k]) = Gap(k, separator) + Len(parts[k])
             /\ \A j \in 1..Gap(k, separator) : q[k][j] = separator[j]
             /\ \A j \in 1..Len(parts[k]) : q[k][Gap(k, separator) + j] = parts[k][j]
  <2>1. CASE k = 1
    <3>1. q[k] = parts[k] /\ Gap(k, separator) = 0
      BY <1>2, <2>1 DEF Gap
    <3>2. Len(parts[k]) = 0 + Len(parts[k]) /\ 1..0 = {} /\ \A j \in 1..Len(parts[k]) : 0 + j = j
      BY <1>1
    <3> HIDE DEF q
    <3> QED BY <1>1, <3>1, <3>2
  <2>2. CASE k # 1
    <3>1. q[k] = separator \o parts[k] /\ Gap(k, separator) = Len(separator) /\ parts[k] \in Seq(Characters)
      BY <1>1, <1>2, <2>2 DEF Gap
    <3> HIDE DEF q
    <3>2. Follows(separator \o parts[k], separator, parts[k], Characters)
      BY <3>1, ConcatPlaces
    <3> QED BY <3>1, <3>2 DEF Follows
  <2> QED BY <2>1, <2>2
<1>4. q \in Seq(Seq(Characters))
  <2>1. q = [k \in 1..n |-> q[k]]
    BY <1>1
  <2> HIDE DEF q
  <2> QED BY <1>1, <1>3, <2>1
<1>5. s = FlattenSeq(q)
  BY DEF Join
<1> HIDE DEF q, s
<1>6. PICK at : Layout(s, q, at)
  BY <1>4, <1>5, FlattenLayout
<1>7. \A k \in 1..n : at[k + 1] = at[k] + Len(q[k]) /\ \A j \in 1..Len(q[k]) : s[at[k] + j] = q[k][j]
  BY <1>2, <1>6 DEF Layout
<1>8. at \in [1..(n + 1) -> Nat] /\ at[1] = 0 /\ at[n + 1] = Len(s)
        /\ (\A k \in 1..n : \A m \in 1..k : at[m + 1] <= at[k + 1])
        /\ \A i \in 1..Len(s) : \E k \in 1..n : at[k] < i /\ i <= at[k + 1]
  BY <1>2, <1>6 DEF Layout
<1>9. ASSUME NEW k \in 1..n
      PROVE  /\ at[k + 1] = at[k] + Gap(k, separator) + Len(parts[k])
             /\ \A j \in 1..Gap(k, separator) : s[at[k] + j] = separator[j]
             /\ \A j \in 1..Len(parts[k]) : s[at[k] + Gap(k, separator) + j] = parts[k][j]
  <2> DEFINE a == at[k]
             g == Gap(k, separator)
             l == Len(parts[k])
             r == q[k]
             p == parts[k]
  <2>1. a \in Nat /\ g \in Nat /\ l \in Nat /\ Len(r) = g + l
    <3>1. k \in 1..(n + 1)
      BY <1>1
    <3> QED BY <1>1, <1>3, <1>8, <3>1 DEF Gap
  <2>2. /\ at[k + 1] = a + Len(r)
        /\ \A j \in 1..Len(r) : s[a + j] = r[j]
        /\ \A j \in 1..g : r[j] = separator[j]
        /\ \A j \in 1..l : r[g + j] = p[j]
    BY <1>3, <1>7
  <2> HIDE DEF a, g, l, r, p
  <2>3. at[k + 1] = a + g + l
    BY <2>1, <2>2
  <2>4. \A j \in 1..g : s[a + j] = separator[j]
    <3>1. \A j \in 1..g : j \in 1..Len(r)
      BY <2>1
    <3> QED BY <2>2, <3>1
  <2>5. ASSUME NEW j \in 1..l PROVE s[a + g + j] = p[j]
    <3>1. g + j \in 1..Len(r) /\ a + (g + j) = a + g + j
      BY <2>1
    <3>2. s[a + (g + j)] = r[g + j]
      BY <2>2, <3>1
    <3>3. r[g + j] = p[j]
      BY <2>2, <2>5
    <3> QED BY <3>1, <3>2, <3>3
  <2> QED BY <2>3, <2>4, <2>5 DEF a, g, l, p
<1>10. Joined(s, parts, separator, at)
  <2> HIDE DEF n
  <2>1. n = Len(parts)
    BY DEF n
  <2> QED BY <1>8, <1>9, <2>1 DEF Joined
<1> QED
  BY <1>10 DEF s

(* A set that is counted through from its least element to its greatest.     *)
Increasing(h, m) == h \in [1..m -> Int] /\ \A i, j \in 1..m : i < j => h[i] < h[j]
ImageOf(T, h, m) == T = {h[k] : k \in 1..m}
Counted(T, h, m) == \A n \in 1..m : Ascending(T)[n] = h[n]

LEMMA IncreasingImage ==
  ASSUME NEW m \in Nat, NEW h, Increasing(h, m), NEW T, ImageOf(T, h, m)
  PROVE  IsFiniteSet(T) /\ T \subseteq Int /\ Cardinality(T) = m /\ Counted(T, h, m)
<1> DEFINE I == 1..m
<1>1. IsFiniteSet(I) /\ Cardinality(I) = m /\ I \subseteq Int
  <2>1. 1 \in Int /\ m \in Int
    OBVIOUS
  <2>2. IsFiniteSet(1..m) /\ Cardinality(1..m) = IF 1 > m THEN 0 ELSE m - 1 + 1
    BY <2>1, FS_Interval
  <2> QED BY <2>2
<1>2. h \in [I -> T] /\ (\A t \in T : \E x \in I : h[x] = t) /\ T \subseteq Int
  BY DEF Increasing, ImageOf
<1>3. \A x, y \in I : x < y => h[x] < h[y]
  BY DEF Increasing
<1> HIDE DEF I
<1>4. IsFiniteSet(T)
  <2>1. h \in Surjection(I, T)
    BY <1>2 DEF Surjection
  <2> QED BY <1>1, <2>1, FS_Surjection
<1>5. KeepsOrder(h, I, T)
  BY <1>1, <1>2, <1>3, <1>4 DEF KeepsOrder
<1>6. Cardinality(T) = m /\ \A n \in 1..m : Ascending(T)[n] = h[Ascending(I)[n]]
  BY <1>1, <1>5, AscendingImage
<1>7. ASSUME NEW n \in 1..m PROVE Ascending(I)[n] = n
  <2>1. n \in I
    BY DEF I
  <2>2. Rank(I, n) = n
    <3>1. {y \in I : y <= n} = 1..n
      BY <1>7 DEF I
    <3>2. 1 \in Int /\ n \in Int
      OBVIOUS
    <3>3. Cardinality(1..n) = IF 1 > n THEN 0 ELSE n - 1 + 1
      BY <3>2, FS_Interval
    <3>4. Cardinality(1..n) = n
      BY <3>3
    <3> QED BY <3>1, <3>4 DEF Rank
  <2>3. Ascending(I)[Rank(I, n)] = n
    BY <1>1, <2>1, AscendingFacts
  <2> QED BY <2>2, <2>3
<1> QED
  BY <1>2, <1>4, <1>6, <1>7 DEF Counted

(* The cells of a row joined: only the separators have bars of their own.    *)
Separator == <<"sp", "bar", "sp">>

LEMMA JoinedCells ==
  ASSUME NEW cells \in Seq(Seq(Characters)), \A k \in 1..Len(cells) : Bare(cells[k]),
         NEW s \in Seq(Characters), NEW at, Joined(s, cells, Separator, at)
  PROVE  /\ \A i \in 1..Len(s) : s[i] # "nl"
         /\ LoneBars(s) = {at[k] + 2 : k \in 2..Len(cells)}
<1> DEFINE n == Len(cells)
<1>1. n \in Nat /\ Len(s) \in Nat /\ (\A k \in 1..n : cells[k] \in Seq(Characters) /\ Len(cells[k]) \in Nat)
  OBVIOUS
<1>2. Len(Separator) = 3 /\ Separator[1] = "sp" /\ Separator[2] = "bar" /\ Separator[3] = "sp"
  BY DEF Separator
<1>3. at \in [1..(n + 1) -> Nat] /\ at[1] = 0 /\ at[n + 1] = Len(s)
        /\ (\A k \in 1..n : \A m \in 1..k : at[m + 1] <= at[k + 1])
        /\ \A i \in 1..Len(s) : \E k \in 1..n : at[k] < i /\ i <= at[k + 1]
  BY DEF Joined
<1>4. \A k \in 1..n :
        /\ at[k + 1] = at[k] + Gap(k, Separator) + Len(cells[k])
        /\ \A j \in 1..Gap(k, Separator) : s[at[k] + j] = Separator[j]
        /\ \A j \in 1..Len(cells[k]) : s[at[k] + Gap(k, Separator) + j] = cells[k][j]
  BY DEF Joined
<1>5. \A k \in 1..n : Gap(k, Separator) = IF k = 1 THEN 0 ELSE 3
  BY <1>2 DEF Gap
<1>6. \A k \in 1..n : at[k] \in Nat
  <2>1. \A k \in 1..n : k \in 1..(n + 1)
    BY <1>1
  <2>2. at \in [1..(n + 1) -> Nat]
    BY <1>3
  <2> HIDE DEF n
  <2> QED BY <2>1, <2>2
<1>7. ASSUME NEW i \in 1..Len(s)
      PROVE  /\ s[i] # "nl"
             /\ i \in LoneBars(s) => \E k \in 2..n : i = at[k] + 2
  <2>1. PICK k \in 1..n : at[k] < i /\ i <= at[k + 1]
    BY <1>3
  <2> DEFINE a == at[k]
             g == Gap(k, Separator)
             c == cells[k]
             l == Len(c)
  <2>2. a \in Nat /\ l \in Nat /\ g \in {0, 3} /\ (g = 3 => k # 1) /\ i \in Nat
    BY <1>1, <1>5, <1>6
  <2>3. /\ a < i /\ i <= a + g + l
        /\ \A j \in 1..g : s[a + j] = Separator[j]
        /\ \A j \in 1..l : s[a + g + j] = c[j]
    BY <1>4, <2>1
  <2>4. \A j \in 1..l : c[j] # "nl" /\ (c[j] = "bar" => j > 1 /\ c[j - 1] = "escape")
    BY DEF Bare
  <2> HIDE DEF a, g, l, c
  <2>5. CASE i <= a + g
    <3>1. g = 3 /\ i - a \in 1..3 /\ a + (i - a) = i /\ k # 1
      BY <2>2, <2>3, <2>5
    <3>2. s[i] = Separator[i - a]
      BY <2>3, <3>1
    <3>3. i - a = 1 \/ i - a = 2 \/ i - a = 3
      BY <3>1
    <3>4. s[i] # "nl" /\ (s[i] = "bar" => i - a = 2)
      BY <1>2, <3>2, <3>3
    <3>5. s[i] = "bar" => \E m \in 2..n : i = at[m] + 2
      <4>1. i - a = 2 => i = at[k] + 2 /\ k \in 2..n
        BY <1>1, <2>2, <3>1 DEF a
      <4> QED BY <3>4, <4>1
    <3> QED BY <3>4, <3>5 DEF LoneBars
  <2>6. CASE ~(i <= a + g)
    <3> DEFINE j == i - (a + g)
    <3>1. j \in 1..l /\ a + g + j = i /\ i - 1 = a + g + (j - 1) /\ j \in Nat
      BY <2>2, <2>3, <2>6
    <3> HIDE DEF j
    <3>2. s[i] = c[j]
      BY <2>3, <3>1
    <3>3. ASSUME s[i] = "bar" PROVE i \notin LoneBars(s)
      <4>1. j > 1 /\ c[j - 1] = "escape"
        BY <2>4, <3>1, <3>2, <3>3
      <4>2. j - 1 \in 1..l /\ i # 1
        BY <2>2, <3>1, <4>1
      <4>3. s[a + g + (j - 1)] = c[j - 1]
        BY <2>3, <4>2
      <4>4. s[i - 1] = "escape"
        BY <3>1, <4>1, <4>3
      <4> QED BY <4>2, <4>4 DEF LoneBars
    <3>4. s[i] # "bar" => i \notin LoneBars(s)
      BY DEF LoneBars
    <3> QED BY <2>4, <3>1, <3>2, <3>3, <3>4
  <2> QED BY <2>5, <2>6
<1>8. ASSUME NEW k \in 2..n
      PROVE  at[k] + 2 \in LoneBars(s)
  <2> DEFINE a == at[k]
             l == Len(cells[k])
  <2>1. k \in 1..n /\ n \in 1..n /\ k \in 1..n /\ k # 1
    BY <1>1
  <2>2. a \in Nat /\ l \in Nat /\ Gap(k, Separator) = 3 /\ at[k + 1] <= Len(s)
    <3>1. at[k + 1] <= at[n + 1]
      BY <1>1, <1>3, <2>1
    <3> QED BY <1>1, <1>3, <1>5, <1>6, <2>1, <3>1
  <2>3. at[k + 1] = a + 3 + l /\ \A j \in 1..3 : s[a + j] = Separator[j]
    BY <1>4, <2>1, <2>2
  <2> HIDE DEF a, l
  <2>4. s[a + 1] = "sp" /\ s[a + 2] = "bar"
    BY <1>2, <2>3
  <2>5. PICK i \in Int : i = a + 2
    BY <2>2
  <2>6. i \in 1..Len(s) /\ i - 1 = a + 1
    BY <1>1, <2>2, <2>3, <2>5
  <2>7. s[i] = "bar" /\ s[i - 1] = "sp"
    BY <2>4, <2>5, <2>6
  <2>8. i \in LoneBars(s)
    BY <2>6, <2>7 DEF LoneBars
  <2> QED BY <2>5, <2>8 DEF a
<1>9. LoneBars(s) \subseteq 1..Len(s)
  BY DEF LoneBars
<1> QED
  BY <1>7, <1>8, <1>9

(* A line has one bar more than cells, and at least two.                     *)
CellCount(n) == IF n = 0 THEN 1 ELSE n

LEMMA RowLineBars ==
  ASSUME NEW cells \in Seq(Seq(Characters)), \A k \in 1..Len(cells) : Bare(cells[k])
  PROVE  /\ RowLine(cells) \in Seq(Characters)
         /\ \A i \in 1..Len(RowLine(cells)) : RowLine(cells)[i] # "nl"
         /\ IsFiniteSet(LoneBars(RowLine(cells)))
         /\ Cardinality(LoneBars(RowLine(cells))) = CellCount(Len(cells)) + 1
<1> DEFINE n == Len(cells)
           w == CellCount(n)
           J == Join(cells, Separator)
           l == Len(J)
           L == RowLine(cells)
           front == <<"bar", "sp">>
           back  == <<"sp", "bar">>
<1>1. n \in Nat /\ w \in Nat /\ w >= 1 /\ (n >= 1 => w = n) /\ (n = 0 => w = 1)
  BY DEF CellCount
<1>2. /\ Separator \in Seq(Characters) /\ front \in Seq(Characters) /\ back \in Seq(Characters)
      /\ Len(Separator) = 3 /\ Len(front) = 2 /\ Len(back) = 2
      /\ front[1] = "bar" /\ front[2] = "sp" /\ back[1] = "sp" /\ back[2] = "bar"
  <2>1. "bar" \in Characters /\ "sp" \in Characters
    BY DEF Characters
  <2> QED BY <2>1 DEF Separator
<1>3. J \in Seq(Characters) /\ l \in Nat
  <2>1. J \in Seq(Characters)
    BY <1>2, JoinType
  <2> HIDE DEF J
  <2> QED BY <2>1
<1>4. PICK at : Joined(J, cells, Separator, at)
  BY <1>2, JoinLayout
<1>5. (\A i \in 1..Len(J) : J[i] # "nl") /\ LoneBars(J) = {at[k] + 2 : k \in 2..n}
  <2> HIDE DEF J
  <2> QED BY <1>3, <1>4, JoinedCells
<1>6. L = (front \o J) \o back
  BY DEF RowLine, Separator
<1>7. /\ L \in Seq(Characters) /\ Len(L) = l + 4
      /\ L[1] = "bar" /\ L[2] = "sp" /\ L[l + 3] = "sp" /\ L[l + 4] = "bar"
      /\ \A i \in 1..l : L[2 + i] = J[i]
  <2> DEFINE M == front \o J
  <2> HIDE DEF front, back, J, L, l
  <2>1. /\ Len(M) = 2 + l /\ M \in Seq(Characters)
        /\ \A j \in 1..Len(front) : M[j] = front[j]
        /\ \A j \in 1..l : M[Len(front) + j] = J[j]
    <3>1. Follows(M, front, J, Characters)
      BY <1>2, <1>3, ConcatPlaces
    <3> HIDE DEF M
    <3> QED BY <1>2, <3>1 DEF Follows, l
  <2> HIDE DEF M
  <2>2. /\ Len(L) = Len(M) + 2 /\ L \in Seq(Characters)
        /\ \A j \in 1..Len(M) : L[j] = M[j]
        /\ \A j \in 1..Len(back) : L[Len(M) + j] = back[j]
    <3>1. L = M \o back
      BY <1>6 DEF M
    <3>2. Follows(L, M, back, Characters)
      BY <1>2, <2>1, <3>1, ConcatPlaces
    <3> QED BY <1>2, <3>2 DEF Follows
  <2>3. 1 \in 1..Len(front) /\ 2 \in 1..Len(front) /\ 1 \in 1..Len(back) /\ 2 \in 1..Len(back)
    BY <1>2
  <2>4. M[1] = "bar" /\ M[2] = "sp" /\ 1 \in 1..Len(M) /\ 2 \in 1..Len(M)
    BY <1>2, <1>3, <2>1, <2>3
  <2>5. L[1] = "bar" /\ L[2] = "sp"
    BY <2>2, <2>4
  <2>6. L[Len(M) + 1] = "sp" /\ L[Len(M) + 2] = "bar"
    BY <1>2, <2>2, <2>3
  <2>7. Len(M) + 1 = l + 3 /\ Len(M) + 2 = l + 4
    BY <1>3, <2>1
  <2>8. ASSUME NEW i \in 1..l PROVE L[2 + i] = J[i]
    <3>1. 2 + i \in 1..Len(M)
      BY <1>3, <2>1
    <3>2. M[2 + i] = J[i]
      BY <1>2, <2>1, <2>8
    <3> QED BY <2>2, <3>1, <3>2
  <2>9. Len(L) = l + 4
    BY <1>3, <2>1, <2>2
  <2> QED BY <2>2, <2>5, <2>6, <2>7, <2>8, <2>9
<1> HIDE DEF n, w, J, l, L, front, back
<1>8. \A i \in 1..Len(L) : i = 1 \/ i = 2 \/ i = l + 3 \/ i = l + 4 \/ (i - 2 \in 1..l /\ 2 + (i - 2) = i)
  BY <1>3, <1>7
<1>9. ASSUME NEW i \in 1..Len(L) PROVE L[i] # "nl"
  <2>1. CASE i - 2 \in 1..l /\ 2 + (i - 2) = i
    BY <1>5, <1>7, <2>1 DEF l
  <2>2. CASE i = 1 \/ i = 2 \/ i = l + 3 \/ i = l + 4
    BY <1>7, <2>2
  <2> QED BY <1>8, <2>1, <2>2
<1> DEFINE h == [k \in 1..(w + 1) |-> IF k = 1 THEN 1 ELSE IF k = w + 1 THEN l + 4 ELSE at[k] + 4]
<1>10. /\ at \in [1..(n + 1) -> Nat] /\ at[n + 1] = l
       /\ \A k \in 1..n : at[k + 1] = at[k] + Gap(k, Separator) + Len(cells[k])
       /\ \A k \in 1..n : \A m \in 1..k : at[m + 1] <= at[k + 1]
  BY <1>4 DEF Joined, n, l
<1>11. \A k \in 1..n : at[k] \in Nat /\ Len(cells[k]) \in Nat
  <2>1. \A k \in 1..n : k \in 1..(n + 1)
    BY <1>1
  <2>2. \A k \in 1..n : at[k] \in Nat
    BY <1>10, <2>1
  <2>3. \A k \in 1..n : Len(cells[k]) \in Nat
    BY DEF n
  <2> QED BY <2>2, <2>3
<1>12. ASSUME NEW k \in 2..n
       PROVE  at[k] \in Nat /\ at[k] + 3 <= at[k + 1] /\ at[k + 1] \in Nat /\ at[k + 1] <= l
  <2>1. k \in 1..n /\ n \in 1..n /\ k # 1
    BY <1>1
  <2>2. Gap(k, Separator) = 3
    BY <1>2, <2>1 DEF Gap
  <2>3. at[k + 1] = at[k] + 3 + Len(cells[k])
    BY <1>10, <2>1, <2>2
  <2>4. at[k + 1] <= at[n + 1]
    BY <1>10, <2>1
  <2>5. at[n + 1] = l
    BY <1>10
  <2> DEFINE x == at[k]
             y == at[k + 1]
             z == Len(cells[k])
  <2>6. x \in Nat /\ z \in Nat /\ y = x + 3 + z /\ y <= l
    BY <1>11, <2>1, <2>3, <2>4, <2>5
  <2> HIDE DEF x, y, z
  <2>7. x \in Nat /\ x + 3 <= y /\ y \in Nat /\ y <= l
    BY <2>6
  <2> QED BY <2>7 DEF x, y
<1>13. ASSUME NEW a \in 1..(w + 1), NEW b \in 1..(w + 1), a < b
       PROVE  h[a] < h[b] /\ h[a] \in Int /\ h[b] \in Int
  <2>1. CASE b = w + 1
    <3>1. h[b] = l + 4 /\ h[a] = (IF a = 1 THEN 1 ELSE at[a] + 4)
      BY <1>1, <1>13, <2>1
    <3>2. a # 1 => a \in 2..n
      BY <1>1, <1>13, <2>1
    <3>3. a # 1 => at[a] \in Nat /\ at[a] + 3 <= at[a + 1] /\ at[a + 1] \in Nat /\ at[a + 1] <= l
      BY <1>12, <3>2
    <3> DEFINE x == at[a]
               y == at[a + 1]
    <3> HIDE DEF h, x, y
    <3>4. a # 1 => x \in Nat /\ x + 3 <= y /\ y \in Nat /\ y <= l
      BY <3>3, Zenon DEF x, y
    <3>5. h[b] = l + 4 /\ h[a] = (IF a = 1 THEN 1 ELSE x + 4) /\ l \in Nat
      BY <1>3, <3>1 DEF x
    <3> QED BY ONLY <3>4, <3>5
  <2>2. CASE b # w + 1
    <3>1. h[b] = at[b] + 4 /\ h[a] = (IF a = 1 THEN 1 ELSE at[a] + 4)
      BY <1>1, <1>13, <2>2
    <3>2. b \in 2..n /\ (a # 1 => a \in 2..n)
      BY <1>1, <1>13, <2>2
    <3>3. a # 1 => at[a + 1] <= at[b]
      <4>1. b - 1 \in 1..n /\ a \in 1..(b - 1) /\ (b - 1) + 1 = b
        BY <1>1, <1>13, <3>2
      <4>2. at[a + 1] <= at[(b - 1) + 1]
        BY <1>10, <4>1
      <4> QED BY <4>1, <4>2
    <3> HIDE DEF h
    <3>4. CASE a = 1
      BY <1>12, <3>1, <3>2, <3>4
    <3>5. CASE a # 1
      <4>1. at[a] \in Nat /\ at[a] + 3 <= at[a + 1] /\ at[a + 1] \in Nat /\ at[b] \in Nat
        BY <1>12, <3>2, <3>5
      <4> DEFINE x == at[a]
                 y == at[a + 1]
                 z == at[b]
      <4>2. x \in Nat /\ x + 3 <= y /\ y \in Nat /\ z \in Nat /\ y <= z
        BY <3>3, <3>5, <4>1, Zenon
      <4>3. h[b] = z + 4 /\ h[a] = x + 4
        BY <3>1, <3>5
      <4> HIDE DEF x, y, z
      <4> QED BY ONLY <4>2, <4>3
    <3> QED BY <3>4, <3>5
  <2> QED BY <2>1, <2>2
<1>14. Increasing(h, w + 1)
  <2>1. \A k \in 1..(w + 1) : h[k] \in Int
    <3> SUFFICES ASSUME NEW k \in 1..(w + 1) PROVE h[k] \in Int
      OBVIOUS
    <3>1. 1 \in 1..(w + 1) /\ w + 1 \in 1..(w + 1) /\ (k < w + 1 \/ 1 < k)
      BY <1>1
    <3> HIDE DEF h
    <3> QED BY <1>13, <3>1
  <2>2. h = [k \in 1..(w + 1) |-> h[k]]
    OBVIOUS
  <2> HIDE DEF h
  <2> QED BY <1>13, <2>1, <2>2 DEF Increasing
<1>15. LoneBars(L) = {h[k] : k \in 1..(w + 1)}
  <2> DEFINE T == {h[k] : k \in 1..(w + 1)}
  <2>1. h[1] = 1 /\ h[w + 1] = l + 4 /\ 1 \in 1..(w + 1) /\ w + 1 \in 1..(w + 1)
    BY <1>1
  <2>2. \A k \in 2..n : k \in 1..(w + 1) /\ h[k] = at[k] + 4
    BY <1>1
  <2>3. \A k \in 1..(w + 1) : k = 1 \/ k = w + 1 \/ k \in 2..n
    BY <1>1
  <2> HIDE DEF h
  <2>4. ASSUME NEW i \in LoneBars(L) PROVE i \in T
    <3>1. i \in 1..Len(L) /\ L[i] = "bar" /\ (i = 1 \/ L[i - 1] # "escape")
      BY DEF LoneBars
    <3>2. CASE i = 1 \/ i = l + 4
      BY <2>1, <3>2
    <3>3. CASE i = 2 \/ i = l + 3
      BY <1>7, <3>1, <3>3
    <3>4. CASE i - 2 \in 1..l /\ 2 + (i - 2) = i
      <4> DEFINE j == i - 2
      <4>1. j \in 1..l /\ 2 + j = i /\ i - 1 = 2 + (j - 1) /\ (j # 1 => j - 1 \in 1..l) /\ i # 1
        BY <1>3, <3>4
      <4> HIDE DEF j
      <4>2. J[j] = "bar"
        BY <1>7, <3>1, <4>1
      <4>3. j # 1 => J[j - 1] # "escape"
        BY <1>7, <3>1, <4>1
      <4>4. j \in LoneBars(J)
        BY <4>1, <4>2, <4>3 DEF LoneBars, l
      <4>5. PICK k \in 2..n : j = at[k] + 2
        BY <1>5, <4>4
      <4>6. i = at[k] + 4
        BY <1>12, <4>1, <4>5
      <4> QED BY <2>2, <4>6
    <3> QED BY <1>8, <3>1, <3>2, <3>3, <3>4
  <2>5. ASSUME NEW k \in 1..(w + 1) PROVE h[k] \in LoneBars(L)
    <3>1. CASE k = 1
      <4>1. 1 \in 1..Len(L)
        BY <1>3, <1>7
      <4> QED BY <1>7, <2>1, <3>1, <4>1 DEF LoneBars
    <3>2. CASE k = w + 1
      <4>1. PICK i \in Int : i = l + 4
        BY <1>3
      <4>2. i \in 1..Len(L) /\ i - 1 = l + 3
        BY <1>3, <1>7, <4>1
      <4>3. L[i] = "bar" /\ L[i - 1] = "sp"
        BY <1>7, <4>1, <4>2
      <4> QED BY <2>1, <3>2, <4>1, <4>2, <4>3 DEF LoneBars
    <3>3. CASE k \in 2..n
      <4>1. PICK j \in Int : j = at[k] + 2
        BY <1>12, <3>3
      <4>2. j \in LoneBars(J)
        BY <1>5, <3>3, <4>1
      <4>3. j \in 1..l /\ J[j] = "bar" /\ (j = 1 \/ J[j - 1] # "escape")
        BY <4>2 DEF LoneBars, l
      <4>4. at[k] \in Nat
        BY <1>12, <3>3
      <4>5. PICK i \in Int : i = 2 + j
        BY <4>1
      <4>6. i = at[k] + 4 /\ i \in 1..Len(L) /\ i - 1 = 2 + (j - 1) /\ j # 1 /\ j - 1 \in 1..l
        <5> DEFINE x == at[k]
                   m == Len(L)
        <5>1. m = l + 4 /\ j \in 1..l /\ j = x + 2 /\ x \in Nat /\ i = 2 + j
          BY <1>7, <4>1, <4>3, <4>4, <4>5
        <5> HIDE DEF x, m
        <5>2. i = x + 4 /\ i \in 1..m /\ i - 1 = 2 + (j - 1) /\ j # 1 /\ j - 1 \in 1..l
          BY <1>3, <5>1
        <5> QED BY <5>2 DEF x, m
      <4>7. L[i] = "bar" /\ L[i - 1] # "escape"
        BY <1>7, <4>3, <4>5, <4>6
      <4> QED BY <2>2, <3>3, <4>6, <4>7 DEF LoneBars
    <3> QED BY <2>3, <3>1, <3>2, <3>3
  <2> QED BY <2>4, <2>5
<1>16. IsFiniteSet(LoneBars(L)) /\ Cardinality(LoneBars(L)) = w + 1
  <2> HIDE DEF h
  <2>1. w + 1 \in Nat
    BY <1>1
  <2>2. ImageOf(LoneBars(L), h, w + 1)
    BY <1>15 DEF ImageOf
  <2> QED BY <1>14, <2>1, <2>2, IncreasingImage
<1> QED
  BY <1>7, <1>9, <1>16 DEF L, w, n

LEMMA Shifted ==
  ASSUME NEW o \in Int, NEW V, V \subseteq Int, IsFiniteSet(V)
  PROVE  Cardinality({o + j : j \in V}) = Cardinality(V)
<1> DEFINE W == {o + j : j \in V}
           g == [j \in V |-> o + j]
<1>1. g \in Surjection(V, W)
  BY DEF Surjection
<1>2. g \in Injection(V, W)
  <2>1. g \in [V -> W]
    OBVIOUS
  <2>2. ASSUME NEW x \in V, NEW y \in V, g[x] = g[y] PROVE x = y
    <3>1. x \in Int /\ y \in Int /\ o + x = o + y
      BY <2>2
    <3> QED BY <3>1
  <2>3. IsInjective(g)
    BY <2>1, <2>2 DEF IsInjective
  <2> QED BY <2>1, <2>3 DEF Injection
<1> HIDE DEF W, g
<1>3. Cardinality(W) = Cardinality(V)
  BY <1>1, <1>2, FS_Surjection
<1> QED
  BY <1>3 DEF W

(* Lines that are joined are found again between the line breaks.            *)
Breaks(s) == {0, Len(s) + 1} \cup {i \in DOMAIN s : s[i] = "nl"}
BarsIn(s, from, to) == Cardinality({i \in from..to : s[i] = "bar" /\ (i = from \/ s[i - 1] # "escape")})

LineFound(s, line, from, to) ==
  /\ from \in Int /\ to \in Int
  /\ BarsIn(s, from + 1, to - 1) = Cardinality(LoneBars(line))

LEMMA LinesAreFound ==
  ASSUME NEW lines \in Seq(Seq(Characters)), Len(lines) >= 1,
         \A k \in 1..Len(lines) : IsFiniteSet(LoneBars(lines[k])) /\ \A i \in 1..Len(lines[k]) : lines[k][i] # "nl"
  PROVE  LET s == Join(lines, <<"nl">>)
             ends == Ascending(Breaks(s))
         IN  /\ Len(ends) = Len(lines) + 1
             /\ \A n \in 1..Len(lines) : LineFound(s, lines[n], ends[n], ends[n + 1])
<1> DEFINE N == Len(lines)
           sep == <<"nl">>
           s == Join(lines, sep)
           S == Breaks(s)
           size == Len(s)
<1>1. N \in Nat /\ N >= 1 /\ \A k \in 1..N : lines[k] \in Seq(Characters) /\ Len(lines[k]) \in Nat
  OBVIOUS
<1>2. sep \in Seq(Characters) /\ Len(sep) = 1 /\ sep[1] = "nl"
  BY DEF Characters
<1>3. s \in Seq(Characters)
  <2> HIDE DEF sep
  <2> QED BY <1>2, JoinType
<1>4. PICK at : Joined(s, lines, sep, at)
  <2> HIDE DEF sep
  <2> QED BY <1>2, JoinLayout
<1> HIDE DEF sep, s
<1>5. size \in Nat /\ DOMAIN s = 1..size
  BY <1>3
<1> HIDE DEF size
<1>6. /\ at \in [1..(N + 1) -> Nat] /\ at[1] = 0 /\ at[N + 1] = size
      /\ \A k \in 1..N : \A m \in 1..k : at[m + 1] <= at[k + 1]
      /\ \A i \in 1..size : \E k \in 1..N : at[k] < i /\ i <= at[k + 1]
  BY <1>4 DEF Joined, size
<1>7. \A k \in 1..N :
        /\ at[k + 1] = at[k] + Gap(k, sep) + Len(lines[k])
        /\ \A j \in 1..Gap(k, sep) : s[at[k] + j] = sep[j]
        /\ \A j \in 1..Len(lines[k]) : s[at[k] + Gap(k, sep) + j] = lines[k][j]
  BY <1>4 DEF Joined
<1> HIDE DEF N
<1>8. \A k \in 1..N : Gap(k, sep) = IF k = 1 THEN 0 ELSE 1
  BY <1>2 DEF Gap
<1>9. \A k \in 1..(N + 1) : at[k] \in Nat
  BY <1>6
<1> DEFINE b == [k \in 1..(N + 1) |-> IF k = 1 THEN 0 ELSE at[k] + 1]
<1>10. (\A k \in 1..N : b[k] = at[k] + Gap(k, sep)) /\ (\A k \in 1..N : b[k + 1] = at[k + 1] + 1)
         /\ \A k \in 1..(N + 1) : b[k] \in Int
  <2>1. \A k \in 1..N : b[k] = at[k] + Gap(k, sep)
    <3> SUFFICES ASSUME NEW k \in 1..N PROVE b[k] = at[k] + Gap(k, sep)
      OBVIOUS
    <3>1. k \in 1..(N + 1) /\ at[k] \in Nat
      BY <1>1, <1>9
    <3>2. CASE k = 1
      BY <1>6, <1>8, <3>1, <3>2
    <3>3. CASE k # 1
      BY <1>8, <3>1, <3>3
    <3> QED BY <3>2, <3>3
  <2>2. \A k \in 1..N : k + 1 \in 1..(N + 1) /\ k + 1 # 1
    BY <1>1
  <2>3. \A k \in 1..(N + 1) : b[k] \in Int
    BY <1>9
  <2> QED BY <2>1, <2>2, <2>3
<1>11. ASSUME NEW k \in 1..N
       PROVE  /\ at[k] \in Nat /\ at[k + 1] \in Nat /\ Gap(k, sep) \in {0, 1}
              /\ at[k + 1] = at[k] + Gap(k, sep) + Len(lines[k]) /\ at[k + 1] <= size
  <2>1. k \in 1..(N + 1) /\ k + 1 \in 1..(N + 1) /\ N \in 1..N /\ k \in 1..N
    BY <1>1
  <2>2. at[k + 1] <= at[N + 1]
    BY <1>6, <1>1, <2>1
  <2> QED BY <1>6, <1>7, <1>8, <1>9, <2>1, <2>2
<1>12. Increasing(b, N + 1)
  <2>1. ASSUME NEW a \in 1..(N + 1), NEW c \in 1..(N + 1), a < c
        PROVE  b[a] < b[c]
    <3>1. a \in 1..N /\ c - 1 \in 1..N /\ (c - 1) + 1 = c /\ a \in 1..(c - 1)
      BY <1>1, <2>1
    <3>2. at[a + 1] <= at[(c - 1) + 1]
      BY <1>6, <3>1
    <3>3. b[(c - 1) + 1] = at[(c - 1) + 1] + 1
      BY <1>10, <3>1
    <3>4. b[a] = at[a] + Gap(a, sep) /\ b[c] = at[c] + 1 /\ at[a + 1] <= at[c]
      BY <1>10, <3>1, <3>2, <3>3
    <3>5. at[c] \in Nat
      BY <1>9
    <3>6. at[a] \in Nat /\ at[a + 1] \in Nat /\ Gap(a, sep) \in {0, 1} /\ at[a + 1] = at[a] + Gap(a, sep) + Len(lines[a])
            /\ Len(lines[a]) \in Nat
      BY <1>1, <1>11, <3>1
    <3> DEFINE x == at[a]
               y == at[a + 1]
               z == at[c]
               g == Gap(a, sep)
               l == Len(lines[a])
               p == b[a]
               q == b[c]
    <3>7. /\ x \in Nat /\ y \in Nat /\ z \in Nat /\ g \in {0, 1} /\ l \in Nat
          /\ y = x + g + l /\ y <= z /\ p = x + g /\ q = z + 1
      BY <3>4, <3>5, <3>6
    <3> HIDE DEF b, x, y, z, g, l, p, q
    <3>8. p < q
      BY <3>7
    <3> QED BY <3>8 DEF p, q
  <2>2. b \in [1..(N + 1) -> Int]
    BY <1>9
  <2> HIDE DEF b
  <2> QED BY <2>1, <2>2 DEF Increasing
<1>13. b[1] = 0 /\ b[N + 1] = size + 1 /\ 1 \in 1..(N + 1) /\ N + 1 \in 1..(N + 1)
  <2>1. 1 \in 1..(N + 1) /\ N + 1 \in 1..(N + 1) /\ N + 1 # 1
    BY <1>1
  <2> QED BY <1>6, <2>1
<1> HIDE DEF b
<1>14. ASSUME NEW i \in S PROVE i \in {b[k] : k \in 1..(N + 1)}
  <2>1. CASE i = 0
    BY <1>13, <2>1
  <2>2. CASE i = size + 1
    BY <1>13, <2>2
  <2>3. CASE i \in 1..size /\ s[i] = "nl"
    <3>1. PICK k \in 1..N : at[k] < i /\ i <= at[k + 1]
      BY <1>6, <2>3
    <3> DEFINE x == at[k]
               g == Gap(k, sep)
               l == Len(lines[k])
    <3>2. x \in Nat /\ g \in {0, 1} /\ l \in Nat /\ x < i /\ i <= x + g + l /\ i \in Int
      BY <1>1, <1>11, <2>3, <3>1
    <3>3. \A j \in 1..l : s[x + g + j] = lines[k][j]
      BY <1>7
    <3>4. \A j \in 1..l : lines[k][j] # "nl"
      BY DEF N
    <3>5. b[k] = x + g
      BY <1>10
    <3> HIDE DEF x, g, l
    <3>6. CASE i <= x + g
      <4>1. i = x + g
        BY <3>2, <3>6
      <4>2. k \in 1..(N + 1)
        BY <1>1
      <4> QED BY <3>5, <4>1, <4>2
    <3>7. CASE ~(i <= x + g)
      <4> DEFINE j == i - (x + g)
      <4>1. j \in 1..l /\ x + g + j = i
        BY <3>2, <3>7
      <4> HIDE DEF j
      <4>2. s[i] = lines[k][j]
        BY <3>3, <4>1
      <4> QED BY <2>3, <3>4, <4>1, <4>2
    <3> QED BY <3>6, <3>7
  <2> QED BY <1>5, <2>1, <2>2, <2>3 DEF Breaks, size
<1>15. ASSUME NEW k \in 1..(N + 1) PROVE b[k] \in S
  <2>1. CASE k = 1
    BY <1>13, <2>1 DEF Breaks
  <2>2. CASE k = N + 1
    BY <1>13, <2>2 DEF Breaks, size
  <2>3. CASE k # 1 /\ k # N + 1
    <3>1. k \in 1..N
      BY <1>1, <2>3
    <3>2. Gap(k, sep) = 1 /\ b[k] = at[k] + Gap(k, sep)
      BY <1>8, <1>10, <2>3, <3>1
    <3>3. 1 \in 1..Gap(k, sep)
      BY <3>2
    <3>4. s[at[k] + 1] = "nl"
      BY <1>2, <1>7, <3>1, <3>3
    <3> DEFINE x == at[k]
               y == at[k + 1]
               l == Len(lines[k])
    <3>5. x \in Nat /\ y = x + 1 + l /\ l \in Nat /\ y <= size
      BY <1>1, <1>11, <3>1, <3>2
    <3> HIDE DEF x, y, l
    <3>6. x + 1 \in 1..size
      BY <1>5, <3>5
    <3>7. b[k] \in DOMAIN s /\ s[b[k]] = "nl"
      BY <1>5, <3>2, <3>4, <3>6 DEF x
    <3> QED BY <3>7 DEF Breaks
  <2> QED BY <2>1, <2>2, <2>3
<1>16. S = {b[k] : k \in 1..(N + 1)}
  BY <1>14, <1>15
<1> HIDE DEF S
<1>17. /\ IsFiniteSet(S) /\ S \subseteq Int /\ Cardinality(S) = N + 1
       /\ \A n \in 1..(N + 1) : Ascending(S)[n] = b[n]
  <2> DEFINE m == N + 1
  <2>1. m \in Nat
    BY <1>1
  <2>2. Increasing(b, m)
    BY <1>12
  <2>3. ImageOf(S, b, m)
    BY <1>16 DEF ImageOf
  <2> HIDE DEF m
  <2>4. IsFiniteSet(S) /\ S \subseteq Int /\ Cardinality(S) = m /\ Counted(S, b, m)
    BY ONLY <2>1, <2>2, <2>3, IncreasingImage
  <2> QED BY <2>4 DEF m, Counted
<1>18. Len(Ascending(S)) = N + 1
  BY <1>17, AscendingFacts
<1>19. ASSUME NEW n \in 1..N
       PROVE  LineFound(s, lines[n], Ascending(S)[n], Ascending(S)[n + 1])
  <2> DEFINE o == b[n]
             r == lines[n]
             l == Len(r)
             g == Gap(n, sep)
             V == LoneBars(r)
             from == o + 1
             to == b[n + 1] - 1
             W == {i \in from..to : s[i] = "bar" /\ (i = from \/ s[i - 1] # "escape")}
  <2>1. n \in 1..(N + 1) /\ n + 1 \in 1..(N + 1)
    BY <1>1
  <2>2. Ascending(S)[n] = o /\ Ascending(S)[n + 1] = b[n + 1] /\ b[n + 1] \in Int /\ o \in Int
    BY <1>10, <1>17, <2>1
  <2>3. at[n] \in Nat /\ g \in {0, 1} /\ l \in Nat /\ o = at[n] + g /\ b[n + 1] = at[n] + g + l + 1
    BY <1>1, <1>10, <1>11
  <2>4. \A j \in 1..l : s[at[n] + g + j] = r[j]
    BY <1>7
  <2> HIDE DEF o, r, l, g
  <2>5. ASSUME NEW j \in 1..l PROVE s[o + j] = r[j]
    <3> DEFINE x == at[n]
    <3>1. x \in Nat /\ g \in Int /\ j \in Int /\ o = x + g
      BY <2>3
    <3>2. s[x + g + j] = r[j]
      BY <2>4
    <3> HIDE DEF x
    <3>3. x + g + j = o + j
      BY <3>1
    <3> QED BY <3>2, <3>3, Zenon
  <2>a. o \in Nat /\ l \in Nat /\ from = o + 1 /\ to = o + l
    <3> DEFINE x == at[n]
    <3>1. x \in Nat /\ g \in {0, 1} /\ l \in Nat /\ o = x + g /\ b[n + 1] = x + g + l + 1
      BY <2>3
    <3> HIDE DEF x
    <3> QED BY <3>1
  <2> HIDE DEF from, to
  <2>6. ASSUME NEW i \in W PROVE \E j \in V : i = o + j
    <3>1. i \in Int /\ o + 1 <= i /\ i <= o + l
      BY <2>a
    <3> DEFINE j == i - o
    <3>2. j \in 1..l /\ i = o + j /\ (j # 1 => j - 1 \in 1..l /\ i - 1 = o + (j - 1) /\ i # from)
      BY <2>a, <3>1
    <3> HIDE DEF j
    <3>3. r[j] = "bar"
      BY <2>5, <3>2
    <3>4. j # 1 => r[j - 1] # "escape"
      BY <2>5, <3>2
    <3>5. j \in V
      BY <3>2, <3>3, <3>4 DEF LoneBars, l
    <3> QED BY <3>2, <3>5
  <2>7. ASSUME NEW j \in V PROVE o + j \in W
    <3>1. j \in 1..l /\ r[j] = "bar" /\ (j = 1 \/ r[j - 1] # "escape")
      BY DEF LoneBars, l
    <3>2. PICK i \in Int : i = o + j
      BY <2>a, <3>1
    <3>3. i \in from..to /\ (j # 1 => j - 1 \in 1..l /\ i - 1 = o + (j - 1)) /\ (j = 1 => i = from)
      BY <2>a, <3>1, <3>2
    <3>4. s[i] = "bar"
      BY <2>5, <3>1, <3>2
    <3>5. i = from \/ s[i - 1] # "escape"
      BY <2>5, <3>1, <3>3
    <3> QED BY <3>2, <3>3, <3>4, <3>5
  <2>8. W = {o + j : j \in V}
    BY <2>6, <2>7
  <2>9. V \subseteq Int /\ IsFiniteSet(V)
    <3>1. V \subseteq Int
      BY DEF LoneBars
    <3>2. IsFiniteSet(V)
      BY DEF r, N
    <3> QED BY <3>1, <3>2
  <2> HIDE DEF V, W
  <2>10. Cardinality(W) = Cardinality(V)
    BY <2>2, <2>8, <2>9, Shifted
  <2> QED BY <2>2, <2>10 DEF LineFound, BarsIn, W, V, r, from, to, o
<1>20. Len(Ascending(Breaks(s))) = N + 1 /\ \A n \in 1..N : LineFound(s, lines[n], Ascending(Breaks(s))[n], Ascending(Breaks(s))[n + 1])
  BY <1>18, <1>19 DEF S
<1> QED
  BY <1>20 DEF N, s, sep

(* The Markdown of a table: the line of its first row, the rule below it,    *)
(* and the lines of the others.                                              *)
CellsOf(row)   == [j \in DOMAIN row |-> Cell(Decoded(row[j]))]
RuleCells(row) == [i \in 1..Max({1, Len(row)}) |-> <<"word">>]
LinesOf(r)     == <<RowLine(CellsOf(r[1])), RowLine(RuleCells(r[1]))>>
                    \o [i \in 1..(Len(r) - 1) |-> RowLine(CellsOf(r[i + 1]))]
Table(r)       == IF r = <<>> THEN <<>> ELSE Join(LinesOf(r), <<"nl">>)
RowOf(r, n)    == IF n = 1 THEN r[1] ELSE r[n - 1]

LEMMA MarkdownIsTable == Markdown = Table(rows)
BY DEF Markdown, Table, LinesOf, CellsOf, RuleCells, RuleLine

IsLine(line, row) ==
  /\ line \in Seq(Characters) /\ \A i \in 1..Len(line) : line[i] # "nl"
  /\ IsFiniteSet(LoneBars(line)) /\ Cardinality(LoneBars(line)) = CellCount(Len(row)) + 1

LEMMA RowIsLine ==
  ASSUME NEW row \in Seq(Seq(Characters))
  PROVE  IsLine(RowLine(CellsOf(row)), row)
<1> DEFINE n == Len(row)
           cells == CellsOf(row)
<1>1. n \in Nat /\ DOMAIN row = 1..n /\ \A j \in 1..n : row[j] \in Seq(Characters)
  OBVIOUS
<1>2. \A j \in 1..n : Cell(Decoded(row[j])) \in Seq(Characters) /\ Bare(Cell(Decoded(row[j])))
  BY <1>1, DecodedType, CellType, CellIsBare
<1>3. cells \in Seq(Seq(Characters)) /\ Len(cells) = n
  <2>1. cells = [j \in 1..n |-> Cell(Decoded(row[j]))]
    BY <1>1 DEF CellsOf
  <2> HIDE DEF n, cells
  <2> QED BY <1>1, <1>2, <2>1
<1>4. \A k \in 1..Len(cells) : Bare(cells[k])
  BY <1>1, <1>2, <1>3 DEF CellsOf
<1> HIDE DEF cells
<1> QED
  BY <1>3, <1>4, RowLineBars DEF IsLine, cells, n

LEMMA RuleIsLine ==
  ASSUME NEW row \in Seq(Seq(Characters))
  PROVE  IsLine(RowLine(RuleCells(row)), row)
<1> DEFINE n == Len(row)
           w == Max({1, n})
           cells == RuleCells(row)
<1>1. n \in Nat
  OBVIOUS
<1>2. w = CellCount(n) /\ w \in Nat /\ w >= 1
  <2>1. 1 \in Int /\ n \in Int
    BY <1>1
  <2> HIDE DEF n
  <2>2. Max({1, n}) = IF 1 >= n THEN 1 ELSE n
    BY <2>1, TwoExtremes
  <2> HIDE DEF w
  <2>3. w = IF 1 >= n THEN 1 ELSE n
    BY <2>2 DEF w
  <2> QED BY <1>1, <2>3 DEF CellCount
<1> HIDE DEF w
<1>3. cells = [i \in 1..w |-> <<"word">>]
  BY DEF RuleCells, w
<1> DEFINE c == <<"word">>
<1>4. c \in Seq(Characters) /\ Bare(c)
  BY DEF Bare, Characters
<1>5. cells \in Seq(Seq(Characters)) /\ Len(cells) = w /\ \A k \in 1..w : cells[k] = c
  <2> HIDE DEF c, cells
  <2>1. cells = [i \in 1..w |-> c]
    BY <1>3 DEF c
  <2> QED BY <1>2, <1>4, <2>1
<1> HIDE DEF c, cells
<1>6. CellCount(w) = w /\ \A k \in 1..Len(cells) : Bare(cells[k])
  BY <1>2, <1>4, <1>5 DEF CellCount
<1>7. IsLine(RowLine(cells), cells)
  BY <1>5, <1>6, RowLineBars DEF IsLine
<1> QED
  BY <1>2, <1>5, <1>6, <1>7 DEF IsLine, cells, n

LEMMA TableLinesAre ==
  ASSUME NEW r \in Seq(Seq(Seq(Characters))), r # <<>>
  PROVE  /\ LinesOf(r) \in Seq(Seq(Characters)) /\ Len(LinesOf(r)) = Len(r) + 1
         /\ \A n \in 1..(Len(r) + 1) : IsLine(LinesOf(r)[n], RowOf(r, n))
<1> DEFINE N == Len(r)
           line(i) == RowLine(CellsOf(r[i]))
           rule == RowLine(RuleCells(r[1]))
           top == <<line(1), rule>>
           others == [i \in 1..(N - 1) |-> line(i + 1)]
<1>1. N \in Nat /\ N >= 1 /\ \A i \in 1..N : r[i] \in Seq(Seq(Characters))
  OBVIOUS
<1>2. \A i \in 1..N : IsLine(line(i), r[i])
  BY <1>1, RowIsLine
<1>3. IsLine(rule, r[1])
  BY <1>1, RuleIsLine
<1> HIDE DEF N, line, rule
<1>4. \A i \in 1..(N - 1) : i + 1 \in 1..N
  BY <1>1
<1>5. \A i \in 1..N : line(i) \in Seq(Characters)
  BY <1>2 DEF IsLine
<1>6. rule \in Seq(Characters)
  BY <1>3 DEF IsLine
<1>7. top \in Seq(Seq(Characters)) /\ Len(top) = 2 /\ top[1] = line(1) /\ top[2] = rule
  BY <1>1, <1>5, <1>6
<1>8. others \in Seq(Seq(Characters)) /\ Len(others) = N - 1 /\ \A i \in 1..(N - 1) : others[i] = line(i + 1)
  BY <1>1, <1>4, <1>5
<1> HIDE DEF top, others
<1> DEFINE all == top \o others
<1>9. /\ all \in Seq(Seq(Characters)) /\ Len(all) = N + 1
      /\ \A n \in 1..(N + 1) : all[n] = IF n <= 2 THEN top[n] ELSE others[n - 2]
  <2>1. /\ all \in Seq(Seq(Characters)) /\ Len(all) = Len(top) + Len(others)
        /\ \A n \in 1..(Len(top) + Len(others)) : all[n] = IF n <= Len(top) THEN top[n] ELSE others[n - Len(top)]
    BY <1>7, <1>8, ConcatProperties
  <2> HIDE DEF all
  <2>2. Len(top) = 2 /\ Len(top) + Len(others) = N + 1
    BY <1>1, <1>7, <1>8
  <2> QED BY <2>1, <2>2
<1> HIDE DEF all
<1>10. ASSUME NEW n \in 1..(N + 1)
       PROVE  IsLine(all[n], RowOf(r, n))
  <2>1. CASE n = 1
    BY <1>1, <1>2, <1>7, <1>9, <2>1 DEF RowOf
  <2>2. CASE n = 2
    BY <1>1, <1>3, <1>7, <1>9, <2>2 DEF RowOf
  <2>3. CASE n \notin {1, 2}
    <3>1. PICK i \in 1..(N - 1) : i = n - 2
      BY <1>1, <2>3
    <3>2. ~(n <= 2) /\ i + 1 = n - 1 /\ n - 1 \in 1..N /\ n # 1
      BY <1>1, <2>3, <3>1
    <3>3. all[n] = line(n - 1)
      BY <1>8, <1>9, <3>1, <3>2
    <3> QED BY <1>2, <3>2, <3>3 DEF RowOf
  <2> QED BY <2>1, <2>2, <2>3
<1>11. all = LinesOf(r)
  BY DEF all, top, others, line, rule, N, LinesOf
<1> QED
  BY <1>9, <1>10, <1>11 DEF N

LEMMA TableRowsStay ==
  ASSUME rows \in Seq(Seq(Seq(Characters))), rows # <<>>, text = Table(rows)
  PROVE  RowsStayLines
<1> DEFINE lines == LinesOf(rows)
           N == Len(rows)
           ends == Ascending(Breaks(text))
           row(n) == IF n = 1 THEN rows[1] ELSE rows[n - 1]
<1>1. N \in Nat /\ N >= 1 /\ \A i \in 1..N : rows[i] \in Seq(Seq(Characters))
  OBVIOUS
<1>2. /\ lines \in Seq(Seq(Characters)) /\ Len(lines) = N + 1
      /\ \A n \in 1..(N + 1) : IsLine(lines[n], RowOf(rows, n))
  BY TableLinesAre
<1>3. text = Join(lines, <<"nl">>)
  BY DEF Table
<1> HIDE DEF lines
<1>4. Len(lines) >= 1 /\ \A k \in 1..Len(lines) : IsFiniteSet(LoneBars(lines[k])) /\ \A i \in 1..Len(lines[k]) : lines[k][i] # "nl"
  BY <1>1, <1>2 DEF IsLine
<1>5. /\ Len(ends) = Len(lines) + 1
      /\ \A n \in 1..Len(lines) : LineFound(text, lines[n], ends[n], ends[n + 1])
  BY <1>2, <1>3, <1>4, LinesAreFound
<1> HIDE DEF N, ends
<1>6. Len(ends) = N + 2
  BY <1>1, <1>2, <1>5
<1>7. ASSUME NEW n \in 1..(N + 1)
      PROVE  Bars(ends[n] + 1, ends[n + 1] - 1) = Max({1, Len(row(n))}) + 1
  <2>1. LineFound(text, lines[n], ends[n], ends[n + 1]) /\ IsLine(lines[n], RowOf(rows, n))
    BY <1>2, <1>5
  <2>2. row(n) \in Seq(Seq(Characters))
    <3>1. n = 1 => 1 \in 1..N
      BY <1>1
    <3>2. n # 1 => n - 1 \in 1..N
      BY <1>1
    <3> QED BY <1>1, <3>1, <3>2
  <2>3. RowOf(rows, n) = row(n)
    BY DEF RowOf
  <2> HIDE DEF row
  <2> DEFINE m == Len(row(n))
  <2>4. m \in Nat
    BY <2>2
  <2> HIDE DEF m
  <2>5. Max({1, m}) = CellCount(m)
    <3>1. 1 \in Int /\ m \in Int
      BY <2>4
    <3>2. Max({1, m}) = IF 1 >= m THEN 1 ELSE m
      BY <3>1, TwoExtremes
    <3> DEFINE w == Max({1, m})
    <3>3. w = IF 1 >= m THEN 1 ELSE m
      BY <3>2
    <3> HIDE DEF w
    <3>4. w = CellCount(m)
      BY <2>4, <3>3 DEF CellCount
    <3> QED BY <3>4 DEF w
  <2>6. BarsIn(text, ends[n] + 1, ends[n + 1] - 1) = CellCount(m) + 1
    BY <2>1, <2>3 DEF LineFound, IsLine, m
  <2>7. Bars(ends[n] + 1, ends[n + 1] - 1) = BarsIn(text, ends[n] + 1, ends[n + 1] - 1)
    BY DEF Bars, BarsIn
  <2> QED BY <2>5, <2>6, <2>7 DEF m
<1>8. Len(ends) = Len(rows) + 2 /\ \A n \in 1..(Len(rows) + 1) : Bars(ends[n] + 1, ends[n + 1] - 1) = Max({1, Len(row(n))}) + 1
  BY <1>6, <1>7 DEF N
<1> QED
  BY <1>8 DEF RowsStayLines, ends, Breaks

(* The invariant of a table: what is split is its Markdown, and a table that *)
(* has no rows has no text and is refused.                                   *)
TableInv ==
  media = "csv" =>
    /\ phase = "start" /\ rows = <<>> => text = <<>>
    /\ phase \in {"split", "done", "rejected"} => rows # <<>> /\ text = Table(rows)

LEMMA TableInvInit == Init => TableInv
<1> SUFFICES ASSUME Init, media = "csv" PROVE TableInv
  BY DEF TableInv
<1>1. phase = "start" /\ text = FlattenSeq(FlattenSeq(rows))
  BY DEF Init, TextInit, Plain
<1>2. FlattenSeq(<<>>) = <<>>
  BY DEF FlattenSeq
<1> QED
  BY <1>1, <1>2 DEF TableInv

LEMMA TableStep ==
  ASSUME PhaseInv, TableInv, [Next]_vars
  PROVE  TableInv'
<1>1. ASSUME media' = media, UNCHANGED <<rows, text>>, media \in Plain => phase' = "failed" \/ phase' = phase
      PROVE  TableInv'
  BY <1>1 DEF TableInv, Plain
<1>2. CASE UNCHANGED vars
  <2>1. media' = media /\ phase' = phase /\ UNCHANGED <<rows, text>>
    BY <1>2 DEF vars, contentVars, textVars
  <2> QED BY <1>1, <2>1
<1>3. CASE RefuseMediaType
  <2>1. media' = media /\ phase' = "failed" /\ UNCHANGED <<rows, text>>
    BY <1>3 DEF RefuseMediaType, Fail, textVars
  <2> QED BY <1>1, <2>1
<1>4. CASE TextNext
  <2>1. CASE ReadText
    <3> DEFINE result == IF media = "csv" THEN Markdown ELSE Decoded(text)
    <3>1. /\ phase = "start" /\ media' = media /\ rows' = rows
          /\ \/ Readable /\ text' = result /\ phase' = "split"
             \/ phase' = "failed"
      BY <2>1 DEF ReadText, Fail
    <3>2. Readable => text # <<>>
      <4>1. Len(<<>>) = 0
        OBVIOUS
      <4> QED BY <4>1 DEF Readable
    <3>3. media = "csv" => result = Table(rows)
      BY MarkdownIsTable
    <3> HIDE DEF result
    <3> QED BY <3>1, <3>2, <3>3 DEF TableInv
  <2>2. CASE SplitBlock
    <3>1. phase' = phase /\ media' = media /\ UNCHANGED <<rows, text>>
      BY <2>2 DEF SplitBlock, contentVars
    <3> QED BY <1>1, <3>1
  <2>3. CASE FinishText
    <3>1. phase = "split" /\ media' = media /\ phase' \in {"done", "rejected"}
      BY <2>3 DEF FinishText, Finish
    <3>2. rows' = rows /\ text' = text
      BY <2>3 DEF FinishText, textVars
    <3> QED BY <3>1, <3>2 DEF TableInv
  <2> QED BY <1>4, <2>1, <2>2, <2>3 DEF TextNext
<1>5. CASE OfficeNext /\ UNCHANGED textVars
  <2>1. phase \in {"start", "alias", "open", "convert", "unload", "unalias", "pages", "items"}
        /\ (phase = "start" => media \in Structured) /\ media' = media /\ UNCHANGED <<rows, text>>
    BY <1>5 DEF OfficeNext, Preflight, MakeDirectory, LinkAlias, OpenBackend, Convert, Unload, CloseAlias,
                MapPages, MapItem, FinishMapping, textVars
  <2>2. media \notin Plain
    BY <2>1, MediaApart DEF PhaseInv, Final
  <2> QED BY <1>1, <2>1, <2>2
<1>6. CASE PageNext /\ UNCHANGED textVars
  <2>1. phase \in {"start", "rasterize", "scale", "recognize"}
        /\ (phase = "start" => media = "pdf") /\ media' = media /\ UNCHANGED <<rows, text>>
    BY <1>6 DEF PageNext, ScanPage, RasterizePage, ScalePage, RecognizePage, textVars
  <2>2. media \notin Plain
    BY <2>1, MediaApart DEF PhaseInv, Final
  <2> QED BY <1>1, <2>1, <2>2
<1> QED
  BY <1>2, <1>3, <1>4, <1>5, <1>6 DEF Next

(* The text extractor's whole invariant: of the phase, of what is split and  *)
(* still to be split, and of the Markdown of a table (_csv_markdown).        *)
THEOREM TableInductive == Spec => [](PhaseInv /\ TextInv /\ TableInv)
<1>1. Init => PhaseInv /\ TextInv /\ TableInv
  BY PhaseInit, TextInvInit, TableInvInit
<1>2. PhaseInv /\ TextInv /\ TableInv /\ [Next]_vars => (PhaseInv /\ TextInv /\ TableInv)'
  BY PhaseStep, TextStep, TableStep
<1> QED
  BY <1>1, <1>2, PTL DEF Spec

(* A text keeps every character that is not white space, in exactly one      *)
(* block, in order, and is cut within a word only where a block is full      *)
(* (TextDocumentExtractor._blocks); and a row of a table, whatever its       *)
(* values hold, is one line with a bar more than cells (_csv_markdown): for  *)
(* every text, table and block size.                                         *)
THEOREM TextKept == Spec => []TextIsKept
<1>1. PhaseInv /\ TextInv /\ TableInv => TextIsKept
  <2> SUFFICES ASSUME PhaseInv, TextInv, TableInv PROVE TextIsKept
    OBVIOUS
  <2>1. BlocksKeepTheText
    BY SplitKeepsTheText
  <2>2. phase = "done" /\ media = "csv" => RowsStayLines
    <3> SUFFICES ASSUME phase = "done", media = "csv" PROVE RowsStayLines
      OBVIOUS
    <3>1. rows \in Seq(Seq(Seq(Characters)))
      BY DEF TextInv, Plain
    <3>2. rows # <<>> /\ text = Table(rows)
      BY DEF TableInv
    <3> QED BY <3>1, <3>2, TableRowsStay
  <2>3. RowsStayLines
    BY <2>2 DEF RowsStayLines
  <2> QED BY <2>1, <2>3 DEF TextIsKept
<1> QED
  BY <1>1, TableInductive, PTL

-----------------------------------------------------------------------------
(* The pixels of a page: a page that has too many is drawn with not much     *)
(* less than it may have, whatever its shape.                                *)
LEMMA CeilBounds ==
  ASSUME NEW a \in Int, NEW b \in Nat \ {0}
  PROVE  Ceil(a, b) \in Int /\ a <= b * Ceil(a, b) /\ b * Ceil(a, b) < a + b
<1> DEFINE q == Ceil(a, b)
           p == a + b - 1
<1>1. p \in Int
  OBVIOUS
<1>2. q = p \div b
  BY DEF Ceil
<1> HIDE DEF p, q
<1>3. q \in Int /\ b * q <= p /\ p < b * q + b
  BY <1>1, <1>2, Division
<1>4. b * q \in Int
  BY <1>3
<1> QED
  BY <1>3, <1>4 DEF p, q

LEMMA ProductGrows ==
  ASSUME NEW a \in Nat, NEW b \in Nat, NEW c \in Nat, NEW d \in Nat, a <= c, b <= d
  PROVE  a * b <= c * d
<1>1. (c - a) * b >= 0 /\ c * (d - b) >= 0
  OBVIOUS
<1>2. (c - a) * b = c * b - a * b /\ c * (d - b) = c * d - c * b
  OBVIOUS
<1>3. a * b \in Int /\ c * b \in Int /\ c * d \in Int
  OBVIOUS
<1> QED
  BY <1>1, <1>2, <1>3

(* The rounding up of two sides, of one unit each, takes less of an image    *)
(* the more pixels it has.                                                   *)
LEMMA UnitsAreFew ==
  ASSUME NEW u \in Nat \ {0}, NEW v \in Nat \ {0}, NEW n, n = (u + 1) * (v + 1)
  PROVE  /\ n >= 5  => 3 * (u * v) >= n
         /\ n >= 7  => 8 * (u * v) >= 3 * n
         /\ n >= 9  => 5 * (u * v) >= 2 * n
         /\ n >= 11 => 49005 * (u * v) >= 20000 * n
<1> DEFINE uv == u * v
<1>1. uv \in Nat /\ n = uv + u + v + 1
  OBVIOUS
<1>2. CASE u = 1
  BY <1>1, <1>2
<1>3. CASE v = 1
  BY <1>1, <1>3
<1>4. CASE u >= 2 /\ v >= 2
  <2>1. (u - 2) * (v - 2) >= 0 /\ (u - 2) * (v - 2) = uv - 2 * u - 2 * v + 4
    BY <1>4
  <2> HIDE DEF uv
  <2>2. uv + 4 >= 2 * u + 2 * v /\ u + v >= 4
    BY <1>1, <1>4, <2>1
  <2>3. 5 * uv >= 2 * n
    BY <1>1, <1>4, <2>2
  <2>4. 49005 * uv >= 20000 * n /\ 8 * uv >= 3 * n /\ 3 * uv >= n
    BY <1>1, <1>4, <2>2
  <2> QED BY <2>3, <2>4 DEF uv
<1> QED
  BY <1>2, <1>3, <1>4

(* The pixels along a side of the page, at a scale.                          *)
Along(side, s) == Max({1, Ceil(side * s, 1000)})

LEMMA AlongBounds ==
  ASSUME NEW side \in Nat \ {0}, NEW s \in Nat
  PROVE  /\ Along(side, s) \in Nat \ {0} /\ side * s <= 1000 * Along(side, s)
         /\ Along(side, s) # 1 => 1000 * (Along(side, s) - 1) < side * s
<1> DEFINE length == side * s
           c      == Ceil(length, 1000)
           w      == Along(side, s)
<1>1. length \in Nat
  OBVIOUS
<1>2. w = Max({1, c})
  BY DEF Along
<1> HIDE DEF length
<1>3. c \in Int /\ length <= 1000 * c /\ 1000 * c < length + 1000
  BY <1>1, CeilBounds
<1> HIDE DEF c, w
<1>4. w = IF 1 >= c THEN 1 ELSE c
  BY <1>2, <1>3, TwoExtremes
<1>5. w \in Nat \ {0} /\ length <= 1000 * w /\ (w # 1 => 1000 * (w - 1) < length)
  BY <1>1, <1>3, <1>4
<1> QED
  BY <1>5 DEF length, w

LEMMA AlongIsNat ==
  ASSUME NEW side \in Nat \ {0}, NEW s \in Nat
  PROVE  Along(side, s) \in Nat \ {0}
BY AlongBounds

(* One side, when both have more than a pixel.                               *)
LEMMA SideShrinks ==
  ASSUME NEW side \in Nat \ {0}, NEW s \in Nat, NEW t \in Nat, NEW q \in Nat,
         Along(side, s) # 1, s * q <= t * 100000
  PROVE  (Along(side, s) - 1) * q <= Along(side, t) * 100000
<1> DEFINE w == Along(side, s) - 1
           z == Along(side, t)
<1>1. w \in Nat /\ z \in Nat /\ 1000 * w <= side * s /\ side * t <= 1000 * z
  <2>1. Along(side, s) \in Nat \ {0} /\ 1000 * (Along(side, s) - 1) < side * s
    BY AlongBounds
  <2>2. side \in Nat \ {0} /\ t \in Nat
    OBVIOUS
  <2>3. Along(side, t) \in Nat \ {0} /\ side * t <= 1000 * Along(side, t)
    BY ONLY <2>2, AlongBounds
  <2> QED BY <2>1, <2>3
<1> HIDE DEF w, z
<1>2. (1000 * w) * q <= (side * s) * q
  <2> DEFINE x == 1000 * w
             y == side * s
  <2>1. x \in Nat /\ y \in Nat /\ x <= y
    BY <1>1
  <2> HIDE DEF x, y
  <2>2. x * q <= y * q
    BY <2>1, ProductGrows
  <2> QED BY <2>2 DEF x, y
<1>3. (side * s) * q = side * (s * q)
  OBVIOUS
<1>4. side * (s * q) <= side * (t * 100000)
  <2> DEFINE x == s * q
             y == t * 100000
  <2>1. x \in Nat /\ y \in Nat /\ x <= y
    OBVIOUS
  <2> HIDE DEF x, y
  <2>2. side * x <= side * y
    BY <2>1, ProductGrows
  <2> QED BY <2>2 DEF x, y
<1>5. side * (t * 100000) = (side * t) * 100000 /\ (side * t) * 100000 <= (1000 * z) * 100000
  BY <1>1
<1>6. (1000 * w) * q = 1000 * (w * q) /\ (1000 * z) * 100000 = 1000 * (z * 100000)
  BY <1>1
<1> DEFINE wq == w * q
           zt == z * 100000
<1>7. wq \in Int /\ zt \in Int
  BY <1>1
<1>8. 1000 * wq <= 1000 * zt
  <2>1. (side * s) * q \in Int /\ (1000 * w) * q \in Int /\ (side * t) * 100000 \in Int /\ (1000 * z) * 100000 \in Int
    BY <1>1
  <2> QED BY <1>2, <1>3, <1>4, <1>5, <1>6, <2>1
<1> HIDE DEF wq, zt
<1>9. wq <= zt
  BY <1>7, <1>8
<1> QED
  BY <1>9 DEF wq, zt, w, z

(* A side as long as the page when the other has one pixel.                  *)
LEMMA ThinShrinks ==
  ASSUME NEW side \in Nat \ {0}, NEW s \in Nat, NEW max \in Nat \ {0}, NEW t,
         max < Along(side, s), t = Ceil(Min({s, Ceil(1000 * max, side)}) * 99, 100)
  PROVE  t \in Nat /\ 99 * max <= 100 * Along(side, t)
<1> DEFINE c == Ceil(1000 * max, side)
           m == Min({s, c})
           h == Along(side, s)
           z == Along(side, t)
<1>1. h \in Nat \ {0} /\ max < h /\ (h # 1 => 1000 * (h - 1) < side * s)
  BY AlongBounds
<1> HIDE DEF h
<1>2. 1000 * max <= side * s
  <2>1. side * s \in Int
    OBVIOUS
  <2> QED BY <1>1, <2>1
<1>3. c \in Int /\ 1000 * max <= side * c
  <2> DEFINE top == 1000 * max
  <2>1. top \in Int
    OBVIOUS
  <2> HIDE DEF top
  <2>2. Ceil(top, side) \in Int /\ top <= side * Ceil(top, side)
    BY <2>1, CeilBounds
  <2> QED BY <2>2 DEF top
<1>4. ~(c < 0)
  <2> SUFFICES ASSUME c < 0 PROVE FALSE
    OBVIOUS
  <2> HIDE DEF c
  <2>1. side * (0 - c) >= 0 /\ side * (0 - c) = 0 - side * c /\ side * c \in Int
    BY <1>3
  <2> QED BY <1>3, <2>1
<1> HIDE DEF c
<1>5. m = IF s <= c THEN s ELSE c
  BY <1>3, TwoExtremes
<1> HIDE DEF m
<1>6. m \in Nat /\ 1000 * max <= side * m
  BY <1>2, <1>3, <1>4, <1>5
<1>7. t \in Int /\ m * 99 <= 100 * t
  <2> DEFINE x == m * 99
  <2>1. x \in Int
    BY <1>6
  <2>2. t = Ceil(x, 100)
    BY DEF m, c
  <2> HIDE DEF x
  <2> DEFINE y == 100
  <2>3. y \in Nat \ {0}
    OBVIOUS
  <2> HIDE DEF y
  <2>4. Ceil(x, y) \in Int /\ x <= y * Ceil(x, y)
    BY <2>1, <2>3, CeilBounds
  <2> QED BY <2>2, <2>4 DEF x, y
<1>8. t \in Nat
  BY <1>6, <1>7
<1>9. z \in Nat /\ side * t <= 1000 * z
  BY <1>8, AlongBounds
<1> HIDE DEF z
<1>10. side * (m * 99) <= side * (100 * t)
  <2> DEFINE x == m * 99
             y == 100 * t
  <2>1. x \in Nat /\ y \in Nat /\ x <= y
    BY <1>6, <1>7, <1>8
  <2> HIDE DEF x, y
  <2>2. side * x <= side * y
    BY <2>1, ProductGrows
  <2> QED BY <2>2 DEF x, y
<1> DEFINE sm == side * m
           st == side * t
<1>11. sm \in Int /\ st \in Int /\ side * (m * 99) = 99 * sm /\ side * (100 * t) = 100 * st
  BY <1>6, <1>8
<1>12. 1000 * max <= sm /\ 99 * sm <= 100 * st /\ st <= 1000 * z
  BY <1>6, <1>9, <1>10, <1>11
<1> HIDE DEF sm, st
<1>13. 99 * max <= 100 * z
  BY <1>9, <1>11, <1>12
<1> QED
  BY <1>8, <1>13 DEF z

(* Both sides, by the root of the limit: what rounding takes is outweighed.  *)
LEMMA RootKeepsPixels ==
  ASSUME NEW w \in Nat, NEW h \in Nat, NEW z \in Nat \ {0}, NEW y \in Nat \ {0}, NEW r \in Nat,
         NEW max \in Nat \ {0, 3},
         w >= 2, h >= 2, w * h > max, max * 1000000 <= (w * h) * (r * r),
         (w - 1) * (r * 99) <= z * 100000, (h - 1) * (r * 99) <= y * 100000
  PROVE  5 * (z * y) >= 2 * max
<1> DEFINE uv == (w - 1) * (h - 1)
           wh == w * h
           zy == z * y
           rr == r * r
<1>1. uv \in Nat /\ wh \in Nat /\ zy \in Nat \ {0} /\ rr \in Nat /\ wh > max
  OBVIOUS
<1>2. uv * (rr * 9801) <= zy * 10000000000
  <2> DEFINE a == (w - 1) * (r * 99)
             b == (h - 1) * (r * 99)
             c == z * 100000
             d == y * 100000
  <2>1. a \in Nat /\ b \in Nat /\ c \in Nat /\ d \in Nat /\ a <= c /\ b <= d
    OBVIOUS
  <2>2. a * b = uv * (rr * 9801)
    OBVIOUS
  <2>3. c * d = zy * 10000000000
    OBVIOUS
  <2> HIDE DEF a, b, c, d
  <2>4. a * b <= c * d
    BY <2>1, ProductGrows
  <2> QED BY <2>2, <2>3, <2>4
<1>3. /\ wh >= 5  => 3 * uv >= wh
      /\ wh >= 7  => 8 * uv >= 3 * wh
      /\ wh >= 9  => 5 * uv >= 2 * wh
      /\ wh >= 11 => 49005 * uv >= 20000 * wh
  <2> DEFINE u == w - 1
             v == h - 1
  <2>1. u \in Nat \ {0} /\ v \in Nat \ {0} /\ wh = (u + 1) * (v + 1)
    OBVIOUS
  <2> DEFINE st == u * v
  <2>2. st = uv
    OBVIOUS
  <2> HIDE DEF u, v, wh, uv
  <2>3. /\ wh >= 5  => 3 * st >= wh
        /\ wh >= 7  => 8 * st >= 3 * wh
        /\ wh >= 9  => 5 * st >= 2 * wh
        /\ wh >= 11 => 49005 * st >= 20000 * wh
    BY ONLY <2>1, UnitsAreFew
  <2> QED BY ONLY <2>2, <2>3
<1>4. max * 1000000 <= wh * rr
  OBVIOUS
<1> HIDE DEF uv, wh, zy, rr
<1> DEFINE p == wh * rr
           q == uv * rr
<1>5. p \in Nat /\ q \in Nat /\ uv * (rr * 9801) = 9801 * q
  BY <1>1
<1>6. ASSUME NEW k \in Nat, NEW m \in Nat, k * uv >= m * wh
      PROVE  k * q >= m * p
  <2> DEFINE a == k * uv
             b == m * wh
  <2>1. a \in Nat /\ b \in Nat /\ b <= a
    BY <1>1, <1>6
  <2>2. a * rr = k * q /\ b * rr = m * p
    BY <1>1
  <2> HIDE DEF a, b
  <2>3. b * rr <= a * rr
    BY <1>1, <2>1, ProductGrows
  <2> QED BY <2>2, <2>3
<1>7. /\ wh >= 5  => 3 * q >= 1 * p
      /\ wh >= 7  => 8 * q >= 3 * p
      /\ wh >= 9  => 5 * q >= 2 * p
      /\ wh >= 11 => 49005 * q >= 20000 * p
  <2>1. 3 * uv >= 1 * wh => 3 * q >= 1 * p
    BY <1>6
  <2>2. 8 * uv >= 3 * wh => 8 * q >= 3 * p
    BY <1>6
  <2>3. 5 * uv >= 2 * wh => 5 * q >= 2 * p
    BY <1>6
  <2>4. 49005 * uv >= 20000 * wh => 49005 * q >= 20000 * p
    BY <1>6
  <2> QED BY <1>1, <1>3, <2>1, <2>2, <2>3, <2>4
<1>8. max * 1000000 <= p /\ 9801 * q <= zy * 10000000000
  BY <1>2, <1>4, <1>5
<1> HIDE DEF p, q
<1>9. 5 * zy >= 2 * max
  <2>1. CASE max \in {1, 2}
    BY <1>1, <2>1
  <2>2. CASE max \in {4, 5}
    BY <1>1, <1>5, <1>7, <1>8, <2>2
  <2>3. CASE max \in {6, 7}
    BY <1>1, <1>5, <1>7, <1>8, <2>3
  <2>4. CASE max \in {8, 9}
    BY <1>1, <1>5, <1>7, <1>8, <2>4
  <2>5. CASE max >= 10
    BY <1>1, <1>5, <1>7, <1>8, <2>5
  <2> QED BY <2>1, <2>2, <2>3, <2>4, <2>5
<1> QED
  BY <1>9 DEF zy

(* What is not true of every limit: of three pixels (the program has         *)
(* 8,000,000), a square page of four gets one.                               *)
RoomForPixels == MaxPixels # 3

Enough(pg, s) == 5 * (Along(pg.width, s) * Along(pg.height, s)) >= 2 * MaxPixels

PixelsInv ==
  /\ phase = "scale" => scale \in Nat /\ (scale < Ceil(1000 * Dpi, 72) => Enough(page, scale))
  /\ RasterUsesItsPixels

LEMMA PixelsAlong ==
  ASSUME NEW side
  PROVE  Pixels(side) = Along(side, scale)
BY DEF Pixels, Along

(* A page with too many pixels, whatever its shape, has enough after one     *)
(* step of the loop.                                                         *)
LEMMA ShrunkIsEnough ==
  ASSUME RoomForPixels, page.width \in Nat \ {0}, page.height \in Nat \ {0}, scale \in Nat,
         ~ (Pixels(page.width) * Pixels(page.height) <= MaxPixels)
  PROVE  /\ Shrunk(Pixels(page.width), Pixels(page.height)) \in Nat
         /\ Enough(page, Shrunk(Pixels(page.width), Pixels(page.height)))
<1> DEFINE a == page.width
           b == page.height
           s == scale
           w == Pixels(page.width)
           h == Pixels(page.height)
           t == Shrunk(w, h)
           max == MaxPixels
<1>1. a \in Nat \ {0} /\ b \in Nat \ {0} /\ s \in Nat /\ max \in Nat \ {0} /\ max # 3
  BY PageAssumption DEF RoomForPixels
<1>2. w = Along(a, s) /\ h = Along(b, s)
  BY PixelsAlong
<1>3. t = IF w = 1 THEN Ceil(Min({s, Ceil(1000 * max, b)}) * 99, 100)
          ELSE IF h = 1 THEN Ceil(Min({s, Ceil(1000 * max, a)}) * 99, 100)
          ELSE Ceil(s * Root(w * h) * 99, 100000)
  BY SMT DEF Shrunk
<1>4. ~ (w * h <= max)
  OBVIOUS
<1> HIDE DEF a, b, s, w, h, t, max
<1>5. w \in Nat \ {0} /\ h \in Nat \ {0}
  BY <1>1, <1>2, AlongBounds
<1>6. SUFFICES t \in Nat /\ 5 * (Along(a, t) * Along(b, t)) >= 2 * max
  BY DEF Enough, a, b, t, w, h, max
<1>7. CASE w = 1
  <2>1. max < Along(b, s)
    BY <1>1, <1>2, <1>4, <1>5, <1>7
  <2>2. t = Ceil(Min({s, Ceil(1000 * max, b)}) * 99, 100)
    BY ONLY <1>3, <1>7
  <2>3. t \in Nat /\ 99 * max <= 100 * Along(b, t)
    BY ONLY <1>1, <2>1, <2>2, ThinShrinks
  <2> DEFINE x == Along(a, t)
             y == Along(b, t)
  <2>4. x \in Nat \ {0} /\ y \in Nat \ {0}
    BY ONLY <1>1, <2>3, AlongIsNat, Zenon
  <2>5. 99 * max <= 100 * y
    BY <2>3
  <2> HIDE DEF x, y
  <2>6. y <= x * y /\ x * y \in Nat
    BY <2>4
  <2>7. 5 * (x * y) >= 2 * max
    BY <1>1, <2>4, <2>5, <2>6
  <2> QED BY <2>3, <2>7 DEF x, y
<1>8. CASE w # 1 /\ h = 1
  <2>1. max < Along(a, s)
    BY <1>1, <1>2, <1>4, <1>5, <1>8
  <2>2. t = Ceil(Min({s, Ceil(1000 * max, a)}) * 99, 100)
    BY ONLY <1>3, <1>8
  <2>3. t \in Nat /\ 99 * max <= 100 * Along(a, t)
    BY ONLY <1>1, <2>1, <2>2, ThinShrinks
  <2> DEFINE x == Along(a, t)
             y == Along(b, t)
  <2>4. x \in Nat \ {0} /\ y \in Nat \ {0}
    BY ONLY <1>1, <2>3, AlongIsNat, Zenon
  <2>5. 99 * max <= 100 * x
    BY <2>3
  <2> HIDE DEF x, y
  <2>6. x <= x * y /\ x * y \in Nat
    BY <2>4
  <2>7. 5 * (x * y) >= 2 * max
    BY <1>1, <2>4, <2>5, <2>6
  <2> QED BY <2>3, <2>7 DEF x, y
<1>9. CASE w # 1 /\ h # 1
  <2> DEFINE pixels == w * h
             r      == Root(pixels)
             q      == r * 99
             p      == s * q
             c      == 100000
             x      == Along(a, t)
             y      == Along(b, t)
  <2>1. pixels \in Int /\ max <= pixels /\ pixels > max
    BY <1>1, <1>4, <1>5
  <2> HIDE DEF pixels
  <2>2. r \in 1..1000 /\ max * 1000000 <= pixels * (r * r)
    BY ONLY <2>1, RootRounds DEF max
  <2>3. t = Ceil(s * r * 99, c)
    BY ONLY <1>3, <1>9 DEF pixels, c
  <2> HIDE DEF r
  <2>4. p = s * r * 99 /\ q \in Nat /\ r \in Nat /\ p \in Nat /\ c \in Nat \ {0}
    BY <1>1, <2>2
  <2> HIDE DEF p, q, c
  <2>5. t \in Int /\ p <= c * t
    BY ONLY <2>3, <2>4, CeilBounds
  <2>6. s * q <= t * 100000
    BY <2>4, <2>5 DEF p, c
  <2>7. t \in Nat
    BY <2>4, <2>5
  <2>8. (w - 1) * q <= x * 100000
    BY ONLY <1>1, <1>2, <1>9, <2>4, <2>6, <2>7, SideShrinks
  <2>9. (h - 1) * q <= y * 100000
    BY ONLY <1>1, <1>2, <1>9, <2>4, <2>6, <2>7, SideShrinks
  <2>10. x \in Nat \ {0} /\ y \in Nat \ {0}
    <3>1. Along(a, t) \in Nat \ {0} /\ Along(b, t) \in Nat \ {0}
      BY ONLY <1>1, <2>7, AlongIsNat, Zenon
    <3> QED BY <3>1
  <2> HIDE DEF x, y
  <2>11. w \in Nat /\ h \in Nat /\ w >= 2 /\ h >= 2
    BY <1>5, <1>9
  <2>12. w * h > max /\ max * 1000000 <= (w * h) * (r * r)
    BY <2>1, <2>2 DEF pixels
  <2>13. (w - 1) * (r * 99) <= x * 100000 /\ (h - 1) * (r * 99) <= y * 100000
    BY <2>8, <2>9 DEF q
  <2>14. 5 * (x * y) >= 2 * max
    BY ONLY <1>1, <2>4, <2>10, <2>11, <2>12, <2>13, RootKeepsPixels
  <2> QED BY <2>14, <2>7 DEF x, y
<1> QED
  BY <1>7, <1>8, <1>9

LEMMA CeilIsNat ==
  ASSUME NEW n \in Nat, NEW d \in Nat \ {0}
  PROVE  Ceil(n, d) \in Nat
<1> DEFINE c == Ceil(n, d)
<1>1. c \in Int /\ n <= d * c
  BY CeilBounds
<1>2. SUFFICES ASSUME c < 0 PROVE FALSE
  BY <1>1
<1> HIDE DEF c
<1>3. d * (0 - c) >= d /\ d * (0 - c) = 0 - d * c /\ d * c \in Int
  BY <1>1, <1>2
<1> QED BY <1>1, <1>3

LEMMA PixelsStep ==
  ASSUME RoomForPixels, PhaseInv, PageInv, PixelsInv, [Next]_vars
  PROVE  PixelsInv'
<1>1. SUFFICES ASSUME Next, phase' \in {"scale", "recognize"} PROVE PixelsInv'
  <2>1. UNCHANGED vars => PixelsInv'
    BY DEF vars, contentVars, pageVars, PixelsInv, RasterUsesItsPixels, Enough, TakenAsIs, Dominant, Sheet
  <2>2. ~ (phase' \in {"scale", "recognize"}) => PixelsInv'
    BY DEF PixelsInv, RasterUsesItsPixels
  <2> QED BY <2>1, <2>2
<1>2. RasterizePage \/ ScalePage
  <2>1. CASE RefuseMediaType
    BY <1>1, <2>1 DEF RefuseMediaType, Fail
  <2>2. CASE TextNext
    <3>1. ReadText => phase' \in {"split", "failed"}
      BY DEF ReadText, Fail
    <3>2. SplitBlock => phase' = "split"
      BY DEF SplitBlock, contentVars
    <3>3. FinishText => phase' \in {"done", "rejected"}
      BY DEF FinishText, Finish
    <3> QED BY <1>1, <2>2, <3>1, <3>2, <3>3 DEF TextNext
  <2>3. CASE OfficeNext
    BY <1>1, <2>3 DEF OfficeNext, Preflight, MakeDirectory, LinkAlias, OpenBackend, Convert, Unload, CloseAlias,
                      MapPages, MapItem, FinishMapping, Finish, Fail
  <2>4. CASE PageNext
    BY <1>1, <2>4 DEF PageNext, ScanPage, RecognizePage, Finish
  <2> QED BY <1>1, <2>1, <2>2, <2>3, <2>4 DEF Next
<1>3. media = "pdf" /\ page \in PdfPages /\ page' = page
  BY <1>2, MediaApart DEF RasterizePage, ScalePage, PhaseInv, PageInv, MediaTypes, Final
<1>4. page.width \in Nat \ {0} /\ page.height \in Nat \ {0} /\ MaxPixels \in Nat \ {0} /\ Dpi \in Nat \ {0}
  BY <1>3, PageAssumption
<1>5. CASE RasterizePage
  <2>1. CASE TakenAsIs
    <3>1. phase' = "recognize" /\ TakenAsIs'
      BY <1>3, <1>5, <2>1 DEF RasterizePage, TakenAsIs, Dominant, Sheet
    <3> QED BY <3>1 DEF PixelsInv, RasterUsesItsPixels
  <2>2. CASE ~TakenAsIs
    <3> DEFINE first == Ceil(1000 * Dpi, 72)
    <3>1. phase' = "scale" /\ scale' = first
      BY <1>5, <2>2 DEF RasterizePage
    <3>2. first \in Nat
      BY <1>4, CeilIsNat
    <3> HIDE DEF first
    <3>3. ~ (first < first)
      BY <3>2
    <3> QED BY <3>1, <3>2, <3>3 DEF PixelsInv, RasterUsesItsPixels, first
  <2> QED BY <2>1, <2>2
<1>6. CASE ScalePage
  <2> DEFINE w == Pixels(page.width)
             h == Pixels(page.height)
  <2>1. scale \in Nat /\ (scale < Ceil(1000 * Dpi, 72) => Enough(page, scale))
    BY <1>6 DEF ScalePage, PixelsInv
  <2>2. CASE w * h <= MaxPixels
    <3>1. raster' = [width |-> w, height |-> h, box |-> Sheet] /\ phase' = "recognize" /\ scale' = scale
      BY <1>6, <2>2 DEF ScalePage
    <3>2. raster'.width = w /\ raster'.height = h
      BY <3>1
    <3>3. w = Along(page.width, scale) /\ h = Along(page.height, scale)
      BY PixelsAlong
    <3>4. w \in Nat \ {0} /\ h \in Nat \ {0}
      BY <1>4, <2>1, PixelsArePositive
    <3> HIDE DEF w, h
    <3>5. scale < Ceil(1000 * Dpi, 72) => 5 * w * h >= 2 * MaxPixels
      <4>1. 5 * w * h = 5 * (w * h)
        BY <3>4
      <4> QED BY <2>1, <3>3, <4>1, Zenon DEF Enough
    <3> QED BY <3>1, <3>2, <3>5 DEF PixelsInv, RasterUsesItsPixels
  <2>3. CASE ~ (w * h <= MaxPixels)
    <3>1. scale' = Shrunk(w, h) /\ phase' = "scale"
      BY <1>6, <2>3 DEF ScalePage
    <3>2. Shrunk(w, h) \in Nat /\ Enough(page, Shrunk(w, h))
      BY <1>4, <2>1, <2>3, ShrunkIsEnough
    <3> HIDE DEF w, h
    <3>3. Enough(page', scale')
      BY <1>3, <3>1, <3>2, Zenon
    <3> QED BY <1>3, <3>1, <3>2, <3>3 DEF PixelsInv, RasterUsesItsPixels
  <2> QED BY <2>2, <2>3
<1> QED
  BY <1>2, <1>5, <1>6

(* Shrinking stops in time (RasterizationPolicy.bounded_scale): an image for *)
(* OCR has the resolution asked for, or two fifths of the pixels it might    *)
(* have, for every page, resolution and limit but one of three pixels.       *)
THEOREM PixelsUsed ==
  ASSUME RoomForPixels
  PROVE  Spec => []RasterUsesItsPixels
<1>1. Init => PixelsInv
  BY DEF Init, PixelsInv, RasterUsesItsPixels
<1>2. PhaseInv /\ PageInv /\ PixelsInv /\ [Next]_vars => PixelsInv'
  BY PixelsStep
<1>3. PixelsInv => RasterUsesItsPixels
  BY DEF PixelsInv
<1> QED
  BY <1>1, <1>2, <1>3, AnswersInductive, PTL DEF Spec

-----------------------------------------------------------------------------
(* What a page must not be, or the model's scale, in thousandths, is too     *)
(* coarse for it: it fits at a tenth of a pixel for a point. A page of       *)
(* 14,400 points square has two million pixels then; the limit is eight.     *)
ModestPages == \A pg \in PdfPages : Along(pg.width, 100) * Along(pg.height, 100) <= MaxPixels

LEMMA AlongGrows ==
  ASSUME NEW side \in Nat \ {0}, NEW s \in Nat, NEW t \in Nat, s <= t
  PROVE  Along(side, s) <= Along(side, t)
<1>1. Along(side, t) \in Nat \ {0} /\ side * t <= 1000 * Along(side, t)
  BY AlongBounds
<1>2. Along(side, s) \in Nat \ {0} /\ (Along(side, s) # 1 => 1000 * (Along(side, s) - 1) < side * s)
  BY AlongBounds
<1> DEFINE x == Along(side, s)
           y == Along(side, t)
<1>3. /\ x \in Nat \ {0} /\ y \in Nat \ {0} /\ side * t <= 1000 * y
      /\ x # 1 => 1000 * (x - 1) < side * s
  BY <1>1, <1>2
<1> HIDE DEF x, y
<1>4. side * s <= side * t /\ side * s \in Nat /\ side * t \in Nat
  BY ProductGrows
<1>5. x <= y
  BY <1>3, <1>4
<1> QED BY <1>5 DEF x, y

(* A hundredth less, rounded up, is less.                                    *)
LEMMA HundredthLess ==
  ASSUME NEW s \in Nat, s > 100, NEW p \in Nat, NEW k \in Nat \ {0}, 100 * p <= (99 * s) * k
  PROVE  Ceil(p, k) \in 0..(s - 1)
<1> DEFINE c == Ceil(p, k)
<1>1. c \in Nat /\ k * c < p + k
  BY CeilIsNat, CeilBounds
<1> HIDE DEF c
<1>2. SUFFICES ASSUME c >= s PROVE FALSE
  BY <1>1 DEF c
<1>3. k * s <= k * c /\ k * s \in Nat /\ k * c \in Nat
  BY <1>1, <1>2, ProductGrows
<1>4. (99 * s) * k = 99 * (k * s)
  OBVIOUS
<1>5. k * 101 <= k * s
  BY ProductGrows
<1> QED BY <1>1, <1>3, <1>4, <1>5

LEMMA ThinIsLess ==
  ASSUME NEW side \in Nat \ {0}, NEW s \in Nat, s > 100, NEW max \in Nat \ {0}, NEW t,
         t = Ceil(Min({s, Ceil(1000 * max, side)}) * 99, 100)
  PROVE  t \in 0..(s - 1)
<1> DEFINE n == 1000 * max
           c == Ceil(n, side)
           m == Min({s, c})
           p == m * 99
<1>1. n \in Nat
  OBVIOUS
<1> HIDE DEF n
<1>2. c \in Nat
  BY <1>1, CeilIsNat
<1> HIDE DEF c
<1>3. m \in {s, c} /\ m <= s
  <2>1. s \in Int /\ c \in Int
    BY <1>2
  <2>2. m = IF s <= c THEN s ELSE c
    BY <2>1, TwoExtremes
  <2> HIDE DEF m
  <2> QED BY <1>2, <2>2
<1> HIDE DEF m
<1>4. p \in Nat /\ 100 * p <= (99 * s) * 100
  BY <1>2, <1>3
<1>5. t = Ceil(p, 100)
  BY DEF p, m, c, n
<1> HIDE DEF p
<1> QED BY ONLY <1>4, <1>5, HundredthLess, s \in Nat, s > 100

(* A page with too many pixels is drawn at a smaller scale next.             *)
LEMMA ShrunkIsLess ==
  ASSUME ModestPages, page \in PdfPages, scale \in Nat,
         ~ (Pixels(page.width) * Pixels(page.height) <= MaxPixels)
  PROVE  Shrunk(Pixels(page.width), Pixels(page.height)) \in 0..(scale - 1)
<1> DEFINE a == page.width
           b == page.height
           s == scale
           w == Pixels(page.width)
           h == Pixels(page.height)
           t == Shrunk(w, h)
           max == MaxPixels
<1>1. a \in Nat \ {0} /\ b \in Nat \ {0} /\ s \in Nat /\ max \in Nat \ {0}
  BY PageAssumption
<1>2. w = Along(a, s) /\ h = Along(b, s)
  BY PixelsAlong
<1>3. t = IF w = 1 THEN Ceil(Min({s, Ceil(1000 * max, b)}) * 99, 100)
          ELSE IF h = 1 THEN Ceil(Min({s, Ceil(1000 * max, a)}) * 99, 100)
          ELSE Ceil(s * Root(w * h) * 99, 100000)
  BY SMT DEF Shrunk
<1>4. ~ (w * h <= max) /\ Along(a, 100) * Along(b, 100) <= max
  BY DEF ModestPages
<1> HIDE DEF a, b, s, w, h, t, max
<1>5. w \in Nat \ {0} /\ h \in Nat \ {0}
  BY <1>1, <1>2, AlongBounds
<1>6. s > 100
  <2> SUFFICES ASSUME s <= 100 PROVE FALSE
    BY <1>1
  <2> DEFINE x == Along(a, 100)
             y == Along(b, 100)
  <2>1. w <= x /\ h <= y
    BY <1>1, <1>2, AlongGrows
  <2>2. x \in Nat /\ y \in Nat
    BY <1>1, AlongIsNat
  <2> HIDE DEF x, y
  <2>3. w * h <= x * y
    BY <1>5, <2>1, <2>2, ProductGrows
  <2>4. x * y <= max /\ x * y \in Nat /\ w * h \in Nat
    BY <1>4, <1>5, <2>2 DEF x, y
  <2> QED BY <1>1, <1>4, <2>3, <2>4
<1>7. SUFFICES t \in 0..(s - 1)
  BY DEF t, w, h, s
<1>8. CASE w = 1
  BY ONLY <1>1, <1>3, <1>6, <1>8, ThinIsLess
<1>9. CASE w # 1 /\ h = 1
  BY ONLY <1>1, <1>3, <1>6, <1>9, ThinIsLess
<1>10. CASE w # 1 /\ h # 1
  <2> DEFINE pixels == w * h
             r      == Root(pixels)
             p      == s * r * 99
  <2>1. pixels \in Int /\ max <= pixels
    BY <1>1, <1>4, <1>5
  <2>2. t = Ceil(p, 100000)
    BY ONLY <1>3, <1>10
  <2> HIDE DEF pixels
  <2>3. r \in 1..1000
    BY ONLY <2>1, RootIsInt DEF max
  <2> HIDE DEF r
  <2>4. s * r <= s * 1000 /\ s * r \in Nat
    <3>1. r \in Nat /\ r <= 1000 /\ s <= s
      BY <1>1, <2>3
    <3>2. s * r <= s * 1000
      BY ONLY <1>1, <3>1, ProductGrows, 1000 \in Nat
    <3> QED BY <1>1, <3>1, <3>2
  <2>5. p \in Nat /\ 100 * p <= (99 * s) * 100000
    BY <1>1, <2>4
  <2> HIDE DEF p
  <2> QED BY ONLY <1>1, <1>6, <2>2, <2>5, HundredthLess
<1> QED
  BY <1>8, <1>9, <1>10

(* What is left of a paragraph starts behind its first character.            *)
LEMMA RestIsLess ==
  ASSUME SplitInv, todo # <<>>
  PROVE  LET r == Head(todo)
         IN  \/ r.to - r.from < BlockCharacters
             \/ \E p \in (r.from + 1)..r.to : Strip(text, r.from + Cut(r), r.to) = <<[from |-> p, to |-> r.to]>>
<1> DEFINE r == Head(todo)
<1>1. Len(text) \in Nat /\ r = todo[1] /\ 1 \in DOMAIN todo /\ todo[1] \in Ranges(text)
  BY DEF SplitInv
<1>2. r \in Ranges(text) /\ Whole(text, r)
  BY <1>1 DEF SplitInv
<1>3. r.from \in Int /\ r.to \in Int
  BY <1>1, <1>2 DEF Ranges
<1> HIDE DEF r
<1>4. SUFFICES ASSUME ~(r.to - r.from < BlockCharacters)
               PROVE  \E p \in (r.from + 1)..r.to : Strip(text, r.from + Cut(r), r.to) = <<[from |-> p, to |-> r.to]>>
  BY DEF r
<1>5. PICK m, p \in r.from..r.to :
         Strip(text, r.from + Cut(r), r.to) = <<[from |-> p, to |-> r.to]>> /\ m < p
  BY <1>1, <1>2, <1>4, SplitFacts
<1>6. p \in (r.from + 1)..r.to
  BY <1>3, <1>5
<1> QED BY <1>5, <1>6

(* The scale is a number, in thousandths.                                    *)
ScaleInv == phase = "scale" => scale \in Nat

LEMMA ScaleSteps ==
  ASSUME PhaseInv, Next, phase' = "scale"
  PROVE  RasterizePage \/ (ScalePage /\ phase = "scale" /\ media = "pdf")
<1>1. CASE RefuseMediaType
  BY <1>1 DEF RefuseMediaType, Fail
<1>2. CASE TextNext
  <2>1. ReadText => phase' \in {"split", "failed"}
    BY DEF ReadText, Fail
  <2>2. SplitBlock => phase' = "split"
    BY DEF SplitBlock, contentVars
  <2>3. FinishText => phase' \in {"done", "rejected"}
    BY DEF FinishText, Finish
  <2> QED BY <1>2, <2>1, <2>2, <2>3 DEF TextNext
<1>3. CASE OfficeNext
  BY <1>3 DEF OfficeNext, Preflight, MakeDirectory, LinkAlias, OpenBackend, Convert, Unload, CloseAlias,
              MapPages, MapItem, FinishMapping, Finish, Fail
<1>4. CASE PageNext
  <2>1. ScalePage => phase = "scale"
    BY DEF ScalePage
  <2>2. phase = "scale" => media = "pdf"
    BY DEF PhaseInv, MediaTypes, Final
  <2> QED BY <1>4, <2>1, <2>2 DEF PageNext, ScanPage, RecognizePage, Finish
<1> QED
  BY <1>1, <1>2, <1>3, <1>4 DEF Next

LEMMA ScaleStays ==
  ASSUME ModestPages, PhaseInv, PageInv, ScaleInv, [Next]_vars
  PROVE  ScaleInv'
<1>1. SUFFICES ASSUME phase' = "scale", Next PROVE scale' \in Nat
  BY DEF ScaleInv, vars, contentVars, pageVars
<1>2. CASE RasterizePage
  <2>1. scale' = Ceil(1000 * Dpi, 72)
    BY <1>1, <1>2 DEF RasterizePage
  <2>2. 1000 * Dpi \in Nat
    BY PageAssumption
  <2> QED BY <2>1, <2>2, CeilIsNat
<1>3. CASE ScalePage /\ media = "pdf" /\ phase = "scale"
  <2>1. page \in PdfPages /\ scale \in Nat
    BY <1>3 DEF PageInv, ScaleInv
  <2>2. /\ ~ (Pixels(page.width) * Pixels(page.height) <= MaxPixels)
        /\ scale' = Shrunk(Pixels(page.width), Pixels(page.height))
    BY <1>1, <1>3 DEF ScalePage
  <2>3. scale' \in 0..(scale - 1)
    BY <2>1, <2>2, ShrunkIsLess
  <2> QED BY <2>1, <2>3
<1> QED
  BY <1>1, <1>2, <1>3, ScaleSteps

(* Both loops come to an end (TextDocumentExtractor._blocks,                 *)
(* RasterizationPolicy.bounded_scale): for every text and size of blocks,    *)
(* and for every page that is not too large for the model's scale, each      *)
(* round leaves less of a number that cannot fall below nought.              *)
THEOREM RoundsShorten ==
  ASSUME ModestPages
  PROVE  Spec => []LoopsAdvance
<1>1. Init => ScaleInv
  BY DEF Init, ScaleInv
<1>2. PhaseInv /\ PageInv /\ ScaleInv /\ [Next]_vars => ScaleInv'
  BY ScaleStays
<1>3. PhaseInv /\ TextInv /\ PageInv /\ ScaleInv => LoopsAdvance
  <2> SUFFICES ASSUME PhaseInv, TextInv, PageInv, ScaleInv PROVE LoopsAdvance
    OBVIOUS
  <2>1. phase = "split" => SplitInv
    BY DEF PhaseInv, TextInv, MediaTypes, Final
  <2>2. phase = "scale" => page \in PdfPages /\ scale \in Nat
    BY DEF PhaseInv, PageInv, ScaleInv, MediaTypes, Final
  <2>3. phase = "split" /\ todo # <<>> =>
          LET r == Head(todo)
          IN  \/ r.to - r.from < BlockCharacters
              \/ \E p \in (r.from + 1)..r.to : Strip(text, r.from + Cut(r), r.to) = <<[from |-> p, to |-> r.to]>>
    BY <2>1, RestIsLess
  <2>4. phase = "scale" =>
          \/ Pixels(page.width) * Pixels(page.height) <= MaxPixels
          \/ Shrunk(Pixels(page.width), Pixels(page.height)) \in 0..(scale - 1)
    BY <2>2, ShrunkIsLess
  <2> QED BY <2>3, <2>4 DEF LoopsAdvance
<1> QED
  BY <1>1, <1>2, <1>3, AnswersInductive, PTL DEF Spec
=============================================================================
