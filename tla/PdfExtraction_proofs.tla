------------------------ MODULE PdfExtraction_proofs ------------------------
(***************************************************************************)
(* Proofs about PdfExtraction: for every number of pages and every window, *)
(* how many images are in memory, that nothing runs on, and that PageOcr   *)
(* is implemented.                                                         *)
(*                                                                         *)
(* ImagesBounded counts jobs, while process() counts the futures in its    *)
(* window. Covered ties the two: every page that waits for or is under     *)
(* recognition is in the window, through shutdown and cancellation too.    *)
(*                                                                         *)
(* For the refinement, the ranges of the scanners are laid end to end      *)
(* (RangesMeet), so the sorted drafts are all pages (DraftsAreAll); from   *)
(* there on the pages without a container are those of the queue, which    *)
(* is the window and what follows it (QueueInv).                           *)
(***************************************************************************)
EXTENDS PdfExtraction, FiniteSetTheorems, SequenceTheorems, TLAPS

InWindow == {pending[i] : i \in 1..Len(pending)}

(* The window is a sequence of at most Concurrency pages, and has room when  *)
(* the next page is rasterised.                                              *)
WindowInv ==
  /\ \E S : pending \in Seq(S)
  /\ Len(pending) <= Concurrency
  /\ phase = "submit" => Len(pending) < Concurrency
  /\ phase = "scan" => pending = <<>>

(* Every unfinished job is in the window. *)
Covered == ImagesHeld \subseteq InWindow

(* After shutdown nothing is queued, after the join nothing runs.            *)
JobInv ==
  /\ DOMAIN job = PageNumbers
  /\ phase = "join" => \A p \in PageNumbers : job[p] # "queued"
  /\ phase = "ended" => ImagesHeld = {}

PhaseInv == phase \in Phases

Inv == PhaseInv /\ WindowInv /\ Covered /\ JobInv

-----------------------------------------------------------------------------
LEMMA ConcurrencyPositive == Concurrency \in Nat /\ Concurrency >= 1
BY ExtractionAssumption DEF Concurrency, Larger, Smaller

(* A sequence has no more elements than places. *)
LEMMA HeldWithinWindow ==
  ASSUME NEW S, pending \in Seq(S), Covered
  PROVE  IsFiniteSet(ImagesHeld) /\ Cardinality(ImagesHeld) <= Len(pending)
<1>1. Len(pending) \in Nat /\ pending \in Surjection(1..Len(pending), InWindow)
  BY DEF InWindow, Surjection
<1>2. IsFiniteSet(1..Len(pending)) /\ Cardinality(1..Len(pending)) = Len(pending)
  <2>1. 1 \in Int /\ Len(pending) \in Int
    BY <1>1
  <2>2. /\ IsFiniteSet(1..Len(pending))
        /\ Cardinality(1..Len(pending)) = IF 1 > Len(pending) THEN 0 ELSE Len(pending) - 1 + 1
    BY <2>1, FS_Interval, Zenon
  <2> QED
    BY <1>1, <2>2
<1>3. IsFiniteSet(InWindow) /\ Cardinality(InWindow) <= Len(pending)
  BY <1>1, <1>2, FS_Surjection
<1>4. /\ IsFiniteSet(ImagesHeld)
      /\ Cardinality(ImagesHeld) <= Cardinality(InWindow)
  BY <1>3, FS_Subset DEF Covered
<1> QED
  BY <1>1, <1>3, <1>4, FS_CardinalityType

-----------------------------------------------------------------------------
(* One lemma for each group of steps. *)

(* Scanning holds no image; its end leaves an empty window. *)
LEMMA ScanStep ==
  ASSUME Inv, ScanEnds \/ ScanAlone \/ PoolStep
  PROVE  Inv'
<1>1. /\ phase = "scan" /\ pending = <<>>
      /\ phase' \in {"scan", "submit", "join", "ended"}
      /\ UNCHANGED <<job, pending>>
  BY DEF Inv, WindowInv, ScanEnds, ScanAlone, PoolStep, ScanRange, ScanFails, Route
<1>2. ImagesHeld = {} /\ ImagesHeld' = ImagesHeld
  BY <1>1 DEF Inv, Covered, InWindow, ImagesHeld
<1>3. WindowInv'
  BY <1>1, ConcurrencyPositive DEF Inv, WindowInv
<1> QED
  BY <1>1, <1>2, <1>3 DEF Inv, PhaseInv, Phases, Covered, JobInv, ImagesHeld

(* A submitted page enters the window with its job. *)
LEMMA SubmitStep ==
  ASSUME Inv, Submit
  PROVE  Inv'
<1>1. PICK S : pending \in Seq(S)
  BY DEF Inv, WindowInv
<1> DEFINE p == Head(rest)
<1>2. /\ phase = "submit" /\ phase' \in {"resolve", "submit"}
      /\ pending' = Append(pending, p)
      /\ phase' = "submit" => ~(Len(pending) + 1 >= Concurrency)
      /\ job' = [job EXCEPT ![p] = "queued"]
  BY DEF Submit
<1> HIDE DEF p
<1>3. /\ pending \in Seq(S \cup {p}) /\ pending' \in Seq(S \cup {p})
      /\ Len(pending) \in Nat /\ Len(pending') = Len(pending) + 1
      /\ pending'[Len(pending) + 1] = p
      /\ \A i \in 1..Len(pending) : pending'[i] = pending[i]
  BY <1>1, <1>2
<1>4. WindowInv'
  BY <1>2, <1>3, ConcurrencyPositive DEF Inv, WindowInv
<1>5. InWindow \cup {p} \subseteq InWindow'
  BY <1>3 DEF InWindow
<1>6. ImagesHeld' \subseteq ImagesHeld \cup {p}
  BY <1>2 DEF Inv, JobInv, ImagesHeld
<1>7. JobInv'
  BY <1>2 DEF Inv, JobInv
<1> QED
  BY <1>2, <1>4, <1>5, <1>6, <1>7 DEF Inv, PhaseInv, Phases, Covered

(* A resolved page leaves the window after its job was done. *)
LEMMA ResolveStep ==
  ASSUME Inv, Resolve
  PROVE  Inv'
<1>1. PICK S : pending \in Seq(S)
  BY DEF Inv, WindowInv
<1>2. /\ pending # <<>> /\ pending' = Tail(pending)
      /\ job[Head(pending)] = "done" /\ job' = job
      /\ phase \in {"resolve", "drain"} /\ phase' \in {"submit", "drain"}
  BY DEF Resolve
<1>3. /\ pending' \in Seq(S) /\ Len(pending) \in Nat \ {0} /\ Len(pending') = Len(pending) - 1
      /\ \A i \in 1..Len(pending') : pending'[i] = pending[i + 1]
      /\ Head(pending) = pending[1]
  BY <1>1, <1>2
<1>4. WindowInv'
  BY <1>2, <1>3, ConcurrencyPositive DEF Inv, WindowInv
<1>5. InWindow \subseteq InWindow' \cup {Head(pending)}
  <2> SUFFICES ASSUME NEW i \in 1..Len(pending), i # 1
               PROVE  pending[i] \in InWindow'
    BY <1>3 DEF InWindow
  <2>1. i - 1 \in 1..Len(pending') /\ pending'[i - 1] = pending[i]
    BY <1>3
  <2> QED
    BY <2>1 DEF InWindow
<1>6. ImagesHeld' = ImagesHeld /\ Head(pending) \notin ImagesHeld
  BY <1>2 DEF ImagesHeld
<1>7. JobInv'
  BY <1>2, <1>6 DEF Inv, JobInv
<1> QED
  BY <1>2, <1>4, <1>5, <1>6, <1>7 DEF Inv, PhaseInv, Phases, Covered

(* Leaving the window cancels what has not begun, and waits for the rest. *)
LEMMA EndStep ==
  ASSUME Inv, Drain \/ RasterizeFails \/ ResolveRaises \/ Drained \/ Finish
  PROVE  Inv'
<1>1. UNCHANGED pending /\ phase \in {"submit", "resolve", "drain", "join"}
  BY DEF Drain, RasterizeFails, ResolveRaises, Drained, Finish
<1>2. WindowInv' /\ InWindow' = InWindow
  <2>1. phase' \notin {"submit", "scan"}
    BY DEF Drain, RasterizeFails, ResolveRaises, Drained, Finish, Shutdown
  <2> QED
    BY <1>1, <2>1 DEF Inv, WindowInv, InWindow
<1>3. CASE Drain
  BY <1>2, <1>3 DEF Inv, Drain, PhaseInv, Phases, Covered, JobInv, ImagesHeld
<1>4. CASE RasterizeFails \/ ResolveRaises \/ Drained
  <2>1. phase' = "join" /\ job' = Cancelled
    BY <1>4 DEF RasterizeFails, ResolveRaises, Drained, Shutdown
  <2>2. ImagesHeld' \subseteq ImagesHeld /\ JobInv'
    BY <2>1 DEF Cancelled, ImagesHeld, JobInv
  <2> QED
    BY <1>2, <2>1, <2>2 DEF Inv, PhaseInv, Phases, Covered
<1>5. CASE Finish
  <2>1. phase = "join" /\ phase' = "ended" /\ job' = job /\ Running = {}
    BY <1>5 DEF Finish
  <2>2. ImagesHeld = {} /\ ImagesHeld' = {}
    BY <2>1 DEF Inv, JobInv, ImagesHeld, Running
  <2> QED
    BY <1>2, <2>1, <2>2 DEF Inv, PhaseInv, Phases, Covered, JobInv
<1> QED
  BY <1>3, <1>4, <1>5

(* The executor starts and ends only jobs that are in the window. *)
LEMMA ExecutorStep ==
  ASSUME Inv, JobStep
  PROVE  Inv'
<1>1. PICK p \in PageNumbers : StartJob(p) \/ EndJob(p)
  BY DEF JobStep
<1>2. /\ UNCHANGED <<phase, pending>>
      /\ job[p] \in {"queued", "running"}
      /\ \E s \in {"running", "done", "failed"} : job' = [job EXCEPT ![p] = s]
  BY <1>1 DEF StartJob, EndJob
<1>3. ImagesHeld' \subseteq ImagesHeld /\ JobInv'
  BY <1>2 DEF Inv, JobInv, ImagesHeld
<1> QED
  BY <1>2, <1>3 DEF Inv, PhaseInv, WindowInv, Covered, InWindow

-----------------------------------------------------------------------------
(* Every reachable state satisfies the inductive invariant. *)
THEOREM Inductive == Spec => []Inv
<1>1. Init => Inv
  <2> SUFFICES ASSUME Init PROVE Inv
    OBVIOUS
  <2>1. pending \in Seq({}) /\ Len(pending) = 0 /\ ImagesHeld = {}
    BY DEF Init, ImagesHeld
  <2> QED
    BY <2>1, ConcurrencyPositive DEF Init, Inv, PhaseInv, Phases, WindowInv, Covered, JobInv
<1>2. Inv /\ [Next]_vars => Inv'
  <2>1. Inv /\ UNCHANGED vars => Inv'
    BY DEF Inv, PhaseInv, WindowInv, Covered, InWindow, JobInv, ImagesHeld, vars
  <2> QED
    BY <2>1, ScanStep, SubmitStep, ResolveStep, EndStep, ExecutorStep DEF Next, ThreadStep
<1> QED
  BY <1>1, <1>2, PTL DEF Spec

(* For every document and every window, PdfOcrProcessor.process never has    *)
(* more than max_concurrency rasterised pages in memory.                     *)
THEOREM MemoryBounded == Spec => []ImagesBounded
<1>1. Inv => ImagesBounded
  <2> SUFFICES ASSUME Inv PROVE ImagesBounded
    OBVIOUS
  <2>1. PICK S : pending \in Seq(S)
    BY DEF Inv, WindowInv
  <2>2. /\ Cardinality(ImagesHeld) \in Nat /\ Len(pending) \in Nat
        /\ Cardinality(ImagesHeld) <= Len(pending)
    BY <2>1, HeldWithinWindow, FS_CardinalityType DEF Inv
  <2> QED
    BY <2>2, ConcurrencyPositive DEF Inv, WindowInv, ImagesBounded
<1> QED
  BY <1>1, Inductive, PTL

(* When process() has returned or raised, no tesseract of it is running and  *)
(* none is still to start.                                                   *)
THEOREM NothingLeftRunning == Spec => []NothingRunsAfter
<1>1. Inv => NothingRunsAfter
  BY DEF Inv, JobInv, NothingRunsAfter
<1> QED
  BY <1>1, Inductive, PTL
-----------------------------------------------------------------------------
(* Facts about numbers, and numbers in order.                                *)
LEMMA LeastIndex ==
  ASSUME NEW n \in Nat, NEW F, F \subseteq 1..n, F # {}
  PROVE  \E k \in F : \A j \in F : k <= j
<1>1. F \subseteq Nat
  OBVIOUS
<1>2. IsWellFoundedOn(OpToRel(<, Nat), Nat)
  BY NatLessThanWellFounded
<1>3. PICK k \in F : \A j \in F : ~(<<j, k>> \in OpToRel(<, Nat))
  BY <1>1, <1>2, WFMin
<1>4. \A j \in F : ~(j < k)
  BY <1>1, <1>3 DEF OpToRel
<1>5. \A j \in F : k <= j
  <2> SUFFICES ASSUME NEW j \in F PROVE k <= j
    OBVIOUS
  <2>1. j \in Nat /\ k \in Nat /\ ~(j < k)
    BY <1>1, <1>3, <1>4
  <2> QED BY <2>1
<1> QED
  BY <1>3, <1>5

(* Numbers in ascending order, by how many are not greater.                  *)
Rank(S, x) == Cardinality({y \in S : y <= x})

LEMMA RankFacts ==
  ASSUME NEW S, IsFiniteSet(S), S \subseteq Int
  PROVE  /\ Cardinality(S) \in Nat
         /\ \A x \in S : Rank(S, x) \in 1..Cardinality(S)
         /\ \A x, y \in S : x < y => Rank(S, x) < Rank(S, y)
         /\ \A n \in 1..Cardinality(S) : \E x \in S : Rank(S, x) = n
<1> DEFINE Upto(x) == {y \in S : y <= x}
           m == Cardinality(S)
           f == [x \in S |-> Rank(S, x)]
<1>1. m \in Nat
  BY FS_CardinalityType
<1>2. ASSUME NEW x \in S
      PROVE  IsFiniteSet(Upto(x)) /\ Rank(S, x) = Cardinality(Upto(x)) /\ x \in Upto(x)
  <2>1. Upto(x) \in SUBSET S /\ x \in Upto(x)
    OBVIOUS
  <2>2. IsFiniteSet(Upto(x))
    BY <2>1, FS_Subset
  <2> QED BY <2>1, <2>2 DEF Rank
<1>3. ASSUME NEW x \in S
      PROVE  Rank(S, x) \in 1..m
  <2>1. Cardinality(Upto(x)) <= m
    <3>1. Upto(x) \in SUBSET S
      OBVIOUS
    <3> HIDE DEF Upto
    <3> QED BY <3>1, FS_Subset
  <2>2. Cardinality(Upto(x)) \in Nat /\ Cardinality(Upto(x)) # 0
    <3>1. IsFiniteSet(Upto(x)) /\ Upto(x) # {}
      BY <1>2
    <3> HIDE DEF Upto
    <3> QED BY <3>1, FS_CardinalityType, FS_EmptySet
  <2> HIDE DEF Upto, m
  <2> QED BY <1>1, <1>2, <2>1, <2>2
<1>4. ASSUME NEW x \in S, NEW y \in S, x < y
      PROVE  Rank(S, x) < Rank(S, y)
  <2>1. Upto(x) \in SUBSET Upto(y) /\ y \in Upto(y) /\ y \notin Upto(x)
    <3>1. x \in Int /\ y \in Int /\ S \subseteq Int
      OBVIOUS
    <3>2. \A z \in S : z <= x => z <= y
      BY <1>4, <3>1
    <3>3. y <= y /\ ~(y <= x)
      BY <1>4, <3>1
    <3> QED BY <3>2, <3>3
  <2>2. IsFiniteSet(Upto(y)) /\ Rank(S, x) = Cardinality(Upto(x)) /\ Rank(S, y) = Cardinality(Upto(y))
    BY <1>2
  <2>3. Cardinality(Upto(x)) <= Cardinality(Upto(y)) /\ Cardinality(Upto(x)) # Cardinality(Upto(y))
    <3> HIDE DEF Upto
    <3> QED BY <2>1, <2>2, FS_Subset
  <2>4. Rank(S, x) \in Int /\ Rank(S, y) \in Int
    BY <1>1, <1>3
  <2> QED BY <2>2, <2>3, <2>4
<1>5. f \in Injection(S, 1..m)
  <2>1. f \in [S -> 1..m]
    BY <1>3
  <2>2. ASSUME NEW x \in S, NEW y \in S, f[x] = f[y]
        PROVE  x = y
    <3>1. Rank(S, x) = Rank(S, y) /\ Rank(S, x) \in Int
      BY <1>1, <1>3, <2>2
    <3>2. x < y \/ y < x \/ x = y
      OBVIOUS
    <3> QED BY <1>4, <3>1, <3>2
  <2>3. IsInjective(f)
    BY <2>1, <2>2 DEF IsInjective
  <2> QED BY <2>1, <2>3 DEF Injection
<1>6. f \in Surjection(S, 1..m)
  <2>1. IsFiniteSet(1..m) /\ Cardinality(1..m) = m
    <3> HIDE DEF m
    <3> QED BY <1>1, FS_Interval
  <2> HIDE DEF f
  <2> QED BY <1>5, <2>1, FS_Injection DEF m
<1>7. \A n \in 1..m : \E x \in S : f[x] = n
  <2> HIDE DEF f
  <2> QED BY <1>6 DEF Surjection
<1> QED
  BY <1>1, <1>3, <1>4, <1>7

LEMMA AscendingFacts ==
  ASSUME NEW S, IsFiniteSet(S), S \subseteq Int
  PROVE  /\ Cardinality(S) \in Nat
         /\ DOMAIN Ascending(S) = 1..Cardinality(S) /\ Len(Ascending(S)) = Cardinality(S)
         /\ \A n \in 1..Cardinality(S) : Ascending(S)[n] \in S /\ Rank(S, Ascending(S)[n]) = n
         /\ \A x \in S : Rank(S, x) \in 1..Cardinality(S) /\ Ascending(S)[Rank(S, x)] = x
         /\ \A i, j \in 1..Cardinality(S) : i < j => Ascending(S)[i] < Ascending(S)[j]
<1> DEFINE m == Cardinality(S)
           A == Ascending(S)
<1>1. /\ m \in Nat
      /\ \A x \in S : Rank(S, x) \in 1..m
      /\ \A x, y \in S : x < y => Rank(S, x) < Rank(S, y)
      /\ \A n \in 1..m : \E x \in S : Rank(S, x) = n
  BY RankFacts
<1>2. A = [n \in 1..m |-> CHOOSE x \in S : Rank(S, x) = n]
  BY DEF Ascending, Rank
<1>3. \A n \in 1..m : A[n] \in S /\ Rank(S, A[n]) = n
  <2> HIDE DEF A, m
  <2> QED BY <1>1, <1>2
<1>4. DOMAIN A = 1..m /\ Len(A) = m
  <2> HIDE DEF A, m
  <2> QED BY <1>1, <1>2
<1>5. \A x, y \in S : x < y \/ x = y \/ y < x
  OBVIOUS
<1>6. \A x, y \in S : Rank(S, x) = Rank(S, y) => x = y
  <2> SUFFICES ASSUME NEW x \in S, NEW y \in S, Rank(S, x) = Rank(S, y) PROVE x = y
    OBVIOUS
  <2>1. Rank(S, x) \in Int /\ Rank(S, y) \in Int
    BY <1>1
  <2> QED BY <1>1, <1>5, <2>1
<1>7. \A x \in S : A[Rank(S, x)] = x
  <2> HIDE DEF A, m
  <2> QED BY <1>1, <1>3, <1>6
<1>8. ASSUME NEW i \in 1..m, NEW j \in 1..m, i < j
      PROVE  A[i] < A[j]
  <2>1. A[i] \in S /\ A[j] \in S /\ Rank(S, A[i]) = i /\ Rank(S, A[j]) = j
    BY <1>3
  <2> HIDE DEF A, m
  <2>2. ~(j < i) /\ i # j
    BY <1>1, <1>8
  <2>3. A[i] # A[j]
    BY <2>1, <2>2, Zenon
  <2>4. ~(A[j] < A[i])
    <3> SUFFICES ASSUME A[j] < A[i] PROVE FALSE
      OBVIOUS
    <3>1. Rank(S, A[j]) < Rank(S, A[i])
      BY <1>1, <2>1, Zenon
    <3> QED
      BY <2>1, <2>2, <3>1, Zenon
  <2> QED BY <1>5, <2>1, <2>3, <2>4, Zenon
<1> QED
  BY <1>1, <1>3, <1>4, <1>7, <1>8

-----------------------------------------------------------------------------
(* Batches one after the other.                                              *)
FlatRec(q, n, f) == f = [i \in 1..n |-> IF i = 1 THEN q[i] ELSE f[i - 1] \o q[i]]

LEMMA FlatExists ==
  ASSUME NEW q, NEW n \in Nat
  PROVE  \E f : FlatRec(q, n, f)
<1> DEFINE F == {k \in 1..n : ~ \E f : FlatRec(q, k, f)}
<1>1. SUFFICES ASSUME F # {} PROVE FALSE
  <2>1. FlatRec(q, 0, [i \in 1..0 |-> q[i]])
    BY DEF FlatRec
  <2>2. n = 0 \/ n \in 1..n
    OBVIOUS
  <2> QED BY <2>1, <2>2
<1>2. PICK k \in F : \A j \in F : k <= j
  <2>1. F \subseteq 1..n
    OBVIOUS
  <2> HIDE DEF F
  <2> QED BY <1>1, <2>1, LeastIndex
<1>3. k \in 1..n /\ k - 1 \in 0..n /\ k - 1 < k
  BY <1>2
<1>4. PICK f : FlatRec(q, k - 1, f)
  <2>1. CASE k = 1
    <3>1. FlatRec(q, 0, [i \in 1..0 |-> q[i]])
      BY DEF FlatRec
    <3> QED BY <2>1, <3>1
  <2>2. CASE k # 1
    <3>1. k - 1 \in 1..n /\ k - 1 \notin F
      BY <1>2, <1>3, <2>2
    <3> QED BY <3>1
  <2> QED BY <2>1, <2>2
<1> DEFINE g == [i \in 1..k |-> IF i = k THEN IF k = 1 THEN q[1] ELSE f[k - 1] \o q[k] ELSE f[i]]
<1>5. \A i \in 1..k : g[i] = IF i = 1 THEN q[i] ELSE g[i - 1] \o q[i]
  <2> SUFFICES ASSUME NEW i \in 1..k
               PROVE  g[i] = IF i = 1 THEN q[i] ELSE g[i - 1] \o q[i]
    OBVIOUS
  <2>1. CASE i = k
    <3>1. k # 1 => k - 1 \in 1..k /\ k - 1 # k
      BY <1>3
    <3> QED BY <2>1, <3>1
  <2>2. CASE i # k
    <3>1. i \in 1..(k - 1) /\ (i # 1 => i - 1 \in 1..(k - 1) /\ i - 1 \in 1..k /\ i - 1 # k)
      BY <1>3, <2>2
    <3>2. f[i] = IF i = 1 THEN q[i] ELSE f[i - 1] \o q[i]
      BY <1>4, <3>1 DEF FlatRec
    <3> QED BY <2>2, <3>1, <3>2
  <2> QED BY <2>1, <2>2
<1>6. g = [i \in 1..k |-> IF i = 1 THEN q[i] ELSE g[i - 1] \o q[i]]
  BY <1>5
<1>7. FlatRec(q, k, g)
  <2> HIDE DEF g
  <2> QED BY <1>6 DEF FlatRec
<1> QED
  BY <1>2, <1>7

LEMMA FlattenIs ==
  ASSUME NEW q, Len(q) \in Nat, Len(q) # 0
  PROVE  \E f : FlatRec(q, Len(q), f) /\ FlattenSeq(q) = f[Len(q)]
<1>1. FlattenSeq(q) = (CHOOSE f : FlatRec(q, Len(q), f))[Len(q)]
  BY DEF FlattenSeq, FlatRec
<1>2. \E f : FlatRec(q, Len(q), f)
  BY FlatExists
<1> QED
  BY <1>1, <1>2

-----------------------------------------------------------------------------
(* Every page is scanned, in the order of the document: each range begins    *)
(* where the one before it ends, and the last ends with the document.        *)
LEMMA Division ==
  ASSUME NEW a \in Int, NEW b \in Nat \ {0}
  PROVE  a \div b \in Int /\ b * (a \div b) <= a /\ a < b * (a \div b) + b
OBVIOUS

LEMMA ProductsGrow ==
  ASSUME NEW c \in Nat, NEW j \in Nat, NEW k \in Nat, j <= k
  PROVE  j * c <= k * c /\ j * c \in Nat /\ (j + 1) * c = j * c + c
<1>1. (k - j) \in Nat
  OBVIOUS
<1>2. (k - j) * c >= 0 /\ (k - j) * c = k * c - j * c
  BY <1>1
<1>3. j * c \in Nat /\ k * c \in Nat /\ (j + 1) * c = j * c + c
  OBVIOUS
<1> QED
  BY <1>2, <1>3

LEMMA RangesFit ==
  /\ PageCount \in Nat /\ ScanWorkers \in Nat \ {0} /\ ChunkSize \in Nat
  /\ PageCount <= ScanWorkers * ChunkSize
<1> DEFINE a == PageCount + ScanWorkers - 1
           q == a \div ScanWorkers
<1>1. PageCount \in Nat /\ ScanWorkers \in Nat \ {0} /\ a \in Nat
  BY ExtractionAssumption
<1>2. ChunkSize = q
  BY DEF ChunkSize
<1>3. q \in Int /\ ScanWorkers * q <= a /\ a < ScanWorkers * q + ScanWorkers
  <2> HIDE DEF a
  <2> QED BY <1>1, Division
<1> HIDE DEF q
<1>4. q >= 0
  <2> SUFFICES ASSUME q < 0 PROVE FALSE
    BY <1>3
  <2>1. 0 - q - 1 \in Nat
    BY <1>3
  <2>2. ScanWorkers * (0 - q - 1) >= 0
    BY <1>1, <2>1
  <2>3. ScanWorkers * (0 - q - 1) = 0 - ScanWorkers * q - ScanWorkers
    BY <1>1, <1>3
  <2> QED BY <1>1, <1>3, <2>2, <2>3
<1>5. PageCount <= ScanWorkers * q
  <2> DEFINE m == ScanWorkers * q
  <2>1. m \in Int
    BY <1>1, <1>3
  <2> HIDE DEF m
  <2> QED BY <1>1, <1>3, <2>1 DEF m
<1> QED
  BY <1>1, <1>2, <1>3, <1>4, <1>5

LEMMA RangesMeet ==
  \E m \in 0..ScanWorkers :
    /\ RangeCount = m
    /\ m = 0 => PageCount = 0
    /\ \A k \in 0..(m - 1) : RangeStart(k) \in Nat /\ RangeEnd(k) \in Nat /\ RangeStart(k) <= RangeEnd(k)
                             /\ RangeEnd(k) <= PageCount
    /\ m # 0 => RangeStart(0) = 0 /\ RangeEnd(m - 1) = PageCount
    /\ \A k \in 1..(m - 1) : RangeStart(k) = RangeEnd(k - 1)
<1> DEFINE P == PageCount
           W == ScanWorkers
           C == ChunkSize
           T == {k \in 0..(W - 1) : k * C < P}
           F == {k \in 1..W : ~(k * C < P)}
<1>1. P \in Nat /\ W \in Nat \ {0} /\ C \in Nat /\ P <= W * C
  BY RangesFit
<1>2. RangeCount = Cardinality(T)
  BY DEF RangeCount, RangeStart
<1> HIDE DEF P, W, C
<1>3. \A j \in Nat : j * C \in Nat /\ (j + 1) * C = j * C + C
  BY <1>1, ProductsGrow
<1>4. \E m \in 0..W : ~(m * C < P) /\ \A j \in 0..(m - 1) : j * C < P
  <2>1. CASE P = 0
    <3>1. 0 \in 0..W /\ ~(0 * C < P) /\ 0..(0 - 1) = {}
      BY <1>1, <2>1
    <3> QED BY <3>1
  <2>2. CASE P # 0
    <3>1. W \in F
      <4>1. W * C \in Nat
        BY <1>1, <1>3
      <4> DEFINE z == W * C
      <4> HIDE DEF z
      <4>2. ~(z < P)
        BY <1>1, <4>1 DEF z
      <4> QED BY <1>1, <4>2 DEF z
    <3>2. PICK m \in F : \A j \in F : m <= j
      <4>1. W \in Nat /\ F \subseteq 1..W /\ F # {}
        BY <1>1, <3>1
      <4> HIDE DEF F
      <4> QED BY <4>1, LeastIndex
    <3>3. 0 * C < P
      BY <1>1, <2>2
    <3>4. ASSUME NEW j \in 0..(m - 1) PROVE j * C < P
      <4>1. CASE j = 0
        BY <3>3, <4>1
      <4>2. CASE j # 0
        <5>1. j \in 1..W /\ ~(m <= j)
          BY <1>1, <4>2
        <5> QED BY <3>2, <5>1
      <4> QED BY <4>1, <4>2
    <3>5. m \in 0..W /\ ~(m * C < P)
      BY <1>1
    <3> QED BY <3>4, <3>5
  <2> QED BY <2>1, <2>2
<1>5. PICK m \in 0..W : ~(m * C < P) /\ \A j \in 0..(m - 1) : j * C < P
  BY <1>4
<1>6. m \in Nat /\ m <= W
  BY <1>1
<1>7. \A k \in 0..m : k * C \in Nat
  BY <1>3
<1>8. T = 0..(m - 1)
  <2>1. ASSUME NEW k \in T PROVE k \in 0..(m - 1)
    <3> SUFFICES ASSUME m <= k PROVE FALSE
      BY <1>1, <1>6
    <3>1. k \in Nat /\ k * C < P
      BY <1>1
    <3>2. m * C <= k * C /\ m * C \in Nat /\ k * C \in Nat
      BY <1>1, <1>3, <1>6, <3>1, ProductsGrow
    <3> DEFINE x == m * C
               y == k * C
    <3>3. x \in Nat /\ y \in Nat /\ x <= y /\ y < P /\ ~(x < P)
      BY <1>5, <3>1, <3>2
    <3> HIDE DEF x, y
    <3> QED BY <1>1, <3>3
  <2>2. ASSUME NEW k \in 0..(m - 1) PROVE k \in T
    <3>1. k \in 0..(W - 1) /\ k * C < P
      BY <1>1, <1>5, <1>6
    <3> QED BY <3>1
  <2> QED BY <2>1, <2>2
<1>9. RangeCount = m
  <2>1. Cardinality(0..(m - 1)) = m
    BY <1>6, FS_Interval
  <2> HIDE DEF T
  <2> QED BY <1>2, <1>8, <2>1
<1>10. m = 0 => P = 0
  BY <1>1, <1>5
<1>11. \A k \in 0..(m - 1) : RangeStart(k) = k * C /\ RangeEnd(k) = Smaller(P, k * C + C)
  BY DEF RangeStart, RangeEnd, C, P
<1>12. ASSUME NEW k \in 0..(m - 1)
       PROVE  RangeStart(k) \in Nat /\ RangeEnd(k) \in Nat /\ RangeStart(k) <= RangeEnd(k) /\ RangeEnd(k) <= P
  <2> DEFINE x == k * C
  <2>1. x \in Nat /\ x < P
    BY <1>5, <1>7
  <2> HIDE DEF x
  <2>2. RangeStart(k) = x /\ RangeEnd(k) = Smaller(P, x + C)
    BY <1>11 DEF x
  <2> QED BY <1>1, <2>1, <2>2 DEF Smaller
<1>13. ASSUME m # 0 PROVE RangeStart(0) = 0 /\ RangeEnd(m - 1) = P
  <2>1. 0 \in 0..(m - 1) /\ m - 1 \in 0..(m - 1) /\ m - 1 \in Nat /\ (m - 1) + 1 = m
    BY <1>6, <1>13
  <2>2. RangeStart(0) = 0
    BY <1>1, <1>11, <2>1
  <2> DEFINE n == m - 1
             x == n * C
  <2> HIDE DEF n
  <2>3. x \in Nat /\ m * C = x + C
    BY <1>3, <2>1 DEF n
  <2>4. ~(x + C < P)
    BY <1>5, <2>3
  <2>5. RangeEnd(n) = Smaller(P, x + C)
    BY <1>11, <2>1 DEF n
  <2> HIDE DEF x
  <2>6. RangeEnd(n) = P
    BY <1>1, <2>3, <2>4, <2>5 DEF Smaller
  <2> QED BY <2>2, <2>6 DEF n
<1>14. ASSUME NEW k \in 1..(m - 1) PROVE RangeStart(k) = RangeEnd(k - 1)
  <2>1. k \in 0..(m - 1) /\ k - 1 \in 0..(m - 1) /\ k - 1 \in Nat /\ (k - 1) + 1 = k
    BY <1>6
  <2> DEFINE n == k - 1
             x == n * C
             y == k * C
  <2> HIDE DEF n
  <2>2. x \in Nat /\ y = x + C /\ y < P
    BY <1>3, <1>5, <2>1 DEF n
  <2>3. RangeEnd(n) = Smaller(P, x + C) /\ RangeStart(k) = y
    BY <1>11, <2>1 DEF n
  <2> HIDE DEF x, y
  <2>4. RangeEnd(n) = y /\ RangeStart(k) = y
    BY <1>1, <2>2, <2>3 DEF Smaller
  <2> QED BY <2>4 DEF n
<1> QED
  BY <1>5, <1>9, <1>10, <1>12, <1>13, <1>14 DEF P, W

(* The numbers of the first pages, in order. *)
FirstPages(n) == [i \in 1..n |-> i - 1]

LEMMA JoinPages ==
  ASSUME NEW s \in Nat, NEW e \in Nat, s <= e
  PROVE  FirstPages(s) \o [i \in 1..(e - s) |-> s + i - 1] = FirstPages(e)
<1> DEFINE l == e - s
           a == FirstPages(s)
           b == [i \in 1..l |-> s + i - 1]
           t == a \o b
<1>1. a \in Seq(Nat) /\ Len(a) = s /\ \A i \in 1..s : a[i] = i - 1
  BY DEF FirstPages
<1>2. l \in Nat /\ b \in Seq(Nat) /\ Len(b) = l /\ \A i \in 1..l : b[i] = s + i - 1
  OBVIOUS
<1>3. s + l = e
  OBVIOUS
<1> HIDE DEF a, b
<1>4. t \in Seq(Nat) /\ Len(t) = Len(a) + Len(b)
      /\ \A i \in 1..(Len(a) + Len(b)) : t[i] = IF i <= Len(a) THEN a[i] ELSE b[i - Len(a)]
  BY <1>1, <1>2, ConcatProperties
<1> HIDE DEF t, l
<1>5. Len(t) = e /\ \A i \in 1..e : t[i] = IF i <= s THEN a[i] ELSE b[i - s]
  BY <1>1, <1>2, <1>3, <1>4
<1>6. ASSUME NEW i \in 1..e PROVE t[i] = i - 1
  <2>1. CASE i <= s
    <3>1. i \in 1..s
      BY <2>1
    <3> QED BY <1>1, <1>5, <2>1, <3>1
  <2>2. CASE ~(i <= s)
    <3>1. i - s \in 1..l /\ s + (i - s) - 1 = i - 1
      BY <1>2, <1>3, <2>2
    <3> QED BY <1>2, <1>5, <2>2, <3>1
  <2> QED BY <2>1, <2>2
<1>7. t = [i \in 1..e |-> t[i]]
  BY <1>4, <1>5
<1>8. t = FirstPages(e)
  BY <1>6, <1>7 DEF FirstPages
<1> QED
  BY <1>8 DEF t, b, l, a

LEMMA BatchesAreAll ==
  FlattenSeq([k \in 1..RangeCount |-> PagesOf(k - 1)]) = FirstPages(PageCount)
<1> DEFINE q == [k \in 1..RangeCount |-> PagesOf(k - 1)]
<1>1. PICK m \in 0..ScanWorkers :
        /\ RangeCount = m
        /\ m = 0 => PageCount = 0
        /\ \A k \in 0..(m - 1) : RangeStart(k) \in Nat /\ RangeEnd(k) \in Nat /\ RangeStart(k) <= RangeEnd(k)
                                 /\ RangeEnd(k) <= PageCount
        /\ m # 0 => RangeStart(0) = 0 /\ RangeEnd(m - 1) = PageCount
        /\ \A k \in 1..(m - 1) : RangeStart(k) = RangeEnd(k - 1)
  BY RangesMeet
<1>2. m \in Nat
  BY RangesFit
<1>3. q = [k \in 1..m |-> PagesOf(k - 1)]
  BY <1>1
<1>4. DOMAIN q = 1..m /\ Len(q) = m /\ \A k \in 1..m : q[k] = PagesOf(k - 1)
  <2> HIDE DEF q
  <2> QED BY <1>2, <1>3
<1>5. CASE m = 0
  <2>1. Len(q) = 0 /\ 1..0 = {} /\ q = [k \in 1..0 |-> PagesOf(k - 1)]
    <3> HIDE DEF q
    <3>1. Len(q) = 0 /\ 1..0 = {}
      BY <1>4, <1>5
    <3>2. q = [k \in 1..0 |-> PagesOf(k - 1)]
      BY ONLY <1>3, <1>5
    <3> QED BY <3>1, <3>2
  <2>2. FlattenSeq(q) = q
    <3> HIDE DEF q
    <3> QED BY <2>1 DEF FlattenSeq
  <2>3. q = [i \in 1..0 |-> i - 1]
    <3> HIDE DEF q
    <3> QED BY <2>1
  <2> QED BY <1>1, <1>5, <2>2, <2>3 DEF FirstPages
<1>6. CASE m # 0
  <2>1. PICK f : FlatRec(q, m, f) /\ FlattenSeq(q) = f[m]
    <3> HIDE DEF q
    <3>1. \E f : FlatRec(q, Len(q), f) /\ FlattenSeq(q) = f[Len(q)]
      BY <1>2, <1>4, <1>6, FlattenIs
    <3> QED BY <1>4, <3>1
  <2>2. \A k \in 1..m : f[k] = IF k = 1 THEN q[k] ELSE f[k - 1] \o q[k]
    BY <2>1 DEF FlatRec
  <2> HIDE DEF q
  <2> DEFINE F == {k \in 1..m : f[k] # FirstPages(RangeEnd(k - 1))}
  <2>3. F = {}
    <3> SUFFICES ASSUME F # {} PROVE FALSE
      OBVIOUS
    <3>1. PICK k \in F : \A j \in F : k <= j
      <4>1. F \subseteq 1..m
        OBVIOUS
      <4> HIDE DEF F
      <4> QED BY <1>2, <4>1, LeastIndex
    <3>2. k \in 1..m /\ k - 1 \in 0..(m - 1) /\ f[k] # FirstPages(RangeEnd(k - 1))
      BY <1>2
    <3> DEFINE s == RangeStart(k - 1)
               e == RangeEnd(k - 1)
    <3>3. s \in Nat /\ e \in Nat /\ s <= e
      BY <1>1, <3>2
    <3>4. q[k] = [i \in 1..(e - s) |-> s + i - 1]
      BY <1>4, <3>2 DEF PagesOf
    <3> HIDE DEF s, e
    <3>5. CASE k = 1
      <4>1. s = 0
        BY <1>1, <1>6, <3>5 DEF s
      <4>2. f[k] = [i \in 1..e |-> i - 1]
        <5>1. e - s = e /\ \A i \in 1..e : s + i - 1 = i - 1
          BY <3>3, <4>1
        <5> QED BY <2>2, <3>2, <3>4, <3>5, <5>1
      <4> QED BY <3>2, <4>2 DEF FirstPages, e
    <3>6. CASE k # 1
      <4>1. k - 1 \in 1..m /\ k - 1 \in 1..(m - 1) /\ ~(k <= k - 1)
        BY <1>2, <3>2, <3>6
      <4>2. f[k - 1] = FirstPages(RangeEnd((k - 1) - 1))
        BY <3>1, <4>1
      <4>3. RangeEnd((k - 1) - 1) = s
        BY <1>1, <4>1 DEF s
      <4>4. f[k] = FirstPages(s) \o [i \in 1..(e - s) |-> s + i - 1]
        BY <2>2, <3>2, <3>4, <3>6, <4>2, <4>3
      <4>5. f[k] = FirstPages(e)
        BY <3>3, <4>4, JoinPages
      <4> QED BY <3>2, <4>5 DEF e
    <3> QED BY <3>5, <3>6
  <2>4. m \in 1..m
    BY <1>2, <1>6
  <2>5. f[m] = FirstPages(RangeEnd(m - 1))
    BY <2>3, <2>4
  <2> QED BY <1>1, <1>6, <2>1, <2>5 DEF q
<1> QED
  BY <1>5, <1>6

LEMMA SortedPages ==
  ASSUME NEW n \in Nat
  PROVE  Sorted(FirstPages(n)) = FirstPages(n)
<1> DEFINE s == FirstPages(n)
           Before(i) == {j \in 1..n : s[j] < s[i] \/ (s[j] = s[i] /\ j <= i)}
           Place(k) == CHOOSE i \in 1..n : Cardinality(Before(i)) = k
<1>1. DOMAIN s = 1..n /\ \A i \in 1..n : s[i] = i - 1
  BY DEF FirstPages
<1>2. Sorted(s) = [k \in 1..n |-> s[Place(k)]]
  <2> HIDE DEF s
  <2> QED BY <1>1 DEF Sorted
<1> HIDE DEF s
<1>3. ASSUME NEW i \in 1..n PROVE Cardinality(Before(i)) = i
  <2>1. Before(i) = 1..i
    BY <1>1
  <2>2. Cardinality(1..i) = i
    BY FS_Interval
  <2> HIDE DEF Before
  <2> QED BY <2>1, <2>2
<1> HIDE DEF Before
<1>4. \A k \in 1..n : Place(k) = k
  BY <1>3
<1> HIDE DEF Place
<1>5. Sorted(s) = [k \in 1..n |-> s[k]]
  BY <1>2, <1>4
<1>6. s = [k \in 1..n |-> s[k]]
  BY DEF s, FirstPages
<1> QED
  BY <1>5, <1>6 DEF s

(* What the pool of scanners returns, sorted, is every page once and in      *)
(* order; and no page is outside of the ranges.                              *)
LEMMA DraftsAreAll == Drafts = FirstPages(PageCount)
BY BatchesAreAll, SortedPages, RangesFit DEF Drafts

LEMMA RangesHoldPages ==
  /\ \A p \in PageNumbers : \E k \in 0..(RangeCount - 1) : \E i \in DOMAIN PagesOf(k) : PagesOf(k)[i] = p
  /\ \A k \in 0..(RangeCount - 1) : \A i \in DOMAIN PagesOf(k) : PagesOf(k)[i] \in PageNumbers
<1>1. PICK m \in 0..ScanWorkers :
        /\ RangeCount = m
        /\ m = 0 => PageCount = 0
        /\ \A k \in 0..(m - 1) : RangeStart(k) \in Nat /\ RangeEnd(k) \in Nat /\ RangeStart(k) <= RangeEnd(k)
                                 /\ RangeEnd(k) <= PageCount
        /\ m # 0 => RangeStart(0) = 0 /\ RangeEnd(m - 1) = PageCount
        /\ \A k \in 1..(m - 1) : RangeStart(k) = RangeEnd(k - 1)
  BY RangesMeet
<1>2. m \in Nat /\ PageCount \in Nat
  BY RangesFit
<1>3. ASSUME NEW p \in PageNumbers
      PROVE  \E k \in 0..(m - 1) : \E i \in DOMAIN PagesOf(k) : PagesOf(k)[i] = p
  <2>1. p \in Nat /\ p < PageCount
    BY <1>2 DEF PageNumbers
  <2> DEFINE F == {k \in 1..m : p < RangeEnd(k - 1)}
  <2>2. m \in F
    BY <1>1, <1>2, <2>1
  <2>3. PICK k \in F : \A j \in F : k <= j
    <3>1. F \subseteq 1..m /\ F # {}
      BY <2>2
    <3> HIDE DEF F
    <3> QED BY <1>2, <3>1, LeastIndex
  <2>4. k \in 1..m /\ k - 1 \in 0..(m - 1) /\ p < RangeEnd(k - 1)
    BY <1>2
  <2> DEFINE s == RangeStart(k - 1)
             e == RangeEnd(k - 1)
             i == p - s + 1
  <2>5. s \in Nat /\ e \in Nat /\ p < e
    BY <1>1, <2>4
  <2>6. s <= p
    <3>1. CASE k = 1
      BY <1>1, <2>1, <2>4, <3>1
    <3>2. CASE k # 1
      <4>1. k - 1 \in 1..m /\ k - 1 \in 1..(m - 1) /\ ~(k <= k - 1) /\ (k - 1) - 1 \in 0..(m - 1)
        BY <1>2, <2>4, <3>2
      <4>2. ~(p < RangeEnd((k - 1) - 1)) /\ s = RangeEnd((k - 1) - 1)
        BY <1>1, <2>3, <4>1
      <4> HIDE DEF s
      <4> QED BY <2>1, <2>5, <4>2
    <3> QED BY <3>1, <3>2
  <2>7. PagesOf(k - 1) = [j \in 1..(e - s) |-> s + j - 1]
    BY DEF PagesOf
  <2> HIDE DEF s, e
  <2>8. i \in 1..(e - s) /\ s + i - 1 = p
    BY <2>1, <2>5, <2>6
  <2> HIDE DEF i
  <2>9. i \in DOMAIN PagesOf(k - 1) /\ PagesOf(k - 1)[i] = p
    BY <2>7, <2>8
  <2> QED BY <2>4, <2>9
<1>4. ASSUME NEW k \in 0..(m - 1), NEW i \in DOMAIN PagesOf(k)
      PROVE  PagesOf(k)[i] \in PageNumbers
  <2> DEFINE s == RangeStart(k)
             e == RangeEnd(k)
  <2>1. s \in Nat /\ e \in Nat /\ e <= PageCount
    BY <1>1
  <2>2. PagesOf(k) = [j \in 1..(e - s) |-> s + j - 1]
    BY DEF PagesOf
  <2> HIDE DEF s, e
  <2>3. i \in 1..(e - s) /\ PagesOf(k)[i] = s + i - 1
    BY <2>2
  <2> QED BY <1>2, <2>1, <2>3 DEF PageNumbers
<1> QED
  BY <1>1, <1>3, <1>4
-----------------------------------------------------------------------------
(* The queue of process(): the window and, behind it, the pages that are     *)
(* still to be rasterised.                                                   *)
Elements(s) == {s[i] : i \in 1..Len(s)}
Ascends(s)  == \A i, j \in 1..Len(s) : i < j => s[i] < s[j]

LEMMA SubmitKeepsQueue ==
  ASSUME NEW S, NEW a \in Seq(S), NEW b \in Seq(S), b # <<>>
  PROVE  /\ Append(a, Head(b)) \o Tail(b) = a \o b
         /\ Append(a, Head(b)) \in Seq(S) /\ Tail(b) \in Seq(S)
         /\ Elements(Append(a, Head(b))) = Elements(a) \cup {Head(b)}
<1> DEFINE h == Head(b)
           c == Append(a, h)
<1>1. h \in S /\ Tail(b) \in Seq(S) /\ Len(b) \in Nat \ {0} /\ Len(Tail(b)) = Len(b) - 1
      /\ h = b[1] /\ \A i \in 1..Len(Tail(b)) : Tail(b)[i] = b[i + 1]
  OBVIOUS
<1> HIDE DEF h
<1>2. c \in Seq(S) /\ Len(c) = Len(a) + 1 /\ Len(a) \in Nat
      /\ c[Len(a) + 1] = h /\ \A i \in 1..Len(a) : c[i] = a[i]
  BY <1>1
<1>3. Elements(c) = Elements(a) \cup {h}
  <2>1. \A i \in 1..Len(c) : i \in 1..Len(a) \/ i = Len(a) + 1
    BY <1>2
  <2>2. 1..Len(a) \subseteq 1..Len(c) /\ Len(a) + 1 \in 1..Len(c)
    BY <1>2
  <2> HIDE DEF c
  <2> QED BY <1>2, <2>1, <2>2 DEF Elements
<1> HIDE DEF c
<1> DEFINE t == Tail(b)
<1>4. /\ c \o t \in Seq(S) /\ Len(c \o t) = Len(c) + Len(t)
      /\ \A i \in 1..(Len(c) + Len(t)) : (c \o t)[i] = IF i <= Len(c) THEN c[i] ELSE t[i - Len(c)]
  BY <1>1, <1>2, ConcatProperties
<1>5. /\ a \o b \in Seq(S) /\ Len(a \o b) = Len(a) + Len(b)
      /\ \A i \in 1..(Len(a) + Len(b)) : (a \o b)[i] = IF i <= Len(a) THEN a[i] ELSE b[i - Len(a)]
  BY ConcatProperties
<1> HIDE DEF t
<1>6. ASSUME NEW i \in 1..(Len(a) + Len(b)) PROVE (c \o t)[i] = (a \o b)[i]
  <2>1. i \in 1..(Len(c) + Len(t)) /\ i \in Int
    BY <1>1, <1>2 DEF t
  <2>2. CASE i <= Len(a)
    <3>1. i \in 1..Len(a) /\ i <= Len(c)
      BY <1>2, <2>1, <2>2
    <3> QED BY <1>2, <1>4, <1>5, <2>1, <2>2, <3>1
  <2>3. CASE i = Len(a) + 1
    <3>1. i <= Len(c) /\ ~(i <= Len(a)) /\ i - Len(a) = 1
      BY <1>2, <2>3
    <3> QED BY <1>1, <1>2, <1>4, <1>5, <2>1, <2>3, <3>1
  <2>4. CASE i > Len(a) + 1
    <3> DEFINE k == i - Len(c)
    <3>1. ~(i <= Len(c)) /\ ~(i <= Len(a)) /\ k \in 1..Len(t) /\ i - Len(a) = k + 1
      BY <1>1, <1>2, <2>1, <2>4 DEF t
    <3>2. (c \o t)[i] = t[k] /\ (a \o b)[i] = b[i - Len(a)]
      BY <1>4, <1>5, <2>1, <3>1
    <3> HIDE DEF k
    <3>3. t[k] = b[k + 1]
      BY <1>1, <3>1 DEF t
    <3> QED BY <3>1, <3>2, <3>3
  <2> QED BY <1>2, <2>1, <2>2, <2>3, <2>4
<1>7. c \o t = a \o b
  <2>1. Len(c \o t) = Len(a \o b) /\ Len(a \o b) = Len(a) + Len(b)
    BY <1>1, <1>2, <1>4, <1>5 DEF t
  <2>2. \A i \in 1..Len(c \o t) : (c \o t)[i] = (a \o b)[i]
    BY <1>6, <2>1
  <2> QED BY <1>4, <1>5, <2>1, <2>2, SeqEqual
<1> QED
  BY <1>1, <1>2, <1>3, <1>7 DEF c, h, t

(* The oldest page leaves the front of the queue. *)
LEMMA ResolveTakesFirst ==
  ASSUME NEW S, NEW a \in Seq(S), NEW b \in Seq(S), a # <<>>
  PROVE  /\ a \o b \in Seq(S) /\ a \o b # <<>>
         /\ Tail(a) \in Seq(S)
         /\ Tail(a) \o b = Tail(a \o b) /\ Head(a) = Head(a \o b)
         /\ Head(a) \in Elements(a) /\ Elements(Tail(a)) \subseteq Elements(a)
<1> DEFINE u == Tail(a)
           q == a \o b
<1>1. u \in Seq(S) /\ Len(a) \in Nat \ {0} /\ Len(u) = Len(a) - 1 /\ Len(b) \in Nat
      /\ Head(a) = a[1] /\ \A i \in 1..Len(u) : u[i] = a[i + 1]
  OBVIOUS
<1>2. /\ q \in Seq(S) /\ Len(q) = Len(a) + Len(b)
      /\ \A i \in 1..(Len(a) + Len(b)) : q[i] = IF i <= Len(a) THEN a[i] ELSE b[i - Len(a)]
  BY ConcatProperties
<1>3. /\ u \o b \in Seq(S) /\ Len(u \o b) = Len(u) + Len(b)
      /\ \A i \in 1..(Len(u) + Len(b)) : (u \o b)[i] = IF i <= Len(u) THEN u[i] ELSE b[i - Len(u)]
  <2> HIDE DEF u
  <2> QED BY <1>1, ConcatProperties
<1> HIDE DEF u, q
<1>4. q # <<>> /\ Head(q) = q[1] /\ q[1] = a[1]
  <2>1. Len(q) # 0 /\ 1 \in 1..(Len(a) + Len(b)) /\ 1 <= Len(a)
    BY <1>1, <1>2
  <2> QED BY <1>2, <2>1
<1>5. /\ Tail(q) \in Seq(S) /\ Len(Tail(q)) = Len(q) - 1
      /\ \A i \in 1..Len(Tail(q)) : Tail(q)[i] = q[i + 1]
  BY <1>2, <1>4, HeadTailProperties
<1>6. Len(u \o b) = Len(Tail(q)) /\ Len(u \o b) = Len(u) + Len(b)
  BY <1>1, <1>2, <1>3, <1>5
<1>7. ASSUME NEW i \in 1..Len(u \o b) PROVE (u \o b)[i] = Tail(q)[i]
  <2> DEFINE k == i + 1
  <2>1. k \in 1..(Len(a) + Len(b)) /\ i \in 1..(Len(u) + Len(b)) /\ i \in Int
    BY <1>1, <1>6
  <2>2. Tail(q)[i] = q[k]
    BY <1>5, <1>6
  <2>3. CASE i <= Len(u)
    <3>1. k <= Len(a) /\ i \in 1..Len(u)
      BY <1>1, <2>1, <2>3
    <3>2. q[k] = a[k] /\ u[i] = a[k]
      <4>1. u[i] = a[k]
        BY <1>1, <3>1
      <4> HIDE DEF k
      <4> QED BY <1>2, <2>1, <3>1, <4>1
    <3> QED BY <1>3, <2>1, <2>2, <2>3, <3>2
  <2>4. CASE ~(i <= Len(u))
    <3>1. ~(k <= Len(a)) /\ k - Len(a) = i - Len(u)
      BY <1>1, <2>1, <2>4
    <3>2. q[k] = b[k - Len(a)]
      <4> HIDE DEF k
      <4> QED BY <1>2, <2>1, <3>1
    <3>3. (u \o b)[i] = b[i - Len(u)]
      <4> DEFINE ub == u \o b
      <4>1. ub[i] = IF i <= Len(u) THEN u[i] ELSE b[i - Len(u)]
        BY <1>3, <2>1
      <4> HIDE DEF ub
      <4>2. ub[i] = b[i - Len(u)]
        BY ONLY <2>4, <4>1
      <4> QED BY <4>2 DEF ub
    <3> HIDE DEF k
    <3>4. q[k] = b[i - Len(u)]
      BY ONLY <3>1, <3>2
    <3> QED BY ONLY <2>2, <3>3, <3>4
  <2> QED BY <2>3, <2>4, Zenon
<1>8. u \o b = Tail(q)
  BY <1>3, <1>5, <1>6, <1>7, SeqEqual, Zenon
<1>9. Head(a) \in Elements(a) /\ Elements(u) \subseteq Elements(a)
  <2>1. 1 \in 1..Len(a) /\ \A i \in 1..Len(u) : i + 1 \in 1..Len(a)
    BY <1>1
  <2> QED BY <1>1, <2>1 DEF Elements
<1> QED
  BY <1>1, <1>2, <1>4, <1>8, <1>9 DEF u, q

LEMMA TakeFirst ==
  ASSUME NEW q \in Seq(Nat), q # <<>>, Ascends(q)
  PROVE  /\ Head(q) \in Elements(q)
         /\ \A x \in Elements(q) : Head(q) <= x
         /\ Ascends(Tail(q)) /\ Elements(Tail(q)) = Elements(q) \ {Head(q)}
<1> DEFINE t == Tail(q)
<1>1. Len(q) \in Nat \ {0} /\ Head(q) = q[1] /\ t \in Seq(Nat) /\ Len(t) = Len(q) - 1
      /\ \A i \in 1..Len(t) : t[i] = q[i + 1]
  BY HeadTailProperties
<1> HIDE DEF t
<1>2. 1 \in 1..Len(q) /\ \A i \in 1..Len(q) : i # 1 => 1 < i /\ i - 1 \in 1..Len(t) /\ (i - 1) + 1 = i
  BY <1>1
<1>3. \A i \in 1..Len(t) : i + 1 \in 1..Len(q) /\ 1 < i + 1
  BY <1>1
<1>4. \A i \in 1..Len(q) : q[i] \in Nat
  BY <1>1
<1>5. \A i \in 1..Len(q) : i # 1 => q[1] < q[i]
  BY <1>2 DEF Ascends
<1>6. Head(q) \in Elements(q)
  BY <1>1, <1>2 DEF Elements
<1>7. ASSUME NEW x \in Elements(q) PROVE Head(q) <= x
  <2>1. PICK i \in 1..Len(q) : x = q[i]
    BY DEF Elements
  <2>2. q[i] \in Nat /\ q[1] \in Nat /\ (i = 1 \/ q[1] < q[i])
    BY <1>2, <1>4, <1>5
  <2>3. q[1] <= q[i]
    <3> DEFINE u == q[1]
               v == q[i]
    <3>1. u \in Nat /\ v \in Nat /\ (u = v \/ u < v)
      BY <2>2
    <3> HIDE DEF u, v
    <3>2. u <= v
      BY <3>1
    <3> QED BY <3>2 DEF u, v
  <2> QED BY <1>1, <2>1, <2>3
<1>8. Ascends(t)
  <2> SUFFICES ASSUME NEW i \in 1..Len(t), NEW j \in 1..Len(t), i < j PROVE t[i] < t[j]
    BY DEF Ascends
  <2> DEFINE k == i + 1
             l == j + 1
  <2>1. k \in 1..Len(q) /\ l \in 1..Len(q) /\ k < l /\ t[i] = q[k] /\ t[j] = q[l]
    BY <1>1, <1>3
  <2> HIDE DEF k, l
  <2> QED BY <2>1 DEF Ascends
<1>9. Elements(t) = Elements(q) \ {Head(q)}
  <2>1. ASSUME NEW x \in Elements(t) PROVE x \in Elements(q) /\ x # Head(q)
    <3>1. PICK i \in 1..Len(t) : x = t[i]
      BY <2>1 DEF Elements
    <3> DEFINE k == i + 1
    <3>2. k \in 1..Len(q) /\ k # 1 /\ x = q[k]
      BY <1>1, <1>3, <3>1
    <3> HIDE DEF k
    <3>3. q[1] < q[k] /\ q[1] \in Nat /\ q[k] \in Nat
      BY <1>2, <1>4, <1>5, <3>2
    <3>4. q[k] # q[1]
      BY <3>3
    <3> QED BY <1>1, <3>2, <3>4 DEF Elements
  <2>2. ASSUME NEW x \in Elements(q), x # Head(q) PROVE x \in Elements(t)
    <3>1. PICK i \in 1..Len(q) : x = q[i]
      BY DEF Elements
    <3> DEFINE k == i - 1
    <3>2. i # 1
      BY <1>1, <2>2, <3>1
    <3>3. k \in 1..Len(t) /\ k + 1 = i
      BY <1>2, <3>2
    <3> HIDE DEF k
    <3>4. t[k] = x
      BY <1>1, <3>1, <3>3
    <3> QED BY <3>3, <3>4 DEF Elements
  <2> QED BY <2>1, <2>2
<1> QED
  BY <1>6, <1>7, <1>8, <1>9 DEF t
-----------------------------------------------------------------------------
(* What the result holds while process() works.                              *)
OwnContainer(p)  == [from |-> p, by |-> page[p]]
TextContainer(p) == [from |-> p, by |-> "image"]
Held == {p \in PageNumbers : pages[p + 1] # NoContainer}

(* Every page has what it was routed to, a page for OCR its text or nothing. *)
PagesInv ==
  /\ DOMAIN pages = 1..PageCount
  /\ \A p \in PageNumbers :
       /\ page[p] # "unscannable"
       /\ page[p] \in {"native", "blank"} => pages[p + 1] = OwnContainer(p)
       /\ page[p] \in Scanned => pages[p + 1] \in {NoContainer, TextContainer(p)}
       /\ page[p] \in Scanned /\ p \in Held => page[p] = "image"

(* The pages without a container are those of the queue, and in order.       *)
QueueInv ==
  /\ pending \in Seq(PageNumbers) /\ rest \in Seq(PageNumbers)
  /\ Ascends(pending \o rest)
  /\ Elements(pending \o rest) = OcrPages \ Held
  /\ \A p \in Elements(pending) : page[p] # "unrasterizable"

(* A range failed on one of its pages, a job on its own.                     *)
BatchInv ==
  /\ batch \in [0..(ScanWorkers - 1) -> {"scanning", "done", "failed"}]
  /\ \A k \in 0..(RangeCount - 1) :
       /\ batch[k] = "failed" => \E i \in DOMAIN PagesOf(k) : page[PagesOf(k)[i]] = "unscannable"
       /\ batch[k] = "done" => \A i \in DOMAIN PagesOf(k) : page[PagesOf(k)[i]] # "unscannable"

FutureInv ==
  /\ job \in [PageNumbers -> JobStates]
  /\ \A p \in PageNumbers :
       /\ job[p] = "done" => page[p] # "unreadable"
       /\ job[p] = "failed" => page[p] = "unreadable"

(* What the extracting thread has reached.                                   *)
StageInv ==
  /\ phase \in Phases
  /\ phase = "scan" => pages = <<>> /\ pending = <<>> /\ outcome = "running"
  /\ phase \in {"submit", "resolve", "drain"} => PagesInv /\ QueueInv /\ outcome = "running"
  /\ phase = "drain" => rest = <<>>
  /\ phase = "join" =>
       /\ PagesInv
       /\ \/ outcome = "ok" /\ BadPages = {} /\ Held = PageNumbers
          \/ outcome = "failed" /\ BadPages # {}

ResultInv == page \in [PageNumbers -> Kinds] /\ BatchInv /\ FutureInv /\ StageInv

LEMMA ContainersDiffer ==
  ASSUME NEW p, page[p] \in {"native", "blank"} \/ page[p] \in Scanned
  PROVE  /\ page[p] \in {"native", "blank"} => OwnContainer(p) # NoContainer
         /\ TextContainer(p) # NoContainer
<1>1. NoContainer.by = "nothing" /\ OwnContainer(p).by = page[p] /\ TextContainer(p).by = "image"
  BY DEF NoContainer, OwnContainer, TextContainer
<1> QED
  BY <1>1

LEMMA PageFacts ==
  /\ PageCount \in Nat
  /\ \A p \in PageNumbers : p \in Nat /\ p + 1 \in 1..PageCount /\ (p + 1) - 1 = p
  /\ \A i \in 1..PageCount : i - 1 \in PageNumbers /\ (i - 1) + 1 = i
BY ExtractionAssumption DEF PageNumbers

(* The drafts of all pages, routed: every page with a text of its own has    *)
(* its container, and all others are in the queue.                           *)
LEMMA RouteGives ==
  ASSUME page \in [PageNumbers -> Kinds], \A p \in PageNumbers : page[p] # "unscannable",
         pending = <<>>, outcome = "running", Route(FirstPages(PageCount)), UNCHANGED <<page, pending>>
  PROVE  StageInv' /\ PagesInv' /\ Held' = OwnPages /\ phase' \in {"submit", "join"}
<1> DEFINE D == FirstPages(PageCount)
           S == {d \in DOMAIN D : page[D[d]] \in Scanned}
           at == Ascending(S)
           m == Cardinality(S)
<1>1. DOMAIN D = 1..PageCount /\ Len(D) = PageCount /\ \A i \in 1..PageCount : D[i] = i - 1
  BY PageFacts DEF FirstPages
<1>2. /\ pages' = [i \in 1..Len(D) |->
           IF \E d \in DOMAIN D : D[d] = i - 1 /\ page[i - 1] \in {"native", "blank"}
           THEN [from |-> i - 1, by |-> page[i - 1]] ELSE NoContainer]
      /\ rest' = [n \in DOMAIN at |-> D[at[n]]]
      /\ IF rest' = <<>> THEN phase' = "join" /\ outcome' = "ok"
         ELSE phase' = "submit" /\ UNCHANGED outcome
  BY DEF Route
<1> HIDE DEF D
<1>3. S = {d \in 1..PageCount : page[d - 1] \in Scanned}
  BY <1>1
<1>4. IsFiniteSet(S) /\ S \subseteq Int
  <2>1. IsFiniteSet(1..PageCount) /\ S \in SUBSET (1..PageCount) /\ 1..PageCount \subseteq Int
    BY <1>3, PageFacts, FS_Interval
  <2> HIDE DEF S
  <2> QED BY <2>1, FS_Subset
<1> HIDE DEF S
<1>5. /\ m \in Nat /\ DOMAIN at = 1..m
      /\ \A n \in 1..m : at[n] \in S
      /\ \A x \in S : Rank(S, x) \in 1..m /\ at[Rank(S, x)] = x
      /\ \A i, j \in 1..m : i < j => at[i] < at[j]
  BY <1>4, AscendingFacts
<1> HIDE DEF at, m
<1>6. /\ DOMAIN pages' = 1..PageCount
      /\ \A p \in PageNumbers : pages'[p + 1] = IF page[p] \in {"native", "blank"} THEN OwnContainer(p) ELSE NoContainer
  <2>1. DOMAIN pages' = 1..PageCount
    BY <1>1, <1>2
  <2>2. ASSUME NEW p \in PageNumbers
        PROVE  pages'[p + 1] = IF page[p] \in {"native", "blank"} THEN OwnContainer(p) ELSE NoContainer
    <3> DEFINE i == p + 1
    <3>1. i \in 1..PageCount /\ i - 1 = p
      BY PageFacts
    <3>2. i \in DOMAIN D /\ D[i] = p
      BY <1>1, <3>1
    <3> HIDE DEF i
    <3>3. pages'[i] = IF \E d \in DOMAIN D : D[d] = p /\ page[p] \in {"native", "blank"}
                      THEN [from |-> p, by |-> page[p]] ELSE NoContainer
      BY <1>1, <1>2, <3>1
    <3> QED BY <3>2, <3>3 DEF OwnContainer, i
  <2> QED BY <2>1, <2>2
<1>7. \A p \in PageNumbers : page[p] \in {"native", "blank"} \/ page[p] \in Scanned
  BY DEF Kinds, Scanned
<1>8. Held' = OwnPages
  <2>1. ASSUME NEW p \in PageNumbers PROVE pages'[p + 1] # NoContainer <=> page[p] \in {"native", "blank"}
    BY <1>6, <1>7, ContainersDiffer
  <2> QED BY <2>1 DEF Held, OwnPages
<1>9. PagesInv'
  <2>1. ASSUME NEW p \in PageNumbers
        PROVE  /\ page[p] # "unscannable"
               /\ page[p] \in {"native", "blank"} => pages'[p + 1] = OwnContainer(p)
               /\ page[p] \in Scanned => pages'[p + 1] = NoContainer /\ p \notin OwnPages
    BY <1>6 DEF Scanned, OwnPages
  <2> QED BY <1>6, <1>8, <2>1 DEF PagesInv, OwnContainer, TextContainer
<1>10. \A n \in 1..m : at[n] \in 1..PageCount /\ page[at[n] - 1] \in Scanned
  BY <1>3, <1>5
<1>11. \A n \in 1..m : rest'[n] = at[n] - 1
  BY <1>1, <1>2, <1>5, <1>10
<1>12. rest' \in Seq(PageNumbers) /\ Len(rest') = m
  <2>1. \A n \in 1..m : rest'[n] \in PageNumbers
    BY <1>10, <1>11, PageFacts
  <2>2. rest' = [n \in 1..m |-> rest'[n]]
    BY <1>2, <1>5
  <2> QED BY <1>5, <2>1, <2>2
<1>13. Ascends(rest')
  <2> SUFFICES ASSUME NEW i \in 1..m, NEW j \in 1..m, i < j PROVE rest'[i] < rest'[j]
    BY <1>12 DEF Ascends
  <2> DEFINE a == at[i]
             b == at[j]
  <2>1. a \in Int /\ b \in Int /\ a < b /\ rest'[i] = a - 1 /\ rest'[j] = b - 1
    BY <1>5, <1>10, <1>11
  <2> HIDE DEF a, b
  <2> QED BY <2>1
<1>14. Elements(rest') = OcrPages
  <2>1. ASSUME NEW n \in 1..m PROVE rest'[n] \in OcrPages
    BY <1>10, <1>11, PageFacts DEF OcrPages
  <2>2. ASSUME NEW p \in OcrPages PROVE \E n \in 1..m : rest'[n] = p
    <3>1. p + 1 \in S /\ (p + 1) - 1 = p
      BY <1>3, PageFacts DEF OcrPages
    <3> QED BY <1>5, <1>11, <3>1
  <2> QED BY <1>12, <2>1, <2>2 DEF Elements
<1>15. QueueInv'
  <2>1. pending' = <<>> /\ pending' \in Seq(PageNumbers) /\ Elements(pending') = {}
    BY DEF Elements
  <2>2. pending' \o rest' = rest'
    BY <1>12, <2>1, ConcatEmptySeq
  <2>3. (OcrPages \ Held)' = OcrPages
    BY <1>8 DEF OcrPages, OwnPages, Scanned
  <2> QED BY <1>12, <1>13, <1>14, <2>1, <2>2, <2>3 DEF QueueInv
<1>16. ASSUME rest' = <<>> PROVE BadPages' = {} /\ Held' = PageNumbers
  <2>1. OcrPages = {}
    <3>1. Elements(<<>>) = {}
      BY DEF Elements
    <3> QED BY <1>14, <1>16, <3>1
  <2>2. \A p \in PageNumbers : page[p] \in {"native", "blank"}
    BY <1>7, <2>1 DEF OcrPages
  <2> QED BY <1>8, <2>2 DEF BadPages, OwnPages
<1>17. phase' = "join" => outcome' = "ok" /\ BadPages' = {} /\ Held' = PageNumbers
  BY <1>2, <1>16
<1>18. phase' = "submit" => outcome' = "running"
  BY <1>2
<1>19. phase' \in {"submit", "join"}
  BY <1>2
<1> QED
  BY <1>8, <1>9, <1>15, <1>17, <1>18, <1>19 DEF StageInv, Phases

-----------------------------------------------------------------------------
(* The refinement mapping, given the invariant: a page is completed when its *)
(* container is there, and the text in it is its own.                        *)
Routed(pg, ps) ==
  /\ DOMAIN ps = 1..PageCount
  /\ \A p \in PageNumbers :
       /\ pg[p] \in {"native", "blank"} => ps[p + 1] = [from |-> p, by |-> pg[p]]
       /\ pg[p] \in Scanned => ps[p + 1] \in {NoContainer, [from |-> p, by |-> "image"]}
HeldIn(ps) == {p \in PageNumbers : ps[p + 1] # NoContainer}
TextsIn(pg, ps) ==
  {<<i - 1, ps[i].from>> :
     i \in {j \in DOMAIN ps : ps[j].by = IF pg[j - 1] \in Scanned THEN "image" ELSE pg[j - 1]}}

LEMMA TextsOf ==
  ASSUME NEW pg \in [PageNumbers -> Kinds], NEW ps, Routed(pg, ps), \A p \in PageNumbers : pg[p] # "unscannable"
  PROVE  TextsIn(pg, ps) = {<<p, p>> : p \in HeldIn(ps)}
<1> USE DEF Routed
<1> DEFINE Fits(j) == ps[j].by = IF pg[j - 1] \in Scanned THEN "image" ELSE pg[j - 1]
<1>1. ASSUME NEW p \in PageNumbers
      PROVE  Fits(p + 1) <=> ps[p + 1] # NoContainer
  <2>1. (p + 1) - 1 = p
    BY PageFacts
  <2>2. NoContainer.by = "nothing" /\ [from |-> p, by |-> pg[p]].by = pg[p] /\ [from |-> p, by |-> "image"].by = "image"
    BY DEF NoContainer
  <2>3. (pg[p] \in {"native", "blank"} /\ pg[p] \notin Scanned) \/ pg[p] \in Scanned
    BY DEF Kinds, Scanned
  <2>4. CASE pg[p] \in {"native", "blank"} /\ pg[p] \notin Scanned
    <3>1. ps[p + 1].by = pg[p] /\ ps[p + 1].by # "nothing"
      BY <2>2, <2>4
    <3> QED BY <2>1, <2>2, <2>4, <3>1
  <2>5. CASE pg[p] \in Scanned
    <3>1. CASE ps[p + 1] = NoContainer
      <4>1. ps[p + 1].by = "nothing"
        BY <2>2, <3>1
      <4> QED BY <2>1, <2>5, <3>1, <4>1
    <3>2. CASE ps[p + 1] = [from |-> p, by |-> "image"]
      <4>1. ps[p + 1].by = "image" /\ ps[p + 1].by # "nothing"
        BY <2>2, <3>2
      <4> QED BY <2>1, <2>2, <2>5, <4>1
    <3> QED BY <2>5, <3>1, <3>2
  <2> QED BY <2>3, <2>4, <2>5
<1>2. ASSUME NEW p \in PageNumbers, ps[p + 1] # NoContainer
      PROVE  ps[p + 1].from = p
  <2>1. pg[p] \in {"native", "blank"} \/ pg[p] \in Scanned
    BY DEF Kinds, Scanned
  <2>2. \E r \in {[from |-> p, by |-> pg[p]], [from |-> p, by |-> "image"]} : ps[p + 1] = r
    BY <1>2, <2>1
  <2>3. [from |-> p, by |-> pg[p]].from = p /\ [from |-> p, by |-> "image"].from = p
    OBVIOUS
  <2> QED BY <2>2, <2>3
<1> HIDE DEF Fits
<1> DEFINE A == {<<i - 1, ps[i].from>> : i \in {j \in DOMAIN ps : Fits(j)}}
           B == {<<p, p>> : p \in HeldIn(ps)}
<1>3. ASSUME NEW i \in DOMAIN ps, Fits(i) PROVE <<i - 1, ps[i].from>> \in B
  <2> DEFINE p == i - 1
  <2>1. p \in PageNumbers /\ p + 1 = i
    BY PageFacts
  <2> HIDE DEF p
  <2>2. ps[p + 1] # NoContainer /\ ps[p + 1].from = p
    BY <1>1, <1>2, <1>3, <2>1
  <2>3. <<p, ps[i].from>> \in B
    BY <2>1, <2>2 DEF HeldIn
  <2> QED BY <2>3 DEF p
<1>4. ASSUME NEW p \in PageNumbers, ps[p + 1] # NoContainer PROVE <<p, p>> \in A
  <2> DEFINE i == p + 1
  <2>1. i \in DOMAIN ps /\ i - 1 = p
    BY PageFacts
  <2>2. Fits(i) /\ ps[i].from = p
    BY <1>1, <1>2, <1>4
  <2> HIDE DEF i
  <2> QED BY <2>1, <2>2
<1>5. A = B
  BY <1>3, <1>4 DEF HeldIn
<1>6. A = TextsIn(pg, ps)
  BY DEF Fits, TextsIn
<1> QED
  BY <1>5, <1>6

LEMMA TextsAre ==
  ASSUME page \in [PageNumbers -> Kinds], PagesInv
  PROVE  Texts = {<<p, p>> : p \in Held}
<1>1. Routed(page, pages) /\ \A p \in PageNumbers : page[p] # "unscannable"
  BY DEF PagesInv, OwnContainer, TextContainer, Routed
<1>2. Texts = TextsIn(page, pages)
  BY DEF Texts, TextsIn
<1>3. Held = HeldIn(pages)
  BY DEF Held, HeldIn
<1> QED
  BY <1>1, <1>2, <1>3, TextsOf

LEMMA TextsWillBe ==
  ASSUME page' \in [PageNumbers -> Kinds], PagesInv'
  PROVE  Texts' = {<<p, p>> : p \in Held'}
<1>1. Routed(page', pages') /\ \A p \in PageNumbers : page'[p] # "unscannable"
  BY DEF PagesInv, OwnContainer, TextContainer, Routed
<1>2. Texts' = TextsIn(page', pages')
  BY DEF Texts, TextsIn
<1>3. Held' = HeldIn(pages')
  BY DEF Held, HeldIn
<1> QED
  BY <1>1, <1>2, <1>3, TextsOf

LEMMA CompletedAre ==
  ASSUME page \in [PageNumbers -> Kinds], PagesInv
  PROVE  O!Completed = Held
<1>1. O!Completed = {t[1] : t \in {<<p, p>> : p \in Held}}
  BY TextsAre DEF O!Completed
<1>2. \A p \in Held : <<p, p>>[1] = p
  OBVIOUS
<1>3. \A t \in {<<p, p>> : p \in Held} : t[1] \in Held
  BY <1>2
<1>4. \A p \in Held : \E t \in {<<r, r>> : r \in Held} : t[1] = p
  BY <1>2
<1> QED
  BY <1>1, <1>3, <1>4

LEMMA DocumentStays ==
  ASSUME UNCHANGED page
  PROVE  UNCHANGED <<OwnPages, OcrPages, BadPages>>
BY DEF OwnPages, OcrPages, BadPages, Scanned

-----------------------------------------------------------------------------
(* The invariant and the refinement, one lemma for each group of steps.      *)

(* The scanners, and the threads of the executor, complete no page.          *)
LEMMA PoolStepRefines ==
  ASSUME ResultInv, PoolStep
  PROVE  ResultInv' /\ UNCHANGED O!pageVars
<1>1. PICK k \in DOMAIN batch : ScanRange(k)
  BY DEF PoolStep
<1>2. UNCHANGED <<page, phase, rest, pending, job, pages, outcome>>
  BY <1>1 DEF ScanRange
<1>3. BatchInv'
  BY <1>1, <1>2 DEF ResultInv, BatchInv, ScanRange
<1>4. StageInv'
  BY <1>2 DEF ResultInv, StageInv, PagesInv, QueueInv, Held, OwnContainer, OcrPages, BadPages
<1> QED
  BY <1>2, <1>3, <1>4 DEF ResultInv, FutureInv, O!pageVars, OwnPages, OcrPages, BadPages, Texts, Ending

LEMMA JobStepRefines ==
  ASSUME ResultInv, JobStep
  PROVE  ResultInv' /\ UNCHANGED O!pageVars
<1>1. PICK p \in PageNumbers : StartJob(p) \/ EndJob(p)
  BY DEF JobStep
<1>2. UNCHANGED <<page, phase, batch, rest, pending, pages, outcome>>
  BY <1>1 DEF StartJob, EndJob
<1>3. FutureInv'
  BY <1>1, <1>2 DEF ResultInv, FutureInv, JobStates, StartJob, EndJob
<1>4. StageInv' /\ BatchInv'
  BY <1>2 DEF ResultInv, StageInv, BatchInv, PagesInv, QueueInv, Held, OwnContainer, OcrPages, BadPages
<1> QED
  BY <1>2, <1>3, <1>4 DEF ResultInv, O!pageVars, OwnPages, OcrPages, BadPages, Texts, Ending

(* The end of the scan gives every page with a text of its own its           *)
(* container, or fails for a page that could not be scanned.                 *)
LEMMA ScanStepRefines ==
  ASSUME ResultInv, ScanEnds \/ ScanAlone
  PROVE  ResultInv' /\ (O!KeepOwn \/ O!Fail)
<1>1. /\ phase = "scan" /\ pages = <<>> /\ pending = <<>> /\ outcome = "running"
      /\ UNCHANGED <<page, batch, pending, job>>
  BY DEF ResultInv, StageInv, ScanEnds, ScanAlone
<1>2. \/ ScanFails /\ BadPages # {}
      \/ Route(FirstPages(PageCount)) /\ \A p \in PageNumbers : page[p] # "unscannable"
  <2>1. CASE ScanEnds
    <3>1. CASE \E k \in 0..(RangeCount - 1) : batch[k] = "failed"
      <4>1. PICK k \in 0..(RangeCount - 1) : batch[k] = "failed"
        BY <3>1
      <4>2. PICK i \in DOMAIN PagesOf(k) : page[PagesOf(k)[i]] = "unscannable"
        BY <4>1 DEF ResultInv, BatchInv
      <4>3. PagesOf(k)[i] \in BadPages
        BY <4>2, RangesHoldPages DEF BadPages
      <4> QED BY <2>1, <3>1, <4>3 DEF ScanEnds
    <3>2. CASE ~ \E k \in 0..(RangeCount - 1) : batch[k] = "failed"
      <4>1. Route(FirstPages(PageCount))
        BY <2>1, <3>2, DraftsAreAll DEF ScanEnds
      <4>2. \A k \in 0..(RangeCount - 1) : k \in 0..(ScanWorkers - 1)
        <5>1. PICK m \in 0..ScanWorkers : RangeCount = m
          BY RangesMeet
        <5> QED BY <5>1, RangesFit
      <4>3. \A k \in 0..(RangeCount - 1) : batch[k] = "done"
        BY <2>1, <3>2, <4>2 DEF ScanEnds, ResultInv, BatchInv
      <4>4. \A p \in PageNumbers : page[p] # "unscannable"
        BY <4>3, RangesHoldPages DEF ResultInv, BatchInv
      <4> QED BY <4>1, <4>4
    <3> QED BY <3>1, <3>2
  <2>2. CASE ScanAlone
    BY <2>2 DEF ScanAlone, FirstPages, BadPages
  <2> QED BY <2>1, <2>2
<1>3. CASE ScanFails /\ BadPages # {}
  <2>1. phase' = "ended" /\ outcome' = "failed" /\ UNCHANGED <<rest, pages>>
    BY <1>3 DEF ScanFails
  <2>2. ResultInv'
    BY <1>1, <2>1 DEF ResultInv, BatchInv, FutureInv, StageInv, Phases
  <2>3. Ending = "running" /\ Ending' = "failed" /\ Texts' = Texts
    BY <1>1, <2>1 DEF Ending, Texts
  <2> QED BY <1>1, <1>3, <2>2, <2>3, DocumentStays DEF O!Fail
<1>4. CASE Route(FirstPages(PageCount)) /\ \A p \in PageNumbers : page[p] # "unscannable"
  <2>1. StageInv' /\ PagesInv' /\ Held' = OwnPages /\ phase' \in {"submit", "join"}
    BY <1>1, <1>4, RouteGives DEF ResultInv
  <2>2. ResultInv'
    BY <1>1, <2>1 DEF ResultInv, BatchInv, FutureInv
  <2>3. Texts = {}
    BY <1>1 DEF Texts
  <2>4. Texts' = {<<p, p>> : p \in OwnPages}
    BY <2>1, <2>2, TextsWillBe DEF ResultInv
  <2>5. Ending = "running" /\ Ending' = "running"
    BY <1>1, <2>1 DEF Ending
  <2> QED BY <1>1, <2>2, <2>3, <2>4, <2>5, DocumentStays DEF O!KeepOwn
<1> QED
  BY <1>2, <1>3, <1>4

(* A page that enters the window leaves the queue as it was. *)
LEMMA SubmitStepRefines ==
  ASSUME ResultInv, Submit
  PROVE  ResultInv' /\ UNCHANGED O!pageVars
<1> DEFINE p == Head(rest)
<1>1. /\ phase = "submit" /\ rest # <<>> /\ page[p] # "unrasterizable"
      /\ rest' = Tail(rest) /\ pending' = Append(pending, p) /\ job' = [job EXCEPT ![p] = "queued"]
      /\ phase' \in {"resolve", "submit"}
      /\ UNCHANGED <<page, batch, pages, outcome>>
  BY DEF Submit
<1>2. /\ PagesInv /\ QueueInv /\ outcome = "running"
      /\ pending \in Seq(PageNumbers) /\ rest \in Seq(PageNumbers)
  BY <1>1 DEF ResultInv, StageInv, QueueInv
<1>3. /\ pending' \o rest' = pending \o rest
      /\ pending' \in Seq(PageNumbers) /\ rest' \in Seq(PageNumbers)
      /\ Elements(pending') = Elements(pending) \cup {p}
  BY <1>1, <1>2, SubmitKeepsQueue
<1> HIDE DEF p
<1>4. OcrPages' = OcrPages /\ Held' = Held
  BY <1>1 DEF OcrPages, Held
<1>5. QueueInv'
  BY <1>1, <1>2, <1>3, <1>4 DEF QueueInv
<1>6. PagesInv'
  BY <1>1, <1>2, <1>4 DEF PagesInv, OwnContainer
<1>7. FutureInv'
  BY <1>1 DEF ResultInv, FutureInv, JobStates
<1>8. ResultInv'
  BY <1>1, <1>2, <1>5, <1>6, <1>7 DEF ResultInv, StageInv, BatchInv, Phases
<1> QED
  BY <1>1, <1>8, DocumentStays DEF O!pageVars, Texts, Ending

(* The oldest page of the window is the first page without a text, and its   *)
(* future is that of its own image.                                          *)
LEMMA ResolveStepRefines ==
  ASSUME ResultInv, Resolve
  PROVE  ResultInv' /\ O!Recognize
<1> DEFINE p == Head(pending)
           q == pending \o rest
<1>1. /\ phase \in {"resolve", "drain"} /\ pending # <<>> /\ job[p] = "done"
      /\ pages' = [pages EXCEPT ![p + 1] = TextContainer(p)]
      /\ pending' = Tail(pending)
      /\ phase' = IF phase = "resolve" THEN "submit" ELSE "drain"
      /\ UNCHANGED <<page, batch, rest, job, outcome>>
  BY DEF Resolve, TextContainer
<1>2. /\ PagesInv /\ QueueInv /\ outcome = "running" /\ (phase = "drain" => rest = <<>>)
      /\ pending \in Seq(PageNumbers) /\ rest \in Seq(PageNumbers)
      /\ Ascends(q) /\ Elements(q) = OcrPages \ Held
      /\ \A r \in Elements(pending) : page[r] # "unrasterizable"
  BY <1>1 DEF ResultInv, StageInv, QueueInv
<1>3. /\ q \in Seq(PageNumbers) /\ q # <<>>
      /\ pending' \in Seq(PageNumbers)
      /\ pending' \o rest' = Tail(q) /\ p = Head(q)
      /\ p \in Elements(pending) /\ Elements(pending') \subseteq Elements(pending)
  BY <1>1, <1>2, ResolveTakesFirst
<1> HIDE DEF p, q
<1>4. q \in Seq(Nat)
  <2>1. PageNumbers \subseteq Nat
    BY PageFacts
  <2> QED BY <1>3, <2>1, SeqMonotonic
<1>5. /\ p \in OcrPages \ Held
      /\ \A x \in OcrPages \ Held : p <= x
      /\ Ascends(Tail(q)) /\ Elements(Tail(q)) = (OcrPages \ Held) \ {p}
  BY <1>2, <1>3, <1>4, TakeFirst
<1>6. p \in PageNumbers /\ page[p] = "image" /\ p \notin BadPages
  BY <1>1, <1>2, <1>3, <1>5 DEF OcrPages, BadPages, Scanned, ResultInv, FutureInv
<1>7. /\ DOMAIN pages' = DOMAIN pages
      /\ pages'[p + 1] = TextContainer(p)
      /\ \A r \in PageNumbers : r # p => pages'[r + 1] = pages[r + 1]
  <2>1. p + 1 \in DOMAIN pages /\ \A r \in PageNumbers : r # p => r + 1 # p + 1
    BY <1>2, <1>6, PageFacts DEF PagesInv
  <2> QED BY <1>1, <2>1
<1>8. Held' = Held \cup {p}
  <2>1. TextContainer(p) # NoContainer
    BY <1>6, ContainersDiffer DEF Scanned
  <2> QED BY <1>6, <1>7, <2>1 DEF Held
<1>9. PagesInv'
  <2>1. DOMAIN pages' = 1..PageCount
    BY <1>2, <1>7 DEF PagesInv
  <2>2. ASSUME NEW r \in PageNumbers
        PROVE  /\ page[r] # "unscannable"
               /\ page[r] \in {"native", "blank"} => pages'[r + 1] = OwnContainer(r)
               /\ page[r] \in Scanned => pages'[r + 1] \in {NoContainer, TextContainer(r)}
               /\ page[r] \in Scanned /\ r \in Held' => page[r] = "image"
    <3>1. CASE r = p
      BY <1>6, <1>7, <3>1
    <3>2. CASE r # p
      BY <1>2, <1>7, <1>8, <3>2 DEF PagesInv
    <3> QED BY <3>1, <3>2
  <2> QED BY <1>1, <2>1, <2>2 DEF PagesInv, OwnContainer, TextContainer
<1>10. OcrPages' = OcrPages /\ OcrPages \ Held' = (OcrPages \ Held) \ {p}
  BY <1>1, <1>8 DEF OcrPages
<1>11. QueueInv'
  BY <1>1, <1>2, <1>3, <1>5, <1>10 DEF QueueInv
<1>12. ResultInv'
  BY <1>1, <1>2, <1>9, <1>11 DEF ResultInv, StageInv, BatchInv, FutureInv, Phases
<1>13. O!Completed = Held /\ Texts = {<<r, r>> : r \in Held} /\ Texts' = {<<r, r>> : r \in Held'}
  BY <1>2, <1>9, <1>12, CompletedAre, TextsAre, TextsWillBe DEF ResultInv
<1>14. Texts' = Texts \cup {<<p, p>>}
  BY <1>8, <1>13
<1>15. Ending = "running" /\ Ending' = "running"
  BY <1>1 DEF Ending
<1> QED
  BY <1>1, <1>5, <1>6, <1>12, <1>13, <1>14, <1>15, DocumentStays DEF O!Recognize

(* The window closes: after the last page, when every page has its text, or  *)
(* early, for a page that cannot be processed.                               *)
LEMMA CloseStepRefines ==
  ASSUME ResultInv, Drain \/ Drained \/ RasterizeFails \/ ResolveRaises
  PROVE  ResultInv' /\ UNCHANGED O!pageVars
<1>1. /\ phase \in {"submit", "resolve", "drain"} /\ phase' \in {"drain", "join"}
      /\ UNCHANGED <<page, batch, rest, pending, pages>>
  BY DEF Drain, Drained, RasterizeFails, ResolveRaises, Shutdown
<1>2. /\ PagesInv /\ QueueInv /\ outcome = "running" /\ (phase = "drain" => rest = <<>>)
      /\ pending \in Seq(PageNumbers) /\ rest \in Seq(PageNumbers)
  BY <1>1 DEF ResultInv, StageInv, QueueInv
<1>3. UNCHANGED O!pageVars
  BY <1>1, DocumentStays DEF O!pageVars, Texts, Ending
<1>4. PagesInv' /\ BatchInv' /\ Held' = Held /\ BadPages' = BadPages
  BY <1>1, <1>2 DEF ResultInv, PagesInv, BatchInv, Held, OwnContainer, BadPages
<1>5. CASE Drain
  <2>1. phase' = "drain" /\ rest = <<>> /\ UNCHANGED <<job, outcome>>
    BY <1>5 DEF Drain
  <2>2. QueueInv'
    BY <1>1, <1>2, <1>4 DEF QueueInv, OcrPages
  <2> QED
    BY <1>1, <1>2, <1>3, <1>4, <2>1, <2>2 DEF ResultInv, FutureInv, StageInv, Phases
<1>6. CASE Drained \/ RasterizeFails \/ ResolveRaises
  <2>1. phase' = "join" /\ job' = Cancelled /\ outcome' = IF Drained THEN "ok" ELSE "failed"
    BY <1>1, <1>2, <1>6 DEF Drained, RasterizeFails, ResolveRaises, Shutdown
  <2>2. FutureInv'
    BY <1>1, <2>1 DEF ResultInv, FutureInv, JobStates, Cancelled
  <2>3. CASE Drained
    <3>1. pending = <<>> /\ rest = <<>>
      BY <1>2, <2>3 DEF Drained
    <3>2. Elements(pending \o rest) = {}
      <4>1. pending \o rest = <<>>
        BY <1>2, <3>1, ConcatEmptySeq
      <4> QED BY <4>1 DEF Elements
    <3>3. OcrPages \subseteq Held
      BY <1>2, <3>2 DEF QueueInv
    <3>4. ASSUME NEW p \in PageNumbers PROVE p \in Held /\ page[p] \in {"native", "blank", "image"}
      <4>1. page[p] \in {"native", "blank"} \/ page[p] \in Scanned
        BY <1>2 DEF ResultInv, Kinds, Scanned, PagesInv
      <4>2. CASE page[p] \in Scanned
        BY <1>2, <3>3, <4>2 DEF OcrPages, PagesInv
      <4>3. CASE page[p] \in {"native", "blank"}
        BY <1>2, <4>3, ContainersDiffer DEF PagesInv, Held
      <4> QED BY <4>1, <4>2, <4>3
    <3>5. BadPages = {} /\ Held = PageNumbers
      BY <3>4 DEF BadPages, Held
    <3> QED
      BY <1>1, <1>3, <1>4, <2>1, <2>2, <2>3, <3>5 DEF ResultInv, StageInv, Phases
  <2>4. CASE ~Drained
    <3>1. BadPages # {}
      <4>1. CASE RasterizeFails
        <5>1. Head(rest) \in PageNumbers /\ page[Head(rest)] = "unrasterizable"
          BY <1>2, <4>1 DEF RasterizeFails
        <5> QED BY <5>1 DEF BadPages
      <4>2. CASE ResolveRaises
        <5>1. Head(pending) \in PageNumbers /\ job[Head(pending)] = "failed"
          BY <1>2, <4>2 DEF ResolveRaises
        <5> QED BY <5>1 DEF BadPages, ResultInv, FutureInv
      <4> QED BY <1>6, <2>4, <4>1, <4>2
    <3> QED
      BY <1>1, <1>3, <1>4, <2>1, <2>2, <2>4, <3>1 DEF ResultInv, StageInv, Phases
  <2> QED BY <2>3, <2>4
<1> QED
  BY <1>5, <1>6

(* _completed_pages confirms what process() found. *)
LEMMA FinishStepRefines ==
  ASSUME ResultInv, Finish
  PROVE  ResultInv' /\ (O!Succeed \/ O!Fail)
<1>1. /\ phase = "join" /\ phase' = "ended"
      /\ outcome' = IF outcome = "ok" /\ \E i \in DOMAIN pages : pages[i] = NoContainer THEN "failed" ELSE outcome
      /\ UNCHANGED <<page, batch, rest, pending, job, pages>>
  BY DEF Finish
<1>2. /\ PagesInv
      /\ \/ outcome = "ok" /\ BadPages = {} /\ Held = PageNumbers
         \/ outcome = "failed" /\ BadPages # {}
  BY <1>1 DEF ResultInv, StageInv
<1>3. ResultInv'
  BY <1>1 DEF ResultInv, BatchInv, FutureInv, StageInv, Phases
<1>4. Ending = "running" /\ Ending' = outcome' /\ Texts' = Texts
  BY <1>1 DEF Ending, Texts
<1>5. CASE outcome = "ok" /\ BadPages = {} /\ Held = PageNumbers
  <2>1. \A i \in DOMAIN pages : pages[i] # NoContainer
    <3> SUFFICES ASSUME NEW i \in DOMAIN pages PROVE pages[i] # NoContainer
      OBVIOUS
    <3>1. i - 1 \in Held /\ (i - 1) + 1 = i
      BY <1>2, <1>5, PageFacts DEF PagesInv
    <3> QED BY <3>1 DEF Held
  <2>2. outcome' = "ok"
    BY <1>1, <1>5, <2>1
  <2>3. O!Completed = OwnPages \cup OcrPages
    <3>1. O!Completed = PageNumbers
      BY <1>2, <1>5, CompletedAre DEF ResultInv
    <3>2. OwnPages \cup OcrPages = PageNumbers
      BY <1>5 DEF BadPages, OwnPages, OcrPages, Scanned
    <3> QED BY <3>1, <3>2
  <2> QED BY <1>1, <1>3, <1>4, <1>5, <2>2, <2>3, DocumentStays DEF O!Succeed
<1>6. CASE outcome = "failed" /\ BadPages # {}
  BY <1>1, <1>3, <1>4, <1>6, DocumentStays DEF O!Fail
<1> QED
  BY <1>2, <1>5, <1>6

-----------------------------------------------------------------------------
LEMMA StepRefines ==
  ASSUME ResultInv, [Next]_vars
  PROVE  ResultInv' /\ [O!Next]_(O!pageVars)
<1>1. CASE UNCHANGED vars
  <2>1. ResultInv'
    BY <1>1 DEF vars, ResultInv, StageInv, BatchInv, FutureInv, PagesInv, QueueInv, Held, OwnContainer,
                TextContainer, OcrPages, BadPages
  <2>2. UNCHANGED O!pageVars
    BY <1>1, DocumentStays DEF vars, O!pageVars, Texts, Ending
  <2> QED BY <2>1, <2>2
<1>2. CASE ScanEnds \/ ScanAlone
  BY <1>2, ScanStepRefines DEF O!Next
<1>3. CASE Submit
  BY <1>3, SubmitStepRefines
<1>4. CASE Resolve
  BY <1>4, ResolveStepRefines DEF O!Next
<1>5. CASE Drain \/ Drained \/ RasterizeFails \/ ResolveRaises
  BY <1>5, CloseStepRefines
<1>6. CASE Finish
  BY <1>6, FinishStepRefines DEF O!Next
<1>7. CASE PoolStep
  BY <1>7, PoolStepRefines
<1>8. CASE JobStep
  BY <1>8, JobStepRefines
<1> QED
  BY <1>1, <1>2, <1>3, <1>4, <1>5, <1>6, <1>7, <1>8 DEF Next, ThreadStep

(* Every reachable state satisfies the invariant of the result: the pages    *)
(* without a container are exactly those of the queue, in document order,    *)
(* and every container holds what its own page was routed to.                *)
THEOREM ResultInductive == Spec => []ResultInv
<1>1. Init => ResultInv
  <2> SUFFICES ASSUME Init PROVE ResultInv
    OBVIOUS
  <2>1. BatchInv
    <3>1. PICK m \in 0..ScanWorkers : RangeCount = m
      BY RangesMeet
    <3>2. \A k \in 0..(RangeCount - 1) : k \in 0..(ScanWorkers - 1)
      BY <3>1, RangesFit
    <3> QED BY <3>2 DEF Init, BatchInv
  <2> QED
    BY <2>1 DEF Init, ResultInv, FutureInv, StageInv, JobStates, Phases
<1>2. ResultInv /\ [Next]_vars => ResultInv'
  BY StepRefines
<1> QED
  BY <1>1, <1>2, PTL DEF Spec

(* For every document, every number of scanners and every window, what       *)
(* PdfExtractor.extract does is what recognising page after page would do:   *)
(* each page gets its own text, in order, and the extraction succeeds        *)
(* exactly when no page failed.                                              *)
THEOREM OcrRefined == Spec => ImplementsPageOcr
<1>1. Init => O!Init
  <2> SUFFICES ASSUME Init PROVE O!Init
    OBVIOUS
  <2>1. OwnPages \subseteq Nat /\ OcrPages \subseteq Nat /\ BadPages \subseteq Nat
    BY PageFacts DEF OwnPages, OcrPages, BadPages
  <2>2. Texts = {} /\ Ending = "running"
    BY DEF Init, Texts, Ending
  <2> QED BY <2>1, <2>2 DEF O!Init
<1>2. ResultInv /\ [Next]_vars => [O!Next]_(O!pageVars)
  BY StepRefines
<1> QED
  BY <1>1, <1>2, ResultInductive, PTL DEF Spec, ImplementsPageOcr, O!Spec

-----------------------------------------------------------------------------
(* Whom the extracting thread waits for: a future of its window is never one *)
(* that was dropped, and a full window is not empty.                         *)
Unfinished == {"queued", "running", "done", "failed"}
WaitInv ==
  /\ ~InPool => \A k \in DOMAIN batch : batch[k] = "scanning"
  /\ phase \in {"submit", "resolve", "drain"} => \A p \in InWindow : job[p] \in Unfinished
  /\ phase = "resolve" => pending # <<>>

LEMMA WindowKept ==
  ASSUME ResultInv, WaitInv, Submit
  PROVE  WaitInv'
<1> DEFINE h == Head(rest)
<1>1. /\ phase = "submit" /\ rest # <<>> /\ pending' = Append(pending, h)
      /\ job' = [job EXCEPT ![h] = "queued"] /\ batch' = batch
  BY DEF Submit
<1>2. pending \in Seq(PageNumbers) /\ rest \in Seq(PageNumbers) /\ DOMAIN job = PageNumbers
  BY <1>1 DEF ResultInv, StageInv, QueueInv, FutureInv
<1>3. h \in PageNumbers
  BY <1>1, <1>2
<1> HIDE DEF h
<1>4. /\ pending' # <<>> /\ Len(pending') = Len(pending) + 1 /\ Len(pending) \in Nat
      /\ \A i \in 1..Len(pending) : pending'[i] = pending[i]
      /\ pending'[Len(pending) + 1] = h
  BY <1>1, <1>2, <1>3
<1>5. InWindow' \subseteq InWindow \cup {h}
  BY <1>4 DEF InWindow
<1>6. \A p \in InWindow : p \in PageNumbers
  BY <1>2 DEF InWindow
<1>7. \A p \in InWindow' : job'[p] \in Unfinished
  BY <1>1, <1>2, <1>3, <1>5, <1>6 DEF WaitInv, Unfinished
<1> QED
  BY <1>1, <1>4, <1>7 DEF WaitInv

LEMMA WaitStep ==
  ASSUME ResultInv, WaitInv, [Next]_vars
  PROVE  WaitInv'
<1>1. CASE UNCHANGED vars
  BY <1>1 DEF vars, WaitInv, InWindow
<1>2. CASE ScanEnds \/ ScanAlone
  <2>1. /\ phase = "scan" /\ phase' \in {"submit", "join", "ended"}
        /\ UNCHANGED <<batch, pending, job>>
    BY <1>2 DEF ScanEnds, ScanAlone, ScanFails, Route
  <2>2. InWindow' = {}
    BY <2>1 DEF ResultInv, StageInv, InWindow
  <2> QED BY <2>1, <2>2 DEF WaitInv
<1>3. CASE Submit
  BY <1>3, WindowKept
<1>4. CASE Resolve
  <2>1. /\ phase \in {"resolve", "drain"} /\ phase' \in {"submit", "drain"}
        /\ pending # <<>> /\ pending' = Tail(pending) /\ UNCHANGED <<batch, job>>
    BY <1>4 DEF Resolve
  <2>2. pending \in Seq(PageNumbers)
    BY <2>1 DEF ResultInv, StageInv, QueueInv
  <2>3. InWindow' \subseteq InWindow
    BY <2>1, <2>2 DEF InWindow
  <2> QED BY <2>1, <2>3 DEF WaitInv
<1>5. CASE Drain
  BY <1>5 DEF Drain, WaitInv, InWindow
<1>6. CASE Drained \/ RasterizeFails \/ ResolveRaises \/ Finish
  BY <1>6 DEF Drained, RasterizeFails, ResolveRaises, Shutdown, Finish, WaitInv
<1>7. CASE PoolStep
  BY <1>7 DEF PoolStep, ScanRange, WaitInv, InWindow
<1>8. CASE JobStep
  <2>1. PICK p \in PageNumbers : StartJob(p) \/ EndJob(p)
    BY <1>8 DEF JobStep
  <2>2. /\ UNCHANGED <<phase, batch, pending>> /\ DOMAIN job = PageNumbers
        /\ \E s \in Unfinished : job' = [job EXCEPT ![p] = s]
    BY <2>1 DEF StartJob, EndJob, Unfinished, ResultInv, FutureInv
  <2>3. InWindow' = InWindow
    BY <2>2 DEF InWindow
  <2>4. \A q \in PageNumbers : job[q] \in Unfinished => job'[q] \in Unfinished
    BY <2>2
  <2>5. phase \in {"submit", "resolve", "drain"} => InWindow \subseteq PageNumbers
    BY DEF ResultInv, StageInv, QueueInv, InWindow
  <2> QED BY <2>2, <2>3, <2>4, <2>5 DEF WaitInv
<1> QED
  BY <1>1, <1>2, <1>3, <1>4, <1>5, <1>6, <1>7, <1>8 DEF Next, ThreadStep

(* What the extracting thread waits for is never dropped.                    *)
THEOREM WaitsForTheLiving == Spec => []WaitInv
<1>1. Init => WaitInv
  BY DEF Init, WaitInv
<1>2. ResultInv /\ WaitInv /\ [Next]_vars => WaitInv'
  BY WaitStep
<1> QED
  BY <1>1, <1>2, ResultInductive, PTL DEF Spec

(* Scanners, executor and extracting thread never all wait: for every number *)
(* of pages, ranges and threads there is one that can go on until the end.   *)
THEOREM SomeoneAlwaysGoesOn == Spec => []SomeoneGoesOn
<1>1. ResultInv /\ WaitInv => SomeoneGoesOn
  <2> SUFFICES ASSUME ResultInv, WaitInv, phase # "ended", ~ThreadCanMove, ~PoolCanMove
               PROVE  JobCanMove
    BY DEF SomeoneGoesOn
  <2>1. phase \in {"scan", "resolve", "drain", "join"}
    BY DEF ResultInv, StageInv, Phases, ThreadCanMove
  <2>2. CASE phase = "scan"
    BY <2>2 DEF ThreadCanMove, PoolCanMove, WaitInv
  <2>3. CASE phase = "join"
    BY <2>3 DEF ThreadCanMove, JobCanMove
  <2>4. CASE phase \in {"resolve", "drain"}
    <3>1. pending # <<>> /\ pending \in Seq(PageNumbers)
      BY <2>4 DEF ThreadCanMove, WaitInv, ResultInv, StageInv, QueueInv
    <3> DEFINE p == Head(pending)
    <3>2. p \in PageNumbers /\ p \in InWindow
      BY <3>1 DEF InWindow
    <3>3. job[p] \in {"queued", "running"}
      BY <2>4, <3>1, <3>2 DEF ThreadCanMove, WaitInv, Unfinished
    <3> HIDE DEF p
    <3>4. CASE Running = {}
      <4>1. job[p] = "queued"
        BY <3>2, <3>3, <3>4 DEF Running
      <4>2. Cardinality(Running) < Concurrency
        BY <3>4, FS_EmptySet, ConcurrencyPositive
      <4> QED BY <3>2, <4>1, <4>2 DEF JobCanMove
    <3> QED BY <3>4 DEF JobCanMove
  <2> QED BY <2>1, <2>2, <2>3, <2>4
<1> QED
  BY <1>1, ResultInductive, WaitsForTheLiving, PTL

-----------------------------------------------------------------------------
(* The pages for OCR are at most all pages. *)
LEMMA RestFits ==
  ASSUME page \in [PageNumbers -> Kinds], Route(FirstPages(PageCount))
  PROVE  rest' \in Seq(PageNumbers) /\ Len(rest') <= PageCount
<1> DEFINE D == FirstPages(PageCount)
           S == {d \in DOMAIN D : page[D[d]] \in Scanned}
           at == Ascending(S)
<1>1. DOMAIN D = 1..PageCount /\ \A i \in 1..PageCount : D[i] \in PageNumbers
  BY PageFacts DEF FirstPages
<1>2. rest' = [n \in DOMAIN at |-> D[at[n]]]
  BY DEF Route
<1>3. IsFiniteSet(1..PageCount) /\ Cardinality(1..PageCount) = PageCount
  <2>1. /\ IsFiniteSet(1..PageCount)
        /\ Cardinality(1..PageCount) = IF 1 > PageCount THEN 0 ELSE PageCount - 1 + 1
    BY PageFacts, FS_Interval
  <2> QED BY <2>1, PageFacts
<1>4. S \in SUBSET (1..PageCount) /\ 1..PageCount \subseteq Int
  BY <1>1, PageFacts
<1> HIDE DEF D, S
<1>5. IsFiniteSet(S) /\ S \subseteq Int /\ Cardinality(S) <= PageCount
  BY <1>3, <1>4, FS_Subset
<1>6. /\ Cardinality(S) \in Nat /\ DOMAIN at = 1..Cardinality(S)
      /\ \A n \in 1..Cardinality(S) : at[n] \in S
  BY <1>5, AscendingFacts
<1> HIDE DEF at
<1>7. \A n \in 1..Cardinality(S) : D[at[n]] \in PageNumbers
  BY <1>1, <1>4, <1>6
<1>8. rest' \in Seq(PageNumbers) /\ Len(rest') = Cardinality(S)
  BY <1>2, <1>6, <1>7
<1> QED
  BY <1>5, <1>8

(* The scan's end routes all pages, or fails. *)
LEMMA ScanRoutes ==
  ASSUME ScanEnds \/ ScanAlone
  PROVE  ScanFails \/ Route(FirstPages(PageCount))
BY DraftsAreAll DEF ScanEnds, ScanAlone, FirstPages

LEMMA RoutedType ==
  ASSUME page \in [PageNumbers -> Kinds], Route(FirstPages(PageCount))
  PROVE  pages' \in Seq(Containers)
<1> DEFINE D == FirstPages(PageCount)
           c(i) == IF \E d \in DOMAIN D : D[d] = i - 1 /\ page[i - 1] \in {"native", "blank"}
                   THEN [from |-> i - 1, by |-> page[i - 1]] ELSE NoContainer
<1>1. Len(D) = PageCount
  BY PageFacts DEF FirstPages
<1>2. pages' = [i \in 1..PageCount |-> c(i)]
  BY <1>1 DEF Route
<1>3. ASSUME NEW i \in 1..PageCount PROVE c(i) \in Containers
  <2>1. i - 1 \in Nat
    BY PageFacts
  <2>2. NoContainer \in Containers
    BY DEF NoContainer, Containers
  <2>3. page[i - 1] \in {"native", "blank"} => [from |-> i - 1, by |-> page[i - 1]] \in Containers
    BY <2>1 DEF Containers
  <2> QED BY <2>2, <2>3
<1> HIDE DEF c
<1> QED
  BY <1>2, <1>3, PageFacts

LEMMA TypeStep ==
  ASSUME ResultInv, TypeOK, [Next]_vars
  PROVE  TypeOK'
<1>1. CASE UNCHANGED vars
  BY <1>1 DEF vars, TypeOK
<1>2. CASE ScanEnds \/ ScanAlone
  <2>1. UNCHANGED <<page, batch, pending, job>>
    BY <1>2 DEF ScanEnds, ScanAlone
  <2>2. CASE ScanFails
    BY <2>1, <2>2 DEF ScanFails, TypeOK, Phases, Outcomes
  <2>3. CASE Route(FirstPages(PageCount))
    <3>1. phase' \in Phases /\ outcome' \in Outcomes
      BY <2>3 DEF Route, TypeOK, Phases, Outcomes
    <3>2. rest' \in Seq(PageNumbers) /\ pages' \in Seq(Containers)
      BY <2>3, RestFits, RoutedType DEF TypeOK
    <3> QED BY <2>1, <3>1, <3>2 DEF TypeOK
  <2> QED BY <1>2, <2>2, <2>3, ScanRoutes
<1>3. CASE Submit
  <2>1. /\ rest # <<>> /\ rest' = Tail(rest) /\ pending' = Append(pending, Head(rest))
        /\ job' = [job EXCEPT ![Head(rest)] = "queued"]
        /\ phase' \in {"resolve", "submit"} /\ UNCHANGED <<page, batch, pages, outcome>>
    BY <1>3 DEF Submit
  <2>2. rest' \in Seq(PageNumbers) /\ pending' \in Seq(PageNumbers)
    BY <2>1 DEF TypeOK
  <2>3. job' \in [PageNumbers -> JobStates]
    BY <2>1 DEF TypeOK, JobStates
  <2> QED BY <2>1, <2>2, <2>3 DEF TypeOK, Phases
<1>4. CASE Resolve
  <2> DEFINE p == Head(pending)
  <2>1. /\ pending # <<>> /\ pending' = Tail(pending)
        /\ pages' = [pages EXCEPT ![p + 1] = [from |-> p, by |-> "image"]]
        /\ phase' \in {"submit", "drain"} /\ UNCHANGED <<page, batch, rest, job, outcome>>
    BY <1>4 DEF Resolve
  <2>2. p \in Nat /\ pending' \in Seq(PageNumbers)
    BY <2>1, PageFacts DEF TypeOK
  <2> HIDE DEF p
  <2>3. [from |-> p, by |-> "image"] \in Containers
    BY <2>2 DEF Containers
  <2>4. pages' \in Seq(Containers)
    <3>1. Len(pages) \in Nat /\ pages \in [1..Len(pages) -> Containers]
      BY DEF TypeOK
    <3>2. pages' \in [1..Len(pages) -> Containers]
      BY <2>1, <2>3, <3>1
    <3> QED BY <3>1, <3>2
  <2> QED BY <2>1, <2>2, <2>4 DEF TypeOK, Phases
<1>5. CASE Drain
  BY <1>5 DEF Drain, TypeOK, Phases
<1>6. CASE Drained \/ RasterizeFails \/ ResolveRaises
  <2>1. /\ phase' = "join" /\ job' = Cancelled /\ outcome' \in {"ok", "failed"}
        /\ UNCHANGED <<page, batch, rest, pending, pages>>
    BY <1>6 DEF Drained, RasterizeFails, ResolveRaises, Shutdown
  <2>2. job' \in [PageNumbers -> JobStates]
    BY <2>1 DEF Cancelled, TypeOK, JobStates
  <2> QED BY <2>1, <2>2 DEF TypeOK, Phases, Outcomes
<1>7. CASE Finish
  BY <1>7 DEF Finish, TypeOK, Phases, Outcomes
<1>8. CASE PoolStep
  BY <1>8 DEF PoolStep, ScanRange, TypeOK
<1>9. CASE JobStep
  BY <1>9 DEF JobStep, StartJob, EndJob, TypeOK, JobStates
<1> QED
  BY <1>1, <1>2, <1>3, <1>4, <1>5, <1>6, <1>7, <1>8, <1>9 DEF Next, ThreadStep

(* Every reachable state of an extraction is type correct. *)
THEOREM TypeCorrect == Spec => []TypeOK
<1>1. Init => TypeOK
  BY DEF Init, TypeOK, Phases, JobStates, Outcomes
<1>2. ResultInv /\ TypeOK /\ [Next]_vars => TypeOK'
  BY TypeStep
<1> QED
  BY <1>1, <1>2, ResultInductive, PTL DEF Spec

-----------------------------------------------------------------------------
(* The measure: its parts are numbers, in the next state as in this one.     *)
Measured ==
  /\ IsFiniteSet(Scanning) /\ IsFiniteSet(Queued) /\ IsFiniteSet(Running)
  /\ Cardinality(Scanning) \in Nat /\ Cardinality(Queued) \in Nat /\ Cardinality(Running) \in Nat
  /\ Len(rest) \in Nat /\ Len(pending) \in Nat /\ StagesAhead[phase] \in Nat

PagesWith(jb, s) == {p \in PageNumbers : jb[p] = s}
RangesOf(bt)     == {k \in DOMAIN bt : bt[k] = "scanning"}

LEMMA PagesAreFinite ==
  ASSUME NEW jb, NEW s
  PROVE  IsFiniteSet(PagesWith(jb, s)) /\ Cardinality(PagesWith(jb, s)) \in Nat
<1>1. IsFiniteSet(PageNumbers) /\ PagesWith(jb, s) \in SUBSET PageNumbers
  BY FS_Interval, ExtractionAssumption DEF PageNumbers, PagesWith
<1> QED
  BY <1>1, FS_Subset, FS_CardinalityType

LEMMA RangesAreFinite ==
  ASSUME NEW bt \in [0..(ScanWorkers - 1) -> {"scanning", "done", "failed"}]
  PROVE  IsFiniteSet(RangesOf(bt)) /\ Cardinality(RangesOf(bt)) \in Nat
<1>1. IsFiniteSet(0..(ScanWorkers - 1)) /\ RangesOf(bt) \in SUBSET (0..(ScanWorkers - 1))
  BY FS_Interval, ExtractionAssumption DEF RangesOf
<1> QED
  BY <1>1, FS_Subset, FS_CardinalityType

(* The stages, in their order. *)
LEMMA Stages ==
  /\ StagesAhead["scan"] = 4 * PageCount + 4
  /\ StagesAhead["submit"] = 3 /\ StagesAhead["resolve"] = 3 /\ StagesAhead["drain"] = 2
  /\ StagesAhead["join"] = 1 /\ StagesAhead["ended"] = 0
BY DEF StagesAhead

LEMMA StagesAreNumbers == \A f \in Phases : StagesAhead[f] \in Nat
BY Stages, ExtractionAssumption DEF Phases

LEMMA BothMeasured ==
  ASSUME TypeOK, TypeOK'
  PROVE  Measured /\ Measured'
<1>1. /\ Queued = PagesWith(job, "queued") /\ Queued' = PagesWith(job', "queued")
      /\ Running = PagesWith(job, "running") /\ Running' = PagesWith(job', "running")
      /\ Scanning = RangesOf(batch) /\ Scanning' = RangesOf(batch')
  BY DEF Queued, Running, Scanning, PagesWith, RangesOf
<1>2. /\ IsFiniteSet(Scanning) /\ Cardinality(Scanning) \in Nat
      /\ IsFiniteSet(Scanning') /\ Cardinality(Scanning') \in Nat
  BY <1>1, RangesAreFinite DEF TypeOK
<1>3. /\ IsFiniteSet(Queued) /\ IsFiniteSet(Running) /\ Cardinality(Queued) \in Nat /\ Cardinality(Running) \in Nat
      /\ IsFiniteSet(Queued') /\ IsFiniteSet(Running') /\ Cardinality(Queued') \in Nat /\ Cardinality(Running') \in Nat
  BY <1>1, PagesAreFinite
<1>4. /\ Len(rest) \in Nat /\ Len(pending) \in Nat /\ StagesAhead[phase] \in Nat
      /\ Len(rest') \in Nat /\ Len(pending') \in Nat /\ StagesAhead[phase'] \in Nat
  BY StagesAreNumbers DEF TypeOK
<1> QED
  BY <1>2, <1>3, <1>4 DEF Measured

Weight(c, r, n, q, u, s) == c + 4 * r + n + 2 * q + u + s

LEMMA LeftWeighs ==
  /\ Left = Weight(Cardinality(Scanning), Len(rest), Len(pending), Cardinality(Queued),
                   Cardinality(Running), StagesAhead[phase])
  /\ Left' = Weight(Cardinality(Scanning)', Len(rest)', Len(pending)', Cardinality(Queued)',
                    Cardinality(Running)', StagesAhead[phase]')
BY DEF Left, Weight

(* The ways in which a step leaves less: of one thing, with no more of       *)
(* another; a job that runs in the place of one that waits; a future and a   *)
(* job in the place of a page; or pages to recognise in that of a scan.      *)
LEMMA RangeLess ==
  ASSUME NEW c \in Nat, NEW r \in Nat, NEW n \in Nat, NEW q \in Nat, NEW u \in Nat, NEW s \in Nat,
         NEW c2 \in Nat, c2 < c
  PROVE  Weight(c2, r, n, q, u, s) < Weight(c, r, n, q, u, s)
BY DEF Weight

LEMMA JobLess ==
  ASSUME NEW c \in Nat, NEW r \in Nat, NEW n \in Nat, NEW q \in Nat, NEW u \in Nat, NEW s \in Nat,
         NEW u2 \in Nat, u2 < u
  PROVE  Weight(c, r, n, q, u2, s) < Weight(c, r, n, q, u, s)
BY DEF Weight

LEMMA FutureLess ==
  ASSUME NEW c \in Nat, NEW r \in Nat, NEW n \in Nat, NEW q \in Nat, NEW u \in Nat, NEW s \in Nat,
         NEW n2 \in Nat, NEW s2 \in Nat, n2 <= n, s2 <= s, n2 < n \/ s2 < s
  PROVE  Weight(c, r, n2, q, u, s2) < Weight(c, r, n, q, u, s)
BY DEF Weight

LEMMA StageLess ==
  ASSUME NEW c \in Nat, NEW r \in Nat, NEW n \in Nat, NEW q \in Nat, NEW u \in Nat, NEW s \in Nat,
         NEW q2 \in Nat, NEW s2 \in Nat, q2 <= q, s2 < s
  PROVE  Weight(c, r, n, q2, u, s2) < Weight(c, r, n, q, u, s)
BY DEF Weight

LEMMA RunsNow ==
  ASSUME NEW c \in Nat, NEW r \in Nat, NEW n \in Nat, NEW q \in Nat, NEW u \in Nat, NEW s \in Nat
  PROVE  Weight(c, r, n, q - 1, u + 1, s) < Weight(c, r, n, q, u, s)
BY DEF Weight

LEMMA WaitsNow ==
  ASSUME NEW c \in Nat, NEW r \in Nat, NEW n \in Nat, NEW q \in Nat, NEW u \in Nat, NEW s \in Nat,
         NEW q2 \in Nat, NEW u2 \in Nat, q2 <= q + 1, u2 <= u
  PROVE  Weight(c, r - 1, n + 1, q2, u2, s) < Weight(c, r, n, q, u, s)
BY DEF Weight

LEMMA ScannedNow ==
  ASSUME NEW c \in Nat, NEW r \in Nat, NEW n \in Nat, NEW q \in Nat, NEW u \in Nat,
         NEW r2 \in Nat, NEW m \in Nat, NEW s2 \in 0..3, r2 <= m \/ (r2 = r /\ s2 = 0)
  PROVE  Weight(c, r2, n, q, u, s2) < Weight(c, r, n, q, u, 4 * m + 4)
BY DEF Weight

(* A range that was scanned. *)
LEMMA PoolUsesUp ==
  ASSUME TypeOK, TypeOK', PoolStep
  PROVE  Left' < Left
<1>1. PICK k \in DOMAIN batch : ScanRange(k)
  BY DEF PoolStep
<1>2. /\ batch[k] = "scanning" /\ UNCHANGED <<phase, rest, pending, job>>
      /\ \E s \in {"failed", "done"} : batch' = [batch EXCEPT ![k] = s]
  BY <1>1 DEF ScanRange
<1>3. k \in Scanning /\ Scanning' = Scanning \ {k}
  BY <1>2 DEF Scanning, TypeOK
<1>4. /\ Queued' = Queued /\ Running' = Running /\ Len(rest)' = Len(rest)
      /\ Len(pending)' = Len(pending) /\ StagesAhead[phase]' = StagesAhead[phase]
  BY <1>2 DEF Queued, Running
<1>5. Measured /\ Measured'
  BY BothMeasured
<1>6. Cardinality(Scanning') = Cardinality(Scanning) - 1
  BY <1>3, <1>5, FS_RemoveElement DEF Measured
<1>7. Cardinality(Scanning') < Cardinality(Scanning)
  BY <1>5, <1>6 DEF Measured
<1>8. Weight(Cardinality(Scanning'), Len(rest), Len(pending), Cardinality(Queued), Cardinality(Running), StagesAhead[phase])
        < Weight(Cardinality(Scanning), Len(rest), Len(pending), Cardinality(Queued), Cardinality(Running), StagesAhead[phase])
  BY ONLY <1>5, <1>7, RangeLess DEF Measured
<1> QED
  BY ONLY <1>4, <1>8, LeftWeighs

(* A job that was started, or ended. *)
LEMMA JobUsesUp ==
  ASSUME TypeOK, TypeOK', JobStep
  PROVE  Left' < Left
<1>1. PICK p \in PageNumbers : StartJob(p) \/ EndJob(p)
  BY DEF JobStep
<1>2. /\ Scanning' = Scanning /\ Len(rest)' = Len(rest) /\ Len(pending)' = Len(pending)
      /\ StagesAhead[phase]' = StagesAhead[phase]
  BY <1>1 DEF StartJob, EndJob, Scanning
<1>3. Measured /\ Measured'
  BY BothMeasured
<1>4. CASE StartJob(p)
  <2>1. p \in Queued /\ Queued' = Queued \ {p} /\ p \notin Running /\ Running' = Running \cup {p}
    BY <1>4 DEF StartJob, Queued, Running, TypeOK
  <2>2. Cardinality(Queued') = Cardinality(Queued) - 1 /\ Cardinality(Running') = Cardinality(Running) + 1
    BY <1>3, <2>1, FS_RemoveElement, FS_AddElement DEF Measured
  <2>3. Weight(Cardinality(Scanning), Len(rest), Len(pending), Cardinality(Queued) - 1, Cardinality(Running) + 1, StagesAhead[phase])
          < Weight(Cardinality(Scanning), Len(rest), Len(pending), Cardinality(Queued), Cardinality(Running), StagesAhead[phase])
    BY ONLY <1>3, RunsNow DEF Measured
  <2> QED BY ONLY <1>2, <2>2, <2>3, LeftWeighs
<1>5. CASE EndJob(p)
  <2>1. Queued' = Queued /\ p \in Running /\ Running' = Running \ {p}
    BY <1>5 DEF EndJob, Queued, Running, TypeOK
  <2>2. Cardinality(Running') = Cardinality(Running) - 1
    BY <1>3, <2>1, FS_RemoveElement DEF Measured
  <2>3. Cardinality(Running') < Cardinality(Running)
    BY <1>3, <2>2 DEF Measured
  <2>4. Weight(Cardinality(Scanning), Len(rest), Len(pending), Cardinality(Queued), Cardinality(Running'), StagesAhead[phase])
          < Weight(Cardinality(Scanning), Len(rest), Len(pending), Cardinality(Queued), Cardinality(Running), StagesAhead[phase])
    BY ONLY <1>3, <2>3, JobLess DEF Measured
  <2> QED BY ONLY <1>2, <2>1, <2>4, LeftWeighs
<1> QED
  BY <1>1, <1>4, <1>5

(* A page that was rasterised: its future and its job are less than it was.  *)
LEMMA SubmitUsesUp ==
  ASSUME TypeOK, TypeOK', Submit
  PROVE  Left' < Left
<1> DEFINE h == Head(rest)
<1>1. /\ phase = "submit" /\ phase' \in {"submit", "resolve"} /\ batch' = batch
      /\ rest # <<>> /\ rest' = Tail(rest) /\ pending' = Append(pending, h)
      /\ job' = [job EXCEPT ![h] = "queued"]
  BY DEF Submit
<1> HIDE DEF h
<1>2. Measured /\ Measured'
  BY BothMeasured
<1>3. StagesAhead[phase]' = StagesAhead[phase] /\ Scanning' = Scanning
  BY <1>1, Stages DEF Scanning
<1>4. Len(rest)' = Len(rest) - 1 /\ Len(pending)' = Len(pending) + 1
  BY <1>1 DEF TypeOK
<1>5. Queued' \in SUBSET (Queued \cup {h}) /\ Running' \in SUBSET Running
  BY <1>1 DEF Queued, Running, TypeOK
<1>6. /\ IsFiniteSet(Queued \cup {h})
      /\ Cardinality(Queued \cup {h}) = IF h \in Queued THEN Cardinality(Queued) ELSE Cardinality(Queued) + 1
  BY <1>2, FS_AddElement DEF Measured
<1>7. /\ Cardinality(Queued') <= Cardinality(Queued \cup {h})
      /\ Cardinality(Running') <= Cardinality(Running)
  BY <1>2, <1>5, <1>6, FS_Subset DEF Measured
<1>8. Cardinality(Queued') <= Cardinality(Queued) + 1
  <2>1. Cardinality(Queued') \in Nat /\ Cardinality(Queued) \in Nat
    BY <1>2 DEF Measured
  <2> QED BY <1>6, <1>7, <2>1
<1>9. Weight(Cardinality(Scanning), Len(rest) - 1, Len(pending) + 1, Cardinality(Queued'), Cardinality(Running'), StagesAhead[phase])
        < Weight(Cardinality(Scanning), Len(rest), Len(pending), Cardinality(Queued), Cardinality(Running), StagesAhead[phase])
  BY ONLY <1>2, <1>7, <1>8, WaitsNow DEF Measured
<1> QED
  BY ONLY <1>3, <1>4, <1>9, LeftWeighs

(* A future that was resolved, or the end of the pages. *)
LEMMA ResolveUsesUp ==
  ASSUME TypeOK, TypeOK', Resolve \/ Drain
  PROVE  Left' < Left
<1>1. Scanning' = Scanning /\ Queued' = Queued /\ Running' = Running /\ Len(rest)' = Len(rest)
  BY DEF Resolve, Drain, Scanning, Queued, Running
<1>2. Measured /\ Measured'
  BY BothMeasured
<1> DEFINE s == StagesAhead[phase]
           s2 == StagesAhead[phase']
           l2 == Len(pending')
<1>3. l2 <= Len(pending) /\ s2 <= s /\ (l2 < Len(pending) \/ s2 < s)
  <2>1. CASE Resolve
    <3>1. /\ pending # <<>> /\ pending' = Tail(pending)
          /\ \/ phase = "resolve" /\ phase' = "submit"
             \/ phase = "drain" /\ phase' = "drain"
      BY <2>1 DEF Resolve
    <3>2. s2 = s
      BY <3>1, Stages
    <3>3. l2 = Len(pending) - 1
      BY <3>1 DEF TypeOK
    <3> QED BY <1>2, <3>2, <3>3 DEF Measured
  <2>2. CASE Drain
    <3>1. s = 3 /\ s2 = 2 /\ pending' = pending
      BY <2>2, Stages DEF Drain
    <3> QED BY <1>2, <3>1 DEF Measured
  <2> QED BY <2>1, <2>2
<1>4. l2 \in Nat /\ s2 \in Nat /\ s \in Nat
  BY <1>2 DEF Measured
<1> HIDE DEF s, s2, l2
<1>5. Weight(Cardinality(Scanning), Len(rest), l2, Cardinality(Queued), Cardinality(Running), s2)
        < Weight(Cardinality(Scanning), Len(rest), Len(pending), Cardinality(Queued), Cardinality(Running), s)
  BY ONLY <1>2, <1>3, <1>4, FutureLess DEF Measured
<1> QED
  BY ONLY <1>1, <1>5, LeftWeighs DEF s, s2, l2

(* The end of process(), which cancels what is queued, and of the join.      *)
LEMMA CloseUsesUp ==
  ASSUME TypeOK, TypeOK', Drained \/ RasterizeFails \/ ResolveRaises \/ Finish
  PROVE  Left' < Left
<1> DEFINE s == StagesAhead[phase]
           s2 == StagesAhead[phase']
           q2 == Cardinality(Queued')
<1>1. UNCHANGED <<batch, rest, pending>> /\ job' \in {job, Cancelled} /\ s2 < s
  BY Stages DEF Drained, RasterizeFails, ResolveRaises, Shutdown, Finish
<1>2. Measured /\ Measured'
  BY BothMeasured
<1>3. Scanning' = Scanning /\ Queued' \in SUBSET Queued /\ Running' = Running
  BY <1>1 DEF Scanning, Queued, Running, Cancelled
<1>4. q2 <= Cardinality(Queued)
  BY <1>2, <1>3, FS_Subset DEF Measured
<1>5. q2 \in Nat /\ s2 \in Nat /\ s \in Nat
  BY <1>2 DEF Measured
<1>6. Len(rest)' = Len(rest) /\ Len(pending)' = Len(pending)
  BY <1>1
<1> HIDE DEF s, s2, q2
<1>7. Weight(Cardinality(Scanning), Len(rest), Len(pending), q2, Cardinality(Running), s2)
        < Weight(Cardinality(Scanning), Len(rest), Len(pending), Cardinality(Queued), Cardinality(Running), s)
  BY ONLY <1>1, <1>2, <1>4, <1>5, StageLess DEF Measured
<1> QED
  BY ONLY <1>3, <1>6, <1>7, LeftWeighs DEF s, s2, q2

(* The end of the scan finds at most all pages to recognise. *)
LEMMA ScanUsesUp ==
  ASSUME TypeOK, TypeOK', ScanEnds \/ ScanAlone
  PROVE  Left' < Left
<1> DEFINE s2 == StagesAhead[phase']
           r2 == Len(rest')
<1>1. phase = "scan" /\ UNCHANGED <<page, batch, pending, job>>
  BY DEF ScanEnds, ScanAlone
<1>2. /\ Scanning' = Scanning /\ Queued' = Queued /\ Running' = Running
      /\ Len(pending)' = Len(pending) /\ StagesAhead[phase] = 4 * PageCount + 4
  BY <1>1, Stages DEF Scanning, Queued, Running
<1>3. Measured /\ Measured' /\ PageCount \in Nat
  BY BothMeasured, ExtractionAssumption
<1>4. s2 \in 0..3 /\ (r2 <= PageCount \/ (r2 = Len(rest) /\ s2 = 0))
  <2>1. CASE ScanFails
    BY <2>1, Stages DEF ScanFails
  <2>2. CASE Route(FirstPages(PageCount))
    <3>1. phase' \in {"join", "submit"}
      BY <2>2 DEF Route
    <3>2. r2 <= PageCount
      BY <2>2, RestFits DEF TypeOK
    <3> QED BY <3>1, <3>2, Stages
  <2> QED BY <2>1, <2>2, ScanRoutes
<1>5. r2 \in Nat
  BY <1>3 DEF Measured
<1> HIDE DEF s2, r2
<1>6. Weight(Cardinality(Scanning), r2, Len(pending), Cardinality(Queued), Cardinality(Running), s2)
        < Weight(Cardinality(Scanning), Len(rest), Len(pending), Cardinality(Queued), Cardinality(Running), 4 * PageCount + 4)
  BY ONLY <1>3, <1>4, <1>5, ScannedNow DEF Measured
<1> QED
  BY ONLY <1>2, <1>6, LeftWeighs DEF s2, r2

(* Every step of an extraction leaves less to do, so that it comes to its    *)
(* end in as many steps as its pages, its ranges and their jobs allow.       *)
THEOREM EveryStepUsesUp == Spec => StepsUseUp
<1>1. TypeOK /\ TypeOK' /\ [Next]_vars => [Left' < Left]_vars
  BY PoolUsesUp, JobUsesUp, SubmitUsesUp, ResolveUsesUp, CloseUsesUp, ScanUsesUp DEF Next, ThreadStep
<1> QED
  BY <1>1, TypeCorrect, PTL DEF Spec, StepsUseUp

(* Whatever fails, an extraction can go on until it has returned or raised,  *)
(* and it does not go on for ever.                                           *)
THEOREM WorkAlwaysGoesOn == Spec => WorkGoesOn
BY SomeoneAlwaysGoesOn, EveryStepUsesUp, PTL DEF StepsUseUp, WorkGoesOn
=============================================================================
