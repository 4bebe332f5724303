------------------------------ MODULE Ordering ------------------------------
(***************************************************************************)
(* Numbers in their order: what a loop over sorted numbers goes through.   *)
(***************************************************************************)
EXTENDS Naturals, FiniteSets

(* The numbers of a finite set, the smallest first. *)
Ascending(S) == [n \in 1..Cardinality(S) |-> CHOOSE x \in S : Cardinality({y \in S : y <= x}) = n]

(* A sequence of numbers sorted, equal ones in the order they came in. *)
Sorted(s) ==
  [n \in DOMAIN s |-> s[CHOOSE i \in DOMAIN s :
     Cardinality({j \in DOMAIN s : s[j] < s[i] \/ (s[j] = s[i] /\ j <= i)}) = n]]
=============================================================================
