-------------------------------- MODULE Lists ---------------------------------
(***************************************************************************)
(* Lists: the comprehensions and sorts of the code.                        *)
(***************************************************************************)
EXTENDS Integers, Sequences, FiniteSets

\* The elements at some of the places, in their order.
Kept(sequence, places) ==
  [n \in 1..Cardinality(places) |->
     sequence[CHOOSE i \in places : Cardinality({j \in places : j <= i}) = n]]

\* Mutated form of Before: the reverse of a sort in the other direction.
MutantBefore(keys, j, i) == keys[j] < keys[i] \/ (keys[j] = keys[i] /\ j > i)

\* A sort is stable: equal keys stay in their order.
Before(keys, j, i) == keys[j] < keys[i] \/ (keys[j] = keys[i] /\ j < i)

\* The place a sort by the keys gives to i.
Rank(keys, i) == 1 + Cardinality({j \in DOMAIN keys : Before(keys, j, i)})

\* The elements of a set in a strict order, which is given as a set of pairs.
Ordered(set, before) ==
  [n \in 1..Cardinality(set) |->
     CHOOSE x \in set : Cardinality({y \in set : <<y, x>> \in before}) = n - 1]

\* The sum and the product of the first n numbers of a list.
Total(list, n) ==
  LET upTo[k \in Nat] == IF k = 0 THEN 0 ELSE upTo[k - 1] + list[k] IN upTo[n]

Product(list, n) ==
  LET upTo[k \in Nat] == IF k = 0 THEN 1 ELSE upTo[k - 1] * list[k] IN upTo[n]
=============================================================================
