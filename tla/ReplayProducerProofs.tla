------------------------ MODULE ReplayProducerProofs ------------------------
(***************************************************************************)
(* Theorems about ReplayProducer: the files of a bundle and its manifest,  *)
(* the road snapshots of the processes, what a successful run means for    *)
(* every process and for Kafka, and the order a process plays in.  Each    *)
(* invariant is inductive by itself or together with one proved before it. *)
(* The first part is about what a replay reads: the order of a file, the   *)
(* anchor, the sample and the routes.  The last part is about what a       *)
(* process still has to send: a sample it owes is sent, or is to come from *)
(* its queue or its iterator.                                              *)
(***************************************************************************)
EXTENDS ReplayProducer, FiniteSetTheorems, TLAPS

WF == INSTANCE WellFoundedInduction

\* A set of numbers has a smallest one.
LEMMA Smallest ==
  ASSUME NEW T, T \subseteq Nat, T # {}
  PROVE  \E x \in T : \A y \in T : x <= y
<1>1. PICK x \in T : \A y \in T : ~ (<<y, x>> \in WF!OpToRel(<, Nat))
  BY WF!NatLessThanWellFounded, WF!WFMin
<1>2. \A y \in T : ~(y < x)
  BY <1>1 DEF WF!OpToRel
<1> QED
  BY <1>2

\* The smaller of two numbers.
LEMMA MinOfTwo ==
  ASSUME NEW a \in Int, NEW b \in Int
  PROVE  Min({a, b}) = IF a <= b THEN a ELSE b
<1>1. \E x \in {a, b} : \A y \in {a, b} : x <= y
  OBVIOUS
<1>2. Min({a, b}) \in {a, b} /\ \A y \in {a, b} : Min({a, b}) <= y
  BY <1>1 DEF Min
<1> QED
  BY <1>2

\* The larger of two numbers.
LEMMA MaxOfTwo ==
  ASSUME NEW a \in Int, NEW b \in Int
  PROVE  Max({a, b}) = IF a >= b THEN a ELSE b
<1>1. \E x \in {a, b} : \A y \in {a, b} : x >= y
  OBVIOUS
<1>2. Max({a, b}) \in {a, b} /\ \A y \in {a, b} : Max({a, b}) >= y
  BY <1>1 DEF Max
<1> QED
  BY <1>2

-----------------------------------------------------------------------------
(***************************************************************************)
(* Elements numbered by a strict order, as Ordered and Kept number them.   *)
(***************************************************************************)
LEMMA Numbered ==
  ASSUME NEW D, IsFiniteSet(D), NEW below \in [D -> SUBSET D],
         \A i \in D : i \notin below[i],
         \A i, k \in D : i # k => i \in below[k] \/ k \in below[i],
         \A i, k \in D : i \in below[k] => below[i] \subseteq below[k]
  PROVE  /\ Cardinality(D) \in Nat
         /\ \A i \in D : 1 + Cardinality(below[i]) \in 1..Cardinality(D)
         /\ \A i, k \in D : i \in below[k] => Cardinality(below[i]) < Cardinality(below[k])
         /\ \A n \in 1..Cardinality(D) : \E i \in D : 1 + Cardinality(below[i]) = n
<1> DEFINE number == [i \in D |-> 1 + Cardinality(below[i])]
           N == 1..Cardinality(D)
<1>1. Cardinality(D) \in Nat
  BY FS_CardinalityType
<1>2. ASSUME NEW i \in D
      PROVE  IsFiniteSet(below[i]) /\ Cardinality(below[i]) \in 0..(Cardinality(D) - 1)
  <2>1. below[i] \subseteq D \ {i}
    OBVIOUS
  <2>2. IsFiniteSet(D \ {i}) /\ Cardinality(D \ {i}) = Cardinality(D) - 1
    BY FS_RemoveElement
  <2>3. IsFiniteSet(below[i]) /\ Cardinality(below[i]) <= Cardinality(D \ {i})
    BY <2>1, <2>2, FS_Subset
  <2>4. Cardinality(below[i]) \in Nat
    BY <2>3, FS_CardinalityType
  <2> QED
    BY <1>1, <2>2, <2>3, <2>4
<1>3. ASSUME NEW i \in D, NEW k \in D, i \in below[k]
      PROVE  Cardinality(below[i]) < Cardinality(below[k])
  <2>1. below[i] \subseteq below[k] /\ i \notin below[i]
    BY <1>3
  <2>2. /\ Cardinality(below[i]) <= Cardinality(below[k])
        /\ Cardinality(below[i]) # Cardinality(below[k])
    BY <1>2, <1>3, <2>1, FS_Subset
  <2>3. Cardinality(below[i]) \in Nat /\ Cardinality(below[k]) \in Nat
    BY <1>2, FS_CardinalityType
  <2> QED
    BY <2>2, <2>3
<1>4. ASSUME NEW i \in D PROVE number[i] \in N /\ number[i] = 1 + Cardinality(below[i])
  <2>1. PICK c \in 0..(Cardinality(D) - 1) : c = Cardinality(below[i])
    BY <1>2
  <2>2. number[i] = 1 + c
    BY <2>1
  <2> QED
    BY <1>1, <2>1, <2>2
<1>5. \A i, k \in D : number[i] = number[k] => i = k
  <2> SUFFICES ASSUME NEW i \in D, NEW k \in D, number[i] = number[k], i # k PROVE FALSE
    OBVIOUS
  <2>1. Cardinality(below[i]) \in Int /\ Cardinality(below[k]) \in Int
    BY <1>2
  <2>2. \/ Cardinality(below[i]) < Cardinality(below[k])
        \/ Cardinality(below[k]) < Cardinality(below[i])
    BY <1>3
  <2> HIDE DEF number
  <2>3. 1 + Cardinality(below[i]) = 1 + Cardinality(below[k])
    BY <1>4
  <2> QED
    BY <2>1, <2>2, <2>3
<1>6. number \in Injection(D, N)
  <2>1. number \in [D -> N]
    BY <1>4
  <2> HIDE DEF number
  <2> QED
    BY <1>5, <2>1 DEF Injection, IsInjective
<1>7. IsFiniteSet(N) /\ Cardinality(N) = Cardinality(D)
  BY <1>1, FS_Interval
<1> HIDE DEF number
<1>8. number \in Surjection(D, N)
  BY <1>6, <1>7, FS_Injection
<1>9. \A n \in N : \E i \in D : number[i] = n
  BY <1>8 DEF Surjection
<1> QED
  BY <1>1, <1>3, <1>4, <1>9

\* A strict order of the elements of a set.
Strict(D, before) ==
  /\ \A x \in D : <<x, x>> \notin before
  /\ \A x, y \in D : x # y => <<x, y>> \in before \/ <<y, x>> \in before
  /\ \A x, y, z \in D : <<x, y>> \in before /\ <<y, z>> \in before => <<x, z>> \in before

\* The number of earlier elements numbers a finite set in a strict order.
LEMMA StrictNumbers ==
  ASSUME NEW D, IsFiniteSet(D), NEW before, Strict(D, before)
  PROVE  /\ Cardinality(D) \in Nat
         /\ \A x \in D : 1 + Cardinality({w \in D : <<w, x>> \in before}) \in 1..Cardinality(D)
         /\ \A x \in D : Cardinality({w \in D : <<w, x>> \in before}) \in Nat
         /\ \A x, y \in D : <<x, y>> \in before =>
              Cardinality({w \in D : <<w, x>> \in before})
                < Cardinality({w \in D : <<w, y>> \in before})
         /\ \A n \in 1..Cardinality(D) :
              \E x \in D : 1 + Cardinality({w \in D : <<w, x>> \in before}) = n
<1> DEFINE below == [x \in D |-> {w \in D : <<w, x>> \in before}]
<1>1. below \in [D -> SUBSET D] /\ \A x, w \in D : w \in below[x] <=> <<w, x>> \in before
  OBVIOUS
<1>2. \A x \in D : below[x] = {w \in D : <<w, x>> \in before}
  OBVIOUS
<1> HIDE DEF below
<1>3. /\ \A x \in D : x \notin below[x]
      /\ \A x, y \in D : x # y => x \in below[y] \/ y \in below[x]
  BY <1>1 DEF Strict
<1>4. \A x, y \in D : x \in below[y] => below[x] \subseteq below[y]
  <2> SUFFICES ASSUME NEW x \in D, NEW y \in D, x \in below[y], NEW w \in below[x]
               PROVE  w \in below[y]
    OBVIOUS
  <2>1. w \in D /\ <<w, x>> \in before /\ <<x, y>> \in before
    BY <1>1
  <2> QED
    BY <1>1, <2>1 DEF Strict
<1>5. /\ Cardinality(D) \in Nat
      /\ \A x \in D : 1 + Cardinality(below[x]) \in 1..Cardinality(D)
      /\ \A x, y \in D : x \in below[y] => Cardinality(below[x]) < Cardinality(below[y])
      /\ \A n \in 1..Cardinality(D) : \E x \in D : 1 + Cardinality(below[x]) = n
  BY <1>1, <1>3, <1>4, Numbered
<1>6. \A x \in D : Cardinality(below[x]) \in Nat
  <2> SUFFICES ASSUME NEW x \in D PROVE Cardinality(below[x]) \in Nat
    OBVIOUS
  <2>1. IsFiniteSet(below[x])
    BY <1>1, FS_Subset
  <2> QED
    BY <2>1, FS_CardinalityType
<1> QED
  BY <1>1, <1>2, <1>5, <1>6

\* Ordered lists the elements of the set, each once, in the order.
LEMMA OrderedIs ==
  ASSUME NEW D, IsFiniteSet(D), NEW before, Strict(D, before)
  PROVE  /\ Cardinality(D) \in Nat
         /\ Ordered(D, before) \in [1..Cardinality(D) -> D]
         /\ \A x \in D : \E n \in 1..Cardinality(D) : Ordered(D, before)[n] = x
         /\ \A m, n \in 1..Cardinality(D) : m < n =>
              <<Ordered(D, before)[m], Ordered(D, before)[n]>> \in before
         /\ \A m, n \in 1..Cardinality(D) : Ordered(D, before)[m] = Ordered(D, before)[n] => m = n
<1> DEFINE below(x) == Cardinality({w \in D : <<w, x>> \in before})
           N == 1..Cardinality(D)
           o == [n \in N |-> CHOOSE x \in D : below(x) = n - 1]
<1>1. Ordered(D, before) = o
  BY DEF Ordered
<1>2. /\ Cardinality(D) \in Nat
      /\ \A x \in D : 1 + below(x) \in N /\ below(x) \in Nat
      /\ \A x, y \in D : <<x, y>> \in before => below(x) < below(y)
      /\ \A n \in N : \E x \in D : 1 + below(x) = n
  <2>1. Cardinality(D) \in Nat /\ \A x \in D : 1 + below(x) \in N
    BY StrictNumbers
  <2>2. \A x \in D : below(x) \in Nat
    BY StrictNumbers
  <2>3. \A x, y \in D : <<x, y>> \in before => below(x) < below(y)
    BY StrictNumbers
  <2>4. \A n \in N : \E x \in D : 1 + below(x) = n
    BY StrictNumbers
  <2> QED
    BY <2>1, <2>2, <2>3, <2>4
<1> HIDE DEF below
<1>3. \A n \in N : o[n] \in D /\ below(o[n]) = n - 1
  <2> SUFFICES ASSUME NEW n \in N PROVE o[n] \in D /\ below(o[n]) = n - 1
    OBVIOUS
  <2>1. PICK x \in D : 1 + below(x) = n
    BY <1>2
  <2>2. below(x) = n - 1
    BY <1>2, <2>1
  <2>3. o[n] = CHOOSE y \in D : below(y) = n - 1
    OBVIOUS
  <2> QED
    BY <2>2, <2>3
<1>4. o \in [N -> D]
  <2>1. o = [n \in N |-> o[n]]
    OBVIOUS
  <2> QED
    BY <1>3, <2>1
<1> HIDE DEF o
<1>5. \A x, y \in D : below(x) = below(y) => x = y
  <2> SUFFICES ASSUME NEW x \in D, NEW y \in D, below(x) = below(y), x # y PROVE FALSE
    OBVIOUS
  <2>1. <<x, y>> \in before \/ <<y, x>> \in before
    BY DEF Strict
  <2>2. below(x) < below(y) \/ below(y) < below(x)
    BY <1>2, <2>1
  <2>3. below(x) \in Nat /\ below(y) \in Nat
    BY <1>2
  <2> QED
    BY <2>2, <2>3
<1>6. ASSUME NEW x \in D PROVE \E n \in N : o[n] = x
  <2> DEFINE n == 1 + below(x)
  <2>1. n \in N /\ below(x) \in Nat
    BY <1>2
  <2>2. o[n] \in D /\ below(o[n]) = n - 1
    BY <1>3, <2>1
  <2>3. n - 1 = below(x)
    BY <2>1
  <2>4. o[n] = x
    BY <1>5, <2>2, <2>3
  <2> QED
    BY <2>1, <2>4
<1>7. ASSUME NEW m \in N, NEW n \in N, m < n PROVE <<o[m], o[n]>> \in before
  <2>1. o[m] \in D /\ o[n] \in D /\ below(o[m]) = m - 1 /\ below(o[n]) = n - 1
    BY <1>3
  <2>2. m - 1 < n - 1 /\ m - 1 \in Nat /\ n - 1 \in Nat
    BY <1>2, <1>7
  <2>3. ~(below(o[n]) < below(o[m])) /\ below(o[m]) # below(o[n])
    BY <2>1, <2>2
  <2>4. <<o[n], o[m]>> \notin before /\ o[m] # o[n]
    BY <1>2, <2>1, <2>3
  <2> QED
    BY <2>1, <2>4 DEF Strict
<1>8. \A m, n \in N : o[m] = o[n] => m = n
  <2> SUFFICES ASSUME NEW m \in N, NEW n \in N, o[m] = o[n], m # n PROVE FALSE
    OBVIOUS
  <2>1. m < n \/ n < m
    BY <1>2
  <2>2. <<o[m], o[n]>> \in before \/ <<o[n], o[m]>> \in before
    BY <1>7, <2>1
  <2> QED
    BY <1>4, <2>2 DEF Strict
<1> QED
  BY <1>1, <1>2, <1>4, <1>6, <1>7, <1>8

\* A set that is not empty has a first element.
LEMMA FirstIs ==
  ASSUME NEW D, IsFiniteSet(D), D # {}, NEW before, Strict(D, before)
  PROVE  \E x \in D : /\ \A y \in D \ {x} : <<x, y>> \in before
                      /\ \A z \in D : (\A y \in D \ {z} : <<z, y>> \in before) => z = x
<1> DEFINE o == Ordered(D, before)
<1>1. /\ Cardinality(D) \in Nat /\ o \in [1..Cardinality(D) -> D]
      /\ \A x \in D : \E n \in 1..Cardinality(D) : o[n] = x
      /\ \A m, n \in 1..Cardinality(D) : m < n => <<o[m], o[n]>> \in before
  BY OrderedIs
<1> HIDE DEF o
<1>2. Cardinality(D) # 0
  BY FS_EmptySet
<1>3. 1 \in 1..Cardinality(D) /\ \A n \in 1..Cardinality(D) : n = 1 \/ 1 < n
  BY <1>1, <1>2
<1>4. o[1] \in D
  BY <1>1, <1>3
<1>5. ASSUME NEW y \in D \ {o[1]} PROVE <<o[1], y>> \in before
  <2>1. PICK n \in 1..Cardinality(D) : o[n] = y
    BY <1>1
  <2>2. 1 < n
    BY <1>3, <2>1
  <2> QED
    BY <1>1, <1>3, <2>1, <2>2
<1>6. ASSUME NEW z \in D, \A y \in D \ {z} : <<z, y>> \in before PROVE z = o[1]
  <2> SUFFICES ASSUME z # o[1] PROVE FALSE
    OBVIOUS
  <2>1. <<z, o[1]>> \in before /\ <<o[1], z>> \in before
    BY <1>4, <1>5, <1>6
  <2> QED
    BY <1>4, <2>1 DEF Strict
<1> QED
  BY <1>4, <1>5, <1>6

\* The order of numbers.
Smaller(P) == {p \in P \X P : p[1] < p[2]}

\* Numbers are strictly ordered by size.
LEMMA SmallerStrict == ASSUME NEW P, P \subseteq Int PROVE Strict(P, Smaller(P))
<1>1. \A x, y \in P : <<x, y>> \in Smaller(P) <=> x < y
  BY DEF Smaller
<1>2. \A x \in P : x \in Int
  OBVIOUS
<1> QED
  BY <1>1, <1>2 DEF Strict

\* The places Kept takes, by number.
Place(P, n) == CHOOSE i \in P : Cardinality({j \in P : j <= i}) = n

\* The places of a list in their order.
LEMMA PlaceIs ==
  ASSUME NEW len \in Nat, NEW P, P \subseteq 1..len
  PROVE  /\ IsFiniteSet(P) /\ Cardinality(P) \in Nat
         /\ \A n \in 1..Cardinality(P) : Place(P, n) \in P
         /\ \A i \in P : \E n \in 1..Cardinality(P) : Place(P, n) = i
         /\ \A m, n \in 1..Cardinality(P) : m < n => Place(P, m) < Place(P, n)
         /\ \A m, n \in 1..Cardinality(P) : Place(P, m) = Place(P, n) => m = n
<1> DEFINE c == Cardinality(P)
           upto(i) == Cardinality({j \in P : j <= i})
<1>0. IsFiniteSet(1..len)
  BY FS_Interval
<1>1. IsFiniteSet(P) /\ c \in Nat /\ P \subseteq Int
  <2>1. IsFiniteSet(P)
    BY <1>0, FS_Subset
  <2>2. c \in Nat
    BY <2>1, FS_CardinalityType
  <2>3. P \subseteq Int
    OBVIOUS
  <2> QED
    BY <2>1, <2>2, <2>3
<1>2. Strict(P, Smaller(P))
  BY <1>1, SmallerStrict
<1>3. ASSUME NEW i \in P
      PROVE  upto(i) = 1 + Cardinality({j \in P : <<j, i>> \in Smaller(P)})
  <2>0. PICK U : U = {j \in P : <<j, i>> \in Smaller(P)}
    OBVIOUS
  <2>1. {j \in P : j <= i} = U \cup {i}
    <3>1. \A j \in P : j <= i <=> j < i \/ j = i
      BY <1>1
    <3>2. \A j \in P : <<j, i>> \in Smaller(P) <=> j < i
      BY DEF Smaller
    <3> QED
      BY <2>0, <3>1, <3>2
  <2>2. i \notin U
    BY <1>2, <2>0 DEF Strict
  <2>3. IsFiniteSet(U)
    BY <1>1, <2>0, FS_Subset
  <2>4. Cardinality(U \cup {i}) = Cardinality(U) + 1
    BY <2>2, <2>3, FS_AddElement
  <2>5. Cardinality(U) \in Nat
    BY <2>3, FS_CardinalityType
  <2>6. upto(i) = Cardinality(U) + 1
    BY <2>1, <2>4
  <2> HIDE DEF upto
  <2>7. upto(i) = 1 + Cardinality(U)
    BY <2>5, <2>6
  <2> QED
    BY <2>0, <2>7
<1> DEFINE o == Ordered(P, Smaller(P))
<1>4. \A n \in 1..c : Place(P, n) = o[n]
  <2> SUFFICES ASSUME NEW n \in 1..c PROVE Place(P, n) = o[n]
    OBVIOUS
  <2>1. \A i \in P : upto(i) = n <=> Cardinality({j \in P : <<j, i>> \in Smaller(P)}) = n - 1
    <3>1. \A i \in P : Cardinality({j \in P : <<j, i>> \in Smaller(P)}) \in Nat
      BY <1>1, <1>2, StrictNumbers
    <3> QED
      BY <1>1, <1>3, <3>1
  <2>2. o[n] = CHOOSE i \in P : Cardinality({j \in P : <<j, i>> \in Smaller(P)}) = n - 1
    BY DEF Ordered
  <2>3. Place(P, n) = CHOOSE i \in P : upto(i) = n
    BY DEF Place
  <2>4. (CHOOSE i \in P : upto(i) = n)
          = CHOOSE i \in P : Cardinality({j \in P : <<j, i>> \in Smaller(P)}) = n - 1
    BY <2>1
  <2> QED
    BY <2>2, <2>3, <2>4
<1>5. /\ o \in [1..c -> P]
      /\ \A x \in P : \E n \in 1..c : o[n] = x
      /\ \A m, n \in 1..c : m < n => <<o[m], o[n]>> \in Smaller(P)
      /\ \A m, n \in 1..c : o[m] = o[n] => m = n
  BY <1>1, <1>2, OrderedIs
<1> HIDE DEF o, c
<1>6. \A n \in 1..c : o[n] \in P
  BY <1>5
<1>7. \A m, n \in 1..c : m < n => o[m] < o[n]
  BY <1>5 DEF Smaller
<1>8. \A i \in P : \E n \in 1..c : Place(P, n) = i
  BY <1>4, <1>5
<1>9. \A m, n \in 1..c : Place(P, m) = Place(P, n) => m = n
  BY <1>4, <1>5
<1> QED
  BY <1>1, <1>4, <1>6, <1>7, <1>8, <1>9 DEF c

\* What is kept of a list, place by place.
LEMMA KeptBy ==
  ASSUME NEW s, NEW P
  PROVE  Kept(s, P) = [n \in 1..Cardinality(P) |-> s[Place(P, n)]]
BY DEF Kept, Place

\* An element stands at the place given by the number of those before it.
LEMMA OrderedAt ==
  ASSUME NEW D, IsFiniteSet(D), NEW before, Strict(D, before),
         NEW x \in D, NEW n \in 1..Cardinality(D),
         Cardinality({w \in D : <<w, x>> \in before}) = n - 1
  PROVE  Ordered(D, before)[n] = x
<1> DEFINE below(y) == Cardinality({w \in D : <<w, y>> \in before})
<1>1. Ordered(D, before)[n] = CHOOSE y \in D : below(y) = n - 1
  BY DEF Ordered
<1>2. \A y \in D : below(y) \in Nat
  BY StrictNumbers
<1>3. \A y, z \in D : <<y, z>> \in before => below(y) < below(z)
  BY StrictNumbers
<1>4. below(x) = n - 1
  OBVIOUS
<1> HIDE DEF below
<1>5. ASSUME NEW y \in D, below(y) = n - 1, y # x PROVE FALSE
  <2>1. <<x, y>> \in before \/ <<y, x>> \in before
    BY <1>5 DEF Strict
  <2>2. below(x) < below(y) \/ below(y) < below(x)
    BY <1>3, <2>1
  <2>3. below(x) \in Nat /\ below(y) \in Nat
    BY <1>2
  <2> QED
    BY <1>4, <1>5, <2>2, <2>3
<1> QED
  BY <1>1, <1>4, <1>5

Below(D, before, x) == Cardinality({w \in D : <<w, x>> \in before})

\* Multiplying by a positive number keeps the order.
LEMMA TimesOrders ==
  ASSUME NEW a \in Int, NEW b \in Int, NEW k \in Nat \ {0}
  PROVE  /\ a * k \in Int /\ b * k \in Int
         /\ a < b <=> a * k < b * k
         /\ a = b <=> a * k = b * k
<1>1. a * k \in Int /\ b * k \in Int
  OBVIOUS
<1>2. \A x, y \in Int : x < y => x * k < y * k
  <2> SUFFICES ASSUME NEW x \in Int, NEW y \in Int, x < y PROVE x * k < y * k
    OBVIOUS
  <2>1. (y - x) \in Nat \ {0}
    OBVIOUS
  <2>2. (y - x) * k \in Nat \ {0}
    BY <2>1
  <2>3. (y - x) * k = y * k - x * k
    OBVIOUS
  <2> QED
    BY <2>2, <2>3
<1>3. a < b \/ a = b \/ b < a
  OBVIOUS
<1> QED
  BY <1>1, <1>2, <1>3

\* A fraction is not above another.
LEMMA FractionsOrder ==
  ASSUME NEW i \in Int, NEW m \in Nat \ {0}, NEW j \in Int, NEW n \in Nat \ {0},
         NEW l \in Int, NEW k \in Nat \ {0},
         i * n <= j * m, j * k <= l * n
  PROVE  /\ i * k <= l * m
         /\ i * n < j * m \/ j * k < l * n => i * k < l * m
<1>1. /\ i * n \in Int /\ j * m \in Int /\ j * k \in Int /\ l * n \in Int
      /\ i * k \in Int /\ l * m \in Int
  OBVIOUS
<1>2. PICK p \in Int : p = i * n
  OBVIOUS
<1>3. PICK q \in Int : q = j * m
  OBVIOUS
<1>4. PICK r \in Int : r = j * k
  OBVIOUS
<1>5. PICK s \in Int : s = l * n
  OBVIOUS
<1>6. PICK t \in Int : t = i * k
  OBVIOUS
<1>7. PICK u \in Int : u = l * m
  OBVIOUS
<1>8. p * k <= q * k /\ (p < q => p * k < q * k) /\ p * k \in Int /\ q * k \in Int
  BY <1>2, <1>3, TimesOrders
<1>9. r * m <= s * m /\ (r < s => r * m < s * m) /\ r * m \in Int /\ s * m \in Int
  BY <1>4, <1>5, TimesOrders
<1>10. p * k = t * n /\ q * k = r * m /\ s * m = u * n
  <2>1. p * k = t * n
    BY <1>2, <1>6
  <2>2. q * k = r * m
    BY <1>3, <1>4
  <2>3. s * m = u * n
    BY <1>5, <1>7
  <2> QED
    BY <2>1, <2>2, <2>3
<1>11. t * n \in Int /\ u * n \in Int /\ (t < u <=> t * n < u * n) /\ (t = u <=> t * n = u * n)
  BY TimesOrders
<1>12. t * n <= u * n /\ (p < q \/ r < s => t * n < u * n)
  BY <1>8, <1>9, <1>10
<1>13. t <= u /\ (p < q \/ r < s => t < u)
  BY <1>11, <1>12
<1> QED
  BY <1>2, <1>3, <1>4, <1>5, <1>6, <1>7, <1>13

\* A list of a set in the order is the one Ordered gives.
LEMMA ListedIs ==
  ASSUME NEW D, NEW before, Strict(D, before), NEW n \in Nat, NEW q \in [1..n -> D],
         \A x \in D : \E k \in 1..n : q[k] = x,
         \A j, k \in 1..n : j < k => <<q[j], q[k]>> \in before
  PROVE  /\ IsFiniteSet(D) /\ Cardinality(D) = n
         /\ Ordered(D, before) = q
<1>1. \A j, k \in 1..n : q[j] = q[k] => j = k
  <2> SUFFICES ASSUME NEW j \in 1..n, NEW k \in 1..n, q[j] = q[k], j # k PROVE FALSE
    OBVIOUS
  <2>1. j < k \/ k < j
    OBVIOUS
  <2>2. <<q[j], q[k]>> \in before \/ <<q[k], q[j]>> \in before
    BY <2>1
  <2>3. q[j] \in D
    OBVIOUS
  <2> QED
    BY <2>2, <2>3 DEF Strict
<1>2. IsFiniteSet(1..n) /\ Cardinality(1..n) = n
  BY FS_Interval
<1>3. q \in Bijection(1..n, D)
  BY <1>1 DEF Bijection, Injection, Surjection, IsInjective
<1>4. IsFiniteSet(D) /\ Cardinality(D) = n
  BY <1>2, <1>3, FS_Bijection DEF ExistsBijection
<1>5. ASSUME NEW k \in 1..n PROVE Ordered(D, before)[k] = q[k]
  <2>1. PICK U : U = {w \in D : <<w, q[k]>> \in before}
    OBVIOUS
  <2>2. PICK g : g = [j \in 1..(k - 1) |-> q[j]]
    OBVIOUS
  <2>3. g \in [1..(k - 1) -> U]
    <3>1. \A j \in 1..(k - 1) : j \in 1..n /\ j < k
      OBVIOUS
    <3> QED
      BY <2>1, <2>2, <3>1
  <2>4. \A w \in U : \E j \in 1..(k - 1) : g[j] = w
    <3> SUFFICES ASSUME NEW w \in U PROVE \E j \in 1..(k - 1) : g[j] = w
      OBVIOUS
    <3>1. w \in D /\ <<w, q[k]>> \in before
      BY <2>1
    <3>2. PICK j \in 1..n : q[j] = w
      BY <3>1
    <3>3. ~(k < j)
      <4> SUFFICES ASSUME k < j PROVE FALSE
        OBVIOUS
      <4>1. <<q[k], w>> \in before
        BY <3>2
      <4> QED
        BY <3>1, <4>1 DEF Strict
    <3>4. j # k
      BY <3>1, <3>2 DEF Strict
    <3>5. j \in 1..(k - 1)
      BY <3>3, <3>4
    <3> QED
      BY <2>2, <3>2, <3>5
  <2>5. \A i, j \in 1..(k - 1) : g[i] = g[j] => i = j
    <3>1. \A j \in 1..(k - 1) : j \in 1..n
      OBVIOUS
    <3> QED
      BY <1>1, <2>2, <3>1
  <2>6. g \in Bijection(1..(k - 1), U)
    BY <2>3, <2>4, <2>5 DEF Bijection, Injection, Surjection, IsInjective
  <2>7. IsFiniteSet(1..(k - 1)) /\ Cardinality(1..(k - 1)) = k - 1
    BY FS_Interval
  <2>8. Cardinality(U) = k - 1
    BY <2>6, <2>7, FS_Bijection DEF ExistsBijection
  <2>9. q[k] \in D /\ k \in 1..Cardinality(D)
    BY <1>4
  <2> QED
    BY <1>4, <2>1, <2>8, <2>9, OrderedAt
<1>6. Ordered(D, before) \in [1..n -> D]
  BY <1>4, OrderedIs
<1>7. Ordered(D, before) = q
  BY <1>5, <1>6
<1> QED
  BY <1>4, <1>7

\* The places of an interval are numbered from its first.
LEMMA IntervalPlaces ==
  ASSUME NEW a \in Nat \ {0}, NEW b \in Nat, a <= b + 1
  PROVE  /\ Cardinality(a..b) = b - a + 1
         /\ \A n \in 1..(b - a + 1) : Place(a..b, n) = a + n - 1
<1>1. Cardinality(a..b) = b - a + 1
  <2>1. a \in Int /\ b \in Int
    OBVIOUS
  <2>2. Cardinality(a..b) = IF a > b THEN 0 ELSE b - a + 1
    BY <2>1, FS_Interval
  <2>3. a > b => b - a + 1 = 0
    OBVIOUS
  <2> QED
    BY <2>2, <2>3
<1>2. ASSUME NEW n \in 1..(b - a + 1) PROVE Place(a..b, n) = a + n - 1
  <2>1. \A i \in a..b : Cardinality({j \in a..b : j <= i}) = i - a + 1
    <3> SUFFICES ASSUME NEW i \in a..b PROVE Cardinality({j \in a..b : j <= i}) = i - a + 1
      OBVIOUS
    <3>1. {j \in a..b : j <= i} = a..i
      OBVIOUS
    <3>2. Cardinality(a..i) = i - a + 1
      BY FS_Interval
    <3> QED
      BY <3>1, <3>2
  <2>2. \A i \in a..b : i - a + 1 = n <=> i = a + n - 1
    OBVIOUS
  <2>3. a + n - 1 \in a..b
    OBVIOUS
  <2>4. Place(a..b, n) = CHOOSE i \in a..b : Cardinality({j \in a..b : j <= i}) = n
    BY DEF Place
  <2>5. \A i \in a..b : Cardinality({j \in a..b : j <= i}) = n <=> i = a + n - 1
    BY <2>1, <2>2
  <2> QED
    BY <2>3, <2>4, <2>5
<1> QED
  BY <1>1, <1>2

Slice(s, a, b) == [k \in 1..(b - a + 1) |-> s[a + k - 1]]

\* Keeping an interval of places cuts a slice out of a list.
LEMMA KeptInterval ==
  ASSUME NEW s, NEW a \in Nat \ {0}, NEW b \in Nat, a <= b + 1
  PROVE  Kept(s, a..b) = Slice(s, a, b)
<1>1. Cardinality(a..b) = b - a + 1
  BY IntervalPlaces
<1>2. \A k \in 1..(b - a + 1) : s[Place(a..b, k)] = s[a + k - 1]
  BY IntervalPlaces
<1> QED
  BY <1>1, <1>2, KeptBy DEF Slice

\* What Kept keeps of a list: the elements at the places, in their order.
LEMMA KeptIs ==
  ASSUME NEW S, NEW list \in Seq(S), NEW P, P \subseteq DOMAIN list
  PROVE  /\ Kept(list, P) \in Seq(S)
         /\ \A k \in DOMAIN Kept(list, P) : \E i \in P : Kept(list, P)[k] = list[i]
         /\ \A i \in P : \E k \in DOMAIN Kept(list, P) : Kept(list, P)[k] = list[i]
         /\ \A j, k \in DOMAIN Kept(list, P) : j <= k =>
              \E h, i \in P : /\ h <= i
                              /\ Kept(list, P)[j] = list[h] /\ Kept(list, P)[k] = list[i]
<1> DEFINE kept == Kept(list, P)
           c == Cardinality(P)
<1>1. DOMAIN list = 1..Len(list) /\ Len(list) \in Nat
  OBVIOUS
<1>2. /\ c \in Nat
      /\ \A n \in 1..c : Place(P, n) \in P
      /\ \A i \in P : \E n \in 1..c : Place(P, n) = i
      /\ \A m, n \in 1..c : m < n => Place(P, m) < Place(P, n)
  BY <1>1, PlaceIs
<1>3. kept = [n \in 1..c |-> list[Place(P, n)]]
  BY KeptBy
<1> HIDE DEF kept, c
<1>4. DOMAIN kept = 1..c /\ \A n \in 1..c : kept[n] = list[Place(P, n)]
  BY <1>3
<1>5. kept \in Seq(S)
  <2>1. \A n \in 1..c : kept[n] \in S
    <3> SUFFICES ASSUME NEW n \in 1..c PROVE kept[n] \in S
      OBVIOUS
    <3>1. Place(P, n) \in DOMAIN list
      BY <1>2
    <3> QED
      BY <1>1, <1>4, <3>1
  <2>2. kept \in [1..c -> S]
    BY <1>3, <1>4, <2>1
  <2> QED
    BY <1>2, <2>2
<1>6. \A j, k \in 1..c : j <= k => Place(P, j) <= Place(P, k)
  <2> SUFFICES ASSUME NEW j \in 1..c, NEW k \in 1..c, j <= k PROVE Place(P, j) <= Place(P, k)
    OBVIOUS
  <2>1. Place(P, j) \in Nat /\ Place(P, k) \in Nat
    BY <1>1, <1>2
  <2>2. j < k \/ j = k
    OBVIOUS
  <2> QED
    BY <1>2, <2>1, <2>2
<1>7. \A k \in DOMAIN kept : \E i \in P : kept[k] = list[i]
  BY <1>2, <1>4
<1>8. \A i \in P : \E k \in DOMAIN kept : kept[k] = list[i]
  BY <1>2, <1>4
<1>9. \A j, k \in DOMAIN kept : j <= k =>
        \E h, i \in P : h <= i /\ kept[j] = list[h] /\ kept[k] = list[i]
  BY <1>2, <1>4, <1>6
<1> QED
  BY <1>5, <1>7, <1>8, <1>9 DEF kept

\* A quotient and its bounds.
LEMMA Division ==
  ASSUME NEW a \in Nat, NEW b \in Nat \ {0}
  PROVE  /\ a \div b \in Nat
         /\ b * (a \div b) <= a
         /\ a < b * (a \div b) + b
OBVIOUS

\* A quotient is known from its bounds.
LEMMA QuotientIs ==
  ASSUME NEW a \in Nat, NEW b \in Nat \ {0}, NEW q \in Nat, b * q <= a, a < b * q + b
  PROVE  a \div b = q
<1>1. PICK d \in Nat : d = a \div b /\ b * d <= a /\ a < b * d + b
  BY Division
<1>2. ASSUME NEW x \in Nat, NEW y \in Nat, x < y PROVE b * x + b <= b * y
  <2>1. PICK z \in Nat : y = x + 1 + z
    <3>1. y - x - 1 \in Nat /\ y = x + 1 + (y - x - 1)
      BY <1>2
    <3> QED
      BY <3>1
  <2>2. b * (x + 1 + z) = b * x + b + b * z
    OBVIOUS
  <2>3. b * z \in Nat /\ b * x \in Nat
    OBVIOUS
  <2> QED
    BY <2>1, <2>2, <2>3
<1>3. b * d \in Nat /\ b * q \in Nat
  OBVIOUS
<1>4. ~(d < q) /\ ~(q < d)
  BY <1>1, <1>2, <1>3
<1> QED
  BY <1>1, <1>4

\* Division keeps the order.
LEMMA QuotientsOrder ==
  ASSUME NEW a \in Nat, NEW c \in Nat, NEW b \in Nat \ {0}, a <= c
  PROVE  a \div b <= c \div b
<1>1. PICK d \in Nat : d = a \div b /\ b * d <= a /\ a < b * d + b
  BY Division
<1>2. PICK e \in Nat : e = c \div b /\ b * e <= c /\ c < b * e + b
  BY Division
<1>3. ASSUME e < d PROVE FALSE
  <2>1. PICK z \in Nat : d = e + 1 + z
    <3>1. d - e - 1 \in Nat /\ d = e + 1 + (d - e - 1)
      BY <1>3
    <3> QED
      BY <3>1
  <2>2. b * (e + 1 + z) = b * e + b + b * z
    OBVIOUS
  <2>3. b * z \in Nat /\ b * e \in Nat /\ b * d \in Nat
    OBVIOUS
  <2> QED
    BY <1>1, <1>2, <2>1, <2>2, <2>3
<1> QED
  BY <1>1, <1>2, <1>3

\* The group of a row, and how many there are.
LEMMA GroupIs ==
  ASSUME NEW len \in Nat
  PROVE  /\ (len + GroupSize - 1) \div GroupSize \in Nat
         /\ \A i \in 1..len : GroupOf(i) \in 1..((len + GroupSize - 1) \div GroupSize)
         /\ \A i, j \in 1..len : i <= j => GroupOf(i) <= GroupOf(j)
<1>0. GroupSize \in Nat \ {0}
  BY ReplayInputAssumption
<1> DEFINE last == (len + GroupSize - 1) \div GroupSize
<1>1. len + GroupSize - 1 \in Nat
  BY <1>0
<1>2. last \in Nat
  BY <1>0, <1>1, Division
<1>3. ASSUME NEW i \in 1..len PROVE GroupOf(i) \in 1..last
  <2>1. i - 1 \in Nat /\ i - 1 + GroupSize \in Nat /\ i - 1 + GroupSize <= len + GroupSize - 1
    BY <1>0
  <2>2. PICK q \in Nat : q = (i - 1) \div GroupSize /\ GroupSize * q <= i - 1
                         /\ i - 1 < GroupSize * q + GroupSize
    BY <1>0, <2>1, Division
  <2>3. GroupSize * (q + 1) = GroupSize * q + GroupSize /\ GroupSize * q \in Nat
    BY <1>0
  <2>4. (i - 1 + GroupSize) \div GroupSize = q + 1
    <3>1. q + 1 \in Nat /\ GroupSize * (q + 1) <= i - 1 + GroupSize
          /\ i - 1 + GroupSize < GroupSize * (q + 1) + GroupSize
      BY <1>0, <2>2, <2>3
    <3> QED
      BY <1>0, <2>1, <3>1, QuotientIs
  <2>5. q + 1 <= last
    BY <1>0, <1>1, <2>1, <2>4, QuotientsOrder
  <2> HIDE DEF last
  <2> QED
    BY <1>2, <2>2, <2>5 DEF GroupOf
<1>4. ASSUME NEW i \in 1..len, NEW j \in 1..len, i <= j PROVE GroupOf(i) <= GroupOf(j)
  <2>1. i - 1 \in Nat /\ j - 1 \in Nat /\ i - 1 <= j - 1
    BY <1>4
  <2>2. (i - 1) \div GroupSize <= (j - 1) \div GroupSize
    BY <1>0, <2>1, QuotientsOrder
  <2>3. (i - 1) \div GroupSize \in Nat /\ (j - 1) \div GroupSize \in Nat
    BY <1>0, <2>1, Division
  <2> QED
    BY <2>2, <2>3 DEF GroupOf
<1> QED
  BY <1>2, <1>3, <1>4

\* The minimum is known from its bound.
LEMMA MinIs ==
  ASSUME NEW S, NEW x \in S, \A y \in S : y \in Int /\ x <= y
  PROVE  Min(S) = x
BY DEF Min

\* The maximum is known from its bound.
LEMMA MaxIs ==
  ASSUME NEW S, NEW x \in S, \A y \in S : y \in Int /\ y <= x
  PROVE  Max(S) = x
BY DEF Max

\* Rows are strictly ordered by time and, at equal times, by number.
LEMMA EarlierStrict ==
  ASSUME NEW T, T \subseteq Nat, NEW at \in [T -> Nat]
  PROVE  Strict(T, Earlier(T, at))
<1>1. \A x, y \in T :
        <<x, y>> \in Earlier(T, at) <=> at[x] < at[y] \/ (at[x] = at[y] /\ x < y)
  BY DEF Earlier
<1>2. \A x \in T : x \in Nat /\ at[x] \in Nat
  OBVIOUS
<1>3. \A x \in T : <<x, x>> \notin Earlier(T, at)
  BY <1>1, <1>2
<1>4. \A x, y \in T : x # y => <<x, y>> \in Earlier(T, at) \/ <<y, x>> \in Earlier(T, at)
  BY <1>1, <1>2
<1>5. \A x, y, z \in T :
        <<x, y>> \in Earlier(T, at) /\ <<y, z>> \in Earlier(T, at) => <<x, z>> \in Earlier(T, at)
  BY <1>1, <1>2
<1> QED
  BY <1>3, <1>4, <1>5 DEF Strict

\* The trips of a file are places in it, with times.
LEMMA TripsTimed ==
  ASSUME NEW file, Readable(file)
  PROVE  /\ Len(file) \in Nat /\ DOMAIN file = 1..Len(file)
         /\ Trips(file) \subseteq 1..Len(file) /\ Trips(file) \subseteq Nat
         /\ IsFiniteSet(Trips(file)) /\ Cardinality(Trips(file)) \in Nat
         /\ \A t \in Trips(file) :
              /\ file[t].request \in Nat /\ file[t].pickup \in Nat /\ file[t].dropoff \in Nat
              /\ file[t].miles \in Nat
              /\ file[t].request <= file[t].pickup /\ file[t].pickup < file[t].dropoff
<1>1. Len(file) \in Nat /\ DOMAIN file = 1..Len(file)
  BY DEF Readable
<1>2. Trips(file) \subseteq 1..Len(file) /\ Trips(file) \subseteq Nat
  BY <1>1 DEF Trips
<1>3. IsFiniteSet(1..Len(file))
  BY <1>1, FS_Interval
<1>4. IsFiniteSet(Trips(file)) /\ Cardinality(Trips(file)) \in Nat
  BY <1>2, <1>3, FS_Subset, FS_CardinalityType
<1>5. ASSUME NEW t \in Trips(file)
      PROVE  /\ file[t].request \in Nat /\ file[t].pickup \in Nat /\ file[t].dropoff \in Nat
             /\ file[t].miles \in Nat
             /\ file[t].request <= file[t].pickup /\ file[t].pickup < file[t].dropoff
  <2>1. {file[t].request, file[t].pickup, file[t].dropoff, file[t].miles} \subseteq Nat
    BY DEF Readable
  <2>2. Valid(file[t])
    BY DEF Trips
  <2> QED
    BY <2>1, <2>2 DEF Valid
<1> QED
  BY <1>1, <1>2, <1>4, <1>5

\* The valid rows in the order of their requests.
InRows(file, r, N) ==
  /\ Rows(file) = r /\ r \in [1..N -> Trips(file)]
  /\ \A t \in Trips(file) : \E k \in 1..N : r[k] = t
  /\ \A j, k \in 1..N : j < k =>
       \/ file[r[j]].request < file[r[k]].request
       \/ file[r[j]].request = file[r[k]].request /\ r[j] < r[k]

\* The rows of a file in the order of their requests.
LEMMA RowsAre ==
  ASSUME NEW file, Readable(file)
  PROVE  \E N \in Nat : \E r : InRows(file, r, N)
<1>1. PICK T : T = Trips(file)
  OBVIOUS
<1>2. PICK at : at = [t \in T |-> file[t].request]
  OBVIOUS
<1>3. at \in [T -> Nat] /\ T \subseteq Nat /\ IsFiniteSet(T)
  BY <1>1, <1>2, TripsTimed
<1>4. PICK before : before = Earlier(T, at)
  OBVIOUS
<1>5. Strict(T, before)
  BY <1>3, <1>4, EarlierStrict
<1>6. PICK r : r = Ordered(T, before)
  OBVIOUS
<1>7. PICK N \in Nat : /\ r \in [1..N -> T]
                       /\ \A t \in T : \E k \in 1..N : r[k] = t
                       /\ \A j, k \in 1..N : j < k => <<r[j], r[k]>> \in before
  <2>1. Cardinality(T) \in Nat /\ Ordered(T, before) \in [1..Cardinality(T) -> T]
    BY <1>3, <1>5, OrderedIs
  <2>2. \A x \in T : \E n \in 1..Cardinality(T) : Ordered(T, before)[n] = x
    BY <1>3, <1>5, OrderedIs
  <2>3. \A m, n \in 1..Cardinality(T) : m < n =>
          <<Ordered(T, before)[m], Ordered(T, before)[n]>> \in before
    BY <1>3, <1>5, OrderedIs
  <2> QED
    BY <1>6, <2>1, <2>2, <2>3
<1>8. Rows(file) = r
  BY <1>1, <1>2, <1>4, <1>6 DEF Rows, Sorted
<1>9. ASSUME NEW j \in 1..N, NEW k \in 1..N, j < k
      PROVE  \/ file[r[j]].request < file[r[k]].request
             \/ file[r[j]].request = file[r[k]].request /\ r[j] < r[k]
  <2>1. <<r[j], r[k]>> \in Earlier(T, at)
    BY <1>4, <1>7, <1>9
  <2>2. r[j] \in T /\ r[k] \in T
    BY <1>7
  <2>3. at[r[j]] = file[r[j]].request /\ at[r[k]] = file[r[k]].request
    BY <1>2, <2>2
  <2> QED
    BY <2>1, <2>3 DEF Earlier
<1> QED
  BY <1>1, <1>7, <1>8, <1>9 DEF InRows

\* The bounds of a file are those of its first row and its last.
LEMMA BoundsAre ==
  ASSUME NEW file, Readable(file), Trips(file) # {}
  PROVE  /\ FirstRequest(file) \in Nat /\ LastRequest(file) \in Nat
         /\ \A t \in Trips(file) : FirstRequest(file) <= file[t].request
                                   /\ file[t].request <= LastRequest(file)
         /\ Cycle(file) \in Nat \ {0}
<1>1. PICK N \in Nat : \E r : InRows(file, r, N)
  BY RowsAre
<1>2. PICK r : InRows(file, r, N)
  BY <1>1
<1>3. N # 0
  BY <1>2 DEF InRows
<1>4. \A t \in Trips(file) : file[t].request \in Nat
  BY TripsTimed
<1>5. r[1] \in Trips(file) /\ r[N] \in Trips(file)
  BY <1>2, <1>3 DEF InRows
<1>6. ASSUME NEW t \in Trips(file)
      PROVE  file[r[1]].request <= file[t].request /\ file[t].request <= file[r[N]].request
  <2>1. PICK k \in 1..N : r[k] = t
    BY <1>2 DEF InRows
  <2>2. 1 \in 1..N /\ N \in 1..N /\ (1 < k \/ 1 = k) /\ (k < N \/ k = N)
    BY <1>3
  <2> QED
    BY <1>2, <1>4, <1>5, <2>1, <2>2 DEF InRows
<1>7. PICK first \in Nat : first = file[r[1]].request
  BY <1>4, <1>5
<1>8. PICK last \in Nat : last = file[r[N]].request
  BY <1>4, <1>5
<1>9. /\ first \in Requests(file) /\ last \in Requests(file)
      /\ \A x \in Requests(file) : x \in Nat /\ first <= x /\ x <= last
  BY <1>4, <1>5, <1>6, <1>7, <1>8 DEF Requests
<1>10. FirstRequest(file) = first
  <2>1. PICK S : S = Requests(file)
    OBVIOUS
  <2>2. first \in S /\ \A y \in S : y \in Int /\ first <= y
    BY <1>9, <2>1
  <2>3. Min(S) = first
    BY <2>2, MinIs
  <2> QED
    BY <2>1, <2>3 DEF FirstRequest
<1>11. LastRequest(file) = last
  <2>1. PICK S : S = Requests(file)
    OBVIOUS
  <2>2. last \in S /\ \A y \in S : y \in Int /\ y <= last
    BY <1>9, <2>1
  <2>3. Max(S) = last
    BY <2>2, MaxIs
  <2> QED
    BY <2>1, <2>3 DEF LastRequest
<1>12. Cycle(file) = last + 1 - first /\ first <= last
  BY <1>5, <1>6, <1>7, <1>8, <1>10, <1>11 DEF Cycle
<1> QED
  BY <1>6, <1>7, <1>8, <1>10, <1>11, <1>12

\* The rows before the F-th are before the anchor.
Splits(file, r, N, at, F) ==
  /\ F \in 1..(N + 1)
  /\ \A i \in 1..N : file[r[i]].request >= at <=> F <= i

\* The rows at or after an anchor are the last ones, from some place on.
LEMMA FirstLate ==
  ASSUME NEW file, Readable(file), NEW N \in Nat, NEW r, InRows(file, r, N), NEW at \in Nat
  PROVE  \E F \in Nat : Splits(file, r, N, at, F)
<1>1. PICK q : q = [i \in 1..N |-> file[r[i]].request]
  OBVIOUS
<1>2. \A i \in 1..N : q[i] \in Nat /\ q[i] = file[r[i]].request
  BY <1>1, TripsTimed DEF InRows
<1>3. \A i, j \in 1..N : i <= j => q[i] <= q[j]
  <2> SUFFICES ASSUME NEW i \in 1..N, NEW j \in 1..N, i <= j PROVE q[i] <= q[j]
    OBVIOUS
  <2>1. i < j \/ i = j
    OBVIOUS
  <2>2. i < j => q[i] < q[j] \/ q[i] = q[j]
    BY <1>2 DEF InRows
  <2> QED
    BY <1>2, <2>1, <2>2
<1>4. PICK L : L = {i \in 1..N : q[i] >= at} \cup {N + 1}
  OBVIOUS
<1>5. L \subseteq Nat /\ L # {}
  BY <1>4
<1>6. PICK F \in L : \A i \in L : F <= i
  BY <1>5, Smallest
<1>7. F \in 1..(N + 1)
  BY <1>4
<1>8. ASSUME NEW i \in 1..N PROVE q[i] >= at <=> F <= i
  <2>1. q[i] >= at => F <= i
    BY <1>4, <1>6
  <2>2. ASSUME F <= i PROVE q[i] >= at
    <3>1. F \in 1..N /\ q[F] >= at
      BY <1>4, <1>7, <2>2
    <3>2. q[F] <= q[i]
      BY <1>3, <2>2, <3>1
    <3> QED
      BY <1>2, <3>1, <3>2
  <2> QED
    BY <2>1, <2>2
<1> QED
  BY <1>2, <1>7, <1>8 DEF Splits

\* What is replayed: from the F-th row on, then those before it, a cycle later.
Rotated(r, N, F, cycle) ==
  [k \in 1..N |-> IF k <= N - F + 1 THEN Played(r[F + k - 1], 0)
                  ELSE Played(r[k - (N - F + 1)], cycle)]

\* Row groups: those from the first that reaches the anchor hold all the rows
\* from the F-th on, those up to it all the rows before.
LEMMA GroupsHold ==
  ASSUME NEW file, Readable(file), NEW N \in Nat, NEW r, InRows(file, r, N),
         NEW at \in Nat, NEW F \in Nat, Splits(file, r, N, at, F),
         NEW start, start = StartGroup(file, at), NEW groups, groups = Groups(file)
  PROVE  /\ \A i \in 1..N : GroupOf(i) \in start..groups
                              /\ (TRUE <=> file[r[i]].request >= at) <=> i \in F..N
         /\ \A i \in 1..N : GroupOf(i) \in WrappedGroups(start, groups)
                              /\ (FALSE <=> file[r[i]].request >= at) <=> i \in 1..(F - 1)
<1>1. r \in Seq(Trips(file)) /\ Len(r) = N /\ DOMAIN r = 1..N
  BY DEF InRows
<1>2. groups = (N + GroupSize - 1) \div GroupSize
  BY <1>1 DEF Groups, InRows
<1>3. /\ groups \in Nat
      /\ \A i \in 1..N : GroupOf(i) \in 1..groups
      /\ \A i, j \in 1..N : i <= j => GroupOf(i) <= GroupOf(j)
  BY <1>2, GroupIs
<1>4. \A i \in 1..N : file[r[i]].request >= at <=> F <= i
  BY DEF Splits
<1>5. PICK S : S = {g \in 1..groups : \E i \in 1..N :
                      GroupOf(i) = g /\ file[r[i]].request >= at} \cup {groups + 1}
  OBVIOUS
<1>6. start = Min(S)
  BY <1>1, <1>5 DEF StartGroup, InRows
<1>7. CASE F <= N
  <2>1. F \in 1..N
    BY <1>7 DEF Splits
  <2>2. GroupOf(F) \in S
    BY <1>3, <1>4, <1>5, <2>1
  <2>3. \A g \in S : g \in Int /\ GroupOf(F) <= g
    <3> SUFFICES ASSUME NEW g \in S PROVE g \in Int /\ GroupOf(F) <= g
      OBVIOUS
    <3>1. CASE g = groups + 1
      BY <1>3, <2>1, <3>1
    <3>2. CASE g # groups + 1
      <4>1. PICK i \in 1..N : GroupOf(i) = g /\ F <= i
        BY <1>4, <1>5, <3>2
      <4> QED
        BY <1>3, <2>1, <4>1
    <3> QED
      BY <3>1, <3>2
  <2>4. start = GroupOf(F)
    BY <1>6, <2>2, <2>3, MinIs
  <2>5. start \in 1..groups /\ Min({start, groups}) = start
    BY <1>3, <2>1, <2>4, MinOfTwo
  <2>6. WrappedGroups(start, groups) = 1..start
    BY <2>5 DEF WrappedGroups
  <2>7. ASSUME NEW i \in 1..N
        PROVE  /\ F <= i => GroupOf(i) \in start..groups
               /\ i < F => GroupOf(i) \in 1..start
    BY <1>3, <2>1, <2>4
  <2> QED
    BY <1>4, <2>1, <2>6, <2>7
<1>8. CASE F = N + 1
  <2>1. S = {groups + 1}
    BY <1>4, <1>5, <1>8
  <2>2. start = groups + 1
    BY <1>3, <1>6, <2>1, MinIs
  <2>3. Min({start, groups}) = groups
    BY <1>3, <2>2, MinOfTwo
  <2>4. WrappedGroups(start, groups) = 1..groups
    BY <2>3 DEF WrappedGroups
  <2> QED
    BY <1>3, <1>4, <1>8, <2>4
<1>9. F <= N \/ F = N + 1
  BY DEF Splits
<1> QED
  BY <1>7, <1>8, <1>9

\* Two lists joined, place by place.
LEMMA JoinedIs ==
  ASSUME NEW U, NEW s \in Seq(U), NEW t \in Seq(U)
  PROVE  /\ s \o t \in Seq(U) /\ Len(s \o t) = Len(s) + Len(t)
         /\ \A k \in 1..(Len(s) + Len(t)) :
              (s \o t)[k] = IF k <= Len(s) THEN s[k] ELSE t[k - Len(s)]
OBVIOUS

\* Reading by row groups rotates the rows at the anchor, whatever the groups.
LEMMA PreparedIs ==
  ASSUME NEW file, Readable(file), NEW N \in Nat, NEW r, InRows(file, r, N),
         NEW at \in Nat, NEW F \in Nat, Splits(file, r, N, at, F)
  PROVE  PreparedOrder(file, at) = Rotated(r, N, F, Cycle(file))
<1>1. PICK start : start = StartGroup(file, at)
  OBVIOUS
<1>2. PICK groups : groups = Groups(file)
  OBVIOUS
<1>3. PICK cycle : cycle = Cycle(file)
  OBVIOUS
<1>4. Rows(file) = r /\ DOMAIN r = 1..N
  BY DEF InRows
<1>5. F \in 1..(N + 1)
  BY DEF Splits
<1>6. PICK after : after = [k \in 1..(N - F + 1) |-> r[F + k - 1]]
  OBVIOUS
<1>7. PICK before : before = [k \in 1..(F - 1) |-> r[k]]
  OBVIOUS
<1>8. GroupRows(file, start..groups, at, TRUE) = after
  <2>1. {i \in 1..N : GroupOf(i) \in start..groups /\ (TRUE <=> file[r[i]].request >= at)} = F..N
    <3>1. \A i \in 1..N : GroupOf(i) \in start..groups
                             /\ (TRUE <=> file[r[i]].request >= at) <=> i \in F..N
      BY <1>1, <1>2, GroupsHold
    <3>2. F..N \subseteq 1..N
      BY <1>5
    <3> QED
      BY <3>1, <3>2
  <2>2. GroupRows(file, start..groups, at, TRUE) = Kept(r, F..N)
    BY <1>4, <2>1 DEF GroupRows
  <2>3. Kept(r, F..N) = after
    <3>1. F \in Nat \ {0} /\ N \in Nat /\ F <= N + 1
      BY <1>5
    <3>2. Kept(r, F..N) = Slice(r, F, N)
      BY <3>1, KeptInterval
    <3> QED
      BY <1>6, <3>2 DEF Slice
  <2> QED
    BY <2>2, <2>3
<1>9. GroupRows(file, WrappedGroups(start, groups), at, FALSE) = before
  <2>1. {i \in 1..N : GroupOf(i) \in WrappedGroups(start, groups)
                        /\ (FALSE <=> file[r[i]].request >= at)} = 1..(F - 1)
    <3>1. \A i \in 1..N : GroupOf(i) \in WrappedGroups(start, groups)
                             /\ (FALSE <=> file[r[i]].request >= at) <=> i \in 1..(F - 1)
      BY <1>1, <1>2, GroupsHold
    <3>2. 1..(F - 1) \subseteq 1..N
      BY <1>5
    <3> QED
      BY <3>1, <3>2
  <2>2. GroupRows(file, WrappedGroups(start, groups), at, FALSE) = Kept(r, 1..(F - 1))
    BY <1>4, <2>1 DEF GroupRows
  <2>3. Kept(r, 1..(F - 1)) = Slice(r, 1, F - 1)
    <3>1. F - 1 \in Nat /\ 1 \in Nat \ {0} /\ 1 <= F - 1 + 1
      BY <1>5
    <3> QED
      BY <3>1, KeptInterval
  <2>4. Slice(r, 1, F - 1) = before
    <3>1. F - 1 - 1 + 1 = F - 1 /\ \A k \in 1..(F - 1) : 1 + k - 1 = k
      OBVIOUS
    <3> QED
      BY <1>5, <1>7, <3>1 DEF Slice
  <2> QED
    BY <2>2, <2>3, <2>4
<1>10. PICK first : first = [k \in DOMAIN after |-> Played(after[k], 0)]
  OBVIOUS
<1>11. PICK second : second = [k \in DOMAIN before |-> Played(before[k], cycle)]
  OBVIOUS
<1>12. PreparedOrder(file, at) = first \o second
  BY <1>1, <1>2, <1>3, <1>8, <1>9, <1>10, <1>11 DEF PreparedOrder
<1>13. PICK U : \A t \in Range(r) : \A c \in {0, cycle} : Played(t, c) \in U
  <2>1. \A t \in Range(r) : \A c \in {0, cycle} :
          Played(t, c) \in [trip : Range(r), shift : {0, cycle}]
    BY DEF Played
  <2> QED
    BY <2>1
<1>14. \A k \in 1..N : r[k] \in Range(r)
  BY <1>4 DEF Range
<1>15. /\ first \in Seq(U) /\ Len(first) = N - F + 1
       /\ \A k \in 1..(N - F + 1) : first[k] = Played(r[F + k - 1], 0)
  <2>1. N - F + 1 \in Nat /\ \A k \in 1..(N - F + 1) : F + k - 1 \in 1..N
    BY <1>5
  <2>2. DOMAIN first = 1..(N - F + 1)
        /\ \A k \in 1..(N - F + 1) : first[k] = Played(r[F + k - 1], 0)
    BY <1>6, <1>10
  <2>3. \A k \in 1..(N - F + 1) : first[k] \in U
    BY <1>13, <1>14, <2>1, <2>2
  <2>4. first \in [1..(N - F + 1) -> U]
    BY <1>10, <2>2, <2>3
  <2> QED
    BY <2>1, <2>2, <2>4
<1>16. /\ second \in Seq(U) /\ Len(second) = F - 1
       /\ \A k \in 1..(F - 1) : second[k] = Played(r[k], cycle)
  <2>1. F - 1 \in Nat /\ \A k \in 1..(F - 1) : k \in 1..N
    BY <1>5
  <2>2. DOMAIN second = 1..(F - 1) /\ \A k \in 1..(F - 1) : second[k] = Played(r[k], cycle)
    BY <1>7, <1>11
  <2>3. \A k \in 1..(F - 1) : second[k] \in U
    BY <1>13, <1>14, <2>1, <2>2
  <2>4. second \in [1..(F - 1) -> U]
    BY <1>11, <2>2, <2>3
  <2> QED
    BY <2>1, <2>2, <2>4
<1>17. PICK whole : whole = first \o second
  OBVIOUS
<1>18. whole \in Seq(U) /\ Len(whole) = N /\ DOMAIN whole = 1..N
  <2>1. whole \in Seq(U) /\ Len(whole) = Len(first) + Len(second)
    <3>1. first \in Seq(U) /\ second \in Seq(U)
      BY <1>15, <1>16
    <3> QED
      BY <1>17, <3>1, JoinedIs
  <2>2. Len(first) + Len(second) = N
    BY <1>5, <1>15, <1>16
  <2> QED
    BY <2>1, <2>2
<1>19. ASSUME NEW k \in 1..N
       PROVE  whole[k] = IF k <= N - F + 1 THEN Played(r[F + k - 1], 0)
                         ELSE Played(r[k - (N - F + 1)], cycle)
  <2>1. whole[k] = IF k <= N - F + 1 THEN first[k] ELSE second[k - (N - F + 1)]
    BY <1>5, <1>15, <1>16, <1>17
  <2>2. k <= N - F + 1 => k \in 1..(N - F + 1)
    OBVIOUS
  <2>3. ~(k <= N - F + 1) => k - (N - F + 1) \in 1..(F - 1)
    BY <1>5
  <2> QED
    BY <1>15, <1>16, <2>1, <2>2, <2>3
<1>20. whole = Rotated(r, N, F, cycle)
  BY <1>18, <1>19 DEF Rotated
<1> QED
  BY <1>3, <1>12, <1>17, <1>20

\* So does the query over the source file.
LEMMA ParquetIs ==
  ASSUME NEW file, Readable(file), NEW N \in Nat, NEW r, InRows(file, r, N),
         NEW at \in Nat, NEW F \in Nat, Splits(file, r, N, at, F)
  PROVE  ParquetOrder(file, at) = Rotated(r, N, F, Cycle(file))
<1>1. PICK T : T = Trips(file)
  OBVIOUS
<1>2. PICK cycle : cycle = Cycle(file)
  OBVIOUS
<1>3. PICK by : by = [t \in T |-> file[t].request + Shift(file, at, t)]
  OBVIOUS
<1>4. /\ F \in 1..(N + 1)
      /\ \A i \in 1..N : file[r[i]].request >= at <=> F <= i
      /\ \A i \in 1..N : r[i] \in T
      /\ \A t \in T : \E k \in 1..N : r[k] = t
  BY <1>1 DEF Splits, InRows
<1>5. \A t \in T : file[t].request \in Nat
  BY <1>1, TripsTimed
<1>6. PICK q : q = [k \in 1..N |-> IF k <= N - F + 1 THEN r[F + k - 1] ELSE r[k - (N - F + 1)]]
  OBVIOUS
<1>7. /\ \A k \in 1..N : k <= N - F + 1 => F + k - 1 \in F..N /\ q[k] = r[F + k - 1]
      /\ \A k \in 1..N : ~(k <= N - F + 1) =>
           k - (N - F + 1) \in 1..(F - 1) /\ q[k] = r[k - (N - F + 1)]
  BY <1>4, <1>6
<1>8. q \in [1..N -> T]
  BY <1>4, <1>6, <1>7
<1>9. ASSUME NEW t \in T PROVE \E k \in 1..N : q[k] = t
  <2>1. PICK i \in 1..N : r[i] = t
    BY <1>4
  <2>2. CASE F <= i
    <3>1. PICK k \in 1..N : k <= N - F + 1 /\ F + k - 1 = i
      <4>1. i - F + 1 \in 1..N /\ i - F + 1 <= N - F + 1 /\ F + (i - F + 1) - 1 = i
        BY <1>4, <2>2
      <4> QED
        BY <4>1
    <3> QED
      BY <1>7, <2>1, <3>1
  <2>3. CASE i < F
    <3>1. PICK k \in 1..N : ~(k <= N - F + 1) /\ k - (N - F + 1) = i
      <4>1. /\ i + (N - F + 1) \in 1..N /\ ~(i + (N - F + 1) <= N - F + 1)
            /\ i + (N - F + 1) - (N - F + 1) = i
        BY <1>4, <2>3
      <4> QED
        BY <4>1
    <3> QED
      BY <1>7, <2>1, <3>1
  <2> QED
    BY <1>4, <2>2, <2>3
<1>10. ASSUME NEW k \in 1..N
       PROVE  /\ Shift(file, at, q[k]) = IF k <= N - F + 1 THEN 0 ELSE cycle
              /\ by[q[k]] = file[q[k]].request + (IF k <= N - F + 1 THEN 0 ELSE cycle)
  <2>1. q[k] \in T /\ file[q[k]].request \in Nat
    BY <1>5, <1>8
  <2>2. k <= N - F + 1 => ~(file[q[k]].request < at)
    BY <1>4, <1>7, <2>1
  <2>3. ~(k <= N - F + 1) => file[q[k]].request < at
    <3>1. ~(k <= N - F + 1) => k - (N - F + 1) \in 1..N /\ ~(F <= k - (N - F + 1))
      BY <1>4
    <3> QED
      BY <1>4, <1>7, <2>1, <3>1
  <2>4. Shift(file, at, q[k]) = IF k <= N - F + 1 THEN 0 ELSE cycle
    BY <1>2, <2>2, <2>3 DEF Shift
  <2> QED
    BY <1>3, <2>1, <2>4
<1>11. N # 0 => /\ cycle \in Nat \ {0}
                /\ \A t, u \in T : file[t].request < file[u].request + cycle
  <2> SUFFICES ASSUME N # 0
               PROVE  /\ cycle \in Nat \ {0}
                      /\ \A t, u \in T : file[t].request < file[u].request + cycle
    OBVIOUS
  <2>1. Trips(file) # {}
    <3>1. r[1] \in T
      BY <1>4
    <3> QED
      BY <1>1, <3>1
  <2>2. /\ FirstRequest(file) \in Nat /\ LastRequest(file) \in Nat
        /\ \A t \in T : FirstRequest(file) <= file[t].request
                        /\ file[t].request <= LastRequest(file)
        /\ cycle \in Nat \ {0}
    BY <1>1, <1>2, <2>1, BoundsAre
  <2>3. cycle = LastRequest(file) + 1 - FirstRequest(file)
    BY <1>2 DEF Cycle
  <2> QED
    BY <1>5, <2>2, <2>3
<1>12. by \in [T -> Nat]
  <2> SUFFICES ASSUME NEW t \in T PROVE file[t].request + Shift(file, at, t) \in Nat
    BY <1>3
  <2>1. N # 0
    BY <1>4
  <2>2. Shift(file, at, t) \in Nat
    BY <1>2, <1>11, <2>1 DEF Shift
  <2> QED
    BY <1>5, <2>2
<1>13. ASSUME NEW j \in 1..N, NEW k \in 1..N, j < k PROVE <<q[j], q[k]>> \in Earlier(T, by)
  <2>1. q[j] \in T /\ q[k] \in T /\ file[q[j]].request \in Nat /\ file[q[k]].request \in Nat
    BY <1>5, <1>8
  <2>2. cycle \in Nat \ {0} /\ file[q[j]].request < file[q[k]].request + cycle
    BY <1>11, <2>1
  <2>3. ASSUME NEW x \in 1..N, NEW y \in 1..N, x < y
        PROVE  \/ file[r[x]].request < file[r[y]].request
               \/ file[r[x]].request = file[r[y]].request /\ r[x] < r[y]
    BY <2>3 DEF InRows
  <2>4. by[q[j]] < by[q[k]] \/ (by[q[j]] = by[q[k]] /\ q[j] < q[k])
    <3>1. CASE k <= N - F + 1
      <4>1. j <= N - F + 1 /\ F + j - 1 \in 1..N /\ F + k - 1 \in 1..N /\ F + j - 1 < F + k - 1
        BY <1>4, <1>13, <3>1
      <4>2. q[j] = r[F + j - 1] /\ q[k] = r[F + k - 1]
        BY <1>7, <3>1, <4>1
      <4>3. by[q[j]] = file[q[j]].request /\ by[q[k]] = file[q[k]].request
        BY <1>10, <2>1, <3>1, <4>1
      <4> QED
        BY <2>3, <4>1, <4>2, <4>3
    <3>2. CASE ~(k <= N - F + 1) /\ j <= N - F + 1
      <4>1. by[q[j]] = file[q[j]].request /\ by[q[k]] = file[q[k]].request + cycle
        BY <1>10, <2>1, <3>2
      <4> QED
        BY <2>2, <4>1
    <3>3. CASE ~(k <= N - F + 1) /\ ~(j <= N - F + 1)
      <4>1. /\ j - (N - F + 1) \in 1..N /\ k - (N - F + 1) \in 1..N
            /\ j - (N - F + 1) < k - (N - F + 1)
        BY <1>4, <1>13, <3>3
      <4>2. q[j] = r[j - (N - F + 1)] /\ q[k] = r[k - (N - F + 1)]
        BY <1>7, <3>3
      <4>3. by[q[j]] = file[q[j]].request + cycle /\ by[q[k]] = file[q[k]].request + cycle
        BY <1>10, <3>3
      <4> QED
        BY <2>1, <2>2, <2>3, <4>1, <4>2, <4>3
    <3> QED
      BY <3>1, <3>2, <3>3
  <2> QED
    BY <2>1, <2>4 DEF Earlier
<1>14. T \subseteq Nat
  BY <1>1, TripsTimed
<1>15. Ordered(T, Earlier(T, by)) = q
  <2>1. PICK before : before = Earlier(T, by)
    OBVIOUS
  <2>2. Strict(T, before)
    BY <1>12, <1>14, <2>1, EarlierStrict
  <2>3. \A j, k \in 1..N : j < k => <<q[j], q[k]>> \in before
    BY <1>13, <2>1
  <2>4. Ordered(T, before) = q
    BY <1>8, <1>9, <2>2, <2>3, ListedIs
  <2> QED
    BY <2>1, <2>4
<1>16. ParquetOrder(file, at) = [k \in DOMAIN q |-> Played(q[k], Shift(file, at, q[k]))]
  BY <1>1, <1>3, <1>15 DEF ParquetOrder, Sorted
<1>17. \A k \in 1..N : Played(q[k], Shift(file, at, q[k]))
         = IF k <= N - F + 1 THEN Played(r[F + k - 1], 0) ELSE Played(r[k - (N - F + 1)], cycle)
  BY <1>7, <1>10
<1>18. DOMAIN q = 1..N
  BY <1>6
<1> QED
  BY <1>2, <1>16, <1>17, <1>18 DEF Rotated

\* The readers give the same trips in the same order, for every file and anchor.
LEMMA SameOrder ==
  ASSUME NEW file, Readable(file), NEW at \in Nat
  PROVE  PreparedOrder(file, at) = ParquetOrder(file, at)
<1>1. PICK N \in Nat : \E r : InRows(file, r, N)
  BY RowsAre
<1>2. PICK r : InRows(file, r, N)
  BY <1>1
<1>3. PICK F \in Nat : Splits(file, r, N, at, F)
  BY <1>2, FirstLate
<1> QED
  BY <1>2, <1>3, PreparedIs, ParquetIs

\* Counting what is below numbers a finite set in a strict order.
LEMMA StrictBelow ==
  ASSUME NEW D, IsFiniteSet(D), NEW before, Strict(D, before)
  PROVE  /\ \A x \in D : Below(D, before, x) \in Nat
         /\ \A n \in 1..Cardinality(D) : \E x \in D : 1 + Below(D, before, x) = n
<1>1. \A x \in D : Below(D, before, x) \in Nat
  BY StrictNumbers DEF Below
<1>2. \A n \in 1..Cardinality(D) : \E x \in D : 1 + Below(D, before, x) = n
  BY StrictNumbers DEF Below
<1> QED
  BY <1>1, <1>2

\* The anchor of a run is a time.
LEMMA AnchorIs ==
  ASSUME NEW s, Readable(s), NEW wall \in Walls, AnchorDays(s, wall.weekday) # {}
  PROVE  SourceAnchor(s, wall) \in Nat /\ Trips(s) # {}
<1>0. /\ HourLength \in Nat \ {0} /\ DayHours \in Nat \ {0}
      /\ HourLength * DayHours \in Nat \ {0}
  BY ReplayInputAssumption
<1>1. PICK days : days = AnchorDays(s, wall.weekday)
  OBVIOUS
<1>2. Trips(s) # {}
  <2>1. PICK d \in AnchorDays(s, wall.weekday) : TRUE
    OBVIOUS
  <2>2. Requests(s) # {}
    BY <2>1 DEF AnchorDays
  <2> QED
    BY <2>2 DEF Requests
<1>3. /\ FirstRequest(s) \in Nat /\ LastRequest(s) \in Nat
      /\ \A x \in Requests(s) : x \in Nat /\ x <= LastRequest(s)
  BY <1>2, TripsTimed, BoundsAre DEF Requests
<1>4. DayOf(LastRequest(s)) \in Nat
  BY <1>0, <1>3, Division DEF DayOf
<1>5. \A d \in days : d \in 0..DayOf(LastRequest(s))
  <2> SUFFICES ASSUME NEW d \in days PROVE d \in 0..DayOf(LastRequest(s))
    OBVIOUS
  <2>1. PICK time \in Requests(s) : d \in DayOf(FirstRequest(s))..DayOf(time)
    BY <1>1 DEF AnchorDays
  <2>2. DayOf(FirstRequest(s)) \in Nat /\ DayOf(time) \in Nat
    BY <1>0, <1>3, Division DEF DayOf
  <2>3. DayOf(time) <= DayOf(LastRequest(s))
    BY <1>0, <1>3, QuotientsOrder DEF DayOf
  <2> QED
    BY <1>4, <2>1, <2>2, <2>3
<1>6. IsFiniteSet(days) /\ days \subseteq Int
  <2>1. IsFiniteSet(0..DayOf(LastRequest(s)))
    BY <1>4, FS_Interval
  <2>2. days \subseteq 0..DayOf(LastRequest(s))
    BY <1>5
  <2>3. IsFiniteSet(days)
    BY <2>1, <2>2, FS_Subset
  <2>4. days \subseteq Int
    BY <1>4, <2>2
  <2> QED
    BY <2>3, <2>4
<1>7. PICK before : before = Smaller(days)
  OBVIOUS
<1>8. Strict(days, before)
  BY <1>6, <1>7, SmallerStrict
<1>9. Cardinality(days) \in Nat \ {0}
  <2>1. Cardinality(days) \in Nat
    BY <1>6, FS_CardinalityType
  <2>2. Cardinality(days) # 0
    BY <1>1, <1>6, FS_EmptySet
  <2> QED
    BY <2>1, <2>2
<1>10. PICK nth \in 0..(Cardinality(days) - 1) : nth = Min({wall.week, Cardinality(days) - 1})
  <2>1. wall.week \in Nat
    BY WallsAssumption
  <2>2. Min({wall.week, Cardinality(days) - 1})
          = IF wall.week <= Cardinality(days) - 1 THEN wall.week ELSE Cardinality(days) - 1
    BY <1>9, <2>1, MinOfTwo
  <2> QED
    BY <1>9, <2>1, <2>2
<1>11. \E x \in days : Below(days, before, x) = nth
  <2>1. \A n \in 1..Cardinality(days) : \E x \in days : 1 + Below(days, before, x) = n
    BY <1>6, <1>8, StrictBelow
  <2>2. \A x \in days : Below(days, before, x) \in Nat
    BY <1>6, <1>8, StrictBelow
  <2>3. nth + 1 \in 1..Cardinality(days)
    BY <1>9
  <2>4. PICK x \in days : 1 + Below(days, before, x) = nth + 1
    BY <2>1, <2>3
  <2>5. Below(days, before, x) = nth
    BY <2>2, <2>4
  <2> QED
    BY <2>5
<1>12. \A x \in days : Below(days, before, x) = Cardinality({e \in days : e < x})
  <2> SUFFICES ASSUME NEW x \in days
               PROVE  Below(days, before, x) = Cardinality({e \in days : e < x})
    OBVIOUS
  <2>1. {w \in days : <<w, x>> \in before} = {e \in days : e < x}
    BY <1>7 DEF Smaller
  <2> QED
    BY <2>1 DEF Below
<1>13. PICK day \in days : day = CHOOSE d \in days : Cardinality({e \in days : e < d}) = nth
  <2>1. \E d \in days : Cardinality({e \in days : e < d}) = nth
    BY <1>11, <1>12
  <2> QED
    BY <2>1
<1>14. SourceAnchor(s, wall) = day * HourLength * DayHours + wall.clock
  BY <1>1, <1>10, <1>13 DEF SourceAnchor
<1>15. day \in Nat /\ wall.clock \in Nat
  BY <1>5, WallsAssumption
<1>16. day * HourLength * DayHours \in Nat
  BY <1>0, <1>15
<1> QED
  BY <1>2, <1>14, <1>15, <1>16

\* A list of trips in the order of their requests, none before the anchor.
InPlay(file, at, list) ==
  /\ list \in Seq([trip : Trips(file), shift : Nat])
  /\ \A j, k \in DOMAIN list : j <= k =>
       at <= file[list[j].trip].request + list[j].shift
         /\ file[list[j].trip].request + list[j].shift
              <= file[list[k].trip].request + list[k].shift

\* The rotated rows are in order and begin no earlier than the anchor.
LEMMA RotatedInPlay ==
  ASSUME NEW file, Readable(file), NEW N \in Nat, NEW r, InRows(file, r, N),
         NEW at \in Nat, NEW F \in Nat, Splits(file, r, N, at, F),
         Trips(file) # {}, at <= LastRequest(file) + 1
  PROVE  InPlay(file, at, Rotated(r, N, F, Cycle(file)))
<1>1. PICK T : T = Trips(file)
  OBVIOUS
<1>2. PICK cycle \in Nat : cycle = Cycle(file)
  BY BoundsAre
<1>3. PICK list : list = Rotated(r, N, F, cycle)
  OBVIOUS
<1>4. PICK q : q = [k \in 1..N |-> IF k <= N - F + 1 THEN F + k - 1 ELSE k - (N - F + 1)]
  OBVIOUS
<1>5. PICK c : c = [k \in 1..N |-> IF k <= N - F + 1 THEN 0 ELSE cycle]
  OBVIOUS
<1>6. /\ F \in 1..(N + 1)
      /\ \A i \in 1..N : file[r[i]].request >= at <=> F <= i
      /\ \A i \in 1..N : r[i] \in T
  BY <1>1 DEF Splits, InRows
<1>7. \A k \in 1..N : q[k] \in 1..N /\ c[k] \in Nat
  BY <1>4, <1>5, <1>6
<1>8. DOMAIN list = 1..N /\ \A k \in 1..N : list[k] = Played(r[q[k]], c[k])
  BY <1>3, <1>4, <1>5 DEF Rotated
<1>9. \A k \in 1..N : list[k].trip = r[q[k]] /\ list[k].shift = c[k]
                      /\ list[k] \in [trip : T, shift : Nat]
  <2> SUFFICES ASSUME NEW k \in 1..N
               PROVE  list[k].trip = r[q[k]] /\ list[k].shift = c[k]
                      /\ list[k] \in [trip : T, shift : Nat]
    OBVIOUS
  <2>1. r[q[k]] \in T /\ c[k] \in Nat
    BY <1>6, <1>7
  <2>2. list[k] = [trip |-> r[q[k]], shift |-> c[k]]
    BY <1>8 DEF Played
  <2> QED
    BY <2>1, <2>2
<1>10. list \in Seq([trip : T, shift : Nat])
  <2>0. PICK U : U = [trip : T, shift : Nat]
    OBVIOUS
  <2>1. list \in [1..N -> U]
    BY <1>3, <1>8, <1>9, <2>0 DEF Rotated
  <2>2. list \in Seq(U)
    BY <2>1
  <2> QED
    BY <2>0, <2>2
<1>11. PICK first \in Nat, last \in Nat :
         /\ last = LastRequest(file) /\ cycle = last + 1 - first
         /\ \A t \in T : file[t].request \in Nat /\ first <= file[t].request
                         /\ file[t].request <= last
  BY <1>1, <1>2, BoundsAre, TripsTimed DEF Cycle
<1>12. PICK req : req = [i \in 1..N |-> file[r[i]].request]
  OBVIOUS
<1>13. \A i \in 1..N : req[i] \in Nat /\ first <= req[i] /\ req[i] <= last /\ (req[i] >= at <=> F <= i)
  BY <1>6, <1>11, <1>12
<1>14. \A i, j \in 1..N : i <= j => req[i] <= req[j]
  <2> SUFFICES ASSUME NEW i \in 1..N, NEW j \in 1..N, i <= j PROVE req[i] <= req[j]
    OBVIOUS
  <2>1. i < j \/ i = j
    OBVIOUS
  <2>2. i < j => req[i] < req[j] \/ req[i] = req[j]
    BY <1>12 DEF InRows
  <2> QED
    BY <1>13, <2>1, <2>2
<1>15. ASSUME NEW j \in 1..N, NEW k \in 1..N, j <= k
       PROVE  at <= req[q[j]] + c[j] /\ req[q[j]] + c[j] <= req[q[k]] + c[k]
  <2>1. q[j] \in 1..N /\ q[k] \in 1..N
    BY <1>7
  <2>2. CASE k <= N - F + 1
    <3>1. q[j] = F + j - 1 /\ q[k] = F + k - 1 /\ c[j] = 0 /\ c[k] = 0
      BY <1>4, <1>5, <1>6, <1>15, <2>2
    <3>2. F <= q[j] /\ q[j] <= q[k]
      BY <1>6, <1>15, <3>1
    <3> QED
      BY <1>13, <1>14, <2>1, <3>1, <3>2
  <2>3. CASE ~(k <= N - F + 1) /\ j <= N - F + 1
    <3>1. q[j] = F + j - 1 /\ c[j] = 0 /\ c[k] = cycle
      BY <1>4, <1>5, <1>6, <2>3
    <3>2. F <= q[j]
      BY <1>6, <3>1
    <3> QED
      BY <1>11, <1>13, <2>1, <3>1, <3>2
  <2>4. CASE ~(k <= N - F + 1) /\ ~(j <= N - F + 1)
    <3>1. q[j] = j - (N - F + 1) /\ q[k] = k - (N - F + 1) /\ c[j] = cycle /\ c[k] = cycle
      BY <1>4, <1>5, <1>6, <2>4
    <3>2. q[j] <= q[k]
      BY <1>6, <1>15, <3>1
    <3>3. req[q[j]] <= req[q[k]]
      BY <1>14, <2>1, <3>2
    <3> QED
      BY <1>11, <1>13, <2>1, <3>1, <3>3
  <2> QED
    BY <2>2, <2>3, <2>4
<1>16. \A k \in 1..N : file[list[k].trip].request + list[k].shift = req[q[k]] + c[k]
  BY <1>7, <1>9, <1>12
<1> QED
  BY <1>1, <1>2, <1>3, <1>8, <1>10, <1>15, <1>16 DEF InPlay

\* So are those of a source at each of its anchors.
LEMMA ParquetInPlay ==
  ASSUME NEW s \in Sources, NEW at \in Anchors(s)
  PROVE  at \in Nat /\ InPlay(s, at, ParquetOrder(s, at))
<1>1. Readable(s)
  BY SourcesAssumption
<1>2. at \in Nat /\ Trips(s) # {}
  <2>1. PICK wall \in Walls : AnchorDays(s, wall.weekday) # {} /\ at = SourceAnchor(s, wall)
    BY DEF Anchors
  <2> QED
    BY <1>1, <2>1, AnchorIs
<1>3. at <= LastRequest(s) + 1
  BY AnchorsAssumption
<1>4. PICK N \in Nat : \E r : InRows(s, r, N)
  BY <1>1, RowsAre
<1>5. PICK r : InRows(s, r, N)
  BY <1>4
<1>6. PICK F \in Nat : Splits(s, r, N, at, F)
  BY <1>1, <1>2, <1>5, FirstLate
<1>7. InPlay(s, at, Rotated(r, N, F, Cycle(s)))
  BY <1>1, <1>2, <1>3, <1>5, <1>6, RotatedInPlay
<1> QED
  BY <1>1, <1>2, <1>5, <1>6, <1>7, ParquetIs

\* A part of a playlist is a playlist.
LEMMA KeptInPlay ==
  ASSUME NEW file, NEW at, NEW list, InPlay(file, at, list), NEW P, P \subseteq DOMAIN list
  PROVE  InPlay(file, at, Kept(list, P))
<1>1. PICK U : U = [trip : Trips(file), shift : Nat]
  OBVIOUS
<1>2. list \in Seq(U)
  BY <1>1 DEF InPlay
<1>3. PICK kept : kept = Kept(list, P)
  OBVIOUS
<1>4. kept \in Seq(U)
  BY <1>2, <1>3, KeptIs
<1>5. ASSUME NEW j \in DOMAIN kept, NEW k \in DOMAIN kept, j <= k
      PROVE  \E h, i \in P : h <= i /\ kept[j] = list[h] /\ kept[k] = list[i]
  BY <1>2, <1>3, <1>5, KeptIs
<1>6. ASSUME NEW j \in DOMAIN kept, NEW k \in DOMAIN kept, j <= k
      PROVE  at <= file[kept[j].trip].request + kept[j].shift
             /\ file[kept[j].trip].request + kept[j].shift
                  <= file[kept[k].trip].request + kept[k].shift
  <2>1. PICK h \in P, i \in P : h <= i /\ kept[j] = list[h] /\ kept[k] = list[i]
    BY <1>5, <1>6
  <2> QED
    BY <2>1 DEF InPlay
<1> QED
  BY <1>1, <1>3, <1>4, <1>6 DEF InPlay

\* What the readers bring is in order, and the shards of it are.
LEMMA PlaylistsOrdered == PlaylistsInOrder
<1> SUFFICES ASSUME NEW s \in Sources, NEW at \in Anchors(s)
             PROVE  /\ at \in Nat
                    /\ \A list \in {ParquetTrips[s][at], PreparedTrips[s][at]}
                                     \cup {OfWorker(PreparedTrips[s][at], w) : w \in Workers} :
                         InPlay(s, at, list)
  BY DEF PlaylistsInOrder, InPlay
<1>1. at \in Nat /\ InPlay(s, at, ParquetOrder(s, at))
  BY ParquetInPlay
<1>2. PICK order : order = ParquetOrder(s, at)
  OBVIOUS
<1>3. PreparedOrder(s, at) = order
  BY <1>1, <1>2, SameOrder, SourcesAssumption
<1>4. PICK list : list = Sampled(s, order)
  OBVIOUS
<1>5. ParquetTrips[s][at] = list /\ PreparedTrips[s][at] = list
  BY <1>2, <1>3, <1>4 DEF ParquetTrips, PreparedTrips
<1>6. InPlay(s, at, list)
  BY <1>1, <1>2, <1>4, KeptInPlay DEF Sampled
<1>7. ASSUME NEW w \in Workers PROVE InPlay(s, at, OfWorker(list, w))
  BY <1>6, KeptInPlay DEF OfWorker
<1> QED
  BY <1>1, <1>5, <1>6, <1>7

\* Both readers bring the same trips, and every trip is of one shard.
LEMMA PlaylistsDivided == PlaylistsShared
<1> SUFFICES ASSUME NEW s \in Sources, NEW at \in Anchors(s)
             PROVE  /\ Range(PreparedTrips[s][at]) = Range(ParquetTrips[s][at])
                    /\ \A w \in Workers :
                         Range(OfWorker(PreparedTrips[s][at], w)) \subseteq Range(PreparedTrips[s][at])
                    /\ \A p \in Range(PreparedTrips[s][at]) : \E w \in Workers :
                         \A v \in Workers : p \in Range(OfWorker(PreparedTrips[s][at], v)) <=> v = w
  BY DEF PlaylistsShared
<1>1. at \in Nat /\ InPlay(s, at, ParquetOrder(s, at))
  BY ParquetInPlay
<1>2. PICK order : order = ParquetOrder(s, at)
  OBVIOUS
<1>3. PreparedOrder(s, at) = order
  BY <1>1, <1>2, SameOrder, SourcesAssumption
<1>4. PICK list : list = Sampled(s, order)
  OBVIOUS
<1>5. ParquetTrips[s][at] = list /\ PreparedTrips[s][at] = list
  BY <1>2, <1>3, <1>4 DEF ParquetTrips, PreparedTrips
<1>6. InPlay(s, at, list)
  BY <1>1, <1>2, <1>4, KeptInPlay DEF Sampled
<1>7. PICK U : U = [trip : Trips(s), shift : Nat]
  OBVIOUS
<1>8. list \in Seq(U) /\ \A k \in DOMAIN list : list[k].trip \in Trips(s)
  <2>1. list \in Seq(U)
    BY <1>6, <1>7 DEF InPlay
  <2>2. \A u \in U : u.trip \in Trips(s)
    BY <1>7
  <2>3. \A k \in DOMAIN list : list[k] \in U
    BY <2>1
  <2> QED
    BY <2>1, <2>2, <2>3
<1>9. ASSUME NEW v \in Workers, NEW p
      PROVE  p \in Range(OfWorker(list, v)) <=> p \in Range(list) /\ Shard[p.trip] = v
  <2>1. PICK P : P = {k \in DOMAIN list : Shard[list[k].trip] = v}
    OBVIOUS
  <2>2. P \subseteq DOMAIN list
    BY <2>1
  <2>3. PICK kept : kept = Kept(list, P)
    OBVIOUS
  <2>4. \A k \in DOMAIN kept : \E i \in P : kept[k] = list[i]
    BY <1>8, <2>2, <2>3, KeptIs
  <2>5. \A i \in P : \E k \in DOMAIN kept : kept[k] = list[i]
    BY <1>8, <2>2, <2>3, KeptIs
  <2>6. OfWorker(list, v) = kept
    BY <2>1, <2>3 DEF OfWorker
  <2>7. p \in Range(kept) => p \in Range(list) /\ Shard[p.trip] = v
    BY <2>1, <2>4 DEF Range
  <2>8. p \in Range(list) /\ Shard[p.trip] = v => p \in Range(kept)
    BY <2>1, <2>5 DEF Range
  <2> QED
    BY <2>6, <2>7, <2>8
<1>10. \A p \in Range(list) : Shard[p.trip] \in Workers
  BY <1>8, ShardAssumption DEF Range
<1>11. \A w \in Workers : Range(OfWorker(list, w)) \subseteq Range(list)
  BY <1>9
<1>12. \A p \in Range(list) : \E w \in Workers : \A v \in Workers :
         p \in Range(OfWorker(list, v)) <=> v = w
  BY <1>9, <1>10
<1> QED
  BY <1>5, <1>11, <1>12

-----------------------------------------------------------------------------
(***************************************************************************)
(* Sums and products of lists.                                             *)
(***************************************************************************)
\* What is accumulated: a sum, a product, or routes of a network.
Begun(kind) ==
  CASE kind = "sum" -> 0 [] kind = "product" -> 1 [] kind = "routes" -> {NoRoute}

With(kind, data, a, k) ==
  CASE kind = "sum" -> a + data[k]
    [] kind = "product" -> a * data[k]
    [] kind = "routes" -> a \cup Longer(data[1], data[2], a)

\* What was accumulated up to n.
AccumulatedTo(kind, data, g, n) ==
  /\ g = [k \in 0..n |-> g[k]]
  /\ g[0] = Begun(kind)
  /\ \A k \in 1..n : g[k] = With(kind, data, g[k - 1], k)

\* A recursion can be followed up to any number: a least counterexample has a
\* predecessor, which can be extended.
LEMMA AccumulatedExists ==
  ASSUME NEW kind, NEW data, NEW n \in Nat
  PROVE  \E g : AccumulatedTo(kind, data, g, n)
<1>1. PICK T : T = {m \in Nat : ~ \E g : AccumulatedTo(kind, data, g, m)}
  OBVIOUS
<1>2. SUFFICES ASSUME T # {} PROVE FALSE
  BY <1>1
<1>3. PICK m \in T : \A y \in T : m <= y
  BY <1>1, <1>2, Smallest
<1>4. m \in Nat /\ ~ \E g : AccumulatedTo(kind, data, g, m)
  BY <1>1
<1>5. CASE m = 0
  <2>1. PICK g : g = [k \in 0..0 |-> Begun(kind)]
    OBVIOUS
  <2>2. g = [k \in 0..0 |-> g[k]] /\ g[0] = Begun(kind)
    BY <2>1
  <2>3. AccumulatedTo(kind, data, g, 0)
    BY <2>2 DEF AccumulatedTo
  <2> QED
    BY <1>4, <1>5, <2>3
<1>6. CASE m # 0
  <2>1. m - 1 \in Nat /\ m - 1 \notin T
    BY <1>3, <1>4, <1>6
  <2>2. PICK g : AccumulatedTo(kind, data, g, m - 1)
    BY <1>1, <2>1
  <2>3. PICK h : h = [k \in 0..m |-> IF k = m THEN With(kind, data, g[m - 1], m) ELSE g[k]]
    OBVIOUS
  <2>4. h = [k \in 0..m |-> h[k]]
    BY <2>3
  <2>5. h[0] = Begun(kind)
    BY <1>4, <1>6, <2>2, <2>3 DEF AccumulatedTo
  <2>6. ASSUME NEW k \in 1..m PROVE h[k] = With(kind, data, h[k - 1], k)
    <3>1. h[k - 1] = g[k - 1]
      BY <1>4, <2>3
    <3>2. CASE k = m
      BY <1>4, <2>3, <3>1, <3>2
    <3>3. CASE k # m
      <4>1. k \in 1..(m - 1) /\ h[k] = g[k]
        BY <1>4, <2>3, <3>3
      <4> QED
        BY <2>2, <3>1, <4>1 DEF AccumulatedTo
    <3> QED
      BY <3>2, <3>3
  <2>7. AccumulatedTo(kind, data, h, m)
    BY <2>4, <2>5, <2>6 DEF AccumulatedTo
  <2> QED
    BY <1>4, <2>7
<1> QED
  BY <1>5, <1>6

\* Two of them agree as far as both go.
LEMMA AccumulatedSame ==
  ASSUME NEW kind, NEW data, NEW n \in Nat, NEW m \in Nat, NEW g, NEW h,
         AccumulatedTo(kind, data, g, n), AccumulatedTo(kind, data, h, m), NEW k \in Nat, k <= n, k <= m
  PROVE  g[k] = h[k]
<1>1. PICK T : T = {j \in Nat : j <= n /\ j <= m /\ g[j] # h[j]}
  OBVIOUS
<1>2. SUFFICES ASSUME T # {} PROVE FALSE
  BY <1>1
<1>3. PICK j \in T : \A y \in T : j <= y
  BY <1>1, <1>2, Smallest
<1>4. j \in Nat /\ j <= n /\ j <= m /\ g[j] # h[j]
  BY <1>1
<1>5. j # 0
  BY <1>4 DEF AccumulatedTo
<1>6. j - 1 \in Nat /\ j - 1 \notin T
  BY <1>3, <1>4, <1>5
<1>7. g[j - 1] = h[j - 1]
  BY <1>1, <1>4, <1>6
<1>8. j \in 1..n /\ j \in 1..m
  BY <1>4, <1>5
<1>9. g[j] = With(kind, data, g[j - 1], j) /\ h[j] = With(kind, data, h[j - 1], j)
  BY <1>8 DEF AccumulatedTo
<1> QED
  BY <1>4, <1>7, <1>9

Accumulates(kind, data, f) ==
  f = [k \in Nat |-> IF k = 0 THEN Begun(kind) ELSE With(kind, data, f[k - 1], k)]

\* So the recursion has a solution on all numbers.
LEMMA AccumulatedFunction ==
  ASSUME NEW kind, NEW data
  PROVE  \E f : Accumulates(kind, data, f)
<1>1. PICK run1 : run1 = [n \in Nat |-> CHOOSE g : AccumulatedTo(kind, data, g, n)]
  OBVIOUS
<1>2. \A n \in Nat : AccumulatedTo(kind, data, run1[n], n)
  BY <1>1, AccumulatedExists
<1>3. PICK f : f = [n \in Nat |-> run1[n][n]]
  OBVIOUS
<1>4. ASSUME NEW k \in Nat
      PROVE  f[k] = IF k = 0 THEN Begun(kind) ELSE With(kind, data, f[k - 1], k)
  <2>1. CASE k = 0
    BY <1>2, <1>3, <2>1 DEF AccumulatedTo
  <2>2. CASE k # 0
    <3>1. k - 1 \in Nat /\ k \in 1..k /\ k - 1 <= k
      BY <2>2
    <3>2. run1[k][k] = With(kind, data, run1[k][k - 1], k)
      BY <1>2, <3>1 DEF AccumulatedTo
    <3>3. AccumulatedTo(kind, data, run1[k], k) /\ AccumulatedTo(kind, data, run1[k - 1], k - 1)
      BY <1>2, <3>1
    <3>4. run1[k][k - 1] = run1[k - 1][k - 1]
      <4>1. PICK g, h : g = run1[k] /\ h = run1[k - 1]
        OBVIOUS
      <4>2. AccumulatedTo(kind, data, g, k) /\ AccumulatedTo(kind, data, h, k - 1) /\ k - 1 <= k - 1
        BY <3>1, <3>3, <4>1
      <4>3. g[k - 1] = h[k - 1]
        BY <3>1, <4>2, AccumulatedSame
      <4> QED
        BY <4>1, <4>3
    <3> QED
      BY <1>3, <2>2, <3>1, <3>2, <3>4
  <2> QED
    BY <2>1, <2>2
<1>5. f = [k \in Nat |-> IF k = 0 THEN Begun(kind) ELSE With(kind, data, f[k - 1], k)]
  BY <1>3, <1>4
<1> QED
  BY <1>5 DEF Accumulates

\* The sum of a list, term by term.
LEMMA TotalIs ==
  ASSUME NEW list
  PROVE  /\ Total(list, 0) = 0
         /\ \A n \in Nat : Total(list, n + 1) = Total(list, n) + list[n + 1]
<1> DEFINE f == CHOOSE upTo : upTo = [k \in Nat |-> IF k = 0 THEN 0 ELSE upTo[k - 1] + list[k]]
<1>1. \A n : Total(list, n) = f[n]
  BY DEF Total
<1>2. \E g : g = [k \in Nat |-> IF k = 0 THEN 0 ELSE g[k - 1] + list[k]]
  <2>1. PICK g : Accumulates("sum", list, g)
    BY AccumulatedFunction
  <2>2. g = [k \in Nat |-> IF k = 0 THEN 0 ELSE g[k - 1] + list[k]]
    BY <2>1 DEF Accumulates, Begun, With
  <2> QED
    BY <2>2
<1>3. f = [k \in Nat |-> IF k = 0 THEN 0 ELSE f[k - 1] + list[k]]
  BY <1>2
<1> HIDE DEF f
<1>4. f[0] = 0 /\ \A n \in Nat : f[n + 1] = f[n] + list[n + 1]
  <2>1. \A k \in Nat : f[k] = IF k = 0 THEN 0 ELSE f[k - 1] + list[k]
    BY <1>3
  <2>2. \A n \in Nat : n + 1 \in Nat /\ n + 1 # 0 /\ n + 1 - 1 = n
    OBVIOUS
  <2> QED
    BY <2>1, <2>2
<1> QED
  BY <1>1, <1>4

\* The product of a list, factor by factor.
LEMMA ProductIs ==
  ASSUME NEW list
  PROVE  /\ Product(list, 0) = 1
         /\ \A n \in Nat : Product(list, n + 1) = Product(list, n) * list[n + 1]
<1> DEFINE f == CHOOSE upTo : upTo = [k \in Nat |-> IF k = 0 THEN 1 ELSE upTo[k - 1] * list[k]]
<1>1. \A n : Product(list, n) = f[n]
  BY DEF Product
<1>2. \E g : g = [k \in Nat |-> IF k = 0 THEN 1 ELSE g[k - 1] * list[k]]
  <2>1. PICK g : Accumulates("product", list, g)
    BY AccumulatedFunction
  <2>2. g = [k \in Nat |-> IF k = 0 THEN 1 ELSE g[k - 1] * list[k]]
    BY <2>1 DEF Accumulates, Begun, With
  <2> QED
    BY <2>2
<1>3. f = [k \in Nat |-> IF k = 0 THEN 1 ELSE f[k - 1] * list[k]]
  BY <1>2
<1> HIDE DEF f
<1>4. f[0] = 1 /\ \A n \in Nat : f[n + 1] = f[n] * list[n + 1]
  <2>1. \A k \in Nat : f[k] = IF k = 0 THEN 1 ELSE f[k - 1] * list[k]
    BY <1>3
  <2>2. \A n \in Nat : n + 1 \in Nat /\ n + 1 # 0 /\ n + 1 - 1 = n
    OBVIOUS
  <2> QED
    BY <2>1, <2>2
<1> QED
  BY <1>1, <1>4

\* A sum of numbers is one, and not below any of them.
LEMMA TotalNat ==
  ASSUME NEW N \in Nat, NEW list, \A k \in 1..N : list[k] \in Nat
  PROVE  /\ \A n \in 0..N : Total(list, n) \in Nat
         /\ \A i \in 1..N : list[i] <= Total(list, N)
<1>1. PICK s : s = [n \in 0..N |-> Total(list, n)]
  OBVIOUS
<1>2. s[0] = 0 /\ \A n \in 0..N : n # 0 => n - 1 \in 0..N /\ s[n] = s[n - 1] + list[n]
  <2>1. s[0] = 0
    BY <1>1, TotalIs
  <2>2. ASSUME NEW n \in 0..N, n # 0 PROVE n - 1 \in 0..N /\ s[n] = s[n - 1] + list[n]
    <3>1. n - 1 \in 0..N /\ n - 1 \in Nat /\ n - 1 + 1 = n
      BY <2>2
    <3>2. Total(list, n - 1 + 1) = Total(list, n - 1) + list[n - 1 + 1]
      BY <3>1, TotalIs
    <3> QED
      BY <1>1, <3>1, <3>2
  <2> QED
    BY <2>1, <2>2
<1>3. PICK T : T = {n \in 0..N : ~(s[n] \in Nat /\ \A i \in 1..n : list[i] <= s[n])}
  OBVIOUS
<1>4. T = {}
  <2> SUFFICES ASSUME T # {} PROVE FALSE
    OBVIOUS
  <2>1. T \subseteq Nat
    BY <1>3
  <2>2. PICK m \in T : \A y \in T : m <= y
    BY <2>1, Smallest
  <2>3. m \in 0..N /\ ~(s[m] \in Nat /\ \A i \in 1..m : list[i] <= s[m])
    BY <1>3
  <2>4. m # 0
    BY <1>2, <2>3
  <2>5. m - 1 \in 0..N /\ s[m] = s[m - 1] + list[m] /\ list[m] \in Nat
    BY <1>2, <2>3, <2>4
  <2>6. m - 1 \notin T
    BY <2>2, <2>3, <2>5
  <2>7. s[m - 1] \in Nat /\ \A i \in 1..(m - 1) : list[i] <= s[m - 1]
    BY <1>3, <2>5, <2>6
  <2>8. s[m] \in Nat
    BY <2>5, <2>7
  <2>9. ASSUME NEW i \in 1..m PROVE list[i] <= s[m]
    <3>1. CASE i = m
      BY <2>5, <2>7, <3>1
    <3>2. CASE i # m
      <4>1. i \in 1..(m - 1) /\ i \in 1..N
        BY <2>3, <3>2
      <4> QED
        BY <2>5, <2>7, <2>8, <4>1
    <3> QED
      BY <3>1, <3>2
  <2> QED
    BY <2>3, <2>8, <2>9
<1>5. \A n \in 0..N : s[n] \in Nat
  BY <1>3, <1>4
<1>6. \A i \in 1..N : list[i] <= s[N]
  <2>1. N \in 0..N /\ N \notin T
    BY <1>4
  <2> QED
    BY <1>3, <2>1
<1>7. \A n \in 0..N : Total(list, n) = s[n]
  BY <1>1
<1> QED
  BY <1>5, <1>6, <1>7

\* Sums are compared by their terms.
LEMMA TotalsCompare ==
  ASSUME NEW N \in Nat, NEW p, NEW q, \A k \in 1..N : p[k] \in Nat /\ q[k] \in Nat,
         NEW a \in Nat, NEW b \in Nat, \A k \in 1..N : a * p[k] <= b * q[k]
  PROVE  a * Total(p, N) <= b * Total(q, N)
<1>1. PICK s : s = [n \in 0..N |-> Total(p, n)]
  OBVIOUS
<1>2. PICK t : t = [n \in 0..N |-> Total(q, n)]
  OBVIOUS
<1>3. \A n \in 0..N : s[n] \in Nat /\ t[n] \in Nat
  BY <1>1, <1>2, TotalNat
<1>4. s[0] = 0 /\ t[0] = 0
  BY <1>1, <1>2, TotalIs
<1>5. ASSUME NEW n \in 0..N, n # 0
      PROVE  n - 1 \in 0..N /\ n \in 1..N /\ s[n] = s[n - 1] + p[n] /\ t[n] = t[n - 1] + q[n]
  <2>1. n - 1 \in 0..N /\ n - 1 \in Nat /\ n - 1 + 1 = n /\ n \in 1..N
    BY <1>5
  <2>2. /\ Total(p, n - 1 + 1) = Total(p, n - 1) + p[n - 1 + 1]
        /\ Total(q, n - 1 + 1) = Total(q, n - 1) + q[n - 1 + 1]
    BY <2>1, TotalIs
  <2> QED
    BY <1>1, <1>2, <2>1, <2>2
<1>6. PICK T : T = {n \in 0..N : ~(a * s[n] <= b * t[n])}
  OBVIOUS
<1>7. T = {}
  <2> SUFFICES ASSUME T # {} PROVE FALSE
    OBVIOUS
  <2>1. T \subseteq Nat
    BY <1>6
  <2>2. PICK m \in T : \A y \in T : m <= y
    BY <2>1, Smallest
  <2>3. m \in 0..N /\ ~(a * s[m] <= b * t[m])
    BY <1>6
  <2>4. m # 0
    BY <1>4, <2>3
  <2>5. /\ m - 1 \in 0..N /\ m \in 1..N
        /\ s[m] = s[m - 1] + p[m] /\ t[m] = t[m - 1] + q[m]
    BY <1>5, <2>3, <2>4
  <2>6. m - 1 \notin T
    BY <2>2, <2>3, <2>5
  <2>7. a * s[m - 1] <= b * t[m - 1]
    BY <1>6, <2>5, <2>6
  <2>8. PICK x \in Nat, y \in Nat, u \in Nat, v \in Nat :
          x = s[m - 1] /\ y = t[m - 1] /\ u = p[m] /\ v = q[m]
    BY <1>3, <2>5
  <2>9. a * (x + u) = a * x + a * u /\ b * (y + v) = b * y + b * v
    OBVIOUS
  <2>10. a * x <= b * y /\ a * u <= b * v
    BY <2>5, <2>7, <2>8
  <2>11. a * x \in Nat /\ a * u \in Nat /\ b * y \in Nat /\ b * v \in Nat
    OBVIOUS
  <2>12. a * (x + u) <= b * (y + v)
    BY <2>9, <2>10, <2>11
  <2> QED
    BY <2>3, <2>5, <2>8, <2>12
<1>8. N \in 0..N /\ N \notin T
  BY <1>7
<1> QED
  BY <1>1, <1>2, <1>6, <1>8

\* Every factor divides a product.
LEMMA ProductDivides ==
  ASSUME NEW N \in Nat, NEW list, \A k \in 1..N : list[k] \in Nat \ {0}
  PROVE  /\ Product(list, N) \in Nat \ {0}
         /\ \A i \in 1..N : \E q \in Nat \ {0} : Product(list, N) = q * list[i]
<1>1. PICK s : s = [n \in 0..N |-> Product(list, n)]
  OBVIOUS
<1>2. s[0] = 1
  BY <1>1, ProductIs
<1>3. ASSUME NEW n \in 0..N, n # 0
      PROVE  n - 1 \in 0..N /\ n \in 1..N /\ s[n] = s[n - 1] * list[n]
  <2>1. n - 1 \in 0..N /\ n - 1 \in Nat /\ n - 1 + 1 = n /\ n \in 1..N
    BY <1>3
  <2>2. Product(list, n - 1 + 1) = Product(list, n - 1) * list[n - 1 + 1]
    BY <2>1, ProductIs
  <2> QED
    BY <1>1, <2>1, <2>2
<1>4. PICK T : T = {n \in 0..N : ~(/\ s[n] \in Nat \ {0}
                                   /\ \A i \in 1..n : \E q \in Nat \ {0} : s[n] = q * list[i])}
  OBVIOUS
<1>5. T = {}
  <2> SUFFICES ASSUME T # {} PROVE FALSE
    OBVIOUS
  <2>1. T \subseteq Nat
    BY <1>4
  <2>2. PICK m \in T : \A y \in T : m <= y
    BY <2>1, Smallest
  <2>3. /\ m \in 0..N
        /\ ~(s[m] \in Nat \ {0} /\ \A i \in 1..m : \E q \in Nat \ {0} : s[m] = q * list[i])
    BY <1>4
  <2>4. m # 0
    BY <1>2, <2>3
  <2>5. m - 1 \in 0..N /\ m \in 1..N /\ s[m] = s[m - 1] * list[m] /\ list[m] \in Nat \ {0}
    BY <1>3, <2>3, <2>4
  <2>6. m - 1 \notin T
    BY <2>2, <2>3, <2>5
  <2>7. /\ s[m - 1] \in Nat \ {0}
        /\ \A i \in 1..(m - 1) : \E q \in Nat \ {0} : s[m - 1] = q * list[i]
    BY <1>4, <2>5, <2>6
  <2>8. PICK x \in Nat \ {0}, u \in Nat \ {0} : x = s[m - 1] /\ u = list[m]
    BY <2>5, <2>7
  <2>9. \A c, d \in Nat \ {0} : c * d \in Nat \ {0}
    OBVIOUS
  <2>10. s[m] = x * u /\ s[m] \in Nat \ {0}
    BY <2>5, <2>8, <2>9
  <2>11. ASSUME NEW i \in 1..m PROVE \E q \in Nat \ {0} : s[m] = q * list[i]
    <3>1. CASE i = m
      BY <2>8, <2>10, <3>1
    <3>2. CASE i # m
      <4>1. i \in 1..(m - 1) /\ i \in 1..N
        BY <2>3, <3>2
      <4>2. PICK q \in Nat \ {0} : x = q * list[i]
        BY <2>7, <2>8, <4>1
      <4>3. PICK v \in Nat \ {0} : v = list[i]
        BY <4>1
      <4>4. q * u \in Nat \ {0}
        BY <2>9
      <4>5. (q * v) * u = (q * u) * v
        OBVIOUS
      <4>6. s[m] = (q * u) * v
        BY <2>10, <4>2, <4>3, <4>5
      <4> QED
        BY <4>3, <4>4, <4>6
    <3> QED
      BY <3>1, <3>2
  <2> QED
    BY <2>3, <2>10, <2>11
<1>6. N \in 0..N /\ N \notin T
  BY <1>5
<1> QED
  BY <1>1, <1>4, <1>6

-----------------------------------------------------------------------------
(***************************************************************************)
(* Ratios.                                                                 *)
(***************************************************************************)
Ratios == {<<a, b>> : a \in Nat, b \in Nat \ {0}}

\* A ratio is a pair with a positive denominator.
LEMMA RatioIs ==
  /\ \A p \in Ratios : p[1] \in Nat /\ p[2] \in Nat \ {0}
  /\ \A a \in Nat, b \in Nat \ {0} : <<a, b>> \in Ratios
BY DEF Ratios

\* What is not above something is not above what that is not above.
LEMMA NotLess ==
  ASSUME NEW p \in Ratios, NEW q \in Ratios, NEW r \in Ratios, ~Less(q, p), ~Less(r, q)
  PROVE  ~Less(r, p)
<1>1. PICK i \in Nat, m \in Nat \ {0} : i = p[1] /\ m = p[2]
  BY RatioIs
<1>2. PICK j \in Nat, n \in Nat \ {0} : j = q[1] /\ n = q[2]
  BY RatioIs
<1>3. PICK l \in Nat, k \in Nat \ {0} : l = r[1] /\ k = r[2]
  BY RatioIs
<1>4. \A x, y \in Nat : x * y \in Int
  OBVIOUS
<1>5. i * n <= j * m /\ j * k <= l * n
  BY <1>1, <1>2, <1>3, <1>4 DEF Less
<1>6. i * k <= l * m
  BY <1>5, FractionsOrder
<1> QED
  BY <1>1, <1>3, <1>4, <1>6 DEF Less

\* No ratio is less than itself, and no two are less than each other.
LEMMA LessOr ==
  ASSUME NEW p \in Ratios, NEW q \in Ratios
  PROVE  ~Less(p, p) /\ (Less(p, q) => ~Less(q, p))
<1>1. PICK i \in Nat, m \in Nat \ {0} : i = p[1] /\ m = p[2]
  BY RatioIs
<1>2. PICK j \in Nat, n \in Nat \ {0} : j = q[1] /\ n = q[2]
  BY RatioIs
<1>3. \A x, y \in Nat : x * y \in Int
  OBVIOUS
<1> QED
  BY <1>1, <1>2, <1>3 DEF Less

\* What is at least as small as all of the others.
LEMMA LeastIs ==
  ASSUME NEW R, \E p \in R : \A q \in R : ~Less(q, p)
  PROVE  Least(R) \in R /\ \A q \in R : ~Less(q, Least(R))
BY DEF Least

\* The least of two ratios is one of them, and neither is less.
LEMMA LeastOfTwo ==
  ASSUME NEW p \in Ratios, NEW q \in Ratios
  PROVE  Least({p, q}) \in Ratios /\ ~Less(p, Least({p, q})) /\ ~Less(q, Least({p, q}))
<1>1. \E x \in {p, q} : \A y \in {p, q} : ~Less(y, x)
  BY LessOr
<1>2. Least({p, q}) \in {p, q} /\ \A y \in {p, q} : ~Less(y, Least({p, q}))
  BY <1>1, LeastIs
<1> QED
  BY <1>2

\* A list of ratios has a least one.
LEMMA LeastOfList ==
  ASSUME NEW a \in Nat, NEW b \in Nat, a <= b, NEW f, \A k \in a..b : f[k] \in Ratios
  PROVE  \E i \in a..b : \A k \in a..b : ~Less(f[k], f[i])
<1>1. PICK T : T = {n \in a..b : ~ \E i \in a..n : \A k \in a..n : ~Less(f[k], f[i])}
  OBVIOUS
<1>2. T = {}
  <2> SUFFICES ASSUME T # {} PROVE FALSE
    OBVIOUS
  <2>1. T \subseteq Nat
    BY <1>1
  <2>2. PICK m \in T : \A y \in T : m <= y
    BY <2>1, Smallest
  <2>3. m \in a..b /\ ~ \E i \in a..m : \A k \in a..m : ~Less(f[k], f[i])
    BY <1>1
  <2>4. m # a
    <3> SUFFICES ASSUME m = a PROVE FALSE
      OBVIOUS
    <3>1. a \in a..m /\ \A k \in a..m : k = a
      OBVIOUS
    <3>2. ~Less(f[a], f[a])
      BY LessOr
    <3> QED
      BY <2>3, <3>1, <3>2
  <2>5. m - 1 \in a..b /\ m - 1 \notin T
    BY <2>2, <2>3, <2>4
  <2>6. PICK i \in a..(m - 1) : \A k \in a..(m - 1) : ~Less(f[k], f[i])
    BY <1>1, <2>5
  <2>7. i \in a..m /\ i \in a..b /\ f[i] \in Ratios /\ f[m] \in Ratios
    BY <2>3
  <2>8. \A k \in a..m : k \in a..b /\ (k = m \/ k \in a..(m - 1))
    BY <2>3
  <2>9. CASE Less(f[m], f[i])
    <3>1. ~Less(f[m], f[m])
      BY <2>7, LessOr
    <3>2. ASSUME NEW k \in a..(m - 1) PROVE ~Less(f[k], f[m])
      <4>1. ~Less(f[i], f[m])
        BY <2>7, <2>9, LessOr
      <4>2. k \in a..b /\ f[k] \in Ratios /\ ~Less(f[k], f[i])
        BY <2>3, <2>6
      <4> QED
        BY <2>7, <4>1, <4>2, NotLess
    <3>3. m \in a..m
      BY <2>3
    <3> QED
      BY <2>3, <2>8, <3>1, <3>2, <3>3
  <2>10. CASE ~Less(f[m], f[i])
    BY <2>3, <2>6, <2>7, <2>8, <2>10
  <2> QED
    BY <2>9, <2>10
<1>3. b \in a..b /\ b \notin T
  BY <1>2
<1> QED
  BY <1>1, <1>3

-----------------------------------------------------------------------------
(***************************************************************************)
(* The sampling plan.                                                      *)
(***************************************************************************)
\* Of some trips, one is the last by any times.
LEMMA LatestIs ==
  ASSUME NEW T, T \subseteq Nat, IsFiniteSet(T), T # {}, NEW at \in [T -> Nat]
  PROVE  \E x \in T : \A y \in T : at[y] <= at[x]
<1>1. PICK before : before = Earlier(T, at)
  OBVIOUS
<1>2. Strict(T, before)
  BY <1>1, EarlierStrict
<1>o. PICK o : o = Ordered(T, before)
  OBVIOUS
<1>3. PICK N \in Nat : /\ o \in [1..N -> T]
                       /\ \A x \in T : \E n \in 1..N : o[n] = x
                       /\ \A m, n \in 1..N : m < n => <<o[m], o[n]>> \in before
  <2>1. Cardinality(T) \in Nat /\ Ordered(T, before) \in [1..Cardinality(T) -> T]
    BY <1>2, OrderedIs
  <2>2. \A x \in T : \E n \in 1..Cardinality(T) : Ordered(T, before)[n] = x
    BY <1>2, OrderedIs
  <2>3. \A m, n \in 1..Cardinality(T) : m < n =>
          <<Ordered(T, before)[m], Ordered(T, before)[n]>> \in before
    BY <1>2, OrderedIs
  <2> QED
    BY <1>o, <2>1, <2>2, <2>3
<1>4. N # 0
  <2>1. PICK y \in T : TRUE
    OBVIOUS
  <2>2. PICK n \in 1..N : o[n] = y
    BY <1>3, <2>1
  <2> QED
    BY <2>2
<1>5. o[N] \in T /\ N \in 1..N
  BY <1>3, <1>4
<1>6. ASSUME NEW y \in T PROVE at[y] <= at[o[N]]
  <2>1. PICK n \in 1..N : o[n] = y
    BY <1>3
  <2>2. n = N \/ n < N
    BY <1>3
  <2>3. n < N => at[y] < at[o[N]] \/ at[y] = at[o[N]]
    BY <1>1, <1>3, <1>5, <2>1 DEF Earlier
  <2>4. at[y] \in Nat /\ at[o[N]] \in Nat
    BY <1>5
  <2> QED
    BY <2>1, <2>2, <2>3, <2>4
<1> QED
  BY <1>5, <1>6

\* The events of a row in an hour; in the hour of the drop-off there is one.
LEMMA ExpectedIs ==
  ASSUME NEW file, Readable(file), NEW t \in Trips(file), NEW h \in Nat
  PROVE  /\ ExpectedEvents(file[t], h) \in Nat
         /\ h = Hour(file[t].dropoff) => ExpectedEvents(file[t], h) >= 1
<1>1. PICK d \in Nat, p \in Nat : d = file[t].dropoff /\ p = file[t].pickup
  BY TripsTimed
<1>2. PICK start \in Nat, end \in Nat : start = h * HourLength /\ end = start + HourLength
  BY ReplayInputAssumption
<1>3. Min({d, end}) \in Int /\ Max({p, start}) \in Int
  BY MinOfTwo, MaxOfTwo
<1>4. PICK x \in Int : x = Min({d, end}) - Max({p, start})
  BY <1>3
<1>5. Max({0, x}) \in Nat
  BY MaxOfTwo
<1>6. ExpectedEvents(file[t], h) = Max({0, x}) + (IF Hour(d) = h THEN 1 ELSE 0)
  BY <1>1, <1>2, <1>4 DEF ExpectedEvents
<1> QED
  BY <1>1, <1>5, <1>6

\* The events of a trip in an hour are a number, and part of those of the hour.
LEMMA EventsAre ==
  ASSUME NEW file, Readable(file), NEW h \in Nat
  PROVE  /\ \A t \in 1..Len(file) : Events(file, h)[t] \in Nat
         /\ HourlyEvents(file, h) \in Nat
         /\ \A t \in 1..Len(file) : Events(file, h)[t] <= HourlyEvents(file, h)
<1>1. Len(file) \in Nat /\ DOMAIN file = 1..Len(file)
  BY TripsTimed
<1>2. \A t \in 1..Len(file) :
        Events(file, h)[t] = IF Spans(file, t, h) THEN ExpectedEvents(file[t], h) ELSE 0
  BY <1>1 DEF Events
<1>3. \A t \in 1..Len(file) : Events(file, h)[t] \in Nat
  BY <1>2, ExpectedIs DEF Spans
<1>4. PICK list : list = Events(file, h)
  OBVIOUS
<1>5. Total(list, Len(file)) \in Nat
  <2>1. \A n \in 0..Len(file) : Total(list, n) \in Nat
    BY <1>1, <1>3, <1>4, TotalNat
  <2> QED
    BY <1>1, <2>1
<1>6. \A t \in 1..Len(file) : list[t] <= Total(list, Len(file))
  BY <1>1, <1>3, <1>4, TotalNat
<1> QED
  BY <1>3, <1>4, <1>5, <1>6 DEF HourlyEvents

\* The hours of a trip.
LEMMA HoursAre ==
  ASSUME NEW file, Readable(file), NEW t \in Trips(file)
  PROVE  /\ Hour(file[t].pickup) \in Nat /\ Hour(file[t].dropoff) \in Nat
         /\ Hour(file[t].pickup) <= Hour(file[t].dropoff)
         /\ SpannedHours(file[t]) = Hour(file[t].pickup)..Hour(file[t].dropoff)
<1>1. PICK d \in Nat, p \in Nat : d = file[t].dropoff /\ p = file[t].pickup /\ p <= d
  BY TripsTimed
<1>2. HourLength \in Nat \ {0}
  BY ReplayInputAssumption
<1> QED
  BY <1>1, <1>2, Division, QuotientsOrder DEF Hour, SpannedHours

\* A file with trips has events: at the least the one at a drop-off.
LEMMA FullCountIs ==
  ASSUME NEW file, Readable(file), Trips(file) # {}
  PROVE  FullEventCount(file) \in Nat \ {0}
<1>1. PICK T : T = Trips(file)
  OBVIOUS
<1>2. PICK at : at = [t \in T |-> file[t].dropoff]
  OBVIOUS
<1>3. T \subseteq Nat /\ IsFiniteSet(T) /\ T # {} /\ at \in [T -> Nat]
  BY <1>1, <1>2, TripsTimed
<1>4. PICK x \in T : \A y \in T : at[y] <= at[x]
  BY <1>3, LatestIs
<1>5. PICK last \in Nat : last = Hour(file[x].dropoff)
  BY <1>1, HoursAre
<1>6. ASSUME NEW h \in CoveredHours(file) PROVE h \in Nat /\ h <= last
  <2>1. PICK t \in T : h \in SpannedHours(file[t])
    BY <1>1 DEF CoveredHours
  <2>2. PICK a \in Nat, b \in Nat : h \in a..b /\ b = Hour(file[t].dropoff)
    BY <1>1, <2>1, HoursAre
  <2>3. file[t].dropoff <= file[x].dropoff /\ file[t].dropoff \in Nat /\ file[x].dropoff \in Nat
    BY <1>1, <1>2, <1>4, TripsTimed
  <2>4. b <= last
    BY <1>5, <2>2, <2>3, QuotientsOrder, ReplayInputAssumption DEF Hour
  <2> QED
    BY <2>2, <2>4
<1>7. last \in CoveredHours(file)
  <2>1. last \in SpannedHours(file[x])
    BY <1>1, <1>5, HoursAre
  <2> QED
    BY <1>1, <2>1 DEF CoveredHours
<1>8. Max(CoveredHours(file)) = last
  <2>1. PICK S : S = CoveredHours(file)
    OBVIOUS
  <2>2. last \in S /\ \A y \in S : y \in Int /\ y <= last
    BY <1>6, <1>7, <2>1
  <2>3. Max(S) = last
    BY <2>2, MaxIs
  <2> QED
    BY <2>1, <2>3
<1>9. PICK list : list = [n \in 1..(last + 1) |-> HourlyEvents(file, n - 1)]
  OBVIOUS
<1>10. FullEventCount(file) = Total(list, last + 1)
  BY <1>8, <1>9 DEF FullEventCount
<1>11. \A n \in 1..(last + 1) : list[n] \in Nat
  <2> SUFFICES ASSUME NEW n \in 1..(last + 1) PROVE list[n] \in Nat
    OBVIOUS
  <2>1. n - 1 \in Nat /\ list[n] = HourlyEvents(file, n - 1)
    BY <1>9
  <2> QED
    BY <2>1, EventsAre
<1>12. last + 1 \in Nat /\ last + 1 \in 1..(last + 1) /\ last + 1 - 1 = last
  OBVIOUS
<1>13. /\ \A n \in 0..(last + 1) : Total(list, n) \in Nat
       /\ \A n \in 1..(last + 1) : list[n] <= Total(list, last + 1)
  BY <1>11, <1>12, TotalNat
<1>14. list[last + 1] = HourlyEvents(file, last)
  BY <1>9, <1>12
<1>15. HourlyEvents(file, last) >= 1 /\ HourlyEvents(file, last) \in Nat
  <2>1. x \in 1..Len(file) /\ DOMAIN file = 1..Len(file) /\ x \in Trips(file)
    BY <1>1, TripsTimed
  <2>2. Spans(file, x, last)
    BY <1>1, <1>5, HoursAre DEF Spans
  <2>3. Events(file, last)[x] = ExpectedEvents(file[x], last)
    BY <2>1, <2>2 DEF Events
  <2>4. Events(file, last)[x] >= 1
    BY <1>5, <2>1, <2>3, ExpectedIs
  <2>5. Events(file, last)[x] \in Nat /\ HourlyEvents(file, last) \in Nat
        /\ Events(file, last)[x] <= HourlyEvents(file, last)
    BY <2>1, EventsAre
  <2> QED
    BY <2>4, <2>5
<1>16. last + 1 \in 0..(last + 1)
  BY <1>12
<1> QED
  BY <1>10, <1>12, <1>13, <1>14, <1>15, <1>16

\* The base ratio is a ratio: the average is not 0.
LEMMA BaseIs ==
  ASSUME NEW file, Readable(file), Trips(file) # {}
  PROVE  BaseRatio(file) \in Ratios
<1>1. Cycle(file) \in Nat \ {0} /\ HourLength \in Nat \ {0} /\ HourlyTarget \in Nat \ {0}
  BY BoundsAre, ReplayInputAssumption
<1>2. PICK x \in Nat : x = (Cycle(file) + HourLength - 1) \div HourLength
  BY <1>1, Division
<1>3. CycleHours(file) \in Nat
  BY <1>2, MaxOfTwo DEF CycleHours
<1>4. HourlyTarget * CycleHours(file) \in Nat
  BY <1>1, <1>3
<1>5. <<1, 1>> \in Ratios /\ <<HourlyTarget * CycleHours(file), FullEventCount(file)>> \in Ratios
  BY <1>4, FullCountIs, RatioIs
<1> QED
  BY <1>5, LeastOfTwo DEF BaseRatio

\* The ratio of an hour keeps its target.
LEMMA HourRatioIs ==
  ASSUME NEW file, Readable(file), Trips(file) # {}, NEW h \in Nat
  PROVE  /\ HourRatio(file, h) \in Ratios
         /\ HourlyEvents(file, h) # 0 =>
              ~Less(<<HourlyTarget, HourlyEvents(file, h)>>, HourRatio(file, h))
<1>1. PICK base \in Ratios : base = BaseRatio(file)
  BY BaseIs
<1>2. HourlyEvents(file, h) \in Nat
  BY EventsAre
<1>3. PICK own : own = IF HourlyEvents(file, h) = 0 THEN <<1, 1>>
                       ELSE <<HourlyTarget, HourlyEvents(file, h)>>
  OBVIOUS
<1>4. HourlyTarget \in Nat
  BY ReplayInputAssumption
<1>5. own \in Ratios
  BY <1>2, <1>3, <1>4, RatioIs
<1>6. HourRatio(file, h) = Least({base, own})
  BY <1>1, <1>3 DEF HourRatio
<1>7. Least({base, own}) \in Ratios /\ ~Less(own, Least({base, own}))
  BY <1>1, <1>5, LeastOfTwo
<1> QED
  BY <1>3, <1>6, <1>7

\* The probability of a trip keeps the target of every hour it spans.
LEMMA ProbabilityIs ==
  ASSUME NEW file, Readable(file), NEW t \in Trips(file), NEW h \in SpannedHours(file[t])
  PROVE  /\ Probability(file, t) \in Ratios
         /\ HourlyEvents(file, h) # 0 =>
              ~Less(<<HourlyTarget, HourlyEvents(file, h)>>, Probability(file, t))
<1>1. PICK base \in Ratios : base = BaseRatio(file)
  BY BaseIs
<1>2. PICK a \in Nat, b \in Nat : a <= b /\ SpannedHours(file[t]) = a..b
  BY HoursAre
<1>3. PICK f : f = [k \in a..b |-> HourRatio(file, k)]
  OBVIOUS
<1>4. \A k \in a..b : f[k] \in Ratios
  <2> SUFFICES ASSUME NEW k \in a..b PROVE f[k] \in Ratios
    OBVIOUS
  <2>1. k \in Nat
    OBVIOUS
  <2> QED
    BY <1>3, <2>1, HourRatioIs
<1>5. PICK i \in a..b : \A k \in a..b : ~Less(f[k], f[i])
  BY <1>2, <1>4, LeastOfList
<1>6. PICK R : R = {base} \cup {f[k] : k \in a..b}
  OBVIOUS
<1>7. Probability(file, t) = Least(R)
  <2>1. {HourRatio(file, k) : k \in SpannedHours(file[t])} = {f[k] : k \in a..b}
    BY <1>2, <1>3
  <2> QED
    BY <1>1, <1>6, <2>1 DEF Probability
<1>8. \E p \in R : \A q \in R : ~Less(q, p)
  <2>1. CASE Less(base, f[i])
    <3>1. \A k \in a..b : ~Less(f[k], base)
      <4> SUFFICES ASSUME NEW k \in a..b PROVE ~Less(f[k], base)
        OBVIOUS
      <4>1. ~Less(f[i], base) /\ f[i] \in Ratios /\ f[k] \in Ratios /\ ~Less(f[k], f[i])
        BY <1>1, <1>4, <1>5, <2>1, LessOr
      <4> QED
        BY <1>1, <4>1, NotLess
    <3>2. ~Less(base, base)
      BY LessOr
    <3> QED
      BY <1>6, <3>1, <3>2
  <2>2. CASE ~Less(base, f[i])
    BY <1>5, <1>6, <2>2
  <2> QED
    BY <2>1, <2>2
<1>9. Least(R) \in R /\ \A q \in R : ~Less(q, Least(R))
  BY <1>8, LeastIs
<1>10. R \subseteq Ratios
  BY <1>4, <1>6
<1>11. f[h] \in R /\ h \in a..b /\ h \in Nat /\ f[h] = HourRatio(file, h) /\ f[h] \in Ratios
  BY <1>2, <1>3, <1>4, <1>6
<1>12. PICK p \in Ratios : p = Least(R) /\ ~Less(HourRatio(file, h), p)
  BY <1>9, <1>10, <1>11
<1>13. ASSUME HourlyEvents(file, h) # 0
       PROVE  ~Less(<<HourlyTarget, HourlyEvents(file, h)>>, p)
  <2>1. PICK own : own = <<HourlyTarget, HourlyEvents(file, h)>>
    OBVIOUS
  <2>2. own \in Ratios
    BY <1>11, <1>13, <2>1, EventsAre, RatioIs, ReplayInputAssumption
  <2>3. ~Less(own, HourRatio(file, h))
    BY <1>11, <1>13, <2>1, HourRatioIs
  <2>4. ~Less(own, p)
    BY <1>11, <1>12, <2>2, <2>3, NotLess
  <2> QED
    BY <2>1, <2>4
<1> QED
  BY <1>7, <1>12, <1>13

\* A share of the events, taken with the probability of a trip, times the
\* events of the hour is at most the same share of the target.
LEMMA ShareKept ==
  ASSUME NEW e \in Nat, NEW p \in Ratios, NEW q \in Nat, NEW H \in Nat \ {0},
         ~Less(<<HourlyTarget, H>>, p)
  PROVE  /\ e * p[1] * q \in Nat
         /\ H * (e * p[1] * q) <= (HourlyTarget * (q * p[2])) * e
<1>1. PICK a \in Nat, b \in Nat \ {0} : a = p[1] /\ b = p[2]
  BY RatioIs
<1>2. PICK T \in Nat : T = HourlyTarget
  BY ReplayInputAssumption
<1>3. ~(T * b < a * H)
  BY <1>1, <1>2 DEF Less
<1>4. PICK x \in Nat, y \in Nat : x = a * H /\ y = T * b
  OBVIOUS
<1>5. x <= y
  BY <1>3, <1>4
<1>6. PICK z \in Nat : z = e * q
  OBVIOUS
<1>7. z * x <= z * y
  <2>1. PICK d \in Nat : y = x + d
    <3>1. y - x \in Nat /\ y = x + (y - x)
      BY <1>5
    <3> QED
      BY <3>1
  <2>2. z * (x + d) = z * x + z * d /\ z * d \in Nat /\ z * x \in Nat
    OBVIOUS
  <2> QED
    BY <2>1, <2>2
<1>8. H * (e * a * q) = (e * q) * (a * H)
  OBVIOUS
<1>9. (T * (q * b)) * e = (e * q) * (T * b)
  OBVIOUS
<1>10. e * a * q \in Nat
  OBVIOUS
<1> QED
  BY <1>1, <1>2, <1>4, <1>6, <1>7, <1>8, <1>9, <1>10

\* The expected events of an hour do not exceed the target.
LEMMA ExpectedKept ==
  ASSUME NEW file, Readable(file), NEW h \in CoveredHours(file)
  PROVE  ExpectedWithin(file, h)
<1>1. Len(file) \in Nat /\ DOMAIN file = 1..Len(file)
  BY TripsTimed
<1>2. PICK N \in Nat : N = Len(file) /\ DOMAIN file = 1..N
  BY <1>1
<1>3. h \in Nat
  <2>1. PICK t \in Trips(file) : h \in SpannedHours(file[t])
    BY DEF CoveredHours
  <2>2. PICK a \in Nat, b \in Nat : h \in a..b
    BY <2>1, HoursAre
  <2> QED
    BY <2>2
<1>4. PICK ratio : ratio = [t \in DOMAIN file |->
                              IF Spans(file, t, h) THEN Probability(file, t) ELSE <<0, 1>>]
  OBVIOUS
<1>5. PICK E : E = Events(file, h)
  OBVIOUS
<1>6. PICK H \in Nat : H = HourlyEvents(file, h)
  BY <1>3, EventsAre
<1>7. PICK lower : lower = [t \in DOMAIN file |-> ratio[t][2]]
  OBVIOUS
<1>8. PICK common : common = Product(lower, N)
  OBVIOUS
<1>9. PICK expected : expected = [t \in DOMAIN file |->
                                    E[t] * ratio[t][1] * (common \div ratio[t][2])]
  OBVIOUS
<1>10. ExpectedWithin(file, h) <=> Total(expected, N) <= HourlyTarget * common
  BY <1>2, <1>4, <1>5, <1>7, <1>8, <1>9 DEF ExpectedWithin
<1>11. ASSUME NEW t \in 1..N
       PROVE  /\ E[t] \in Nat /\ E[t] <= H
              /\ ratio[t] \in Ratios
              /\ H # 0 => ~Less(<<HourlyTarget, H>>, ratio[t])
  <2>1. E[t] \in Nat /\ E[t] <= H
    BY <1>2, <1>3, <1>5, <1>6, EventsAre
  <2>2. CASE Spans(file, t, h)
    <3>1. ratio[t] = Probability(file, t) /\ t \in Trips(file) /\ h \in SpannedHours(file[t])
      BY <1>2, <1>4, <2>2 DEF Spans
    <3> QED
      BY <1>6, <2>1, <3>1, ProbabilityIs
  <2>3. CASE ~Spans(file, t, h)
    <3>1. ratio[t] = <<0, 1>>
      BY <1>2, <1>4, <2>3
    <3>2. <<0, 1>> \in Ratios
      BY RatioIs
    <3>3. ~Less(<<HourlyTarget, H>>, <<0, 1>>)
      BY ReplayInputAssumption DEF Less
    <3> QED
      BY <2>1, <3>1, <3>2, <3>3
  <2> QED
    BY <2>2, <2>3
<1>12. \A t \in 1..N : lower[t] \in Nat \ {0} /\ lower[t] = ratio[t][2]
  BY <1>2, <1>7, <1>11, RatioIs
<1>13. /\ common \in Nat \ {0}
       /\ \A t \in 1..N : \E q \in Nat \ {0} : common = q * lower[t]
  <2>1. \A k \in 1..N : lower[k] \in Nat \ {0}
    BY <1>12
  <2>2. Product(lower, N) \in Nat \ {0}
    BY <2>1, ProductDivides
  <2>3. \A i \in 1..N : \E q \in Nat \ {0} : Product(lower, N) = q * lower[i]
    BY <2>1, ProductDivides
  <2> QED
    BY <1>8, <2>2, <2>3
<1>14. ASSUME NEW t \in 1..N
       PROVE  \E q \in Nat : common = q * ratio[t][2] /\ expected[t] = E[t] * ratio[t][1] * q
  <2>1. PICK b \in Nat \ {0} : b = ratio[t][2] /\ b = lower[t]
    BY <1>12
  <2>2. PICK q \in Nat \ {0} : common = q * b
    BY <1>13, <2>1
  <2>3. b * q <= common /\ common < b * q + b /\ q \in Nat /\ common \in Nat
    BY <1>13, <2>2
  <2>4. common \div b = q
    BY <2>3, QuotientIs
  <2>5. expected[t] = E[t] * ratio[t][1] * (common \div ratio[t][2])
    BY <1>2, <1>9
  <2> QED
    BY <2>1, <2>2, <2>4, <2>5
<1>15. HourlyTarget * common \in Nat
  BY <1>13, ReplayInputAssumption
<1>16. PICK bound \in Nat : bound = HourlyTarget * common
  BY <1>15
<1>17. ASSUME NEW t \in 1..N
       PROVE  /\ expected[t] \in Nat
              /\ H # 0 => H * expected[t] <= bound * E[t]
              /\ H = 0 => expected[t] = 0
  <2>1. PICK q \in Nat : common = q * ratio[t][2] /\ expected[t] = E[t] * ratio[t][1] * q
    BY <1>14
  <2>2. PICK p \in Ratios : p = ratio[t]
    BY <1>11
  <2>3. PICK e \in Nat : e = E[t] /\ e <= H
    BY <1>11
  <2>4. CASE H # 0
    <3>1. ~Less(<<HourlyTarget, H>>, p) /\ H \in Nat \ {0}
      BY <1>11, <2>2, <2>4
    <3>2. e * p[1] * q \in Nat /\ H * (e * p[1] * q) <= (HourlyTarget * (q * p[2])) * e
      BY <3>1, ShareKept
    <3>3. HourlyTarget * (q * p[2]) = bound
      BY <1>16, <2>1, <2>2
    <3> QED
      BY <2>1, <2>2, <2>3, <2>4, <3>2, <3>3
  <2>5. CASE H = 0
    <3>1. e = 0 /\ p[1] \in Nat
      BY <2>3, <2>5, RatioIs
    <3>2. 0 * p[1] * q = 0
      BY <3>1
    <3>3. expected[t] = 0
      BY <2>1, <2>2, <2>3, <3>1, <3>2
    <3> QED
      BY <2>5, <3>3
  <2> QED
    BY <2>4, <2>5
<1>18. PICK X \in Nat : X = Total(expected, N)
  <2>1. \A n \in 0..N : Total(expected, n) \in Nat
    BY <1>17, TotalNat
  <2> QED
    BY <2>1
<1>19. CASE H # 0
  <2>1. H * Total(expected, N) <= bound * Total(E, N)
    BY <1>11, <1>17, <1>19, TotalsCompare
  <2>2. Total(E, N) = H
    BY <1>2, <1>5, <1>6 DEF HourlyEvents
  <2>3. X * H <= bound * H /\ H \in Nat \ {0}
    BY <1>18, <1>19, <2>1, <2>2
  <2>4. ~(bound < X)
    <3>1. bound < X <=> bound * H < X * H
      BY <2>3, TimesOrders
    <3>2. bound * H \in Int /\ X * H \in Int
      OBVIOUS
    <3> QED
      BY <2>3, <3>1, <3>2
  <2> QED
    BY <1>10, <1>16, <1>18, <2>4
<1>20. CASE H = 0
  <2>1. \A t \in 1..N : 1 * expected[t] <= 0 * expected[t]
    BY <1>17, <1>20
  <2>2. 1 * Total(expected, N) <= 0 * Total(expected, N)
    BY <1>17, <2>1, TotalsCompare
  <2>3. X <= 0
    BY <1>18, <2>2
  <2> QED
    BY <1>10, <1>16, <1>18, <2>3
<1> QED
  BY <1>19, <1>20

\* Both parts of SampledAsPlanned, for all files and anchors.
LEMMA MonthsPlanned == ReadersAgree /\ TargetKept
<1>1. \A file \in Months : Readable(file)
  BY SourcesAssumption
<1>2. \A at \in Starts : at \in Nat
  BY WallsAssumption
<1>3. ReadersAgree
  BY <1>1, <1>2, SameOrder DEF ReadersAgree
<1>4. TargetKept
  BY <1>1, ExpectedKept DEF TargetKept
<1> QED
  BY <1>3, <1>4

-----------------------------------------------------------------------------
(***************************************************************************)
(* Routes.                                                                 *)
(***************************************************************************)
\* A network as NetworksAssumption has it.
Mapped(net) ==
  /\ IsFiniteSet(net.segments)
  /\ \A s, t \in net.segments : s.id = t.id => s = t
  /\ \A s \in net.segments : {s.from, s.to, s.length} \subseteq Nat

\* A route from a node: edge by edge.
Walk(net, start, path) ==
  /\ path \in Seq(Edges(net))
  /\ path # <<>> => path[1].from = start
  /\ \A i \in 1..Len(path) : i > 1 => path[i].from = path[i - 1].to

\* An edge is a segment in one of its directions.
LEMMA EdgeIs ==
  ASSUME NEW net, NEW e \in Edges(net)
  PROVE  \E s \in net.segments :
           /\ s.id = e.segment
           /\ e.from = IF e.reverse THEN s.to ELSE s.from
           /\ e.to = IF e.reverse THEN s.from ELSE s.to
BY DEF Edges

\* One can leave finitely many nodes.
LEMMA RoutableFinite ==
  ASSUME NEW net, Mapped(net)
  PROVE  Cardinality(Routable(net)) \in Nat
<1>1. PICK S : S = net.segments
  OBVIOUS
<1>2. PICK f : f = [s \in S |-> s.from]
  OBVIOUS
<1>3. PICK g : g = [s \in S |-> s.to]
  OBVIOUS
<1>4. IsFiniteSet(S)
  BY <1>1 DEF Mapped
<1>5. PICK A : A = {f[s] : s \in S}
  OBVIOUS
<1>6. PICK B : B = {g[s] : s \in S}
  OBVIOUS
<1>7. f \in Surjection(S, A) /\ g \in Surjection(S, B)
  BY <1>2, <1>3, <1>5, <1>6 DEF Surjection
<1>8. IsFiniteSet(A) /\ IsFiniteSet(B)
  BY <1>4, <1>7, FS_Surjection
<1>9. IsFiniteSet(A \cup B)
  BY <1>8, FS_Union
<1>10. Routable(net) \subseteq A \cup B
  <2> SUFFICES ASSUME NEW e \in Edges(net) PROVE e.from \in A \cup B
    BY DEF Routable
  <2>1. PICK s \in S : e.from = IF e.reverse THEN s.to ELSE s.from
    BY <1>1, EdgeIs
  <2>2. f[s] \in A /\ g[s] \in B /\ f[s] = s.from /\ g[s] = s.to
    BY <1>2, <1>3, <1>5, <1>6
  <2> QED
    BY <2>1, <2>2
<1>11. IsFiniteSet(Routable(net))
  BY <1>9, <1>10, FS_Subset
<1> QED
  BY <1>11, FS_CardinalityType

\* A walk one edge longer.
LEMMA WalkLonger ==
  ASSUME NEW net, NEW start, NEW path, Walk(net, start, path),
         NEW e \in Edges(net), e.from = EndOf(start, path)
  PROVE  Walk(net, start, Append(path, e))
<1>1. PICK U : U = Edges(net)
  OBVIOUS
<1>2. path \in Seq(U) /\ e \in U
  BY <1>1 DEF Walk
<1>3. PICK n \in Nat : n = Len(path) /\ DOMAIN path = 1..n
  BY <1>2
<1>4. PICK longer : longer = Append(path, e)
  OBVIOUS
<1>5. /\ longer \in Seq(U) /\ Len(longer) = n + 1
      /\ \A i \in 1..n : longer[i] = path[i]
      /\ longer[n + 1] = e
  BY <1>2, <1>3, <1>4
<1>6. longer # <<>>
  BY <1>5
<1>7. CASE n = 0
  <2>1. path = <<>>
    BY <1>2, <1>3, <1>7
  <2>2. e.from = start
    BY <2>1 DEF EndOf, NoRoute
  <2> QED
    BY <1>1, <1>4, <1>5, <1>7, <2>2 DEF Walk
<1>8. CASE n # 0
  <2>1. path # <<>> /\ 1 \in 1..n
    BY <1>2, <1>3, <1>8
  <2>2. e.from = path[n].to
    BY <1>3, <2>1 DEF EndOf, NoRoute, Last
  <2>3. longer[1].from = start
    BY <1>5, <2>1 DEF Walk
  <2>4. ASSUME NEW i \in 1..(n + 1), i > 1 PROVE longer[i].from = longer[i - 1].to
    <3>1. CASE i = n + 1
      <4>1. i - 1 = n /\ n \in 1..n /\ longer[i] = e /\ longer[n] = path[n]
        BY <1>5, <1>8, <3>1
      <4> QED
        BY <2>2, <4>1
    <3>2. CASE i # n + 1
      <4>1. i \in 1..n /\ i - 1 \in 1..n
        BY <2>4, <3>2
      <4>2. path[i].from = path[i - 1].to
        BY <1>3, <2>4, <4>1 DEF Walk
      <4> QED
        BY <1>5, <4>1, <4>2
    <3> QED
      BY <3>1, <3>2
  <2> QED
    BY <1>1, <1>4, <1>5, <2>3, <2>4 DEF Walk
<1> QED
  BY <1>7, <1>8

\* The simple routes from a node are walks from it.
LEMMA RoutesWalk ==
  ASSUME NEW net, Mapped(net), NEW start, NEW r \in SimpleRoutes(net, start)
  PROVE  Walk(net, start, r)
<1>1. PICK N \in Nat : N = Cardinality(Routable(net))
  BY RoutableFinite
<1> DEFINE f == CHOOSE upTo : upTo = [n \in 0..N |->
                  IF n = 0 THEN {NoRoute} ELSE upTo[n - 1] \cup Longer(net, start, upTo[n - 1])]
<1>2. SimpleRoutes(net, start) = f[N]
  BY <1>1 DEF SimpleRoutes
<1>3. \E g : g = [n \in 0..N |->
                  IF n = 0 THEN {NoRoute} ELSE g[n - 1] \cup Longer(net, start, g[n - 1])]
  <2>1. PICK data : data[1] = net /\ data[2] = start
    <3>1. <<net, start>>[1] = net /\ <<net, start>>[2] = start
      OBVIOUS
    <3> QED
      BY <3>1
  <2>2. PICK g : AccumulatedTo("routes", data, g, N)
    BY AccumulatedExists
  <2>3. g[0] = {NoRoute} /\ g = [k \in 0..N |-> g[k]]
    BY <2>2 DEF AccumulatedTo, Begun
  <2>4. \A k \in 1..N : g[k] = g[k - 1] \cup Longer(net, start, g[k - 1])
    BY <2>1, <2>2 DEF AccumulatedTo, With
  <2>5. \A k \in 0..N : g[k] = IF k = 0 THEN {NoRoute}
                               ELSE g[k - 1] \cup Longer(net, start, g[k - 1])
    BY <2>3, <2>4
  <2> QED
    BY <2>3, <2>5
<1>4. f = [n \in 0..N |->
            IF n = 0 THEN {NoRoute} ELSE f[n - 1] \cup Longer(net, start, f[n - 1])]
  BY <1>3
<1> HIDE DEF f
<1>5. \A n \in 0..N : f[n] = IF n = 0 THEN {NoRoute}
                             ELSE f[n - 1] \cup Longer(net, start, f[n - 1])
  BY <1>4
<1>6. PICK T : T = {n \in 0..N : ~ \A q \in f[n] : Walk(net, start, q)}
  OBVIOUS
<1>7. T = {}
  <2> SUFFICES ASSUME T # {} PROVE FALSE
    OBVIOUS
  <2>1. T \subseteq Nat
    BY <1>6
  <2>2. PICK m \in T : \A y \in T : m <= y
    BY <2>1, Smallest
  <2>3. m \in 0..N
    BY <1>6
  <2>4. PICK q \in f[m] : ~Walk(net, start, q)
    BY <1>6
  <2>5. m # 0
    <3> SUFFICES ASSUME m = 0 PROVE FALSE
      OBVIOUS
    <3>1. q = <<>>
      BY <1>5, <2>3, <2>4 DEF NoRoute
    <3> QED
      BY <2>4, <3>1 DEF Walk
  <2>6. m - 1 \in 0..N /\ m - 1 \notin T
    BY <2>2, <2>3, <2>5
  <2>7. \A p \in f[m - 1] : Walk(net, start, p)
    BY <1>6, <2>6
  <2>8. q \in f[m - 1] \/ q \in Longer(net, start, f[m - 1])
    BY <1>5, <2>3, <2>4, <2>5
  <2>9. ASSUME q \in Longer(net, start, f[m - 1]) PROVE FALSE
    <3>1. PICK p \in f[m - 1], e \in Edges(net) : e.from = EndOf(start, p) /\ q = Append(p, e)
      BY <2>9 DEF Longer
    <3> QED
      BY <2>4, <2>7, <3>1, WalkLonger
  <2> QED
    BY <2>4, <2>7, <2>8, <2>9
<1>8. N \in 0..N /\ N \notin T
  BY <1>7
<1> QED
  BY <1>2, <1>6, <1>8

\* The length of a walk is a number.
LEMMA LengthIs ==
  ASSUME NEW net, Mapped(net), NEW start, NEW path, Walk(net, start, path)
  PROVE  Length(net, path) \in Nat
<1>1. PICK N \in Nat : N = Len(path) /\ DOMAIN path = 1..N
  BY DEF Walk
<1>2. PICK measure : measure = [id \in Ids(net) |-> Segment(net, id).length]
  OBVIOUS
<1> DEFINE f == CHOOSE upTo : upTo = [i \in 0..N |->
                  IF i = 0 THEN 0 ELSE upTo[i - 1] + measure[path[i].segment]]
<1>3. Length(net, path) = f[N]
  BY <1>1, <1>2 DEF Length, Along
<1>4. \E g : g = [i \in 0..N |-> IF i = 0 THEN 0 ELSE g[i - 1] + measure[path[i].segment]]
  <2>1. PICK data : data = [i \in 1..N |-> measure[path[i].segment]]
    OBVIOUS
  <2>2. PICK g : AccumulatedTo("sum", data, g, N)
    BY AccumulatedExists
  <2>3. g[0] = 0 /\ g = [k \in 0..N |-> g[k]]
    BY <2>2 DEF AccumulatedTo, Begun
  <2>4. \A k \in 1..N : g[k] = g[k - 1] + measure[path[k].segment]
    BY <2>1, <2>2 DEF AccumulatedTo, With
  <2>5. ASSUME NEW k \in 0..N
        PROVE  g[k] = IF k = 0 THEN 0 ELSE g[k - 1] + measure[path[k].segment]
    <3>1. k = 0 \/ (k # 0 /\ k \in 1..N)
      OBVIOUS
    <3> QED
      BY <2>3, <2>4, <3>1
  <2> QED
    BY <2>3, <2>5
<1>5. f = [i \in 0..N |-> IF i = 0 THEN 0 ELSE f[i - 1] + measure[path[i].segment]]
  BY <1>4
<1> HIDE DEF f
<1>6. \A i \in 0..N : f[i] = IF i = 0 THEN 0 ELSE f[i - 1] + measure[path[i].segment]
  BY <1>5
<1>7. \A i \in 1..N : measure[path[i].segment] \in Nat
  <2> SUFFICES ASSUME NEW i \in 1..N PROVE measure[path[i].segment] \in Nat
    OBVIOUS
  <2>1. path[i] \in Edges(net)
    BY <1>1 DEF Walk
  <2>2. PICK s \in net.segments : s.id = path[i].segment
    BY <2>1, EdgeIs
  <2>3. path[i].segment \in Ids(net)
    BY <2>2 DEF Ids
  <2>4. Segment(net, path[i].segment) \in net.segments
    BY <2>2 DEF Segment
  <2>5. Segment(net, path[i].segment).length \in Nat
    BY <2>4 DEF Mapped
  <2> QED
    BY <1>2, <2>3, <2>5
<1>8. PICK T : T = {i \in 0..N : f[i] \notin Nat}
  OBVIOUS
<1>9. T = {}
  <2> SUFFICES ASSUME T # {} PROVE FALSE
    OBVIOUS
  <2>1. T \subseteq Nat
    BY <1>8
  <2>2. PICK m \in T : \A y \in T : m <= y
    BY <2>1, Smallest
  <2>3. m \in 0..N /\ f[m] \notin Nat
    BY <1>8
  <2>4. m # 0
    BY <1>6, <2>3
  <2>5. m - 1 \in 0..N /\ m - 1 \notin T /\ m \in 1..N
    BY <2>2, <2>3, <2>4
  <2>6. f[m] = f[m - 1] + measure[path[m].segment] /\ f[m - 1] \in Nat
    BY <1>6, <1>8, <2>3, <2>4, <2>5
  <2> QED
    BY <1>7, <2>3, <2>5, <2>6
<1>10. N \in 0..N /\ N \notin T
  BY <1>9
<1> QED
  BY <1>3, <1>8, <1>10

\* A shortest path, where there is one, is a walk between its ends.
LEMMA ShortestIs ==
  ASSUME NEW net, Mapped(net), NEW start, NEW target, ShortestPath(net, start, target) # NoRoute
  PROVE  /\ Walk(net, start, ShortestPath(net, start, target))
         /\ start \in Nat /\ target \in Nat
<1>1. PICK R : R = {r \in SimpleRoutes(net, start) : r # NoRoute /\ Last(r).to = target}
  OBVIOUS
<1>2. R # {}
  BY <1>1 DEF ShortestPath
<1>3. \A r \in R : Walk(net, start, r)
  BY <1>1, RoutesWalk
<1>4. \A r \in R : Length(net, r) \in Nat
  BY <1>3, LengthIs
<1>5. PICK path : path = ShortestPath(net, start, target)
  OBVIOUS
<1>6. path = CHOOSE r \in R : \A q \in R : Length(net, r) <= Length(net, q)
  BY <1>1, <1>2, <1>5 DEF ShortestPath
<1>7. \E r \in R : \A q \in R : Length(net, r) <= Length(net, q)
  <2>1. PICK L : L = {Length(net, r) : r \in R}
    OBVIOUS
  <2>2. L \subseteq Nat /\ L # {}
    BY <1>2, <1>4, <2>1
  <2>3. PICK l \in L : \A k \in L : l <= k
    BY <2>2, Smallest
  <2> QED
    BY <2>1, <2>3
<1>8. path \in R
  BY <1>6, <1>7
<1>9. Walk(net, start, path) /\ path # <<>> /\ path[Len(path)].to = target
  BY <1>1, <1>3, <1>8 DEF NoRoute, Last
<1>10. PICK n \in Nat \ {0} : n = Len(path) /\ DOMAIN path = 1..n
  BY <1>9 DEF Walk
<1>11. path[1] \in Edges(net) /\ path[n] \in Edges(net)
  BY <1>9, <1>10 DEF Walk
<1>12. \A e \in Edges(net) : e.from \in Nat /\ e.to \in Nat
  BY EdgeIs DEF Mapped
<1>13. start \in Nat /\ target \in Nat
  BY <1>9, <1>10, <1>11, <1>12 DEF Walk
<1> QED
  BY <1>5, <1>9, <1>13

\* A walk can be walked again: its segments are known, by one id each.
LEMMA WalkAgain ==
  ASSUME NEW net, Mapped(net), NEW start, NEW path, Walk(net, start, path), path # NoRoute
  PROVE  Replannable(net, path)
<1>1. PICK n \in Nat \ {0} : n = Len(path) /\ DOMAIN path = 1..n
  BY DEF Walk, NoRoute
<1>2. ASSUME NEW i \in 1..n
      PROVE  /\ path[i].segment \in Ids(net)
             /\ Origin(net, path, i) = path[i].from /\ Destination(net, path, i) = path[i].to
  <2>1. path[i] \in Edges(net)
    BY <1>1 DEF Walk
  <2>2. PICK s \in net.segments :
          /\ s.id = path[i].segment
          /\ path[i].from = IF path[i].reverse THEN s.to ELSE s.from
          /\ path[i].to = IF path[i].reverse THEN s.from ELSE s.to
    BY <2>1, EdgeIs
  <2>3. Segment(net, path[i].segment) = s
    BY <2>2 DEF Segment, Mapped
  <2> QED
    BY <2>2, <2>3 DEF Ids, Origin, Destination
<1>3. ASSUME NEW i \in 1..n
      PROVE  Origin(net, path, i) = IF i = 1 THEN path[1].from ELSE Destination(net, path, i - 1)
  <2>1. CASE i = 1
    BY <1>2, <2>1
  <2>2. CASE i # 1
    <3>1. i > 1 /\ i - 1 \in 1..n
      BY <2>2
    <3>2. path[i].from = path[i - 1].to
      BY <1>1, <3>1 DEF Walk
    <3> QED
      BY <1>2, <2>2, <3>1, <3>2
  <2> QED
    BY <2>1, <2>2
<1>4. Destination(net, path, n) = path[n].to
  BY <1>2
<1> QED
  BY <1>1, <1>2, <1>3, <1>4 DEF Replannable

LEMMA AbsIs == ASSUME NEW n \in Int PROVE Abs(n) \in Nat
BY DEF Abs

\* The median of the miles between two zones is a number.
LEMMA MedianIs ==
  ASSUME NEW file, Readable(file), NEW od \in Pairs(file)
  PROVE  MedianMiles2(file, od) \in Nat
<1>1. PICK T : T = {t \in Trips(file) : <<file[t].pu, file[t].do>> = od}
  OBVIOUS
<1>2. PICK at : at = [t \in T |-> file[t].miles]
  OBVIOUS
<1>3. T \subseteq Nat /\ IsFiniteSet(T) /\ at \in [T -> Nat]
  <2>1. T \subseteq Trips(file)
    BY <1>1
  <2>2. IsFiniteSet(T)
    BY <2>1, TripsTimed, FS_Subset
  <2> QED
    BY <1>2, <2>1, <2>2, TripsTimed
<1>4. PICK before : before = Earlier(T, at)
  OBVIOUS
<1>5. Strict(T, before)
  BY <1>3, <1>4, EarlierStrict
<1>6. PICK o : o = Ordered(T, before)
  OBVIOUS
<1>7. PICK n \in Nat : /\ o \in [1..n -> T]
                       /\ \A t \in T : \E k \in 1..n : o[k] = t
  <2>1. Cardinality(T) \in Nat /\ Ordered(T, before) \in [1..Cardinality(T) -> T]
    BY <1>3, <1>5, OrderedIs
  <2>2. \A x \in T : \E k \in 1..Cardinality(T) : Ordered(T, before)[k] = x
    BY <1>3, <1>5, OrderedIs
  <2> QED
    BY <1>6, <2>1, <2>2
<1>8. n # 0
  <2>1. PICK t \in T : TRUE
    BY <1>1 DEF Pairs
  <2>2. PICK k \in 1..n : o[k] = t
    BY <1>7, <2>1
  <2> QED
    BY <2>2
<1>9. Len(o) = n
  BY <1>7
<1>10. (n + 1) \div 2 \in 1..n /\ (n + 2) \div 2 \in 1..n
  BY <1>8
<1>11. MedianMiles2(file, od) = file[o[(n + 1) \div 2]].miles + file[o[(n + 2) \div 2]].miles
  BY <1>1, <1>2, <1>4, <1>6, <1>9 DEF MedianMiles2, Sorted
<1>12. \A t \in T : file[t].miles \in Nat
  BY <1>1, TripsTimed
<1>13. \A k \in 1..n : file[o[k]].miles \in Nat
  BY <1>7, <1>12
<1> QED
  BY <1>10, <1>11, <1>13

\* Of some pairs of numbers with an error, one comes first.
Best(pairs, error, best) ==
  /\ best \in pairs
  /\ \A q \in pairs :
       \/ error[best] < error[q]
       \/ error[best] = error[q] /\ (best[1] < q[1] \/ (best[1] = q[1] /\ best[2] <= q[2]))

\* Some pair of anchors has the least error, and is the first of those.
LEMMA BestExists ==
  ASSUME NEW pairs, pairs # {}, \A p \in pairs : p[1] \in Nat /\ p[2] \in Nat,
         NEW error \in [pairs -> Nat]
  PROVE  \E best : Best(pairs, error, best)
<1>1. PICK E : E = {error[p] : p \in pairs}
  OBVIOUS
<1>2. E \subseteq Nat /\ E # {}
  BY <1>1
<1>3. PICK e \in E : \A x \in E : e <= x
  BY <1>2, Smallest
<1>4. PICK A : A = {p[1] : p \in {q \in pairs : error[q] = e}}
  OBVIOUS
<1>5. A \subseteq Nat /\ A # {}
  BY <1>1, <1>3, <1>4
<1>6. PICK a \in A : \A x \in A : a <= x
  BY <1>5, Smallest
<1>7. PICK B : B = {p[2] : p \in {q \in pairs : error[q] = e /\ q[1] = a}}
  OBVIOUS
<1>8. B \subseteq Nat /\ B # {}
  BY <1>4, <1>6, <1>7
<1>9. PICK b \in B : \A x \in B : b <= x
  BY <1>8, Smallest
<1>10. PICK best \in pairs : error[best] = e /\ best[1] = a /\ best[2] = b
  BY <1>7, <1>9
<1>11. ASSUME NEW q \in pairs
       PROVE  \/ error[best] < error[q]
              \/ error[best] = error[q] /\ (best[1] < q[1] \/ (best[1] = q[1] /\ best[2] <= q[2]))
  <2>1. /\ error[q] \in Nat /\ q[1] \in Nat /\ q[2] \in Nat
        /\ e \in Nat /\ a \in Nat /\ b \in Nat
    BY <1>2, <1>3, <1>5, <1>6, <1>8, <1>9
  <2>2. e <= error[q]
    BY <1>1, <1>3
  <2>3. error[q] = e => a <= q[1]
    BY <1>4, <1>6
  <2>4. error[q] = e /\ q[1] = a => b <= q[2]
    BY <1>7, <1>9
  <2> QED
    BY <1>10, <2>1, <2>2, <2>3, <2>4
<1> QED
  BY <1>10, <1>11 DEF Best

Served(plan) == plan.skip = ""

\* A template without a reason to skip it has a route that can be walked.
LEMMA TemplateIs ==
  ASSUME NEW net, Mapped(net), NEW pu, NEW do, NEW target \in Nat,
         Served(Template(net, pu, do, target))
  PROVE  Replannable(net, Template(net, pu, do, target).path)
<1>1. PICK pairs : pairs = {p \in ZoneAnchors(net, pu) \X ZoneAnchors(net, do) :
                              p[1] # p[2] /\ ShortestPath(net, p[1], p[2]) # NoRoute}
  OBVIOUS
<1>2. PICK error : error = [p \in pairs |->
                              Abs(Length(net, ShortestPath(net, p[1], p[2])) - target)]
  OBVIOUS
<1>3. PICK best : best = CHOOSE p \in pairs : \A q \in pairs :
                           \/ error[p] < error[q]
                           \/ error[p] = error[q]
                                /\ (p[1] < q[1] \/ (p[1] = q[1] /\ p[2] <= q[2]))
  OBVIOUS
<1>4. best = CHOOSE p \in pairs : \A q \in pairs :
               LET Error(x) == Abs(Length(net, ShortestPath(net, x[1], x[2])) - target)
               IN \/ Error(p) < Error(q)
                  \/ Error(p) = Error(q) /\ (p[1] < q[1] \/ (p[1] = q[1] /\ p[2] <= q[2]))
  BY <1>2, <1>3
<1>5. pairs # {} /\ Template(net, pu, do, target).path = ShortestPath(net, best[1], best[2])
  BY <1>1, <1>4 DEF Served, Template
<1>6. ASSUME NEW p \in pairs
      PROVE  /\ p[1] \in Nat /\ p[2] \in Nat
             /\ ShortestPath(net, p[1], p[2]) # NoRoute
             /\ Walk(net, p[1], ShortestPath(net, p[1], p[2]))
             /\ error[p] \in Nat
  <2>1. ShortestPath(net, p[1], p[2]) # NoRoute
    BY <1>1
  <2>2. Walk(net, p[1], ShortestPath(net, p[1], p[2])) /\ p[1] \in Nat /\ p[2] \in Nat
    BY <2>1, ShortestIs
  <2>3. Length(net, ShortestPath(net, p[1], p[2])) \in Nat
    BY <2>2, LengthIs
  <2>4. error[p] \in Nat
    <3>1. PICK n \in Nat : n = Length(net, ShortestPath(net, p[1], p[2]))
      BY <2>3
    <3>2. error[p] = Abs(n - target)
      BY <1>2, <3>1
    <3>3. n - target \in Int
      OBVIOUS
    <3> QED
      BY <3>2, <3>3, AbsIs
  <2> QED
    BY <2>1, <2>2, <2>4
<1>7. error \in [pairs -> Nat]
  BY <1>2, <1>6
<1>8. \E b : Best(pairs, error, b)
  BY <1>5, <1>6, <1>7, BestExists
<1>9. best \in pairs
  BY <1>3, <1>8 DEF Best
<1> QED
  BY <1>5, <1>6, <1>9, WalkAgain

\* A route stored in a bundle can be planned again from its segments on the
\* network it was computed on.
LEMMA TemplatesWalkable == RoutesWalkable
<1> SUFFICES ASSUME NEW s \in Sources, NEW r \in DOMAIN Networks, NEW od \in Pairs(s),
                    PreparedRoutes[s][r][od].skip = ""
             PROVE  Replannable(Networks[r], PreparedRoutes[s][r][od].path)
  BY DEF RoutesWalkable
<1>1. PreparedRoutes[s][r][od] = Template(Networks[r], od[1], od[2], MedianMiles2(s, od))
  BY DEF PreparedRoutes, Templates
<1>2. Mapped(Networks[r])
  BY NetworksAssumption DEF Mapped
<1>3. MedianMiles2(s, od) \in Nat
  BY SourcesAssumption, MedianIs
<1> QED
  BY <1>1, <1>2, <1>3, TemplateIs DEF Served

\* The two readers agree and the sample keeps the target, for every file, anchor,
\* row-group size, target and draw.
THEOREM PlannedSample == Spec => []SampledAsPlanned
<1>1. SampledAsPlanned
  BY MonthsPlanned DEF SampledAsPlanned
<1> QED
  BY <1>1, PTL

-----------------------------------------------------------------------------
(***************************************************************************)
(* The behaviours of a run.                                                *)
(***************************************************************************)
LEMMA WorkersCount == Cardinality(Workers) \in Nat \ {0}
  BY FS_CardinalityType, FS_EmptySet, ReplayAssumption

LEMMA NetworkDomain == DOMAIN Networks = 1..Len(Networks) /\ Len(Networks) \in Nat \ {0}
  BY ReplayAssumption

LEMMA Mailed ==
  ASSUME NEW s \in Seq(Letters), NEW kind \in {"ready", "result", "error"}, NEW w \in Workers
  PROVE  Append(s, <<kind, w>>) \in Seq(Letters)
<1>1. <<kind, w>> \in Letters
  BY DEF Letters
<1> QED
  BY <1>1

LEMMA TypeInit == Init => TypeOK
<1> SUFFICES ASSUME Init PROVE TypeOK
  OBVIOUS
<1>1. InputTyped
  <2>1. disk \in Files
    BY DEF Init, NoFiles, Files, Written, Roads
  <2>2. road \in DOMAIN Networks
    BY NetworkDomain DEF Init
  <2> QED
    BY <2>1, <2>2 DEF Init, InputTyped, Roads
<1>2. RunTyped
  <2>1. status \in Seq(Letters)
    BY DEF Init
  <2>2. /\ main = "idle" /\ starved = FALSE /\ got = 0 /\ signals = 0 /\ mishaps = 0
        /\ proc = [w \in Workers |-> "none"] /\ loaded = [w \in Workers |-> 0]
    BY DEF Init
  <2>3. errors \in [Workers -> BOOLEAN]
    BY DEF Init
  <2>4. got \in 0..(Cardinality(Workers) - 1) /\ signals \in 0..Cardinality(Workers)
    BY <2>2, WorkersCount
  <2>5. mishaps \in 0..MaxMishaps
    BY <2>2, ReplayAssumption
  <2> QED
    BY <2>1, <2>2, <2>3, <2>4, <2>5 DEF RunTyped, Roads
<1>3. QueuesBounded
  BY FS_EmptySet, ReplayAssumption DEF Init, QueuesBounded
<1> QED
  BY <1>1, <1>2, <1>3 DEF TypeOK

LEMMA FailTyped ==
  ASSUME RunTyped, NEW w \in Workers, Fails(w), mishaps' \in 0..MaxMishaps
  PROVE  RunTyped'
<1>1. /\ main' \in {main, "failed"}
      /\ status' \in {status, Append(status, <<"error", w>>)}
  BY DEF Fails
<1>2. status' \in Seq(Letters)
  BY <1>1, Mailed DEF RunTyped
<1>3. /\ proc' = [proc EXCEPT ![w] = "failed"]
      /\ UNCHANGED <<got, starved, signals, loaded, errors>>
  BY DEF Fails
<1> QED
  BY <1>1, <1>2, <1>3 DEF RunTyped, Alive, Ended

LEMMA InputStep ==
  ASSUME InputTyped, [Next]_vars
  PROVE  InputTyped'
<1>1. CASE RefreshRoads
  BY InputTyped, NetworkDomain, <1>1
  DEF InputTyped, Written, Roads, RefreshRoads, vars, bundle, run, mailbox, player, kafka
<1>2. CASE StartPrepare
  BY InputTyped, NetworkDomain, <1>2
  DEF InputTyped, Written, Roads, StartPrepare, vars, bundle, run, mailbox, player, kafka
<1>3. CASE WriteTrips
<2>1. disk' \in Files
    BY InputTyped, NetworkDomain, <1>3 DEF InputTyped, WriteTrips, Files, Written, Roads, NoFiles
<2>2. prep' = [prep EXCEPT !.at = "routes"] /\ UNCHANGED <<source, mode, road, mainRoad>>
    BY <1>3 DEF WriteTrips, Preparing, run
<2> QED
    BY InputTyped, NetworkDomain, <2>1, <2>2 DEF InputTyped
<1>4. CASE WriteRoutes
<2>1. disk' \in Files
    BY InputTyped, NetworkDomain, <1>4 DEF InputTyped, WriteRoutes, Files, Written, Roads, NoFiles
<2>2. prep' = [prep EXCEPT !.at = "move_trips"] /\ UNCHANGED <<source, mode, road, mainRoad>>
    BY <1>4 DEF WriteRoutes, Preparing, run
<2> QED
    BY InputTyped, NetworkDomain, <2>1, <2>2 DEF InputTyped
<1>5. CASE MoveTrips
<2>1. disk' \in Files
    BY InputTyped, NetworkDomain, <1>5 DEF InputTyped, MoveTrips, Files, Written, Roads, NoFiles
<2>2. prep' = [prep EXCEPT !.at = "move_routes"] /\ UNCHANGED <<source, mode, road, mainRoad>>
    BY <1>5 DEF MoveTrips, Preparing, run
<2> QED
    BY InputTyped, NetworkDomain, <2>1, <2>2 DEF InputTyped
<1>6. CASE MoveRoutes
<2>1. disk' \in Files
    BY InputTyped, NetworkDomain, <1>6 DEF InputTyped, MoveRoutes, Files, Written, Roads, NoFiles
<2>2. prep' = [prep EXCEPT !.at = "manifest"] /\ UNCHANGED <<source, mode, road, mainRoad>>
    BY <1>6 DEF MoveRoutes, Preparing, run
<2> QED
    BY InputTyped, NetworkDomain, <2>1, <2>2 DEF InputTyped
<1>7. CASE WriteManifest
<2>1. prep.road \in Roads
    BY InputTyped, NetworkDomain DEF InputTyped
<2>2. disk' \in Files
    BY InputTyped, NetworkDomain, <2>1, <1>7 DEF InputTyped, WriteManifest, Files, Written
<2>3. prep' = [prep EXCEPT !.at = "idle"] /\ UNCHANGED <<source, mode, road, mainRoad>>
    BY <1>7 DEF WriteManifest, Preparing, run
<2> QED
    BY InputTyped, NetworkDomain, <2>2, <2>3 DEF InputTyped
<1>8. CASE RemoveBundle
<2>1. disk' \in Files
    BY InputTyped, NetworkDomain, <1>8 DEF InputTyped, RemoveBundle, Files, Written, Roads, NoFiles
<2>2. prep' = [prep EXCEPT !.at = "idle"] /\ UNCHANGED <<source, mode, road, mainRoad>>
    BY <1>8 DEF RemoveBundle, Preparing, run
<2> QED
    BY InputTyped, NetworkDomain, <2>1, <2>2 DEF InputTyped
<1>9. ASSUME NEW crash \in BOOLEAN, PrepareFails(crash)
      PROVE  InputTyped'
<2>1. PICK left \in Interrupted(prep.at) :
        disk' = IF crash \/ prep.at = "manifest" THEN left
                ELSE [left EXCEPT !.tripsTmp = "none", !.routesTmp = "none"]
    BY <1>9 DEF PrepareFails
<2>2. left \in Files
    BY InputTyped, NetworkDomain, <2>1 DEF InputTyped, Interrupted, Files, Written
<2>3. [left EXCEPT !.tripsTmp = "none", !.routesTmp = "none"] \in Files
    BY <2>2 DEF Files, Written
<2>4. prep' = [prep EXCEPT !.at = "idle"] /\ UNCHANGED <<source, mode, road, mainRoad>>
    BY <1>9 DEF PrepareFails, Preparing, run
<2> QED
    BY InputTyped, NetworkDomain, <2>1, <2>2, <2>3, <2>4 DEF InputTyped
<1>10. ASSUME NEW wall \in Walls, StartSolo(wall)
      PROVE  InputTyped'
  BY InputTyped, NetworkDomain, <1>10
  DEF InputTyped, Written, Roads, StartSolo, Begin, BundleFits, vars, bundle, run, mailbox, player, kafka
<1>11. CASE StartParallel
  BY InputTyped, NetworkDomain, <1>11
  DEF InputTyped, Written, Roads, StartParallel, vars, bundle, run, mailbox, player, kafka
<1>12. CASE Receive
  BY InputTyped, NetworkDomain, <1>12
  DEF InputTyped, Written, Roads, Receive, Coordinates, AfterAll, Awaits, vars, bundle, run, mailbox, player, kafka
<1>13. CASE Starve
  BY InputTyped, NetworkDomain, <1>13
  DEF InputTyped, Written, Roads, Starve, Coordinates, vars, bundle, run, mailbox, player, kafka
<1>14. CASE LookAtWorkers
  BY InputTyped, NetworkDomain, <1>14
  DEF InputTyped, Written, Roads, LookAtWorkers, Coordinates, GivesUp, vars, bundle, run, mailbox, player, kafka
<1>15. ASSUME NEW wall \in Walls, Signal(wall)
      PROVE  InputTyped'
  BY InputTyped, NetworkDomain, <1>15
  DEF InputTyped, Written, Roads, Signal, Coordinates, vars, bundle, run, mailbox, player, kafka
<1>16. CASE Stop
  BY InputTyped, NetworkDomain, <1>16
  DEF InputTyped, Written, Roads, Stop, vars, bundle, run, mailbox, player, kafka
<1>17. CASE Join
  BY InputTyped, NetworkDomain, <1>17
  DEF InputTyped, Written, Roads, Join, Coordinates, AllExited, vars, bundle, run, mailbox, player, kafka
<1>18. CASE JoinTimesOut
  BY InputTyped, NetworkDomain, <1>18
  DEF InputTyped, Written, Roads, JoinTimesOut, Mishap, vars, bundle, run, mailbox, player, kafka
<1>19. ASSUME NEW w \in Workers, Load(w)
      PROVE  InputTyped'
  BY InputTyped, NetworkDomain, <1>19
  DEF InputTyped, Written, Roads, Load, SameRoads, Report, Fails, vars, bundle, run, mailbox, player, kafka
<1>20. ASSUME NEW w \in Workers, TakeSignal(w)
      PROVE  InputTyped'
  BY InputTyped, NetworkDomain, <1>20
  DEF InputTyped, Written, Roads, TakeSignal, Begin, BundleFits, Fails, vars, bundle, run, mailbox, player, kafka
<1>21. ASSUME NEW w \in Workers, Dispatch(w)
      PROVE  InputTyped'
  BY InputTyped, NetworkDomain, <1>21
  DEF InputTyped, Written, Roads, Dispatch, vars, bundle, run, mailbox, player, kafka
<1>22. ASSUME NEW w \in Workers, QueueFull(w)
      PROVE  InputTyped'
  BY InputTyped, NetworkDomain, <1>22
  DEF InputTyped, Written, Roads, QueueFull, HasRoom, vars, bundle, run, mailbox, player, kafka
<1>23. ASSUME NEW w \in Workers, Publish(w)
      PROVE  InputTyped'
  BY InputTyped, NetworkDomain, <1>23
  DEF InputTyped, Written, Roads, Publish, HasRoom, vars, bundle, run, mailbox, player, kafka
<1>24. ASSUME NEW w \in Workers, DeliveryErrorSeen(w)
      PROVE  InputTyped'
  BY InputTyped, NetworkDomain, <1>24
  DEF InputTyped, Written, Roads, DeliveryErrorSeen, Fails, vars, bundle, run, mailbox, player, kafka
<1>25. ASSUME NEW w \in Workers, StartFlush(w)
      PROVE  InputTyped'
  BY InputTyped, NetworkDomain, <1>25
  DEF InputTyped, Written, Roads, StartFlush, vars, bundle, run, mailbox, player, kafka
<1>26. ASSUME NEW w \in Workers, EndReplay(w)
      PROVE  InputTyped'
  BY InputTyped, NetworkDomain, <1>26
  DEF InputTyped, Written, Roads, EndReplay, Flushed, Report, vars, bundle, run, mailbox, player, kafka
<1>27. ASSUME NEW w \in Workers, Exit(w)
      PROVE  InputTyped'
  BY InputTyped, NetworkDomain, <1>27
  DEF InputTyped, Written, Roads, Exit, vars, bundle, run, mailbox, player, kafka
<1>28. ASSUME NEW w \in Workers, Raises(w)
      PROVE  InputTyped'
  BY InputTyped, NetworkDomain, <1>28
  DEF InputTyped, Written, Roads, Raises, Mishap, Fails, vars, bundle, run, mailbox, player, kafka
<1>29. ASSUME NEW w \in Workers, Killed(w)
      PROVE  InputTyped'
  BY InputTyped, NetworkDomain, <1>29
  DEF InputTyped, Written, Roads, Killed, Mishap, vars, bundle, run, mailbox, player, kafka
<1>30. ASSUME NEW w \in Workers, NEW m \in unsent[w], Delivered(w, m)
      PROVE  InputTyped'
  BY InputTyped, NetworkDomain, <1>30
  DEF InputTyped, Written, Roads, Delivered, vars, bundle, run, mailbox, player, kafka
<1>31. ASSUME NEW w \in Workers, NEW m \in unsent[w], Confirmed(w, m)
      PROVE  InputTyped'
  BY InputTyped, NetworkDomain, <1>31
  DEF InputTyped, Written, Roads, Confirmed, Polls, vars, bundle, run, mailbox, player, kafka
<1>32. ASSUME NEW w \in Workers, NEW m \in unsent[w], NotDelivered(w, m)
      PROVE  InputTyped'
  BY InputTyped, NetworkDomain, <1>32
  DEF InputTyped, Written, Roads, NotDelivered, Polls, Mishap, vars, bundle, run, mailbox, player, kafka
<1>33. CASE UNCHANGED vars
  BY InputTyped, <1>33 DEF InputTyped, vars, bundle, run, mailbox, player, kafka
<1>34. CASE StartCutShort
  BY InputTyped, NetworkDomain, <1>34
  DEF InputTyped, Written, Roads, StartCutShort, Mishap, vars, bundle, run, mailbox, player, kafka
<1>35. ASSUME NEW w \in Workers, NextRaises(w)
      PROVE  InputTyped'
  BY InputTyped, NetworkDomain, <1>35
  DEF InputTyped, Written, Roads, NextRaises, Fails, vars, bundle, run, mailbox, player, kafka
<1> QED
  BY <1>1, <1>2, <1>3, <1>4, <1>5, <1>6, <1>7, <1>8, <1>9, <1>10, <1>11, <1>12, <1>13, <1>14, <1>15, <1>16, <1>17, <1>18, <1>19, <1>20, <1>21, <1>22, <1>23, <1>24, <1>25, <1>26, <1>27, <1>28, <1>29, <1>30, <1>31, <1>32, <1>33, <1>34, <1>35
  DEF Next, Prepare, Start, Coordinate, WorkerStep, Broker

LEMMA RunStep ==
  ASSUME InputTyped, RunTyped, [Next]_vars
  PROVE  RunTyped'
<1>1. CASE RefreshRoads
  BY InputTyped, RunTyped, WorkersCount, NetworkDomain, ReplayAssumption, <1>1
  DEF RunTyped, Alive, Ended, RefreshRoads, vars, bundle, run, mailbox, player, kafka
<1>2. CASE StartPrepare
  BY InputTyped, RunTyped, WorkersCount, NetworkDomain, ReplayAssumption, <1>2
  DEF RunTyped, Alive, Ended, StartPrepare, vars, bundle, run, mailbox, player, kafka
<1>3. CASE WriteTrips
  BY InputTyped, RunTyped, WorkersCount, NetworkDomain, ReplayAssumption, <1>3
  DEF RunTyped, Alive, Ended, WriteTrips, Preparing, vars, bundle, run, mailbox, player, kafka
<1>4. CASE WriteRoutes
  BY InputTyped, RunTyped, WorkersCount, NetworkDomain, ReplayAssumption, <1>4
  DEF RunTyped, Alive, Ended, WriteRoutes, Preparing, vars, bundle, run, mailbox, player, kafka
<1>5. CASE MoveTrips
  BY InputTyped, RunTyped, WorkersCount, NetworkDomain, ReplayAssumption, <1>5
  DEF RunTyped, Alive, Ended, MoveTrips, Preparing, vars, bundle, run, mailbox, player, kafka
<1>6. CASE MoveRoutes
  BY InputTyped, RunTyped, WorkersCount, NetworkDomain, ReplayAssumption, <1>6
  DEF RunTyped, Alive, Ended, MoveRoutes, Preparing, vars, bundle, run, mailbox, player, kafka
<1>7. CASE WriteManifest
  BY InputTyped, RunTyped, WorkersCount, NetworkDomain, ReplayAssumption, <1>7
  DEF RunTyped, Alive, Ended, WriteManifest, Preparing, vars, bundle, run, mailbox, player, kafka
<1>8. CASE RemoveBundle
  BY InputTyped, RunTyped, WorkersCount, NetworkDomain, ReplayAssumption, <1>8
  DEF RunTyped, Alive, Ended, RemoveBundle, Preparing, vars, bundle, run, mailbox, player, kafka
<1>9. ASSUME NEW crash \in BOOLEAN, PrepareFails(crash)
      PROVE  RunTyped'
  BY InputTyped, RunTyped, WorkersCount, NetworkDomain, ReplayAssumption, <1>9
  DEF RunTyped, Alive, Ended, PrepareFails, Preparing, Mishap, Interrupted, vars, bundle, run, mailbox, player, kafka
<1>10. ASSUME NEW wall \in Walls, StartSolo(wall)
      PROVE  RunTyped'
<2>1. road \in Roads
    BY InputTyped, RunTyped, WorkersCount, NetworkDomain, ReplayAssumption DEF InputTyped, Roads
<2>2. /\ main' = "solo" /\ proc' = [proc EXCEPT ![Solo] = "play"]
      /\ loaded' = [loaded EXCEPT ![Solo] = road]
      /\ UNCHANGED <<got, starved, status, signals, errors, mishaps>>
    BY <1>10 DEF StartSolo, mailbox, kafka
<2> QED
    BY InputTyped, RunTyped, WorkersCount, NetworkDomain, ReplayAssumption, <2>1, <2>2 DEF RunTyped, Alive, Ended
<1>11. CASE StartParallel
  BY InputTyped, RunTyped, WorkersCount, NetworkDomain, ReplayAssumption, <1>11
  DEF RunTyped, Alive, Ended, StartParallel, vars, bundle, run, mailbox, player, kafka
<1>12. CASE Receive
<2>1. status' \in Seq(Letters)
    BY InputTyped, RunTyped, WorkersCount, NetworkDomain, ReplayAssumption, <1>12 DEF RunTyped, Receive
<2>2. got' \in 0..(Cardinality(Workers) - 1)
    BY InputTyped, RunTyped, WorkersCount, NetworkDomain, ReplayAssumption, <1>12 DEF RunTyped, Receive
<2>3. main' \in {"idle", "solo", "ready", "start", "result", "join", "stop", "done", "failed"}
    BY InputTyped, RunTyped, WorkersCount, NetworkDomain, ReplayAssumption, <1>12 DEF RunTyped, Receive, Coordinates, AfterAll
<2>4. UNCHANGED <<starved, signals, proc, loaded, errors, mishaps>>
    BY <1>12 DEF Receive, Coordinates, kafka
<2> QED
    BY InputTyped, RunTyped, WorkersCount, NetworkDomain, ReplayAssumption, <2>1, <2>2, <2>3, <2>4 DEF RunTyped
<1>13. CASE Starve
  BY InputTyped, RunTyped, WorkersCount, NetworkDomain, ReplayAssumption, <1>13
  DEF RunTyped, Alive, Ended, Starve, Coordinates, vars, bundle, run, mailbox, player, kafka
<1>14. CASE LookAtWorkers
<2>1. main' \in {"idle", "solo", "ready", "start", "result", "join", "stop", "done", "failed"}
    BY InputTyped, RunTyped, WorkersCount, NetworkDomain, ReplayAssumption, <1>14 DEF RunTyped, LookAtWorkers, Coordinates
<2>2. starved' = FALSE /\ UNCHANGED <<got, status, signals, proc, loaded, errors, mishaps>>
    BY <1>14 DEF LookAtWorkers, Coordinates, kafka
<2> QED
    BY InputTyped, RunTyped, WorkersCount, NetworkDomain, ReplayAssumption, <2>1, <2>2 DEF RunTyped
<1>15. ASSUME NEW wall \in Walls, Signal(wall)
      PROVE  RunTyped'
  BY InputTyped, RunTyped, WorkersCount, NetworkDomain, ReplayAssumption, <1>15
  DEF RunTyped, Alive, Ended, Signal, Coordinates, vars, bundle, run, mailbox, player, kafka
<1>16. CASE Stop
  BY InputTyped, RunTyped, WorkersCount, NetworkDomain, ReplayAssumption, <1>16
  DEF RunTyped, Alive, Ended, Stop, vars, bundle, run, mailbox, player, kafka
<1>17. CASE Join
  BY InputTyped, RunTyped, WorkersCount, NetworkDomain, ReplayAssumption, <1>17
  DEF RunTyped, Alive, Ended, Join, Coordinates, AllExited, vars, bundle, run, mailbox, player, kafka
<1>18. CASE JoinTimesOut
  BY InputTyped, RunTyped, WorkersCount, NetworkDomain, ReplayAssumption, <1>18
  DEF RunTyped, Alive, Ended, JoinTimesOut, Mishap, vars, bundle, run, mailbox, player, kafka
<1>19. ASSUME NEW w \in Workers, Load(w)
      PROVE  RunTyped'
<2>1. CASE ~SameRoads(w)
<3>1. Fails(w) /\ UNCHANGED mishaps
      BY <1>19, <2>1 DEF Load
<3>2. mishaps' \in 0..MaxMishaps
      BY InputTyped, RunTyped, WorkersCount, NetworkDomain, ReplayAssumption, <3>1 DEF RunTyped
<3> QED
      BY InputTyped, RunTyped, WorkersCount, NetworkDomain, ReplayAssumption, <3>1, <3>2, FailTyped
<2>2. CASE SameRoads(w)
<3>1. /\ status' = Append(status, <<"ready", w>>)
      /\ proc' = [proc EXCEPT ![w] = "wait"] /\ loaded' = [loaded EXCEPT ![w] = road]
      BY <1>19, <2>2 DEF Load, Report
<3>2. UNCHANGED <<main, got, starved, signals, errors, mishaps>>
      BY <1>19, <2>2 DEF Load, Report, kafka
<3>3. status' \in Seq(Letters)
      BY InputTyped, RunTyped, WorkersCount, NetworkDomain, ReplayAssumption, <3>1, Mailed DEF RunTyped
<3>4. road \in Roads
      BY InputTyped, RunTyped, WorkersCount, NetworkDomain, ReplayAssumption DEF InputTyped, Roads
<3> QED
      BY InputTyped, RunTyped, WorkersCount, NetworkDomain, ReplayAssumption, <3>1, <3>2, <3>3, <3>4 DEF RunTyped, Alive, Ended
<2> QED
    BY <2>1, <2>2
<1>20. ASSUME NEW w \in Workers, TakeSignal(w)
      PROVE  RunTyped'
<2>1. CASE ~(BundleFits(mainRoad) /\ Enters(w, anchor, loaded[w]))
<3>1. Fails(w) /\ UNCHANGED mishaps
      BY <1>20, <2>1 DEF TakeSignal
<3>2. mishaps' \in 0..MaxMishaps
      BY InputTyped, RunTyped, WorkersCount, NetworkDomain, ReplayAssumption, <3>1 DEF RunTyped
<3> QED
      BY InputTyped, RunTyped, WorkersCount, NetworkDomain, ReplayAssumption, <3>1, <3>2, FailTyped
<2>2. CASE BundleFits(mainRoad) /\ Enters(w, anchor, loaded[w])
<3>1. /\ proc' = [proc EXCEPT ![w] = "play"]
      /\ signals > 0 /\ signals' = signals - 1
      BY <1>20, <2>2 DEF TakeSignal
<3>2. UNCHANGED <<main, got, starved, status, loaded, errors, mishaps>>
      BY <1>20, <2>2 DEF TakeSignal, kafka
<3> QED
      BY InputTyped, RunTyped, WorkersCount, NetworkDomain, ReplayAssumption, <3>1, <3>2 DEF RunTyped, Alive, Ended
<2> QED
    BY <2>1, <2>2
<1>21. ASSUME NEW w \in Workers, Dispatch(w)
      PROVE  RunTyped'
  BY InputTyped, RunTyped, WorkersCount, NetworkDomain, ReplayAssumption, <1>21
  DEF RunTyped, Alive, Ended, Dispatch, vars, bundle, run, mailbox, player, kafka
<1>22. ASSUME NEW w \in Workers, QueueFull(w)
      PROVE  RunTyped'
  BY InputTyped, RunTyped, WorkersCount, NetworkDomain, ReplayAssumption, <1>22
  DEF RunTyped, Alive, Ended, QueueFull, HasRoom, vars, bundle, run, mailbox, player, kafka
<1>23. ASSUME NEW w \in Workers, Publish(w)
      PROVE  RunTyped'
  BY InputTyped, RunTyped, WorkersCount, NetworkDomain, ReplayAssumption, <1>23
  DEF RunTyped, Alive, Ended, Publish, HasRoom, vars, bundle, run, mailbox, player, kafka
<1>24. ASSUME NEW w \in Workers, DeliveryErrorSeen(w)
      PROVE  RunTyped'
<2>1. Fails(w)
    BY <1>24 DEF DeliveryErrorSeen
<2>2. mishaps' \in 0..MaxMishaps
    BY InputTyped, RunTyped, WorkersCount, NetworkDomain, ReplayAssumption, <1>24 DEF RunTyped, DeliveryErrorSeen, Mishap
<2> QED
    BY InputTyped, RunTyped, WorkersCount, NetworkDomain, ReplayAssumption, <2>1, <2>2, FailTyped
<1>25. ASSUME NEW w \in Workers, StartFlush(w)
      PROVE  RunTyped'
  BY InputTyped, RunTyped, WorkersCount, NetworkDomain, ReplayAssumption, <1>25
  DEF RunTyped, Alive, Ended, StartFlush, vars, bundle, run, mailbox, player, kafka
<1>26. ASSUME NEW w \in Workers, EndReplay(w)
      PROVE  RunTyped'
<2>1. CASE main = "solo"
<3>1. main' = "done" /\ proc' = [proc EXCEPT ![w] = "exited"]
      BY <1>26, <2>1 DEF EndReplay
<3>2. UNCHANGED <<got, starved, status, signals, loaded, errors, mishaps>>
      BY <1>26, <2>1 DEF EndReplay, mailbox, kafka
<3> QED
      BY InputTyped, RunTyped, WorkersCount, NetworkDomain, ReplayAssumption, <3>1, <3>2 DEF RunTyped, Alive, Ended
<2>2. CASE main # "solo"
<3>1. /\ status' = Append(status, <<"result", w>>)
      /\ proc' = [proc EXCEPT ![w] = "sent"]
      BY <1>26, <2>2 DEF EndReplay, Report
<3>2. UNCHANGED <<main, got, starved, signals, loaded, errors, mishaps>>
      BY <1>26, <2>2 DEF EndReplay, Report, kafka
<3>3. status' \in Seq(Letters)
      BY InputTyped, RunTyped, WorkersCount, NetworkDomain, ReplayAssumption, <3>1, Mailed DEF RunTyped
<3> QED
      BY InputTyped, RunTyped, WorkersCount, NetworkDomain, ReplayAssumption, <3>1, <3>2, <3>3 DEF RunTyped, Alive, Ended
<2> QED
    BY <2>1, <2>2
<1>27. ASSUME NEW w \in Workers, Exit(w)
      PROVE  RunTyped'
  BY InputTyped, RunTyped, WorkersCount, NetworkDomain, ReplayAssumption, <1>27
  DEF RunTyped, Alive, Ended, Exit, vars, bundle, run, mailbox, player, kafka
<1>28. ASSUME NEW w \in Workers, Raises(w)
      PROVE  RunTyped'
<2>1. Fails(w)
    BY <1>28 DEF Raises
<2>2. mishaps' \in 0..MaxMishaps
    BY InputTyped, RunTyped, WorkersCount, NetworkDomain, ReplayAssumption, <1>28 DEF RunTyped, Raises, Mishap
<2> QED
    BY InputTyped, RunTyped, WorkersCount, NetworkDomain, ReplayAssumption, <2>1, <2>2, FailTyped
<1>29. ASSUME NEW w \in Workers, Killed(w)
      PROVE  RunTyped'
  BY InputTyped, RunTyped, WorkersCount, NetworkDomain, ReplayAssumption, <1>29
  DEF RunTyped, Alive, Ended, Killed, Mishap, vars, bundle, run, mailbox, player, kafka
<1>30. ASSUME NEW w \in Workers, NEW m \in unsent[w], Delivered(w, m)
      PROVE  RunTyped'
  BY InputTyped, RunTyped, WorkersCount, NetworkDomain, ReplayAssumption, <1>30
  DEF RunTyped, Alive, Ended, Delivered, vars, bundle, run, mailbox, player, kafka
<1>31. ASSUME NEW w \in Workers, NEW m \in unsent[w], Confirmed(w, m)
      PROVE  RunTyped'
  BY InputTyped, RunTyped, WorkersCount, NetworkDomain, ReplayAssumption, <1>31
  DEF RunTyped, Alive, Ended, Confirmed, Polls, vars, bundle, run, mailbox, player, kafka
<1>32. ASSUME NEW w \in Workers, NEW m \in unsent[w], NotDelivered(w, m)
      PROVE  RunTyped'
  BY InputTyped, RunTyped, WorkersCount, NetworkDomain, ReplayAssumption, <1>32
  DEF RunTyped, Alive, Ended, NotDelivered, Polls, Mishap, vars, bundle, run, mailbox, player, kafka
<1>33. CASE UNCHANGED vars
  BY RunTyped, <1>33 DEF RunTyped, vars, bundle, run, mailbox, player, kafka
<1>34. CASE StartCutShort
<2>1. main' = "stranded" /\ UNCHANGED <<got, starved, status, signals, loaded, errors>>
    BY <1>34 DEF StartCutShort, mailbox, kafka
<2>2. proc' \in [Workers -> {"none", "load"}]
    BY <1>34 DEF StartCutShort
<2>3. mishaps' \in 0..MaxMishaps
    BY InputTyped, RunTyped, WorkersCount, NetworkDomain, ReplayAssumption, <1>34 DEF RunTyped, StartCutShort, Mishap
<2>4. proc' \in [Workers -> {"none"} \cup Alive \cup Ended]
    BY <2>2 DEF Alive
<2> QED
    BY RunTyped, <2>1, <2>3, <2>4 DEF RunTyped
<1>35. ASSUME NEW w \in Workers, NextRaises(w)
      PROVE  RunTyped'
<2>1. Fails(w) /\ UNCHANGED mishaps
    BY <1>35 DEF NextRaises
<2>2. mishaps' \in 0..MaxMishaps
    BY RunTyped, <2>1 DEF RunTyped
<2> QED
    BY InputTyped, RunTyped, WorkersCount, NetworkDomain, ReplayAssumption, <2>1, <2>2, FailTyped
<1> QED
  BY <1>1, <1>2, <1>3, <1>4, <1>5, <1>6, <1>7, <1>8, <1>9, <1>10, <1>11, <1>12, <1>13, <1>14, <1>15, <1>16, <1>17, <1>18, <1>19, <1>20, <1>21, <1>22, <1>23, <1>24, <1>25, <1>26, <1>27, <1>28, <1>29, <1>30, <1>31, <1>32, <1>33, <1>34, <1>35
  DEF Next, Prepare, Start, Coordinate, WorkerStep, Broker

LEMMA Emptied ==
  ASSUME QueuesBounded, NEW w \in Workers, unsent' = [unsent EXCEPT ![w] = {}]
  PROVE  QueuesBounded'
  BY FS_EmptySet, ReplayAssumption DEF QueuesBounded

LEMMA QueueStep ==
  ASSUME QueuesBounded, [Next]_vars
  PROVE  QueuesBounded'
<1>1. CASE RefreshRoads
  BY QueuesBounded, ReplayAssumption, <1>1
  DEF QueuesBounded, RefreshRoads, vars, bundle, run, mailbox, player, kafka
<1>2. CASE StartPrepare
  BY QueuesBounded, ReplayAssumption, <1>2
  DEF QueuesBounded, StartPrepare, vars, bundle, run, mailbox, player, kafka
<1>3. CASE WriteTrips
  BY QueuesBounded, ReplayAssumption, <1>3
  DEF QueuesBounded, WriteTrips, Preparing, vars, bundle, run, mailbox, player, kafka
<1>4. CASE WriteRoutes
  BY QueuesBounded, ReplayAssumption, <1>4
  DEF QueuesBounded, WriteRoutes, Preparing, vars, bundle, run, mailbox, player, kafka
<1>5. CASE MoveTrips
  BY QueuesBounded, ReplayAssumption, <1>5
  DEF QueuesBounded, MoveTrips, Preparing, vars, bundle, run, mailbox, player, kafka
<1>6. CASE MoveRoutes
  BY QueuesBounded, ReplayAssumption, <1>6
  DEF QueuesBounded, MoveRoutes, Preparing, vars, bundle, run, mailbox, player, kafka
<1>7. CASE WriteManifest
  BY QueuesBounded, ReplayAssumption, <1>7
  DEF QueuesBounded, WriteManifest, Preparing, vars, bundle, run, mailbox, player, kafka
<1>8. CASE RemoveBundle
  BY QueuesBounded, ReplayAssumption, <1>8
  DEF QueuesBounded, RemoveBundle, Preparing, vars, bundle, run, mailbox, player, kafka
<1>9. ASSUME NEW crash \in BOOLEAN, PrepareFails(crash)
      PROVE  QueuesBounded'
  BY QueuesBounded, ReplayAssumption, <1>9
  DEF QueuesBounded, PrepareFails, Preparing, Mishap, Interrupted, vars, bundle, run, mailbox, player, kafka
<1>10. ASSUME NEW wall \in Walls, StartSolo(wall)
      PROVE  QueuesBounded'
  BY QueuesBounded, ReplayAssumption, <1>10
  DEF QueuesBounded, StartSolo, Begin, BundleFits, vars, bundle, run, mailbox, player, kafka
<1>11. CASE StartParallel
  BY QueuesBounded, ReplayAssumption, <1>11
  DEF QueuesBounded, StartParallel, vars, bundle, run, mailbox, player, kafka
<1>12. CASE Receive
  BY QueuesBounded, ReplayAssumption, <1>12
  DEF QueuesBounded, Receive, Coordinates, AfterAll, Awaits, vars, bundle, run, mailbox, player, kafka
<1>13. CASE Starve
  BY QueuesBounded, ReplayAssumption, <1>13
  DEF QueuesBounded, Starve, Coordinates, vars, bundle, run, mailbox, player, kafka
<1>14. CASE LookAtWorkers
  BY QueuesBounded, ReplayAssumption, <1>14
  DEF QueuesBounded, LookAtWorkers, Coordinates, GivesUp, vars, bundle, run, mailbox, player, kafka
<1>15. ASSUME NEW wall \in Walls, Signal(wall)
      PROVE  QueuesBounded'
  BY QueuesBounded, ReplayAssumption, <1>15
  DEF QueuesBounded, Signal, Coordinates, vars, bundle, run, mailbox, player, kafka
<1>16. CASE Stop
  BY QueuesBounded, ReplayAssumption, <1>16, FS_EmptySet DEF QueuesBounded, Stop
<1>17. CASE Join
  BY QueuesBounded, ReplayAssumption, <1>17
  DEF QueuesBounded, Join, Coordinates, AllExited, vars, bundle, run, mailbox, player, kafka
<1>18. CASE JoinTimesOut
  BY QueuesBounded, ReplayAssumption, <1>18
  DEF QueuesBounded, JoinTimesOut, Mishap, vars, bundle, run, mailbox, player, kafka
<1>19. ASSUME NEW w \in Workers, Load(w)
      PROVE  QueuesBounded'
<2>1. CASE SameRoads(w)
<3>1. UNCHANGED unsent
      BY <1>19, <2>1 DEF Load, kafka
<3> QED
      BY QueuesBounded, ReplayAssumption, <3>1 DEF QueuesBounded
<2>2. CASE ~SameRoads(w)
<3>1. unsent' = [unsent EXCEPT ![w] = {}]
      BY <1>19, <2>2 DEF Load, Fails
<3> QED
      BY QueuesBounded, ReplayAssumption, <3>1, Emptied
<2> QED
    BY <2>1, <2>2
<1>20. ASSUME NEW w \in Workers, TakeSignal(w)
      PROVE  QueuesBounded'
<2>1. CASE BundleFits(mainRoad) /\ Enters(w, anchor, loaded[w])
<3>1. UNCHANGED unsent
      BY <1>20, <2>1 DEF TakeSignal, kafka
<3> QED
      BY QueuesBounded, ReplayAssumption, <3>1 DEF QueuesBounded
<2>2. CASE ~(BundleFits(mainRoad) /\ Enters(w, anchor, loaded[w]))
<3>1. unsent' = [unsent EXCEPT ![w] = {}]
      BY <1>20, <2>2 DEF TakeSignal, Fails
<3> QED
      BY QueuesBounded, ReplayAssumption, <3>1, Emptied
<2> QED
    BY <2>1, <2>2
<1>21. ASSUME NEW w \in Workers, Dispatch(w)
      PROVE  QueuesBounded'
  BY QueuesBounded, ReplayAssumption, <1>21
  DEF QueuesBounded, Dispatch, vars, bundle, run, mailbox, player, kafka
<1>22. ASSUME NEW w \in Workers, QueueFull(w)
      PROVE  QueuesBounded'
  BY QueuesBounded, ReplayAssumption, <1>22
  DEF QueuesBounded, QueueFull, HasRoom, vars, bundle, run, mailbox, player, kafka
<1>23. ASSUME NEW w \in Workers, Publish(w)
      PROVE  QueuesBounded'
<2> DEFINE message == Message(w, First(w))
<2>1. unsent' = [unsent EXCEPT ![w] = @ \cup {message}] /\ Cardinality(unsent[w]) < QueueLimit
    BY <1>23 DEF Publish, HasRoom
<2> HIDE DEF message
<2>2. IsFiniteSet(unsent[w]) /\ Cardinality(unsent[w]) \in Nat
    BY QueuesBounded, ReplayAssumption, FS_CardinalityType DEF QueuesBounded
<2>3. /\ IsFiniteSet(unsent[w] \cup {message})
      /\ Cardinality(unsent[w] \cup {message}) \in {Cardinality(unsent[w]), Cardinality(unsent[w]) + 1}
    BY <2>2, FS_AddElement
<2>4. Cardinality(unsent[w] \cup {message}) <= QueueLimit
    BY <2>1, <2>2, <2>3, ReplayAssumption
<2> QED
    BY QueuesBounded, ReplayAssumption, <2>1, <2>3, <2>4 DEF QueuesBounded
<1>24. ASSUME NEW w \in Workers, DeliveryErrorSeen(w)
      PROVE  QueuesBounded'
<2>1. unsent' = [unsent EXCEPT ![w] = {}]
    BY <1>24 DEF DeliveryErrorSeen, Fails
<2> QED
    BY QueuesBounded, ReplayAssumption, <2>1, Emptied
<1>25. ASSUME NEW w \in Workers, StartFlush(w)
      PROVE  QueuesBounded'
  BY QueuesBounded, ReplayAssumption, <1>25
  DEF QueuesBounded, StartFlush, vars, bundle, run, mailbox, player, kafka
<1>26. ASSUME NEW w \in Workers, EndReplay(w)
      PROVE  QueuesBounded'
  BY QueuesBounded, ReplayAssumption, <1>26
  DEF QueuesBounded, EndReplay, Flushed, Report, vars, bundle, run, mailbox, player, kafka
<1>27. ASSUME NEW w \in Workers, Exit(w)
      PROVE  QueuesBounded'
<2>1. unsent' = [unsent EXCEPT ![w] = {}]
    BY <1>27 DEF Exit, Fails
<2> QED
    BY QueuesBounded, ReplayAssumption, <2>1, Emptied
<1>28. ASSUME NEW w \in Workers, Raises(w)
      PROVE  QueuesBounded'
<2>1. unsent' = [unsent EXCEPT ![w] = {}]
    BY <1>28 DEF Raises, Fails
<2> QED
    BY QueuesBounded, ReplayAssumption, <2>1, Emptied
<1>29. ASSUME NEW w \in Workers, Killed(w)
      PROVE  QueuesBounded'
<2>1. unsent' = [unsent EXCEPT ![w] = {}]
    BY <1>29 DEF Killed, Fails
<2> QED
    BY QueuesBounded, ReplayAssumption, <2>1, Emptied
<1>30. ASSUME NEW w \in Workers, NEW m \in unsent[w], Delivered(w, m)
      PROVE  QueuesBounded'
  BY QueuesBounded, ReplayAssumption, <1>30
  DEF QueuesBounded, Delivered, vars, bundle, run, mailbox, player, kafka
<1>31. ASSUME NEW w \in Workers, NEW m \in unsent[w], Confirmed(w, m)
      PROVE  QueuesBounded'
<2>1. unsent' = [unsent EXCEPT ![w] = @ \ {m}]
    BY <1>31 DEF Confirmed, Polls
<2>2. /\ IsFiniteSet(unsent[w]) /\ Cardinality(unsent[w]) <= QueueLimit
      /\ Cardinality(unsent[w]) \in Nat
    BY QueuesBounded, ReplayAssumption, FS_CardinalityType DEF QueuesBounded
<2>3. /\ IsFiniteSet(unsent[w] \ {m})
      /\ Cardinality(unsent[w] \ {m}) = Cardinality(unsent[w]) - 1
    BY <2>2, FS_RemoveElement
<2>4. Cardinality(unsent[w] \ {m}) <= QueueLimit
    BY <2>2, <2>3, ReplayAssumption
<2> QED
    BY QueuesBounded, ReplayAssumption, <2>1, <2>3, <2>4 DEF QueuesBounded
<1>32. ASSUME NEW w \in Workers, NEW m \in unsent[w], NotDelivered(w, m)
      PROVE  QueuesBounded'
<2>1. unsent' = [unsent EXCEPT ![w] = @ \ {m}]
    BY <1>32 DEF NotDelivered, Polls
<2>2. /\ IsFiniteSet(unsent[w]) /\ Cardinality(unsent[w]) <= QueueLimit
      /\ Cardinality(unsent[w]) \in Nat
    BY QueuesBounded, ReplayAssumption, FS_CardinalityType DEF QueuesBounded
<2>3. /\ IsFiniteSet(unsent[w] \ {m})
      /\ Cardinality(unsent[w] \ {m}) = Cardinality(unsent[w]) - 1
    BY <2>2, FS_RemoveElement
<2>4. Cardinality(unsent[w] \ {m}) <= QueueLimit
    BY <2>2, <2>3, ReplayAssumption
<2> QED
    BY QueuesBounded, ReplayAssumption, <2>1, <2>3, <2>4 DEF QueuesBounded
<1>33. CASE UNCHANGED vars
  BY QueuesBounded, <1>33 DEF QueuesBounded, vars, bundle, run, mailbox, player, kafka
<1>34. CASE StartCutShort
  BY QueuesBounded, ReplayAssumption, <1>34
  DEF QueuesBounded, StartCutShort, vars, bundle, run, mailbox, player, kafka
<1>35. ASSUME NEW w \in Workers, NextRaises(w)
      PROVE  QueuesBounded'
<2>1. unsent' = [unsent EXCEPT ![w] = {}]
    BY <1>35 DEF NextRaises, Fails
<2> QED
    BY QueuesBounded, ReplayAssumption, <2>1, Emptied
<1> QED
  BY <1>1, <1>2, <1>3, <1>4, <1>5, <1>6, <1>7, <1>8, <1>9, <1>10, <1>11, <1>12, <1>13, <1>14, <1>15, <1>16, <1>17, <1>18, <1>19, <1>20, <1>21, <1>22, <1>23, <1>24, <1>25, <1>26, <1>27, <1>28, <1>29, <1>30, <1>31, <1>32, <1>33, <1>34, <1>35
  DEF Next, Prepare, Start, Coordinate, WorkerStep, Broker

LEMMA TypeStep ==
  ASSUME TypeOK, [Next]_vars
  PROVE  TypeOK'
  BY InputStep, RunStep, QueueStep DEF TypeOK

\* Every variable keeps its type, and no producer queue exceeds its limit.
THEOREM TypeCorrect == Spec => []TypeOK
  BY TypeInit, TypeStep, PTL DEF Spec

-----------------------------------------------------------------------------
\* What every stage of prepare-replay has written before it.
StagesWritten ==
  /\ prep.at # "idle" => disk.manifest = "none" /\ prep.road \in DOMAIN Networks
  /\ prep.at \in {"routes", "move_trips"} => disk.tripsTmp = "whole"
  /\ prep.at \in {"move_trips", "move_routes"} => disk.routesTmp = "whole"
  /\ prep.at \in {"move_routes", "manifest"} => disk.trips = "whole"
  /\ prep.at = "manifest" => disk.routes = "whole"
  /\ disk.manifest = "whole" =>
       disk.trips = "whole" /\ disk.routes = "whole" /\ disk.road \in DOMAIN Networks

LEMMA StagesInit == Init => StagesWritten
  BY DEF Init, StagesWritten, NoFiles

LEMMA StagesStep ==
  ASSUME InputTyped, StagesWritten, [Next]_vars
  PROVE  StagesWritten'
<1>1. CASE RefreshRoads
  BY StagesWritten, <1>1 DEF StagesWritten, RefreshRoads
<1>2. CASE StartPrepare
  BY InputTyped, StagesWritten, <1>2
  DEF InputTyped, Files, StagesWritten, StartPrepare, Preparing, NoFiles
<1>3. CASE WriteTrips
  BY InputTyped, StagesWritten, <1>3
  DEF InputTyped, Files, StagesWritten, WriteTrips, Preparing, NoFiles
<1>4. CASE WriteRoutes
  BY InputTyped, StagesWritten, <1>4
  DEF InputTyped, Files, StagesWritten, WriteRoutes, Preparing, NoFiles
<1>5. CASE MoveTrips
  BY InputTyped, StagesWritten, <1>5
  DEF InputTyped, Files, StagesWritten, MoveTrips, Preparing, NoFiles
<1>6. CASE MoveRoutes
  BY InputTyped, StagesWritten, <1>6
  DEF InputTyped, Files, StagesWritten, MoveRoutes, Preparing, NoFiles
<1>7. CASE WriteManifest
  BY InputTyped, StagesWritten, <1>7
  DEF InputTyped, Files, StagesWritten, WriteManifest, Preparing, NoFiles
<1>8. CASE RemoveBundle
  BY InputTyped, StagesWritten, <1>8
  DEF InputTyped, Files, StagesWritten, RemoveBundle, Preparing, NoFiles
<1>9. ASSUME NEW crash \in BOOLEAN, PrepareFails(crash)
      PROVE  StagesWritten'
<2>1. PICK left \in Interrupted(prep.at) :
        disk' = IF crash \/ prep.at = "manifest" THEN left
                ELSE [left EXCEPT !.tripsTmp = "none", !.routesTmp = "none"]
    BY <1>9 DEF PrepareFails
<2>2. left \in Files /\ left.manifest # "whole"
    BY InputTyped, StagesWritten, <1>9, <2>1 DEF InputTyped, Files, Written, StagesWritten, Interrupted, PrepareFails
<2>3. disk'.manifest # "whole"
    BY <2>1, <2>2 DEF Files
<2>4. prep' = [prep EXCEPT !.at = "idle"]
    BY <1>9 DEF PrepareFails, Preparing
<2> QED
    BY InputTyped, <2>3, <2>4 DEF InputTyped, StagesWritten
<1>10. ASSUME NEW wall \in Walls, StartSolo(wall)
      PROVE  StagesWritten'
  BY StagesWritten, <1>10 DEF StagesWritten, StartSolo, Begin, BundleFits, bundle
<1>11. CASE StartParallel
  BY StagesWritten, <1>11 DEF StagesWritten, StartParallel, bundle
<1>12. CASE Receive
  BY StagesWritten, <1>12 DEF StagesWritten, Receive, Coordinates, AfterAll, Awaits, bundle
<1>13. CASE Starve
  BY StagesWritten, <1>13 DEF StagesWritten, Starve, Coordinates, bundle
<1>14. CASE LookAtWorkers
  BY StagesWritten, <1>14 DEF StagesWritten, LookAtWorkers, Coordinates, GivesUp, bundle
<1>15. ASSUME NEW wall \in Walls, Signal(wall)
      PROVE  StagesWritten'
  BY StagesWritten, <1>15 DEF StagesWritten, Signal, Coordinates, bundle
<1>16. CASE Stop
  BY StagesWritten, <1>16 DEF StagesWritten, Stop, bundle
<1>17. CASE Join
  BY StagesWritten, <1>17 DEF StagesWritten, Join, Coordinates, AllExited, bundle
<1>18. CASE JoinTimesOut
  BY StagesWritten, <1>18 DEF StagesWritten, JoinTimesOut, Mishap, bundle
<1>19. ASSUME NEW w \in Workers, Load(w)
      PROVE  StagesWritten'
  BY StagesWritten, <1>19 DEF StagesWritten, Load, SameRoads, Report, Fails, bundle
<1>20. ASSUME NEW w \in Workers, TakeSignal(w)
      PROVE  StagesWritten'
  BY StagesWritten, <1>20 DEF StagesWritten, TakeSignal, Begin, BundleFits, Fails, bundle
<1>21. ASSUME NEW w \in Workers, Dispatch(w)
      PROVE  StagesWritten'
  BY StagesWritten, <1>21 DEF StagesWritten, Dispatch, bundle
<1>22. ASSUME NEW w \in Workers, QueueFull(w)
      PROVE  StagesWritten'
  BY StagesWritten, <1>22 DEF StagesWritten, QueueFull, HasRoom, bundle
<1>23. ASSUME NEW w \in Workers, Publish(w)
      PROVE  StagesWritten'
  BY StagesWritten, <1>23 DEF StagesWritten, Publish, HasRoom, bundle
<1>24. ASSUME NEW w \in Workers, DeliveryErrorSeen(w)
      PROVE  StagesWritten'
  BY StagesWritten, <1>24 DEF StagesWritten, DeliveryErrorSeen, Fails, bundle
<1>25. ASSUME NEW w \in Workers, StartFlush(w)
      PROVE  StagesWritten'
  BY StagesWritten, <1>25 DEF StagesWritten, StartFlush, bundle
<1>26. ASSUME NEW w \in Workers, EndReplay(w)
      PROVE  StagesWritten'
  BY StagesWritten, <1>26 DEF StagesWritten, EndReplay, Flushed, Report, bundle
<1>27. ASSUME NEW w \in Workers, Exit(w)
      PROVE  StagesWritten'
  BY StagesWritten, <1>27 DEF StagesWritten, Exit, bundle
<1>28. ASSUME NEW w \in Workers, Raises(w)
      PROVE  StagesWritten'
  BY StagesWritten, <1>28 DEF StagesWritten, Raises, Mishap, Fails, bundle
<1>29. ASSUME NEW w \in Workers, Killed(w)
      PROVE  StagesWritten'
  BY StagesWritten, <1>29 DEF StagesWritten, Killed, Mishap, bundle
<1>30. ASSUME NEW w \in Workers, NEW m \in unsent[w], Delivered(w, m)
      PROVE  StagesWritten'
  BY StagesWritten, <1>30 DEF StagesWritten, Delivered, bundle
<1>31. ASSUME NEW w \in Workers, NEW m \in unsent[w], Confirmed(w, m)
      PROVE  StagesWritten'
  BY StagesWritten, <1>31 DEF StagesWritten, Confirmed, Polls, bundle
<1>32. ASSUME NEW w \in Workers, NEW m \in unsent[w], NotDelivered(w, m)
      PROVE  StagesWritten'
  BY StagesWritten, <1>32 DEF StagesWritten, NotDelivered, Polls, Mishap, bundle
<1>33. CASE UNCHANGED vars
  BY StagesWritten, <1>33 DEF StagesWritten, vars, bundle, run, mailbox, player, kafka
<1>34. CASE StartCutShort
  BY StagesWritten, <1>34 DEF StagesWritten, StartCutShort, bundle
<1>35. ASSUME NEW w \in Workers, NextRaises(w)
      PROVE  StagesWritten'
  BY StagesWritten, <1>35 DEF StagesWritten, NextRaises, Fails, bundle
<1> QED
  BY <1>1, <1>2, <1>3, <1>4, <1>5, <1>6, <1>7, <1>8, <1>9, <1>10, <1>11, <1>12, <1>13, <1>14, <1>15, <1>16, <1>17, <1>18, <1>19, <1>20, <1>21, <1>22, <1>23, <1>24, <1>25, <1>26, <1>27, <1>28, <1>29, <1>30, <1>31, <1>32, <1>33, <1>34, <1>35
  DEF Next, Prepare, Start, Coordinate, WorkerStep, Broker

\* A manifest that can be read stands beside whole files (ManifestMeansWhole).
THEOREM ManifestIsLast == Spec => []ManifestMeansWhole
<1>1. StagesWritten => ManifestMeansWhole
  BY DEF StagesWritten, ManifestMeansWhole
<1>2. Init => InputTyped /\ StagesWritten
  BY TypeInit, StagesInit DEF TypeOK
<1>3. InputTyped /\ StagesWritten /\ [Next]_vars => InputTyped' /\ StagesWritten'
  BY InputStep, StagesStep
<1> QED
  BY <1>1, <1>2, <1>3, PTL DEF Spec

-----------------------------------------------------------------------------
Playing == {"play", "full", "flush", "sent", "exited"}

\* Where the dates of the roads of the bundle, of run and of a process are equal.
SnapshotsAgree ==
  /\ main = "idle" => \A w \in Workers : proc[w] = "none"
  /\ \A w \in Workers : proc[w] = "wait" => SameDate(loaded[w], mainRoad)
  /\ \A w \in Workers : mode # "parquet" /\ proc[w] \in Playing =>
       disk.manifest = "whole" /\ SameDate(disk.road, loaded[w])

LEMMA SnapshotsInit == Init => SnapshotsAgree
  BY DEF Init, SnapshotsAgree, SameDate, Playing

LEMMA FailKeepsSnapshots ==
  ASSUME RunTyped, SnapshotsAgree, main # "idle", NEW w \in Workers, Fails(w)
  PROVE  SnapshotsAgree'
<1>1. main' # "idle" /\ proc' = [proc EXCEPT ![w] = "failed"]
  BY DEF Fails
<1>2. UNCHANGED <<mainRoad, mode, loaded, disk>>
  BY DEF Fails, bundle, run
<1> QED
  BY <1>1, <1>2 DEF RunTyped, SnapshotsAgree, SameDate, Playing

LEMMA SnapshotsStep ==
  ASSUME InputTyped, RunTyped, SnapshotsAgree, [Next]_vars
  PROVE  SnapshotsAgree'
<1>1. CASE RefreshRoads
  BY RunTyped, SnapshotsAgree, <1>1
  DEF RunTyped, SnapshotsAgree, SameDate, Playing, Alive, RefreshRoads, vars, bundle, run, mailbox, player, kafka
<1>2. CASE StartPrepare
<2>1. main = "idle" /\ UNCHANGED <<main, mainRoad, mode, proc, loaded>>
    BY <1>2 DEF StartPrepare, Preparing, run
<2> QED
    BY SnapshotsAgree, <2>1 DEF SnapshotsAgree, SameDate, Playing
<1>3. CASE WriteTrips
<2>1. main = "idle" /\ UNCHANGED <<main, mainRoad, mode, proc, loaded>>
    BY <1>3 DEF WriteTrips, Preparing, run
<2> QED
    BY SnapshotsAgree, <2>1 DEF SnapshotsAgree, SameDate, Playing
<1>4. CASE WriteRoutes
<2>1. main = "idle" /\ UNCHANGED <<main, mainRoad, mode, proc, loaded>>
    BY <1>4 DEF WriteRoutes, Preparing, run
<2> QED
    BY SnapshotsAgree, <2>1 DEF SnapshotsAgree, SameDate, Playing
<1>5. CASE MoveTrips
<2>1. main = "idle" /\ UNCHANGED <<main, mainRoad, mode, proc, loaded>>
    BY <1>5 DEF MoveTrips, Preparing, run
<2> QED
    BY SnapshotsAgree, <2>1 DEF SnapshotsAgree, SameDate, Playing
<1>6. CASE MoveRoutes
<2>1. main = "idle" /\ UNCHANGED <<main, mainRoad, mode, proc, loaded>>
    BY <1>6 DEF MoveRoutes, Preparing, run
<2> QED
    BY SnapshotsAgree, <2>1 DEF SnapshotsAgree, SameDate, Playing
<1>7. CASE WriteManifest
<2>1. main = "idle" /\ UNCHANGED <<main, mainRoad, mode, proc, loaded>>
    BY <1>7 DEF WriteManifest, Preparing, run
<2> QED
    BY SnapshotsAgree, <2>1 DEF SnapshotsAgree, SameDate, Playing
<1>8. CASE RemoveBundle
<2>1. main = "idle" /\ UNCHANGED <<main, mainRoad, mode, proc, loaded>>
    BY <1>8 DEF RemoveBundle, Preparing, run
<2> QED
    BY SnapshotsAgree, <2>1 DEF SnapshotsAgree, SameDate, Playing
<1>9. ASSUME NEW crash \in BOOLEAN, PrepareFails(crash)
      PROVE  SnapshotsAgree'
<2>1. main = "idle" /\ UNCHANGED <<main, mainRoad, mode, proc, loaded>>
    BY <1>9 DEF PrepareFails, Preparing, run
<2> QED
    BY SnapshotsAgree, <2>1 DEF SnapshotsAgree, SameDate, Playing
<1>10. ASSUME NEW wall \in Walls, StartSolo(wall)
      PROVE  SnapshotsAgree'
<2>1. /\ main' = "solo" /\ proc' = [proc EXCEPT ![Solo] = "play"]
      /\ loaded' = [loaded EXCEPT ![Solo] = road] /\ UNCHANGED <<mode, disk>>
      /\ mode = "prepared" => disk.manifest = "whole" /\ SameDate(disk.road, road)
    BY <1>10 DEF StartSolo, BundleFits, bundle
<2>2. \A w \in Workers : proc[w] = "none"
    BY SnapshotsAgree, <1>10 DEF SnapshotsAgree, SameDate, StartSolo
<2>3. mode # "parallel" /\ mode \in {"parallel", "prepared", "parquet"}
    BY InputTyped, ReplayAssumption, <1>10 DEF InputTyped, StartSolo
<2> QED
    BY RunTyped, <2>1, <2>2, <2>3, ReplayAssumption DEF RunTyped, SnapshotsAgree, SameDate, Playing
<1>11. CASE StartParallel
  BY RunTyped, SnapshotsAgree, <1>11
  DEF RunTyped, SnapshotsAgree, SameDate, Playing, Alive, StartParallel, vars, bundle, run, mailbox, player, kafka
<1>12. CASE Receive
<2>1. main' # "idle"
    BY <1>12 DEF Receive, Coordinates, AfterAll
<2>2. UNCHANGED <<mainRoad, mode, proc, loaded, disk>>
    BY <1>12 DEF Receive, Coordinates, bundle
<2> QED
    BY SnapshotsAgree, <2>1, <2>2 DEF SnapshotsAgree, SameDate
<1>13. CASE Starve
  BY RunTyped, SnapshotsAgree, <1>13
  DEF RunTyped, SnapshotsAgree, SameDate, Playing, Alive, Starve, Coordinates, vars, bundle, run, mailbox, player, kafka
<1>14. CASE LookAtWorkers
<2>1. main' # "idle"
    BY <1>14 DEF LookAtWorkers, Coordinates, AfterAll
<2>2. UNCHANGED <<mainRoad, mode, proc, loaded, disk>>
    BY <1>14 DEF LookAtWorkers, Coordinates, bundle
<2> QED
    BY SnapshotsAgree, <2>1, <2>2 DEF SnapshotsAgree, SameDate
<1>15. ASSUME NEW wall \in Walls, Signal(wall)
      PROVE  SnapshotsAgree'
<2>1. main' # "idle"
    BY <1>15 DEF Signal, Coordinates, AfterAll
<2>2. UNCHANGED <<mainRoad, mode, proc, loaded, disk>>
    BY <1>15 DEF Signal, Coordinates, bundle
<2> QED
    BY SnapshotsAgree, <2>1, <2>2 DEF SnapshotsAgree, SameDate
<1>16. CASE Stop
<2>1. main' # "idle" /\ UNCHANGED <<mainRoad, mode, loaded, disk>>
    BY <1>16 DEF Stop, bundle, run
<2>2. \A w \in Workers : proc'[w] \in {proc[w], "killed"}
    BY <1>16 DEF Stop
<2> QED
    BY SnapshotsAgree, <2>1, <2>2 DEF SnapshotsAgree, SameDate, Playing
<1>17. CASE Join
<2>1. main' # "idle"
    BY <1>17 DEF Join, Coordinates, AfterAll
<2>2. UNCHANGED <<mainRoad, mode, proc, loaded, disk>>
    BY <1>17 DEF Join, Coordinates, bundle
<2> QED
    BY SnapshotsAgree, <2>1, <2>2 DEF SnapshotsAgree, SameDate
<1>18. CASE JoinTimesOut
  BY RunTyped, SnapshotsAgree, <1>18
  DEF RunTyped, SnapshotsAgree, SameDate, Playing, Alive, JoinTimesOut, Mishap, vars, bundle, run, mailbox, player, kafka
<1>19. ASSUME NEW w \in Workers, Load(w)
      PROVE  SnapshotsAgree'
<2>1. main # "idle"
    BY SnapshotsAgree, <1>19 DEF SnapshotsAgree, SameDate, Load
<2>2. CASE SameRoads(w)
<3>1. /\ proc' = [proc EXCEPT ![w] = "wait"] /\ loaded' = [loaded EXCEPT ![w] = road]
      /\ UNCHANGED <<main, mainRoad, mode, disk>>
      BY <1>19, <2>2 DEF Load, bundle, run
<3> QED
      BY RunTyped, SnapshotsAgree, <1>19, <2>1, <2>2, <3>1
      DEF RunTyped, SnapshotsAgree, SameDate, Playing, Load, SameRoads
<2>3. CASE ~SameRoads(w)
<3>1. Fails(w)
      BY <1>19, <2>3 DEF Load
<3> QED
      BY RunTyped, SnapshotsAgree, <2>1, <3>1, FailKeepsSnapshots
<2> QED
    BY <2>2, <2>3
<1>20. ASSUME NEW w \in Workers, TakeSignal(w)
      PROVE  SnapshotsAgree'
<2>1. main # "idle"
    BY SnapshotsAgree, <1>20 DEF SnapshotsAgree, SameDate, TakeSignal
<2>2. CASE BundleFits(mainRoad) /\ Enters(w, anchor, loaded[w])
<3>1. /\ proc' = [proc EXCEPT ![w] = "play"] /\ loaded' = loaded
      /\ UNCHANGED <<main, mainRoad, mode, disk>>
      BY <1>20, <2>2 DEF TakeSignal, bundle, run
<3> QED
      BY RunTyped, SnapshotsAgree, <1>20, <2>1, <2>2, <3>1
      DEF RunTyped, SnapshotsAgree, SameDate, Playing, TakeSignal, BundleFits
<2>3. CASE ~(BundleFits(mainRoad) /\ Enters(w, anchor, loaded[w]))
<3>1. Fails(w)
      BY <1>20, <2>3 DEF TakeSignal
<3> QED
      BY RunTyped, SnapshotsAgree, <2>1, <3>1, FailKeepsSnapshots
<2> QED
    BY <2>2, <2>3
<1>21. ASSUME NEW w \in Workers, Dispatch(w)
      PROVE  SnapshotsAgree'
  BY RunTyped, SnapshotsAgree, <1>21
  DEF RunTyped, SnapshotsAgree, SameDate, Playing, Alive, Dispatch, vars, bundle, run, mailbox, player, kafka
<1>22. ASSUME NEW w \in Workers, QueueFull(w)
      PROVE  SnapshotsAgree'
  BY RunTyped, SnapshotsAgree, <1>22
  DEF RunTyped, SnapshotsAgree, SameDate, Playing, Alive, QueueFull, HasRoom, vars, bundle, run, mailbox, player, kafka
<1>23. ASSUME NEW w \in Workers, Publish(w)
      PROVE  SnapshotsAgree'
  BY RunTyped, SnapshotsAgree, <1>23
  DEF RunTyped, SnapshotsAgree, SameDate, Playing, Alive, Publish, HasRoom, vars, bundle, run, mailbox, player, kafka
<1>24. ASSUME NEW w \in Workers, DeliveryErrorSeen(w)
      PROVE  SnapshotsAgree'
<2>1. main # "idle" /\ Fails(w)
    BY SnapshotsAgree, <1>24 DEF SnapshotsAgree, SameDate, DeliveryErrorSeen, Alive
<2> QED
    BY RunTyped, SnapshotsAgree, <2>1, FailKeepsSnapshots
<1>25. ASSUME NEW w \in Workers, StartFlush(w)
      PROVE  SnapshotsAgree'
  BY RunTyped, SnapshotsAgree, <1>25
  DEF RunTyped, SnapshotsAgree, SameDate, Playing, Alive, StartFlush, vars, bundle, run, mailbox, player, kafka
<1>26. ASSUME NEW w \in Workers, EndReplay(w)
      PROVE  SnapshotsAgree'
<2>1. /\ main # "idle" /\ main' # "idle"
      /\ \E to \in {"exited", "sent"} : proc' = [proc EXCEPT ![w] = to]
    BY SnapshotsAgree, <1>26 DEF SnapshotsAgree, SameDate, EndReplay
<2>2. UNCHANGED <<mainRoad, mode, loaded, disk>>
    BY <1>26 DEF EndReplay, run, bundle
<2> QED
    BY RunTyped, SnapshotsAgree, <1>26, <2>1, <2>2 DEF RunTyped, SnapshotsAgree, SameDate, Playing, EndReplay
<1>27. ASSUME NEW w \in Workers, Exit(w)
      PROVE  SnapshotsAgree'
  BY RunTyped, SnapshotsAgree, <1>27
  DEF RunTyped, SnapshotsAgree, SameDate, Playing, Alive, Exit, vars, bundle, run, mailbox, player, kafka
<1>28. ASSUME NEW w \in Workers, Raises(w)
      PROVE  SnapshotsAgree'
<2>1. main # "idle" /\ Fails(w)
    BY SnapshotsAgree, <1>28 DEF SnapshotsAgree, SameDate, Raises, Alive
<2> QED
    BY RunTyped, SnapshotsAgree, <2>1, FailKeepsSnapshots
<1>29. ASSUME NEW w \in Workers, Killed(w)
      PROVE  SnapshotsAgree'
  BY RunTyped, SnapshotsAgree, <1>29
  DEF RunTyped, SnapshotsAgree, SameDate, Playing, Alive, Killed, Mishap, vars, bundle, run, mailbox, player, kafka
<1>30. ASSUME NEW w \in Workers, NEW m \in unsent[w], Delivered(w, m)
      PROVE  SnapshotsAgree'
  BY RunTyped, SnapshotsAgree, <1>30
  DEF RunTyped, SnapshotsAgree, SameDate, Playing, Alive, Delivered, vars, bundle, run, mailbox, player, kafka
<1>31. ASSUME NEW w \in Workers, NEW m \in unsent[w], Confirmed(w, m)
      PROVE  SnapshotsAgree'
  BY RunTyped, SnapshotsAgree, <1>31
  DEF RunTyped, SnapshotsAgree, SameDate, Playing, Alive, Confirmed, Polls, vars, bundle, run, mailbox, player, kafka
<1>32. ASSUME NEW w \in Workers, NEW m \in unsent[w], NotDelivered(w, m)
      PROVE  SnapshotsAgree'
  BY RunTyped, SnapshotsAgree, <1>32
  DEF RunTyped, SnapshotsAgree, SameDate, Playing, Alive, NotDelivered, Polls, Mishap, vars, bundle, run, mailbox, player, kafka
<1>33. CASE UNCHANGED vars
  BY SnapshotsAgree, <1>33 DEF SnapshotsAgree, SameDate, vars, bundle, run, mailbox, player, kafka
<1>34. CASE StartCutShort
<2>1. main' = "stranded" /\ \A w \in Workers : proc'[w] \in {"none", "load"}
    BY <1>34 DEF StartCutShort
<2> QED
    BY <2>1 DEF SnapshotsAgree, SameDate, Playing
<1>35. ASSUME NEW w \in Workers, NextRaises(w)
      PROVE  SnapshotsAgree'
<2>1. main # "idle" /\ Fails(w)
    BY SnapshotsAgree, <1>35 DEF SnapshotsAgree, SameDate, NextRaises
<2> QED
    BY RunTyped, SnapshotsAgree, <2>1, FailKeepsSnapshots
<1> QED
  BY <1>1, <1>2, <1>3, <1>4, <1>5, <1>6, <1>7, <1>8, <1>9, <1>10, <1>11, <1>12, <1>13, <1>14, <1>15, <1>16, <1>17, <1>18, <1>19, <1>20, <1>21, <1>22, <1>23, <1>24, <1>25, <1>26, <1>27, <1>28, <1>29, <1>30, <1>31, <1>32, <1>33, <1>34, <1>35
  DEF Next, Prepare, Start, Coordinate, WorkerStep, Broker

-----------------------------------------------------------------------------
\* What holds of the producers of processes that are not running.
CleanEnds ==
  /\ \A w \in Workers : proc[w] \in {"none", "sent", "exited"} =>
       unsent[w] = {} /\ errors[w] = FALSE
  /\ main = "solo" => mode # "parallel" /\ \A w \in Workers : w # Solo => proc[w] = "none"
  /\ main = "done" => \A w \in Workers :
       proc[w] = "exited" \/ (proc[w] = "none" /\ mode # "parallel")

LEMMA CleanInit == Init => CleanEnds
<1> SUFFICES ASSUME Init PROVE CleanEnds
  OBVIOUS
<1>1. \A w \in Workers : errors[w] = FALSE
  BY DEF Init
<1>2. main = "idle" /\ unsent = [w \in Workers |-> {}]
  BY DEF Init
<1> QED
  BY <1>1, <1>2 DEF CleanEnds

LEMMA FailKeepsClean ==
  ASSUME RunTyped, QueuesBounded, CleanEnds, NEW w \in Workers, Fails(w), main # "done",
         main = "solo" => w = Solo
  PROVE  CleanEnds'
<1>1. /\ main' \in {main, "failed"} /\ proc' = [proc EXCEPT ![w] = "failed"]
      /\ unsent' = [unsent EXCEPT ![w] = {}]
  BY DEF Fails
<1>2. UNCHANGED <<mode, errors>>
  BY DEF Fails, run
<1> QED
  BY <1>1, <1>2 DEF RunTyped, QueuesBounded, CleanEnds

LEMMA CleanStep ==
  ASSUME RunTyped, QueuesBounded, SnapshotsAgree, CleanEnds, [Next]_vars
  PROVE  CleanEnds'
<1>1. CASE RefreshRoads
  BY CleanEnds, <1>1 DEF CleanEnds, RefreshRoads, run, kafka
<1>2. CASE StartPrepare
  BY CleanEnds, <1>2 DEF CleanEnds, StartPrepare, run, kafka
<1>3. CASE WriteTrips
  BY CleanEnds, <1>3 DEF CleanEnds, WriteTrips, Preparing, run, kafka
<1>4. CASE WriteRoutes
  BY CleanEnds, <1>4 DEF CleanEnds, WriteRoutes, Preparing, run, kafka
<1>5. CASE MoveTrips
  BY CleanEnds, <1>5 DEF CleanEnds, MoveTrips, Preparing, run, kafka
<1>6. CASE MoveRoutes
  BY CleanEnds, <1>6 DEF CleanEnds, MoveRoutes, Preparing, run, kafka
<1>7. CASE WriteManifest
  BY CleanEnds, <1>7 DEF CleanEnds, WriteManifest, Preparing, run, kafka
<1>8. CASE RemoveBundle
  BY CleanEnds, <1>8 DEF CleanEnds, RemoveBundle, Preparing, run, kafka
<1>9. ASSUME NEW crash \in BOOLEAN, PrepareFails(crash)
      PROVE  CleanEnds'
  BY CleanEnds, <1>9 DEF CleanEnds, PrepareFails, Preparing, Mishap, Interrupted, run, kafka
<1>10. ASSUME NEW wall \in Walls, StartSolo(wall)
      PROVE  CleanEnds'
<2>1. /\ main' = "solo" /\ proc' = [proc EXCEPT ![Solo] = "play"]
      /\ UNCHANGED <<mode, unsent, errors>> /\ mode # "parallel" /\ main = "idle"
    BY <1>10 DEF StartSolo, kafka
<2>2. \A w \in Workers : proc[w] = "none"
    BY SnapshotsAgree, <2>1 DEF SnapshotsAgree
<2> QED
    BY RunTyped, CleanEnds, <2>1, <2>2 DEF RunTyped, CleanEnds
<1>11. CASE StartParallel
  BY CleanEnds, <1>11 DEF CleanEnds, StartParallel, run, kafka
<1>12. CASE Receive
<2>1. main' \notin {"solo", "done"}
    BY <1>12 DEF Receive, Coordinates, AfterAll
<2>2. UNCHANGED <<mode, proc, unsent, errors>>
    BY <1>12 DEF Receive, Coordinates, kafka
<2> QED
    BY CleanEnds, <2>1, <2>2 DEF CleanEnds
<1>13. CASE Starve
<2>1. main' \notin {"solo", "done"}
    BY <1>13 DEF Starve, Coordinates, AfterAll
<2>2. UNCHANGED <<mode, proc, unsent, errors>>
    BY <1>13 DEF Starve, Coordinates, kafka
<2> QED
    BY CleanEnds, <2>1, <2>2 DEF CleanEnds
<1>14. CASE LookAtWorkers
<2>1. main' \notin {"solo", "done"}
    BY <1>14 DEF LookAtWorkers, Coordinates, AfterAll
<2>2. UNCHANGED <<mode, proc, unsent, errors>>
    BY <1>14 DEF LookAtWorkers, Coordinates, kafka
<2> QED
    BY CleanEnds, <2>1, <2>2 DEF CleanEnds
<1>15. ASSUME NEW wall \in Walls, Signal(wall)
      PROVE  CleanEnds'
<2>1. main' \notin {"solo", "done"}
    BY <1>15 DEF Signal, Coordinates, AfterAll
<2>2. UNCHANGED <<mode, proc, unsent, errors>>
    BY <1>15 DEF Signal, Coordinates, kafka
<2> QED
    BY CleanEnds, <2>1, <2>2 DEF CleanEnds
<1>16. CASE Stop
<2>1. main' = "failed" /\ unsent' = [w \in Workers |-> {}] /\ UNCHANGED errors
    BY <1>16 DEF Stop
<2>2. \A w \in Workers : proc'[w] \in {proc[w], "killed"}
    BY <1>16 DEF Stop
<2> QED
    BY CleanEnds, <2>1, <2>2 DEF CleanEnds
<1>17. CASE Join
<2>1. main' # "solo" /\ (main' = "done" => \A w \in Workers : proc[w] = "exited")
    BY <1>17 DEF Join, Coordinates, AllExited
<2>2. UNCHANGED <<mode, proc, unsent, errors>>
    BY <1>17 DEF Join, Coordinates, kafka
<2> QED
    BY CleanEnds, <2>1, <2>2 DEF CleanEnds
<1>18. CASE JoinTimesOut
  BY RunTyped, QueuesBounded, CleanEnds, ReplayAssumption, <1>18
  DEF RunTyped, QueuesBounded, CleanEnds, Alive, Ended, JoinTimesOut, Mishap, vars, bundle, run, mailbox, player, kafka
<1>19. ASSUME NEW w \in Workers, Load(w)
      PROVE  CleanEnds'
<2>1. main # "done" /\ (main = "solo" => w = Solo)
    BY CleanEnds, <1>19 DEF CleanEnds, Load
<2>2. CASE SameRoads(w)
<3>1. /\ proc' = [proc EXCEPT ![w] = "wait"]
      /\ UNCHANGED <<main, mode, unsent, errors>>
      BY <1>19, <2>2 DEF Load, run, kafka
<3> QED
      BY RunTyped, CleanEnds, <2>1, <3>1 DEF RunTyped, CleanEnds
<2>3. CASE ~SameRoads(w)
<3>1. Fails(w)
      BY <1>19, <2>3 DEF Load
<3> QED
      BY RunTyped, QueuesBounded, CleanEnds, <2>1, <3>1, FailKeepsClean
<2> QED
    BY <2>2, <2>3
<1>20. ASSUME NEW w \in Workers, TakeSignal(w)
      PROVE  CleanEnds'
<2>1. main # "done" /\ (main = "solo" => w = Solo)
    BY CleanEnds, <1>20 DEF CleanEnds, TakeSignal
<2>2. CASE BundleFits(mainRoad) /\ Enters(w, anchor, loaded[w])
<3>1. /\ proc' = [proc EXCEPT ![w] = "play"]
      /\ UNCHANGED <<main, mode, unsent, errors>>
      BY <1>20, <2>2 DEF TakeSignal, run, kafka
<3> QED
      BY RunTyped, CleanEnds, <2>1, <3>1 DEF RunTyped, CleanEnds
<2>3. CASE ~(BundleFits(mainRoad) /\ Enters(w, anchor, loaded[w]))
<3>1. Fails(w)
      BY <1>20, <2>3 DEF TakeSignal
<3> QED
      BY RunTyped, QueuesBounded, CleanEnds, <2>1, <3>1, FailKeepsClean
<2> QED
    BY <2>2, <2>3
<1>21. ASSUME NEW w \in Workers, Dispatch(w)
      PROVE  CleanEnds'
  BY RunTyped, QueuesBounded, CleanEnds, ReplayAssumption, <1>21
  DEF RunTyped, QueuesBounded, CleanEnds, Alive, Ended, Dispatch, vars, bundle, run, mailbox, player, kafka
<1>22. ASSUME NEW w \in Workers, QueueFull(w)
      PROVE  CleanEnds'
  BY RunTyped, QueuesBounded, CleanEnds, ReplayAssumption, <1>22
  DEF RunTyped, QueuesBounded, CleanEnds, Alive, Ended, QueueFull, HasRoom, vars, bundle, run, mailbox, player, kafka
<1>23. ASSUME NEW w \in Workers, Publish(w)
      PROVE  CleanEnds'
  BY RunTyped, QueuesBounded, CleanEnds, ReplayAssumption, <1>23
  DEF RunTyped, QueuesBounded, CleanEnds, Alive, Ended, Publish, HasRoom, vars, bundle, run, mailbox, player, kafka
<1>24. ASSUME NEW w \in Workers, DeliveryErrorSeen(w)
      PROVE  CleanEnds'
<2>1. main # "done" /\ (main = "solo" => w = Solo) /\ Fails(w)
    BY CleanEnds, <1>24 DEF CleanEnds, DeliveryErrorSeen, Alive
<2> QED
    BY RunTyped, QueuesBounded, CleanEnds, <2>1, FailKeepsClean
<1>25. ASSUME NEW w \in Workers, StartFlush(w)
      PROVE  CleanEnds'
  BY RunTyped, QueuesBounded, CleanEnds, ReplayAssumption, <1>25
  DEF RunTyped, QueuesBounded, CleanEnds, Alive, Ended, StartFlush, vars, bundle, run, mailbox, player, kafka
<1>26. ASSUME NEW w \in Workers, EndReplay(w)
      PROVE  CleanEnds'
<2>1. unsent[w] = {} /\ errors[w] = FALSE
    BY RunTyped, <1>26 DEF RunTyped, EndReplay, Flushed
<2>2. main # "done" /\ (main = "solo" => w = Solo)
    BY CleanEnds, <1>26 DEF CleanEnds, EndReplay
<2>3. UNCHANGED <<mode, unsent, errors>>
    BY <1>26 DEF EndReplay, run, kafka
<2>4. CASE main = "solo"
<3>1. main' = "done" /\ proc' = [proc EXCEPT ![w] = "exited"]
      BY <1>26, <2>4 DEF EndReplay
<3> QED
      BY RunTyped, CleanEnds, <2>1, <2>2, <2>3, <2>4, <3>1 DEF RunTyped, CleanEnds
<2>5. CASE main # "solo"
<3>1. main' = main /\ proc' = [proc EXCEPT ![w] = "sent"]
      BY <1>26, <2>5 DEF EndReplay
<3> QED
      BY RunTyped, CleanEnds, <2>1, <2>2, <2>3, <2>5, <3>1 DEF RunTyped, CleanEnds
<2> QED
    BY <2>4, <2>5
<1>27. ASSUME NEW w \in Workers, Exit(w)
      PROVE  CleanEnds'
  BY RunTyped, QueuesBounded, CleanEnds, ReplayAssumption, <1>27
  DEF RunTyped, QueuesBounded, CleanEnds, Alive, Ended, Exit, vars, bundle, run, mailbox, player, kafka
<1>28. ASSUME NEW w \in Workers, Raises(w)
      PROVE  CleanEnds'
<2>1. main # "done" /\ (main = "solo" => w = Solo) /\ Fails(w)
    BY CleanEnds, <1>28 DEF CleanEnds, Raises, Alive
<2> QED
    BY RunTyped, QueuesBounded, CleanEnds, <2>1, FailKeepsClean
<1>29. ASSUME NEW w \in Workers, Killed(w)
      PROVE  CleanEnds'
  BY RunTyped, QueuesBounded, CleanEnds, ReplayAssumption, <1>29
  DEF RunTyped, QueuesBounded, CleanEnds, Alive, Ended, Killed, Mishap, vars, bundle, run, mailbox, player, kafka
<1>30. ASSUME NEW w \in Workers, NEW m \in unsent[w], Delivered(w, m)
      PROVE  CleanEnds'
  BY CleanEnds, <1>30 DEF CleanEnds, Delivered, run
<1>31. ASSUME NEW w \in Workers, NEW m \in unsent[w], Confirmed(w, m)
      PROVE  CleanEnds'
<2>1. proc[w] \in {"full", "flush"} /\ UNCHANGED <<main, mode, proc, errors>>
    BY <1>31 DEF Confirmed, Polls, run
<2>2. \A x \in Workers : x # w => unsent'[x] = unsent[x]
    BY QueuesBounded, <1>31 DEF QueuesBounded, Confirmed, Polls
<2> QED
    BY CleanEnds, <2>1, <2>2 DEF CleanEnds
<1>32. ASSUME NEW w \in Workers, NEW m \in unsent[w], NotDelivered(w, m)
      PROVE  CleanEnds'
<2>1. proc[w] \in {"full", "flush"} /\ UNCHANGED <<main, mode, proc>>
    BY <1>32 DEF NotDelivered, Polls, run
<2>2. \A x \in Workers : x # w => unsent'[x] = unsent[x] /\ errors'[x] = errors[x]
    BY RunTyped, QueuesBounded, <1>32 DEF RunTyped, QueuesBounded, NotDelivered, Polls
<2> QED
    BY CleanEnds, <2>1, <2>2 DEF CleanEnds
<1>33. CASE UNCHANGED vars
  BY CleanEnds, <1>33 DEF CleanEnds, vars, bundle, run, mailbox, player, kafka
<1>34. CASE StartCutShort
<2>1. main = "idle" /\ main' = "stranded" /\ UNCHANGED <<mode, unsent, errors>>
    BY <1>34 DEF StartCutShort, kafka
<2>2. \A w \in Workers : proc[w] = "none" /\ proc'[w] \in {"none", "load"}
    BY SnapshotsAgree, <1>34, <2>1 DEF SnapshotsAgree, StartCutShort
<2> QED
    BY CleanEnds, <2>1, <2>2 DEF CleanEnds
<1>35. ASSUME NEW w \in Workers, NextRaises(w)
      PROVE  CleanEnds'
<2>1. main # "done" /\ (main = "solo" => w = Solo) /\ Fails(w)
    BY CleanEnds, <1>35 DEF CleanEnds, NextRaises
<2> QED
    BY RunTyped, QueuesBounded, CleanEnds, <2>1, FailKeepsClean
<1> QED
  BY <1>1, <1>2, <1>3, <1>4, <1>5, <1>6, <1>7, <1>8, <1>9, <1>10, <1>11, <1>12, <1>13, <1>14, <1>15, <1>16, <1>17, <1>18, <1>19, <1>20, <1>21, <1>22, <1>23, <1>24, <1>25, <1>26, <1>27, <1>28, <1>29, <1>30, <1>31, <1>32, <1>33, <1>34, <1>35
  DEF Next, Prepare, Start, Coordinate, WorkerStep, Broker

\* A run that succeeds has lost nothing: of every process it used the exit code
\* was looked at and is 0, and no message of it is unsent or failed.
NothingLeftBehind ==
  main = "done" => \A w \in Workers :
    /\ proc[w] = "exited" \/ (proc[w] = "none" /\ mode # "parallel")
    /\ unsent[w] = {} /\ errors[w] = FALSE

\* The guard of success holds for any number of workers and any queue limit.
THEOREM SuccessLosesNothing == Spec => []NothingLeftBehind
<1> DEFINE IInv == TypeOK /\ SnapshotsAgree /\ CleanEnds
<1>1. IInv => NothingLeftBehind
  BY DEF CleanEnds, NothingLeftBehind
<1>2. Init => IInv
  BY TypeInit, SnapshotsInit, CleanInit
<1>3. IInv /\ [Next]_vars => IInv'
  BY TypeStep, SnapshotsStep, CleanStep DEF TypeOK
<1> QED
  BY <1>1, <1>2, <1>3, PTL DEF Spec

-----------------------------------------------------------------------------
\* What a process has in its queue and in its iterator, by kinds.
Items == [at : Nat, number : Nat, trip : Trips(source), shift : Nat, sample : Nat]
Part(x) == [trip |-> x.trip, shift |-> x.shift]
Messages == [by : Workers, trip : Trips(source), shift : Nat, sample : Nat \ {0}]
List(w) == Playlist(w, anchor)

\* The samples of a trip are in order, none is before the request.
LEMMA Schedule ==
  ASSUME source \in Sources, NEW t \in Trips(source), NEW shift \in Nat, NEW k \in Nat \ {0}
  PROVE  /\ source[t].request + shift \in Nat
         /\ SampleTime(source[t], shift, k) \in Nat
         /\ source[t].request + shift <= SampleTime(source[t], shift, k)
         /\ SampleTime(source[t], shift, k) <= SampleTime(source[t], shift, k + 1)
         /\ SampleCount(source[t]) \in Nat \ {0}
<1> DEFINE r == source[t].request
           p == source[t].pickup
           d == source[t].dropoff
<1>1. r \in Nat /\ p \in Nat /\ d \in Nat
  BY SourcesAssumption DEF Readable
<1>2. r <= p /\ p < d
  BY DEF Trips, Valid
<1>3. Min({d, p + k - 1}) = (IF d <= p + k - 1 THEN d ELSE p + k - 1)
  <2>1. d \in Int /\ p + k - 1 \in Int
    BY <1>1
  <2> HIDE DEF d, p
  <2> QED
    BY <2>1, MinOfTwo
<1>4. Min({d, p + (k + 1) - 1}) = (IF d <= p + (k + 1) - 1 THEN d ELSE p + (k + 1) - 1)
  <2>1. d \in Int /\ p + (k + 1) - 1 \in Int
    BY <1>1
  <2> HIDE DEF d, p
  <2> QED
    BY <2>1, MinOfTwo
<1>5. Max({2, d - p + 1}) = (IF 2 >= d - p + 1 THEN 2 ELSE d - p + 1)
  <2>1. 2 \in Int /\ d - p + 1 \in Int
    BY <1>1
  <2> HIDE DEF d, p
  <2> QED
    BY <2>1, MaxOfTwo
<1>6. /\ SampleTime(source[t], shift, k) = shift + Min({d, p + k - 1})
      /\ SampleTime(source[t], shift, k + 1) = shift + Min({d, p + (k + 1) - 1})
      /\ SampleCount(source[t]) = Max({2, d - p + 1})
  BY DEF SampleTime, SampleCount
<1> HIDE DEF d, p, r
<1>7. source[t].request = r
  BY DEF r
<1> QED
  BY <1>1, <1>2, <1>3, <1>4, <1>5, <1>6, <1>7

\* The queue gives what is due first.
LEMMA FirstIsLeast ==
  ASSUME NEW w \in Workers, due[w] \subseteq Items, due[w] # {}
  PROVE  First(w) \in due[w] /\ \A j \in due[w] : First(w).at <= j.at
<1> DEFINE Times == {i.at : i \in due[w]}
<1>1. PICK time \in Times : \A other \in Times : time <= other
  <2>1. Times # {} /\ Times \subseteq Nat
    BY DEF Items
  <2> QED
    BY <2>1, Smallest
<1> DEFINE Earliest == {i \in due[w] : i.at = time}
           Numbers == {i.number : i \in Earliest}
<1>2. PICK number \in Numbers : \A other \in Numbers : number <= other
  <2>1. Numbers # {} /\ Numbers \subseteq Nat
    BY <1>1 DEF Items
  <2> QED
    BY <2>1, Smallest
<1>3. PICK i \in Earliest : i.number = number
  BY <1>2
<1>4. \A j \in due[w] : i.at < j.at \/ (i.at = j.at /\ i.number <= j.number)
  <2> SUFFICES ASSUME NEW j \in due[w]
               PROVE  i.at < j.at \/ (i.at = j.at /\ i.number <= j.number)
    OBVIOUS
  <2>1. j.at \in Times /\ j.at \in Nat /\ i.at = time /\ i.at \in Nat
    BY DEF Items
  <2>2. CASE j.at = time
    <3>1. j.number \in Numbers
      BY <2>2
    <3> QED
      BY <1>2, <1>3, <2>1, <2>2, <3>1
  <2>3. CASE j.at # time
    BY <1>1, <2>1, <2>3
  <2> QED
    BY <2>2, <2>3
<1>5. \E k \in due[w] : \A j \in due[w] : k.at < j.at \/ (k.at = j.at /\ k.number <= j.number)
  <2>1. i \in due[w]
    OBVIOUS
  <2> QED
    BY <1>4, <2>1
<1>6. /\ First(w) \in due[w]
      /\ \A j \in due[w] : First(w).at < j.at \/ (First(w).at = j.at /\ First(w).number <= j.number)
  BY <1>5 DEF First
<1>7. First(w).at \in Nat /\ \A j \in due[w] : j.at \in Nat
  BY <1>6 DEF Items
<1> QED
  BY <1>6, <1>7

LEMMA ListFits ==
  ASSUME source \in Sources, mode \in Modes,
         NEW w \in Workers, NEW at \in Anchors(source)
  PROVE  /\ at \in Nat
         /\ Playlist(w, at) \in Seq([trip : Trips(source), shift : Nat])
         /\ \A j, k \in DOMAIN Playlist(w, at) : j <= k =>
              at <= Request(Playlist(w, at)[j])
                /\ Request(Playlist(w, at)[j]) <= Request(Playlist(w, at)[k])
<1> DEFINE lists == {ParquetTrips[source][at], PreparedTrips[source][at]}
                      \cup {OfWorker(PreparedTrips[source][at], v) : v \in Workers}
<1>1. Playlist(w, at) \in lists
  BY ReplayAssumption DEF Playlist
<1>2. /\ at \in Nat
      /\ \A list \in lists :
         /\ list \in Seq([trip : Trips(source), shift : Nat])
         /\ \A j, k \in DOMAIN list : j <= k =>
              at <= source[list[j].trip].request + list[j].shift
                 /\ source[list[j].trip].request + list[j].shift
                      <= source[list[k].trip].request + list[k].shift
  BY PlaylistsOrdered DEF PlaylistsInOrder
<1> HIDE DEF lists
<1> QED
  BY <1>1, <1>2 DEF Request

-----------------------------------------------------------------------------
\* The messages a process has to bring to Kafka, those it has produced, and
\* those still to come from its queue and its iterator.
Owed(w) ==
  {m \in Messages : /\ m.by = w /\ Part(m) \in Range(List(w))
                    /\ Plannable(m.trip, loaded[w])
                    /\ m.sample <= SampleCount(source[m.trip])}

Sent(w) == unsent[w] \cup {m \in topic : m.by = w}

Comes(w, m) ==
  \/ \E i \in due[w] : Part(i) = Part(m) /\ i.sample <= m.sample
  \/ \E k \in DOMAIN todo[w] : todo[w][k] = Part(m)

NothingForgotten(w) ==
  errors[w] = FALSE => \A m \in Owed(w) : m \in Sent(w) \/ Comes(w, m)

\* What is due is due in the future, and is owed.
DueAt(i) ==
  IF i.sample = 0 THEN Request(i) ELSE SampleTime(source[i.trip], i.shift, i.sample)

ItemFits(w, i) ==
  /\ i.at = DueAt(i) /\ Part(i) \in Range(List(w))
  /\ i.sample > 0 => Plannable(i.trip, loaded[w]) /\ i.sample <= SampleCount(source[i.trip])

DueFits(w) ==
  /\ due[w] \subseteq Items
  /\ \A i \in due[w] : ItemFits(w, i) /\ clock[w] <= i.at

\* The roads of the process carry the stored routes of what is due.
DueBrought(w) == \A i \in due[w] : Brings(i.trip, loaded[w])

\* The iterator is what is left of the playlist; while it has something left,
\* one dispatch before that is in the queue.
TodoFits(w) ==
  /\ todo[w] \in Seq([trip : Trips(source), shift : Nat])
  /\ \A k \in DOMAIN todo[w] : todo[w][k] \in Range(List(w))
  /\ \A j, k \in DOMAIN todo[w] : j <= k => Request(todo[w][j]) <= Request(todo[w][k])

Dispatches(w) == {i \in due[w] : i.sample = 0}

DispatchFits(w) ==
  /\ \A i, j \in Dispatches(w) : i = j
  /\ todo[w] # <<>> => Dispatches(w) # {}
  /\ \A i \in Dispatches(w) : \A k \in DOMAIN todo[w] : i.at <= Request(todo[w][k])

Counted(w) ==
  /\ tally[w] \in [planned : Nat, skipped : Nat, published : Nat]
  /\ tally[w].planned + tally[w].skipped + Len(todo[w])
       + (IF Dispatches(w) = {} THEN 0 ELSE 1) = Len(List(w))

PlayInv(w) ==
  proc[w] \in Playing =>
    /\ proc[w] \in {"flush", "sent", "exited"} => due[w] = {}
    /\ DueFits(w) /\ DueBrought(w)
    /\ TodoFits(w) /\ DispatchFits(w) /\ Counted(w) /\ NothingForgotten(w)

\* Before the anchor is set nobody plays; it is one that can be.
Underway == main \notin {"idle", "ready", "start", "stranded"}
Unstarted == {"none", "load", "wait"}

StartInv ==
  /\ ~Underway => /\ signals = 0 /\ topic = {}
                  /\ \A w \in Workers : proc[w] \in Unstarted \cup {"failed", "killed"}
  /\ signals > 0 \/ (\E w \in Workers : proc[w] \in Playing) => anchor \in Anchors(source)
  /\ \A w \in Workers : proc[w] \in Unstarted =>
       /\ clock[w] = 0 /\ unsent[w] = {} /\ errors[w] = FALSE
       /\ tally[w] = [planned |-> 0, skipped |-> 0, published |-> 0]
  /\ \A w \in Workers : proc[w] \in {"failed", "killed"} => unsent[w] = {}

\* The functions of the processes that TypeOK does not speak of.
PlayersTyped ==
  /\ clock \in [Workers -> Nat] /\ count \in [Workers -> Nat]
  /\ DOMAIN todo = Workers /\ DOMAIN due = Workers /\ DOMAIN tally = Workers

\* Nothing is sent that is not owed.
NothingInvented ==
  /\ \A w \in Workers : unsent[w] \subseteq Owed(w)
  /\ \A m \in topic : m.by \in Workers /\ proc[m.by] \notin Unstarted /\ m \in Owed(m.by)
  /\ IsFiniteSet(topic)

World == <<source, disk, mode, anchor>>

LEMMA SameRoutes ==
  ASSUME UNCHANGED <<source, disk, mode>>, NEW t, NEW r
  PROVE  Plannable(t, r)' = Plannable(t, r) /\ Brings(t, r)' = Brings(t, r)
BY DEF Plannable, PlanOf, StoredPlan, Brings

LEMMA SameWorld ==
  ASSUME UNCHANGED World, NEW w \in Workers
  PROVE  /\ List(w)' = List(w) /\ Items' = Items
         /\ \A p : Request(p)' = Request(p)
         /\ \A i : DueAt(i)' = DueAt(i)
         /\ loaded'[w] = loaded[w] =>
              Owed(w)' = Owed(w) /\ \A i : ItemFits(w, i)' = ItemFits(w, i)
<1>1. List(w)' = List(w)
  BY DEF World, List, Playlist
<1>2. \A p : Request(p)' = Request(p)
  BY DEF World, Request
<1>3. Items' = Items /\ Messages' = Messages
  BY DEF World, Items, Messages
<1>4. \A i : DueAt(i)' = DueAt(i)
  BY <1>2 DEF World, DueAt
<1>5. ASSUME loaded'[w] = loaded[w]
      PROVE  Owed(w)' = Owed(w) /\ \A i : ItemFits(w, i)' = ItemFits(w, i)
  <2>1. \A t : Plannable(t, loaded[w])' = Plannable(t, loaded[w])
    BY <1>5 DEF World, Plannable, PlanOf, StoredPlan
  <2>2. Owed(w)' = Owed(w)
    BY <1>1, <1>3, <2>1 DEF World, Owed
  <2>3. \A i : ItemFits(w, i)' = ItemFits(w, i)
    BY <1>1, <1>4, <2>1 DEF World, ItemFits
  <2> QED
    BY <2>2, <2>3
<1> QED
  BY <1>1, <1>2, <1>3, <1>4, <1>5

\* A process whose part of the state a step leaves alone.
LEMMA KeepsPlaying ==
  ASSUME UNCHANGED World, NEW w \in Workers, PlayInv(w),
         proc'[w] \in Playing =>
           /\ proc[w] \in Playing
           /\ proc'[w] \in {"flush", "sent", "exited"} => due[w] = {}
           /\ loaded'[w] = loaded[w] /\ todo'[w] = todo[w] /\ due'[w] = due[w]
           /\ clock'[w] = clock[w] /\ tally'[w] = tally[w],
         proc'[w] \in Playing /\ errors'[w] = FALSE =>
           /\ errors[w] = FALSE
           /\ Sent(w) \subseteq Sent(w)'
  PROVE  PlayInv(w)'
<1> SUFFICES ASSUME proc'[w] \in Playing
             PROVE  /\ proc'[w] \in {"flush", "sent", "exited"} => due'[w] = {}
                    /\ DueFits(w)' /\ DueBrought(w)' /\ TodoFits(w)' /\ DispatchFits(w)' /\ Counted(w)'
                    /\ NothingForgotten(w)'
  BY DEF PlayInv
<1>1. /\ DueFits(w) /\ DueBrought(w) /\ TodoFits(w) /\ DispatchFits(w) /\ Counted(w)
      /\ NothingForgotten(w)
  BY DEF PlayInv
<1>2. DueFits(w)'
  BY <1>1, SameWorld DEF DueFits
<1>3. TodoFits(w)'
  BY <1>1, SameWorld DEF TodoFits, World
<1>4. DispatchFits(w)' /\ Dispatches(w)' = Dispatches(w)
  BY <1>1, SameWorld DEF DispatchFits, Dispatches
<1>5. Counted(w)'
  BY <1>1, <1>4, SameWorld DEF Counted
<1>6. NothingForgotten(w)'
  <2> SUFFICES ASSUME errors'[w] = FALSE, NEW m \in Owed(w)
               PROVE  m \in Sent(w)' \/ Comes(w, m)'
    BY SameWorld DEF NothingForgotten
  <2>1. m \in Sent(w) \/ Comes(w, m)
    BY <1>1 DEF NothingForgotten
  <2> QED
    BY <2>1 DEF Comes, Part
<1>7. DueBrought(w)'
  BY <1>1 DEF DueBrought, Brings, StoredPlan, World
<1> QED
  BY <1>1, <1>2, <1>3, <1>4, <1>5, <1>6, <1>7

-----------------------------------------------------------------------------
\* The beginning of a playlist.
LEMMA BeginPlays ==
  ASSUME source \in Sources, mode \in Modes, PlayersTyped,
         NEW w \in Workers, NEW at \in Anchors(source), Begin(w, at), anchor' = at,
         NEW roads, Enters(w, at, roads), loaded'[w] = roads,
         UNCHANGED <<source, disk, mode>>, proc'[w] = "play",
         tally[w] = [planned |-> 0, skipped |-> 0, published |-> 0]
  PROVE  PlayInv(w)' /\ PlayersTyped' /\ at \in Nat /\ clock'[w] = at
<1> DEFINE list == Playlist(w, at)
           item == Item(Request(list[1]), 0, list[1], 0)
           some == list # <<>>
<1>1. /\ todo' = [todo EXCEPT ![w] = IF some THEN Tail(list) ELSE list]
      /\ due' = [due EXCEPT ![w] = IF some THEN {item} ELSE {}]
      /\ count' = [count EXCEPT ![w] = 1] /\ clock' = [clock EXCEPT ![w] = at] /\ tally' = tally
  BY DEF Begin
<1>2. /\ at \in Nat /\ list \in Seq([trip : Trips(source), shift : Nat])
      /\ \A j, k \in DOMAIN list : j <= k =>
           at <= Request(list[j]) /\ Request(list[j]) <= Request(list[k])
  BY ListFits
<1>3. List(w)' = list
  BY DEF List, Playlist
<1>4. /\ todo'[w] = (IF some THEN Tail(list) ELSE list)
      /\ due'[w] = (IF some THEN {item} ELSE {})
      /\ clock'[w] = at /\ tally'[w] = [planned |-> 0, skipped |-> 0, published |-> 0]
  BY <1>1 DEF PlayersTyped
<1>5. PlayersTyped'
  BY <1>1, <1>2 DEF PlayersTyped
<1>6. \A p : Request(p)' = Request(p)
  BY DEF Request
<1>7. ASSUME some
      PROVE  /\ item \in Items /\ list[1] \in [trip : Trips(source), shift : Nat]
             /\ item.at = Request(list[1]) /\ item.sample = 0 /\ Request(item) = Request(list[1])
             /\ Part(item) = list[1] /\ list[1] \in Range(list) /\ at <= item.at
             /\ item.trip = list[1].trip
             /\ Tail(list) \in Seq([trip : Trips(source), shift : Nat])
             /\ Len(list) = Len(Tail(list)) + 1
             /\ \A k \in DOMAIN Tail(list) : k + 1 \in DOMAIN list /\ Tail(list)[k] = list[k + 1]
  <2>1. 1 \in DOMAIN list /\ list[1] \in [trip : Trips(source), shift : Nat]
    <3> HIDE DEF list
    <3>1. list \in Seq([trip : Trips(source), shift : Nat]) /\ list # <<>>
      BY <1>2, <1>7
    <3>2. Len(list) \in Nat /\ Len(list) # 0 /\ DOMAIN list = 1..Len(list)
      BY <3>1
    <3>3. 1 \in DOMAIN list
      BY <3>2
    <3>4. list[1] \in [trip : Trips(source), shift : Nat]
      <4> DEFINE S == [trip : Trips(source), shift : Nat]
      <4>1. list \in Seq(S)
        BY <3>1
      <4> HIDE DEF S
      <4>2. list[1] \in S
        BY <3>3, <4>1
      <4> QED
        BY <4>2 DEF S
    <3> QED
      BY <3>3, <3>4
  <2>2. Request(list[1]) \in Nat
    <3>1. list[1].trip \in Trips(source) /\ list[1].shift \in Nat
      BY <2>1
    <3>2. source[list[1].trip].request \in Nat
      BY <3>1, SourcesAssumption DEF Readable
    <3> QED
      BY <3>1, <3>2 DEF Request
  <2>3. item = [at |-> Request(list[1]), number |-> 0, trip |-> list[1].trip,
                shift |-> list[1].shift, sample |-> 0]
    BY DEF Item
  <2>4. list[1] = [trip |-> list[1].trip, shift |-> list[1].shift]
    BY <2>1
  <2>5. list[1] \in Range(list) /\ at <= Request(list[1])
    BY <1>2, <2>1 DEF Range
  <2>6. item \in Items
    BY <2>1, <2>2, <2>3 DEF Items
  <2>7. Request(item) = Request(list[1]) /\ Part(item) = list[1]
    BY <2>3, <2>4 DEF Request, Part
  <2>8. /\ Tail(list) \in Seq([trip : Trips(source), shift : Nat])
        /\ Len(list) = Len(Tail(list)) + 1
        /\ \A k \in DOMAIN Tail(list) : k + 1 \in DOMAIN list /\ Tail(list)[k] = list[k + 1]
    <3> HIDE DEF list
    <3> QED
      BY <1>2, <1>7
  <2> QED
    BY <2>1, <2>3, <2>5, <2>6, <2>7, <2>8
<1>8. Items' = Items
  BY DEF Items
<1>15. some => Brings(list[1].trip, roads)
  BY DEF Enters
<1>16. \A t : Brings(t, roads)' = Brings(t, roads)
  BY SameRoutes
<1> HIDE DEF list, item, some
<1>17. DueBrought(w)'
  <2> SUFFICES ASSUME NEW i \in due'[w] PROVE Brings(i.trip, loaded[w])'
    BY DEF DueBrought
  <2>1. some /\ i = item
    BY <1>4
  <2>2. Brings(i.trip, roads)'
    BY <1>7, <1>15, <1>16, <2>1
  <2> QED
    BY <2>2 DEF Brings, StoredPlan
<1>9. DueFits(w)'
  <2>1. due'[w] \subseteq Items'
    BY <1>4, <1>7, <1>8
  <2>2. ASSUME NEW i \in due'[w]
        PROVE  ItemFits(w, i)' /\ clock'[w] <= i.at
    <3>1. some /\ i = item
      BY <1>4, <2>2
    <3>2. i.at = DueAt(i)'
      BY <1>6, <1>7, <3>1 DEF DueAt
    <3> QED
      BY <1>3, <1>4, <1>7, <3>1, <3>2 DEF ItemFits, Part
  <2> QED
    BY <2>1, <2>2 DEF DueFits
<1>10. TodoFits(w)'
  <2>1. todo'[w] \in Seq([trip : Trips(source'), shift : Nat])
    BY <1>2, <1>4, <1>7
  <2>2. CASE some
    <3>1. \A k \in DOMAIN todo'[w] : k + 1 \in DOMAIN list /\ todo'[w][k] = list[k + 1]
                                     /\ list[k + 1] \in Range(list)
      BY <1>4, <1>7, <2>2 DEF Range
    <3>2. \A j, k \in DOMAIN todo'[w] : j \in Int /\ k \in Int
      BY <2>1
    <3>3. \A k \in DOMAIN todo'[w] : todo'[w][k] \in Range(list)
      BY <3>1
    <3>4. ASSUME NEW j \in DOMAIN todo'[w], NEW k \in DOMAIN todo'[w], j <= k
          PROVE  Request(todo'[w][j]) <= Request(todo'[w][k])
      <4>1. j + 1 \in DOMAIN list /\ k + 1 \in DOMAIN list /\ j + 1 <= k + 1
        BY <3>1, <3>2, <3>4
      <4>2. Request(list[j + 1]) <= Request(list[k + 1])
        BY <1>2, <4>1
      <4> QED
        BY <3>1, <4>2
    <3> QED
      BY <1>3, <2>1, <3>3, <3>4 DEF TodoFits, Request
  <2>3. CASE ~some
    <3>1. DOMAIN todo'[w] = {}
      BY <1>4, <2>3 DEF some
    <3> QED
      BY <2>1, <3>1 DEF TodoFits
  <2> QED
    BY <2>2, <2>3
<1>11. Dispatches(w)' = (IF some THEN {item} ELSE {})
  BY <1>4, <1>7 DEF Dispatches
<1>12. DispatchFits(w)'
  <2>1. \A i, j \in Dispatches(w)' : i = j
    BY <1>11
  <2>2. todo'[w] # <<>> => Dispatches(w)' # {}
    BY <1>4, <1>11 DEF some
  <2>3. ASSUME NEW i \in Dispatches(w)', NEW k \in DOMAIN todo'[w]
        PROVE  i.at <= Request(todo'[w][k])
    <3>1. some /\ i = item
      BY <1>11, <2>3
    <3>2. k + 1 \in DOMAIN list /\ todo'[w][k] = list[k + 1] /\ k + 1 \in 1..Len(list)
      BY <1>2, <1>4, <1>7, <3>1
    <3>3. Request(list[1]) <= Request(list[k + 1])
      BY <1>2, <3>1, <3>2 DEF some
    <3> QED
      BY <1>7, <3>1, <3>2, <3>3
  <2> QED
    BY <1>6, <2>1, <2>2, <2>3 DEF DispatchFits
<1>13. Counted(w)'
  <2>1. CASE some
    <3>1. Len(todo'[w]) = Len(Tail(list)) /\ Len(Tail(list)) \in Nat /\ Dispatches(w)' # {}
      BY <1>4, <1>7, <1>11, <2>1
    <3> QED
      BY <1>3, <1>4, <1>7, <2>1, <3>1 DEF Counted
  <2>2. CASE ~some
    <3>1. Len(todo'[w]) = 0 /\ Len(list) = 0 /\ Dispatches(w)' = {}
      BY <1>4, <1>11, <2>2 DEF some
    <3> QED
      BY <1>3, <1>4, <3>1 DEF Counted
  <2> QED
    BY <2>1, <2>2
<1>14. NothingForgotten(w)'
  <2> SUFFICES ASSUME NEW m \in Owed(w)'
               PROVE  Comes(w, m)'
    BY DEF NothingForgotten
  <2>1. Part(m) \in Range(list) /\ m.sample \in Nat \ {0}
    BY <1>3 DEF Owed, Messages, Part
  <2>2. PICK k \in DOMAIN list : list[k] = Part(m)
    BY <2>1 DEF Range
  <2>3. some /\ k \in 1..Len(list)
    BY <1>2, <2>2 DEF some
  <2>4. CASE k = 1
    <3>1. item \in due'[w] /\ Part(item) = Part(m) /\ item.sample <= m.sample
      BY <1>4, <1>7, <2>1, <2>2, <2>3, <2>4
    <3> QED
      BY <3>1 DEF Comes, Part
  <2>5. CASE k # 1
    <3>1. k - 1 \in DOMAIN Tail(list) /\ Tail(list)[k - 1] = Part(m)
      <4>1. DOMAIN Tail(list) = 1..Len(Tail(list)) /\ Len(Tail(list)) \in Nat
        BY <1>7, <2>3
      <4>2. k - 1 \in DOMAIN Tail(list)
        BY <1>7, <2>3, <2>5, <4>1
      <4>3. (k - 1) + 1 = k
        BY <2>3
      <4> QED
        BY <1>7, <2>2, <2>3, <4>2, <4>3
    <3> QED
      BY <1>4, <2>3, <3>1 DEF Comes, Part
  <2> QED
    BY <2>4, <2>5
<1> QED
  BY <1>2, <1>4, <1>5, <1>9, <1>10, <1>12, <1>13, <1>14, <1>17 DEF PlayInv

\* What the head of an iterator is to the rest of it.
LEMMA HeadAndTail ==
  ASSUME NEW S, NEW s \in Seq(S), s # <<>>
  PROVE  /\ Head(s) \in S /\ 1 \in DOMAIN s /\ Head(s) = s[1]
         /\ Tail(s) \in Seq(S) /\ Len(s) = Len(Tail(s)) + 1 /\ Len(Tail(s)) \in Nat
         /\ \A k \in DOMAIN Tail(s) : k \in Nat \ {0} /\ k + 1 \in DOMAIN s /\ Tail(s)[k] = s[k + 1]
         /\ \A k \in DOMAIN s : k # 1 => k - 1 \in DOMAIN Tail(s) /\ Tail(s)[k - 1] = s[k]
<1>1. Len(s) \in Nat /\ Len(s) # 0 /\ DOMAIN s = 1..Len(s)
  OBVIOUS
<1>2. Tail(s) \in Seq(S) /\ Len(Tail(s)) = Len(s) - 1
  BY <1>1
<1>3. DOMAIN Tail(s) = 1..(Len(s) - 1)
  BY <1>1, <1>2
<1>4. \A k \in 1..(Len(s) - 1) : Tail(s)[k] = s[k + 1]
  BY <1>1
<1>5. Head(s) = s[1] /\ s[1] \in S
  BY <1>1
<1>6. \A k \in DOMAIN s : k # 1 => k - 1 \in 1..(Len(s) - 1) /\ (k - 1) + 1 = k
  BY <1>1
<1> QED
  BY <1>1, <1>2, <1>3, <1>4, <1>5, <1>6

\* One trip more is planned, or skipped.
LEMMA OneMore ==
  ASSUME NEW t \in [planned : Nat, skipped : Nat, published : Nat]
  PROVE  /\ [t EXCEPT !.planned = @ + 1] \in [planned : Nat, skipped : Nat, published : Nat]
         /\ [t EXCEPT !.skipped = @ + 1] \in [planned : Nat, skipped : Nat, published : Nat]
         /\ [t EXCEPT !.planned = @ + 1].planned + [t EXCEPT !.planned = @ + 1].skipped
              = t.planned + t.skipped + 1
         /\ [t EXCEPT !.skipped = @ + 1].planned + [t EXCEPT !.skipped = @ + 1].skipped
              = t.planned + t.skipped + 1
<1>1. t.planned \in Nat /\ t.skipped \in Nat
  OBVIOUS
<1>2. /\ [t EXCEPT !.planned = @ + 1].planned = t.planned + 1
      /\ [t EXCEPT !.planned = @ + 1].skipped = t.skipped
      /\ [t EXCEPT !.skipped = @ + 1].skipped = t.skipped + 1
      /\ [t EXCEPT !.skipped = @ + 1].planned = t.planned
  OBVIOUS
<1>3. /\ [t EXCEPT !.planned = @ + 1] \in [planned : Nat, skipped : Nat, published : Nat]
      /\ [t EXCEPT !.skipped = @ + 1] \in [planned : Nat, skipped : Nat, published : Nat]
  BY <1>1
<1> QED
  BY <1>1, <1>2, <1>3

\* The dispatch of a trip.
LEMMA DispatchPlays ==
  ASSUME source \in Sources, UNCHANGED World, PlayersTyped, NEW w \in Workers, PlayInv(w),
         Dispatch(w)
  PROVE  PlayInv(w)' /\ PlayersTyped' /\ clock[w] <= clock'[w] /\ proc'[w] = "play"
<1> DEFINE i == First(w)
           has == todo[w] # <<>>
           head == Head(todo[w])
           ni == Item(Request(head), count[w], head, 0)
           next == IF has THEN {ni} ELSE {}
           planned == Plannable(i.trip, loaded[w])
           number == count[w] + Cardinality(next)
           fi == Item(SampleTime(source[i.trip], i.shift, 1), number, i, 1)
           firsts == IF planned THEN {fi} ELSE {}
           sums == IF planned THEN [tally[w] EXCEPT !.planned = @ + 1]
                   ELSE [tally[w] EXCEPT !.skipped = @ + 1]
<1>1. /\ proc[w] = "play" /\ due[w] # {} /\ i.sample = 0
      /\ clock' = [clock EXCEPT ![w] = i.at]
      /\ UNCHANGED <<proc, loaded, unsent, errors, topic>>
  BY DEF Dispatch, kafka
<1>2. /\ todo' = [todo EXCEPT ![w] = IF has THEN Tail(todo[w]) ELSE todo[w]]
      /\ due' = [due EXCEPT ![w] = (due[w] \ {i}) \cup next \cup firsts]
      /\ count' = [count EXCEPT ![w] = number + (IF planned THEN 1 ELSE 0)]
  <2>1. NextDispatch(w) = next
    BY DEF NextDispatch
  <2>2. next = {} <=> ~has
    OBVIOUS
  <2> HIDE DEF next
  <2> QED
    BY <2>1, <2>2 DEF Dispatch
<1>3. tally' = [tally EXCEPT ![w] = sums]
  <2>1. CASE planned
    <3>1. tally' = [tally EXCEPT ![w].planned = @ + 1]
      BY <2>1 DEF Dispatch
    <3> QED
      BY <2>1, <3>1
  <2>2. CASE ~planned
    <3>1. tally' = [tally EXCEPT ![w].skipped = @ + 1]
      BY <2>2 DEF Dispatch
    <3> QED
      BY <2>2, <3>1
  <2> QED
    BY <2>1, <2>2
<1>4. /\ DueFits(w) /\ DueBrought(w) /\ TodoFits(w) /\ DispatchFits(w) /\ Counted(w)
      /\ NothingForgotten(w)
  BY <1>1 DEF PlayInv, Playing
<1>5. i \in due[w] /\ i \in Items /\ \A j \in due[w] : i.at <= j.at
  BY <1>1, <1>4, FirstIsLeast DEF DueFits
<1>6. /\ i.at = Request(i) /\ Part(i) \in Range(List(w)) /\ clock[w] <= i.at
      /\ i.at \in Nat /\ i.trip \in Trips(source) /\ i.shift \in Nat
  BY <1>1, <1>4, <1>5 DEF DueFits, ItemFits, DueAt, Items
<1>7. i \in Dispatches(w) /\ \A j \in Dispatches(w) : j = i
  BY <1>1, <1>4, <1>5 DEF DispatchFits, Dispatches
<1>8. Cardinality(next) \in Nat /\ number \in Nat
  <2>1. Cardinality(next) \in {0, 1}
    BY FS_EmptySet, FS_Singleton
  <2> HIDE DEF next
  <2> QED
    BY <2>1 DEF PlayersTyped
<1>9. /\ todo'[w] = (IF has THEN Tail(todo[w]) ELSE todo[w])
      /\ due'[w] = (due[w] \ {i}) \cup next \cup firsts
      /\ clock'[w] = i.at
      /\ tally'[w] = sums
  <2> HIDE DEF i, next, firsts, sums, has
  <2> QED
    BY <1>1, <1>2, <1>3 DEF PlayersTyped
<1>10. PlayersTyped'
  <2>1. number + (IF planned THEN 1 ELSE 0) \in Nat
    BY <1>8
  <2> HIDE DEF number, planned, next, firsts, i, has, sums
  <2> QED
    BY <1>1, <1>2, <1>3, <1>6, <2>1 DEF PlayersTyped
<1>11. ASSUME has
       PROVE  /\ ni \in Items /\ ni.sample = 0 /\ ItemFits(w, ni) /\ i.at <= ni.at
              /\ Part(ni) = head /\ ni.at = Request(head) /\ head = todo[w][1]
  <2>1. todo[w] \in Seq([trip : Trips(source), shift : Nat])
    BY <1>4 DEF TodoFits
  <2>2. head \in [trip : Trips(source), shift : Nat] /\ 1 \in DOMAIN todo[w] /\ head = todo[w][1]
    BY <1>11, <2>1, HeadAndTail
  <2>3. head \in Range(List(w)) /\ i.at <= Request(head)
    BY <1>4, <1>7, <2>2 DEF TodoFits, DispatchFits
  <2>4. Request(head) \in Nat
    <3>1. head.trip \in Trips(source) /\ head.shift \in Nat
      BY <2>2
    <3>2. source[head.trip].request \in Nat
      BY <3>1, SourcesAssumption DEF Readable
    <3> QED
      BY <3>1, <3>2 DEF Request
  <2>5. ni = [at |-> Request(head), number |-> count[w], trip |-> head.trip,
              shift |-> head.shift, sample |-> 0]
    BY DEF Item
  <2>6. head = [trip |-> head.trip, shift |-> head.shift]
    BY <2>2
  <2> HIDE DEF head, ni
  <2>7. ni \in Items
    BY <2>2, <2>4, <2>5 DEF Items, PlayersTyped
  <2>8. Part(ni) = head /\ Request(ni) = Request(head)
    BY <2>5, <2>6 DEF Part, Request
  <2>9. ItemFits(w, ni)
    BY <2>3, <2>5, <2>8 DEF ItemFits, DueAt
  <2> QED
    BY <2>2, <2>3, <2>5, <2>7, <2>8, <2>9
<1>12. ASSUME planned
       PROVE  /\ fi \in Items /\ fi.sample = 1 /\ ItemFits(w, fi) /\ i.at <= fi.at
              /\ Part(fi) = Part(i)
  <2>1. /\ source[i.trip].request + i.shift \in Nat
        /\ SampleTime(source[i.trip], i.shift, 1) \in Nat
        /\ source[i.trip].request + i.shift <= SampleTime(source[i.trip], i.shift, 1)
        /\ SampleCount(source[i.trip]) \in Nat \ {0}
    <3>1. 1 \in Nat \ {0}
      OBVIOUS
    <3> HIDE DEF i
    <3> QED
      BY <1>6, <3>1, Schedule
  <2>2. fi = [at |-> SampleTime(source[i.trip], i.shift, 1), number |-> number, trip |-> i.trip,
              shift |-> i.shift, sample |-> 1]
    BY DEF Item
  <2>3. Plannable(i.trip, loaded[w])
    BY <1>12
  <2> HIDE DEF i, number, fi
  <2>4. fi \in Items
    BY <1>6, <1>8, <2>1, <2>2 DEF Items
  <2>5. Part(fi) = Part(i)
    BY <2>2 DEF Part
  <2>6. ItemFits(w, fi)
    BY <1>6, <2>1, <2>2, <2>3, <2>5 DEF ItemFits, DueAt
  <2> QED
    BY <1>6, <2>1, <2>2, <2>4, <2>5, <2>6 DEF Request
<1>13. \A j \in due'[w] :
         \/ j \in due[w] /\ j # i
         \/ j = ni /\ has
         \/ j = fi /\ planned
  BY <1>9
<1>14. /\ \A j \in due[w] : j = i \/ j \in due'[w]
       /\ has => ni \in due'[w]
       /\ planned => fi \in due'[w]
  BY <1>9
<1> HIDE DEF i, has, head, ni, next, planned, number, fi, firsts, sums
<1>15. DueFits(w)'
  <2>1. due'[w] \subseteq Items'
    BY <1>4, <1>11, <1>12, <1>13, SameWorld DEF DueFits
  <2>2. \A j : ItemFits(w, j)' = ItemFits(w, j)
    BY <1>1, SameWorld
  <2>3. \A j \in due'[w] : ItemFits(w, j)' /\ clock'[w] <= j.at
    BY <1>4, <1>5, <1>9, <1>11, <1>12, <1>13, <2>2 DEF DueFits
  <2> QED
    BY <2>1, <2>3 DEF DueFits
<1>16. /\ todo[w] \in Seq([trip : Trips(source), shift : Nat])
       /\ has => todo[w] # <<>>
       /\ todo[w] # <<>> => has
  BY <1>4 DEF TodoFits, has
<1>17. TodoFits(w)'
  <2>1. CASE has
    <3>1. /\ todo'[w] \in Seq([trip : Trips(source), shift : Nat])
          /\ \A k \in DOMAIN todo'[w] : /\ k \in Nat /\ k + 1 \in DOMAIN todo[w]
                                        /\ todo'[w][k] = todo[w][k + 1]
      BY <1>9, <1>16, <2>1, HeadAndTail
    <3>2. \A k \in DOMAIN todo'[w] : todo'[w][k] \in Range(List(w))
      BY <1>4, <3>1 DEF TodoFits
    <3>3. ASSUME NEW j \in DOMAIN todo'[w], NEW k \in DOMAIN todo'[w], j <= k
          PROVE  Request(todo'[w][j]) <= Request(todo'[w][k])
      <4>1. j + 1 \in DOMAIN todo[w] /\ k + 1 \in DOMAIN todo[w] /\ j + 1 <= k + 1
        BY <3>1, <3>3
      <4>2. Request(todo[w][j + 1]) <= Request(todo[w][k + 1])
        BY <1>4, <4>1 DEF TodoFits
      <4> QED
        BY <3>1, <4>2
    <3> QED
      BY <3>1, <3>2, <3>3, SameWorld DEF TodoFits, World
  <2>2. CASE ~has
    <3>1. todo'[w] = todo[w]
      BY <1>9, <2>2
    <3> QED
      BY <1>4, <3>1, SameWorld DEF TodoFits, World
  <2> QED
    BY <2>1, <2>2
<1>18. Dispatches(w)' = (IF has THEN {ni} ELSE {})
  <2>1. \A j \in due'[w] : j.sample = 0 => has /\ j = ni
    BY <1>7, <1>12, <1>13 DEF Dispatches
  <2> QED
    BY <1>11, <1>14, <2>1 DEF Dispatches
<1>19. DispatchFits(w)'
  <2>1. \A j, k \in Dispatches(w)' : j = k
    BY <1>18
  <2>2. todo'[w] # <<>> => Dispatches(w)' # {}
    BY <1>9, <1>16, <1>18
  <2>3. ASSUME NEW j \in Dispatches(w)', NEW k \in DOMAIN todo'[w]
        PROVE  j.at <= Request(todo'[w][k])
    <3>1. has /\ j = ni
      BY <1>18, <2>3
    <3>2. /\ k \in Nat \ {0} /\ k + 1 \in DOMAIN todo[w] /\ todo'[w][k] = todo[w][k + 1]
          /\ 1 \in DOMAIN todo[w]
      BY <1>9, <1>16, <3>1, HeadAndTail
    <3>3. Request(todo[w][1]) <= Request(todo[w][k + 1])
      BY <1>4, <3>2 DEF TodoFits
    <3> QED
      BY <1>11, <3>1, <3>2, <3>3
  <2> QED
    BY <2>1, <2>2, <2>3, SameWorld DEF DispatchFits
<1>20. Counted(w)'
  <2>1. /\ tally[w] \in [planned : Nat, skipped : Nat, published : Nat]
        /\ tally[w].planned + tally[w].skipped + Len(todo[w]) + 1 = Len(List(w))
    BY <1>4, <1>7 DEF Counted
  <2>2. /\ tally'[w] \in [planned : Nat, skipped : Nat, published : Nat]
        /\ tally'[w].planned + tally'[w].skipped = tally[w].planned + tally[w].skipped + 1
    <3>1. CASE planned
      <4>1. tally'[w] = [tally[w] EXCEPT !.planned = @ + 1]
        BY <1>9, <3>1 DEF sums
      <4> QED
        BY <2>1, <4>1, OneMore
    <3>2. CASE ~planned
      <4>1. tally'[w] = [tally[w] EXCEPT !.skipped = @ + 1]
        BY <1>9, <3>2 DEF sums
      <4> QED
        BY <2>1, <4>1, OneMore
    <3> QED
      BY <3>1, <3>2
  <2>3. Len(todo'[w]) + (IF Dispatches(w)' = {} THEN 0 ELSE 1) = Len(todo[w])
        /\ Len(todo[w]) \in Nat /\ Len(todo'[w]) \in Nat
    <3> DEFINE one == IF Dispatches(w)' = {} THEN 0 ELSE 1
               x == Len(todo[w])
               y == Len(todo'[w])
    <3>1. CASE has
      <4>1. x = y + 1 /\ y \in Nat
        BY <1>9, <1>16, <3>1, HeadAndTail
      <4>2. one = 1
        BY <1>18, <3>1
      <4> HIDE DEF x, y, one
      <4>3. y + one = x /\ x \in Nat /\ y \in Nat
        BY <4>1, <4>2
      <4> QED
        BY <4>3 DEF x, y, one
    <3>2. CASE ~has
      <4>1. x = 0 /\ y = 0
        BY <1>9, <1>16, <3>2
      <4>2. one = 0
        BY <1>18, <3>2
      <4> HIDE DEF x, y, one
      <4>3. y + one = x /\ x \in Nat /\ y \in Nat
        BY <4>1, <4>2
      <4> QED
        BY <4>3 DEF x, y, one
    <3> QED
      BY <3>1, <3>2
  <2>4. List(w)' = List(w)
    BY SameWorld
  <2>5. tally[w].planned \in Nat /\ tally[w].skipped \in Nat /\ tally'[w].planned \in Nat
        /\ tally'[w].skipped \in Nat
    BY <2>1, <2>2
  <2>6. tally'[w].planned + tally'[w].skipped + Len(todo'[w])
          + (IF Dispatches(w)' = {} THEN 0 ELSE 1) = Len(List(w))
    <3> DEFINE one == IF Dispatches(w)' = {} THEN 0 ELSE 1
               a == tally[w].planned
               b == tally[w].skipped
               c == tally'[w].planned
               d == tally'[w].skipped
               x == Len(todo[w])
               y == Len(todo'[w])
    <3>1. one \in Nat
      OBVIOUS
    <3>2. /\ a \in Nat /\ b \in Nat /\ c \in Nat /\ d \in Nat /\ x \in Nat /\ y \in Nat
          /\ a + b + x + 1 = Len(List(w)) /\ c + d = a + b + 1 /\ y + one = x
      BY <2>1, <2>2, <2>3, <2>5
    <3> HIDE DEF one, a, b, c, d, x, y
    <3>3. c + d + y + one = Len(List(w))
      BY <3>1, <3>2
    <3> QED
      BY <3>3 DEF one, c, d, y
  <2> QED
    BY <2>2, <2>4, <2>6 DEF Counted
<1>21. NothingForgotten(w)'
  <2> SUFFICES ASSUME errors[w] = FALSE, NEW m \in Owed(w)
               PROVE  m \in Sent(w)' \/ Comes(w, m)'
    BY <1>1, SameWorld DEF NothingForgotten
  <2>1. m \in Sent(w) \/ Comes(w, m)
    BY <1>4 DEF NothingForgotten
  <2>2. /\ Plannable(m.trip, loaded[w]) /\ m.sample \in Nat \ {0}
    BY DEF Owed, Messages
  <2>3. CASE m \in Sent(w)
    BY <1>1, <2>3 DEF Sent
  <2>4. ASSUME NEW j \in due[w], Part(j) = Part(m), j.sample <= m.sample
        PROVE  \E x \in due'[w] : Part(x) = Part(m) /\ x.sample <= m.sample
    <3>1. CASE j # i
      BY <1>14, <2>4, <3>1
    <3>2. CASE j = i
      <4>1. i.trip = m.trip
        BY <2>4, <3>2 DEF Part
      <4>2. planned
        BY <2>2, <4>1 DEF planned
      <4>3. fi \in due'[w] /\ Part(fi) = Part(m) /\ fi.sample <= m.sample
        BY <1>12, <1>14, <2>2, <2>4, <3>2, <4>2
      <4> QED
        BY <4>3
    <3> QED
      BY <3>1, <3>2
  <2>5. ASSUME NEW k \in DOMAIN todo[w], todo[w][k] = Part(m)
        PROVE  \/ \E x \in due'[w] : Part(x) = Part(m) /\ x.sample <= m.sample
               \/ \E l \in DOMAIN todo'[w] : todo'[w][l] = Part(m)
    <3>1. has
      BY <1>16, <2>5
    <3>2. CASE k = 1
      <4>1. ni \in due'[w] /\ Part(ni) = Part(m) /\ ni.sample <= m.sample
        BY <1>11, <1>14, <2>2, <2>5, <3>1, <3>2
      <4> QED
        BY <4>1
    <3>3. CASE k # 1
      <4>1. k - 1 \in DOMAIN todo'[w] /\ todo'[w][k - 1] = todo[w][k]
        BY <1>9, <1>16, <3>1, <3>3, HeadAndTail
      <4> QED
        BY <2>5, <4>1
    <3> QED
      BY <3>2, <3>3
  <2>6. CASE Comes(w, m)
    BY <2>4, <2>5, <2>6 DEF Comes, Part
  <2> QED
    BY <2>1, <2>3, <2>6
<1>22. DueBrought(w)'
  <2> SUFFICES ASSUME NEW j \in due'[w] PROVE Brings(j.trip, loaded[w])
    BY <1>1 DEF DueBrought, World, Brings, StoredPlan
  <2>1. CASE j \in due[w]
    BY <1>4, <2>1 DEF DueBrought
  <2>2. CASE j = ni /\ has
    <3>1. j.trip = Head(todo[w]).trip
      BY <1>11, <2>2 DEF Part, head
    <3> QED
      BY <2>2, <3>1 DEF Dispatch, NextComes, has
  <2>3. CASE j = fi /\ planned
    <3>1. j.trip = i.trip
      BY <1>12, <2>3 DEF Part
    <3> QED
      BY <1>4, <1>5, <3>1 DEF DueBrought
  <2> QED
    BY <1>13, <2>1, <2>2, <2>3
<1> QED
  BY <1>1, <1>4, <1>6, <1>9, <1>10, <1>15, <1>17, <1>19, <1>20, <1>21, <1>22 DEF PlayInv

\* The sample of a trip.
LEMMA PublishPlays ==
  ASSUME source \in Sources, UNCHANGED World, RunTyped, PlayersTyped, QueuesBounded,
         NEW w \in Workers, PlayInv(w), Publish(w), unsent[w] \subseteq Owed(w)
  PROVE  /\ PlayInv(w)' /\ PlayersTyped' /\ clock[w] <= clock'[w] /\ proc'[w] = "play"
         /\ unsent'[w] \subseteq Owed(w)
<1> DEFINE i == First(w)
           more == i.sample < SampleCount(source[i.trip])
           ni == Item(SampleTime(source[i.trip], i.shift, i.sample + 1), count[w], i, i.sample + 1)
           next == IF more THEN {ni} ELSE {}
<1>1. /\ proc[w] \in {"play", "full"} /\ due[w] # {} /\ i.sample > 0
      /\ proc' = [proc EXCEPT ![w] = "play"]
      /\ clock' = [clock EXCEPT ![w] = i.at]
      /\ due' = [due EXCEPT ![w] = (due[w] \ {i}) \cup next]
      /\ count' = [count EXCEPT ![w] = count[w] + Cardinality(next)]
      /\ unsent' = [unsent EXCEPT ![w] = unsent[w] \cup {Message(w, i)}]
      /\ tally' = [tally EXCEPT ![w].published = @ + 1]
      /\ UNCHANGED <<loaded, todo, errors, topic>>
  BY DEF Publish
<1>2. /\ DueFits(w) /\ DueBrought(w) /\ TodoFits(w) /\ DispatchFits(w) /\ Counted(w)
      /\ NothingForgotten(w)
  BY <1>1 DEF PlayInv, Playing
<1>3. i \in due[w] /\ i \in Items /\ \A j \in due[w] : i.at <= j.at
  BY <1>1, <1>2, FirstIsLeast DEF DueFits
<1>4. /\ i.at \in Nat /\ i.trip \in Trips(source) /\ i.shift \in Nat /\ i.sample \in Nat \ {0}
      /\ clock[w] <= i.at /\ Part(i) \in Range(List(w)) /\ Plannable(i.trip, loaded[w])
      /\ i.at = SampleTime(source[i.trip], i.shift, i.sample)
      /\ i.sample <= SampleCount(source[i.trip])
  BY <1>1, <1>2, <1>3 DEF DueFits, ItemFits, DueAt, Items
<1>5. /\ SampleTime(source[i.trip], i.shift, i.sample + 1) \in Nat
      /\ i.at <= SampleTime(source[i.trip], i.shift, i.sample + 1)
      /\ SampleCount(source[i.trip]) \in Nat \ {0}
  <2>1. i.sample + 1 \in Nat \ {0}
    BY <1>4
  <2> HIDE DEF i
  <2> QED
    BY <1>4, <2>1, Schedule
<1>6. Cardinality(next) \in Nat
  <2>1. Cardinality(next) \in {0, 1}
    BY FS_EmptySet, FS_Singleton
  <2> HIDE DEF next
  <2> QED
    BY <2>1
<1>7. /\ proc'[w] = "play" /\ clock'[w] = i.at /\ due'[w] = (due[w] \ {i}) \cup next
      /\ unsent'[w] = unsent[w] \cup {Message(w, i)} /\ todo'[w] = todo[w]
  <2> HIDE DEF i, next
  <2>1. proc'[w] = "play"
    BY <1>1 DEF RunTyped
  <2> QED
    BY <1>1, <2>1 DEF PlayersTyped, QueuesBounded
<1>8. PlayersTyped'
  <2>1. count[w] + Cardinality(next) \in Nat
    BY <1>6 DEF PlayersTyped
  <2> HIDE DEF next, i
  <2> QED
    BY <1>1, <1>4, <2>1 DEF PlayersTyped
<1>9. Part(i) = [trip |-> i.trip, shift |-> i.shift]
  BY DEF Part
<1>10. Message(w, i) \in Owed(w) /\ Part(Message(w, i)) = Part(i)
       /\ Message(w, i).sample = i.sample
  <2>1. Message(w, i) = [by |-> w, trip |-> i.trip, shift |-> i.shift, sample |-> i.sample]
    BY DEF Message
  <2> HIDE DEF i
  <2>2. Message(w, i) \in Messages /\ Part(Message(w, i)) = Part(i)
    BY <1>4, <2>1 DEF Messages, Part
  <2> QED
    BY <1>4, <2>1, <2>2 DEF Owed
<1>11. ASSUME more
       PROVE  /\ ni \in Items /\ ni.sample = i.sample + 1 /\ ItemFits(w, ni) /\ i.at <= ni.at
              /\ Part(ni) = Part(i)
  <2>1. ni = [at |-> SampleTime(source[i.trip], i.shift, i.sample + 1), number |-> count[w],
              trip |-> i.trip, shift |-> i.shift, sample |-> i.sample + 1]
    BY DEF Item
  <2>2. i.sample + 1 <= SampleCount(source[i.trip]) /\ i.sample + 1 \in Nat \ {0}
    <3> DEFINE n == SampleCount(source[i.trip])
               k == i.sample
    <3>1. k \in Nat \ {0} /\ n \in Nat \ {0} /\ k < n
      BY <1>4, <1>5, <1>11
    <3> HIDE DEF k, n
    <3>2. k + 1 <= n /\ k + 1 \in Nat \ {0}
      BY <3>1
    <3> QED
      BY <3>2 DEF k, n
  <2> HIDE DEF i, ni
  <2>3. ni \in Items
    BY <1>4, <1>5, <2>1, <2>2 DEF Items, PlayersTyped
  <2>4. Part(ni) = Part(i)
    BY <2>1 DEF Part
  <2>5. ItemFits(w, ni)
    BY <1>4, <2>1, <2>2, <2>4 DEF ItemFits, DueAt
  <2> QED
    BY <1>5, <2>1, <2>3, <2>4, <2>5
<1>12. \A j \in due'[w] : (j \in due[w] /\ j # i) \/ (j = ni /\ more)
  BY <1>7
<1>13. /\ \A j \in due[w] : j = i \/ j \in due'[w]
       /\ more => ni \in due'[w]
  BY <1>7
<1>14. ~more => i.sample = SampleCount(source[i.trip])
  <2> DEFINE n == SampleCount(source[i.trip])
             k == i.sample
  <2>1. k \in Nat \ {0} /\ n \in Nat \ {0} /\ k <= n /\ (more <=> k < n)
    BY <1>4, <1>5
  <2> HIDE DEF k, n, more
  <2>2. ~more => k = n
    BY <2>1
  <2> QED
    BY <2>2 DEF k, n
<1> HIDE DEF i, more, ni, next
<1>15. DueFits(w)'
  <2>1. due'[w] \subseteq Items'
    BY <1>2, <1>11, <1>12, SameWorld DEF DueFits
  <2>2. \A j : ItemFits(w, j)' = ItemFits(w, j)
    BY <1>1, SameWorld
  <2>3. \A j \in due'[w] : ItemFits(w, j)' /\ clock'[w] <= j.at
    BY <1>2, <1>3, <1>7, <1>11, <1>12, <2>2 DEF DueFits
  <2> QED
    BY <2>1, <2>3 DEF DueFits
<1>16. TodoFits(w)'
  BY <1>2, <1>7, SameWorld DEF TodoFits, World
<1>17. Dispatches(w)' = Dispatches(w)
  <2>1. \A j \in due'[w] : j.sample = 0 => j \in due[w]
    BY <1>4, <1>11, <1>12
  <2>2. \A j \in due[w] : j.sample = 0 => j \in due'[w]
    BY <1>4, <1>13
  <2> QED
    BY <2>1, <2>2 DEF Dispatches
<1>18. DispatchFits(w)'
  BY <1>2, <1>7, <1>17, SameWorld DEF DispatchFits
<1>19. Counted(w)'
  <2>1. tally[w] \in [planned : Nat, skipped : Nat, published : Nat]
    BY <1>2 DEF Counted
  <2>2. tally'[w] = [tally[w] EXCEPT !.published = @ + 1]
    BY <1>1 DEF PlayersTyped
  <2>3. tally'[w] \in [planned : Nat, skipped : Nat, published : Nat]
        /\ tally'[w].planned = tally[w].planned /\ tally'[w].skipped = tally[w].skipped
    BY <2>1, <2>2
  <2> QED
    BY <1>2, <1>7, <1>17, <2>3, SameWorld DEF Counted
<1>20. NothingForgotten(w)'
  <2> SUFFICES ASSUME errors[w] = FALSE, NEW m \in Owed(w)
               PROVE  m \in Sent(w)' \/ Comes(w, m)'
    BY <1>1, SameWorld DEF NothingForgotten
  <2>1. m \in Sent(w) \/ Comes(w, m)
    BY <1>2 DEF NothingForgotten
  <2>2. /\ m.sample \in Nat \ {0} /\ m.by = w /\ m.sample <= SampleCount(source[m.trip])
        /\ m = [by |-> w, trip |-> m.trip, shift |-> m.shift, sample |-> m.sample]
    BY DEF Owed, Messages
  <2>3. CASE m \in Sent(w)
    BY <1>1, <1>7, <2>3 DEF Sent
  <2>4. ASSUME NEW j \in due[w], Part(j) = Part(m), j.sample <= m.sample
        PROVE  \/ m = Message(w, i)
               \/ \E x \in due'[w] : Part(x) = Part(m) /\ x.sample <= m.sample
    <3>1. CASE j # i
      BY <1>13, <2>4, <3>1
    <3>2. CASE j = i /\ m.sample = i.sample
      <4>1. i.trip = m.trip /\ i.shift = m.shift
        BY <2>4, <3>2 DEF Part
      <4> QED
        BY <2>2, <3>2, <4>1 DEF Message
    <3>3. CASE j = i /\ m.sample # i.sample
      <4>1. i.trip = m.trip /\ i.sample < m.sample
        BY <1>4, <2>2, <2>4, <3>3 DEF Part
      <4>2. more
        BY <1>4, <1>5, <1>14, <2>2, <4>1
      <4>3. ni \in due'[w] /\ Part(ni) = Part(m) /\ ni.sample <= m.sample
        BY <1>4, <1>11, <1>13, <2>2, <2>4, <3>3, <4>1, <4>2
      <4> QED
        BY <4>3
    <3> QED
      BY <3>1, <3>2, <3>3
  <2>5. m = Message(w, i) => m \in Sent(w)'
    BY <1>7 DEF Sent
  <2>6. CASE Comes(w, m)
    BY <1>7, <2>4, <2>5, <2>6 DEF Comes, Part
  <2> QED
    BY <2>1, <2>3, <2>6
<1>21. unsent'[w] \subseteq Owed(w)
  BY <1>7, <1>10
<1>22. DueBrought(w)'
  <2> SUFFICES ASSUME NEW j \in due'[w] PROVE Brings(j.trip, loaded[w])
    BY <1>1 DEF DueBrought, World, Brings, StoredPlan
  <2>1. CASE j \in due[w]
    BY <1>2, <2>1 DEF DueBrought
  <2>2. CASE j = ni /\ more
    <3>1. j.trip = i.trip
      BY <1>11, <2>2 DEF Part
    <3> QED
      BY <1>2, <1>3, <3>1 DEF DueBrought
  <2> QED
    BY <1>12, <2>1, <2>2
<1> QED
  BY <1>1, <1>2, <1>4, <1>7, <1>8, <1>15, <1>16, <1>18, <1>19, <1>20, <1>21, <1>22 DEF PlayInv

-----------------------------------------------------------------------------
\* Nothing else in the world of a run moves once it is under way.
LEMMA WorldIsFixed ==
  ASSUME Underway, [Next]_vars
  PROVE  UNCHANGED World /\ Underway'
<1>1. main \notin {"idle", "ready", "start", "stranded"}
  BY DEF Underway
<1>2. CASE RefreshRoads
  BY <1>1, <1>2 DEF RefreshRoads, World, Underway, run
<1>3. CASE Prepare \/ Start
  BY <1>1, <1>3 DEF Prepare, Start, StartPrepare, WriteTrips, WriteRoutes, MoveTrips, MoveRoutes,
     WriteManifest, RemoveBundle, PrepareFails, Preparing, StartSolo, StartParallel, StartCutShort
<1>4. CASE Receive \/ Starve \/ LookAtWorkers \/ Join
  BY <1>1, <1>4 DEF Receive, Starve, LookAtWorkers, Join, Coordinates, AfterAll, World, Underway, bundle
<1>5. CASE (\E wall \in Walls : Signal(wall)) \/ Stop \/ JoinTimesOut
  BY <1>1, <1>5 DEF Signal, Stop, JoinTimesOut, World, Underway, bundle, run
<1>6. ASSUME NEW w \in Workers, Fails(w)
      PROVE  UNCHANGED World /\ Underway'
  <2>1. main' \in {main, "failed"} /\ UNCHANGED <<bundle, run>>
    BY <1>6 DEF Fails
  <2> QED
    BY <1>1, <2>1 DEF World, Underway, bundle, run
<1>7. ASSUME NEW w \in Workers, Load(w) \/ TakeSignal(w)
      PROVE  UNCHANGED World /\ Underway'
  BY <1>1, <1>6, <1>7 DEF Load, TakeSignal, World, Underway, bundle, run
<1>8. ASSUME NEW w \in Workers, NextRaises(w) \/ DeliveryErrorSeen(w) \/ Raises(w)
      PROVE  UNCHANGED World /\ Underway'
  BY <1>6, <1>8 DEF NextRaises, DeliveryErrorSeen, Raises
<1>9. ASSUME NEW w \in Workers, Dispatch(w)
      PROVE  UNCHANGED World /\ Underway'
  BY <1>1, <1>9 DEF Dispatch, World, Underway, bundle, run
<1>10. ASSUME NEW w \in Workers, Publish(w)
      PROVE  UNCHANGED World /\ Underway'
  BY <1>1, <1>10 DEF Publish, World, Underway, bundle, run
<1>11. ASSUME NEW w \in Workers, QueueFull(w) \/ StartFlush(w) \/ Exit(w) \/ Killed(w)
      PROVE  UNCHANGED World /\ Underway'
  BY <1>1, <1>11 DEF QueueFull, StartFlush, Exit, Killed, World, Underway, bundle, run
<1>12. ASSUME NEW w \in Workers, EndReplay(w)
      PROVE  UNCHANGED World /\ Underway'
  BY <1>1, <1>12 DEF EndReplay, World, Underway, bundle, run
<1>13. ASSUME NEW w \in Workers, NEW m \in unsent[w],
              Delivered(w, m) \/ Confirmed(w, m) \/ NotDelivered(w, m)
      PROVE  UNCHANGED World /\ Underway'
  BY <1>1, <1>13 DEF Delivered, Confirmed, NotDelivered, Polls, World, Underway, bundle, run
<1>14. CASE UNCHANGED vars
  BY <1>1, <1>14 DEF vars, World, Underway, bundle, run
<1> QED
  BY <1>2, <1>3, <1>4, <1>5, <1>7, <1>8, <1>9, <1>10, <1>11, <1>12, <1>13, <1>14
  DEF Next, Coordinate, WorkerStep, Broker

\* What a step that leaves a process alone leaves alone.
Untouched(x) ==
  /\ proc'[x] = proc[x] /\ loaded'[x] = loaded[x] /\ unsent'[x] = unsent[x]
  /\ errors'[x] = errors[x] /\ todo'[x] = todo[x] /\ due'[x] = due[x]
  /\ clock'[x] = clock[x] /\ tally'[x] = tally[x]

Invariants ==
  PlayersTyped /\ StartInv /\ NothingInvented /\ \A w \in Workers : PlayInv(w)

\* A step of one process of a run under way.
LEMMA OneMoves ==
  ASSUME Invariants, Underway', UNCHANGED <<World, topic>>, PlayersTyped', NEW w \in Workers,
         \A x \in Workers \ {w} : Untouched(x),
         PlayInv(w)', unsent'[w] \subseteq Owed(w), signals' > 0 => signals > 0,
         loaded'[w] = loaded[w] \/ (proc[w] \in Unstarted /\ unsent'[w] = {}),
         proc[w] \notin Unstarted => proc'[w] \notin Unstarted,
         proc'[w] \in Unstarted => proc[w] \in Unstarted /\ clock'[w] = clock[w]
           /\ unsent'[w] = unsent[w] /\ errors'[w] = errors[w] /\ tally'[w] = tally[w],
         proc'[w] \in {"failed", "killed"} => unsent'[w] = {},
         proc'[w] \in Playing => proc[w] \in Playing \/ signals > 0
  PROVE  Invariants'
<1>1. PlayersTyped /\ StartInv /\ NothingInvented /\ \A x \in Workers : PlayInv(x)
  BY DEF Invariants
<1>2. UNCHANGED World /\ topic' = topic /\ UNCHANGED <<source, anchor>>
  BY DEF World
<1>3. ASSUME NEW x \in Workers, x # w
      PROVE  PlayInv(x)'
  <2>1. Untouched(x) /\ PlayInv(x)
    BY <1>1, <1>3
  <2>2. Sent(x)' = Sent(x)
    BY <1>2, <2>1 DEF Untouched, Sent
  <2>3. proc'[x] \in Playing =>
           /\ proc[x] \in Playing
           /\ proc'[x] \in {"flush", "sent", "exited"} => due[x] = {}
           /\ loaded'[x] = loaded[x] /\ todo'[x] = todo[x] /\ due'[x] = due[x]
           /\ clock'[x] = clock[x] /\ tally'[x] = tally[x]
    BY <2>1 DEF Untouched, PlayInv
  <2>4. errors'[x] = errors[x]
    BY <2>1 DEF Untouched
  <2> QED
    BY <1>2, <2>1, <2>2, <2>3, <2>4, KeepsPlaying
<1>4. \A x \in Workers : PlayInv(x)'
  BY <1>3
<1>5. \A x \in Workers : Owed(x)' = Owed(x) \/ (x = w /\ proc[w] \in Unstarted /\ unsent'[w] = {})
  BY <1>2, SameWorld DEF Untouched
<1>6. NothingInvented'
  <2>1. \A x \in Workers : unsent'[x] \subseteq Owed(x)'
    BY <1>1, <1>5 DEF NothingInvented, Untouched
  <2>2. \A m \in topic' : m.by \in Workers /\ proc'[m.by] \notin Unstarted /\ m \in Owed(m.by)
                         /\ proc[m.by] \notin Unstarted
    BY <1>1, <1>2 DEF NothingInvented, Untouched
  <2>3. IsFiniteSet(topic')
    BY <1>1, <1>2 DEF NothingInvented
  <2>4. \A m \in topic' : m \in Owed(m.by)'
    BY <1>5, <2>2
  <2> QED
    BY <2>1, <2>2, <2>3, <2>4 DEF NothingInvented
<1>7. StartInv'
  <2>1. signals' > 0 \/ (\E x \in Workers : proc'[x] \in Playing)
          => signals > 0 \/ (\E x \in Workers : proc[x] \in Playing)
    BY DEF Untouched
  <2>2. \A x \in Workers : proc'[x] \in Unstarted =>
          /\ clock'[x] = 0 /\ unsent'[x] = {} /\ errors'[x] = FALSE
          /\ tally'[x] = [planned |-> 0, skipped |-> 0, published |-> 0]
    BY <1>1 DEF StartInv, Untouched
  <2>3. \A x \in Workers : proc'[x] \in {"failed", "killed"} => unsent'[x] = {}
    BY <1>1 DEF StartInv, Untouched
  <2>4. Anchors(source)' = Anchors(source)
    BY <1>2
  <2> QED
    BY <1>1, <1>2, <2>1, <2>2, <2>3, <2>4 DEF StartInv, Underway
<1> QED
  BY <1>4, <1>6, <1>7 DEF Invariants

\* A process that ends with an error.
LEMMA FailMoves ==
  ASSUME Invariants, Underway', UNCHANGED World, RunTyped, QueuesBounded, NEW w \in Workers,
         Fails(w)
  PROVE  Invariants' /\ UNCHANGED clock
<1>1. /\ proc' = [proc EXCEPT ![w] = "failed"] /\ unsent' = [unsent EXCEPT ![w] = {}]
      /\ UNCHANGED <<loaded, todo, due, count, clock, tally, errors, topic, signals>>
  BY DEF Fails, player
<1>2. proc'[w] = "failed" /\ unsent'[w] = {}
  BY <1>1 DEF RunTyped, QueuesBounded
<1>3. \A x \in Workers \ {w} : Untouched(x)
  BY <1>1 DEF Untouched, RunTyped, QueuesBounded
<1>4. PlayInv(w)' /\ PlayersTyped'
  BY <1>1, <1>2 DEF PlayInv, Playing, PlayersTyped, Invariants
<1> QED
  BY <1>1, <1>2, <1>3, <1>4, OneMoves DEF Unstarted, Playing

\* A step of the coordinator, or of the world outside.
LEMMA NobodyMoves ==
  ASSUME Invariants, Underway', UNCHANGED <<World, topic>>, UNCHANGED <<player, kafka, loaded>>,
         \A x \in Workers : proc'[x] = proc[x], signals' > 0 => signals > 0
  PROVE  Invariants'
<1>1. \A x \in Workers : Untouched(x)
  BY DEF Untouched, player, kafka
<1>2. PlayersTyped'
  BY DEF Invariants, PlayersTyped, player
<1>3. PICK w \in Workers : TRUE
  BY ReplayAssumption
<1>4. Untouched(w) /\ PlayInv(w)
  BY <1>1 DEF Invariants
<1>5. UNCHANGED World
  OBVIOUS
<1>6. Sent(w)' = Sent(w)
  BY <1>4 DEF Untouched, Sent
<1>7. proc'[w] \in Playing =>
           /\ proc[w] \in Playing
           /\ proc'[w] \in {"flush", "sent", "exited"} => due[w] = {}
           /\ loaded'[w] = loaded[w] /\ todo'[w] = todo[w] /\ due'[w] = due[w]
           /\ clock'[w] = clock[w] /\ tally'[w] = tally[w]
  BY <1>4 DEF Untouched, PlayInv
<1>8. errors'[w] = errors[w]
  BY <1>4 DEF Untouched
<1>9. PlayInv(w)'
  BY <1>4, <1>5, <1>6, <1>7, <1>8, KeepsPlaying
<1>10. /\ unsent'[w] \subseteq Owed(w)
       /\ proc'[w] = proc[w] /\ clock'[w] = clock[w] /\ unsent'[w] = unsent[w]
       /\ errors'[w] = errors[w] /\ tally'[w] = tally[w]
       /\ proc'[w] \in {"failed", "killed"} => unsent'[w] = {}
  BY <1>4 DEF Untouched, Invariants, NothingInvented, StartInv
<1> QED
  BY <1>1, <1>2, <1>9, <1>10, OneMoves

\* What is the same for all steps of a run under way.
Running ==
  /\ Invariants /\ Underway /\ Underway' /\ UNCHANGED World
  /\ InputTyped /\ RunTyped /\ QueuesBounded /\ SnapshotsAgree /\ CleanEnds

ClocksAdvance == \A w \in Workers : clock[w] <= clock'[w]

LEMMA SameClocks == ASSUME Invariants, UNCHANGED clock PROVE ClocksAdvance
BY DEF Invariants, PlayersTyped, ClocksAdvance

LEMMA LoadMoves ==
  ASSUME Running, NEW w \in Workers, Load(w) PROVE Invariants' /\ ClocksAdvance
<1>1. CASE ~SameRoads(w)
  <2>1. Fails(w)
    BY <1>1 DEF Load
  <2> QED
    BY <2>1, FailMoves, SameClocks DEF Running
<1>2. CASE SameRoads(w)
  <2>1. /\ proc[w] = "load" /\ proc' = [proc EXCEPT ![w] = "wait"]
        /\ loaded' = [loaded EXCEPT ![w] = road]
        /\ UNCHANGED <<todo, due, count, clock, tally, unsent, errors, topic, signals>>
    BY <1>2 DEF Load, player, kafka
  <2>2. proc'[w] = "wait"
    BY <2>1 DEF Running, RunTyped
  <2>3. \A x \in Workers \ {w} : Untouched(x)
    BY <2>1 DEF Untouched, Running, RunTyped
  <2>4. PlayInv(w)' /\ PlayersTyped'
    BY <2>1, <2>2 DEF PlayInv, Playing, PlayersTyped, Running, Invariants
  <2>5. unsent'[w] \subseteq Owed(w) /\ proc[w] \in Unstarted /\ unsent'[w] = {}
    BY <2>1 DEF Running, Invariants, NothingInvented, StartInv, Unstarted
  <2> QED
    BY <2>1, <2>2, <2>3, <2>4, <2>5, OneMoves, SameClocks DEF Running, Unstarted, Playing
<1> QED
  BY <1>1, <1>2

LEMMA SignalMoves ==
  ASSUME Running, NEW w \in Workers, TakeSignal(w) PROVE Invariants' /\ ClocksAdvance
<1>1. CASE ~(BundleFits(mainRoad) /\ Enters(w, anchor, loaded[w]))
  <2>1. Fails(w)
    BY <1>1 DEF TakeSignal
  <2> QED
    BY <2>1, FailMoves, SameClocks DEF Running
<1>2. CASE BundleFits(mainRoad) /\ Enters(w, anchor, loaded[w])
  <2>1. /\ proc[w] = "wait" /\ signals > 0 /\ proc' = [proc EXCEPT ![w] = "play"]
        /\ Begin(w, anchor) /\ signals' = signals - 1
        /\ UNCHANGED <<loaded, unsent, errors, topic>>
    BY <1>2 DEF TakeSignal, kafka
  <2>2. proc'[w] = "play"
    BY <2>1 DEF Running, RunTyped
  <2>3. /\ anchor \in Anchors(source) /\ clock[w] = 0
        /\ tally[w] = [planned |-> 0, skipped |-> 0, published |-> 0]
    BY <2>1 DEF Running, Invariants, StartInv, Unstarted
  <2>4. loaded'[w] = loaded[w] /\ Enters(w, anchor, loaded[w])
    BY <1>2, <2>1
  <2>5. PlayersTyped /\ source \in Sources /\ mode \in Modes
        /\ UNCHANGED <<source, disk, mode, anchor>>
    BY DEF Running, Invariants, InputTyped, World
  <2>6. PlayInv(w)' /\ PlayersTyped' /\ anchor \in Nat /\ clock'[w] = anchor
    BY <2>1, <2>2, <2>3, <2>4, <2>5, BeginPlays DEF Running
  <2>7. \A x \in Workers \ {w} : Untouched(x)
    BY <2>1 DEF Untouched, Running, RunTyped, Begin, Invariants, PlayersTyped
  <2>8. unsent'[w] \subseteq Owed(w)
    BY <2>1 DEF Running, Invariants, NothingInvented
  <2>9. Invariants'
    BY <2>1, <2>2, <2>4, <2>6, <2>7, <2>8, OneMoves DEF Running, Unstarted, Playing
  <2>10. ClocksAdvance
    BY <2>3, <2>5, <2>6, <2>7 DEF ClocksAdvance, Untouched, PlayersTyped
  <2> QED
    BY <2>9, <2>10
<1> QED
  BY <1>1, <1>2

LEMMA DispatchMoves ==
  ASSUME Running, NEW w \in Workers, Dispatch(w) PROVE Invariants' /\ ClocksAdvance
<1>1. /\ source \in Sources /\ UNCHANGED World /\ PlayersTyped /\ PlayInv(w)
      /\ unsent[w] \subseteq Owed(w)
  BY DEF Running, InputTyped, Invariants, NothingInvented
<1>2. PlayInv(w)' /\ PlayersTyped' /\ clock[w] <= clock'[w] /\ proc'[w] = "play"
  BY <1>1, DispatchPlays
<1>3. /\ proc[w] = "play" /\ UNCHANGED <<proc, loaded, unsent, errors, topic, signals>>
      /\ \A x \in Workers \ {w} : /\ todo'[x] = todo[x] /\ due'[x] = due[x]
                                  /\ clock'[x] = clock[x] /\ tally'[x] = tally[x]
  BY <1>1 DEF Dispatch, kafka, mailbox, PlayersTyped
<1>4. \A x \in Workers \ {w} : Untouched(x)
  BY <1>3 DEF Untouched
<1>5. Invariants'
  BY <1>1, <1>2, <1>3, <1>4, OneMoves DEF Running, Unstarted, Playing
<1>6. ClocksAdvance
  BY <1>1, <1>2, <1>3 DEF ClocksAdvance, PlayersTyped
<1> QED
  BY <1>5, <1>6

LEMMA PublishMoves ==
  ASSUME Running, NEW w \in Workers, Publish(w) PROVE Invariants' /\ ClocksAdvance
<1>1. /\ source \in Sources /\ UNCHANGED World /\ PlayersTyped /\ PlayInv(w)
      /\ unsent[w] \subseteq Owed(w) /\ RunTyped /\ QueuesBounded
  BY DEF Running, InputTyped, Invariants, NothingInvented
<1>2. /\ PlayInv(w)' /\ PlayersTyped' /\ clock[w] <= clock'[w] /\ proc'[w] = "play"
      /\ unsent'[w] \subseteq Owed(w)
  BY <1>1, PublishPlays
<1>3. /\ proc[w] \in {"full", "play"} /\ UNCHANGED <<loaded, todo, errors, topic, signals>>
      /\ \A x \in Workers \ {w} : /\ proc'[x] = proc[x] /\ due'[x] = due[x] /\ unsent'[x] = unsent[x]
                                  /\ clock'[x] = clock[x] /\ tally'[x] = tally[x]
  BY <1>1 DEF Publish, mailbox, PlayersTyped, RunTyped, QueuesBounded
<1>4. \A x \in Workers \ {w} : Untouched(x)
  BY <1>3 DEF Untouched
<1>5. Invariants'
  BY <1>1, <1>2, <1>3, <1>4, OneMoves DEF Running, Unstarted, Playing
<1>6. ClocksAdvance
  BY <1>1, <1>2, <1>3 DEF ClocksAdvance, PlayersTyped
<1> QED
  BY <1>5, <1>6

\* The steps of a process that only change where it is.
LEMMA PlaceMoves ==
  ASSUME Running, NEW w \in Workers,
         QueueFull(w) \/ StartFlush(w) \/ EndReplay(w) \/ Exit(w) \/ Killed(w)
  PROVE  Invariants' /\ ClocksAdvance
<1>1. /\ UNCHANGED <<loaded, todo, due, count, clock, tally, errors, topic, signals>>
      /\ \A x \in Workers \ {w} : proc'[x] = proc[x] /\ unsent'[x] = unsent[x]
  <2>1. CASE QueueFull(w)
    BY <2>1 DEF QueueFull, player, kafka, mailbox, Running, RunTyped
  <2>2. CASE StartFlush(w)
    BY <2>2 DEF StartFlush, player, kafka, mailbox, Running, RunTyped
  <2>3. CASE EndReplay(w)
    BY <2>3 DEF EndReplay, Report, player, kafka, mailbox, Running, RunTyped
  <2>4. CASE Exit(w)
    BY <2>4 DEF Exit, player, mailbox, Running, RunTyped, QueuesBounded
  <2>5. CASE Killed(w)
    BY <2>5 DEF Killed, player, mailbox, Running, RunTyped, QueuesBounded
  <2> QED
    BY <2>1, <2>2, <2>3, <2>4, <2>5
<1>2. /\ proc'[w] \in {"full", "flush", "sent", "exited", "killed"}
      /\ proc'[w] = "killed" => unsent'[w] = {}
      /\ proc'[w] # "killed" => proc[w] \in Playing /\ unsent'[w] = unsent[w]
      /\ proc'[w] \in {"flush", "sent", "exited"} =>
           (proc[w] \in {"flush", "sent", "exited"} \/ due[w] = {})
      /\ unsent'[w] \subseteq unsent[w]
  <2>1. CASE QueueFull(w)
    BY <2>1 DEF QueueFull, kafka, Running, RunTyped, Playing
  <2>2. CASE StartFlush(w)
    BY <2>2 DEF StartFlush, kafka, Running, RunTyped, Playing
  <2>3. CASE EndReplay(w)
    BY <2>3 DEF EndReplay, kafka, Running, RunTyped, Playing
  <2>4. CASE Exit(w)
    BY <2>4 DEF Exit, Running, RunTyped, QueuesBounded, Playing, CleanEnds
  <2>5. CASE Killed(w)
    BY <2>5 DEF Killed, Running, RunTyped, QueuesBounded, Playing
  <2> QED
    BY <2>1, <2>2, <2>3, <2>4, <2>5
<1>3. UNCHANGED World /\ PlayInv(w) /\ PlayersTyped /\ unsent[w] \subseteq Owed(w)
  BY DEF Running, Invariants, NothingInvented
<1>4. PlayInv(w)'
  <2>1. proc'[w] \in Playing => proc[w] \in Playing /\ Sent(w)' = Sent(w)
    BY <1>1, <1>2 DEF Sent, Playing
  <2>2. proc'[w] \in Playing /\ proc'[w] \in {"flush", "sent", "exited"} => due[w] = {}
    BY <1>2, <1>3, <2>1 DEF PlayInv
  <2> QED
    BY <1>1, <1>3, <2>1, <2>2, KeepsPlaying
<1>5. \A x \in Workers \ {w} : Untouched(x)
  BY <1>1 DEF Untouched
<1>6. PlayersTyped'
  BY <1>1, <1>3 DEF PlayersTyped
<1>7. proc[w] \notin Unstarted => proc'[w] \notin Unstarted
  BY <1>2 DEF Unstarted
<1>8. proc'[w] \notin Unstarted /\ (proc'[w] \in {"failed", "killed"} => unsent'[w] = {})
      /\ (proc'[w] \in Playing => proc[w] \in Playing)
  BY <1>2 DEF Unstarted, Playing
<1> QED
  BY <1>1, <1>2, <1>3, <1>4, <1>5, <1>6, <1>7, <1>8, OneMoves, SameClocks DEF Running

LEMMA PollMoves ==
  ASSUME Running, NEW w \in Workers, NEW m \in unsent[w], Confirmed(w, m) \/ NotDelivered(w, m)
  PROVE  Invariants' /\ ClocksAdvance
<1>1. /\ proc[w] \in {"full", "flush"} /\ unsent' = [unsent EXCEPT ![w] = @ \ {m}]
      /\ UNCHANGED <<proc, loaded, todo, due, count, clock, tally, topic, signals>>
  BY DEF Confirmed, NotDelivered, Polls, player, mailbox
<1>2. \A x \in Workers \ {w} : errors'[x] = errors[x]
  BY DEF Confirmed, NotDelivered, Running, RunTyped
<1>3. errors'[w] = FALSE => errors[w] = FALSE /\ m \in topic
  BY DEF Confirmed, NotDelivered, Running, RunTyped
<1>4. UNCHANGED World /\ PlayInv(w) /\ PlayersTyped /\ unsent[w] \subseteq Owed(w)
  BY DEF Running, Invariants, NothingInvented
<1>5. unsent'[w] = unsent[w] \ {m} /\ \A x \in Workers \ {w} : unsent'[x] = unsent[x]
  BY <1>1 DEF Running, QueuesBounded
<1>6. PlayInv(w)'
  <2>1. m.by = w
    BY <1>4 DEF Owed
  <2>2. errors'[w] = FALSE => errors[w] = FALSE /\ Sent(w) \subseteq Sent(w)'
    BY <1>1, <1>3, <1>5, <2>1 DEF Sent
  <2>3. proc'[w] \in {"flush", "sent", "exited"} /\ proc[w] \in Playing => due[w] = {}
    BY <1>1, <1>4 DEF PlayInv
  <2> QED
    BY <1>1, <1>4, <2>2, <2>3, KeepsPlaying
<1>7. \A x \in Workers \ {w} : Untouched(x)
  BY <1>1, <1>2, <1>5 DEF Untouched
<1>8. PlayersTyped' /\ unsent'[w] \subseteq Owed(w)
  BY <1>1, <1>4, <1>5 DEF PlayersTyped
<1>9. proc'[w] = proc[w] /\ proc[w] \in Playing /\ proc[w] \notin Unstarted
      /\ proc[w] \notin {"failed", "killed"}
  BY <1>1 DEF Playing, Unstarted
<1> QED
  BY <1>1, <1>4, <1>6, <1>7, <1>8, <1>9, OneMoves, SameClocks DEF Running

LEMMA DeliveryMoves ==
  ASSUME Running, NEW w \in Workers, NEW m \in unsent[w], Delivered(w, m)
  PROVE  Invariants' /\ ClocksAdvance
<1>1. /\ topic' = topic \cup {m}
      /\ UNCHANGED <<proc, loaded, todo, due, count, clock, tally, unsent, errors, signals>>
  BY DEF Delivered, player, mailbox
<1>2. PlayersTyped /\ StartInv /\ NothingInvented /\ \A x \in Workers : PlayInv(x)
  BY DEF Running, Invariants
<1>3. UNCHANGED World /\ UNCHANGED <<source, anchor>> /\ Underway'
  BY DEF Running, World
<1>4. m \in Owed(w) /\ m.by = w /\ proc[w] \notin Unstarted
  BY <1>2 DEF NothingInvented, StartInv, Owed
<1>5. ASSUME NEW x \in Workers
      PROVE  PlayInv(x)'
  <2>1. Sent(x) \subseteq Sent(x)'
    BY <1>1 DEF Sent
  <2>2. proc[x] \in {"flush", "sent", "exited"} /\ proc[x] \in Playing => due[x] = {}
    BY <1>2 DEF PlayInv
  <2> QED
    BY <1>1, <1>2, <1>3, <2>1, <2>2, KeepsPlaying
<1>6. NothingInvented'
  <2>1. \A x \in Workers : Owed(x)' = Owed(x)
    BY <1>1, <1>3, SameWorld
  <2>2. IsFiniteSet(topic')
    BY <1>1, <1>2, FS_AddElement DEF NothingInvented
  <2> QED
    BY <1>1, <1>2, <1>4, <2>1, <2>2 DEF NothingInvented
<1>7. StartInv'
  <2>1. Anchors(source)' = Anchors(source)
    BY <1>3
  <2> QED
    BY <1>1, <1>2, <1>3, <2>1 DEF StartInv, Underway
<1>8. PlayersTyped'
  BY <1>1, <1>2 DEF PlayersTyped
<1> QED
  BY <1>1, <1>5, <1>6, <1>7, <1>8, SameClocks DEF Invariants, Running

LEMMA StopMoves ==
  ASSUME Running, Stop
  PROVE  Invariants' /\ ClocksAdvance
<1>1. /\ proc' = [w \in Workers |-> IF proc[w] \in Alive THEN "killed" ELSE proc[w]]
      /\ unsent' = [w \in Workers |-> {}]
      /\ UNCHANGED <<loaded, todo, due, count, clock, tally, topic, errors, signals>>
  BY DEF Stop, player, mailbox
<1>2. PlayersTyped /\ StartInv /\ NothingInvented /\ \A x \in Workers : PlayInv(x)
  BY DEF Running, Invariants
<1>3. UNCHANGED World /\ UNCHANGED <<source, anchor>> /\ Underway'
  BY DEF Running, World
<1>4. ASSUME NEW x \in Workers
      PROVE  /\ proc'[x] \in {proc[x], "killed"} /\ unsent'[x] = {}
             /\ proc'[x] \in Playing => proc'[x] = proc[x] /\ proc[x] = "exited" /\ unsent[x] = {}
             /\ proc'[x] \in Unstarted => proc[x] = proc'[x]
             /\ proc[x] \notin Unstarted => proc'[x] \notin Unstarted
  BY <1>1 DEF Running, RunTyped, CleanEnds, Alive, Ended, Playing, Unstarted
<1>5. ASSUME NEW x \in Workers
      PROVE  PlayInv(x)'
  <2>1. proc'[x] \in Playing => Sent(x)' = Sent(x)
    BY <1>1, <1>4 DEF Sent
  <2>2. proc[x] \in {"flush", "sent", "exited"} /\ proc[x] \in Playing => due[x] = {}
    BY <1>2 DEF PlayInv
  <2> QED
    BY <1>1, <1>2, <1>3, <1>4, <2>1, <2>2, KeepsPlaying
<1>6. NothingInvented'
  <2>1. \A x \in Workers : Owed(x)' = Owed(x)
    BY <1>1, <1>3, SameWorld
  <2> QED
    BY <1>1, <1>2, <1>4, <2>1 DEF NothingInvented
<1>7. StartInv'
  <2>1. Anchors(source)' = Anchors(source)
    BY <1>3
  <2>2. signals' > 0 \/ (\E x \in Workers : proc'[x] \in Playing)
          => signals > 0 \/ (\E x \in Workers : proc[x] \in Playing)
    BY <1>1, <1>4
  <2> QED
    BY <1>1, <1>2, <1>3, <1>4, <2>1, <2>2 DEF StartInv, Underway
<1>8. PlayersTyped'
  BY <1>1, <1>2 DEF PlayersTyped
<1> QED
  BY <1>1, <1>5, <1>6, <1>7, <1>8, SameClocks DEF Invariants, Running

LEMMA OutsideMoves ==
  ASSUME Running,
         RefreshRoads \/ Receive \/ Starve \/ LookAtWorkers \/ Join \/ JoinTimesOut \/ UNCHANGED vars
  PROVE  Invariants' /\ ClocksAdvance
<1>1. UNCHANGED <<player, kafka, loaded, proc, signals>>
  <2>1. CASE RefreshRoads
    BY <2>1 DEF RefreshRoads, mailbox
  <2>2. CASE Receive \/ Starve \/ LookAtWorkers \/ Join
    BY <2>2 DEF Receive, Starve, LookAtWorkers, Join, Coordinates, mailbox
  <2>3. CASE JoinTimesOut \/ UNCHANGED vars
    BY <2>3 DEF JoinTimesOut, mailbox, vars
  <2> QED
    BY <2>1, <2>2, <2>3
<1>2. UNCHANGED <<topic, clock>> /\ \A x \in Workers : proc'[x] = proc[x]
  BY <1>1 DEF player, kafka
<1> QED
  BY <1>1, <1>2, NobodyMoves, SameClocks DEF Running

\* Every step of a run under way.
LEMMA RunningStep ==
  ASSUME InputTyped, RunTyped, QueuesBounded, SnapshotsAgree, CleanEnds,
         Invariants, Underway, [Next]_vars
  PROVE  Invariants' /\ ClocksAdvance
<1>1. Running
  BY WorldIsFixed DEF Running
<1>2. CASE RefreshRoads \/ JoinTimesOut \/ UNCHANGED vars
  BY <1>1, <1>2, OutsideMoves
<1>3. CASE Prepare \/ Start
  BY <1>3 DEF Underway, Prepare, Start, StartPrepare, WriteTrips, WriteRoutes, MoveTrips,
     MoveRoutes, WriteManifest, RemoveBundle, PrepareFails, Preparing, StartSolo, StartParallel, StartCutShort
<1>4. CASE Coordinate
  <2>1. ~ \E wall \in Walls : Signal(wall)
    BY DEF Signal, Underway
  <2> QED
    BY <1>1, <1>4, <2>1, OutsideMoves, StopMoves DEF Coordinate
<1>5. ASSUME NEW w \in Workers, WorkerStep(w)
      PROVE  Invariants' /\ ClocksAdvance
  <2>1. NextRaises(w) \/ DeliveryErrorSeen(w) => Fails(w)
    BY DEF NextRaises, DeliveryErrorSeen
  <2>2. Fails(w) => Invariants' /\ ClocksAdvance
    BY <1>1, FailMoves, SameClocks DEF Running
  <2> QED
    BY <1>1, <1>5, <2>1, <2>2, LoadMoves, SignalMoves, DispatchMoves, PublishMoves, PlaceMoves
    DEF WorkerStep
<1>6. ASSUME NEW w \in Workers, Raises(w) \/ Killed(w)
      PROVE  Invariants' /\ ClocksAdvance
  <2>1. Raises(w) => Fails(w)
    BY DEF Raises
  <2>2. Fails(w) => Invariants' /\ ClocksAdvance
    BY <1>1, FailMoves, SameClocks DEF Running
  <2> QED
    BY <1>1, <1>6, <2>1, <2>2, PlaceMoves
<1>7. ASSUME NEW w \in Workers, NEW m \in unsent[w],
             Delivered(w, m) \/ Confirmed(w, m) \/ NotDelivered(w, m)
      PROVE  Invariants' /\ ClocksAdvance
  BY <1>1, <1>7, DeliveryMoves, PollMoves
<1> QED
  BY <1>2, <1>3, <1>4, <1>5, <1>6, <1>7 DEF Next, Broker

-----------------------------------------------------------------------------
\* Before: nobody plays, nothing is sent.
LEMMA StillBefore ==
  ASSUME Invariants, ~Underway, PlayersTyped', topic' = {}, UNCHANGED <<clock, tally>>,
         \A x \in Workers : /\ proc'[x] \in Unstarted \cup {"failed", "killed"} /\ unsent'[x] = {}
                            /\ proc'[x] \in Unstarted => proc[x] \in Unstarted /\ errors'[x] = errors[x],
         ~Underway' => signals' = 0,
         signals' > 0 => anchor' \in Anchors(source')
  PROVE  Invariants' /\ ClocksAdvance
<1>1. StartInv /\ PlayersTyped
  BY DEF Invariants
<1>2. \A x \in Workers : proc'[x] \notin Playing
  BY DEF Unstarted, Playing
<1>3. \A x \in Workers : PlayInv(x)'
  BY <1>2 DEF PlayInv
<1>4. NothingInvented'
  BY FS_EmptySet DEF NothingInvented
<1>5. StartInv'
  <2>1. \A x \in Workers : proc'[x] \in Unstarted =>
          /\ clock'[x] = 0 /\ unsent'[x] = {} /\ errors'[x] = FALSE
          /\ tally'[x] = [planned |-> 0, skipped |-> 0, published |-> 0]
    BY <1>1 DEF StartInv
  <2> QED
    BY <1>2, <2>1 DEF StartInv
<1>6. ClocksAdvance
  BY SameClocks
<1> QED
  BY <1>3, <1>4, <1>5, <1>6 DEF Invariants

LEMMA QuietBefore ==
  ASSUME Invariants, ~Underway
  PROVE  /\ signals = 0 /\ topic = {} /\ PlayersTyped
         /\ \A x \in Workers : proc[x] \in Unstarted \cup {"failed", "killed"} /\ unsent[x] = {}
BY DEF Invariants, StartInv

\* run with one process: it plays at once.
LEMMA SoloStarts ==
  ASSUME InputTyped, RunTyped, SnapshotsAgree, Invariants,
         NEW wall \in Walls, StartSolo(wall)
  PROVE  Invariants' /\ ClocksAdvance
<1> DEFINE at == SourceAnchor(source, wall)
<1>1. /\ main = "idle" /\ AnchorDays(source, wall.weekday) # {} /\ main' = "solo"
      /\ mainRoad' = road /\ anchor' = at
      /\ proc' = [proc EXCEPT ![Solo] = "play"] /\ loaded' = [loaded EXCEPT ![Solo] = road]
      /\ Begin(Solo, at) /\ Enters(Solo, at, road)
      /\ UNCHANGED <<source, disk, mode, unsent, errors, topic, signals>>
  BY DEF StartSolo, bundle, mailbox, kafka
<1>2. at \in Anchors(source)
  BY <1>1 DEF Anchors
<1>3. \A x \in Workers : proc[x] = "none"
  BY <1>1 DEF SnapshotsAgree
<1>4. /\ PlayersTyped /\ signals = 0 /\ topic = {}
      /\ \A x \in Workers : /\ unsent[x] = {} /\ clock[x] = 0 /\ errors[x] = FALSE
                            /\ tally[x] = [planned |-> 0, skipped |-> 0, published |-> 0]
  BY <1>1, <1>3 DEF Invariants, StartInv, Underway, Unstarted
<1>5. Solo \in Workers /\ source \in Sources /\ mode \in Modes
  BY ReplayAssumption DEF InputTyped
<1>6. proc'[Solo] = "play" /\ loaded'[Solo] = road
      /\ \A x \in Workers \ {Solo} : proc'[x] = "none"
  BY <1>1, <1>3, <1>5 DEF RunTyped
<1> HIDE DEF at
<1>7. PlayInv(Solo)' /\ PlayersTyped' /\ at \in Nat /\ clock'[Solo] = at
  BY <1>1, <1>2, <1>4, <1>5, <1>6, BeginPlays
<1>8. \A x \in Workers : PlayInv(x)'
  BY <1>6, <1>7 DEF PlayInv, Playing
<1>9. NothingInvented'
  BY <1>1, <1>4, FS_EmptySet DEF NothingInvented
<1>10. StartInv'
  <2>1. \A x \in Workers \ {Solo} : clock'[x] = clock[x] /\ tally'[x] = tally[x]
    BY <1>1, <1>4 DEF Begin, PlayersTyped
  <2>2. Underway' /\ anchor' \in Anchors(source)'
    BY <1>1, <1>2 DEF Underway
  <2>3. \A x \in Workers : proc'[x] \in Unstarted => x # Solo
    BY <1>6 DEF Unstarted
  <2>4. \A x \in Workers : proc'[x] \notin {"failed", "killed"}
    BY <1>6
  <2> QED
    BY <1>1, <1>4, <2>1, <2>2, <2>3, <2>4 DEF StartInv
<1>11. ClocksAdvance
  <2>1. \A x \in Workers \ {Solo} : clock'[x] = clock[x]
    BY <1>1, <1>4 DEF Begin, PlayersTyped
  <2> QED
    BY <1>4, <1>7, <2>1 DEF ClocksAdvance
<1> QED
  BY <1>7, <1>8, <1>9, <1>10, <1>11 DEF Invariants

\* Every step before a run is under way.
LEMMA BeforeStep ==
  ASSUME InputTyped, RunTyped, QueuesBounded, SnapshotsAgree, CleanEnds,
         Invariants, ~Underway, [Next]_vars
  PROVE  Invariants' /\ ClocksAdvance
<1>1. main \in {"idle", "ready", "start", "stranded"}
  BY DEF Underway
<1>2. /\ signals = 0 /\ topic = {} /\ PlayersTyped
      /\ \A x \in Workers : proc[x] \in Unstarted \cup {"failed", "killed"} /\ unsent[x] = {}
  BY QuietBefore
<1>3. ASSUME UNCHANGED <<player, kafka, loaded, proc>>, signals' = 0
      PROVE  Invariants' /\ ClocksAdvance
  <2>1. /\ PlayersTyped' /\ topic' = {} /\ UNCHANGED <<clock, tally>>
        /\ \A x \in Workers : proc'[x] = proc[x] /\ unsent'[x] = {} /\ errors'[x] = errors[x]
    BY <1>2, <1>3 DEF player, kafka, PlayersTyped
  <2> QED
    BY <1>2, <1>3, <2>1, StillBefore
<1>4. CASE RefreshRoads \/ Prepare \/ UNCHANGED vars
  <2>1. UNCHANGED <<player, kafka, loaded, proc, signals>>
    <3>1. CASE RefreshRoads \/ UNCHANGED vars
      BY <3>1 DEF RefreshRoads, vars, mailbox
    <3>2. CASE Prepare
      BY <3>2 DEF Prepare, StartPrepare, WriteTrips, WriteRoutes, MoveTrips, MoveRoutes,
         WriteManifest, RemoveBundle, PrepareFails, Preparing, mailbox
    <3> QED
      BY <1>4, <3>1, <3>2
  <2> QED
    BY <1>2, <1>3, <2>1
<1>5. CASE Receive \/ Starve \/ LookAtWorkers
  <2>1. UNCHANGED <<player, kafka, loaded, proc, signals>>
    BY <1>5 DEF Receive, Starve, LookAtWorkers, Coordinates
  <2> QED
    BY <1>2, <1>3, <2>1
<1>6. ASSUME NEW wall \in Walls, Signal(wall)
      PROVE  Invariants' /\ ClocksAdvance
  <2>1. CASE AnchorDays(source, wall.weekday) = {}
    <3>1. UNCHANGED <<player, kafka, loaded, proc, signals>>
      BY <1>6, <2>1 DEF Signal, Coordinates
    <3> QED
      BY <1>2, <1>3, <3>1
  <2>2. CASE AnchorDays(source, wall.weekday) # {}
    <3>1. /\ main' = "result" /\ anchor' = SourceAnchor(source, wall)
          /\ UNCHANGED <<player, kafka, loaded, proc, source>>
      BY <1>6, <2>2 DEF Signal, Coordinates, bundle
    <3>2. anchor' \in Anchors(source')
      BY <2>2, <3>1 DEF Anchors
    <3>3. /\ PlayersTyped' /\ topic' = {} /\ UNCHANGED <<clock, tally>> /\ Underway'
          /\ \A x \in Workers : proc'[x] = proc[x] /\ unsent'[x] = {} /\ errors'[x] = errors[x]
      BY <1>2, <3>1 DEF player, kafka, PlayersTyped, Underway
    <3> QED
      BY <1>2, <3>2, <3>3, StillBefore
  <2> QED
    BY <2>1, <2>2
<1>7. CASE StartParallel \/ StartCutShort
  <2>1. /\ main = "idle" /\ \A x \in Workers : proc'[x] \in {"none", "load"}
        /\ UNCHANGED <<player, kafka, signals>>
    BY <1>7 DEF StartParallel, StartCutShort, mailbox
  <2>2. /\ PlayersTyped' /\ topic' = {} /\ UNCHANGED <<clock, tally>> /\ signals' = 0
        /\ \A x \in Workers : proc[x] = "none" /\ proc'[x] \in {"none", "load"} /\ unsent'[x] = {}
                              /\ errors'[x] = errors[x]
    BY <1>2, <2>1 DEF player, kafka, PlayersTyped, SnapshotsAgree
  <2> QED
    BY <2>2, StillBefore DEF Unstarted
<1>8. ASSUME NEW w \in Workers, Fails(w) \/ Killed(w) \/ (Load(w) /\ SameRoads(w))
      PROVE  Invariants' /\ ClocksAdvance
  <2>1. /\ UNCHANGED <<player, topic, errors, signals>>
        /\ \E to \in {"failed", "killed", "wait"} :
             /\ proc' = [proc EXCEPT ![w] = to]
             /\ to = "wait" => proc[w] = "load"
    <3>1. CASE Fails(w)
      BY <3>1 DEF Fails
    <3>2. CASE Killed(w)
      BY <3>2 DEF Killed, mailbox
    <3>3. CASE Load(w) /\ SameRoads(w)
      BY <3>3 DEF Load, kafka
    <3> QED
      BY <1>8, <3>1, <3>2, <3>3
  <2>2. unsent' = unsent \/ unsent' = [unsent EXCEPT ![w] = {}]
    BY <1>8 DEF Fails, Killed, Load, kafka
  <2>3. /\ PlayersTyped' /\ topic' = {} /\ UNCHANGED <<clock, tally, errors>> /\ signals' = 0
    BY <1>2, <2>1 DEF player, PlayersTyped
  <2>4. \A x \in Workers : unsent'[x] = {}
    BY <1>2, <2>2 DEF QueuesBounded
  <2>5. \A x \in Workers : /\ proc'[x] \in Unstarted \cup {"failed", "killed"}
                           /\ proc'[x] \in Unstarted => proc[x] \in Unstarted
    BY <1>2, <2>1 DEF RunTyped, Unstarted
  <2> QED
    BY <2>3, <2>4, <2>5, StillBefore
<1>9. ASSUME NEW w \in Workers, WorkerStep(w) \/ Raises(w) \/ Killed(w)
      PROVE  Invariants' /\ ClocksAdvance
  <2>1. proc[w] \notin {"play", "full", "flush", "sent"}
    BY <1>2 DEF Unstarted
  <2>2. ~Dispatch(w) /\ ~QueueFull(w) /\ ~StartFlush(w) /\ ~EndReplay(w) /\ ~Exit(w)
        /\ ~NextRaises(w) /\ ~DeliveryErrorSeen(w) /\ ~TakeSignal(w)
    BY <1>2, <2>1 DEF Dispatch, QueueFull, StartFlush, EndReplay, Exit, NextRaises,
       DeliveryErrorSeen, TakeSignal
  <2>3. ~Publish(w)
    BY <2>1 DEF Publish
  <2>4. Load(w) /\ ~SameRoads(w) => Fails(w)
    BY DEF Load
  <2>5. Raises(w) => Fails(w)
    BY DEF Raises
  <2> QED
    BY <1>8, <1>9, <2>2, <2>3, <2>4, <2>5 DEF WorkerStep
<1>10. \A w \in Workers : unsent[w] = {}
  BY <1>2
<1>11. CASE Start
  BY <1>7, <1>11, SoloStarts DEF Start
<1>12. CASE Coordinate \/ JoinTimesOut
  <2>1. ~Stop /\ ~Join /\ ~JoinTimesOut
    BY <1>1 DEF Stop, Join, JoinTimesOut
  <2> QED
    BY <1>5, <1>6, <1>12, <2>1 DEF Coordinate
<1> QED
  BY <1>4, <1>9, <1>10, <1>11, <1>12 DEF Next, Broker

LEMMA InvariantsInit == Init => Invariants
<1> SUFFICES ASSUME Init PROVE Invariants
  OBVIOUS
<1>1. /\ main = "idle" /\ signals = 0 /\ topic = {}
      /\ proc = [w \in Workers |-> "none"] /\ clock = [w \in Workers |-> 0]
      /\ unsent = [w \in Workers |-> {}] /\ errors = [w \in Workers |-> FALSE]
      /\ tally = [w \in Workers |-> [planned |-> 0, skipped |-> 0, published |-> 0]]
  BY DEF Init
<1>2. PlayersTyped
  BY DEF Init, PlayersTyped
<1>3. StartInv
  <2>1. \A w \in Workers : proc[w] = "none" /\ clock[w] = 0 /\ unsent[w] = {} /\ errors[w] = FALSE
          /\ tally[w] = [planned |-> 0, skipped |-> 0, published |-> 0]
    BY <1>1
  <2> QED
    BY <1>1, <2>1 DEF StartInv, Playing, Underway, Unstarted
<1>4. NothingInvented
  BY <1>1, FS_EmptySet DEF NothingInvented
<1>5. \A w \in Workers : PlayInv(w)
  BY <1>1 DEF PlayInv, Playing
<1> QED
  BY <1>2, <1>3, <1>4, <1>5 DEF Invariants

\* All that is proved of the states, which together is inductive.
AllOfIt == TypeOK /\ SnapshotsAgree /\ CleanEnds /\ Invariants

LEMMA AllInit == Init => AllOfIt
BY TypeInit, SnapshotsInit, CleanInit, InvariantsInit DEF AllOfIt

LEMMA AllStep == AllOfIt /\ [Next]_vars => AllOfIt' /\ ClocksAdvance
BY TypeStep, SnapshotsStep, CleanStep, RunningStep, BeforeStep DEF AllOfIt, TypeOK

\* No process goes back in time, across the wrap of the file too: its queue holds
\* the next dispatch and the next sample of every trip under way, and none of
\* them comes before what was handled last.
THEOREM NeverBackInTime == Spec => ReplayedInOrder
<1>1. AllOfIt /\ [Next]_vars => [\A w \in Workers : clock'[w] >= clock[w]]_vars
  <2>1. ASSUME AllOfIt, [Next]_vars
        PROVE  \A w \in Workers : clock'[w] >= clock[w]
    <3>1. ClocksAdvance /\ clock \in [Workers -> Nat] /\ clock' \in [Workers -> Nat]
      BY <2>1, AllStep DEF AllOfIt, Invariants, PlayersTyped
    <3> QED
      BY <3>1 DEF ClocksAdvance
  <2> QED
    BY <2>1
<1>2. AllOfIt /\ [Next]_vars => AllOfIt'
  BY AllStep
<1> QED
  BY <1>1, <1>2, AllInit, PTL DEF Spec, ReplayedInOrder

\* A bundle is replayed on roads of its own snapshot date, whatever is published
\* meanwhile; what a process dispatches and plays, these roads carry; and the very
\* roads of the bundle carry every route in it, so that nothing raises on them.
THEOREM RoutesAlwaysFit == Spec => []RoutesFitTheRoads
<1> DEFINE IInv == AllOfIt /\ StagesWritten
<1>1. IInv => RoutesFitTheRoads
  <2> SUFFICES ASSUME IInv, NEW w \in Workers, mode # "parquet",
                      proc[w] \in {"play", "full", "flush", "sent", "exited"}
               PROVE  /\ SameDate(disk.road, loaded[w])
                      /\ \A t \in Trips(source) :
                           loaded[w] = disk.road \/ (\E i \in due[w] : i.trip = t)
                             => Brings(t, loaded[w])
    BY DEF RoutesFitTheRoads
  <2>1. disk.manifest = "whole" /\ SameDate(disk.road, loaded[w]) /\ DueBrought(w)
    BY DEF AllOfIt, SnapshotsAgree, Invariants, PlayInv, Playing
  <2>2. disk.road \in DOMAIN Networks /\ source \in Sources
    BY <2>1 DEF StagesWritten, AllOfIt, TypeOK, InputTyped
  <2>3. ASSUME NEW t \in Trips(source), loaded[w] = disk.road
        PROVE  Brings(t, loaded[w])
    <3>1. <<source[t].pu, source[t].do>> \in Pairs(source)
      BY DEF Pairs
    <3> QED
      BY <2>2, <2>3, <3>1, TemplatesWalkable DEF RoutesWalkable, Brings, StoredPlan
  <2>4. \A i \in due[w] : Brings(i.trip, loaded[w])
    BY <2>1 DEF DueBrought
  <2> QED
    BY <2>1, <2>3, <2>4
<1>2. Init => IInv
  BY AllInit, StagesInit
<1>3. IInv /\ [Next]_vars => IInv'
  BY AllStep, StagesStep DEF AllOfIt, TypeOK
<1> QED
  BY <1>1, <1>2, <1>3, PTL DEF Spec

-----------------------------------------------------------------------------
\* With one process only Solo ever runs.
OnlySolo ==
  mode # "parallel" =>
    /\ main \in {"idle", "solo", "done", "failed"}
    /\ \A w \in Workers \ {Solo} : proc[w] = "none"
    /\ main \in {"solo", "done"} => proc[Solo] # "none"

LEMMA SoloInit == Init => OnlySolo
BY DEF Init, OnlySolo

\* A step of one process that has been started.
LEMMA SoloMoves ==
  ASSUME RunTyped, OnlySolo, mode' = mode, NEW w \in Workers, proc[w] # "none",
         NEW to \in Alive \cup Ended, proc' = [proc EXCEPT ![w] = to] \/ proc' = proc,
         main' = main \/ (main = "solo" /\ main' \in {"done", "failed"})
  PROVE  OnlySolo'
<1>1. \A x \in Workers : proc'[x] = proc[x] \/ (x = w /\ proc'[x] # "none")
  BY DEF RunTyped, Alive, Ended
<1> QED
  BY <1>1, ReplayAssumption DEF OnlySolo

LEMMA SoloStep ==
  ASSUME RunTyped, OnlySolo, [Next]_vars
  PROVE  OnlySolo'
<1>1. CASE UNCHANGED <<mode, main, proc>>
  BY <1>1 DEF OnlySolo
<1>2. CASE RefreshRoads \/ Prepare \/ UNCHANGED vars
  <2>1. UNCHANGED <<mode, main, proc>>
    BY <1>2 DEF RefreshRoads, Prepare, StartPrepare, WriteTrips, WriteRoutes, MoveTrips, MoveRoutes,
       WriteManifest, RemoveBundle, PrepareFails, Preparing, run, vars
  <2> QED
    BY <1>1, <2>1
<1>3. ASSUME NEW wall \in Walls, StartSolo(wall)
      PROVE  OnlySolo'
  <2>1. /\ main = "idle" /\ main' = "solo" /\ mode' = mode
        /\ proc' = [proc EXCEPT ![Solo] = "play"]
    BY <1>3 DEF StartSolo
  <2> QED
    BY <2>1, ReplayAssumption DEF OnlySolo, RunTyped
<1>4. CASE StartParallel \/ StartCutShort
  BY <1>4 DEF StartParallel, StartCutShort, OnlySolo
<1>5. CASE Coordinate \/ JoinTimesOut
  <2>1. mode' = mode /\ main \notin {"idle", "solo", "done", "failed"}
    BY <1>5 DEF Coordinate, Receive, Starve, LookAtWorkers, Signal, Stop, Join, JoinTimesOut,
       Coordinates, run
  <2> QED
    BY <2>1 DEF OnlySolo
<1>6. ASSUME NEW w \in Workers, WorkerStep(w) \/ Raises(w) \/ Killed(w)
      PROVE  OnlySolo'
  <2>1. ASSUME Fails(w), proc[w] # "none"
        PROVE  OnlySolo'
    <3>1. /\ proc' = [proc EXCEPT ![w] = "failed"] /\ mode' = mode
          /\ main' = main \/ (main = "solo" /\ main' = "failed")
      BY <2>1 DEF Fails, run
    <3> QED
      BY <2>1, <3>1, SoloMoves DEF Ended
  <2>2. Raises(w) \/ NextRaises(w) \/ DeliveryErrorSeen(w) => Fails(w) /\ proc[w] # "none"
    BY DEF Raises, NextRaises, DeliveryErrorSeen, Alive
  <2>3. Load(w) \/ TakeSignal(w) =>
          /\ proc[w] # "none"
          /\ Fails(w) \/ (/\ main' = main /\ mode' = mode
                          /\ \E to \in Alive : proc' = [proc EXCEPT ![w] = to])
    BY DEF Load, TakeSignal, run, Alive
  <2>4. Dispatch(w) \/ QueueFull(w) \/ StartFlush(w) \/ Exit(w) \/ Killed(w) =>
          /\ proc[w] # "none" /\ main' = main /\ mode' = mode
          /\ proc' = proc \/ \E to \in Alive \cup Ended : proc' = [proc EXCEPT ![w] = to]
    BY DEF Dispatch, QueueFull, StartFlush, Exit, Killed, run, Alive, Ended
  <2>5. Publish(w) => /\ proc[w] # "none" /\ main' = main /\ mode' = mode
                      /\ proc' = [proc EXCEPT ![w] = "play"]
    BY DEF Publish, run
  <2>6. EndReplay(w) =>
          /\ proc[w] # "none" /\ mode' = mode
          /\ main' = main \/ (main = "solo" /\ main' = "done")
          /\ \E to \in Alive \cup Ended : proc' = [proc EXCEPT ![w] = to]
    BY DEF EndReplay, run, Alive, Ended
  <2>7. "play" \in Alive
    BY DEF Alive
  <2> QED
    BY <1>6, <2>1, <2>2, <2>3, <2>4, <2>5, <2>6, <2>7, SoloMoves DEF WorkerStep
<1>7. ASSUME NEW w \in Workers, NEW m \in unsent[w],
             Delivered(w, m) \/ Confirmed(w, m) \/ NotDelivered(w, m)
      PROVE  OnlySolo'
  <2>1. UNCHANGED <<mode, main, proc>>
    BY <1>7 DEF Delivered, Confirmed, NotDelivered, Polls, run
  <2> QED
    BY <1>1, <2>1
<1> QED
  BY <1>2, <1>3, <1>4, <1>5, <1>6, <1>7 DEF Next, Start, Broker

-----------------------------------------------------------------------------
\* What a run that has succeeded leaves.
Success == AllOfIt /\ OnlySolo /\ main = "done"

Strip(m) == [trip |-> m.trip, shift |-> m.shift, sample |-> m.sample]

\* A process that was used has brought all of its share to Kafka.
LEMMA ShareIsSent ==
  ASSUME Success, NEW w \in Workers, proc[w] = "exited"
  PROVE  /\ Share(w) = List(w) /\ Owed(w) = {m \in topic : m.by = w}
         /\ tally[w].planned + tally[w].skipped = Len(Share(w))
         /\ anchor \in Anchors(source)
<1>1. Share(w) = List(w)
  BY DEF Share, List
<1>2. /\ PlayInv(w) /\ StartInv /\ NothingInvented /\ unsent[w] = {} /\ errors[w] = FALSE
  BY DEF Success, AllOfIt, Invariants, CleanEnds
<1>3. /\ due[w] = {} /\ TodoFits(w) /\ DispatchFits(w) /\ Counted(w) /\ NothingForgotten(w)
      /\ anchor \in Anchors(source)
  BY <1>2 DEF PlayInv, Playing, StartInv
<1>4. Dispatches(w) = {}
  BY <1>3 DEF Dispatches
<1>5. todo[w] = <<>>
  BY <1>3, <1>4 DEF DispatchFits
<1>6. tally[w].planned + tally[w].skipped = Len(Share(w))
  <2>1. tally[w].planned \in Nat /\ tally[w].skipped \in Nat
    BY <1>3 DEF Counted
  <2>2. tally[w].planned + tally[w].skipped + Len(todo[w]) + 0 = Len(Share(w))
    BY <1>1, <1>3, <1>4 DEF Counted
  <2>3. Len(todo[w]) = 0
    BY <1>5
  <2> QED
    BY <2>1, <2>2, <2>3
<1>7. \A m \in Owed(w) : m \in topic /\ m.by = w
  <2>1. \A m \in Owed(w) : ~Comes(w, m)
    BY <1>3, <1>5 DEF Comes
  <2>2. \A m \in Owed(w) : m \in Sent(w)
    BY <1>2, <1>3, <2>1 DEF NothingForgotten
  <2> QED
    BY <1>2, <2>2 DEF Sent
<1>8. \A m \in topic : m.by = w => m \in Owed(w)
  BY <1>2 DEF NothingInvented
<1> QED
  BY <1>1, <1>3, <1>6, <1>7, <1>8

\* One that was not has nothing there.
LEMMA OthersAreQuiet ==
  ASSUME Success, NEW w \in Workers, proc[w] = "none"
  PROVE  /\ Share(w) = <<>> /\ Range(Share(w)) = {} /\ \A m \in topic : m.by # w
         /\ tally[w].planned + tally[w].skipped = Len(Share(w))
<1>1. Share(w) = <<>>
  BY DEF Share
<1>2. tally[w] = [planned |-> 0, skipped |-> 0, published |-> 0]
  BY DEF Success, AllOfIt, Invariants, StartInv, Unstarted
<1>3. \A m \in topic : m.by # w
  BY DEF Success, AllOfIt, Invariants, NothingInvented, Unstarted
<1> QED
  BY <1>1, <1>2, <1>3 DEF Range

\* Every trip is in the share of one process, and nothing else is.
LEMMA OnePlayer ==
  ASSUME Success
  PROVE  /\ anchor \in Anchors(source)
         /\ \A w \in Workers : Range(Share(w)) \subseteq Range(ParquetTrips[source][anchor])
         /\ \A p \in Range(ParquetTrips[source][anchor]) :
              \E w \in Workers : \A v \in Workers : p \in Range(Share(v)) <=> v = w
         /\ \A w \in Workers : proc[w] \in {"none", "exited"}
<1>1. /\ source \in Sources /\ mode \in Modes /\ Solo \in Workers
      /\ Modes \subseteq {"parallel", "prepared", "parquet"}
      /\ \A w \in Workers : proc[w] = "exited" \/ (proc[w] = "none" /\ mode # "parallel")
  BY ReplayAssumption DEF Success, AllOfIt, TypeOK, InputTyped, CleanEnds
<1>2. PICK x \in Workers : proc[x] = "exited"
  BY <1>1 DEF Success, OnlySolo
<1>3. anchor \in Anchors(source)
  BY <1>2, ShareIsSent
<1>4. /\ Range(PreparedTrips[source][anchor]) = Range(ParquetTrips[source][anchor])
      /\ \A w \in Workers : Range(OfWorker(PreparedTrips[source][anchor], w))
                              \subseteq Range(PreparedTrips[source][anchor])
      /\ \A p \in Range(PreparedTrips[source][anchor]) : \E w \in Workers :
           \A v \in Workers : p \in Range(OfWorker(PreparedTrips[source][anchor], v)) <=> v = w
  BY <1>1, <1>3, PlaylistsDivided DEF PlaylistsShared
<1>5. CASE mode = "parallel"
  <2>1. \A w \in Workers : Share(w) = OfWorker(PreparedTrips[source][anchor], w)
    BY <1>1, <1>5 DEF Share, Playlist
  <2> QED
    BY <1>1, <1>3, <1>4, <2>1
<1>6. CASE mode # "parallel"
  <2>1. proc[Solo] = "exited" /\ \A w \in Workers \ {Solo} : proc[w] = "none"
    BY <1>1, <1>6 DEF Success, OnlySolo
  <2>2. \A w \in Workers \ {Solo} : Range(Share(w)) = {}
    BY <2>1, OthersAreQuiet
  <2>3. Range(Share(Solo)) = Range(ParquetTrips[source][anchor])
    <3>1. Share(Solo) \in {PreparedTrips[source][anchor], ParquetTrips[source][anchor]}
      BY <1>1, <1>6, <2>1 DEF Share, Playlist
    <3> QED
      BY <1>4, <3>1
  <2> QED
    BY <1>1, <1>3, <2>1, <2>2, <2>3
<1> QED
  BY <1>5, <1>6

\* A trip of the source.
LEMMA TripsFit ==
  ASSUME source \in Sources, anchor \in Anchors(source),
         NEW p \in Range(ParquetTrips[source][anchor])
  PROVE  p \in [trip : Trips(source), shift : Nat]
<1> DEFINE list == ParquetTrips[source][anchor]
           Kind == [trip : Trips(source), shift : Nat]
<1>1. list \in Seq(Kind)
  BY PlaylistsOrdered DEF PlaylistsInOrder
<1>2. PICK k \in DOMAIN list : p = list[k]
  BY DEF Range
<1> HIDE DEF list, Kind
<1>3. list[k] \in Kind
  BY <1>1, <1>2
<1> QED
  BY <1>2, <1>3 DEF Kind

LEMMA TopicIsShared ==
  ASSUME Success, NEW m
  PROVE  m \in topic <=> /\ m \in Messages /\ Part(m) \in Range(Share(m.by))
                         /\ Plannable(m.trip, loaded[m.by])
                         /\ m.sample <= SampleCount(source[m.trip])
<1>1. ASSUME m \in topic
      PROVE  /\ m \in Messages /\ Part(m) \in Range(Share(m.by))
             /\ Plannable(m.trip, loaded[m.by]) /\ m.sample <= SampleCount(source[m.trip])
  <2>1. m.by \in Workers
    BY <1>1 DEF Success, AllOfIt, Invariants, NothingInvented
  <2>2. proc[m.by] = "exited"
    BY <1>1, <2>1, OnePlayer, OthersAreQuiet
  <2>3. m \in Owed(m.by) /\ Share(m.by) = List(m.by)
    BY <1>1, <2>1, <2>2, ShareIsSent
  <2> QED
    BY <2>3 DEF Owed
<1>2. ASSUME m \in Messages, Part(m) \in Range(Share(m.by)), Plannable(m.trip, loaded[m.by]),
             m.sample <= SampleCount(source[m.trip])
      PROVE  m \in topic
  <2>1. m.by \in Workers
    BY <1>2 DEF Messages
  <2>2. proc[m.by] = "exited"
    BY <1>2, <2>1, OnePlayer, OthersAreQuiet
  <2>3. Owed(m.by) = {n \in topic : n.by = m.by} /\ Share(m.by) = List(m.by)
    BY <2>1, <2>2, ShareIsSent
  <2>4. m \in Owed(m.by)
    BY <1>2, <2>3 DEF Owed
  <2> QED
    BY <2>3, <2>4
<1> QED
  BY <1>1, <1>2

\* The samples in Kafka are those that are expected, each once.
LEMMA TopicIsExpected ==
  ASSUME Success
  PROVE  /\ {Strip(m) : m \in topic} = Expected
         /\ Cardinality(topic) = Cardinality(Expected)
<1> DEFINE All == Range(ParquetTrips[source][anchor])
<1>1. /\ source \in Sources /\ anchor \in Anchors(source)
      /\ \A w \in Workers : Range(Share(w)) \subseteq All
      /\ \A p \in All : \E w \in Workers : \A v \in Workers : p \in Range(Share(v)) <=> v = w
      /\ \A p \in All : p \in [trip : Trips(source), shift : Nat]
  BY OnePlayer, TripsFit DEF Success, AllOfIt, TypeOK, InputTyped
<1>2. \A e : e \in Expected <=>
        \E p \in All : /\ \E w \in Workers : p \in Range(Share(w)) /\ Plannable(p.trip, loaded[w])
                       /\ \E k \in 1..SampleCount(source[p.trip]) :
                            e = [trip |-> p.trip, shift |-> p.shift, sample |-> k]
  BY DEF Expected
<1>3. \A t \in Trips(source) : SampleCount(source[t]) \in Nat \ {0}
  BY <1>1, Schedule
<1> HIDE DEF All
<1>4. ASSUME NEW m \in topic
      PROVE  Strip(m) \in Expected
  <2>1. /\ m \in Messages /\ Part(m) \in Range(Share(m.by)) /\ Plannable(m.trip, loaded[m.by])
        /\ m.sample <= SampleCount(source[m.trip])
    BY <1>4, TopicIsShared
  <2>2. m.by \in Workers /\ m.trip \in Trips(source) /\ m.sample \in Nat \ {0}
    BY <2>1 DEF Messages
  <2>3. Part(m) \in All
    BY <1>1, <2>1, <2>2
  <2>4. m.sample \in 1..SampleCount(source[m.trip])
    BY <1>3, <2>1, <2>2
  <2>5. Part(m).trip = m.trip /\ Part(m).shift = m.shift
    BY DEF Part
  <2>6. \E w \in Workers : Part(m) \in Range(Share(w)) /\ Plannable(Part(m).trip, loaded[w])
    BY <2>1, <2>2, <2>5
  <2>7. \E k \in 1..SampleCount(source[Part(m).trip]) :
          Strip(m) = [trip |-> Part(m).trip, shift |-> Part(m).shift, sample |-> k]
    BY <2>4, <2>5 DEF Strip
  <2> QED
    BY <1>2, <2>3, <2>6, <2>7
<1>5. ASSUME NEW e \in Expected
      PROVE  \E m \in topic : Strip(m) = e
  <2>1. PICK p \in All : /\ \E w \in Workers : p \in Range(Share(w)) /\ Plannable(p.trip, loaded[w])
                         /\ \E k \in 1..SampleCount(source[p.trip]) :
                              e = [trip |-> p.trip, shift |-> p.shift, sample |-> k]
    BY <1>2, <1>5
  <2>2. PICK k \in 1..SampleCount(source[p.trip]) :
          e = [trip |-> p.trip, shift |-> p.shift, sample |-> k]
    BY <2>1
  <2>3. PICK w \in Workers : p \in Range(Share(w)) /\ Plannable(p.trip, loaded[w])
    BY <2>1
  <2> DEFINE m == [by |-> w, trip |-> p.trip, shift |-> p.shift, sample |-> k]
  <2>4. p \in [trip : Trips(source), shift : Nat]
    BY <1>1
  <2>5. k \in Nat \ {0} /\ k <= SampleCount(source[p.trip])
    BY <1>3, <2>2, <2>4
  <2>6. m \in Messages
    BY <2>3, <2>4, <2>5 DEF Messages
  <2>7. /\ m.by = w /\ m.trip = p.trip /\ m.sample = k
        /\ Part(m) = [trip |-> p.trip, shift |-> p.shift] /\ Strip(m) = e
    BY <2>2 DEF Part, Strip
  <2>8. Part(m) = p
    BY <2>4, <2>7
  <2> HIDE DEF m
  <2>9. m \in topic
    BY <2>3, <2>5, <2>6, <2>7, <2>8, TopicIsShared
  <2> QED
    BY <2>7, <2>9
<1>6. ASSUME NEW m \in topic, NEW n \in topic, Strip(m) = Strip(n)
      PROVE  m = n
  <2>1. /\ m \in Messages /\ Part(m) \in Range(Share(m.by))
        /\ n \in Messages /\ Part(n) \in Range(Share(n.by))
    BY TopicIsShared
  <2>2. m.trip = n.trip /\ m.shift = n.shift /\ m.sample = n.sample
    BY <1>6 DEF Strip
  <2>3. Part(m) = Part(n)
    BY <2>2 DEF Part
  <2>4. m.by \in Workers /\ n.by \in Workers
    BY <2>1 DEF Messages
  <2>5. m.by = n.by
    BY <1>1, <2>1, <2>3, <2>4
  <2> QED
    BY <2>1, <2>2, <2>5 DEF Messages
<1>7. Cardinality(topic) = Cardinality(Expected)
  <2> DEFINE f == [m \in topic |-> Strip(m)]
  <2>1. f \in [topic -> Expected]
    BY <1>4
  <2>2. \A e \in Expected : \E m \in topic : f[m] = e
    BY <1>5
  <2>3. \A m, n \in topic : f[m] = f[n] => m = n
    BY <1>6
  <2>4. IsFiniteSet(topic)
    BY DEF Success, AllOfIt, Invariants, NothingInvented
  <2> HIDE DEF f
  <2>5. f \in Surjection(topic, Expected) /\ f \in Injection(topic, Expected)
    BY <2>1, <2>2, <2>3 DEF Surjection, Injection, IsInjective
  <2> QED
    BY <2>4, <2>5, FS_Surjection
<1> QED
  BY <1>4, <1>5, <1>7

\* Success means that the replay is whole, for any files and anchors, any sample,
\* any number of workers, any shards and any queue limit.
THEOREM SuccessIsWhole == Spec => []SuccessIsComplete
<1> DEFINE IInv == AllOfIt /\ OnlySolo
<1>1. IInv => SuccessIsComplete
  <2> SUFFICES ASSUME IInv, main = "done" PROVE SuccessIsComplete
    BY DEF SuccessIsComplete
  <2>1. Success
    BY DEF Success
  <2>2. \A w \in Workers : tally[w].planned + tally[w].skipped = Len(Share(w))
    BY <2>1, OnePlayer, ShareIsSent, OthersAreQuiet
  <2> QED
    BY <2>1, <2>2, OnePlayer, TopicIsExpected DEF SuccessIsComplete, Strip
<1>2. Init => IInv
  BY AllInit, SoloInit
<1>3. IInv /\ [Next]_vars => IInv'
  BY AllStep, SoloStep DEF AllOfIt, TypeOK
<1> QED
  BY <1>1, <1>2, <1>3, PTL DEF Spec
=============================================================================
