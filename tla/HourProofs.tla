----------------------------- MODULE HourProofs -----------------------------
(***************************************************************************)
(* An hour of the batch path: how its partitions are replaced, and what    *)
(* they hold.                                                              *)
(*                                                                         *)
(* On a file system whose rename and recursive delete are single steps,    *)
(* the swap of PartitionReplace keeps every promise for any number of      *)
(* results, part files, failures and retries, for each of the three        *)
(* writers.  For any rows, roads and rules, the tables of HourData hold    *)
(* every row once, the best road of every sample, every episode once, and  *)
(* scores between the least and the greatest they are made from.           *)
(***************************************************************************)
EXTENDS PartitionReplace, HourData, FiniteSetTheorems, TLAPS

-----------------------------------------------------------------------------
(***************************************************************************)
(* The swap of an hour's partition.                                        *)
(***************************************************************************)
\* The result of a call is either empty or has objects: a whole result is
\* never mistaken for a missing path.
LEMMA CompleteFacts ==
  ASSUME NEW v \in Versions \cup {NoVersion}
  PROVE  /\ Complete(v) \in SUBSET Objects
         /\ IsFiniteSet(Complete(v))
         /\ v # NoVersion => Complete(v) \in WholeContents /\ Complete(v) # {}
         /\ Complete(v) \in WholeContents \cup {{}}
<1>1. CASE v = NoVersion
  BY <1>1, FS_EmptySet DEF Complete, Objects
<1>2. CASE v # NoVersion
  <2>1. v \in Versions /\ Complete(v) = {v} \X Parts
    BY <1>2 DEF Complete
  <2>2. IsFiniteSet({v} \X Parts)
    BY PartsAssumption, FS_Product, FS_Singleton
  <2>3. PICK p \in Parts : TRUE
    BY PartsAssumption
  <2>4. <<v, p>> \in {v} \X Parts
    OBVIOUS
  <2> QED
    BY <1>2, <2>1, <2>2, <2>4 DEF Objects, WholeContents
<1> QED
  BY <1>1, <1>2

-----------------------------------------------------------------------------
(***************************************************************************)
(* Any file system.  A rename may stop half-way, so nothing is known about *)
(* final and backup between calls; but a call that gets to its end has     *)
(* moved every object it had to.                                           *)
(***************************************************************************)

\* What the read-back established stays true until the staged result is in.
StagedWhole ==
  /\ pc = "verify" => staging \subseteq Complete(version)
  /\ (pc = "withdraw" \/ (~RecoversFirst /\ pc \in {"recover", "restore", "dropStale"}))
       => staging = Complete(version) /\ (version = NoVersion => AllowsEmpty)
  /\ pc = "promote" => final \cup staging = Complete(version) /\ version # NoVersion

\* The old copy is where the swap believes it to be.
OldCopy ==
  /\ RecoversFirst /\ pc \in {"clean", "stage", "verify"} => backup = {}
  /\ pc = "withdraw" /\ final = {} => backup = {}
  /\ pc = "promote" => hadExisting \/ backup = {}

\* How a call ends.
Ending ==
  /\ pc = "discard" => final = Complete(version) /\ (version = NoVersion => AllowsEmpty)
  /\ pc = "rollback" => result = "raised"
  /\ pc \in {"cleanup", "idle"} /\ result = "ok" => final = Complete(version) /\ backup = {}

Inv == TypeOK /\ StagedWhole /\ OldCopy /\ Ending

\* Initially no call is running and the hour is whole.
LEMMA InitInv == Init => Inv
<1> SUFFICES ASSUME Init PROVE Inv
  OBVIOUS
<1>1. PICK v \in Versions \cup {NoVersion} : version = v /\ final = Complete(v)
  BY DEF Init
<1>2. final \in SUBSET Objects
  BY <1>1, CompleteFacts
<1> QED
  BY <1>1, <1>2 DEF Init, Inv, TypeOK, StagedWhole, OldCopy, Ending, PCs

\* Where an exception leads is a place of the program.
LEMMA HandlerFacts ==
  /\ Handler \in {"rollback", "cleanup", "idle"}
  /\ Handler = "rollback" => pc \in {"withdraw", "promote"} /\ hadExisting
BY Zenon DEF Handler

\* A step of a rename loses no object, and the last one leaves the source empty.
LEMMA MoveFacts ==
  ASSUME NEW src, NEW dst, NEW m \in MoveSteps(src, dst)
  PROVE  m[1] \cup m[2] = src \cup dst
BY AtomicFsAssumption DEF MoveSteps

\* A step of a delete only removes objects.
LEMMA DeleteFacts ==
  ASSUME NEW path, NEW left \in DeleteSteps(path)
  PROVE  left \subseteq path
BY DEF DeleteSteps

\* What the steps of the swap's renames keep.
LEMMA MoveKeeps ==
  /\ Restore \/ Rollback \/ Withdraw => final' \cup backup' = final \cup backup
  /\ Promote => final' \cup staging' = final \cup staging
<1>1. ASSUME Restore \/ Rollback
      PROVE  final' \cup backup' = final \cup backup
  <2>1. PICK m \in MoveSteps(backup, final) : backup' = m[1] /\ final' = m[2]
    BY <1>1 DEF Restore, Rollback
  <2> QED
    BY <2>1, MoveFacts
<1>2. ASSUME Withdraw
      PROVE  final' \cup backup' = final \cup backup
  <2>1. PICK m \in MoveSteps(final, backup) : final' = m[1] /\ backup' = m[2]
    BY <1>2 DEF Withdraw
  <2> QED
    BY <2>1, MoveFacts
<1>3. ASSUME Promote
      PROVE  final' \cup staging' = final \cup staging
  <2>1. PICK m \in MoveSteps(staging, final) : staging' = m[1] /\ final' = m[2]
    BY <1>3 DEF Promote
  <2> QED
    BY <2>1, MoveFacts
<1> QED
  BY <1>1, <1>2, <1>3

\* The invariant is inductive: one step per action of Next.
LEMMA InvStep == Inv /\ [Next]_vars => Inv'
<1> SUFFICES ASSUME Inv, [Next]_vars
             PROVE  Inv'
  OBVIOUS
<1> USE DEF Inv, TypeOK, StagedWhole, OldCopy, Ending, PCs, paths, RecoversFirst, AllowsEmpty
<1>0. Complete(version) \in SUBSET Objects /\ (version = NoVersion => Complete(version) = {})
  BY CompleteFacts DEF Complete
<1>1. ASSUME NEW v \in Versions \cup {NoVersion}, Begin(v)
      PROVE  Inv'
  BY <1>1 DEF Begin
<1>18. CASE RefuseEmpty
  BY <1>18 DEF RefuseEmpty
<1>2. CASE Clean
  BY <1>2, DeleteFacts DEF Clean, Proceed
<1>3. CASE Stage
  BY <1>3, <1>0 DEF Stage
<1>4. CASE StagePartially
  BY <1>4, <1>0 DEF StagePartially
<1>5. CASE Verify
  <2>1. CASE ReadBackOK
    <3>1. staging = Complete(version)
      BY <1>5, <2>1, CompleteFacts, FS_Subset DEF Verify, ReadBackOK
    <3> QED
      BY <1>5, <2>1, <3>1 DEF Verify, ReadBackOK
  <2>2. CASE ~ReadBackOK
    BY <1>5, <2>2 DEF Verify
  <2> QED
    BY <2>1, <2>2
<1>6. CASE Recover
  BY <1>6 DEF Recover, AfterRecovery
<1>7. CASE Restore
  BY <1>7, MoveKeeps DEF Restore, Proceed, AfterRecovery
<1>8. CASE DropStale
  BY <1>8, DeleteFacts DEF DropStale, Proceed, AfterRecovery
<1>9. CASE Withdraw
  <2>1. final' \cup backup' = final \cup backup
    BY <1>9, MoveKeeps
  <2>2. hadExisting' = (final' = {}) /\ UNCHANGED <<staging, version, result>>
    BY <1>9 DEF Withdraw
  <2>3. pc' = IF final' = {} THEN AfterWithdraw(TRUE) ELSE pc
    BY <1>9 DEF Withdraw, Proceed
  <2> QED
    BY <1>9, <1>0, <2>1, <2>2, <2>3 DEF Withdraw, AfterWithdraw
<1>10. CASE NothingToWithdraw
  BY <1>10, <1>0 DEF NothingToWithdraw, AfterWithdraw
<1>11. CASE Promote
  BY <1>11, <1>0, MoveKeeps DEF Promote, Proceed
<1>12. CASE Discard
  BY <1>12, DeleteFacts DEF Discard, Proceed
<1>13. CASE Rollback
  BY <1>13, MoveKeeps DEF Rollback, Proceed
<1>14. CASE Cleanup
  BY <1>14, DeleteFacts DEF Cleanup, Proceed
<1>15. CASE Fault
  <2>1. /\ pc' = Handler /\ result' = "raised"
        /\ UNCHANGED <<paths, version, writer, hadExisting>>
    BY <1>15 DEF Fault, Raise
  <2> QED
    BY <2>1, HandlerFacts
<1>16. CASE Crash
  BY <1>16 DEF Crash, Raise
<1>17. CASE UNCHANGED vars
  BY <1>17 DEF vars
<1> QED
  BY <1>1, <1>2, <1>3, <1>4, <1>5, <1>6, <1>7, <1>8, <1>9, <1>10, <1>11, <1>12,
     <1>13, <1>14, <1>15, <1>16, <1>17, <1>18 DEF Next, Attempt, Step, Failure

\* The inductive invariant holds in every reachable state.
LEMMA Invariance == Spec => []Inv
<1> QED
  BY InitInv, InvStep, PTL DEF Spec

\* Type correctness of the partition swap.
THEOREM TypeCorrect == Spec => []TypeOK
<1>1. Inv => TypeOK
  BY DEF Inv
<1> QED
  BY <1>1, Invariance, PTL

\* On any file system, S3 included, a write_* call that returns has replaced
\* the hour by exactly its own result, whatever failed calls left before it.
THEOREM SuccessSafe == Spec => []SuccessMeansPublished
<1>1. Inv => SuccessMeansPublished
  BY DEF Inv, Ending, SuccessMeansPublished
<1> QED
  BY <1>1, Invariance, PTL

-----------------------------------------------------------------------------
(***************************************************************************)
(* A file system whose rename and recursive delete are single steps.       *)
(***************************************************************************)
BothWhole ==
  /\ final \in WholeContents \cup {{}}
  /\ backup \in WholeContents \cup {{}}

OneCopy ==
  /\ pc \in {"clean", "stage", "verify", "recover", "restore", "dropStale", "withdraw"}
       => ~hadExisting
  /\ pc = "withdraw" => backup = {}
  /\ pc = "dropStale" => final # {}
  /\ pc \in {"restore", "promote", "rollback"} => final = {}

AtomicInv == BothWhole /\ OneCopy

\* On an atomic file system a rename or delete is over in one step.
LEMMA AtomicSteps ==
  ASSUME AtomicFs, NEW src, NEW dst
  PROVE  /\ \A m \in MoveSteps(src, dst) : m[1] = {} /\ m[2] = dst \cup src
         /\ DeleteSteps(src) = {{}}
<1>1. MoveSteps(src, dst) = {<<{}, dst \cup src>>}
  BY DEF MoveSteps
<1> QED
  BY <1>1 DEF DeleteSteps

\* What the renames of the swap do to the three paths then.
LEMMA MoveEffects ==
  ASSUME AtomicFs
  PROVE  /\ Restore \/ Rollback => backup' = {} /\ final' = final \cup backup
         /\ Withdraw => final' = {} /\ backup' = backup \cup final
         /\ Promote => staging' = {} /\ final' = final \cup staging
<1>1. ASSUME NEW src, NEW dst, NEW m \in MoveSteps(src, dst)
      PROVE  m[1] = {} /\ m[2] = dst \cup src
  BY AtomicSteps
<1>2. ASSUME Restore \/ Rollback
      PROVE  backup' = {} /\ final' = final \cup backup
  <2>1. PICK m \in MoveSteps(backup, final) : backup' = m[1] /\ final' = m[2]
    BY <1>2 DEF Restore, Rollback
  <2> QED
    BY <2>1, <1>1
<1>3. ASSUME Withdraw
      PROVE  final' = {} /\ backup' = backup \cup final
  <2>1. PICK m \in MoveSteps(final, backup) : final' = m[1] /\ backup' = m[2]
    BY <1>3 DEF Withdraw
  <2> QED
    BY <2>1, <1>1
<1>4. ASSUME Promote
      PROVE  staging' = {} /\ final' = final \cup staging
  <2>1. PICK m \in MoveSteps(staging, final) : staging' = m[1] /\ final' = m[2]
    BY <1>4 DEF Promote
  <2> QED
    BY <2>1, <1>1
<1> QED
  BY <1>2, <1>3, <1>4

\* Initially there is one copy of the hour.
LEMMA AtomicInit == Init => AtomicInv
<1> SUFFICES ASSUME Init PROVE AtomicInv
  OBVIOUS
<1>1. PICK v \in Versions \cup {NoVersion} : version = v /\ final = Complete(v)
  BY DEF Init
<1> QED
  BY <1>1, CompleteFacts DEF Init, AtomicInv, BothWhole, OneCopy

\* The second invariant is inductive relative to the first.
LEMMA AtomicStep ==
  ASSUME AtomicFs
  PROVE  Inv /\ AtomicInv /\ [Next]_vars => AtomicInv'
<1> SUFFICES ASSUME Inv, AtomicInv, [Next]_vars
             PROVE  AtomicInv'
  OBVIOUS
<1> USE DEF Inv, AtomicInv, TypeOK, BothWhole, OneCopy, paths
<1>1. ASSUME NEW v \in Versions \cup {NoVersion}, Begin(v)
      PROVE  AtomicInv'
  BY <1>1 DEF Begin
<1>15. CASE RefuseEmpty
  BY <1>15 DEF RefuseEmpty
<1>2. CASE Clean \/ Cleanup \/ Discard
  <2>1. CASE Clean
    BY <2>1 DEF Clean, Proceed
  <2>2. CASE Cleanup
    BY <2>2 DEF Cleanup, Proceed
  <2>3. CASE Discard
    <3>1. backup' = {}
      BY <2>3, AtomicSteps DEF Discard
    <3> QED
      BY <2>3, <3>1 DEF Discard, Proceed
  <2> QED
    BY <1>2, <2>1, <2>2, <2>3
<1>3. CASE Stage \/ StagePartially
  BY <1>3 DEF Stage, StagePartially
<1>4. CASE Verify
  BY <1>4 DEF Verify, OldCopy
<1>5. CASE Recover
  BY <1>5 DEF Recover, AfterRecovery
<1>6. CASE Restore
  BY <1>6, MoveEffects DEF Restore, Proceed, AfterRecovery
<1>7. CASE DropStale
  BY <1>7, AtomicSteps DEF DropStale, Proceed, AfterRecovery
<1>8. CASE Withdraw
  BY <1>8, MoveEffects DEF Withdraw, Proceed, AfterWithdraw
<1>9. CASE NothingToWithdraw
  BY <1>9 DEF NothingToWithdraw, AfterWithdraw
<1>10. CASE Promote
  BY <1>10, MoveEffects, CompleteFacts DEF Promote, Proceed, StagedWhole
<1>11. CASE Rollback
  BY <1>11, MoveEffects DEF Rollback, Proceed
<1>12. CASE Fault
  <2>1. pc' = Handler /\ UNCHANGED <<paths, version, writer, hadExisting>>
    BY <1>12 DEF Fault, Raise
  <2> QED
    BY <2>1, HandlerFacts
<1>13. CASE Crash
  BY <1>13 DEF Crash, Raise
<1>14. CASE UNCHANGED vars
  BY <1>14 DEF vars
<1> QED
  BY <1>1, <1>2, <1>3, <1>4, <1>5, <1>6, <1>7, <1>8, <1>9, <1>10, <1>11, <1>12,
     <1>13, <1>14, <1>15 DEF Next, Attempt, Step, Failure

\* Both invariants hold in every reachable state.
LEMMA AtomicInvariance == ASSUME AtomicFs PROVE Spec => [](Inv /\ AtomicInv)
<1>1. Inv /\ AtomicInv /\ [Next]_vars => AtomicInv'
  BY AtomicStep
<1> QED
  BY <1>1, AtomicInit, Invariance, PTL DEF Spec

\* On an atomic file system the swap never lets a reader of the hour list a
\* part of a result.
THEOREM ReaderSafe == ASSUME AtomicFs PROVE Spec => []ReaderSeesWholeHour
<1>1. AtomicInv => ReaderSeesWholeHour
  BY DEF AtomicInv, BothWhole, ReaderSeesWholeHour
<1> QED
  BY <1>1, AtomicInvariance, PTL

-----------------------------------------------------------------------------
\* The initial states of the swap are initial states of the promise.
LEMMA InitRefines == Init => HP!Init
<1> USE DEF AllowsEmpty
<1> SUFFICES ASSUME Init PROVE HP!Init
  OBVIOUS
<1>1. PICK v \in Versions \cup {NoVersion} : final = Complete(v)
  BY DEF Init
<1>2. final \in WholeContents \cup {{}} /\ backup = {}
  BY <1>1, CompleteFacts DEF Init
<1> QED
  BY <1>2 DEF HP!Init

\* Every step of the swap hides, shows, publishes or removes the whole hour,
\* or changes nothing a reader or a retry can tell.
LEMMA StepRefines ==
  ASSUME AtomicFs
  PROVE  Inv /\ AtomicInv /\ [Next]_vars => [HP!Next]_(HP!vars)
<1> SUFFICES ASSUME Inv, AtomicInv, [Next]_vars
             PROVE  [HP!Next]_(HP!vars)
  OBVIOUS
<1> USE DEF HP!vars, HP!Next, AllowsEmpty
<1>0. writer' = writer
  BY DEF Next, Attempt, Step, Failure, vars, Begin, RefuseEmpty, Clean, Stage, StagePartially,
     Verify, Recover, Restore, DropStale, Withdraw, NothingToWithdraw, Promote,
     Discard, Rollback, Cleanup, Fault, Crash
<1>1. CASE UNCHANGED <<final, backup>>
  BY <1>0, <1>1
<1>2. CASE Restore
  <2>1. final = {} /\ backup' = {} /\ final' = backup
    BY <1>2, MoveEffects DEF Restore, AtomicInv, OneCopy
  <2> QED
    BY <1>0, <2>1 DEF HP!Restore
<1>3. CASE Rollback
  <2>1. final = {} /\ backup' = {} /\ final' = backup
    BY <1>3, MoveEffects DEF Rollback, AtomicInv, OneCopy
  <2> QED
    BY <1>0, <2>1 DEF HP!Restore
<1>4. CASE DropStale
  <2>1. final # {} /\ final' = final
    BY <1>4 DEF DropStale, AtomicInv, OneCopy
  <2> QED
    BY <1>0, <2>1
<1>5. CASE Withdraw
  <2>1. final # {} /\ backup = {} /\ final' = {} /\ backup' = final
    BY <1>5, MoveEffects DEF Withdraw, AtomicInv, OneCopy
  <2> QED
    BY <1>0, <2>1 DEF HP!Withdraw
<1>6. CASE Promote
  <2>1. final = {} /\ final' = Complete(version)
    BY <1>6, MoveEffects DEF Promote, Inv, StagedWhole, AtomicInv, OneCopy
  <2>2. Complete(version) \in WholeContents /\ Complete(version) # {}
    BY <1>6, CompleteFacts DEF Promote, Inv, TypeOK, StagedWhole
  <2> QED
    BY <1>0, <2>1, <2>2 DEF HP!Publish
<1>7. CASE Discard
  <2>1. final' = final /\ backup' = {}
    BY <1>7, AtomicSteps DEF Discard
  <2>2. final = {} => AllowsEmpty
    BY <1>7, CompleteFacts DEF Discard, Inv, TypeOK, Ending
  <2> QED
    BY <1>0, <2>1, <2>2 DEF HP!Remove
<1> QED
  BY <1>1, <1>2, <1>3, <1>4, <1>5, <1>6, <1>7
  DEF Next, Attempt, Step, Failure, vars, paths, Begin, RefuseEmpty, Clean, Stage, StagePartially,
      Verify, Recover, NothingToWithdraw, Cleanup, Fault, Crash

\* PartitionReplace implements HourPartition: the hour is one register that is
\* replaced in one step, hidden while it is, and never lost.
THEOREM Refinement == ASSUME AtomicFs PROVE Spec => ImplementsHourPartition
<1>1. Inv /\ AtomicInv /\ [Next]_vars => [HP!Next]_(HP!vars)
  BY StepRefines
<1> QED
  BY <1>1, InitRefines, AtomicInvariance, PTL DEF Spec, HP!Spec, ImplementsHourPartition

WF == INSTANCE WellFoundedInduction

-----------------------------------------------------------------------------
(***************************************************************************)
(* Least elements, and counting along an order.                            *)
(***************************************************************************)
LEMMA Smallest ==
  ASSUME NEW T, T \subseteq Nat, T # {}
  PROVE  \E x \in T : \A y \in T : x <= y
<1>1. PICK x \in T : \A y \in T : ~ (<<y, x>> \in WF!OpToRel(<, Nat))
  BY WF!NatLessThanWellFounded, WF!WFMin
<1>2. \A y \in T : ~(y < x)
  BY <1>1 DEF WF!OpToRel
<1> QED
  BY <1>2

\* R is a strict partial order on S.
Orders(R, S) ==
  /\ \A a \in S : <<a, a>> \notin R
  /\ \A a, b, c \in S : <<a, b>> \in R /\ <<b, c>> \in R => <<a, c>> \in R

\* How many elements of S come before a.
Rank(R, S, a) == Cardinality({b \in S : <<b, a>> \in R})

LEMMA RankTyped ==
  ASSUME NEW S, IsFiniteSet(S), NEW R, Orders(R, S), NEW a \in S
  PROVE  Rank(R, S, a) \in 0..(Cardinality(S) - 1)
<1> DEFINE Less == {b \in S : <<b, a>> \in R}
<1>1. Less \subseteq S \ {a}
  BY DEF Orders
<1>2. IsFiniteSet(S \ {a}) /\ Cardinality(S \ {a}) = Cardinality(S) - 1
  BY FS_RemoveElement
<1>3. IsFiniteSet(Less) /\ Cardinality(Less) <= Cardinality(S \ {a})
  BY <1>1, <1>2, FS_Subset
<1> QED
  BY <1>2, <1>3, FS_CardinalityType DEF Rank

LEMMA RankGrows ==
  ASSUME NEW S, IsFiniteSet(S), NEW R, Orders(R, S), NEW a \in S, NEW b \in S, <<a, b>> \in R
  PROVE  Rank(R, S, a) < Rank(R, S, b)
<1> DEFINE A == {c \in S : <<c, a>> \in R}
           B == {c \in S : <<c, b>> \in R}
<1>1. A \subseteq B
  BY DEF Orders
<1>2. a \in B /\ a \notin A
  BY DEF Orders
<1>3. IsFiniteSet(A) /\ IsFiniteSet(B)
  BY FS_Subset
<1>4. Cardinality(A) <= Cardinality(B) /\ Cardinality(A) # Cardinality(B)
  BY <1>1, <1>2, <1>3, FS_Subset
<1> QED
  BY <1>3, <1>4, FS_CardinalityType DEF Rank

\* A finite set has an element before which nothing comes.
LEMMA FirstOf ==
  ASSUME NEW S, IsFiniteSet(S), S # {}, NEW R, Orders(R, S)
  PROVE  \E a \in S : \A b \in S : <<b, a>> \notin R
<1> DEFINE T == {Rank(R, S, a) : a \in S}
<1>1. T \subseteq Nat /\ T # {}
  BY RankTyped
<1>2. PICK n \in T : \A m \in T : n <= m
  BY <1>1, Smallest
<1>3. PICK a \in S : n = Rank(R, S, a)
  BY <1>2
<1>4. ASSUME NEW b \in S, <<b, a>> \in R
      PROVE  FALSE
  <2>1. Rank(R, S, b) < Rank(R, S, a)
    BY <1>4, RankGrows
  <2>2. Rank(R, S, b) \in T
    OBVIOUS
  <2> QED
    BY <1>1, <1>2, <1>3, <2>1, <2>2
<1> QED
  BY <1>4

\* A strict total order of a finite set numbers it.
LEMMA Numbered ==
  ASSUME NEW S, IsFiniteSet(S), NEW R, Orders(R, S),
         \A a, b \in S : a = b \/ <<a, b>> \in R \/ <<b, a>> \in R,
         NEW n \in 0..(Cardinality(S) - 1)
  PROVE  \E a \in S : Rank(R, S, a) = n /\ \A b \in S : Rank(R, S, b) = n => b = a
<1> DEFINE f == [a \in S |-> Rank(R, S, a)]
           N == 0..(Cardinality(S) - 1)
<1>1. Cardinality(S) \in Nat
  BY FS_CardinalityType
<1>2. \A a, b \in S : f[a] = f[b] => a = b
  <2> SUFFICES ASSUME NEW a \in S, NEW b \in S, f[a] = f[b], a # b PROVE FALSE
    OBVIOUS
  <2>1. Rank(R, S, a) \in Nat /\ Rank(R, S, b) \in Nat
    BY RankTyped
  <2>2. Rank(R, S, a) < Rank(R, S, b) \/ Rank(R, S, b) < Rank(R, S, a)
    BY RankGrows
  <2> QED
    BY <2>1, <2>2
<1>3. f \in Injection(S, N)
  BY <1>2, RankTyped DEF Injection, IsInjective
<1>4. IsFiniteSet(N) /\ Cardinality(N) = Cardinality(S)
  BY <1>1, FS_Interval
<1>5. f \in Surjection(S, N)
  BY <1>3, <1>4, FS_Injection
<1> QED
  BY <1>2, <1>5 DEF Surjection

LEMMA ImageFinite ==
  ASSUME NEW S, IsFiniteSet(S), NEW f
  PROVE  IsFiniteSet({f[x] : x \in S}) /\ Cardinality({f[x] : x \in S}) <= Cardinality(S)
<1> DEFINE T == {f[x] : x \in S}
           g == [x \in S |-> f[x]]
<1>1. g \in Surjection(S, T)
  BY DEF Surjection
<1> HIDE DEF T, g
<1>2. IsFiniteSet(T) /\ Cardinality(T) <= Cardinality(S)
  BY <1>1, FS_Surjection
<1> QED
  BY <1>2 DEF T

-----------------------------------------------------------------------------
(***************************************************************************)
(* Map matching: the candidates of a row in reach of the radius have a     *)
(* best one, and nothing beats it.                                         *)
(***************************************************************************)
MatchRow(row) == row.heading \in Int \cup {NULL} /\ row.place \in Places

UsableRoad(road) ==
  /\ road.bearing \in Int /\ road.segment \in Int
  /\ \A place \in Places : Distance[place][road.segment] \in Nat

LEMMA BearingTyped ==
  ASSUME NEW road, UsableRoad(road), NEW heading
  PROVE  RoadBearing(road, heading) \in Int \cup {NULL}
<1>1. (road.bearing + 180) % 360 \in Int
  BY DEF UsableRoad
<1> QED
  BY <1>1 DEF RoadBearing, Reverse180, UsableRoad

LEMMA DiffTyped ==
  ASSUME NEW a \in Int, NEW b \in Int
  PROVE  HeadingDiff(a, b) \in Nat
<1>1. (a - b + 180) % 360 \in Int
  OBVIOUS
<1> QED
  BY <1>1 DEF HeadingDiff, Size

LEMMA ScoreTyped ==
  ASSUME NEW row, MatchRow(row), NEW road, UsableRoad(road)
  PROVE  /\ DistanceOf(row, road) \in Nat
         /\ HeadingDiffOf(row, road) \in Nat \cup {NULL}
         /\ MatchScore(row, road) \in Int
<1>1. DistanceOf(row, road) \in Nat
  BY DEF DistanceOf, MatchRow, UsableRoad
<1>2. HeadingDiffOf(row, road) \in Nat \cup {NULL}
  BY BearingTyped, DiffTyped DEF HeadingDiffOf, MatchRow
<1>3. Radius \in Nat /\ DistanceWeight \in Nat /\ HeadingWeight \in Nat
  BY MatchingAssumption
<1> DEFINE near == Radius - DistanceOf(row, road)
           diff == HeadingDiffOf(row, road)
<1>4. near \in Int
  BY <1>1, <1>3
<1>5. diff # NULL => DistanceWeight * 180 * near + HeadingWeight * Radius * (180 - diff) \in Int
  <2> HIDE DEF near, diff
  <2> SUFFICES ASSUME diff # NULL
               PROVE  DistanceWeight * 180 * near + HeadingWeight * Radius * (180 - diff) \in Int
    OBVIOUS
  <2>1. diff \in Int
    BY <1>2 DEF diff
  <2> QED
    BY <1>3, <1>4, <2>1
<1>6. 100 * 180 * near \in Int
  BY <1>4
<1>7. MatchScore(row, road) = IF diff = NULL THEN 100 * 180 * near
        ELSE DistanceWeight * 180 * near + HeadingWeight * Radius * (180 - diff)
  BY DEF MatchScore
<1> QED
  BY <1>1, <1>2, <1>5, <1>6, <1>7

\* The order of the candidates is strict: no candidate comes before itself, and
\* coming before is transitive, with or without headings.
LEMMA BeforeOrders ==
  ASSUME NEW row, MatchRow(row), NEW S, \A road \in S : UsableRoad(road)
  PROVE  Orders({p \in S \X S : Before(row, p[1], p[2])}, S)
<1> DEFINE R == {p \in S \X S : Before(row, p[1], p[2])}
<1>1. \A a, b \in S : <<a, b>> \in R <=> Before(row, a, b)
  OBVIOUS
<1>2. \A a \in S : /\ DistanceOf(row, a) \in Nat
                   /\ HeadingDiffOf(row, a) \in Nat \cup {NULL}
                   /\ MatchScore(row, a) \in Int
                   /\ a.segment \in Int
  BY ScoreTyped DEF UsableRoad
<1>3. NULL \notin Nat
  BY CleansingAssumption
<1>4. \A a \in S : ~Before(row, a, a)
  BY <1>2, <1>3 DEF Before
<1>5. ASSUME NEW a \in S, NEW b \in S, NEW c \in S, Before(row, a, b), Before(row, b, c)
      PROVE  Before(row, a, c)
  <2>1. /\ DistanceOf(row, a) \in Nat /\ MatchScore(row, a) \in Int /\ a.segment \in Int
        /\ DistanceOf(row, b) \in Nat /\ MatchScore(row, b) \in Int /\ b.segment \in Int
        /\ DistanceOf(row, c) \in Nat /\ MatchScore(row, c) \in Int /\ c.segment \in Int
        /\ HeadingDiffOf(row, a) \in Nat \cup {NULL}
        /\ HeadingDiffOf(row, b) \in Nat \cup {NULL}
        /\ HeadingDiffOf(row, c) \in Nat \cup {NULL}
    BY <1>2
  <2> QED
    BY <1>3, <1>5, <2>1 DEF Before
<1>6. \A a \in S : <<a, a>> \notin R
  BY <1>1, <1>4
<1>7. \A a, b, c \in S : <<a, b>> \in R /\ <<b, c>> \in R => <<a, c>> \in R
  BY <1>1, <1>5
<1> HIDE DEF R
<1>8. Orders(R, S)
  BY <1>6, <1>7 DEF Orders
<1> QED
  BY <1>8 DEF R

\* Smaller factors make smaller products.
LEMMA Products ==
  ASSUME NEW w \in Nat, NEW a \in Int, NEW b \in Int, a <= b
  PROVE  w * a <= w * b /\ (a < b /\ w # 0 => w * a < w * b)
OBVIOUS

\* A road that fits better comes before, whatever the weights.
LEMMA BetterComesBefore ==
  ASSUME NEW row, MatchRow(row), NEW a, UsableRoad(a), NEW b, UsableRoad(b), Beats(row, a, b)
  PROVE  Before(row, a, b)
<1>1. /\ DistanceOf(row, a) \in Nat /\ MatchScore(row, a) \in Int
      /\ DistanceOf(row, b) \in Nat /\ MatchScore(row, b) \in Int
  BY ScoreTyped
<1>4. CASE /\ DistanceOf(row, a) = DistanceOf(row, b)
           /\ HeadingDiffOf(row, a) = HeadingDiffOf(row, b)
           /\ a.segment < b.segment
  <2>1. MatchScore(row, a) = MatchScore(row, b)
    BY <1>4 DEF MatchScore
  <2> QED
    BY <1>4, <2>1 DEF Before
<1>2. CASE row.heading = NULL /\ DistanceOf(row, a) < DistanceOf(row, b)
  <2>1. HeadingDiffOf(row, a) = NULL /\ HeadingDiffOf(row, b) = NULL
    BY <1>2 DEF HeadingDiffOf
  <2>2. DistanceOf(row, a) < DistanceOf(row, b)
    BY <1>2
  <2>3. /\ MatchScore(row, a) = 100 * 180 * (Radius - DistanceOf(row, a))
        /\ MatchScore(row, b) = 100 * 180 * (Radius - DistanceOf(row, b))
    BY <2>1 DEF MatchScore
  <2>4. MatchScore(row, a) > MatchScore(row, b)
    BY <1>1, <2>2, <2>3, MatchingAssumption
  <2> QED
    BY <2>4 DEF Before
<1>3. CASE /\ HeadingDiffOf(row, a) # NULL /\ HeadingDiffOf(row, b) # NULL
           /\ DistanceOf(row, a) <= DistanceOf(row, b)
           /\ HeadingDiffOf(row, a) <= HeadingDiffOf(row, b)
           /\ \/ DistanceOf(row, a) < DistanceOf(row, b)
              \/ HeadingDiffOf(row, a) < HeadingDiffOf(row, b)
  <2> DEFINE da == DistanceOf(row, a)
             db == DistanceOf(row, b)
             ha == HeadingDiffOf(row, a)
             hb == HeadingDiffOf(row, b)
             w == DistanceWeight * 180
             v == HeadingWeight * Radius
  <2>1. /\ ha # NULL /\ hb # NULL /\ da <= db /\ ha <= hb
        /\ da < db \/ ha < hb
    BY <1>3
  <2>2. ha \in Nat /\ hb \in Nat
    BY <2>1, ScoreTyped
  <2>3. w \in Nat /\ v \in Nat
    BY MatchingAssumption
  <2>4. /\ MatchScore(row, a) = w * (Radius - da) + v * (180 - ha)
        /\ MatchScore(row, b) = w * (Radius - db) + v * (180 - hb)
    BY <2>1 DEF MatchScore
  <2>5. da \in Nat /\ db \in Nat /\ Radius \in Nat
    BY <1>1, MatchingAssumption
  <2>6. Before(row, a, b) <=>
          \/ MatchScore(row, a) > MatchScore(row, b)
          \/ MatchScore(row, a) = MatchScore(row, b) /\ da < db
          \/ MatchScore(row, a) = MatchScore(row, b) /\ da = db /\ ha < hb
          \/ MatchScore(row, a) = MatchScore(row, b) /\ da = db /\ ha = hb
               /\ a.segment < b.segment
    BY <2>1 DEF Before
  <2> HIDE DEF da, db, ha, hb, w, v
  <2>7. w * (Radius - db) <= w * (Radius - da)
    BY <2>1, <2>3, <2>5, Products
  <2>8. v * (180 - hb) <= v * (180 - ha)
    BY <2>1, <2>2, <2>3, Products
  <2>9. MatchScore(row, b) <= MatchScore(row, a)
    <3> DEFINE x1 == w * (Radius - db)
               x2 == w * (Radius - da)
               y1 == v * (180 - hb)
               y2 == v * (180 - ha)
    <3>1. x1 \in Int /\ x2 \in Int /\ y1 \in Int /\ y2 \in Int
      BY <2>2, <2>3, <2>5
    <3> HIDE DEF x1, x2, y1, y2
    <3>2. x1 <= x2 /\ y1 <= y2 /\ MatchScore(row, a) = x2 + y2 /\ MatchScore(row, b) = x1 + y1
      BY <2>4, <2>7, <2>8 DEF x1, x2, y1, y2
    <3> QED
      BY <3>1, <3>2
  <2> QED
    BY <1>1, <2>1, <2>2, <2>5, <2>6, <2>9
<1> QED
  BY <1>2, <1>3, <1>4 DEF Beats

\* What match_batch returns for a row.
LEMMA BestCandidate ==
  ASSUME NEW row, MatchRow(row), NEW roads, IsFiniteSet(roads),
         \A road \in roads : UsableRoad(road)
  PROVE  IF Candidates(row, roads) = {} THEN MatchedSegment(row, roads) = NULL
         ELSE \E best \in Candidates(row, roads) :
                /\ MatchedSegment(row, roads) = best.segment
                /\ \A other \in Candidates(row, roads) : ~Before(row, other, best)
<1> DEFINE C == Candidates(row, roads)
           R == {p \in C \X C : Before(row, p[1], p[2])}
<1>1. C \subseteq roads /\ IsFiniteSet(C)
  BY FS_Subset DEF Candidates
<1>2. Orders(R, C)
  BY <1>1, BeforeOrders
<1>3. C # {} => \E a \in C : \A b \in C : ~Before(row, b, a)
  <2> HIDE DEF C
  <2> SUFFICES ASSUME C # {} PROVE \E a \in C : \A b \in C : ~Before(row, b, a)
    OBVIOUS
  <2>1. PICK a \in C : \A b \in C : <<b, a>> \notin R
    BY <1>1, <1>2, FirstOf
  <2> QED
    BY <2>1
<1>4. MatchedSegment(row, roads) =
        IF C = {} THEN NULL ELSE (CHOOSE a \in C : \A b \in C : ~Before(row, b, a)).segment
  BY DEF MatchedSegment
<1> HIDE DEF C
<1> QED
  BY <1>3, <1>4 DEF C

-----------------------------------------------------------------------------
(***************************************************************************)
(* Induction over finite sets, with a set of sets for the predicate, and   *)
(* the sums of the model, which are folds over sets.                       *)
(***************************************************************************)
LEMMA FiniteInduction ==
  ASSUME NEW S, IsFiniteSet(S), NEW Good, {} \in Good,
         \A s \in SUBSET S : \A x \in S : s \in Good /\ x \notin s => s \cup {x} \in Good
  PROVE  S \in Good
<1> DEFINE Bad == {s \in SUBSET S : s \notin Good}
           Sizes == {Cardinality(s) : s \in Bad}
<1> SUFFICES ASSUME S \notin Good PROVE FALSE
  OBVIOUS
<1>1. \A s \in SUBSET S : IsFiniteSet(s) /\ Cardinality(s) \in Nat
  BY FS_Subset, FS_CardinalityType
<1>2. Sizes \subseteq Nat /\ Sizes # {}
  BY <1>1
<1>3. PICK n \in Sizes : \A m \in Sizes : n <= m
  BY <1>2, Smallest
<1>4. PICK s \in Bad : n = Cardinality(s)
  BY <1>3
<1>5. PICK x \in s : TRUE
  BY <1>4
<1>6. /\ s \ {x} \in SUBSET S /\ IsFiniteSet(s \ {x}) /\ (s \ {x}) \cup {x} = s
      /\ Cardinality(s \ {x}) = n - 1 /\ n \in Nat
  BY <1>1, <1>4, <1>5, FS_RemoveElement
<1>7. s \ {x} \notin Bad
  <2> SUFFICES ASSUME s \ {x} \in Bad PROVE FALSE
    OBVIOUS
  <2>1. n - 1 \in Sizes
    BY <1>6
  <2>2. n <= n - 1
    BY <1>3, <2>1
  <2> QED
    BY <1>6, <2>2
<1>8. s \ {x} \in Good
  BY <1>6, <1>7
<1>9. s \in Good
  BY <1>5, <1>6, <1>8
<1> QED
  BY <1>4, <1>9

Picked(s) == CHOOSE x \in s : TRUE

LEMMA PickedIn == ASSUME NEW s, s # {} PROVE Picked(s) \in s
BY DEF Picked

\* What a sum over s adds up to, if g has the sums over smaller sets.
OneMore(at, g, s) == IF s = {} THEN 0 ELSE at[Picked(s)] + g[s \ {Picked(s)}]

\* g has the sums over the subsets of S.
SumsOver(S, at, g) == g = [s \in SUBSET S |-> OneMore(at, g, s)]

LEMMA SumUnfolded ==
  ASSUME NEW S, NEW at
  PROVE  Sum(S, at) = (CHOOSE g : SumsOver(S, at, g))[S]
BY DEF Sum, MapThenSumSet, MapThenFoldSet, SumsOver, OneMore, Picked

LEMMA SumsExist ==
  ASSUME NEW S, IsFiniteSet(S), NEW at, \A x \in S : at[x] \in Int
  PROVE  \E g \in [SUBSET S -> Int] : SumsOver(S, at, g)
<1> DEFINE Small(n) == {s \in SUBSET S : Cardinality(s) <= n}
           Bad == {n \in Nat : ~\E g \in [Small(n) -> Int] : \A s \in Small(n) : g[s] = OneMore(at, g, s)}
<1>1. \A s \in SUBSET S : IsFiniteSet(s) /\ Cardinality(s) \in Nat
  BY FS_Subset, FS_CardinalityType
<1>2. ASSUME NEW n \in Nat, n \notin Bad
      PROVE  n + 1 \notin Bad
  <2>1. PICK g \in [Small(n) -> Int] : \A s \in Small(n) : g[s] = OneMore(at, g, s)
    BY <1>2
  <2>2. \A s \in Small(n + 1) : s # {} => at[Picked(s)] \in Int /\ s \ {Picked(s)} \in Small(n)
    <3> SUFFICES ASSUME NEW s \in Small(n + 1), s # {}
                 PROVE  at[Picked(s)] \in Int /\ s \ {Picked(s)} \in Small(n)
      OBVIOUS
    <3>1. Picked(s) \in s /\ s \subseteq S
      BY PickedIn
    <3>2. Cardinality(s \ {Picked(s)}) = Cardinality(s) - 1 /\ Cardinality(s) \in Nat
      BY <1>1, <3>1, FS_RemoveElement
    <3>3. Cardinality(s) <= n + 1
      OBVIOUS
    <3> QED
      BY <3>1, <3>2, <3>3
  <2>3. \A s \in Small(n) : s \in Small(n + 1)
    BY <1>1
  <2> DEFINE h == [s \in Small(n + 1) |-> OneMore(at, g, s)]
  <2> HIDE DEF Small
  <2>4. \A s \in Small(n + 1) : OneMore(at, g, s) \in Int
    BY <2>1, <2>2 DEF OneMore
  <2>5. \A s \in Small(n) : h[s] = g[s]
    BY <2>1, <2>3
  <2>6. ASSUME NEW s \in Small(n + 1) PROVE h[s] = OneMore(at, h, s)
    <3>1. s # {} => h[s \ {Picked(s)}] = g[s \ {Picked(s)}]
      BY <2>2, <2>5
    <3>2. OneMore(at, h, s) = OneMore(at, g, s)
      <4> HIDE DEF h
      <4> QED
        BY <3>1 DEF OneMore
    <3> QED
      BY <3>2
  <2>7. h \in [Small(n + 1) -> Int]
    BY <2>4
  <2> QED
    BY <2>6, <2>7
<1>3. 0 \notin Bad
  <2> DEFINE g == [s \in Small(0) |-> 0]
  <2>1. \A s \in Small(0) : s = {}
    BY <1>1, FS_EmptySet
  <2>2. g \in [Small(0) -> Int] /\ \A s \in Small(0) : g[s] = OneMore(at, g, s)
    <3> HIDE DEF Small
    <3> QED
      BY <2>1 DEF OneMore
  <2> QED
    BY <2>2
<1>4. \A n \in Nat : n \notin Bad
  <2> HIDE DEF Small
  <2> SUFFICES ASSUME Bad # {} PROVE FALSE
    OBVIOUS
  <2>1. Bad \subseteq Nat
    OBVIOUS
  <2> HIDE DEF Bad
  <2>2. PICK n \in Bad : \A m \in Bad : n <= m
    BY <2>1, Smallest
  <2>3. n # 0 /\ n \in Nat
    BY <1>3, <2>1, <2>2
  <2>4. n - 1 \in Nat /\ n - 1 \notin Bad /\ (n - 1) + 1 = n
    BY <2>2, <2>3
  <2> QED
    BY <1>2, <2>2, <2>4
<1>5. Cardinality(S) \in Nat
  BY FS_CardinalityType
<1>6. PICK g \in [Small(Cardinality(S)) -> Int] :
        \A s \in Small(Cardinality(S)) : g[s] = OneMore(at, g, s)
  BY <1>4, <1>5
<1>7. Small(Cardinality(S)) = SUBSET S
  BY FS_Subset
<1> HIDE DEF Small
<1>8. g \in [SUBSET S -> Int] /\ \A s \in SUBSET S : g[s] = OneMore(at, g, s)
  BY <1>6, <1>7
<1>9. SumsOver(S, at, g)
  BY <1>8 DEF SumsOver
<1> QED
  BY <1>8, <1>9

Totals(S, at, g) == \A t \in SUBSET S : g[t] = OneMore(at, g, t)

\* The sums are the same whatever set they are computed in.
LEMMA SumsAgree ==
  ASSUME NEW S, IsFiniteSet(S), NEW at, NEW f, NEW g,
         Totals(S, at, f), Totals(S, at, g)
  PROVE  f[S] = g[S]
<1> DEFINE Good == {t \in SUBSET S : g[t] = f[t]}
           Sizes == {Cardinality(u) : u \in (SUBSET S) \ Good}
<1>1. \A u \in SUBSET S : IsFiniteSet(u) /\ Cardinality(u) \in Nat
  BY FS_Subset, FS_CardinalityType
<1> SUFFICES ASSUME S \notin Good PROVE FALSE
  OBVIOUS
<1>2. Sizes \subseteq Nat /\ Sizes # {}
  BY <1>1
<1>3. PICK n \in Sizes : \A m \in Sizes : n <= m
  BY <1>2, Smallest
<1>4. PICK u \in (SUBSET S) \ Good : n = Cardinality(u)
  BY <1>3
<1>5. u # {}
  BY <1>4 DEF OneMore, Totals
<1>6. Picked(u) \in u
  BY <1>5, PickedIn
<1>7. u \ {Picked(u)} \in SUBSET S /\ n \in Nat /\ Cardinality(u \ {Picked(u)}) = n - 1
  BY <1>1, <1>4, <1>6, FS_RemoveElement
<1>8. u \ {Picked(u)} \in Good
  <2> SUFFICES ASSUME u \ {Picked(u)} \notin Good PROVE FALSE
    OBVIOUS
  <2>1. n - 1 \in Sizes
    BY <1>7
  <2>2. n <= n - 1
    BY <1>3, <2>1
  <2> QED
    BY <1>7, <2>2
<1>9. g[u] = f[u]
  BY <1>4, <1>5, <1>8 DEF OneMore, Totals
<1> QED
  BY <1>4, <1>9

\* g has the sums of the model.
SumsOf(S, at, g) == \A s \in SUBSET S : Sum(s, at) = g[s]

LEMMA SumWithin ==
  ASSUME NEW S, IsFiniteSet(S), NEW at, \A x \in S : at[x] \in Int
  PROVE  \E g \in [SUBSET S -> Int] : Totals(S, at, g) /\ SumsOf(S, at, g)
<1>1. PICK g \in [SUBSET S -> Int] : SumsOver(S, at, g)
  BY SumsExist
<1>2. Totals(S, at, g)
  BY <1>1 DEF SumsOver, Totals
<1>3. ASSUME NEW s \in SUBSET S
      PROVE  Sum(s, at) = g[s]
  <2>1. IsFiniteSet(s) /\ \A x \in s : at[x] \in Int
    BY FS_Subset
  <2>2. \E f : SumsOver(s, at, f)
    BY <2>1, SumsExist
  <2>3. PICK f : f = CHOOSE h : SumsOver(s, at, h)
    OBVIOUS
  <2>4. SumsOver(s, at, f)
    BY <2>2, <2>3
  <2>5. Sum(s, at) = f[s]
    BY <2>3, SumUnfolded
  <2>6. Totals(s, at, f)
    BY <2>4 DEF SumsOver, Totals
  <2>7. Totals(s, at, g)
    BY <1>2 DEF Totals
  <2>8. f[s] = g[s]
    BY <2>1, <2>6, <2>7, SumsAgree
  <2> QED
    BY <2>5, <2>8
<1>4. SumsOf(S, at, g)
  BY <1>3 DEF SumsOf
<1> QED
  BY <1>2, <1>4

\* A sum takes its terms in any order.
LEMMA SumAdds ==
  ASSUME NEW S, IsFiniteSet(S), NEW at, \A x \in S : at[x] \in Int
  PROVE  /\ Sum({}, at) = 0
         /\ Sum(S, at) \in Int
         /\ \A x \in S : Sum(S, at) = at[x] + Sum(S \ {x}, at)
<1>1. PICK g \in [SUBSET S -> Int] : Totals(S, at, g) /\ SumsOf(S, at, g)
  BY SumWithin
<1>0. \A s \in SUBSET S : Sum(s, at) = g[s]
  BY <1>1 DEF SumsOf
<1> DEFINE Adds(s) == \A x \in s : g[s] = at[x] + g[s \ {x}]
           Good == {s \in SUBSET S : Adds(s)}
           Sizes == {Cardinality(u) : u \in (SUBSET S) \ Good}
<1>2. \A u \in SUBSET S : IsFiniteSet(u) /\ Cardinality(u) \in Nat
  BY FS_Subset, FS_CardinalityType
<1>3. S \in Good
  <2> HIDE DEF Good
  <2> SUFFICES ASSUME S \notin Good PROVE FALSE
    OBVIOUS
  <2>2. Sizes \subseteq Nat /\ Sizes # {}
    BY <1>2
  <2>3. PICK n \in Sizes : \A m \in Sizes : n <= m
    BY <2>2, Smallest
  <2>4. PICK u \in (SUBSET S) \ Good : n = Cardinality(u)
    BY <2>3
  <2>5. \A t \in SUBSET u : Cardinality(t) < n => t \in Good
    <3> SUFFICES ASSUME NEW t \in SUBSET u, Cardinality(t) < n, t \notin Good PROVE FALSE
      OBVIOUS
    <3>1. t \in SUBSET S /\ Cardinality(t) \in Sizes
      OBVIOUS
    <3>2. n <= Cardinality(t) /\ n \in Nat /\ Cardinality(t) \in Nat
      BY <1>2, <2>3, <2>4, <3>1
    <3> QED
      BY <3>2
  <2>6. PICK x \in u : g[u] # at[x] + g[u \ {x}]
    BY <2>4 DEF Good
  <2> DEFINE y == Picked(u)
  <2>7. y \in u
    BY <2>6, PickedIn
  <2>8. g[u] = at[y] + g[u \ {y}]
    BY <1>1, <2>4, <2>6 DEF OneMore, Totals
  <2>9. x # y
    BY <2>6, <2>8
  <2> HIDE DEF y, Sizes
  <2>10. /\ u \ {x} \in SUBSET u /\ Cardinality(u \ {x}) < n
         /\ u \ {y} \in SUBSET u /\ Cardinality(u \ {y}) < n
    BY <1>2, <2>4, <2>6, <2>7, FS_RemoveElement
  <2>11. u \ {x} \in Good /\ u \ {y} \in Good
    BY <2>5, <2>10
  <2>12. (u \ {x}) \ {y} = (u \ {y}) \ {x}
    OBVIOUS
  <2>13. g[u \ {x}] = at[y] + g[(u \ {x}) \ {y}] /\ g[u \ {y}] = at[x] + g[(u \ {y}) \ {x}]
    BY <2>6, <2>7, <2>9, <2>11 DEF Good
  <2>14. at[x] \in Int /\ at[y] \in Int /\ g[(u \ {x}) \ {y}] \in Int
    BY <1>1, <2>4, <2>6, <2>7
  <2> DEFINE rest == g[(u \ {x}) \ {y}]
  <2>15. g[u] = at[y] + (at[x] + rest) /\ g[u \ {x}] = at[y] + rest
    BY <2>8, <2>12, <2>13
  <2>16. at[y] + (at[x] + rest) = at[x] + (at[y] + rest)
    BY <2>14
  <2> QED
    BY <2>6, <2>15, <2>16
<1>4. g[{}] = 0
  BY <1>1 DEF OneMore, Totals
<1> QED
  BY <1>0, <1>1, <1>3, <1>4

-----------------------------------------------------------------------------
(***************************************************************************)
(* The samples of a trip: TripRows lists each of them once.                *)
(***************************************************************************)

\* Rows the window functions can order, no two of them of one event.
Orderable(rows) ==
  /\ IsFiniteSet(rows)
  /\ \A a \in rows : a.seq \in Int /\ a.time \in Int /\ a.event \in Int
  /\ \A a, b \in rows : a.event = b.event => a = b

OfTrip(rows, trip) == {row \in rows : row.trip = trip}

Earlier(rows, trip) ==
  {p \in OfTrip(rows, trip) \X OfTrip(rows, trip) :
     \/ p[2].seq > p[1].seq
     \/ p[2].seq = p[1].seq /\ p[2].time > p[1].time
     \/ p[2].seq = p[1].seq /\ p[2].time = p[1].time /\ p[2].event > p[1].event}

LEMMA EarlierOrders ==
  ASSUME NEW rows, Orderable(rows), NEW trip
  PROVE  /\ Orders(Earlier(rows, trip), OfTrip(rows, trip))
         /\ \A a, b \in OfTrip(rows, trip) :
              a = b \/ <<a, b>> \in Earlier(rows, trip) \/ <<b, a>> \in Earlier(rows, trip)
<1> DEFINE T == OfTrip(rows, trip)
           R == Earlier(rows, trip)
<1>1. \A a \in T : a \in rows /\ a.seq \in Int /\ a.time \in Int /\ a.event \in Int
  BY DEF OfTrip, Orderable
<1>2. \A a, b \in T : a.event = b.event => a = b
  BY DEF OfTrip, Orderable
<1>3. \A a, b \in T : <<a, b>> \in R <=>
        \/ b.seq > a.seq
        \/ b.seq = a.seq /\ b.time > a.time
        \/ b.seq = a.seq /\ b.time = a.time /\ b.event > a.event
  BY DEF Earlier
<1> HIDE DEF T, R
<1>4. \A a \in T : <<a, a>> \notin R
  BY <1>1, <1>3
<1>5. ASSUME NEW a \in T, NEW b \in T, NEW c \in T, <<a, b>> \in R, <<b, c>> \in R
      PROVE  <<a, c>> \in R
  BY <1>1, <1>3, <1>5
<1>6. ASSUME NEW a \in T, NEW b \in T, a # b, <<a, b>> \notin R
      PROVE  <<b, a>> \in R
  BY <1>1, <1>2, <1>3, <1>6
<1>7. Orders(R, T)
  BY <1>4, <1>5 DEF Orders
<1> QED
  BY <1>6, <1>7 DEF T, R

LEMMA TripRowsNumber ==
  ASSUME NEW rows, Orderable(rows), NEW trip
  PROVE  LET s == TripRows(rows, trip)
             n == Cardinality(OfTrip(rows, trip))
         IN /\ n \in Nat
            /\ s \in [1..n -> OfTrip(rows, trip)]
            /\ \A i, j \in 1..n : s[i] = s[j] => i = j
            /\ \A row \in OfTrip(rows, trip) : \E i \in 1..n : s[i] = row
<1> DEFINE T == OfTrip(rows, trip)
           R == Earlier(rows, trip)
           n == Cardinality(T)
           s == TripRows(rows, trip)
<1>1. IsFiniteSet(T) /\ n \in Nat
  BY FS_Subset, FS_CardinalityType DEF OfTrip, Orderable
<1>2. s = [i \in 1..n |-> CHOOSE a \in T : Rank(R, T, a) = i - 1]
  <2>1. \A a \in T : Rank(R, T, a) = Cardinality({b \in T :
          \/ a.seq > b.seq
          \/ a.seq = b.seq /\ a.time > b.time
          \/ a.seq = b.seq /\ a.time = b.time /\ a.event > b.event})
    <3> SUFFICES ASSUME NEW a \in T
                 PROVE  {b \in T : <<b, a>> \in R} = {b \in T :
          \/ a.seq > b.seq
          \/ a.seq = b.seq /\ a.time > b.time
          \/ a.seq = b.seq /\ a.time = b.time /\ a.event > b.event}
      BY DEF Rank
    <3> QED
      BY DEF Earlier
  <2>2. \A i \in 1..n :
          (CHOOSE a \in T : Rank(R, T, a) = i - 1) =
          (CHOOSE a \in T : Cardinality({b \in T :
             \/ a.seq > b.seq
             \/ a.seq = b.seq /\ a.time > b.time
             \/ a.seq = b.seq /\ a.time = b.time /\ a.event > b.event}) = i - 1)
    BY <2>1
  <2> QED
    BY <2>2 DEF TripRows, OfTrip
<1>3. \A m \in 0..(n - 1) : \E a \in T : Rank(R, T, a) = m /\ \A b \in T : Rank(R, T, b) = m => b = a
  BY <1>1, EarlierOrders, Numbered
<1>4. \A a \in T : Rank(R, T, a) \in 0..(n - 1)
  BY <1>1, EarlierOrders, RankTyped
<1> HIDE DEF T, R, n, s
<1>5. \A i \in 1..n : s[i] \in T /\ Rank(R, T, s[i]) = i - 1
  <2> SUFFICES ASSUME NEW i \in 1..n PROVE s[i] \in T /\ Rank(R, T, s[i]) = i - 1
    OBVIOUS
  <2>1. i - 1 \in 0..(n - 1)
    BY <1>1
  <2>2. \E a \in T : Rank(R, T, a) = i - 1
    BY <1>3, <2>1
  <2>3. s[i] = CHOOSE a \in T : Rank(R, T, a) = i - 1
    BY <1>2
  <2> QED
    BY <2>2, <2>3
<1>6. s \in [1..n -> T]
  BY <1>2, <1>5
<1>7. \A i, j \in 1..n : s[i] = s[j] => i = j
  <2> SUFFICES ASSUME NEW i \in 1..n, NEW j \in 1..n, s[i] = s[j] PROVE i = j
    OBVIOUS
  <2>1. i - 1 = j - 1
    BY <1>5
  <2> QED
    BY <1>1, <2>1
<1>8. \A row \in T : \E i \in 1..n : s[i] = row
  <2> SUFFICES ASSUME NEW row \in T PROVE \E i \in 1..n : s[i] = row
    OBVIOUS
  <2>1. PICK m \in 0..(n - 1) : m = Rank(R, T, row)
    BY <1>4
  <2>2. m + 1 \in 1..n /\ (m + 1) - 1 = m /\ m \in 0..(n - 1)
    BY <1>1
  <2>3. Rank(R, T, s[m + 1]) = m /\ s[m + 1] \in T
    BY <1>5, <2>2
  <2>4. s[m + 1] = row
    BY <1>3, <2>1, <2>3
  <2> QED
    BY <2>2, <2>4
<1> QED
  BY <1>1, <1>6, <1>7, <1>8 DEF T, n, s

-----------------------------------------------------------------------------
(***************************************************************************)
(* The windows of an event kind: RunNumber splits the samples of a trip    *)
(* into the stretches between two that begin a run.                        *)
(***************************************************************************)
Timed(s, n) ==
  /\ n \in Nat /\ DOMAIN s = 1..n /\ Len(s) = n
  /\ \A i \in 1..n : s[i].time \in Int

LEMMA CandidateBoolean ==
  ASSUME NEW s, NEW kind \in Kinds, NEW i
  PROVE  CandidateAt(s, kind, i) \in BOOLEAN
<1>1. CASE kind = "hard_accel"
  BY <1>1 DEF CandidateAt, HardAccelAt
<1>2. CASE kind = "hard_brake"
  BY <1>2 DEF CandidateAt, HardBrakeAt
<1>3. CASE kind = "sharp_steer"
  BY <1>3 DEF CandidateAt, SharpSteerAt
<1> QED
  BY <1>1, <1>2, <1>3 DEF Kinds

\* Between two positions that number the same nothing was counted, and only then.
LEMMA CountedBetween ==
  ASSUME NEW P, P \subseteq Int, NEW i \in Nat, NEW j \in Nat, i <= j
  PROVE  /\ Cardinality({k \in 1..i : k \in P}) <= Cardinality({k \in 1..j : k \in P})
         /\ Cardinality({k \in 1..i : k \in P}) = Cardinality({k \in 1..j : k \in P})
              <=> \A k \in (i + 1)..j : k \notin P
<1> DEFINE A == {k \in 1..i : k \in P}
           B == {k \in 1..j : k \in P}
<1>1. IsFiniteSet(1..j)
  BY FS_Interval
<1>2. A \subseteq B
  OBVIOUS
<1>3. B \subseteq 1..j
  OBVIOUS
<1>4. IsFiniteSet(B)
  BY <1>1, <1>3, FS_Subset
<1>5. Cardinality(A) <= Cardinality(B) /\ (Cardinality(A) = Cardinality(B) => A = B)
  BY <1>2, <1>4, FS_Subset
<1>6. A = B <=> \A k \in (i + 1)..j : k \notin P
  OBVIOUS
<1> HIDE DEF A, B
<1>7. Cardinality(A) <= Cardinality(B) /\ (Cardinality(A) = Cardinality(B) <=> A = B)
  BY <1>5
<1> QED
  BY <1>6, <1>7 DEF A, B

LEMMA SameRun ==
  ASSUME NEW s, NEW kind, NEW i \in Nat, NEW j \in Nat, i <= j
  PROVE  /\ RunNumber(s, kind, i) <= RunNumber(s, kind, j)
         /\ RunNumber(s, kind, i) = RunNumber(s, kind, j)
              <=> \A k \in (i + 1)..j : ~NewRun(s, kind, k)
<1> DEFINE P == {k \in Int : NewRun(s, kind, k)}
<1>1. P \subseteq Int
  OBVIOUS
<1>2. \A m \in Nat : RunNumber(s, kind, m) = Cardinality({k \in 1..m : k \in P})
  <2> SUFFICES ASSUME NEW m \in Nat
               PROVE {k \in 1..m : NewRun(s, kind, k)} = {k \in 1..m : k \in P}
    BY DEF RunNumber
  <2> QED
    OBVIOUS
<1>3. (\A k \in (i + 1)..j : k \notin P) <=> (\A k \in (i + 1)..j : ~NewRun(s, kind, k))
  OBVIOUS
<1> HIDE DEF P
<1>4. /\ Cardinality({k \in 1..i : k \in P}) <= Cardinality({k \in 1..j : k \in P})
      /\ Cardinality({k \in 1..i : k \in P}) = Cardinality({k \in 1..j : k \in P})
           <=> \A k \in (i + 1)..j : k \notin P
  BY <1>1, CountedBetween
<1>5. /\ RunNumber(s, kind, i) = Cardinality({k \in 1..i : k \in P})
      /\ RunNumber(s, kind, j) = Cardinality({k \in 1..j : k \in P})
  BY <1>2
<1> QED
  BY <1>3, <1>4, <1>5

\* Where each sample continues the one before, time goes on.
LEMMA TimeGoesOn ==
  ASSUME NEW s, NEW n, Timed(s, n), NEW most, NEW i \in 1..n, NEW l \in i..n,
         \A k \in (i + 1)..l : ~Gap(s, k, most)
  PROVE  \A k \in i..l : s[i].time <= s[k].time /\ s[k].time <= s[l].time
<1>1. n \in Nat /\ \A k \in 1..n : s[k].time \in Int
  BY DEF Timed
<1>2. ASSUME NEW k \in (i + 1)..l
      PROVE  s[k - 1].time < s[k].time
  <2>1. ~Gap(s, k, most) /\ k \in 1..n /\ k - 1 \in 1..n
    BY <1>1
  <2> QED
    BY <1>1, <2>1 DEF Gap
<1>3. \A k \in i..l : s[i].time <= s[k].time
  <2> DEFINE Bad == {k \in i..l : ~(s[i].time <= s[k].time)}
  <2> SUFFICES ASSUME Bad # {} PROVE FALSE
    OBVIOUS
  <2>1. Bad \subseteq Nat
    BY <1>1
  <2>2. PICK k \in Bad : \A m \in Bad : k <= m
    BY <2>1, Smallest
  <2>3. k # i
    BY <1>1, <2>2
  <2>4. k - 1 \in i..l /\ k \in (i + 1)..l
    BY <1>1, <2>2, <2>3
  <2>5. k - 1 \notin Bad
    BY <1>1, <2>2, <2>4
  <2>6. s[i].time <= s[k - 1].time
    BY <2>4, <2>5
  <2>7. s[k - 1].time < s[k].time
    BY <1>2, <2>4
  <2> QED
    BY <1>1, <2>2, <2>4, <2>6, <2>7
<1>4. \A k \in i..l : s[k].time <= s[l].time
  <2> DEFINE Bad == {m \in 0..(l - i) : ~(s[l - m].time <= s[l].time)}
  <2>1. Bad \subseteq Nat
    BY <1>1
  <2>2. ASSUME Bad # {} PROVE FALSE
    <3>2. PICK m \in Bad : \A x \in Bad : m <= x
      BY <2>1, <2>2, Smallest
    <3>3. m # 0
      BY <1>1, <3>2
    <3>4. m - 1 \in 0..(l - i) /\ (l - m) + 1 \in (i + 1)..l /\ l - (m - 1) = (l - m) + 1
          /\ ((l - m) + 1) - 1 = l - m
      BY <1>1, <3>2, <3>3
    <3>5. m - 1 \notin Bad
      BY <1>1, <3>2, <3>4
    <3>6. s[(l - m) + 1].time <= s[l].time
      BY <3>4, <3>5
    <3>7. s[l - m].time < s[(l - m) + 1].time
      BY <1>2, <3>4
    <3>8. l - m \in 1..n /\ (l - m) + 1 \in 1..n /\ l \in 1..n
      BY <1>1, <3>2, <3>4
    <3> QED
      BY <1>1, <3>2, <3>6, <3>7, <3>8
  <2>3. \A m \in 0..(l - i) : s[l - m].time <= s[l].time
    BY <2>2
  <2>4. \A k \in i..l : l - k \in 0..(l - i) /\ l - (l - k) = k
    BY <1>1
  <2> QED
    BY <2>3, <2>4
<1> QED
  BY <1>3, <1>4

LEMMA MaxIs ==
  ASSUME NEW S, NEW m \in S, S \subseteq Int, \A x \in S : x <= m
  PROVE  Max(S) = m
<1>1. m \in S /\ \A y \in S : m >= y
  OBVIOUS
<1>2. \A x \in S : (\A y \in S : x >= y) => x = m
  OBVIOUS
<1>3. (CHOOSE x \in S : \A y \in S : x >= y) = m
  BY <1>1, <1>2
<1> QED
  BY <1>3 DEF Max

LEMMA MinIs ==
  ASSUME NEW S, NEW m \in S, S \subseteq Int, \A x \in S : m <= x
  PROVE  Min(S) = m
<1>1. m \in S /\ \A y \in S : m =< y
  OBVIOUS
<1>2. \A x \in S : (\A y \in S : x =< y) => x = m
  OBVIOUS
<1>3. (CHOOSE x \in S : \A y \in S : x =< y) = m
  BY <1>1, <1>2
<1> QED
  BY <1>3 DEF Min

\* A run that begins at i ends before the next one begins, and lasts as long as
\* it takes from its first sample to its last.
LEMMA RunIs ==
  ASSUME NEW s, NEW n, Timed(s, n), NEW kind, NEW i \in 1..n, NEW l \in i..n,
         NewRun(s, kind, i), \A k \in (i + 1)..l : ~NewRun(s, kind, k),
         l < n => NewRun(s, kind, l + 1)
  PROVE  RunDuration(s, kind, i) = s[l].time - s[i].time
<1> DEFINE Members == {k \in DOMAIN s : RunNumber(s, kind, k) = RunNumber(s, kind, i)}
           times == {s[j].time : j \in Members}
<1>1. n \in Nat /\ DOMAIN s = 1..n /\ \A k \in 1..n : s[k].time \in Int
  BY DEF Timed
<1>0. \A k \in Nat : RunNumber(s, kind, k) \in Nat
  <2> SUFFICES ASSUME NEW k \in Nat PROVE IsFiniteSet({j \in 1..k : NewRun(s, kind, j)})
    BY FS_CardinalityType DEF RunNumber
  <2>1. {j \in 1..k : NewRun(s, kind, j)} \subseteq 1..k /\ IsFiniteSet(1..k)
    BY FS_Interval
  <2> QED
    BY <2>1, FS_Subset
<1>2. ASSUME NEW k \in i..l
      PROVE  k \in Members
  <2>1. i \in Nat /\ k \in Nat /\ i <= k /\ \A m \in (i + 1)..k : ~NewRun(s, kind, m)
    BY <1>1
  <2>2. RunNumber(s, kind, i) = RunNumber(s, kind, k)
    BY <2>1, SameRun
  <2> QED
    BY <1>1, <2>2
<1>3. ASSUME NEW k \in 1..n, k < i
      PROVE  k \notin Members
  <2>1. i \in Nat /\ k \in Nat /\ k <= i /\ i \in (k + 1)..i
    BY <1>1, <1>3
  <2>2. RunNumber(s, kind, i) # RunNumber(s, kind, k)
    BY <2>1, SameRun
  <2> QED
    BY <2>2
<1>4. ASSUME NEW k \in 1..n, k > l
      PROVE  k \notin Members
  <2>1. i \in Nat /\ k \in Nat /\ i <= k /\ l + 1 \in (i + 1)..k /\ l < n
    BY <1>1, <1>4
  <2>2. RunNumber(s, kind, i) # RunNumber(s, kind, k)
    BY <2>1, SameRun
  <2> QED
    BY <2>2
<1>5. Members = i..l
  <2>1. \A k \in 1..n : k \in i..l \/ k < i \/ k > l
    BY <1>1
  <2>2. Members \subseteq 1..n
    BY <1>1
  <2> HIDE DEF Members
  <2> QED
    BY <1>2, <1>3, <1>4, <2>1, <2>2
<1>6. \A k \in (i + 1)..l : ~Gap(s, k, EventGap)
  BY DEF NewRun
<1>7. \A k \in i..l : s[i].time <= s[k].time /\ s[k].time <= s[l].time
  BY <1>6, TimeGoesOn
<1>8. times = {s[j].time : j \in i..l}
  BY <1>5
<1>9. times \subseteq Int /\ s[i].time \in times /\ s[l].time \in times
  <2>1. i \in i..l /\ l \in i..l /\ i..l \subseteq 1..n
    BY <1>1
  <2> HIDE DEF times
  <2> QED
    BY <1>1, <1>8, <2>1
<1>10. \A x \in times : s[i].time <= x /\ x <= s[l].time
  BY <1>7, <1>8
<1> HIDE DEF times
<1>11. Max(times) = s[l].time /\ Min(times) = s[i].time
  BY <1>9, <1>10, MaxIs, MinIs
<1> QED
  BY <1>11 DEF RunDuration, times

\* A run ends: at the last sample, or where the next one begins.
LEMMA RunEndsSomewhere ==
  ASSUME NEW s, NEW n \in Nat, NEW kind, NEW i \in 1..n
  PROVE  \E l \in i..n : /\ \A k \in (i + 1)..l : ~NewRun(s, kind, k)
                         /\ l < n => NewRun(s, kind, l + 1)
<1> DEFINE Ends == {l \in i..n : l = n \/ NewRun(s, kind, l + 1)}
<1>1. Ends \subseteq Nat /\ n \in Ends
  OBVIOUS
<1>2. PICK l \in Ends : \A m \in Ends : l <= m
  BY <1>1, Smallest
<1>3. l \in i..n /\ (l < n => NewRun(s, kind, l + 1))
  BY <1>2
<1>4. ASSUME NEW k \in (i + 1)..l, NewRun(s, kind, k)
      PROVE  FALSE
  <2>1. k - 1 \in i..n /\ (k - 1) + 1 = k /\ k - 1 < l
    BY <1>3
  <2>2. k - 1 \in Ends
    BY <1>4, <2>1
  <2>3. l <= k - 1
    BY <1>2, <2>2
  <2>4. l \in Int /\ k \in Int
    BY <1>3
  <2> QED
    BY <2>1, <2>3, <2>4
<1> QED
  BY <1>3, <1>4

\* All of a run are candidates, or none.
LEMMA SameKind ==
  ASSUME NEW s, NEW kind \in Kinds, NEW i \in Nat, NEW l \in Nat,
         \A k \in (i + 1)..l : ~NewRun(s, kind, k), CandidateAt(s, kind, i)
  PROVE  \A k \in i..l : CandidateAt(s, kind, k)
<1> DEFINE Bad == {k \in i..l : ~CandidateAt(s, kind, k)}
<1> SUFFICES ASSUME Bad # {} PROVE FALSE
  OBVIOUS
<1>1. Bad \subseteq Nat
  OBVIOUS
<1>2. PICK k \in Bad : \A m \in Bad : k <= m
  BY <1>1, Smallest
<1>3. k # i
  BY <1>2
<1>4. k - 1 \in i..l /\ k \in (i + 1)..l /\ k - 1 < k
  BY <1>2, <1>3
<1>5. k - 1 \notin Bad
  BY <1>1, <1>2, <1>4
<1>6. CandidateAt(s, kind, k - 1)
  BY <1>4, <1>5
<1>7. CandidateAt(s, kind, k) = CandidateAt(s, kind, k - 1)
  BY <1>4 DEF NewRun
<1> QED
  BY <1>2, <1>6, <1>7

\* The shared windows start an event exactly where an episode begins.
LEMMA StartsAreEpisodes ==
  ASSUME NEW s, NEW n, Timed(s, n), NEW kind \in Kinds, NEW i \in 1..n
  PROVE  i \in Starts(s, kind) <=> \E r \in SustainedRuns(s, kind) : r[1] = i
<1>1. n \in Nat /\ DOMAIN s = 1..n /\ Len(s) = n
  BY DEF Timed
<1>2. ASSUME i \in Starts(s, kind)
      PROVE  \E r \in SustainedRuns(s, kind) : r[1] = i
  <2>1. /\ NewRun(s, kind, i) /\ CandidateAt(s, kind, i)
        /\ RunDuration(s, kind, i) >= MinDuration(kind)
    BY <1>2 DEF Starts
  <2>2. PICK l \in i..n : /\ \A k \in (i + 1)..l : ~NewRun(s, kind, k)
                          /\ l < n => NewRun(s, kind, l + 1)
    BY <1>1, RunEndsSomewhere
  <2>3. s[l].time - s[i].time >= MinDuration(kind)
    BY <2>1, <2>2, RunIs
  <2>4. \A k \in i..l : CandidateAt(s, kind, k)
    <3>1. i \in Nat /\ l \in Nat
      BY <1>1
    <3> QED
      BY <2>1, <2>2, <3>1, SameKind
  <2>5. \A k \in (i + 1)..l : ~Gap(s, k, EventGap)
    BY <2>2 DEF NewRun
  <2>6. Gap(s, i, EventGap) \/ ~CandidateAt(s, kind, i - 1)
    BY <2>1, CandidateBoolean DEF NewRun
  <2>7. l < n => Gap(s, l + 1, EventGap) \/ ~CandidateAt(s, kind, l + 1)
    <3> SUFFICES ASSUME l < n PROVE Gap(s, l + 1, EventGap) \/ ~CandidateAt(s, kind, l + 1)
      OBVIOUS
    <3>1. NewRun(s, kind, l + 1) /\ (l + 1) - 1 = l /\ l \in i..l
      BY <1>1, <2>2
    <3>2. CandidateAt(s, kind, l)
      BY <2>4, <3>1
    <3> QED
      BY <3>1, <3>2, CandidateBoolean DEF NewRun
  <2>8. <<i, l>> \in (DOMAIN s) \X (DOMAIN s) /\ i <= l
    BY <1>1
  <2>9. <<i, l>> \in SustainedRuns(s, kind)
    BY <1>1, <2>3, <2>4, <2>5, <2>6, <2>7, <2>8 DEF SustainedRuns
  <2> QED
    BY <2>9
<1>3. ASSUME NEW r \in SustainedRuns(s, kind), r[1] = i
      PROVE  i \in Starts(s, kind)
  <2> DEFINE l == r[2]
  <2>1. /\ l \in 1..n /\ i <= l
        /\ \A k \in i..l : CandidateAt(s, kind, k)
        /\ \A k \in (i + 1)..l : ~Gap(s, k, EventGap)
        /\ Gap(s, i, EventGap) \/ ~CandidateAt(s, kind, i - 1)
        /\ l < n => Gap(s, l + 1, EventGap) \/ ~CandidateAt(s, kind, l + 1)
        /\ s[l].time - s[i].time >= MinDuration(kind)
    BY <1>1, <1>3 DEF SustainedRuns
  <2> HIDE DEF l
  <2>2. CandidateAt(s, kind, i) /\ CandidateAt(s, kind, l)
    BY <1>1, <2>1
  <2>3. NewRun(s, kind, i)
    BY <2>1, <2>2 DEF NewRun
  <2>4. ASSUME NEW k \in (i + 1)..l PROVE ~NewRun(s, kind, k)
    <3>1. k \in i..l /\ k - 1 \in i..l
      BY <1>1, <2>1
    <3>2. CandidateAt(s, kind, k) = TRUE /\ CandidateAt(s, kind, k - 1) = TRUE
      BY <2>1, <3>1, CandidateBoolean
    <3> QED
      BY <2>1, <3>2 DEF NewRun
  <2>5. l < n => NewRun(s, kind, l + 1)
    <3> SUFFICES ASSUME l < n PROVE NewRun(s, kind, l + 1)
      OBVIOUS
    <3>1. (l + 1) - 1 = l
      BY <2>1
    <3> QED
      BY <2>1, <2>2, <3>1 DEF NewRun
  <2>6. l \in i..n
    BY <1>1, <2>1
  <2>7. RunDuration(s, kind, i) = s[l].time - s[i].time
    BY <2>3, <2>4, <2>5, <2>6, RunIs
  <2> QED
    BY <1>1, <2>1, <2>2, <2>3, <2>7 DEF Starts
<1> QED
  BY <1>2, <1>3

-----------------------------------------------------------------------------
(***************************************************************************)
(* Steering reversals.                                                     *)
(***************************************************************************)
LEMMA SameGroup ==
  ASSUME NEW s, NEW i \in Nat, NEW j \in Nat, i <= j
  PROVE  ContinuityGroup(s, i) = ContinuityGroup(s, j)
           <=> \A k \in (i + 1)..j : SteeringRate(s, k) # NULL
<1> DEFINE P == {k \in Int : SteeringRate(s, k) = NULL}
<1>1. P \subseteq Int
  OBVIOUS
<1>2. \A m \in Nat : ContinuityGroup(s, m) = Cardinality({k \in 1..m : k \in P})
  <2> SUFFICES ASSUME NEW m \in Nat
               PROVE {k \in 1..m : SteeringRate(s, k) = NULL} = {k \in 1..m : k \in P}
    BY DEF ContinuityGroup
  <2> QED
    OBVIOUS
<1>3. (\A k \in (i + 1)..j : k \notin P) <=> (\A k \in (i + 1)..j : SteeringRate(s, k) # NULL)
  OBVIOUS
<1> HIDE DEF P
<1>4. Cardinality({k \in 1..i : k \in P}) = Cardinality({k \in 1..j : k \in P})
        <=> \A k \in (i + 1)..j : k \notin P
  BY <1>1, CountedBetween
<1> QED
  BY <1>2, <1>3, <1>4

\* The largest of bounded naturals.
LEMMA Largest ==
  ASSUME NEW T, T # {}, NEW n \in Nat, T \subseteq 0..n
  PROVE  Max(T) \in T /\ \A x \in T : x <= Max(T)
<1> DEFINE D == {n - x : x \in T}
<1>0. \A x \in T : x \in Int /\ n - x \in Nat
  OBVIOUS
<1>1. D \subseteq Nat /\ D # {}
  BY <1>0
<1>2. PICK d \in D : \A e \in D : d <= e
  BY <1>1, Smallest
<1>3. PICK m \in T : d = n - m
  BY <1>2
<1>4. ASSUME NEW x \in T PROVE x <= m
  <2>1. n - x \in D
    OBVIOUS
  <2>2. d <= n - x
    BY <1>2, <2>1
  <2> QED
    BY <1>0, <1>3, <2>2
<1>5. T \subseteq Int
  OBVIOUS
<1>6. Max(T) = m
  BY <1>4, <1>5, MaxIs
<1> QED
  BY <1>4, <1>6

\* The window sees a reversal exactly where the wheel turns back.
LEMMA ReversalsAreChanges ==
  ASSUME NEW s, NEW n \in Nat, DOMAIN s = 1..n, NEW i \in 1..n
  PROVE  i \in Reversals(s) <=> i \in DirectionChanges(s)
<1> DEFINE D(k) == DirectionOf(s, k)
           E == EarlierTurns(s, i)
<1>1. \A k : D(k) # NULL => SteeringRate(s, k) # NULL
  BY DEF DirectionOf
<1>2. E = {j \in 1..(i - 1) : ContinuityGroup(s, j) = ContinuityGroup(s, i) /\ D(j) # NULL}
  BY DEF EarlierTurns
<1>3. \A j \in 1..(i - 1) : ContinuityGroup(s, j) = ContinuityGroup(s, i)
        <=> \A k \in (j + 1)..i : SteeringRate(s, k) # NULL
  BY SameGroup
<1>4. i \in Reversals(s) <=> D(i) # NULL /\ E # {} /\ D(Max(E)) # D(i)
  BY DEF Reversals, ReversalAt
<1>5. i \in DirectionChanges(s) <=>
        \E j \in 1..(i - 1) : /\ D(i) # NULL /\ D(j) # NULL /\ D(i) # D(j)
                              /\ \A k \in (j + 1)..(i - 1) : D(k) = NULL
                              /\ \A k \in j..i : SteeringRate(s, k) # NULL
  BY DEF DirectionChanges
<1> HIDE DEF D, E
<1>6. ASSUME i \in Reversals(s) PROVE i \in DirectionChanges(s)
  <2>1. D(i) # NULL /\ E # {} /\ D(Max(E)) # D(i)
    BY <1>4, <1>6
  <2>2. PICK j : j = Max(E)
    OBVIOUS
  <2>3. j \in E /\ \A x \in E : x <= j
    <3>1. E \subseteq 0..i /\ i \in Nat /\ E # {}
      BY <1>2, <2>1
    <3>2. Max(E) \in E /\ \A x \in E : x <= Max(E)
      BY <3>1, Largest
    <3> QED
      BY <2>2, <3>2
  <2>4. j \in 1..(i - 1) /\ D(j) # NULL /\ \A k \in (j + 1)..i : SteeringRate(s, k) # NULL
    BY <1>2, <1>3, <2>3
  <2>5. \A k \in j..i : SteeringRate(s, k) # NULL
    <3> SUFFICES ASSUME NEW k \in j..i PROVE SteeringRate(s, k) # NULL
      OBVIOUS
    <3>1. k = j \/ k \in (j + 1)..i
      BY <2>4
    <3> QED
      BY <1>1, <2>4, <3>1
  <2>6. ASSUME NEW k \in (j + 1)..(i - 1), D(k) # NULL PROVE FALSE
    <3>1. k \in 1..(i - 1) /\ (k + 1)..i \subseteq (j + 1)..i /\ ~(k <= j)
      BY <2>4
    <3>2. ContinuityGroup(s, k) = ContinuityGroup(s, i)
      BY <1>3, <2>4, <3>1
    <3>3. k \in E
      BY <1>2, <2>6, <3>1, <3>2
    <3> QED
      BY <2>3, <3>1, <3>3
  <2> QED
    BY <1>5, <2>1, <2>2, <2>4, <2>5, <2>6
<1>7. ASSUME i \in DirectionChanges(s) PROVE i \in Reversals(s)
  <2>1. PICK j \in 1..(i - 1) : /\ D(i) # NULL /\ D(j) # NULL /\ D(i) # D(j)
                                /\ \A k \in (j + 1)..(i - 1) : D(k) = NULL
                                /\ \A k \in j..i : SteeringRate(s, k) # NULL
    BY <1>5, <1>7
  <2>2. \A k \in (j + 1)..i : SteeringRate(s, k) # NULL
    BY <2>1
  <2>3. j \in E
    BY <1>2, <1>3, <2>1, <2>2
  <2>4. \A x \in E : x <= j
    <3> SUFFICES ASSUME NEW x \in E, ~(x <= j) PROVE FALSE
      OBVIOUS
    <3>1. x \in (j + 1)..(i - 1) /\ D(x) # NULL
      BY <1>2
    <3> QED
      BY <2>1, <3>1
  <2>5. E \subseteq Int
    BY <1>2
  <2>6. Max(E) = j
    BY <2>3, <2>4, <2>5, MaxIs
  <2> QED
    BY <1>4, <2>1, <2>3, <2>6
<1> QED
  BY <1>6, <1>7

-----------------------------------------------------------------------------
(***************************************************************************)
(* A run works on rows of its hour: what it keeps, and where it puts them. *)
(***************************************************************************)
AllRows == UNION {input.feed[i] : i \in DOMAIN input.feed}

Matchable(kept) == kept \ Unconvertible(kept)

RunOf(r) ==
  /\ r = [hour |-> r.hour, stage |-> r.stage, rows |-> r.rows, kept |-> r.kept,
          segment |-> r.segment]
  /\ r.hour \in HourSet /\ r.stage \in Stages
  /\ r.rows \subseteq {row \in AllRows : HourOf(AssignedTime(row)) = r.hour}
  /\ r.kept \in Survivors(Sound(r.rows))
  /\ UsableRoads(input.roads, Snapshot)
  /\ r.segment = MatchRows(Matchable(r.kept), input.roads)

Given == input \in Inputs /\ loaded \in 0..Len(input.feed)
Working == run # NULL => RunOf(run)

LEMMA InputFacts ==
  ASSUME NEW in \in Inputs
  PROVE  /\ in.feed \in Seq(SUBSET BronzeRow)
         /\ \A i \in DOMAIN in.feed : IsFiniteSet(in.feed[i])
         /\ \A i, j \in DOMAIN in.feed : \A a \in in.feed[i], b \in in.feed[j] :
              a.offset = b.offset => a = b
         /\ IsFiniteSet(in.roads)
         /\ \A road \in in.roads :
              /\ road.bearing \in Int /\ road.segment \in Int \cup {NULL}
              /\ road.segment # NULL => \A place \in Places : Distance[place][road.segment] \in Nat
BY InputsAssumption

LEMMA AllRowsFacts ==
  ASSUME Given
  PROVE  /\ IsFiniteSet(AllRows) /\ AllRows \subseteq BronzeRow
         /\ \A a, b \in AllRows : a.offset = b.offset => a = b
         /\ Bronze \subseteq AllRows
<1>1. input \in Inputs /\ loaded \in 0..Len(input.feed)
  BY DEF Given
<1>2. PICK feed : feed = input.feed
  OBVIOUS
<1>3. /\ feed \in Seq(SUBSET BronzeRow)
      /\ \A i \in DOMAIN feed : IsFiniteSet(feed[i])
      /\ \A i, j \in DOMAIN feed : \A a \in feed[i], b \in feed[j] :
           a.offset = b.offset => a = b
  BY <1>1, <1>2, InputFacts
<1>4. Len(feed) \in Nat /\ DOMAIN feed = 1..Len(feed)
  BY <1>3
<1>5. \A i \in DOMAIN feed : feed[i] \subseteq BronzeRow
  BY <1>3
<1>6. IsFiniteSet(UNION {feed[i] : i \in DOMAIN feed})
  <2>1. IsFiniteSet(DOMAIN feed)
    BY <1>4, FS_Interval
  <2>2. IsFiniteSet({feed[i] : i \in DOMAIN feed})
    BY <2>1, ImageFinite
  <2> QED
    BY <1>3, <2>2, FS_UNION
<1>7. AllRows = UNION {feed[i] : i \in DOMAIN feed}
  BY <1>2 DEF AllRows
<1>8. \A i \in 1..loaded : i \in DOMAIN feed
  BY <1>1, <1>2, <1>4
<1>9. Bronze \subseteq AllRows
  BY <1>2, <1>7, <1>8 DEF Bronze
<1>10. AllRows \subseteq BronzeRow
  BY <1>5, <1>7
<1>11. \A a, b \in AllRows : a.offset = b.offset => a = b
  BY <1>3, <1>7
<1> QED
  BY <1>6, <1>7, <1>9, <1>10, <1>11

\* What survives is sound, and one row of each event.
LEMMA SurvivorFacts ==
  ASSUME NEW rows, NEW kept \in Survivors(rows)
  PROVE  /\ kept \subseteq rows
         /\ \A row \in kept : IsSurvivor(row, rows)
         /\ \A a, b \in kept : a.event = b.event => a = b
         /\ \A row \in rows : \E other \in kept : other.event = row.event
<1> DEFINE Events == {row.event : row \in rows}
<1>1. PICK g \in [Events -> rows] :
        /\ kept = Range(g)
        /\ \A e \in Events : g[e].event = e /\ IsSurvivor(g[e], rows)
  BY DEF Survivors
<1>2. kept = {g[e] : e \in Events}
  BY <1>1 DEF Range
<1> QED
  BY <1>1, <1>2

\* A matchable row can be ordered, matched and aggregated.
LEMMA SoundRow ==
  ASSUME NEW row \in BronzeRow, row.parsed, MissingColumns(row) = {}, ~OutOfRange(row),
         ~(row.parsed /\ row.time = Unreadable)
  PROVE  /\ row.time \in Int /\ row.event \in Int /\ row.seq \in Int /\ row.trip \in Int
         /\ row.profile \in Int /\ row.speed \in Int
         /\ MatchRow(row)
         /\ Readable(row.time) /\ row.time \in TimeBounds.least..TimeBounds.most
<1>1. \A c \in Required : row[c] # NULL
  BY DEF MissingColumns
<1>2. {"event", "trip", "seq", "time", "profile", "place", "speed", "ingested"} \subseteq Required
  BY CleansingAssumption
<1>3. /\ row["event"] # NULL /\ row["trip"] # NULL /\ row["seq"] # NULL /\ row["time"] # NULL
      /\ row["profile"] # NULL /\ row["place"] # NULL /\ row["speed"] # NULL
  BY <1>1, <1>2
<1>4. /\ row.event # NULL /\ row.trip # NULL /\ row.seq # NULL /\ row.time # NULL
      /\ row.profile # NULL /\ row.place # NULL /\ row.speed # NULL
  BY <1>3
<1>5. /\ row.event \in Column /\ row.trip \in Column /\ row.seq \in Column
      /\ row.time \in Column \cup {Unreadable} /\ row.profile \in Column
      /\ row.place \in Places \cup {NULL} /\ row.speed \in Column /\ row.heading \in Column
  BY DEF BronzeRow
<1>6. Readable(row.time) /\ row.time \in Int
  BY <1>4, <1>5 DEF Readable, Column
<1>7. row.time \in TimeBounds.least..TimeBounds.most
  BY <1>6 DEF OutOfRange, ViolatesTimeBounds
<1> QED
  BY <1>4, <1>5, <1>6, <1>7 DEF Column, MatchRow

LEMMA RunFacts ==
  ASSUME Given, NEW r, RunOf(r)
  PROVE  LET M == Matchable(r.kept)
         IN /\ IsFiniteSet(r.rows) /\ r.rows \subseteq BronzeRow
            /\ r.kept \subseteq Sound(r.rows)
            /\ M \subseteq r.kept /\ IsFiniteSet(M) /\ Orderable(M)
            /\ \A row \in M :
                 /\ row.time \in Int /\ row.trip \in Int /\ row.profile \in Int
                 /\ row.speed \in Int /\ MatchRow(row)
                 /\ Readable(row.time) /\ row.time \in TimeBounds.least..TimeBounds.most
            /\ DOMAIN r.segment = M
            /\ \A row \in M : r.segment[row] = MatchedSegment(row, input.roads)
<1> DEFINE M == Matchable(r.kept)
<1>1. r.rows \subseteq AllRows /\ r.kept \in Survivors(Sound(r.rows))
  BY DEF RunOf
<1>2. IsFiniteSet(r.rows) /\ r.rows \subseteq BronzeRow
  BY <1>1, AllRowsFacts, FS_Subset
<1>3. r.kept \subseteq Sound(r.rows) /\ \A a, b \in r.kept : a.event = b.event => a = b
  BY <1>1, SurvivorFacts
<1>4. M \subseteq r.kept /\ r.kept \subseteq r.rows
  BY <1>3 DEF Matchable, Sound
<1>5. IsFiniteSet(M)
  BY <1>2, <1>4, FS_Subset
<1>6. ASSUME NEW row \in M
      PROVE  /\ row.time \in Int /\ row.event \in Int /\ row.seq \in Int /\ row.trip \in Int
             /\ row.profile \in Int /\ row.speed \in Int
             /\ MatchRow(row)
             /\ Readable(row.time) /\ row.time \in TimeBounds.least..TimeBounds.most
  <2>1. /\ row \in BronzeRow /\ row.parsed /\ MissingColumns(row) = {} /\ ~OutOfRange(row)
        /\ ~(row.parsed /\ row.time = Unreadable)
    BY <1>2, <1>3, <1>4 DEF Matchable, Sound, Unconvertible
  <2> QED
    BY <2>1, SoundRow
<1>7. Orderable(M)
  BY <1>3, <1>4, <1>5, <1>6 DEF Orderable
<1>8. r.segment = [row \in M |-> MatchedSegment(row, input.roads)]
  BY DEF RunOf, MatchRows
<1> HIDE DEF M
<1> QED
  BY <1>2, <1>3, <1>4, <1>5, <1>6, <1>7, <1>8 DEF M

LEMMA GivenKept == HourInit => Given /\ Working
<1> SUFFICES ASSUME HourInit PROVE Given /\ Working
  OBVIOUS
<1>1. input \in Inputs /\ loaded = 0 /\ run = NULL
  BY DEF HourInit
<1>2. input.feed \in Seq(SUBSET BronzeRow)
  BY <1>1, InputFacts
<1>3. Len(input.feed) \in Nat
  BY <1>2
<1> QED
  BY <1>1, <1>3 DEF Given, Working

LEMMA RunGoesOn ==
  ASSUME RunOf(run), input' = input, NEW st \in Stages, run' = [run EXCEPT !.stage = st]
  PROVE  RunOf(run)'
<1> DEFINE r == [hour |-> run.hour, stage |-> st, rows |-> run.rows, kept |-> run.kept,
                 segment |-> run.segment]
<1>1. run' = r
  BY DEF RunOf
<1>2. AllRows' = AllRows
  BY DEF AllRows
<1>3. RunOf(run)
  OBVIOUS
<1> QED
  BY <1>1, <1>2, <1>3 DEF RunOf

LEMMA StartIsWork ==
  ASSUME Given, NEW h \in HourSet, StartRun(h)
  PROVE  RunOf(run)'
<1> DEFINE rows == BronzeHour(Bronze, h)
<1>1. PICK kept \in Survivors(Sound(rows)) :
        run' = [hour |-> h, stage |-> "cleansed", rows |-> rows, kept |-> kept,
                segment |-> MatchRows(kept \ Unconvertible(kept), input.roads)]
  BY DEF StartRun
<1>2. UsableRoads(input.roads, Snapshot) /\ input' = input
  BY DEF StartRun
<1>3. AllRows' = AllRows
  BY <1>2 DEF AllRows
<1>4. rows \subseteq {row \in AllRows : HourOf(AssignedTime(row)) = h}
  BY AllRowsFacts DEF BronzeHour
<1>5. "cleansed" \in Stages
  BY DEF Stages
<1> HIDE DEF rows
<1>6. /\ run'.hour = h /\ run'.stage = "cleansed" /\ run'.rows = rows /\ run'.kept = kept
      /\ run'.segment = MatchRows(kept \ Unconvertible(kept), input.roads)
  BY <1>1
<1> QED
  BY <1>1, <1>2, <1>3, <1>4, <1>5, <1>6 DEF RunOf, Matchable

LEMMA GivenStep ==
  ASSUME Given, Working, [HourNext]_hourVars
  PROVE  Given' /\ Working'
<1> USE DEF Given, Working
<1>1. CASE Load
  <2>1. input' = input /\ run' = run /\ loaded < Len(input.feed) /\ loaded' = loaded + 1
    BY <1>1 DEF Load
  <2>2. input.feed \in Seq(SUBSET BronzeRow)
    BY InputFacts
  <2>3. Len(input.feed) \in Nat /\ loaded \in Nat
    BY <2>2
  <2>4. Given'
    BY <2>1, <2>3
  <2>5. RunOf(run) => RunOf(run)'
    BY <2>1 DEF RunOf, AllRows
  <2> QED
    BY <2>1, <2>4, <2>5
<1>2. ASSUME input' = input, loaded' = loaded, run' = run
      PROVE  Given' /\ Working'
  <2>1. RunOf(run) => RunOf(run)'
    BY <1>2 DEF RunOf, AllRows
  <2> QED
    BY <1>2, <2>1
<1>3. CASE Tick \/ StandardScore \/ UNCHANGED hourVars
  BY <1>2, <1>3 DEF Tick, StandardScore, hourVars
<1>4. CASE \E h \in HourSet : StartRun(h)
  <2>1. PICK h \in HourSet : StartRun(h)
    BY <1>4
  <2>2. RunOf(run)'
    BY <2>1, StartIsWork
  <2> QED
    BY <2>1, <2>2 DEF StartRun
<1>5. ASSUME NEW st \in Stages, run # NULL, run' = [run EXCEPT !.stage = st],
             input' = input, loaded' = loaded
      PROVE  Given' /\ Working'
  BY <1>5, RunGoesOn
<1>6. CASE WriteQuarantine
  BY <1>5, <1>6 DEF WriteQuarantine, Stages
<1>7. CASE WriteFeatures
  BY <1>5, <1>7 DEF WriteFeatures, Stages
<1>8. CASE Validate
  BY <1>5, <1>8 DEF Validate, Stages
<1>9. CASE ScoreHour
  BY <1>5, <1>9 DEF ScoreHour, Stages
<1>10. CASE WriteRejected
  BY <1>5, <1>10 DEF WriteRejected, Stages
<1>11. CASE ValidateScores
  BY <1>11 DEF ValidateScores
<1>12. CASE FailRun
  BY <1>12 DEF FailRun
<1> QED
  BY <1>1, <1>3, <1>4, <1>6, <1>7, <1>8, <1>9, <1>10, <1>11, <1>12 DEF HourNext

LEMMA GivenAlways == HourSpec => [](Given /\ Working)
<1>1. Given /\ Working /\ [HourNext]_hourVars => (Given /\ Working)'
  BY GivenStep
<1> QED
  BY <1>1, GivenKept, PTL DEF HourSpec

LEMMA RoadFacts ==
  ASSUME Given, UsableRoads(input.roads, Snapshot)
  PROVE  IsFiniteSet(input.roads) /\ \A road \in input.roads : UsableRoad(road)
<1>1. input \in Inputs
  BY DEF Given
<1>2. \A road \in input.roads : road.segment # NULL
  BY DEF UsableRoads
<1> QED
  BY <1>1, <1>2, InputFacts DEF UsableRoad

\* Whatever the roads and the weights, a row in reach of a road is matched, and
\* to one that no other beats (map_matching/scoring.py, matching.py).
THEOREM NoBetterRoad == HourSpec => []MatchUndominated
<1>1. Given /\ Working => MatchUndominated
  <2> SUFFICES ASSUME Given, RunOf(run), NEW row \in DOMAIN run.segment
               PROVE  LET near == {road \in input.roads : Distance[row.place][road.segment] <= Radius}
                      IN IF near = {} THEN run.segment[row] = NULL
                         ELSE \E best \in near :
                                /\ run.segment[row] = best.segment
                                /\ \A other \in near : ~Beats(row, other, best)
    BY DEF Working, MatchUndominated
  <2>1. MatchRow(row) /\ run.segment[row] = MatchedSegment(row, input.roads)
    BY RunFacts
  <2>2. IsFiniteSet(input.roads) /\ \A road \in input.roads : UsableRoad(road)
    BY RoadFacts DEF RunOf
  <2>3. Candidates(row, input.roads)
          = {road \in input.roads : Distance[row.place][road.segment] <= Radius}
    BY DEF Candidates, DistanceOf
  <2>4. CASE Candidates(row, input.roads) = {}
    BY <2>1, <2>2, <2>3, <2>4, BestCandidate
  <2>5. CASE Candidates(row, input.roads) # {}
    <3>1. PICK best \in Candidates(row, input.roads) :
            /\ MatchedSegment(row, input.roads) = best.segment
            /\ \A other \in Candidates(row, input.roads) : ~Before(row, other, best)
      BY <2>1, <2>2, <2>5, BestCandidate
    <3>2. \A other \in Candidates(row, input.roads) : ~Beats(row, other, best)
      BY <2>1, <2>2, <3>1, BetterComesBefore DEF Candidates
    <3> QED
      BY <2>1, <2>3, <2>5, <3>1, <3>2
  <2> QED
    BY <2>4, <2>5
<1> QED
  BY <1>1, GivenAlways, PTL

-----------------------------------------------------------------------------
(***************************************************************************)
(* The features of an hour.                                                *)
(***************************************************************************)

\* The rows a feature row stands for.
GroupOf(rows, segment, f) ==
  {row \in rows : segment[row] = f.segment /\ row.profile = f.profile}

LEMMA FeatureRow ==
  ASSUME NEW rows, NEW segment, NEW f \in HourlyFeatures(rows, segment)
  PROVE  LET G == GroupOf(rows, segment, f)
         IN /\ f.segment # NULL /\ G # {}
            /\ f.samples = Cardinality(G) /\ f.trips = Cardinality(TripsOf(G))
            /\ f.avg_speed = Average(G, "speed")
            /\ f.rms_accel_x = RootMeanSquare(G, "accel")
            /\ f.p95_abs_accel_z = P95Abs(G, "rough")
            /\ \A k \in Kinds : f[k] = Cardinality(G \cap EventStarts(rows, k))
            /\ f.steer_reversal = Cardinality(G \cap ReversalRows(rows))
<1> DEFINE matched == {row \in rows : segment[row] # NULL}
           Of(key) == {row \in matched : segment[row] = key[1] /\ row.profile = key[2]}
<1>1. PICK key \in {<<segment[row], row.profile>> : row \in matched} :
        f = [segment |-> key[1], profile |-> key[2],
             samples |-> Cardinality(Of(key)),
             trips |-> Cardinality(TripsOf(Of(key))),
             avg_speed |-> Average(Of(key), "speed"),
             rms_accel_x |-> RootMeanSquare(Of(key), "accel"),
             p95_abs_accel_z |-> P95Abs(Of(key), "rough"),
             hard_accel |-> Cardinality(Of(key) \cap EventStarts(rows, "hard_accel")),
             hard_brake |-> Cardinality(Of(key) \cap EventStarts(rows, "hard_brake")),
             sharp_steer |-> Cardinality(Of(key) \cap EventStarts(rows, "sharp_steer")),
             steer_reversal |-> Cardinality(Of(key) \cap ReversalRows(rows))]
  BY DEF HourlyFeatures, Kinds
<1>2. PICK row \in matched : key = <<segment[row], row.profile>>
  BY <1>1
<1>3. f.segment = key[1] /\ f.profile = key[2] /\ key[1] # NULL
  BY <1>1, <1>2
<1>4. GroupOf(rows, segment, f) = Of(key)
  BY <1>3 DEF GroupOf
<1>5. row \in Of(key)
  BY <1>2
<1>6. \A k \in Kinds : f[k] = Cardinality(Of(key) \cap EventStarts(rows, k))
  <2> HIDE DEF Of
  <2>1. /\ f["hard_accel"] = Cardinality(Of(key) \cap EventStarts(rows, "hard_accel"))
        /\ f["hard_brake"] = Cardinality(Of(key) \cap EventStarts(rows, "hard_brake"))
        /\ f["sharp_steer"] = Cardinality(Of(key) \cap EventStarts(rows, "sharp_steer"))
    BY <1>1
  <2> QED
    BY <2>1 DEF Kinds
<1> HIDE DEF Of
<1> QED
  BY <1>1, <1>3, <1>4, <1>5, <1>6

\* The positions of the trips of rows.
Positions(rows) == UNION {{t} \X DOMAIN TripRows(rows, t) : t \in TripsOf(rows)}

\* The positions among pos at which the rows of G are.
PlacesOf(rows, G, pos) ==
  {p \in Positions(rows) : TripRows(rows, p[1])[p[2]] \in G /\ p[2] \in pos[p[1]]}

\* Positions of the trips stand for as many rows.
LEMMA PositionsAreRows ==
  ASSUME NEW rows, Orderable(rows), NEW G, G \subseteq rows, NEW pos,
         DOMAIN pos = TripsOf(rows), \A t \in TripsOf(rows) : pos[t] \subseteq DOMAIN TripRows(rows, t)
  PROVE  Cardinality(G \cap At(rows, pos)) = Cardinality(PlacesOf(rows, G, pos))
<1> DEFINE Q == {p \in Positions(rows) : TripRows(rows, p[1])[p[2]] \in G /\ p[2] \in pos[p[1]]}
           H == G \cap At(rows, pos)
           f == [p \in Q |-> TripRows(rows, p[1])[p[2]]]
<1>1. \A t \in TripsOf(rows) :
        /\ \A i \in DOMAIN TripRows(rows, t) : TripRows(rows, t)[i] \in OfTrip(rows, t)
        /\ \A i, j \in DOMAIN TripRows(rows, t) :
             TripRows(rows, t)[i] = TripRows(rows, t)[j] => i = j
  BY TripRowsNumber
<1>2. \A p : p \in Positions(rows) <=>
        \E t \in TripsOf(rows) : \E i \in DOMAIN TripRows(rows, t) : p = <<t, i>>
  BY DEF Positions
<1>3. f \in [Q -> H]
  <2> SUFFICES ASSUME NEW p \in Q PROVE TripRows(rows, p[1])[p[2]] \in At(rows, pos)
    OBVIOUS
  <2>1. PICK t, i : t \in TripsOf(rows) /\ i \in DOMAIN TripRows(rows, t) /\ p = <<t, i>>
    BY <1>2
  <2>2. i \in pos[t]
    BY <2>1
  <2> QED
    BY <2>1, <2>2 DEF At
<1>4. ASSUME NEW p \in Q, NEW q \in Q, f[p] = f[q]
      PROVE  p = q
  <2>1. PICK t, i : t \in TripsOf(rows) /\ i \in DOMAIN TripRows(rows, t) /\ p = <<t, i>>
    BY <1>2
  <2>2. PICK u, j : u \in TripsOf(rows) /\ j \in DOMAIN TripRows(rows, u) /\ q = <<u, j>>
    BY <1>2
  <2>3. TripRows(rows, t)[i] = TripRows(rows, u)[j]
    BY <1>4, <2>1, <2>2
  <2>4. TripRows(rows, t)[i].trip = t /\ TripRows(rows, u)[j].trip = u
    BY <1>1, <2>1, <2>2 DEF OfTrip
  <2>5. t = u
    BY <2>3, <2>4
  <2>6. i = j
    BY <1>1, <2>1, <2>2, <2>3, <2>5
  <2> QED
    BY <2>1, <2>2, <2>5, <2>6
<1>5. ASSUME NEW row \in H
      PROVE  \E p \in Q : f[p] = row
  <2>1. PICK t, i : t \in TripsOf(rows) /\ i \in pos[t] /\ row = TripRows(rows, t)[i]
    BY DEF At
  <2>2. <<t, i>> \in Positions(rows)
    BY <1>2, <2>1
  <2>3. <<t, i>> \in Q
    BY <2>1, <2>2
  <2> QED
    BY <2>1, <2>3
<1>6. IsFiniteSet(H)
  BY FS_Subset DEF Orderable
<1> HIDE DEF Q, H, f
<1>7. f \in Injection(Q, H) /\ f \in Surjection(Q, H)
  BY <1>3, <1>4, <1>5 DEF Injection, IsInjective, Surjection
<1>8. Cardinality(Q) = Cardinality(H)
  BY <1>6, <1>7, FS_Injection
<1> QED
  BY <1>8 DEF Q, H, PlacesOf

\* Where, on rows of the group, an episode begins.
EpisodesOn(rows, segment, f, k) ==
  {p \in Positions(rows) :
     /\ segment[TripRows(rows, p[1])[p[2]]] = f.segment
     /\ TripRows(rows, p[1])[p[2]].profile = f.profile
     /\ \E r \in SustainedRuns(TripRows(rows, p[1]), k) : r[1] = p[2]}

\* Each event kind counts the episodes that begin on the rows of the group.
LEMMA EventsCounted ==
  ASSUME NEW rows, Orderable(rows), NEW segment, NEW f \in HourlyFeatures(rows, segment)
  PROVE  /\ \A k \in Kinds : f[k] = Cardinality(EpisodesOn(rows, segment, f, k))
         /\ f.steer_reversal = Cardinality({p \in Positions(rows) :
              /\ segment[TripRows(rows, p[1])[p[2]]] = f.segment
              /\ TripRows(rows, p[1])[p[2]].profile = f.profile
              /\ p[2] \in DirectionChanges(TripRows(rows, p[1]))})
<1> DEFINE G == GroupOf(rows, segment, f)
           Row(p) == TripRows(rows, p[1])[p[2]]
<1>1. G \subseteq rows
  BY DEF GroupOf
<1>2. /\ \A k \in Kinds : f[k] = Cardinality(G \cap EventStarts(rows, k))
      /\ f.steer_reversal = Cardinality(G \cap ReversalRows(rows))
  BY FeatureRow
<1>3. \A t \in TripsOf(rows) : \E n : /\ Timed(TripRows(rows, t), n)
                                      /\ \A i \in 1..n : TripRows(rows, t)[i] \in rows
  <2> SUFFICES ASSUME NEW t \in TripsOf(rows)
               PROVE  \E n : /\ Timed(TripRows(rows, t), n)
                             /\ \A i \in 1..n : TripRows(rows, t)[i] \in rows
    OBVIOUS
  <2>1. PICK n \in Nat : TripRows(rows, t) \in [1..n -> OfTrip(rows, t)]
    BY TripRowsNumber
  <2>2. \A a \in OfTrip(rows, t) : a \in rows /\ a.time \in Int
    BY DEF OfTrip, Orderable
  <2> QED
    BY <2>1, <2>2 DEF Timed
<1>4. ASSUME NEW p \in Positions(rows)
      PROVE  /\ p[1] \in TripsOf(rows)
             /\ \E n : /\ Timed(TripRows(rows, p[1]), n) /\ p[2] \in 1..n
                       /\ Row(p) \in rows
  <2>1. PICK t, i : t \in TripsOf(rows) /\ i \in DOMAIN TripRows(rows, t) /\ p = <<t, i>>
    BY DEF Positions
  <2>2. PICK n : /\ Timed(TripRows(rows, t), n)
                 /\ \A j \in 1..n : TripRows(rows, t)[j] \in rows
    BY <1>3, <2>1
  <2>3. i \in 1..n
    BY <2>1, <2>2 DEF Timed
  <2> QED
    BY <2>1, <2>2, <2>3
<1>5. \A p \in Positions(rows) :
        Row(p) \in G <=> segment[Row(p)] = f.segment /\ Row(p).profile = f.profile
  BY <1>4 DEF GroupOf
<1>6. ASSUME NEW k \in Kinds
      PROVE  f[k] = Cardinality(EpisodesOn(rows, segment, f, k))
  <2> DEFINE pos == [t \in TripsOf(rows) |-> Starts(TripRows(rows, t), k)]
  <2>1. EventStarts(rows, k) = At(rows, pos)
    BY DEF EventStarts
  <2>2. \A t \in TripsOf(rows) : pos[t] \subseteq DOMAIN TripRows(rows, t)
    BY DEF Starts
  <2>3. Cardinality(G \cap At(rows, pos)) = Cardinality(PlacesOf(rows, G, pos))
    <3>1. DOMAIN pos = TripsOf(rows)
      OBVIOUS
    <3> HIDE DEF pos, G
    <3> QED
      BY <1>1, <2>2, <3>1, PositionsAreRows
  <2>4. \A p \in Positions(rows) :
          p[2] \in pos[p[1]] <=> \E r \in SustainedRuns(TripRows(rows, p[1]), k) : r[1] = p[2]
    BY <1>4, StartsAreEpisodes
  <2>5. PlacesOf(rows, G, pos)
          = EpisodesOn(rows, segment, f, k)
    BY <1>5, <2>4 DEF PlacesOf, EpisodesOn
  <2> QED
    BY <1>2, <2>1, <2>3, <2>5
<1>7. f.steer_reversal = Cardinality({p \in Positions(rows) :
        /\ segment[Row(p)] = f.segment /\ Row(p).profile = f.profile
        /\ p[2] \in DirectionChanges(TripRows(rows, p[1]))})
  <2> DEFINE pos == [t \in TripsOf(rows) |-> Reversals(TripRows(rows, t))]
  <2>1. ReversalRows(rows) = At(rows, pos)
    BY DEF ReversalRows
  <2>2. \A t \in TripsOf(rows) : pos[t] \subseteq DOMAIN TripRows(rows, t)
    BY DEF Reversals
  <2>3. Cardinality(G \cap At(rows, pos)) = Cardinality(PlacesOf(rows, G, pos))
    <3>1. DOMAIN pos = TripsOf(rows)
      OBVIOUS
    <3> HIDE DEF pos, G
    <3> QED
      BY <1>1, <2>2, <3>1, PositionsAreRows
  <2>4. \A p \in Positions(rows) :
          p[2] \in pos[p[1]] <=> p[2] \in DirectionChanges(TripRows(rows, p[1]))
    BY <1>4, ReversalsAreChanges DEF Timed
  <2>5. PlacesOf(rows, G, pos)
          = {p \in Positions(rows) :
               /\ segment[Row(p)] = f.segment /\ Row(p).profile = f.profile
               /\ p[2] \in DirectionChanges(TripRows(rows, p[1]))}
    BY <1>5, <2>4 DEF PlacesOf
  <2> QED
    BY <1>2, <2>1, <2>3, <2>5
<1> QED
  BY <1>6, <1>7

-----------------------------------------------------------------------------
(***************************************************************************)
(* What the run in progress has stored.                                    *)
(***************************************************************************)
Stored ==
  /\ features = [h \in HourSet |-> features[h]]
  /\ quarantine = [h \in HourSet |-> quarantine[h]]
  /\ run # NULL =>
       /\ run.stage # "cleansed" =>
            quarantine[run.hour]
              = OrNothing(Rejects(run.rows, run.kept) \cup Unmatched(run.segment))
       /\ run.stage \notin {"cleansed", "quarantined"} =>
            features[run.hour] = HourlyFeatures(DOMAIN run.segment, run.segment)

LEMMA StoredInit == HourInit => Stored
BY DEF HourInit, Stored

LEMMA StoredStep ==
  ASSUME Working, Stored, [HourNext]_hourVars
  PROVE  Stored'
<1>1. CASE Load \/ Tick \/ StandardScore \/ UNCHANGED hourVars
  BY <1>1 DEF Load, Tick, StandardScore, hourVars, partitions, Stored
<1>2. CASE \E h \in HourSet : StartRun(h)
  <2>1. PICK h \in HourSet : StartRun(h)
    BY <1>2
  <2>2. run'.stage = "cleansed" /\ UNCHANGED <<features, quarantine>>
    BY <2>1 DEF StartRun, partitions
  <2> QED
    BY <2>2 DEF Stored
<1>3. ASSUME run # NULL, NEW st, run' = [run EXCEPT !.stage = st]
      PROVE  /\ run.hour \in HourSet /\ run'.hour = run.hour /\ run'.stage = st
             /\ run'.rows = run.rows /\ run'.kept = run.kept /\ run'.segment = run.segment
  <2>1. /\ run = [hour |-> run.hour, stage |-> run.stage, rows |-> run.rows,
                  kept |-> run.kept, segment |-> run.segment]
        /\ run.hour \in HourSet
    BY <1>3 DEF Working, RunOf
  <2>2. run' = [hour |-> run.hour, stage |-> st, rows |-> run.rows,
                kept |-> run.kept, segment |-> run.segment]
    BY <1>3, <2>1
  <2> QED
    BY <2>1, <2>2
<1>4. CASE WriteQuarantine
  <2> DEFINE rows == OrNothing(Rejects(run.rows, run.kept) \cup Unmatched(run.segment))
  <2>1. /\ run # NULL /\ run' = [run EXCEPT !.stage = "quarantined"]
        /\ quarantine' = [quarantine EXCEPT ![run.hour] = rows]
        /\ features' = features
    BY <1>4 DEF WriteQuarantine
  <2>2. rows' = rows
    BY <1>3, <2>1
  <2> HIDE DEF rows
  <2>3. quarantine' = [h \in HourSet |-> quarantine'[h]] /\ quarantine'[run.hour] = rows
    BY <1>3, <2>1 DEF Stored
  <2>4. quarantine'[run'.hour]
          = OrNothing(Rejects(run'.rows, run'.kept) \cup Unmatched(run'.segment))
    BY <1>3, <2>1, <2>3 DEF rows
  <2>5. run'.stage = "quarantined"
    BY <1>3, <2>1
  <2> QED
    BY <2>1, <2>3, <2>4, <2>5 DEF Stored
<1>5. CASE WriteFeatures
  <2> DEFINE rows == HourlyFeatures(DOMAIN run.segment, run.segment)
  <2>1. /\ run # NULL /\ run.stage = "quarantined" /\ run' = [run EXCEPT !.stage = "featured"]
        /\ features' = [features EXCEPT ![run.hour] = rows]
        /\ quarantine' = quarantine
    BY <1>5 DEF WriteFeatures
  <2> HIDE DEF rows
  <2>2. features' = [h \in HourSet |-> features'[h]] /\ features'[run.hour] = rows
    BY <1>3, <2>1 DEF Stored
  <2>3. features'[run'.hour] = HourlyFeatures(DOMAIN run'.segment, run'.segment)
    BY <1>3, <2>1, <2>2 DEF rows
  <2>4. quarantine'[run'.hour]
          = OrNothing(Rejects(run'.rows, run'.kept) \cup Unmatched(run'.segment))
    BY <1>3, <2>1 DEF Stored
  <2> QED
    BY <2>1, <2>2, <2>3, <2>4 DEF Stored
<1>6. ASSUME run # NULL, run.stage \notin {"cleansed", "quarantined"}, NEW st,
             run' = [run EXCEPT !.stage = st], UNCHANGED <<features, quarantine>>
      PROVE  Stored'
  <2>1. features[run'.hour] = HourlyFeatures(DOMAIN run'.segment, run'.segment)
    BY <1>3, <1>6 DEF Stored
  <2>2. quarantine[run'.hour]
          = OrNothing(Rejects(run'.rows, run'.kept) \cup Unmatched(run'.segment))
    BY <1>3, <1>6 DEF Stored
  <2> QED
    BY <1>6, <2>1, <2>2 DEF Stored
<1>7. CASE Validate
  BY <1>6, <1>7 DEF Validate, partitions
<1>8. CASE ScoreHour
  BY <1>6, <1>8 DEF ScoreHour
<1>9. CASE WriteRejected
  BY <1>6, <1>9 DEF WriteRejected
<1>10. CASE ValidateScores \/ FailRun
  BY <1>10 DEF ValidateScores, FailRun, partitions, Stored
<1> QED
  BY <1>1, <1>2, <1>4, <1>5, <1>7, <1>8, <1>9, <1>10 DEF HourNext

LEMMA StoredAlways == HourSpec => [](Given /\ Working /\ Stored)
<1>1. HourInit => Given /\ Working /\ Stored
  BY GivenKept, StoredInit
<1>2. Given /\ Working /\ Stored /\ [HourNext]_hourVars => (Given /\ Working /\ Stored)'
  BY GivenStep, StoredStep
<1> QED
  BY <1>1, <1>2, PTL DEF HourSpec

\* Of any rows, the events and reversals of a feature row are the episodes and
\* the changes of direction of the hour that begin on its samples
\* (sensor_features/feature_pipeline.py, events.py, steering.py).
THEOREM EpisodesCountedOnce == HourSpec => []EventsAreEpisodes
<1>1. Given /\ Working /\ Stored => EventsAreEpisodes
  <2> SUFFICES ASSUME Given, RunOf(run), Stored, run # NULL, run.stage = "featured"
               PROVE  EventsAreEpisodes
    BY DEF EventsAreEpisodes, Working
  <2> DEFINE rows == DOMAIN run.segment
             trips == [t \in TripsOf(rows) |-> TripRows(rows, t)]
             Q == UNION {{t} \X DOMAIN trips[t] : t \in DOMAIN trips}
             On(f, p) == LET row == trips[p[1]][p[2]]
                         IN run.segment[row] = f.segment /\ row.profile = f.profile
  <2>1. Orderable(rows)
    BY RunFacts
  <2>2. features[run.hour] = HourlyFeatures(rows, run.segment)
    BY DEF Stored
  <2>3. Q = Positions(rows)
    BY DEF Positions
  <2>4. \A p \in Positions(rows) :
          /\ trips[p[1]] = TripRows(rows, p[1])
          /\ \A f : On(f, p) <=> /\ run.segment[TripRows(rows, p[1])[p[2]]] = f.segment
                                 /\ TripRows(rows, p[1])[p[2]].profile = f.profile
    BY DEF Positions
  <2>5. ASSUME NEW f \in features[run.hour], NEW k \in Kinds
        PROVE  f[k] = Cardinality({p \in Q :
                 On(f, p) /\ \E r \in SustainedRuns(trips[p[1]], k) : r[1] = p[2]})
    <3>1. f[k] = Cardinality(EpisodesOn(rows, run.segment, f, k))
      <4>1. f \in HourlyFeatures(rows, run.segment)
        BY <2>2
      <4> HIDE DEF rows, Q, On, trips
      <4>2. \A kind \in Kinds : f[kind] = Cardinality(EpisodesOn(rows, run.segment, f, kind))
        BY <2>1, <4>1, EventsCounted
      <4> QED
        BY <4>2
    <3>2. {p \in Q : On(f, p) /\ \E r \in SustainedRuns(trips[p[1]], k) : r[1] = p[2]}
            = EpisodesOn(rows, run.segment, f, k)
      <4> HIDE DEF On, trips, Q
      <4> QED
        BY <2>3, <2>4 DEF EpisodesOn
    <3> QED
      BY <3>1, <3>2
  <2>6. ASSUME NEW f \in features[run.hour]
        PROVE  f.steer_reversal = Cardinality({p \in Q :
                 On(f, p) /\ p[2] \in DirectionChanges(trips[p[1]])})
    <3>1. f.steer_reversal = Cardinality({p \in Positions(rows) :
              /\ run.segment[TripRows(rows, p[1])[p[2]]] = f.segment
              /\ TripRows(rows, p[1])[p[2]].profile = f.profile
              /\ p[2] \in DirectionChanges(TripRows(rows, p[1]))})
      BY <2>1, <2>2, EventsCounted
    <3>2. {p \in Q : On(f, p) /\ p[2] \in DirectionChanges(trips[p[1]])}
            = {p \in Positions(rows) :
              /\ run.segment[TripRows(rows, p[1])[p[2]]] = f.segment
              /\ TripRows(rows, p[1])[p[2]].profile = f.profile
              /\ p[2] \in DirectionChanges(TripRows(rows, p[1]))}
      <4> HIDE DEF On, trips, Q
      <4> QED
        BY <2>3, <2>4
    <3> QED
      BY <3>1, <3>2
  <2> QED
    BY <2>5, <2>6 DEF EventsAreEpisodes
<1> QED
  BY <1>1, StoredAlways, PTL

-----------------------------------------------------------------------------
(***************************************************************************)
(* What is read is counted or quarantined.                                 *)
(***************************************************************************)
\* Parts without common elements have as many elements as their union.
LEMMA SumOfSizes ==
  ASSUME NEW S, IsFiniteSet(S), NEW part, NEW at,
         \A x \in S : IsFiniteSet(part[x]) /\ at[x] = Cardinality(part[x]),
         \A x, y \in S : x # y => part[x] \cap part[y] = {}
  PROVE  Sum(S, at) = Cardinality(UNION {part[x] : x \in S})
<1> DEFINE Covered(s) == UNION {part[x] : x \in s}
           Good == {s \in SUBSET S : Sum(s, at) = Cardinality(Covered(s))}
<1>1. \A x \in S : at[x] \in Int
  BY FS_CardinalityType
<1>2. ASSUME NEW s \in SUBSET S
      PROVE  IsFiniteSet(s) /\ IsFiniteSet(Covered(s))
  <2>1. IsFiniteSet(s)
    BY FS_Subset
  <2>2. IsFiniteSet({part[x] : x \in s})
    BY <2>1, ImageFinite
  <2> QED
    BY <2>1, <2>2, FS_UNION
<1>3. {} \in Good
  <2>1. Sum({}, at) = 0
    BY FS_EmptySet, SumAdds
  <2> QED
    BY <2>1, FS_EmptySet
<1>4. ASSUME NEW s \in SUBSET S, NEW x \in S, s \in Good, x \notin s
      PROVE  s \cup {x} \in Good
  <2> DEFINE t == s \cup {x}
  <2>1. t \in SUBSET S /\ t \ {x} = s /\ x \in t
    BY <1>4
  <2>2. IsFiniteSet(t) /\ \A y \in t : at[y] \in Int
    BY <1>1, <1>2, <2>1
  <2>3. Sum(t, at) = at[x] + Sum(s, at)
    <3> HIDE DEF t
    <3>1. \A y \in t : Sum(t, at) = at[y] + Sum(t \ {y}, at)
      BY <2>2, SumAdds
    <3> QED
      BY <2>1, <3>1
  <2>4. Covered(t) = Covered(s) \cup part[x] /\ Covered(s) \cap part[x] = {}
    BY <1>4
  <2>5. IsFiniteSet(Covered(s)) /\ IsFiniteSet(part[x])
    BY <1>2
  <2> HIDE DEF Covered
  <2>6. Cardinality(Covered(s) \cup part[x]) = Cardinality(Covered(s)) + Cardinality(part[x]) - 0
    BY <2>4, <2>5, FS_Union, FS_EmptySet
  <2>7. Cardinality(Covered(s)) \in Nat /\ Cardinality(part[x]) \in Nat
    BY <2>5, FS_CardinalityType
  <2>8. Sum(s, at) = Cardinality(Covered(s))
    BY <1>4
  <2>9. at[x] = Cardinality(part[x])
    OBVIOUS
  <2>10. Sum(t, at) = Cardinality(part[x]) + Cardinality(Covered(s))
    BY <2>3, <2>8, <2>9
  <2>11. Cardinality(Covered(t)) = Cardinality(Covered(s)) + Cardinality(part[x]) - 0
    BY <2>4, <2>6
  <2> QED
    BY <2>1, <2>7, <2>10, <2>11
<1> HIDE DEF Good
<1>5. S \in Good
  BY <1>3, <1>4, FiniteInduction
<1> QED
  BY <1>5 DEF Good

\* A segment and a profile with a matched row have one feature row.
LEMMA FeatureRowsDiffer ==
  ASSUME NEW rows, NEW segment
  PROVE  LET F == HourlyFeatures(rows, segment)
         IN /\ \A f, g \in F : f.segment = g.segment /\ f.profile = g.profile => f = g
            /\ \A row \in rows : segment[row] # NULL =>
                 \E f \in F : f.segment = segment[row] /\ f.profile = row.profile
<1> DEFINE matched == {row \in rows : segment[row] # NULL}
           Of(key) == {row \in matched : segment[row] = key[1] /\ row.profile = key[2]}
           Keys == {<<segment[row], row.profile>> : row \in matched}
           Row(key) ==
            [segment |-> key[1], profile |-> key[2],
             samples |-> Cardinality(Of(key)),
             trips |-> Cardinality(TripsOf(Of(key))),
             avg_speed |-> Average(Of(key), "speed"),
             rms_accel_x |-> RootMeanSquare(Of(key), "accel"),
             p95_abs_accel_z |-> P95Abs(Of(key), "rough"),
             hard_accel |-> Cardinality(Of(key) \cap EventStarts(rows, "hard_accel")),
             hard_brake |-> Cardinality(Of(key) \cap EventStarts(rows, "hard_brake")),
             sharp_steer |-> Cardinality(Of(key) \cap EventStarts(rows, "sharp_steer")),
             steer_reversal |-> Cardinality(Of(key) \cap ReversalRows(rows))]
<1>1. HourlyFeatures(rows, segment) = {Row(key) : key \in Keys}
  BY DEF HourlyFeatures, Kinds
<1>0. \A row \in rows : segment[row] # NULL => <<segment[row], row.profile>> \in Keys
  OBVIOUS
<1>2. \A key \in Keys : key = <<key[1], key[2]>>
  OBVIOUS
<1>3. \A key : Row(key).segment = key[1] /\ Row(key).profile = key[2]
  OBVIOUS
<1> HIDE DEF Row, Keys
<1>4. ASSUME NEW f \in HourlyFeatures(rows, segment), NEW g \in HourlyFeatures(rows, segment),
             f.segment = g.segment, f.profile = g.profile
      PROVE  f = g
  <2>1. PICK a \in Keys, b \in Keys : f = Row(a) /\ g = Row(b)
    BY <1>1
  <2>2. a = b
    BY <1>2, <1>3, <1>4, <2>1
  <2> QED
    BY <2>1, <2>2
<1>5. ASSUME NEW row \in rows, segment[row] # NULL
      PROVE  \E f \in HourlyFeatures(rows, segment) :
               f.segment = segment[row] /\ f.profile = row.profile
  <2>1. <<segment[row], row.profile>> \in Keys
    BY <1>0, <1>5
  <2>2. Row(<<segment[row], row.profile>>) \in HourlyFeatures(rows, segment)
    BY <1>1, <2>1
  <2>3. /\ Row(<<segment[row], row.profile>>).segment = segment[row]
        /\ Row(<<segment[row], row.profile>>).profile = row.profile
    BY <1>3
  <2> QED
    BY <2>2, <2>3
<1> QED
  BY <1>4, <1>5

LEMMA FeaturesAreFinite ==
  ASSUME NEW rows, IsFiniteSet(rows), NEW segment
  PROVE  IsFiniteSet(HourlyFeatures(rows, segment))
<1> DEFINE F == HourlyFeatures(rows, segment)
           matched == {row \in rows : segment[row] # NULL}
           key == [row \in matched |-> <<segment[row], row.profile>>]
           row == [f \in F |-> CHOOSE a \in matched : key[a] = <<f.segment, f.profile>>]
<1>1. IsFiniteSet(matched)
  BY FS_Subset
<1>2. \A f \in F : row[f] \in matched /\ key[row[f]] = <<f.segment, f.profile>>
  <2> SUFFICES ASSUME NEW f \in F
               PROVE  \E a \in matched : key[a] = <<f.segment, f.profile>>
    OBVIOUS
  <2>1. f.segment # NULL /\ GroupOf(rows, segment, f) # {}
    BY FeatureRow
  <2> QED
    BY <2>1 DEF GroupOf
<1>3. \A f, g \in F : row[f] = row[g] => f = g
  <2> SUFFICES ASSUME NEW f \in F, NEW g \in F, row[f] = row[g] PROVE f = g
    OBVIOUS
  <2>1. <<f.segment, f.profile>> = <<g.segment, g.profile>>
    BY <1>2
  <2>2. f.segment = g.segment /\ f.profile = g.profile
    BY <2>1
  <2> QED
    BY <2>2, FeatureRowsDiffer
<1> HIDE DEF key
<1>4. row \in [F -> matched]
  BY <1>2
<1> HIDE DEF matched, row
<1>5. row \in Injection(F, matched)
  BY <1>3, <1>4 DEF Injection, IsInjective
<1> QED
  BY <1>1, <1>5, FS_Injection

\* The samples of the feature rows are the matched rows.
LEMMA SamplesAddUp ==
  ASSUME NEW rows, IsFiniteSet(rows), NEW segment
  PROVE  LET F == HourlyFeatures(rows, segment)
         IN Sum(F, [f \in F |-> f.samples]) = Cardinality({row \in rows : segment[row] # NULL})
<1> DEFINE F == HourlyFeatures(rows, segment)
           matched == {row \in rows : segment[row] # NULL}
           part == [f \in F |-> GroupOf(rows, segment, f)]
           at == [f \in F |-> f.samples]
<1>1. IsFiniteSet(F)
  BY FeaturesAreFinite
<1>2. \A f \in F : IsFiniteSet(part[f]) /\ at[f] = Cardinality(part[f])
  <2> TAKE f \in F
  <2>1. f.samples = Cardinality(GroupOf(rows, segment, f))
    BY FeatureRow
  <2>2. IsFiniteSet(GroupOf(rows, segment, f))
    BY FS_Subset DEF GroupOf
  <2> QED
    BY <2>1, <2>2
<1>3. \A f, g \in F : f # g => part[f] \cap part[g] = {}
  BY FeatureRowsDiffer DEF GroupOf
<1>4. UNION {part[f] : f \in F} = matched
  <2>1. \A f \in F : part[f] \subseteq matched
    <3> SUFFICES ASSUME NEW f \in F PROVE GroupOf(rows, segment, f) \subseteq matched
      OBVIOUS
    <3>1. f.segment # NULL
      BY FeatureRow
    <3> QED
      BY <3>1 DEF GroupOf
  <2>2. ASSUME NEW a \in matched
        PROVE  \E f \in F : a \in part[f]
    <3>1. PICK f \in F : f.segment = segment[a] /\ f.profile = a.profile
      BY FeatureRowsDiffer
    <3> QED
      BY <3>1 DEF GroupOf
  <2> QED
    BY <2>1, <2>2
<1> HIDE DEF part, at, F, matched
<1>5. Sum(F, at) = Cardinality(UNION {part[f] : f \in F})
  BY <1>1, <1>2, <1>3, SumOfSizes
<1> QED
  BY <1>4, <1>5 DEF F, at, matched

Reasons == {"MALFORMED_JSON", "MISSING_REQUIRED_FIELD", "OUT_OF_RANGE", "DUPLICATE_EVENT",
            "MAP_MATCH_FAILED"}

\* NULL stands for a partition that is not there, so no partition is NULL.
NoPartitionIsNull == \A rows \in SUBSET [offset : Nat, reason : Reasons] : rows # NULL

\* The rows that are not matched, one by one.
Lost(rows, kept, segment) ==
  (rows \ kept) \cup {row \in DOMAIN segment : segment[row] = NULL}

\* As offsets are unique, each of them has its own row in the quarantine.
LEMMA QuarantineCounts ==
  ASSUME NoPartitionIsNull,
         NEW rows, IsFiniteSet(rows), rows \subseteq BronzeRow,
         \A a, b \in rows : a.offset = b.offset => a = b,
         NEW kept, NEW segment, DOMAIN segment \subseteq kept, kept \subseteq rows
  PROVE  CountOf(OrNothing(Rejects(rows, kept) \cup Unmatched(segment)))
           = Cardinality(Lost(rows, kept, segment))
<1> DEFINE L == Lost(rows, kept, segment)
           why(row) == IF row \in kept THEN "MAP_MATCH_FAILED" ELSE RejectReason(row)
           Q == Rejects(rows, kept) \cup Unmatched(segment)
           f == [row \in L |-> Quarantined(row, why(row))]
<1>1. L \subseteq rows /\ IsFiniteSet(L)
  <2>1. L \subseteq rows
    BY DEF Lost
  <2> QED
    BY <2>1, FS_Subset
<1>2. Q = {f[row] : row \in L}
  BY DEF Lost, Rejects, Unmatched
<1>3. \A row \in rows : row.offset \in Nat
  BY DEF BronzeRow
<1>4. \A row \in L : f[row] \in [offset : Nat, reason : Reasons] /\ f[row].offset = row.offset
  <2> SUFFICES ASSUME NEW row \in L
               PROVE  /\ Quarantined(row, why(row)) \in [offset : Nat, reason : Reasons]
                      /\ Quarantined(row, why(row)).offset = row.offset
    OBVIOUS
  <2>1. why(row) \in Reasons
    BY Zenon DEF RejectReason, Reasons
  <2> HIDE DEF why, L
  <2> QED
    BY <1>1, <1>3, <2>1 DEF Quarantined
<1> HIDE DEF f, L
<1>5. Q \in SUBSET [offset : Nat, reason : Reasons]
  BY <1>2, <1>4
<1>6. Cardinality(Q) = Cardinality(L) /\ IsFiniteSet(Q)
  <2>1. f \in [L -> Q]
    <3>1. f = [row \in L |-> f[row]]
      BY DEF f
    <3> HIDE DEF Q
    <3> QED
      BY <1>2, <3>1
  <2>2. \A a, b \in L : f[a] = f[b] => a = b
    BY <1>1, <1>4
  <2>3. f \in Surjection(L, Q) /\ f \in Injection(L, Q)
    <3> HIDE DEF Q
    <3> QED
      BY <1>2, <2>1, <2>2 DEF Surjection, Injection, IsInjective
  <2>4. IsFiniteSet(Q)
    BY <1>1, <2>3, FS_Surjection
  <2> QED
    BY <1>1, <2>3, <2>4, FS_Injection
<1>7. CountOf(OrNothing(Q)) = Cardinality(Q)
  <2>1. Q # NULL
    BY <1>5 DEF NoPartitionIsNull
  <2> HIDE DEF Q
  <2>2. CASE Q = {}
    BY <2>2, FS_EmptySet DEF CountOf, OrNothing
  <2>3. CASE Q # {}
    BY <2>1, <2>3 DEF CountOf, OrNothing
  <2> QED
    BY <2>2, <2>3
<1> QED
  BY <1>6, <1>7 DEF L

\* A valid row of the hour, as RowsAccountedFor has it.
ValidRow(row) ==
  /\ row.parsed
  /\ \A c \in Required : row[c] # NULL
  /\ Readable(row.time) => row.time \in TimeBounds.least..TimeBounds.most
  /\ \A c \in DOMAIN Ranges : row[c] # NULL =>
       /\ Ranges[c].least <= row[c]
       /\ row[c] < Ranges[c].most \/ (row[c] = Ranges[c].most /\ ~Ranges[c].open)

LEMMA SoundIsValid ==
  ASSUME NEW rows, rows \subseteq BronzeRow
  PROVE  Sound(rows) = {row \in rows : ValidRow(row)}
<1> SUFFICES ASSUME NEW row \in rows
             PROVE  (row.parsed /\ MissingColumns(row) = {} /\ ~OutOfRange(row)) <=> ValidRow(row)
  BY DEF Sound
<1>1. MissingColumns(row) = {} <=> \A c \in Required : row[c] # NULL
  BY DEF MissingColumns
<1>2. ASSUME NEW c \in DOMAIN Ranges
      PROVE  ViolatesRange(row, c) <=>
               ~(row[c] # NULL =>
                   /\ Ranges[c].least <= row[c]
                   /\ row[c] < Ranges[c].most \/ (row[c] = Ranges[c].most /\ ~Ranges[c].open))
  <2>1. Ranges[c].least \in Int /\ Ranges[c].most \in Int
    BY CleansingAssumption
  <2>2. c \in {"event", "trip", "seq", "ingested", "profile", "speed",
               "heading", "accel", "angle", "rough"}
    BY CleansingAssumption
  <2>3. row[c] \in Column
    BY <2>2 DEF BronzeRow
  <2> DEFINE v == row[c]
             least == Ranges[c].least
             most == Ranges[c].most
             open == Ranges[c].open
  <2>4. CASE v = NULL
    BY <2>4 DEF ViolatesRange
  <2>5. CASE v \in Int
    <3>1. ViolatesRange(row, c) <=> v # NULL /\ (v < least \/ v > most \/ (open /\ v = most))
      BY DEF ViolatesRange
    <3>2. least \in Int /\ most \in Int
      BY <2>1
    <3> HIDE DEF v, least, most, open
    <3>3. (v < least \/ v > most \/ (open /\ v = most))
            <=> ~(least <= v /\ (v < most \/ (v = most /\ ~open)))
      BY <2>5, <3>2
    <3>4. ViolatesRange(row, c) <=>
            ~(v # NULL => least <= v /\ (v < most \/ (v = most /\ ~open)))
      BY <3>1, <3>3
    <3> QED
      BY <3>4 DEF v, least, most, open
  <2> QED
    BY <2>3, <2>4, <2>5 DEF Column
<1>3. ~OutOfRange(row) <=>
        /\ Readable(row.time) => row.time \in TimeBounds.least..TimeBounds.most
        /\ \A c \in DOMAIN Ranges : ~ViolatesRange(row, c)
  BY DEF OutOfRange, ViolatesTimeBounds
<1> QED
  BY <1>1, <1>2, <1>3 DEF ValidRow

\* Of any rows, each one read is counted once, quarantined, or left out because
\* its time cannot be converted (cleansing/validate.py,
\* hourly_segment_feature_job.py run_hourly_segment_feature_job).
THEOREM NothingLost ==
  ASSUME NoPartitionIsNull
  PROVE  HourSpec => []RowsAccountedFor
<1>1. Given /\ Working /\ Stored => RowsAccountedFor
  <2> SUFFICES ASSUME Given, RunOf(run), Stored, run # NULL,
                      run.stage \in {"featured", "validated", "scored"}
               PROVE  RowsAccountedFor
    BY DEF RowsAccountedFor, Working
  <2> DEFINE rows == run.rows
             kept == run.kept
             segment == run.segment
             M == Matchable(kept)
             counted == {row \in DOMAIN segment : segment[row] # NULL}
             F == HourlyFeatures(DOMAIN segment, segment)
             samples == Sum(features[run.hour], [f \in features[run.hour] |-> f.samples])
  <2>1. /\ IsFiniteSet(rows) /\ rows \subseteq BronzeRow
        /\ kept \subseteq Sound(rows)
        /\ M \subseteq kept /\ IsFiniteSet(M)
        /\ \A row \in M : MatchRow(row) /\ Readable(row.time)
        /\ DOMAIN segment = M
        /\ \A row \in M : segment[row] = MatchedSegment(row, input.roads)
    BY RunFacts
  <2>2. /\ rows \subseteq {row \in AllRows : HourOf(AssignedTime(row)) = run.hour}
        /\ kept \in Survivors(Sound(rows))
        /\ UsableRoads(input.roads, Snapshot)
    BY DEF RunOf
  <2>3. /\ features[run.hour] = F
        /\ quarantine[run.hour] = OrNothing(Rejects(rows, kept) \cup Unmatched(segment))
    BY DEF Stored
  <2>4. kept \subseteq rows
    BY <2>1 DEF Sound
  <2>5. samples = Cardinality(counted)
    <3> HIDE DEF M
    <3> QED
      BY <2>1, <2>3, SamplesAddUp
  <2>6. CountOf(quarantine[run.hour]) = Cardinality(Lost(rows, kept, segment))
    <3>1. \A a, b \in rows : a.offset = b.offset => a = b
      BY <2>2, AllRowsFacts
    <3> HIDE DEF rows, kept, segment, M
    <3> QED
      BY <2>1, <2>3, <2>4, <3>1, QuarantineCounts
  <2>7. samples + CountOf(quarantine[run.hour]) + Cardinality(Unconvertible(kept))
          = Cardinality(rows)
    <3> DEFINE lost == Lost(rows, kept, segment)
               late == Unconvertible(kept)
    <3>1. /\ rows = (counted \cup lost) \cup late
          /\ counted \cap lost = {} /\ (counted \cup lost) \cap late = {}
      BY <2>1, <2>4 DEF Lost, Matchable, Unconvertible
    <3> HIDE DEF lost, late, counted, rows, samples
    <3>2. IsFiniteSet(counted) /\ IsFiniteSet(lost) /\ IsFiniteSet(late) /\ IsFiniteSet(counted \cup lost)
      BY <2>1, <3>1, FS_Subset
    <3>3. Cardinality(counted \cup lost) = Cardinality(counted) + Cardinality(lost) - 0
      BY <3>1, <3>2, FS_Union, FS_EmptySet
    <3>4. Cardinality(rows) = Cardinality(counted \cup lost) + Cardinality(late) - 0
      BY <3>1, <3>2, FS_Union, FS_EmptySet
    <3>5. Cardinality(counted) \in Nat /\ Cardinality(lost) \in Nat /\ Cardinality(late) \in Nat
      BY <3>2, FS_CardinalityType
    <3>6. samples = Cardinality(counted) /\ CountOf(quarantine[run.hour]) = Cardinality(lost)
      BY <2>5, <2>6 DEF lost
    <3>7. samples + CountOf(quarantine[run.hour]) + Cardinality(late) = Cardinality(rows)
      BY <3>3, <3>4, <3>5, <3>6
    <3> QED
      BY <3>7 DEF late, rows
  <2>8. ASSUME NEW row \in counted
        PROVE  /\ ValidRow(row) /\ Readable(row.time)
               /\ row.time \div HourLength = run.hour
               /\ \E road \in input.roads : Distance[row.place][road.segment] <= Radius
               /\ \A other \in rows \ {row} : other.event = row.event =>
                    other \notin counted /\ (ValidRow(other) => other.ingested <= row.ingested)
    <3>1. row \in M /\ row \in kept /\ row \in Sound(rows) /\ row \in rows
      BY <2>1, <2>4
    <3>2. ValidRow(row) /\ Readable(row.time)
      BY <2>1, <3>1, SoundIsValid
    <3>3. row.time \div HourLength = run.hour
      BY <2>2, <3>1, <3>2 DEF HourOf, AssignedTime
    <3>4. \E road \in input.roads : Distance[row.place][road.segment] <= Radius
      <4>1. MatchRow(row) /\ MatchedSegment(row, input.roads) # NULL
        BY <2>1, <3>1
      <4>2. Candidates(row, input.roads) # {}
        BY <2>2, <4>1, RoadFacts, BestCandidate
      <4> QED
        BY <4>2 DEF Candidates, DistanceOf
    <3>5. ASSUME NEW other \in rows \ {row}, other.event = row.event
          PROVE  other \notin counted /\ (ValidRow(other) => other.ingested <= row.ingested)
      <4>1. \A a, b \in kept : a.event = b.event => a = b
        BY <2>2, SurvivorFacts
      <4>2. IsSurvivor(row, Sound(rows))
        BY <2>2, <3>1, SurvivorFacts
      <4>3. other \notin counted
        BY <2>1, <3>1, <3>5, <4>1
      <4>4. ValidRow(other) => other \in Sound(rows)
        BY <2>1, SoundIsValid
      <4> QED
        BY <3>5, <4>2, <4>3, <4>4 DEF IsSurvivor
    <3> QED
      BY <3>2, <3>3, <3>4, <3>5
  <2> HIDE DEF rows, kept, samples
  <2> QED
    BY <2>5, <2>7, <2>8 DEF RowsAccountedFor, ValidRow, rows, kept, samples
<1> QED
  BY <1>1, StoredAlways, PTL

-----------------------------------------------------------------------------
(***************************************************************************)
(* Averages lie between the least and the greatest of their terms.         *)
(***************************************************************************)
LEMMA Extremes ==
  ASSUME NEW S, IsFiniteSet(S), S # {}, S \subseteq Int
  PROVE  /\ Max(S) \in S /\ \A x \in S : x <= Max(S)
         /\ Min(S) \in S /\ \A x \in S : Min(S) <= x
<1>1. Max(S) \in S /\ \A x \in S : x <= Max(S)
  <2> DEFINE R == {p \in S \X S : p[1] > p[2]}
  <2>1. Orders(R, S)
    BY DEF Orders
  <2>2. PICK m \in S : \A x \in S : <<x, m>> \notin R
    <3> HIDE DEF R
    <3> QED
      BY <2>1, FirstOf
  <2>3. \A x \in S : x <= m
    <3> SUFFICES ASSUME NEW x \in S PROVE ~(x > m)
      OBVIOUS
    <3>1. <<x, m>> \notin R
      BY <2>2
    <3> QED
      BY <3>1
  <2>4. Max(S) = m
    BY <2>3, MaxIs
  <2> QED
    BY <2>3, <2>4
<1>2. Min(S) \in S /\ \A x \in S : Min(S) <= x
  <2> DEFINE R == {p \in S \X S : p[1] < p[2]}
  <2>1. Orders(R, S)
    BY DEF Orders
  <2>2. PICK m \in S : \A x \in S : <<x, m>> \notin R
    <3> HIDE DEF R
    <3> QED
      BY <2>1, FirstOf
  <2>3. \A x \in S : m <= x
    <3> SUFFICES ASSUME NEW x \in S PROVE ~(x < m)
      OBVIOUS
    <3>1. <<x, m>> \notin R
      BY <2>2
    <3> QED
      BY <3>1
  <2>4. Min(S) = m
    BY <2>3, MinIs
  <2> QED
    BY <2>3, <2>4
<1> QED
  BY <1>1, <1>2

LEMMA TimesKeepsOrder ==
  ASSUME NEW a \in Int, NEW b \in Int, a <= b, NEW c \in Nat
  PROVE  a * c <= b * c /\ a * c \in Int /\ b * c \in Int
OBVIOUS

LEMMA DivBetween ==
  ASSUME NEW a \in Int, NEW b \in Nat \ {0}, NEW lo \in Int, NEW hi \in Int,
         lo * b <= a, a <= hi * b
  PROVE  a \div b \in lo..hi
<1>1. a \div b \in Int /\ b * (a \div b) <= a /\ a < b * (a \div b) + b
  OBVIOUS
<1> DEFINE q == a \div b
<1> HIDE DEF q
<1>2. q \in Int /\ b * q <= a /\ a < b * q + b
  BY <1>1 DEF q
<1>3. lo <= q
  <2> SUFFICES ASSUME lo > q PROVE FALSE
    BY <1>2
  <2>1. q + 1 <= lo
    BY <1>2
  <2>2. (q + 1) * b <= lo * b
    BY <1>2, <2>1, TimesKeepsOrder
  <2>3. (q + 1) * b = b * q + b
    BY <1>2
  <2> QED
    BY <1>2, <2>2, <2>3
<1>4. q <= hi
  <2> SUFFICES ASSUME q > hi PROVE FALSE
    BY <1>2
  <2>1. hi + 1 <= q
    BY <1>2
  <2>2. (hi + 1) * b <= q * b
    BY <1>2, <2>1, TimesKeepsOrder
  <2>3. (hi + 1) * b = hi * b + b /\ q * b = b * q
    BY <1>2
  <2> QED
    BY <1>2, <2>2, <2>3
<1> QED
  BY <1>2, <1>3, <1>4 DEF q

LEMMA WeightsAdd ==
  ASSUME NEW S, IsFiniteSet(S), NEW w, \A x \in S : w[x] \in Nat
  PROVE  Sum(S, w) \in Nat /\ \A x \in S : w[x] <= Sum(S, w)
<1> DEFINE Good == {s \in SUBSET S : Sum(s, w) \in Nat}
<1>1. {} \in Good
  BY FS_EmptySet, SumAdds
<1>2. ASSUME NEW s \in SUBSET S, NEW x \in S, s \in Good, x \notin s
      PROVE  s \cup {x} \in Good
  <2> DEFINE t == s \cup {x}
  <2>1. t \in SUBSET S /\ IsFiniteSet(t) /\ t \ {x} = s /\ x \in t
    BY <1>2, FS_Subset
  <2>0. \A y \in t : w[y] \in Int
    OBVIOUS
  <2> HIDE DEF t
  <2>2. \A y \in t : Sum(t, w) = w[y] + Sum(t \ {y}, w)
    BY <2>0, <2>1, SumAdds
  <2>3. Sum(t, w) = w[x] + Sum(s, w) /\ w[x] \in Nat /\ Sum(s, w) \in Nat
    BY <1>2, <2>1, <2>2
  <2>4. Sum(t, w) \in Nat
    BY <2>3
  <2> QED
    BY <2>1, <2>4 DEF t
<1> HIDE DEF Good
<1>3. S \in Good
  BY <1>1, <1>2, FiniteInduction
<1>4. ASSUME NEW s \in SUBSET S
      PROVE  Sum(s, w) \in Nat
  <2>1. IsFiniteSet(s) /\ \A y \in s : w[y] \in Int
    BY FS_Subset
  <2> DEFINE Better == {u \in SUBSET s : Sum(u, w) \in Nat}
  <2>2. {} \in Better
    BY FS_EmptySet, SumAdds
  <2>3. ASSUME NEW u \in SUBSET s, NEW x \in s, u \in Better, x \notin u
        PROVE  u \cup {x} \in Better
    <3>1. u \in Good
      BY <2>3 DEF Good
    <3>2. u \cup {x} \in Good
      BY <1>2, <2>3, <3>1
    <3> QED
      BY <3>2 DEF Good
  <2> HIDE DEF Better
  <2>4. s \in Better
    BY <2>1, <2>2, <2>3, FiniteInduction
  <2> QED
    BY <2>4 DEF Better
<1>5. ASSUME NEW x \in S
      PROVE  w[x] <= Sum(S, w)
  <2>1. Sum(S, w) = w[x] + Sum(S \ {x}, w)
    BY SumAdds
  <2>2. Sum(S \ {x}, w) \in Nat
    BY <1>4
  <2> QED
    BY <2>1, <2>2
<1> QED
  BY <1>4, <1>5

\* The sum of p, the values v with weights w, against that of the weights.
LEMMA WeightedBetween ==
  ASSUME NEW S, IsFiniteSet(S), NEW w, NEW v, NEW p, NEW lo \in Int, NEW hi \in Int,
         \A x \in S : w[x] \in Nat /\ v[x] \in lo..hi /\ p[x] = w[x] * v[x]
  PROVE  /\ Sum(S, w) \in Nat /\ Sum(S, p) \in Int
         /\ lo * Sum(S, w) <= Sum(S, p) /\ Sum(S, p) <= hi * Sum(S, w)
<1> DEFINE Between(s) == lo * Sum(s, w) <= Sum(s, p) /\ Sum(s, p) <= hi * Sum(s, w)
           Good == {s \in SUBSET S : Between(s)}
<1>1. \A x \in S : p[x] \in Int /\ w[x] \in Int
  OBVIOUS
<1>2. \A s \in SUBSET S : IsFiniteSet(s) /\ Sum(s, w) \in Nat /\ Sum(s, p) \in Int
  <2> TAKE s \in SUBSET S
  <2>1. IsFiniteSet(s)
    BY FS_Subset
  <2>2. Sum(s, w) \in Nat
    BY <2>1, WeightsAdd
  <2>3. Sum(s, p) \in Int
    BY <1>1, <2>1, SumAdds
  <2> QED
    BY <2>1, <2>2, <2>3
<1>3. {} \in Good
  <2>1. Sum({}, w) = 0 /\ Sum({}, p) = 0
    BY FS_EmptySet, SumAdds
  <2> QED
    BY <2>1
<1>4. ASSUME NEW s \in SUBSET S, NEW x \in S, s \in Good, x \notin s
      PROVE  s \cup {x} \in Good
  <2> DEFINE t == s \cup {x}
             A == Sum(s, w)
             B == Sum(s, p)
  <2>1. t \in SUBSET S /\ t \ {x} = s /\ x \in t
    BY <1>4
  <2>2. IsFiniteSet(t) /\ A \in Nat /\ B \in Int
    BY <1>2, <2>1
  <2>3. lo * A <= B /\ B <= hi * A
    BY <1>4
  <2> HIDE DEF t, A, B
  <2>4. Sum(t, w) = w[x] + A /\ Sum(t, p) = p[x] + B
    <3>1. \A y \in t : Sum(t, w) = w[y] + Sum(t \ {y}, w)
      BY <1>1, <2>1, <2>2, SumAdds
    <3>2. \A y \in t : Sum(t, p) = p[y] + Sum(t \ {y}, p)
      BY <1>1, <2>1, <2>2, SumAdds
    <3> QED
      BY <2>1, <3>1, <3>2 DEF A, B
  <2>5. PICK u \in Nat, y \in lo..hi : u = w[x] /\ y = v[x] /\ p[x] = u * y
    OBVIOUS
  <2>6. lo * u <= u * y /\ u * y <= hi * u
    <3>1. lo * u <= y * u /\ y * u <= hi * u
      BY TimesKeepsOrder
    <3> QED
      BY <3>1
  <2>7. lo * (u + A) = lo * u + lo * A /\ hi * (u + A) = hi * u + hi * A
    BY <2>2
  <2>8. lo * (u + A) <= u * y + B /\ u * y + B <= hi * (u + A)
    BY <2>2, <2>3, <2>6, <2>7
  <2>9. Between(t)
    BY <2>4, <2>5, <2>8
  <2> QED
    BY <2>1, <2>9 DEF t
<1> HIDE DEF Good
<1>5. S \in Good
  BY <1>3, <1>4, FiniteInduction
<1> QED
  BY <1>2, <1>5 DEF Good

-----------------------------------------------------------------------------
(***************************************************************************)
(* What the columns of a feature row hold.                                 *)
(***************************************************************************)
LEMMA IntegerRoot ==
  ASSUME NEW n \in Nat
  PROVE  \E r \in 0..(n + 1) : r * r <= n /\ n < (r + 1) * (r + 1)
<1> DEFINE T == {r \in 0..n : r * r <= n}
<1>1. 0 \in T /\ T \subseteq 0..n
  OBVIOUS
<1>2. Max(T) \in T /\ \A x \in T : x <= Max(T)
  <2> HIDE DEF T
  <2> QED
    BY <1>1, Largest
<1>3. PICK r : r = Max(T)
  OBVIOUS
<1>4. r \in 0..n /\ r * r <= n /\ r + 1 \notin T
  <2>1. r \in T /\ \A x \in T : x <= r
    BY <1>2, <1>3
  <2>2. r \in 0..n /\ r * r <= n
    BY <2>1
  <2> HIDE DEF T
  <2>3. r + 1 \notin T
    <3> SUFFICES ASSUME r + 1 \in T PROVE FALSE
      OBVIOUS
    <3>1. r + 1 <= r
      BY <2>1
    <3> QED
      BY <2>2, <3>1
  <2> QED
    BY <2>2, <2>3
<1>5. n < (r + 1) * (r + 1)
  <2>1. CASE r + 1 <= n
    <3>1. ~((r + 1) * (r + 1) <= n)
      BY <1>4, <2>1
    <3>2. (r + 1) * (r + 1) \in Int
      BY <1>4
    <3> QED
      BY <3>1, <3>2
  <2>2. CASE r + 1 > n
    <3>1. 1 * (r + 1) <= (r + 1) * (r + 1)
      BY <1>4, TimesKeepsOrder
    <3>2. 1 * (r + 1) = r + 1 /\ (r + 1) * (r + 1) \in Int /\ r + 1 \in Int
      BY <1>4
    <3> QED
      BY <2>2, <3>1, <3>2
  <2> QED
    BY <1>4, <2>1, <2>2
<1> QED
  BY <1>4, <1>5

LEMMA ValuesTyped ==
  ASSUME NEW G, IsFiniteSet(G), NEW c, \A row \in G : row[c] \in Column
  PROVE  IsFiniteSet(Values(G, c)) /\ \A v \in Values(G, c) : v[2] \in Int
<1> DEFINE there == {row \in G : row[c] # NULL}
           pair == [row \in there |-> <<row.offset, row[c]>>]
<1>1. IsFiniteSet(there)
  BY FS_Subset
<1>2. IsFiniteSet({pair[row] : row \in there})
  <2> HIDE DEF pair, there
  <2> QED
    BY <1>1, ImageFinite
<1>3. {pair[row] : row \in there} = Values(G, c)
  BY DEF Values
<1>4. \A v \in Values(G, c) : \E row \in there : v = <<row.offset, row[c]>>
  BY DEF Values
<1>5. \A row \in there : row[c] \in Int
  BY DEF Column
<1>6. \A v \in Values(G, c) : v[2] \in Int
  BY <1>4, <1>5
<1> HIDE DEF pair, there
<1> QED
  BY <1>2, <1>3, <1>6

LEMMA ManyValues ==
  ASSUME NEW G, IsFiniteSet(G), NEW c, \A row \in G : row[c] \in Column, Values(G, c) # {}
  PROVE  Cardinality(Values(G, c)) \in Nat \ {0}
BY ValuesTyped, FS_CardinalityType, FS_EmptySet

LEMMA AverageTyped ==
  ASSUME NEW G, IsFiniteSet(G), NEW c, \A row \in G : row[c] \in Column
  PROVE  Average(G, c) = NULL \/ Average(G, c) \in Int \X (Nat \ {0})
<1> DEFINE V == Values(G, c)
           second == [v \in V |-> v[2]]
<1>1. IsFiniteSet(V) /\ \A v \in V : second[v] \in Int
  BY ValuesTyped
<1>2. Total(V) \in Int
  <2>1. Sum(V, second) \in Int
    <3> HIDE DEF V, second
    <3> QED
      BY <1>1, SumAdds
  <2> QED
    BY <2>1 DEF Total
<1>3. V # {} => Cardinality(V) \in Nat \ {0}
  BY ManyValues
<1> QED
  BY <1>2, <1>3 DEF Average

LEMMA RootTyped ==
  ASSUME NEW G, IsFiniteSet(G), NEW c, \A row \in G : row[c] \in Column
  PROVE  RootMeanSquare(G, c) \in Nat \cup {NULL}
<1> DEFINE V == Values(G, c)
           square == [v \in V |-> v[2] * v[2]]
           squares == Sum(V, square)
           mean == squares \div Cardinality(V)
<1>1. IsFiniteSet(V) /\ \A v \in V : square[v] \in Nat
  <2>1. \A n \in Int : n * n \in Nat
    OBVIOUS
  <2> QED
    BY <2>1, ValuesTyped
<1>2. squares \in Nat
  <2> HIDE DEF V, square
  <2> QED
    BY <1>1, WeightsAdd
<1>3. ASSUME V # {}
      PROVE  \E r \in 0..(mean + 1) : r * r <= mean /\ mean < (r + 1) * (r + 1)
  <2>1. Cardinality(V) \in Nat \ {0}
    BY <1>3, ManyValues
  <2>2. \A a \in Nat, b \in Nat \ {0} : a \div b \in Nat
    OBVIOUS
  <2>3. mean \in Nat
    <3> HIDE DEF V, squares
    <3> QED
      BY <1>2, <2>1, <2>2
  <2> HIDE DEF mean
  <2> QED
    BY <2>3, IntegerRoot
<1>4. ASSUME V # {} PROVE mean \in Nat
  <2>1. Cardinality(V) \in Nat \ {0}
    BY <1>4, ManyValues
  <2>2. \A a \in Nat, b \in Nat \ {0} : a \div b \in Nat
    OBVIOUS
  <2> HIDE DEF V, squares
  <2> QED
    BY <1>2, <2>1, <2>2
<1>5. RootMeanSquare(G, c) =
        IF V = {} THEN NULL
        ELSE CHOOSE r \in 0..(mean + 1) : r * r <= mean /\ mean < (r + 1) * (r + 1)
  BY DEF RootMeanSquare
<1> HIDE DEF mean, V
<1>6. CASE V # {}
  <2>1. RootMeanSquare(G, c) \in 0..(mean + 1)
    BY <1>3, <1>5, <1>6
  <2> QED
    BY <1>4, <1>6, <2>1
<1> QED
  BY <1>5, <1>6

LEMMA P95Typed ==
  ASSUME NEW G, IsFiniteSet(G), NEW c, \A row \in G : row[c] \in Column
  PROVE  P95Abs(G, c) \in Int \cup {NULL}
<1> DEFINE V == Values(G, c)
           size == [v \in V |-> Size(v[2])]
           Sizes == {Size(v[2]) : v \in V}
           NotAbove(n) == {v \in V : Size(v[2]) <= n}
           T == {n \in Sizes : 100 * Cardinality(NotAbove(n)) >= 95 * Cardinality(V)}
<1> SUFFICES ASSUME V # {} PROVE Min(T) \in Int
  BY DEF P95Abs
<1>1. IsFiniteSet(V) /\ \A v \in V : Size(v[2]) \in Int
  BY ValuesTyped DEF Size
<1>2. IsFiniteSet(Sizes) /\ Sizes \subseteq Int /\ Sizes # {}
  <2>1. IsFiniteSet({size[v] : v \in V})
    <3> HIDE DEF V, size
    <3> QED
      BY <1>1, ImageFinite
  <2>2. {size[v] : v \in V} = Sizes
    OBVIOUS
  <2> QED
    BY <1>1, <2>1, <2>2
<1>3. Max(Sizes) \in Sizes /\ \A n \in Sizes : n <= Max(Sizes)
  <2> HIDE DEF Sizes
  <2> QED
    BY <1>2, Extremes
<1>4. NotAbove(Max(Sizes)) = V
  BY <1>3
<1>5. Cardinality(V) \in Nat
  BY <1>1, FS_CardinalityType
<1>6. Max(Sizes) \in T
  <2> HIDE DEF Sizes, NotAbove, V
  <2>1. 100 * Cardinality(V) >= 95 * Cardinality(V)
    BY <1>5
  <2> QED
    BY <1>3, <1>4, <2>1
<1>7. T \subseteq Sizes
  OBVIOUS
<1> HIDE DEF T, Sizes
<1>8. IsFiniteSet(T) /\ T # {} /\ T \subseteq Int
  BY <1>2, <1>6, <1>7, FS_Subset
<1>9. Min(T) \in T
  BY <1>8, Extremes
<1> QED
  BY <1>8, <1>9

RowTyped(f) ==
  /\ FeatureRowOK(f)
  /\ f.avg_speed = NULL \/ f.avg_speed \in Int \X (Nat \ {0})
  /\ f.rms_accel_x \in Int \cup {NULL} /\ f.p95_abs_accel_z \in Int \cup {NULL}

LEMMA FeaturesTyped ==
  ASSUME NEW rows, IsFiniteSet(rows), rows \subseteq BronzeRow, NEW segment,
         NEW f \in HourlyFeatures(rows, segment)
  PROVE  RowTyped(f)
<1> DEFINE G == GroupOf(rows, segment, f)
           trip == [row \in G |-> row.trip]
<1>1. G \subseteq rows /\ IsFiniteSet(G)
  <2>1. G \subseteq rows
    BY DEF GroupOf
  <2> QED
    BY <2>1, FS_Subset
<1>2. /\ G # {}
      /\ f.samples = Cardinality(G) /\ f.trips = Cardinality(TripsOf(G))
      /\ f.avg_speed = Average(G, "speed")
      /\ f.rms_accel_x = RootMeanSquare(G, "accel")
      /\ f.p95_abs_accel_z = P95Abs(G, "rough")
      /\ \A k \in Kinds : f[k] = Cardinality(G \cap EventStarts(rows, k))
      /\ f.steer_reversal = Cardinality(G \cap ReversalRows(rows))
  BY FeatureRow
<1>3. \A row \in G : row["speed"] \in Column /\ row["accel"] \in Column /\ row["rough"] \in Column
  BY <1>1 DEF BronzeRow
<1>4. TripsOf(G) = {trip[row] : row \in G} /\ TripsOf(G) # {}
  BY <1>2 DEF TripsOf
<1> HIDE DEF G, trip
<1>5. f.avg_speed = NULL \/ f.avg_speed \in Int \X (Nat \ {0})
  BY <1>1, <1>2, <1>3, AverageTyped
<1>6. f.rms_accel_x \in Int \cup {NULL}
  BY <1>1, <1>2, <1>3, RootTyped
<1>7. f.p95_abs_accel_z \in Int \cup {NULL}
  BY <1>1, <1>2, <1>3, P95Typed
<1>8. \A H : Cardinality(G \cap H) \in 0..Cardinality(G)
  <2> TAKE H
  <2>1. IsFiniteSet(G \cap H) /\ Cardinality(G \cap H) <= Cardinality(G)
    BY <1>1, FS_Subset
  <2> QED
    BY <1>1, <2>1, FS_CardinalityType
<1>9. f.samples \in Nat /\ f.trips \in 1..f.samples
  <2>1. IsFiniteSet({trip[row] : row \in G}) /\ Cardinality({trip[row] : row \in G}) <= Cardinality(G)
    BY <1>1, ImageFinite
  <2>2. IsFiniteSet(TripsOf(G)) /\ Cardinality(TripsOf(G)) <= Cardinality(G)
    BY <1>4, <2>1
  <2>3. Cardinality(TripsOf(G)) \in Nat \ {0} /\ Cardinality(G) \in Nat
    BY <1>1, <1>4, <2>2, FS_CardinalityType, FS_EmptySet
  <2> QED
    BY <1>2, <2>2, <2>3
<1>10. \A k \in Kinds \cup {"steer_reversal"} : f[k] \in 0..f.samples
  <2>1. \A k \in Kinds : f[k] \in 0..f.samples
    BY <1>2, <1>8
  <2>2. f["steer_reversal"] \in 0..f.samples
    BY <1>2, <1>8
  <2> QED
    BY <2>1, <2>2
<1> QED
  BY <1>5, <1>6, <1>7, <1>9, <1>10 DEF RowTyped, FeatureRowOK

-----------------------------------------------------------------------------
(***************************************************************************)
(* The scores of an hour.                                                  *)
(***************************************************************************)
LEMMA ClampWithin == ASSUME NEW x \in Int PROVE Clamp(x, 0, 100) \in 0..100
<1>1. \E y \in Int : y = Min({100, x}) /\ y <= 100
  <2>1. CASE x <= 100
    BY <2>1, MinIs
  <2>2. CASE 100 <= x
    BY <2>2, MinIs
  <2> QED
    BY <2>1, <2>2
<1>2. PICK y \in Int : y = Min({100, x}) /\ y <= 100
  BY <1>1
<1>3. CASE y <= 0
  BY <1>2, <1>3, MaxIs DEF Clamp
<1>4. CASE 0 <= y
  BY <1>2, <1>4, MaxIs DEF Clamp
<1> QED
  BY <1>3, <1>4

LEMMA ScalePositive ==
  ASSUME NEW row, row.avg_speed \in Int \X (Nat \ {0})
  PROVE  SpeedScale(row) \in Nat \ {0}
<1> DEFINE Below(i) == \/ SpeedBands[i].upper = NULL
                       \/ row.avg_speed[1] < SpeedBands[i].upper * row.avg_speed[2]
           T == {i \in DOMAIN SpeedBands : Below(i)}
<1>1. /\ SpeedBands \in Seq([upper : Column, scale : Nat \ {0}]) /\ SpeedBands # <<>>
      /\ SpeedBands[Len(SpeedBands)].upper = NULL
  BY FormulaAssumption
<1>2. Len(SpeedBands) \in Nat \ {0} /\ DOMAIN SpeedBands = 1..Len(SpeedBands)
  BY <1>1
<1>3. Len(SpeedBands) \in T /\ T \subseteq Nat
  BY <1>1, <1>2
<1>4. PICK m \in T : \A i \in T : m <= i
  <2> HIDE DEF T
  <2> QED
    BY <1>3, Smallest
<1>5. Min(T) = m /\ m \in DOMAIN SpeedBands
  <2>1. T \subseteq Int /\ m \in DOMAIN SpeedBands
    BY <1>3
  <2> HIDE DEF T
  <2> QED
    BY <1>4, <2>1, MinIs
<1>6. SpeedScale(row) = SpeedBands[m].scale
  BY <1>5 DEF SpeedScale
<1>7. SpeedBands[m] \in [upper : Column, scale : Nat \ {0}]
  <2>1. \A S : \A s \in Seq(S) : \A i \in 1..Len(s) : s[i] \in S
    OBVIOUS
  <2>2. m \in 1..Len(SpeedBands)
    BY <1>2, <1>5
  <2> QED
    BY <1>1, <2>1, <2>2
<1>8. SpeedBands[m].scale \in Nat \ {0}
  BY <1>7
<1> QED
  BY <1>6, <1>8

LEMMA ValueTyped ==
  ASSUME NEW row, RowTyped(row), NEW f \in DOMAIN Anchors, FeatureValue(row, f) # NULL
  PROVE  FeatureValue(row, f) \in Int \X (Nat \ {0})
<1>1. f \in DOMAIN RateSources \cup {"rms_accel_x", "p95_abs_accel_z"}
  BY FormulaAssumption
<1>2. CASE f \in DOMAIN RateSources
  <2>1. RateSources[f] \in Kinds \cup {"steer_reversal"}
    BY <1>2 DEF RateSources, Kinds
  <2>2. row[RateSources[f]] \in Int /\ row.trips \in Nat \ {0}
    BY <2>1 DEF RowTyped, FeatureRowOK
  <2> QED
    BY <1>2, <2>2 DEF FeatureValue
<1>3. CASE f \notin DOMAIN RateSources
  <2>1. row["rms_accel_x"] \in Int \cup {NULL} /\ row["p95_abs_accel_z"] \in Int \cup {NULL}
    BY DEF RowTyped
  <2>2. row[f] \in Int \cup {NULL}
    BY <1>1, <1>3, <2>1
  <2> QED
    BY <1>3, <2>2 DEF FeatureValue
<1> QED
  BY <1>2, <1>3

LEMMA PenaltyWithin ==
  ASSUME NEW row, RowTyped(row), row.avg_speed # NULL,
         NEW f \in DOMAIN Anchors, FeatureValue(row, f) # NULL
  PROVE  Penalty(row, f) \in 0..100
<1> DEFINE value == FeatureValue(row, f)
           scale == SpeedScale(row)
           above == 10 * value[1] - value[2] * Anchors[f].low * scale
           width == value[2] * (Anchors[f].high - Anchors[f].low) * scale
<1>1. value[1] \in Int /\ value[2] \in Nat \ {0}
  BY ValueTyped
<1>2. scale \in Nat \ {0}
  BY ScalePositive DEF RowTyped
<1>3. /\ Anchors[f].low \in Int /\ Anchors[f].high \in Int
      /\ Anchors[f].high - Anchors[f].low \in Nat \ {0}
  BY FormulaAssumption
<1>4. \A a, b \in Nat \ {0} : a * b \in Nat \ {0}
  OBVIOUS
<1>5. width \in Nat \ {0}
  <2>1. value[2] * (Anchors[f].high - Anchors[f].low) \in Nat \ {0}
    BY <1>1, <1>3, <1>4
  <2> HIDE DEF value, scale
  <2> QED
    BY <1>2, <1>4, <2>1
<1>6. above \in Int
  <2> HIDE DEF value, scale
  <2>1. value[2] * Anchors[f].low \in Int
    BY <1>1, <1>3
  <2>2. value[2] * Anchors[f].low * scale \in Int
    BY <1>2, <2>1
  <2> QED
    BY <1>1, <2>2
<1>7. (100 * above) \div width \in Int
  <2> HIDE DEF above, width
  <2> QED
    BY <1>5, <1>6
<1>8. Penalty(row, f) = Clamp((100 * above) \div width, 0, 100)
  BY DEF Penalty
<1> HIDE DEF above, width
<1> QED
  BY <1>7, <1>8, ClampWithin

LEMMA FeaturesFinite == ASSUME NEW d \in Directions PROVE IsFiniteSet(DOMAIN FeatureWeights[d])
<1> DEFINE U == {"hard_brake_rate"} \cup {"hard_accel_rate"} \cup {"sharp_steer_rate"}
                  \cup {"steer_reversal_rate"} \cup {"rms_accel_x"} \cup {"p95_abs_accel_z"}
<1>1. IsFiniteSet(U)
  BY FS_Singleton, FS_Union
<1>2. DOMAIN FeatureWeights[d] \subseteq U
  <2>1. /\ DOMAIN FeatureWeights[d] \subseteq DOMAIN Anchors
        /\ DOMAIN Anchors \subseteq DOMAIN RateSources \cup {"rms_accel_x", "p95_abs_accel_z"}
    BY FormulaAssumption
  <2> QED
    BY <2>1 DEF RateSources
<1> HIDE DEF U
<1> QED
  BY <1>1, <1>2, FS_Subset

\* However much of a direction is missing, its score has 0 to 100 points.
LEMMA ScoreWithin ==
  ASSUME NEW row, RowTyped(row), row.avg_speed # NULL, NEW d \in Directions,
         DirectionScore(row, d) # NULL
  PROVE  DirectionScore(row, d) \in 0..100
<1> DEFINE present == {f \in DOMAIN FeatureWeights[d] : FeatureValue(row, f) # NULL}
           w == FeatureWeights[d]
           v == [f \in present |-> Penalty(row, f)]
           p == [f \in present |-> FeatureWeights[d][f] * Penalty(row, f)]
           valid == Sum(present, w)
           penalty == Sum(present, p)
<1>1. IsFiniteSet(present)
  BY FeaturesFinite, FS_Subset
<1>2. \A f \in present : w[f] \in Nat /\ v[f] \in 0..100 /\ p[f] = w[f] * v[f]
  <2> SUFFICES ASSUME NEW f \in present
               PROVE  FeatureWeights[d][f] \in Nat /\ Penalty(row, f) \in 0..100
    OBVIOUS
  <2>1. f \in DOMAIN Anchors /\ FeatureWeights[d][f] \in Nat
    BY FormulaAssumption
  <2> QED
    BY <2>1, PenaltyWithin
<1>3. /\ valid \in Nat /\ penalty \in Int
      /\ 0 * valid <= penalty /\ penalty <= 100 * valid
  <2>1. PICK lo \in Int, hi \in Int : lo = 0 /\ hi = 100
    OBVIOUS
  <2>2. \A f \in present : w[f] \in Nat /\ v[f] \in lo..hi /\ p[f] = w[f] * v[f]
    BY <1>2, <2>1
  <2> HIDE DEF present, w, v, p
  <2>3. /\ valid \in Nat /\ penalty \in Int
        /\ lo * valid <= penalty /\ penalty <= hi * valid
    BY <1>1, <2>2, WeightedBetween
  <2> QED
    BY <2>1, <2>3
<1>4. DirectionScore(row, d) = IF valid < MinimumWeight THEN NULL
                               ELSE (100 * valid - penalty) \div valid
  BY DEF DirectionScore
<1> HIDE DEF valid, penalty
<1>5. MinimumWeight \in 1..100
  BY FormulaAssumption
<1>6. valid \in Nat \ {0} /\ ~(valid < MinimumWeight)
  BY <1>3, <1>4, <1>5
<1>7. /\ 100 * valid - penalty \in Int
      /\ 0 * valid <= 100 * valid - penalty /\ 100 * valid - penalty <= 100 * valid
  BY <1>3
<1>8. (100 * valid - penalty) \div valid \in 0..100
  <2>1. PICK lo \in Int, hi \in Int, a \in Int : lo = 0 /\ hi = 100 /\ a = 100 * valid - penalty
    BY <1>7
  <2>2. lo * valid <= a /\ a <= hi * valid
    BY <1>7, <2>1
  <2>3. a \div valid \in lo..hi
    BY <1>6, <2>2, DivBetween
  <2> QED
    BY <2>1, <2>3
<1> QED
  BY <1>4, <1>6, <1>8

\* A row of hourly_comfort_score.
HourRow(row, h) ==
  /\ row.hour = h /\ row.trips \in Nat \ {0} /\ row.samples \in Nat \ {0}
  /\ row.scores \in [Directions -> 0..100]

LEMMA ScoredTyped ==
  ASSUME NEW fs, IsFiniteSet(fs), \A f \in fs : RowTyped(f), NEW h
  PROVE  IsFiniteSet(ScoredRows(fs, h)) /\ \A row \in ScoredRows(fs, h) : HourRow(row, h)
<1> DEFINE good == {f \in fs : ScoreRejectReason(f) = NULL}
           scored == [row \in good |->
             [hour |-> h, segment |-> row.segment, profile |-> row.profile,
              trips |-> row.trips, samples |-> row.samples,
              scores |-> [d \in Directions |-> DirectionScore(row, d)]]]
<1>1. IsFiniteSet(good)
  BY FS_Subset
<1>2. ScoredRows(fs, h) = {scored[row] : row \in good}
  BY DEF ScoredRows
<1>3. ASSUME NEW f \in good
      PROVE  HourRow(scored[f], h)
  <2>1. Eligible(f) /\ \A d \in Directions : DirectionScore(f, d) # NULL
    BY FormulaAssumption DEF ScoreRejectReason
  <2>2. f.trips \in Nat \ {0} /\ f.samples \in Nat \ {0}
    <3>1. f.samples \in Nat /\ f.trips \in 1..f.samples
      BY DEF RowTyped, FeatureRowOK
    <3> QED
      BY <3>1
  <2>3. \A d \in Directions : DirectionScore(f, d) \in 0..100
    BY <2>1, ScoreWithin DEF Eligible
  <2>4. [d \in Directions |-> DirectionScore(f, d)] \in [Directions -> 0..100]
    BY <2>3
  <2> QED
    BY <2>2, <2>4 DEF HourRow
<1> HIDE DEF good, scored
<1>4. IsFiniteSet({scored[row] : row \in good})
  BY <1>1, ImageFinite
<1> QED
  BY <1>2, <1>3, <1>4

-----------------------------------------------------------------------------
(***************************************************************************)
(* The standard scores of a window.                                        *)
(***************************************************************************)
\* Rows of the hours before asOf that have scores between lo and hi.
WindowOf(rows, lo, hi, asOf) ==
  /\ IsFiniteSet(rows)
  /\ \A row \in rows :
       /\ row.hour \in Window(asOf)
       /\ row.trips \in Nat \ {0} /\ row.samples \in Nat \ {0}
       /\ row.scores \in [Directions -> lo..hi]

LEMMA SumPositive ==
  ASSUME NEW S, IsFiniteSet(S), NEW w, \A x \in S : w[x] \in Nat \ {0}
  PROVE  Sum(S, w) \in Nat /\ (Sum(S, w) = 0 <=> S = {})
<1>1. Sum(S, w) \in Nat /\ \A x \in S : w[x] <= Sum(S, w)
  BY WeightsAdd
<1>2. CASE S = {}
  <2>1. Sum({}, w) = 0
    BY FS_EmptySet, SumAdds
  <2> QED
    BY <1>2, <2>1
<1>3. CASE S # {}
  <2>1. PICK x \in S : TRUE
    BY <1>3
  <2>2. w[x] \in Nat \ {0} /\ w[x] <= Sum(S, w)
    BY <1>1, <2>1
  <2> QED
    BY <1>1, <1>3, <2>2
<1> QED
  BY <1>2, <1>3

\* The profiles of an hour folded into one are again rows of the window.
LEMMA PooledTyped ==
  ASSUME NEW rows, NEW lo \in Int, NEW hi \in Int, NEW asOf, WindowOf(rows, lo, hi, asOf)
  PROVE  /\ WindowOf(Pooled(rows), lo, hi, asOf)
         /\ rows # {} => Pooled(rows) # {}
<1> DEFINE Group(key) == {row \in rows : row.segment = key[1] /\ row.hour = key[2]}
           Trips(group) == Sum(group, [row \in group |-> row.trips])
           Samples(group) == Sum(group, [row \in group |-> row.samples])
           Weighted(group, d) == Sum(group, [row \in group |-> row.trips * row.scores[d]])
           Keys == {<<row.segment, row.hour>> : row \in rows}
           fold == [key \in Keys |->
             [hour |-> key[2], segment |-> key[1], profile |-> AllVehicles,
              trips |-> Trips(Group(key)),
              samples |-> Samples(Group(key)),
              scores |-> [d \in Directions |-> Weighted(Group(key), d) \div Trips(Group(key))]]]
<1>1. Pooled(rows) = {fold[key] : key \in Keys}
  BY DEF Pooled
<1>2. IsFiniteSet(Keys)
  <2> DEFINE key == [row \in rows |-> <<row.segment, row.hour>>]
  <2>1. IsFiniteSet(rows)
    BY DEF WindowOf
  <2>2. Keys = {key[row] : row \in rows}
    OBVIOUS
  <2> HIDE DEF key, Keys
  <2> QED
    BY <2>1, <2>2, ImageFinite
<1>3. ASSUME NEW key \in Keys
      PROVE  /\ key[2] \in Window(asOf)
             /\ Trips(Group(key)) \in Nat \ {0} /\ Samples(Group(key)) \in Nat \ {0}
             /\ \A d \in Directions : Weighted(Group(key), d) \div Trips(Group(key)) \in lo..hi
  <2> DEFINE group == Group(key)
             w == [row \in group |-> row.trips]
  <2>1. PICK row \in rows : key = <<row.segment, row.hour>>
    OBVIOUS
  <2>2. row \in group /\ key[2] = row.hour
    BY <2>1
  <2>3. IsFiniteSet(group) /\ group \subseteq rows
    BY FS_Subset DEF WindowOf
  <2>4. \A r \in group : r.trips \in Nat \ {0} /\ r.samples \in Nat \ {0}
                         /\ r.scores \in [Directions -> lo..hi]
    BY <2>3 DEF WindowOf
  <2> HIDE DEF group
  <2>5. Trips(group) \in Nat \ {0}
    <3>1. \A r \in group : w[r] \in Nat \ {0}
      BY <2>4
    <3>2. Sum(group, w) \in Nat /\ (Sum(group, w) = 0 <=> group = {})
      <4> HIDE DEF w
      <4> QED
        BY <2>3, <3>1, SumPositive
    <3> QED
      BY <2>2, <3>2
  <2>6. Samples(group) \in Nat \ {0}
    <3> DEFINE s == [r \in group |-> r.samples]
    <3>1. \A r \in group : s[r] \in Nat \ {0}
      BY <2>4
    <3>2. Sum(group, s) \in Nat /\ (Sum(group, s) = 0 <=> group = {})
      <4> HIDE DEF s
      <4> QED
        BY <2>3, <3>1, SumPositive
    <3> QED
      BY <2>2, <3>2
  <2>7. ASSUME NEW d \in Directions
        PROVE  Weighted(group, d) \div Trips(group) \in lo..hi
    <3> DEFINE v == [r \in group |-> r.scores[d]]
               p == [r \in group |-> r.trips * r.scores[d]]
    <3>1. \A r \in group : w[r] \in Nat /\ v[r] \in lo..hi /\ p[r] = w[r] * v[r]
      BY <2>4
    <3>2. /\ Sum(group, w) \in Nat /\ Sum(group, p) \in Int
          /\ lo * Sum(group, w) <= Sum(group, p) /\ Sum(group, p) <= hi * Sum(group, w)
      <4> HIDE DEF w, v, p
      <4> QED
        BY <2>3, <3>1, WeightedBetween
    <3>3. Sum(group, w) = Trips(group) /\ Sum(group, p) = Weighted(group, d)
      OBVIOUS
    <3> HIDE DEF w, p, Trips, Weighted
    <3> QED
      BY <2>5, <3>2, <3>3, DivBetween
  <2>8. key[2] \in Window(asOf)
    BY <2>1, <2>2 DEF WindowOf
  <2> HIDE DEF Trips, Samples, Weighted
  <2> QED
    BY <2>5, <2>6, <2>7, <2>8 DEF group
<1> HIDE DEF Trips, Samples, Weighted, Group, Keys
<1>4. ASSUME NEW key \in Keys
      PROVE  /\ fold[key].hour \in Window(asOf)
             /\ fold[key].trips \in Nat \ {0} /\ fold[key].samples \in Nat \ {0}
             /\ fold[key].scores \in [Directions -> lo..hi]
  <2>1. [d \in Directions |-> Weighted(Group(key), d) \div Trips(Group(key))]
          \in [Directions -> lo..hi]
    BY <1>3
  <2> QED
    BY <1>3, <2>1
<1>5. IsFiniteSet({fold[key] : key \in Keys})
  <2> HIDE DEF fold
  <2> QED
    BY <1>2, ImageFinite
<1>6. rows # {} => Keys # {}
  BY DEF Keys
<1> HIDE DEF fold
<1> QED
  BY <1>1, <1>4, <1>5, <1>6 DEF WindowOf

\* So are the rows a score observes, and those whose mean it shrinks to.
LEMMA SeenAndMean ==
  ASSUME NEW rows, NEW lo \in Int, NEW hi \in Int, NEW asOf, WindowOf(rows, lo, hi, asOf),
         rows # {}, NEW segment, NEW profile
  PROVE  /\ WindowOf(Observed(rows, segment, profile), lo, hi, asOf)
         /\ WindowOf(Population(rows, profile), lo, hi, asOf)
         /\ Population(rows, profile) # {}
<1>1. WindowOf(Pooled(rows), lo, hi, asOf) /\ Pooled(rows) # {}
  BY PooledTyped
<1>2. \A all, some : WindowOf(all, lo, hi, asOf) /\ some \subseteq all => WindowOf(some, lo, hi, asOf)
  BY FS_Subset DEF WindowOf
<1>3. /\ Observed(rows, segment, profile) \subseteq Pooled(rows)
      \/ Observed(rows, segment, profile) \subseteq rows
  BY DEF Observed
<1>4. \/ Population(rows, profile) = Pooled(rows)
      \/ Population(rows, profile) # {} /\ Population(rows, profile) \subseteq rows
  BY DEF Population
<1> QED
  BY <1>1, <1>2, <1>3, <1>4

EvidenceOf(rows) == [row \in rows |-> Evidence(row)]

LEMMA EvidenceTyped ==
  ASSUME NEW rows, IsFiniteSet(rows), \A row \in rows : row.trips \in Nat \ {0}
  PROVE  /\ \A row \in rows : EvidenceOf(rows)[row] \in Nat \ {0}
         /\ EvidenceSum(rows) = Sum(rows, EvidenceOf(rows))
         /\ EvidenceSum(rows) \in Nat /\ (EvidenceSum(rows) = 0 <=> rows = {})
<1>1. ASSUME NEW row \in rows
      PROVE  Evidence(row) \in Nat \ {0}
  <2> DEFINE trips == row.trips
  <2>1. trips \in Nat \ {0} /\ Saturation \in Nat \ {0}
    BY FormulaAssumption
  <2> HIDE DEF trips
  <2>2. CASE trips <= Saturation
    <3>1. Min({trips, Saturation}) = trips
      BY <2>1, <2>2, MinIs
    <3> QED
      BY <2>1, <3>1 DEF Evidence, trips
  <2>3. CASE Saturation <= trips
    <3>1. Min({trips, Saturation}) = Saturation
      BY <2>1, <2>3, MinIs
    <3> QED
      BY <2>1, <3>1 DEF Evidence, trips
  <2> QED
    BY <2>1, <2>2, <2>3
<1>2. \A row \in rows : EvidenceOf(rows)[row] \in Nat \ {0}
  BY <1>1 DEF EvidenceOf
<1>3. EvidenceSum(rows) = Sum(rows, EvidenceOf(rows))
  BY DEF EvidenceSum, EvidenceOf
<1> QED
  BY <1>2, <1>3, SumPositive

\* The weighted scores lie between the bounds of the scores.
LEMMA WeightedScores ==
  ASSUME NEW rows, NEW lo \in Int, NEW hi \in Int, NEW asOf, WindowOf(rows, lo, hi, asOf),
         NEW d \in Directions
  PROVE  /\ WeightedSum(rows, d) \in Int
         /\ lo * EvidenceSum(rows) <= WeightedSum(rows, d)
         /\ WeightedSum(rows, d) <= hi * EvidenceSum(rows)
<1> DEFINE w == EvidenceOf(rows)
           v == [row \in rows |-> row.scores[d]]
           p == [row \in rows |-> Evidence(row) * row.scores[d]]
<1>1. IsFiniteSet(rows)
  BY DEF WindowOf
<1>2. \A row \in rows : w[row] \in Nat \ {0} /\ EvidenceSum(rows) = Sum(rows, w)
  BY EvidenceTyped DEF WindowOf
<1>3. \A row \in rows : w[row] \in Nat /\ v[row] \in lo..hi /\ p[row] = w[row] * v[row]
  BY <1>2 DEF WindowOf, EvidenceOf
<1>4. WeightedSum(rows, d) = Sum(rows, p) /\ EvidenceSum(rows) = Sum(rows, w)
  BY DEF WeightedSum, EvidenceSum, EvidenceOf
<1> HIDE DEF w, v, p
<1> QED
  BY <1>1, <1>3, <1>4, WeightedBetween

\* Numbers a and b, up to n times and q times lo to hi, as _apply_shrinkage
\* weighs them.
LEMMA ShrunkBetween ==
  ASSUME NEW lo \in Int, NEW hi \in Int, NEW n \in Nat, NEW q \in Nat \ {0}, NEW k \in Nat \ {0},
         NEW a \in Int, NEW b \in Int,
         lo * n <= a, a <= hi * n, lo * q <= b, b <= hi * q
  PROVE  /\ a * q + k * b \in Int /\ q * (n + k) \in Nat \ {0}
         /\ lo * (q * (n + k)) <= a * q + k * b
         /\ a * q + k * b <= hi * (q * (n + k))
<1>1. \A x, y \in Nat \ {0} : x * y \in Nat \ {0}
  OBVIOUS
<1>2. q * (n + k) \in Nat \ {0}
  BY <1>1
<1>3. lo * n * q <= a * q /\ a * q <= hi * n * q
  <2>1. lo * n \in Int /\ hi * n \in Int
    OBVIOUS
  <2> QED
    BY <2>1, TimesKeepsOrder
<1>4. lo * q * k <= b * k /\ b * k <= hi * q * k
  <2>1. lo * q \in Int /\ hi * q \in Int
    OBVIOUS
  <2> QED
    BY <2>1, TimesKeepsOrder
<1>5. \A x \in Int : x * (q * (n + k)) = x * n * q + x * q * k
  OBVIOUS
<1>6. b * k = k * b
  OBVIOUS
<1>7. /\ lo * (q * (n + k)) = lo * n * q + lo * q * k
      /\ hi * (q * (n + k)) = hi * n * q + hi * q * k
  BY <1>5
<1>8. /\ a * q \in Int /\ b * k \in Int /\ lo * n * q \in Int /\ lo * q * k \in Int
      /\ hi * n * q \in Int /\ hi * q * k \in Int
  OBVIOUS
<1> QED
  BY <1>2, <1>3, <1>4, <1>6, <1>7, <1>8

LEMMA ConfidenceTells ==
  ASSUME NEW n \in Nat, NEW k \in 1..99
  PROVE  (100 * n) \div (n + k) \in 0..100 /\ ((100 * n) \div (n + k) = 0 <=> n = 0)
<1> DEFINE c == (100 * n) \div (n + k)
<1>1. c \in 0..100
  <2>1. PICK a \in Int, b \in Nat \ {0}, lo \in Int, hi \in Int :
          a = 100 * n /\ b = n + k /\ lo = 0 /\ hi = 100
    OBVIOUS
  <2>2. lo * b <= a /\ a <= hi * b
    BY <2>1
  <2>3. a \div b \in lo..hi
    BY <2>2, DivBetween
  <2> QED
    BY <2>1, <2>3
<1>2. n = 0 => c = 0
  <2>1. PICK a \in Int, b \in Nat \ {0}, lo \in Int, hi \in Int :
          a = 0 /\ b = k /\ lo = 0 /\ hi = 0
    OBVIOUS
  <2>2. lo * b <= a /\ a <= hi * b
    BY <2>1
  <2>3. a \div b \in lo..hi
    BY <2>2, DivBetween
  <2>4. 0 \div k = 0
    BY <2>1, <2>3
  <2> QED
    BY <2>4
<1>3. n # 0 => c # 0
  <2> SUFFICES ASSUME n # 0 PROVE c # 0
    OBVIOUS
  <2>1. PICK a \in Int, b \in Nat \ {0}, lo \in Int, hi \in Int :
          a = 100 * n /\ b = n + k /\ lo = 1 /\ hi = 100
    OBVIOUS
  <2>2. lo * b <= a /\ a <= hi * b
    BY <2>1
  <2>3. a \div b \in lo..hi
    BY <2>2, DivBetween
  <2> QED
    BY <2>1, <2>3
<1> QED
  BY <1>1, <1>2, <1>3

\* A row of the standard scores, from rows with scores between lo and hi.
StandardBetween(row, lo, hi, asOf) ==
  /\ DOMAIN row.scores = Directions
  /\ \A d \in Directions : row.scores[d] \in lo..hi
  /\ row.comfort \in lo..hi /\ row.confidence \in 0..100
  /\ row.samples = 0 <=> row.confidence = 0
  /\ 0 <= row.to - row.from /\ row.to <= asOf /\ asOf - row.from <= WindowHours

LEMMA StandardRowWithin ==
  ASSUME NEW rows, NEW lo \in Int, NEW hi \in Int, NEW asOf \in Nat,
         WindowOf(rows, lo, hi, asOf), rows # {}, NEW segment, NEW profile
  PROVE  StandardBetween(StandardRow(rows, asOf, segment, profile), lo, hi, asOf)
<1> DEFINE seen == Observed(rows, segment, profile)
           mean == Population(rows, profile)
           n == EvidenceSum(seen)
           q == EvidenceSum(mean)
           k == ShrinkageK * Saturation
           Shrunk(d) == WeightedSum(seen, d) * q + k * WeightedSum(mean, d)
           hours == {row.hour : row \in seen}
           samples == [row \in seen |-> row.samples]
           parts == [d \in Directions |-> DirectionWeights[d] * Shrunk(d)]
<1>1. WindowOf(seen, lo, hi, asOf) /\ WindowOf(mean, lo, hi, asOf) /\ mean # {}
  BY SeenAndMean
<1>2. n \in Nat /\ (n = 0 <=> seen = {}) /\ q \in Nat \ {0}
  <2>1. n \in Nat /\ (n = 0 <=> seen = {})
    <3> HIDE DEF seen
    <3> QED
      BY <1>1, EvidenceTyped DEF WindowOf
  <2>2. q \in Nat /\ (q = 0 <=> mean = {})
    <3> HIDE DEF mean
    <3> QED
      BY <1>1, EvidenceTyped DEF WindowOf
  <2> QED
    BY <1>1, <2>1, <2>2
<1>3. k \in 1..99
  <2>1. ShrinkageK \in Nat \ {0} /\ Saturation \in Nat \ {0} /\ ShrinkageK * Saturation <= 99
    BY FormulaAssumption
  <2>2. \A x, y \in Nat \ {0} : x * y \in Nat \ {0}
    OBVIOUS
  <2> QED
    BY <2>1, <2>2
<1>4. /\ DOMAIN StandardRow(rows, asOf, segment, profile).scores = Directions
      /\ \A d \in Directions : StandardRow(rows, asOf, segment, profile).scores[d]
                                 = Shrunk(d) \div (q * (n + k))
      /\ StandardRow(rows, asOf, segment, profile).comfort
           = Sum(Directions, parts) \div (10 * q * (n + k))
      /\ StandardRow(rows, asOf, segment, profile).confidence = (100 * n) \div (n + k)
      /\ StandardRow(rows, asOf, segment, profile).samples = Sum(seen, samples)
      /\ StandardRow(rows, asOf, segment, profile).from
           = IF seen = {} THEN asOf - WindowHours ELSE Min(hours)
      /\ StandardRow(rows, asOf, segment, profile).to
           = IF seen = {} THEN asOf ELSE Max(hours) + 1
  BY DEF StandardRow
<1> HIDE DEF seen, mean, n, q, k
<1>5. q * (n + k) \in Nat \ {0}
  <2>1. \A x, y \in Nat \ {0} : x * y \in Nat \ {0}
    OBVIOUS
  <2> QED
    BY <1>2, <1>3, <2>1
<1>6. ASSUME NEW d \in Directions
      PROVE  /\ Shrunk(d) \in Int
             /\ lo * (q * (n + k)) <= Shrunk(d) /\ Shrunk(d) <= hi * (q * (n + k))
  <2>1. /\ WeightedSum(seen, d) \in Int
        /\ lo * n <= WeightedSum(seen, d) /\ WeightedSum(seen, d) <= hi * n
    BY <1>1, WeightedScores DEF n
  <2>2. /\ WeightedSum(mean, d) \in Int
        /\ lo * q <= WeightedSum(mean, d) /\ WeightedSum(mean, d) <= hi * q
    BY <1>1, WeightedScores DEF q
  <2>3. k \in Nat \ {0}
    BY <1>3
  <2> QED
    BY <1>2, <2>1, <2>2, <2>3, ShrunkBetween
<1>7. \A d \in Directions : Shrunk(d) \div (q * (n + k)) \in lo..hi
  <2> TAKE d \in Directions
  <2> HIDE DEF Shrunk
  <2> QED
    BY <1>5, <1>6, DivBetween
<1>8. Sum(Directions, parts) \div (10 * q * (n + k)) \in lo..hi
  <2> DEFINE D == q * (n + k)
             shrunk == [d \in Directions |-> Shrunk(d)]
  <2>1. D \in Nat \ {0}
    BY <1>5
  <2>2. 10 * q * (n + k) = 10 * D
    BY <1>2, <1>3
  <2>3. PICK low \in Int, high \in Int : low = lo * D /\ high = hi * D
    BY <2>1
  <2>4. \A d \in Directions : /\ DirectionWeights[d] \in Nat
                              /\ shrunk[d] \in low..high
                              /\ parts[d] = DirectionWeights[d] * shrunk[d]
    BY <1>6, <2>3, FormulaAssumption
  <2>5. IsFiniteSet(Directions) /\ Sum(Directions, DirectionWeights) = 10
    BY FormulaAssumption
  <2> HIDE DEF parts, shrunk
  <2>6. /\ Sum(Directions, parts) \in Int
        /\ low * 10 <= Sum(Directions, parts) /\ Sum(Directions, parts) <= high * 10
    <3>1. /\ Sum(Directions, parts) \in Int
          /\ low * Sum(Directions, DirectionWeights) <= Sum(Directions, parts)
          /\ Sum(Directions, parts) <= high * Sum(Directions, DirectionWeights)
      <4>1. IsFiniteSet(Directions)
        BY <2>5
      <4> HIDE DEF D
      <4> QED
        BY <2>4, <4>1, WeightedBetween
    <3> QED
      BY <2>5, <3>1
  <2> HIDE DEF D
  <2>7. lo * (10 * D) = low * 10 /\ hi * (10 * D) = high * 10 /\ 10 * D \in Nat \ {0}
    BY <2>1, <2>3
  <2> QED
    BY <2>2, <2>6, <2>7, DivBetween
<1>9. (100 * n) \div (n + k) \in 0..100 /\ ((100 * n) \div (n + k) = 0 <=> n = 0)
  BY <1>2, <1>3, ConfidenceTells
<1>10. Sum(seen, samples) = 0 <=> seen = {}
  <2>1. IsFiniteSet(seen) /\ \A row \in seen : samples[row] \in Nat \ {0}
    BY <1>1 DEF WindowOf
  <2> HIDE DEF samples
  <2> QED
    BY <2>1, SumPositive
<1>11. WindowHours \in Nat \ {0}
  BY FormulaAssumption
<1>12. seen # {} => /\ Min(hours) \in Int /\ Max(hours) \in Int /\ Min(hours) <= Max(hours)
                    /\ Max(hours) < asOf /\ asOf - Min(hours) <= WindowHours
  <2> SUFFICES ASSUME seen # {}
               PROVE  /\ Min(hours) \in Int /\ Max(hours) \in Int /\ Min(hours) <= Max(hours)
                      /\ Max(hours) < asOf /\ asOf - Min(hours) <= WindowHours
    OBVIOUS
  <2> DEFINE hour == [row \in seen |-> row.hour]
  <2>1. \A row \in seen : row.hour \in Window(asOf)
    BY <1>1 DEF WindowOf
  <2>2. hours \subseteq Window(asOf) /\ hours # {}
    BY <2>1
  <2>3. \A h \in Window(asOf) : h \in Int /\ h < asOf /\ asOf - h <= WindowHours
    BY <1>11 DEF Window
  <2>4. IsFiniteSet(hours)
    <3>1. hours = {hour[row] : row \in seen}
      OBVIOUS
    <3>2. IsFiniteSet(seen)
      BY <1>1 DEF WindowOf
    <3> HIDE DEF hours, hour
    <3> QED
      BY <3>1, <3>2, ImageFinite
  <2> HIDE DEF hours
  <2>5. hours \subseteq Int
    BY <2>2, <2>3
  <2>6. /\ Max(hours) \in hours /\ \A x \in hours : x <= Max(hours)
        /\ Min(hours) \in hours /\ \A x \in hours : Min(hours) <= x
    BY <2>2, <2>4, <2>5, Extremes
  <2> QED
    BY <2>2, <2>3, <2>6
<1>13. /\ 0 <= StandardRow(rows, asOf, segment, profile).to
                 - StandardRow(rows, asOf, segment, profile).from
       /\ StandardRow(rows, asOf, segment, profile).to <= asOf
       /\ asOf - StandardRow(rows, asOf, segment, profile).from <= WindowHours
  <2>1. CASE seen = {}
    BY <1>4, <1>11, <2>1
  <2>2. CASE seen # {}
    BY <1>4, <1>12, <2>2
  <2> QED
    BY <2>1, <2>2
<1> HIDE DEF Shrunk, parts, samples, hours
<1> QED
  BY <1>2, <1>4, <1>7, <1>8, <1>9, <1>10, <1>13 DEF StandardBetween

-----------------------------------------------------------------------------
(***************************************************************************)
(* What the tables hold, and the two properties of the scores.             *)
(***************************************************************************)
SetOfRows(partition) == IsFiniteSet(partition) /\ partition # {}

Tables ==
  /\ now \in 0..Hours /\ runs \in 0..MaxRuns
  /\ comfort = [h \in HourSet |-> comfort[h]]
  /\ rejected = [h \in HourSet |-> rejected[h]]
  /\ \A h \in HourSet :
       /\ features[h] # NULL => IsFiniteSet(features[h]) /\ \A f \in features[h] : RowTyped(f)
       /\ comfort[h] # NULL => IsFiniteSet(comfort[h]) /\ \A row \in comfort[h] : HourRow(row, h)
       /\ quarantine[h] # NULL => SetOfRows(quarantine[h])
       /\ rejected[h] # NULL => SetOfRows(rejected[h])

LEMMA TablesInit == HourInit => Tables
<1>1. Hours \in Nat /\ MaxRuns \in Nat
  BY HourDataAssumption
<1> QED
  BY <1>1 DEF HourInit, Tables

LEMMA RunRowsFinite ==
  ASSUME Given, RunOf(run)
  PROVE  /\ IsFiniteSet(DOMAIN run.segment) /\ DOMAIN run.segment \subseteq BronzeRow
         /\ IsFiniteSet(Rejects(run.rows, run.kept) \cup Unmatched(run.segment))
<1>1. /\ IsFiniteSet(run.rows) /\ run.rows \subseteq BronzeRow /\ run.kept \subseteq Sound(run.rows)
      /\ Matchable(run.kept) \subseteq run.kept /\ IsFiniteSet(Matchable(run.kept))
      /\ DOMAIN run.segment = Matchable(run.kept)
  BY RunFacts
<1>2. run.kept \subseteq run.rows
  BY <1>1 DEF Sound
<1>3. IsFiniteSet(Rejects(run.rows, run.kept))
  <2> DEFINE out == run.rows \ run.kept
             q == [row \in out |-> Quarantined(row, RejectReason(row))]
  <2>1. IsFiniteSet(out) /\ Rejects(run.rows, run.kept) = {q[row] : row \in out}
    BY <1>1, FS_Subset DEF Rejects
  <2> HIDE DEF out, q
  <2> QED
    BY <2>1, ImageFinite
<1>4. IsFiniteSet(Unmatched(run.segment))
  <2> DEFINE far == {row \in DOMAIN run.segment : run.segment[row] = NULL}
             q == [row \in far |-> Quarantined(row, "MAP_MATCH_FAILED")]
  <2>1. IsFiniteSet(far) /\ Unmatched(run.segment) = {q[row] : row \in far}
    BY <1>1, FS_Subset DEF Unmatched
  <2> HIDE DEF far, q
  <2> QED
    BY <2>1, ImageFinite
<1> QED
  BY <1>1, <1>2, <1>3, <1>4, FS_Union

LEMMA OrNothingRows ==
  ASSUME NEW S, IsFiniteSet(S), OrNothing(S) # NULL
  PROVE  SetOfRows(OrNothing(S))
BY DEF OrNothing, SetOfRows

LEMMA TablesStep ==
  ASSUME Given, Working, Stored, Tables, [HourNext]_hourVars
  PROVE  Tables'
<1>1. CASE Load \/ ValidateScores \/ Validate \/ FailRun \/ StandardScore \/ UNCHANGED hourVars
  BY <1>1 DEF Load, ValidateScores, Validate, FailRun, StandardScore, hourVars, partitions, Tables
<1>2. CASE Tick
  <2>1. now' = now + 1 /\ now < Hours /\ Hours \in Nat
    BY <1>2, HourDataAssumption DEF Tick
  <2>2. now' \in 0..Hours
    BY <2>1 DEF Tables
  <2> QED
    BY <1>2, <2>2 DEF Tick, partitions, Tables
<1>3. CASE \E h \in HourSet : StartRun(h)
  <2>1. runs' = runs + 1 /\ runs < MaxRuns /\ MaxRuns \in Nat /\ UNCHANGED <<now, partitions>>
    BY <1>3, HourDataAssumption DEF StartRun
  <2>2. runs' \in 0..MaxRuns
    BY <2>1 DEF Tables
  <2> QED
    BY <2>1, <2>2 DEF partitions, Tables
<1>4. CASE WriteQuarantine
  <2> DEFINE S == Rejects(run.rows, run.kept) \cup Unmatched(run.segment)
  <2>1. /\ run # NULL /\ quarantine' = [quarantine EXCEPT ![run.hour] = OrNothing(S)]
        /\ UNCHANGED <<now, runs, features, comfort, rejected>>
    BY <1>4 DEF WriteQuarantine
  <2>2. run.hour \in HourSet /\ IsFiniteSet(S)
    BY <2>1, RunRowsFinite DEF Working, RunOf
  <2>3. OrNothing(S) # NULL => SetOfRows(OrNothing(S))
    BY <2>2, OrNothingRows
  <2> HIDE DEF S
  <2>4. \A h \in HourSet : quarantine'[h] = IF h = run.hour THEN OrNothing(S) ELSE quarantine[h]
    BY <2>1 DEF Stored
  <2>5. \A h \in HourSet : quarantine'[h] # NULL => SetOfRows(quarantine'[h])
    BY <2>3, <2>4 DEF Tables
  <2> QED
    BY <2>1, <2>5 DEF Tables
<1>5. CASE WriteFeatures
  <2> DEFINE F == HourlyFeatures(DOMAIN run.segment, run.segment)
  <2>1. /\ run # NULL /\ features' = [features EXCEPT ![run.hour] = F]
        /\ UNCHANGED <<now, runs, quarantine, comfort, rejected>>
    BY <1>5 DEF WriteFeatures
  <2>2. run.hour \in HourSet /\ IsFiniteSet(DOMAIN run.segment) /\ DOMAIN run.segment \subseteq BronzeRow
    BY <2>1, RunRowsFinite DEF Working, RunOf
  <2>3. IsFiniteSet(F) /\ \A f \in F : RowTyped(f)
    BY <2>2, FeaturesAreFinite, FeaturesTyped
  <2> HIDE DEF F
  <2>4. \A h \in HourSet : features'[h] = IF h = run.hour THEN F ELSE features[h]
    BY <2>1 DEF Stored
  <2>5. \A h \in HourSet :
          features'[h] # NULL => IsFiniteSet(features'[h]) /\ \A f \in features'[h] : RowTyped(f)
    BY <2>3, <2>4 DEF Tables
  <2> QED
    BY <2>1, <2>5 DEF Tables
<1>6. CASE ScoreHour
  <2> DEFINE S == ScoredRows(features[run.hour], run.hour)
  <2>1. /\ run # NULL /\ features[run.hour] # NULL
        /\ comfort' = [comfort EXCEPT ![run.hour] = S]
        /\ UNCHANGED <<now, runs, features, quarantine, rejected>>
    BY <1>6 DEF ScoreHour
  <2>2. run.hour \in HourSet
    BY <2>1 DEF Working, RunOf
  <2>3. IsFiniteSet(S) /\ \A row \in S : HourRow(row, run.hour)
    <3>1. IsFiniteSet(features[run.hour]) /\ \A f \in features[run.hour] : RowTyped(f)
      BY <2>1, <2>2 DEF Tables
    <3> QED
      BY <3>1, ScoredTyped
  <2> HIDE DEF S
  <2>4. /\ \A h \in HourSet : comfort'[h] = IF h = run.hour THEN S ELSE comfort[h]
        /\ comfort' = [h \in HourSet |-> comfort'[h]]
    BY <2>1 DEF Tables
  <2>5. \A h \in HourSet :
          comfort'[h] # NULL => IsFiniteSet(comfort'[h]) /\ \A row \in comfort'[h] : HourRow(row, h)
    BY <2>3, <2>4 DEF Tables
  <2> QED
    BY <2>1, <2>4, <2>5 DEF Tables
<1>7. CASE WriteRejected
  <2> DEFINE S == RejectedRows(features[run.hour])
  <2>1. /\ run # NULL /\ run.stage = "scored"
        /\ rejected' = [rejected EXCEPT ![run.hour] = OrNothing(S)]
        /\ UNCHANGED <<now, runs, features, quarantine, comfort>>
    BY <1>7 DEF WriteRejected
  <2>2. run.hour \in HourSet
    BY <2>1 DEF Working, RunOf
  <2>3. IsFiniteSet(S)
    <3> DEFINE bad == {f \in features[run.hour] : ScoreRejectReason(f) # NULL}
               row == [f \in bad |-> [segment |-> f.segment, profile |-> f.profile,
                                      reason |-> ScoreRejectReason(f)]]
    <3>1. features[run.hour] = HourlyFeatures(DOMAIN run.segment, run.segment)
      BY <2>1 DEF Stored
    <3>2. IsFiniteSet(features[run.hour])
      BY <2>1, <3>1, RunRowsFinite, FeaturesAreFinite DEF Working
    <3>3. IsFiniteSet(bad) /\ S = {row[f] : f \in bad}
      BY <3>2, FS_Subset DEF RejectedRows
    <3> HIDE DEF bad, row, S
    <3> QED
      BY <3>3, ImageFinite
  <2>4. OrNothing(S) # NULL => SetOfRows(OrNothing(S))
    BY <2>3, OrNothingRows
  <2> HIDE DEF S
  <2>5. /\ \A h \in HourSet : rejected'[h] = IF h = run.hour THEN OrNothing(S) ELSE rejected[h]
        /\ rejected' = [h \in HourSet |-> rejected'[h]]
    BY <2>1 DEF Tables
  <2>6. \A h \in HourSet : rejected'[h] # NULL => SetOfRows(rejected'[h])
    BY <2>4, <2>5 DEF Tables
  <2> QED
    BY <2>1, <2>5, <2>6 DEF Tables
<1> QED
  BY <1>1, <1>2, <1>3, <1>4, <1>5, <1>6, <1>7 DEF HourNext

\* The rows of the window, and their scores.
UsedRows ==
  {row \in UNION {comfort[h] : h \in {g \in HourSet : comfort[g] # NULL}} :
     row.hour < now /\ now - row.hour <= WindowHours}
Points == {row.scores[d] : row \in UsedRows, d \in Directions}

LEMMA WindowTyped ==
  ASSUME Tables
  PROVE  /\ WindowRows = UsedRows /\ WindowOf(UsedRows, 0, 100, now)
         /\ UsedRows # {} => /\ Min(Points) \in Int /\ Max(Points) \in Int
                             /\ WindowOf(UsedRows, Min(Points), Max(Points), now)
<1> DEFINE stored == {g \in HourSet : comfort[g] # NULL}
           used == {row \in UNION {comfort[h] : h \in stored} :
                      row.hour < now /\ now - row.hour <= WindowHours}
           points == {row.scores[d] : row \in used, d \in Directions}
<1>0. used = UsedRows /\ points = Points
  BY DEF UsedRows, Points
<1>1. now \in Nat /\ WindowHours \in Nat /\ Hours \in Nat
  BY FormulaAssumption, HourDataAssumption DEF Tables
<1>2. \A h \in stored : h \in Nat /\ IsFiniteSet(comfort[h]) /\ \A row \in comfort[h] : HourRow(row, h)
  BY DEF Tables, HourSet
<1>3. \A h \in stored : h \in Window(now) <=> h < now /\ now - h <= WindowHours
  BY <1>1, <1>2 DEF Window
<1>4. WindowRows = used
  <2>1. \A row : row \in used <=> \E h \in stored : row \in comfort[h] /\ h \in Window(now)
    BY <1>2, <1>3 DEF HourRow
  <2>2. \A row : row \in WindowRows <=> \E h \in stored : row \in comfort[h] /\ h \in Window(now)
    BY DEF WindowRows
  <2> HIDE DEF used
  <2> QED
    BY <2>1, <2>2
<1>5. IsFiniteSet(used)
  <2>1. IsFiniteSet(stored)
    <3>1. IsFiniteSet(HourSet)
      BY <1>1, FS_Interval DEF HourSet
    <3> QED
      BY <3>1, FS_Subset
  <2>2. IsFiniteSet({comfort[h] : h \in stored})
    <3> HIDE DEF stored
    <3> QED
      BY <2>1, ImageFinite
  <2>3. IsFiniteSet(UNION {comfort[h] : h \in stored})
    BY <1>2, <2>2, FS_UNION
  <2> QED
    BY <2>3, FS_Subset
<1>6. \A row \in used : /\ row.hour \in Window(now)
                        /\ row.trips \in Nat \ {0} /\ row.samples \in Nat \ {0}
                        /\ row.scores \in [Directions -> 0..100]
  BY <1>2, <1>3 DEF HourRow
<1> HIDE DEF used
<1>7. WindowOf(used, 0, 100, now)
  BY <1>5, <1>6 DEF WindowOf
<1>8. ASSUME used # {}
      PROVE  /\ Min(points) \in Int /\ Max(points) \in Int
             /\ WindowOf(used, Min(points), Max(points), now)
  <2>1. IsFiniteSet(Directions) /\ Directions # {}
    <3>1. IsFiniteSet(Directions) /\ Sum(Directions, DirectionWeights) = 10
      BY FormulaAssumption
    <3>2. Sum({}, DirectionWeights) = 0
      BY FS_EmptySet, SumAdds
    <3> QED
      BY <3>1, <3>2
  <2>0. \A x : x \in points <=> \E row \in used, d \in Directions : x = row.scores[d]
    OBVIOUS
  <2>2. points \subseteq Int /\ points # {}
    <3> HIDE DEF points
    <3>1. \A row \in used, d \in Directions : row.scores[d] \in Int
      BY <1>6
    <3>2. points \subseteq Int
      BY <2>0, <3>1
    <3>3. PICK row \in used, d \in Directions : TRUE
      BY <1>8, <2>1
    <3>4. row.scores[d] \in points
      BY <2>0
    <3> QED
      BY <3>2, <3>4
  <2>3. IsFiniteSet(points)
    <3> DEFINE pairs == used \X Directions
               score == [p \in pairs |-> p[1].scores[p[2]]]
    <3>1. IsFiniteSet(pairs)
      BY <1>5, <2>1, FS_Product
    <3> HIDE DEF points
    <3>2. points = {score[p] : p \in pairs}
      <4>1. ASSUME NEW x \in points PROVE \E p \in pairs : x = score[p]
        <5>1. PICK row \in used, d \in Directions : x = row.scores[d]
          BY <2>0
        <5>2. <<row, d>> \in pairs /\ score[<<row, d>>] = x
          BY <5>1
        <5> QED
          BY <5>2
      <4>2. ASSUME NEW p \in pairs PROVE score[p] \in points
        BY <2>0
      <4> QED
        BY <4>1, <4>2
    <3> HIDE DEF pairs, score
    <3> QED
      BY <3>1, <3>2, ImageFinite
  <2>4. \A row \in used, d \in Directions : row.scores[d] \in points
    OBVIOUS
  <2> HIDE DEF points
  <2>5. /\ Max(points) \in points /\ \A x \in points : x <= Max(points)
        /\ Min(points) \in points /\ \A x \in points : Min(points) <= x
    BY <2>2, <2>3, Extremes
  <2>6. Min(points) \in Int /\ Max(points) \in Int
    BY <2>2, <2>5
  <2>7. \A row \in used, d \in Directions : row.scores[d] \in Min(points)..Max(points)
    <3> TAKE row \in used, d \in Directions
    <3>1. row.scores[d] \in points
      BY <2>4
    <3>2. row.scores[d] \in Int /\ Min(points) <= row.scores[d] /\ row.scores[d] <= Max(points)
      BY <2>2, <2>5, <3>1
    <3> QED
      BY <2>6, <3>2
  <2>8. \A row \in used : row.scores \in [Directions -> Min(points)..Max(points)]
    BY <1>6, <2>7
  <2> QED
    BY <1>5, <1>6, <2>6, <2>8 DEF WindowOf
<1> HIDE DEF points
<1> QED
  BY <1>0, <1>4, <1>7, <1>8

\* What StandardScore writes, from the rows of the window.
LEMMA StandardWritten ==
  ASSUME Tables, StandardScore
  PROVE  /\ \A row \in standard' : StandardBetween(row, Min(Points), Max(Points), now)
         /\ \A row \in standard' : StandardBetween(row, 0, 100, now)
         /\ \A segment \in Universe, profile \in Profiles \cup {AllVehicles} :
              Cardinality({row \in standard' : row.segment = segment /\ row.profile = profile}) = 1
<1> DEFINE Keys == Universe \X (Profiles \cup {AllVehicles})
<1>1. /\ WindowRows = UsedRows /\ WindowOf(UsedRows, 0, 100, now)
      /\ UsedRows # {} => /\ Min(Points) \in Int /\ Max(Points) \in Int
                      /\ WindowOf(UsedRows, Min(Points), Max(Points), now)
  BY WindowTyped
<1>2. UsedRows # {} /\ standard' = StandardRows(UsedRows, now)
  BY <1>1 DEF StandardScore
<1>3. now \in Nat
  BY HourDataAssumption DEF Tables
<1>4. \A profile : Population(UsedRows, profile) # {}
  BY <1>1, <1>2, SeenAndMean
<1>5. standard' = {StandardRow(UsedRows, now, key[1], key[2]) : key \in Keys}
  BY <1>2, <1>4 DEF StandardRows
<1>6. \A segment, profile :
        /\ StandardBetween(StandardRow(UsedRows, now, segment, profile), Min(Points), Max(Points), now)
        /\ StandardBetween(StandardRow(UsedRows, now, segment, profile), 0, 100, now)
  BY <1>1, <1>2, <1>3, StandardRowWithin
<1>7. \A segment, profile : /\ StandardRow(UsedRows, now, segment, profile).segment = segment
                            /\ StandardRow(UsedRows, now, segment, profile).profile = profile
  BY DEF StandardRow
<1>8. ASSUME NEW segment \in Universe, NEW profile \in Profiles \cup {AllVehicles}
      PROVE  Cardinality({row \in standard' : row.segment = segment /\ row.profile = profile}) = 1
  <2>1. {row \in standard' : row.segment = segment /\ row.profile = profile}
          = {StandardRow(UsedRows, now, segment, profile)}
    <3>1. <<segment, profile>> \in Keys
      OBVIOUS
    <3>2. StandardRow(UsedRows, now, segment, profile) \in standard'
      BY <1>5, <3>1
    <3>3. ASSUME NEW row \in standard', row.segment = segment, row.profile = profile
          PROVE  row = StandardRow(UsedRows, now, segment, profile)
      <4>1. PICK key \in Keys : row = StandardRow(UsedRows, now, key[1], key[2])
        BY <1>5
      <4>2. key[1] = segment /\ key[2] = profile
        BY <1>7, <3>3, <4>1
      <4> QED
        BY <4>1, <4>2
    <3> QED
      BY <1>7, <3>2, <3>3
  <2> QED
    BY <2>1, FS_Singleton
<1>9. /\ \A row \in standard' : StandardBetween(row, Min(Points), Max(Points), now)
      /\ \A row \in standard' : StandardBetween(row, 0, 100, now)
  BY <1>5, <1>6
<1> QED
  BY <1>8, <1>9

StandardTyped ==
  standard # NULL => \A row \in standard :
    ScoresOK(row.scores) /\ row.comfort \in 0..100 /\ row.confidence \in 0..100

LEMMA StandardStep ==
  ASSUME Tables, StandardTyped, [HourNext]_hourVars
  PROVE  StandardTyped'
<1>1. CASE StandardScore
  <2>1. \A row \in standard' : StandardBetween(row, 0, 100, now)
    BY <1>1, StandardWritten
  <2> QED
    BY <2>1 DEF StandardTyped, StandardBetween, ScoresOK
<1>2. ASSUME standard' = standard PROVE StandardTyped'
  BY <1>2 DEF StandardTyped
<1> QED
  BY <1>1, <1>2 DEF HourNext, hourVars, Load, Tick, StartRun, WriteQuarantine, WriteFeatures,
     Validate, ScoreHour, WriteRejected, ValidateScores, FailRun

AllTyped == Given /\ Working /\ Stored /\ Tables /\ StandardTyped

LEMMA AllTypedAlways == HourSpec => []AllTyped
<1>1. HourInit => AllTyped
  <2>1. HourInit => StandardTyped
    BY DEF HourInit, StandardTyped
  <2> QED
    BY <2>1, GivenKept, StoredInit, TablesInit DEF AllTyped
<1>2. AllTyped /\ [HourNext]_hourVars => AllTyped'
  BY GivenStep, StoredStep, TablesStep, StandardStep DEF AllTyped
<1> QED
  BY <1>1, <1>2, PTL DEF HourSpec

\* Of any rows and for any weights, the tables of an hour hold what they can
\* hold, and every score has 0 to 100 points (hourly_comfort.py
\* _component_score, comfort_score/formula.py _apply_shrinkage).
THEOREM TablesTyped == HourSpec => []HourTypeOK
<1>1. AllTyped => HourTypeOK
  <2> SUFFICES ASSUME AllTyped PROVE HourTypeOK
    OBVIOUS
  <2> USE DEF AllTyped
  <2>1. loaded \in 0..Len(input.feed)
    BY DEF Given
  <2>2. run # NULL => /\ run.hour \in HourSet /\ run.stage \in Stages
                      /\ DOMAIN run.segment \subseteq run.kept /\ run.kept \subseteq run.rows
    <3> SUFFICES ASSUME RunOf(run)
                 PROVE  /\ run.hour \in HourSet /\ run.stage \in Stages
                        /\ DOMAIN run.segment \subseteq run.kept /\ run.kept \subseteq run.rows
      BY DEF Working
    <3>1. /\ run.kept \subseteq Sound(run.rows) /\ Matchable(run.kept) \subseteq run.kept
          /\ DOMAIN run.segment = Matchable(run.kept)
      BY RunFacts
    <3>2. run.hour \in HourSet /\ run.stage \in Stages
      BY DEF RunOf
    <3> QED
      BY <3>1, <3>2 DEF Sound
  <2>3. ASSUME NEW h \in HourSet
        PROVE  /\ features[h] # NULL => \A f \in features[h] : FeatureRowOK(f)
               /\ comfort[h] # NULL => \A row \in comfort[h] : ScoresOK(row.scores)
               /\ quarantine[h] # NULL => Cardinality(quarantine[h]) > 0
               /\ rejected[h] # NULL => Cardinality(rejected[h]) > 0
    <3>1. features[h] # NULL => \A f \in features[h] : FeatureRowOK(f)
      BY DEF Tables, RowTyped
    <3>2. comfort[h] # NULL => \A row \in comfort[h] : ScoresOK(row.scores)
      BY DEF Tables, HourRow, ScoresOK
    <3>3. \A S : SetOfRows(S) => Cardinality(S) > 0
      <4> SUFFICES ASSUME NEW S, SetOfRows(S) PROVE Cardinality(S) > 0
        OBVIOUS
      <4>1. Cardinality(S) \in Nat /\ Cardinality(S) # 0
        BY FS_CardinalityType, FS_EmptySet DEF SetOfRows
      <4> QED
        BY <4>1
    <3> QED
      BY <3>1, <3>2, <3>3 DEF Tables
  <2> QED
    BY <2>1, <2>2, <2>3 DEF HourTypeOK, Tables, StandardTyped
<1> QED
  BY <1>1, AllTypedAlways, PTL

\* What StandardComplete says of a step that changes the standard scores.
WholeMap ==
  /\ \A segment \in Universe, profile \in Profiles \cup {AllVehicles} :
       Cardinality({row \in standard' : row.segment = segment /\ row.profile = profile}) = 1
  /\ \A row \in standard' :
       /\ \A d \in Directions : row.scores[d] \in Min(Points)..Max(Points)
       /\ row.comfort \in Min(Points)..Max(Points)
       /\ row.samples = 0 <=> row.confidence = 0
       /\ 0 <= row.to - row.from /\ row.to <= now /\ now - row.from <= WindowHours

\* Whatever the hours hold, a standard score has a row for every segment and
\* profile, between the lowest and the highest score it was made from
\* (comfort_score/formula.py, loader.py).
THEOREM WholeMapScored == HourSpec => StandardComplete
<1>1. ASSUME AllTyped, HourNext, standard' # standard
      PROVE  WholeMap
  <2>1. StandardScore
    BY <1>1 DEF HourNext, Load, Tick, StartRun, WriteQuarantine, WriteFeatures,
       Validate, ScoreHour, WriteRejected, ValidateScores, FailRun
  <2>2. \A row \in standard' : StandardBetween(row, Min(Points), Max(Points), now)
    BY <1>1, <2>1, StandardWritten DEF AllTyped
  <2> QED
    BY <1>1, <2>1, <2>2, StandardWritten DEF AllTyped, StandardBetween, WholeMap
<1>2. AllTyped /\ [HourNext]_hourVars => [standard' # standard => WholeMap]_hourVars
  BY <1>1
<1> QED
  BY <1>2, AllTypedAlways, PTL DEF HourSpec, StandardComplete, WholeMap, Points, UsedRows
=============================================================================
