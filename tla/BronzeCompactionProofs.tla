----------------------- MODULE BronzeCompactionProofs -----------------------
(***************************************************************************)
(* BronzeCompaction for every number of partitions, files, chunks and      *)
(* failures: NoRowLost when a failed multi-object delete removed nothing   *)
(* (with partial deletes TLC refutes it); its types; and, while nothing    *)
(* has failed, that each row is stored once.                               *)
(***************************************************************************)
EXTENDS BronzeCompaction, FiniteSetTheorems, TLAPS

InFlight == {"upload", "check", "delete", "cleanup"}

\* Merge b will not be cleaned up any more.
Settled(b) == b < batch \/ pc \notin InFlight

\* A deleted source is held by a merge that is not the one still in flight,
\* and the job deletes only what the current merge holds.
Inv ==
  /\ TypeOK
  /\ pc \in InFlight \cup {"read"} => group \in Groups
  /\ pc \in InFlight => batch > 0
  /\ pc = "delete" => CountsMatch
  /\ \A g \in Groups : \A s \in landed[g] \ files[g] :
       \E b \in 1..batch : Settled(b) /\ Merged(g, b, s)

\* A merge whose rows were counted holds every share of every listed file.
LEMMA CountedIsMerged ==
  ASSUME TypeOK, CountsMatch, NEW s \in listed[group], group \in Groups
  PROVE  Merged(group, batch, s)
BY DEF TypeOK, CountsMatch, Mine, Merged, Copies, Output

\* Outputs that only grow keep the merges they hold.
LEMMA MergedGrows ==
  ASSUME NEW g, NEW b, NEW s, outputs \subseteq outputs', Merged(g, b, s)
  PROVE  Merged(g, b, s)'
BY DEF Merged, Copies

\* Cleaning up the current merge touches no other.
LEMMA MergedOutlives ==
  ASSUME NEW g, NEW b, NEW s, outputs' = outputs \ Mine, b # batch, Merged(g, b, s)
  PROVE  Merged(g, b, s)'
BY DEF Merged, Copies, Mine

\* Inv holds at the start.
LEMMA InitInv == Init => Inv
BY GroupsAssumption DEF Init, Inv, TypeOK, InFlight

\* A step that neither deletes files nor outputs, and does not put an earlier
\* merge in flight again, keeps the last conjunct of Inv.
LEMMA HeldKept ==
  ASSUME Inv, TypeOK',
         \A g \in Groups : landed'[g] \ files'[g] \subseteq landed[g] \ files[g],
         outputs \subseteq outputs',
         batch' >= batch,
         \A b \in 1..batch : Settled(b) => Settled(b)'
  PROVE  \A g \in Groups : \A s \in landed'[g] \ files'[g] :
           \E b \in 1..batch' : Settled(b)' /\ Merged(g, b, s)'
<1> TAKE g \in Groups
<1> TAKE s \in landed'[g] \ files'[g]
<1>1. PICK b \in 1..batch : Settled(b) /\ Merged(g, b, s)
  BY DEF Inv
<1>2. Merged(g, b, s)'
  BY <1>1, MergedGrows
<1>3. b \in 1..batch'
  BY <1>1 DEF Inv, TypeOK
<1> QED
  BY <1>1, <1>2, <1>3

\* Every step keeps Inv when a failed delete removes nothing.
LEMMA InvStep ==
  ASSUME PartialDeletes = FALSE, Inv, [Next]_vars
  PROVE  Inv'
<1> DEFINE Held == \A g \in Groups : \A s \in landed[g] \ files[g] :
                     \E b \in 1..batch : Settled(b) /\ Merged(g, b, s)
<1> USE DEF InFlight
<1> TypeOK /\ Held
  BY DEF Inv
<1> SUFFICES /\ TypeOK'
             /\ pc' \in InFlight \cup {"read"} => group' \in Groups
             /\ pc' \in InFlight => batch' > 0
             /\ pc' = "delete" => CountsMatch'
             /\ Held'
  BY DEF Inv
<1>1. CASE UNCHANGED vars
  BY <1>1, HeldKept DEF Inv, vars, stream, run, TypeOK, CountsMatch, Mine, Settled
<1>2. ASSUME NEW g \in Groups, NEW s \in Sources, Land(g, s)
      PROVE  Inv'
  <2>1. TypeOK'
    BY <1>2 DEF TypeOK, Land, run
  <2>2. \A h \in Groups : landed'[h] \ files'[h] \subseteq landed[h] \ files[h]
    BY <1>2 DEF TypeOK, Land
  <2>3. Held'
    BY <1>2, <2>1, <2>2, HeldKept DEF TypeOK, Land, run, Settled
  <2> QED
    BY <1>2, <2>1, <2>3 DEF Inv, Land, run, CountsMatch, Mine
<1>3. ASSUME NEW g \in Groups, Settle(g)
      PROVE  Inv'
  <2>1. TypeOK'
    BY <1>3 DEF TypeOK, Settle, run
  <2>2. Held'
    BY <1>3, <2>1, HeldKept DEF TypeOK, Settle, run, Settled
  <2> QED
    BY <1>3, <2>1, <2>2 DEF Inv, Settle, run, CountsMatch, Mine
<1>4. CASE StartRun
  <2>1. TypeOK'
    BY <1>4 DEF TypeOK, StartRun, stream
  <2>2. Held'
    BY <1>4, <2>1, HeldKept DEF TypeOK, StartRun, stream, Settled
  <2> QED
    BY <1>4, <2>1, <2>2 DEF StartRun
<1>5. ASSUME NEW g \in Groups, Pick(g)
      PROVE  Inv'
  <2>1. TypeOK'
    BY <1>5 DEF TypeOK, Pick, stream
  <2>2. Held'
    BY <1>5, <2>1, HeldKept DEF TypeOK, Pick, stream, Settled
  <2> QED
    BY <1>5, <2>1, <2>2 DEF Inv, Pick
<1>6. CASE EndRun
  <2>1. TypeOK'
    BY <1>6 DEF TypeOK, EndRun, stream, run
  <2>2. Held'
    BY <1>6, <2>1, HeldKept DEF TypeOK, EndRun, stream, run, Settled
  <2> QED
    BY <1>6, <2>1, <2>2 DEF EndRun
<1>7. CASE Read
  <2>1. TypeOK'
    BY <1>7 DEF TypeOK, Read, stream
  <2>2. \A b \in 1..batch : Settled(b) => Settled(b)'
    BY <1>7 DEF TypeOK, Read, Settled
  <2>3. Held'
    BY <1>7, <2>1, <2>2, HeldKept DEF TypeOK, Read, stream
  <2> QED
    BY <1>7, <2>1, <2>3 DEF Inv, Read, TypeOK
<1>8. ASSUME NEW k \in Chunks, Upload(k) \/ UploadShort(k)
      PROVE  Inv'
  <2>1. PICK rows \in SUBSET listed[group] :
          outputs' = outputs \cup
            {[group |-> group, batch |-> batch, chunk |-> k, rows |-> rows]}
    BY <1>8 DEF Upload, UploadShort
  <2>2. group \in Groups /\ UNCHANGED <<stream, run>> /\ pc = "upload"
        /\ pc' \in {"upload", "check"} /\ mishaps' \in Nat
    BY <1>8 DEF Inv, Upload, UploadShort, Mishap, TypeOK
  <2>3. TypeOK'
    BY <2>1, <2>2 DEF TypeOK, stream, run, Output
  <2>4. Held'
    BY <2>1, <2>2, <2>3, HeldKept DEF TypeOK, stream, run, Settled
  <2>5. batch' > 0 /\ pc' # "delete" /\ group' \in Groups
    BY <2>2 DEF Inv, run
  <2> QED
    BY <2>3, <2>4, <2>5 DEF Inv
<1>9. CASE Check
  <2>1. TypeOK'
    BY <1>9 DEF TypeOK, Check, stream, run
  <2>2. Held'
    BY <1>9, <2>1, HeldKept DEF TypeOK, Check, stream, run, Settled
  <2> QED
    BY <1>9, <2>1, <2>2 DEF Inv, Check, CountsMatch, Mine, run
<1>10. CASE DeleteSources
  <2>1. TypeOK'
    BY <1>10 DEF TypeOK, DeleteSources, Inv
  <2>2. group \in Groups /\ CountsMatch
    BY <1>10 DEF Inv, DeleteSources
  <2>3. outputs' = outputs /\ batch' = batch /\ pc' = "pick"
    BY <1>10 DEF DeleteSources
  <2>4. \A b \in 1..batch : Settled(b)'
    BY <2>3 DEF Settled
  <2>5. ASSUME NEW g \in Groups, NEW s \in landed'[g] \ files'[g]
        PROVE  \E b \in 1..batch' : Settled(b)' /\ Merged(g, b, s)'
    <3>1. CASE s \in landed[g] \ files[g]
      <4>1. PICK b \in 1..batch : Merged(g, b, s)
        BY <3>1
      <4> QED
        BY <4>1, <2>3, <2>4, MergedGrows
    <3>2. CASE s \notin landed[g] \ files[g]
      <4>1. g = group /\ s \in listed[group]
        BY <1>10, <2>2, <2>5, <3>2 DEF DeleteSources, TypeOK
      <4>2. Merged(g, batch, s)
        BY <4>1, <2>2, CountedIsMerged
      <4>3. batch \in 1..batch
        BY <1>10, <2>2, <4>2 DEF Inv, TypeOK, DeleteSources
      <4> QED
        BY <4>2, <4>3, <2>3, <2>4, MergedGrows
    <3> QED
      BY <3>1, <3>2
  <2> QED
    BY <2>1, <2>3, <2>5
<1>11. CASE Cleanup \/ CleanupFails
  <2>1. pc = "cleanup" /\ pc' = "idle" /\ UNCHANGED <<stream, run>> /\ mishaps' \in Nat
    BY <1>11 DEF Cleanup, CleanupFails, Mishap, TypeOK
  <2>2. outputs' = outputs \ Mine \/ outputs' = outputs
    BY <1>11, PartialDeletes = FALSE DEF Cleanup, CleanupFails, PartOf
  <2>3. TypeOK'
    BY <2>1, <2>2 DEF TypeOK, stream, run
  <2>4. ASSUME NEW g \in Groups, NEW s \in landed'[g] \ files'[g]
        PROVE  \E b \in 1..batch' : Settled(b)' /\ Merged(g, b, s)'
    <3>1. PICK b \in 1..batch : Settled(b) /\ Merged(g, b, s)
      BY <2>1 DEF stream
    <3>2. b # batch
      BY <2>1, <3>1 DEF Settled, TypeOK
    <3>3. Merged(g, b, s)'
      BY <2>2, <3>1, <3>2, MergedOutlives, MergedGrows
    <3> QED
      BY <2>1, <3>1, <3>3 DEF Settled, run
  <2> QED
    BY <2>1, <2>3, <2>4
<1>12. CASE StoreFails \/ DeleteFails
  <2>1. UNCHANGED <<landed, recent, outputs, run>> /\ pc' = "cleanup" /\ pc \in InFlight
        /\ mishaps' \in Nat
    BY <1>12 DEF StoreFails, DeleteFails, Mishap, TypeOK, stream
  <2>2. files' = files
    BY <1>12, PartialDeletes = FALSE DEF StoreFails, DeleteFails, PartOf, stream, TypeOK
  <2>3. TypeOK'
    BY <2>1, <2>2 DEF TypeOK, run
  <2>4. Held'
    BY <2>1, <2>2, <2>3, HeldKept DEF TypeOK, run, Settled
  <2> QED
    BY <2>1, <2>3, <2>4 DEF Inv, run
<1>13. CASE Crash
  <2>1. TypeOK'
    BY <1>13 DEF TypeOK, Crash, stream, run, Mishap
  <2>2. Held'
    BY <1>13, <2>1, HeldKept DEF TypeOK, Crash, stream, run, Settled
  <2> QED
    BY <1>13, <2>1, <2>2 DEF Crash
<1> QED
  BY <1>1, <1>2, <1>3, <1>4, <1>5, <1>6, <1>7, <1>8, <1>9, <1>10, <1>11, <1>12, <1>13
  DEF Next, Job, Stream, Failure, Inv

\* The compaction never loses a row: a source file is gone only when one merge
\* still holds every share of its rows, through crashes, failed uploads, short
\* outputs, failed clean-ups and files that land during the run.
THEOREM NothingLost ==
  ASSUME PartialDeletes = FALSE
  PROVE  Spec => []NoRowLost
<1>1. Init => Inv
  BY InitInv
<1>2. Inv /\ [Next]_vars => Inv'
  BY InvStep
<1>3. Inv => NoRowLost
  BY DEF Inv, NoRowLost
<1> QED
  BY <1>1, <1>2, <1>3, PTL DEF Spec
-----------------------------------------------------------------------------
(* The types, whatever a failed delete removes. *)

InGroup == pc \in {"read", "upload", "check", "delete"} => group \in Groups

Typed == TypeOK /\ InGroup

\* A step of any actor keeps the types.
LEMMA TypedStep == ASSUME Typed, [Next]_vars PROVE Typed'
<1> USE DEF Typed, InGroup
<1>1. CASE UNCHANGED vars
  BY <1>1 DEF vars, stream, run, TypeOK
<1>2. CASE Stream
  BY <1>2 DEF Stream, Settle, Land, TypeOK, run
<1>3. CASE StartRun \/ EndRun \/ Read \/ Check \/ \E g \in Groups : Pick(g)
  BY <1>3 DEF StartRun, EndRun, Read, Check, Pick, TypeOK, stream, run
<1>4. ASSUME NEW k \in Chunks, Upload(k) \/ UploadShort(k) PROVE Typed'
  <2>1. PICK rows \in SUBSET listed[group] :
          outputs' = outputs \cup
            {[group |-> group, batch |-> batch, chunk |-> k, rows |-> rows]}
    BY <1>4 DEF Upload, UploadShort
  <2>2. group \in Groups /\ UNCHANGED <<stream, run>> /\ pc' \in {"upload", "check"}
        /\ mishaps' \in Nat
    BY <1>4 DEF Upload, UploadShort, Mishap, TypeOK
  <2>3. [group |-> group, batch |-> batch, chunk |-> k, rows |-> rows] \in Output
    BY <2>1, <2>2 DEF Output, TypeOK
  <2> QED
    BY <2>1, <2>2, <2>3 DEF TypeOK, stream, run
<1>5. CASE DeleteSources
  BY <1>5 DEF DeleteSources, TypeOK
<1>6. CASE Cleanup \/ CleanupFails
  <2>1. outputs' \subseteq outputs
    BY <1>6 DEF Cleanup, CleanupFails
  <2>2. pc' = "idle" /\ UNCHANGED <<stream, run>> /\ mishaps' \in Nat
    BY <1>6 DEF Cleanup, CleanupFails, Mishap, TypeOK
  <2> QED
    BY <2>1, <2>2 DEF TypeOK, stream, run
<1>7. CASE StoreFails \/ Crash
  BY <1>7 DEF StoreFails, Crash, Mishap, TypeOK, stream, run
<1>8. CASE DeleteFails
  <2>1. PICK gone : files' = [files EXCEPT ![group] = @ \ gone]
    BY <1>8 DEF DeleteFails
  <2>2. files' \in [Groups -> SUBSET Sources]
    BY <2>1 DEF TypeOK
  <2> QED
    BY <1>8, <2>2 DEF DeleteFails, Mishap, TypeOK, run
<1> QED
  BY <1>1, <1>2, <1>3, <1>4, <1>5, <1>6, <1>7, <1>8 DEF Next, Job, Failure

\* Partitions, files, outputs and the job keep their types, partial deletes
\* included.
THEOREM TypeCorrect == Spec => []TypeOK
<1>1. Init => Typed
  BY GroupsAssumption DEF Init, Typed, TypeOK, InGroup
<1>2. Typed /\ [Next]_vars => Typed'
  BY TypedStep
<1> QED
  BY <1>1, <1>2, PTL DEF Spec, Typed
-----------------------------------------------------------------------------
(* Without mishaps every row is stored once, partial deletes or not. *)

Merging == pc \in {"upload", "check", "delete"}

\* A file that is still there is in no output, but for those of the merge that
\* will delete it; of one that is gone each share is in one output.
NotMergedYet(g, s) ==
  \A o \in outputs : o.group = g /\ s \in o.rows => Merging /\ o \in Mine
MergedOnce(g, s, k) == \E o \in Copies(g, s, k) : \A p \in Copies(g, s, k) : p = o

OutputsKnown ==
  /\ \A g \in Groups : files[g] \subseteq landed[g]
  /\ \A o \in outputs : o.batch <= batch /\ o.rows \subseteq landed[o.group]

\* What the run has still to delete is there.
ListedIsThere ==
  /\ pc = "read" \/ Merging => group \in Groups \ todo /\ listed[group] \subseteq files[group]
  /\ \A g \in todo : listed[g] \subseteq files[g]

MineIsWhole ==
  /\ pc # "cleanup"
  /\ Merging => \A o \in Mine : o.rows = listed[group]
  /\ pc \in {"check", "delete"} => Uploaded = Chunks

StoredOnce ==
  /\ \A g \in Groups : \A s \in files[g] : NotMergedYet(g, s)
  /\ \A g \in Groups : \A s \in landed[g] \ files[g], k \in Chunks : MergedOnce(g, s, k)

Once == OutputsKnown /\ ListedIsThere /\ MineIsWhole /\ StoredOnce

\* Landing, settling and the job's steps between two merges leave the outputs
\* alone, and no file of which an output holds rows is new.
LEMMA OnceElsewhere ==
  ASSUME Typed, Once, Typed', Stream \/ StartRun \/ EndRun \/ \E g \in Groups : Pick(g)
  PROVE  Once'
<1>1. CASE \E g \in Groups : Settle(g)
  BY <1>1 DEF Settle, Once, OutputsKnown, ListedIsThere, MineIsWhole, StoredOnce,
     NotMergedYet, MergedOnce, Merging, Mine, Uploaded, Copies, run
<1>2. ASSUME NEW g \in Groups, NEW s \in Sources, Land(g, s) PROVE Once'
  <2>1. landed' = [landed EXCEPT ![g] = @ \cup {s}] /\ files' = [files EXCEPT ![g] = @ \cup {s}]
        /\ s \notin landed[g] /\ UNCHANGED <<outputs, pc, run>>
    BY <1>2 DEF Land
  <2>2. OutputsKnown'
    BY <2>1 DEF Once, OutputsKnown, Typed, TypeOK, Output, run
  <2>3. ListedIsThere'
    BY <2>1 DEF Once, ListedIsThere, Merging, Typed, TypeOK, run
  <2>4. MineIsWhole'
    BY <2>1 DEF Once, MineIsWhole, Merging, Mine, Uploaded, run
  <2>5. ASSUME NEW h \in Groups, NEW t \in files'[h] PROVE NotMergedYet(h, t)'
    <3>1. t \in files[h] \/ (h = g /\ t = s)
      BY <2>1 DEF Typed, TypeOK
    <3>2. CASE t \in files[h]
      BY <2>1, <3>2 DEF Once, StoredOnce, NotMergedYet, Merging, Mine, run
    <3>3. CASE h = g /\ t = s
      BY <2>1, <3>3 DEF Once, OutputsKnown, NotMergedYet
    <3> QED
      BY <3>1, <3>2, <3>3
  <2>6. ASSUME NEW h \in Groups, NEW t \in landed'[h] \ files'[h], NEW k \in Chunks
        PROVE  MergedOnce(h, t, k)'
    <3>1. t \in landed[h] \ files[h]
      BY <2>1 DEF Typed, TypeOK
    <3> QED
      BY <2>1, <3>1 DEF Once, StoredOnce, MergedOnce, Copies
  <2> QED
    BY <2>2, <2>3, <2>4, <2>5, <2>6 DEF Once, StoredOnce
<1>3. CASE StartRun \/ EndRun \/ \E g \in Groups : Pick(g)
  <2>1. ~Merging /\ ~Merging' /\ pc' # "cleanup" /\ UNCHANGED <<stream, outputs, batch>>
    BY <1>3 DEF StartRun, EndRun, Pick, Merging, stream, run
  <2>2. OutputsKnown' /\ StoredOnce'
    BY <2>1 DEF Once, OutputsKnown, StoredOnce, NotMergedYet, MergedOnce, Copies, stream
  <2>3. MineIsWhole'
    BY <2>1 DEF MineIsWhole, Merging
  <2>4. CASE StartRun
    <3>1. \A g \in Groups : listed'[g] \subseteq files'[g]
      BY <2>4 DEF StartRun, stream
    <3> QED
      BY <2>1, <2>2, <2>3, <2>4, <3>1 DEF Once, ListedIsThere, StartRun
  <2>5. CASE EndRun
    BY <2>1, <2>2, <2>3, <2>5 DEF Once, ListedIsThere, EndRun, run, stream
  <2>6. ASSUME NEW g \in Groups, Pick(g) PROVE ListedIsThere'
    <3>1. todo' = todo \ {g} /\ listed' = listed /\ files' = files /\ g \in todo
          /\ (pc' = "read" => group' = g)
      BY <2>6 DEF Pick, stream
    <3> QED
      BY <2>1, <3>1 DEF Once, ListedIsThere
  <2> QED
    BY <1>3, <2>2, <2>3, <2>4, <2>5, <2>6 DEF Once
<1> QED
  BY <1>1, <1>2, <1>3 DEF Stream

\* A merge begins, is counted and ends.
LEMMA OnceMerging ==
  ASSUME Typed, Once, Typed', Read \/ Check \/ DeleteSources \/ Cleanup \/ \E k \in Chunks : Upload(k)
  PROVE  Once'
<1>1. CASE Read
  <2>1. pc = "read" /\ pc' \in {"idle", "upload"} /\ UNCHANGED <<stream, outputs, listed, todo, group>>
        /\ (pc' = "upload" => batch' = batch + 1) /\ batch' \in {batch, batch + 1}
    BY <1>1 DEF Read
  <2>2. batch \in Nat
    BY DEF Typed, TypeOK
  <2>3. \A o \in outputs : o.batch \in Nat /\ o.batch <= batch
    BY DEF Once, OutputsKnown, Typed, TypeOK, Output
  <2>4. OutputsKnown'
    BY <2>1, <2>2, <2>3 DEF Once, OutputsKnown, stream
  <2>5. ListedIsThere'
    BY <2>1 DEF Once, ListedIsThere, stream, Merging
  <2>6. Merging' => Mine' = {}
    BY <2>1, <2>2, <2>3 DEF Merging, Mine
  <2>7. MineIsWhole'
    BY <2>1, <2>6 DEF MineIsWhole, Merging
  <2>8. StoredOnce'
    BY <2>1 DEF Once, StoredOnce, NotMergedYet, MergedOnce, Copies, Merging, stream
  <2> QED
    BY <2>4, <2>5, <2>7, <2>8 DEF Once
<1>2. CASE Check \/ Cleanup
  <2>1. pc = "check" /\ CountsMatch
    <3>1. pc = "check"
      BY <1>2 DEF Once, MineIsWhole, Check, Cleanup
    <3>2. Uploaded = Chunks /\ \A o \in Mine : o.rows = listed[group]
      BY <3>1 DEF Once, MineIsWhole, Merging
    <3> QED
      BY <3>1, <3>2 DEF CountsMatch, Uploaded
  <2>2. pc' = "delete" /\ UNCHANGED <<stream, outputs, run>>
    BY <1>2, <2>1 DEF Check, Cleanup
  <2>3. Merging /\ Merging'
    BY <2>1, <2>2 DEF Merging
  <2>4. OutputsKnown' /\ ListedIsThere' /\ MineIsWhole'
    BY <2>1, <2>2, <2>3 DEF Once, OutputsKnown, ListedIsThere, MineIsWhole, Mine, Uploaded, stream, run
  <2>5. StoredOnce'
    BY <2>2, <2>3 DEF Once, StoredOnce, NotMergedYet, MergedOnce, Copies, Mine, stream, run
  <2> QED
    BY <2>4, <2>5 DEF Once
<1>3. CASE DeleteSources
  <2>1. pc = "delete" /\ pc' = "pick" /\ files' = [files EXCEPT ![group] = @ \ listed[group]]
        /\ UNCHANGED <<landed, outputs, listed, todo, group, batch>>
    BY <1>3 DEF DeleteSources
  <2>2. group \in Groups \ todo /\ listed[group] \subseteq files[group] /\ Merging /\ ~Merging'
    BY <2>1 DEF Once, ListedIsThere, Merging
  <2>3. OutputsKnown'
    BY <2>1, <2>2 DEF Once, OutputsKnown, Typed, TypeOK
  <2>4. \A g \in todo : g \in Groups /\ g # group
    BY <2>2 DEF Typed, TypeOK
  <2>5. ListedIsThere'
    BY <2>1, <2>2, <2>4 DEF Once, ListedIsThere, Typed, TypeOK
  <2>6. MineIsWhole'
    BY <2>1, <2>2 DEF MineIsWhole
  <2>7. Uploaded = Chunks /\ \A o \in Mine : o.rows = listed[group]
    BY <2>1, <2>2 DEF Once, MineIsWhole
  <2>8. ASSUME NEW g \in Groups, NEW s \in files'[g] PROVE NotMergedYet(g, s)'
    <3>1. s \in files[g] /\ (g = group => s \notin listed[group])
      BY <2>1, <2>2 DEF Typed, TypeOK
    <3>2. NotMergedYet(g, s)
      BY <3>1 DEF Once, StoredOnce
    <3> QED
      BY <2>1, <2>7, <3>1, <3>2 DEF NotMergedYet, Mine
  <2>9. ASSUME NEW g \in Groups, NEW s \in landed'[g] \ files'[g], NEW k \in Chunks
        PROVE  MergedOnce(g, s, k)'
    <3>1. CASE s \notin files[g]
      BY <2>1, <3>1 DEF Once, StoredOnce, MergedOnce, Copies
    <3>2. CASE s \in files[g]
      <4>1. g = group /\ s \in listed[group]
        BY <2>1, <2>2, <3>2 DEF Typed, TypeOK
      <4>2. PICK o \in Mine : o.chunk = k
        BY <2>7 DEF Uploaded
      <4>3. o \in Copies(g, s, k)
        BY <2>7, <4>1, <4>2 DEF Copies, Mine
      <4>4. ASSUME NEW p \in Copies(g, s, k) PROVE p = o
        <5>1. p \in Mine
          BY <3>2 DEF Once, StoredOnce, NotMergedYet, Copies
        <5>2. p.rows = o.rows /\ p.chunk = o.chunk /\ p.group = o.group /\ p.batch = o.batch
          BY <2>7, <4>2, <5>1 DEF Copies, Mine
        <5>3. p \in Output /\ o \in Output
          BY <4>2, <5>1 DEF Mine, Typed, TypeOK
        <5> QED
          BY <5>2, <5>3 DEF Output
      <4> QED
        BY <2>1, <4>3, <4>4 DEF MergedOnce, Copies
    <3> QED
      BY <3>1, <3>2
  <2> QED
    BY <2>3, <2>5, <2>6, <2>8, <2>9 DEF Once, StoredOnce
<1>4. ASSUME NEW k \in Chunks, Upload(k) PROVE Once'
  <2> DEFINE new == [group |-> group, batch |-> batch, chunk |-> k, rows |-> listed[group]]
  <2>1. pc = "upload" /\ outputs' = outputs \cup {new} /\ UNCHANGED <<stream, run>>
        /\ pc' = IF Uploaded \cup {k} = Chunks THEN "check" ELSE "upload"
    BY <1>4 DEF Upload
  <2>2. Merging /\ Merging' /\ group \in Groups /\ batch \in Nat
        /\ listed[group] \subseteq files[group] /\ files[group] \subseteq landed[group]
    BY <2>1 DEF Once, ListedIsThere, OutputsKnown, Merging, Typed, TypeOK
  <2>3. OutputsKnown'
    <3>1. new.batch <= batch /\ new.rows \subseteq landed[new.group]
      BY <2>2
    <3> QED
      BY <2>1, <3>1 DEF Once, OutputsKnown, stream, run
  <2>4. ListedIsThere'
    BY <2>1, <2>2 DEF Once, ListedIsThere, stream, run
  <2>5. Mine' = Mine \cup {new}
    BY <2>1 DEF Mine, run
  <2>6. MineIsWhole'
    <3>1. \A o \in Mine' : o.rows = listed[group]
      BY <2>2, <2>5 DEF Once, MineIsWhole
    <3>2. Uploaded' = Uploaded \cup {k}
      <4>1. new.chunk = k
        OBVIOUS
      <4>2. Uploaded' = {o.chunk : o \in Mine \cup {new}}
        BY <2>5 DEF Uploaded
      <4> HIDE DEF new
      <4> QED
        BY <4>1, <4>2 DEF Uploaded
    <3> QED
      BY <2>1, <3>1, <3>2 DEF MineIsWhole, run
  <2>7. ASSUME NEW g \in Groups, NEW s \in files'[g] PROVE NotMergedYet(g, s)'
    <3>1. NotMergedYet(g, s)
      BY <2>1 DEF Once, StoredOnce, stream
    <3> QED
      BY <2>1, <2>2, <2>5, <3>1 DEF NotMergedYet
  <2>8. ASSUME NEW g \in Groups, NEW s \in landed'[g] \ files'[g], NEW h \in Chunks
        PROVE  MergedOnce(g, s, h)'
    <3>1. s \in landed[g] \ files[g]
      BY <2>1 DEF stream
    <3>2. MergedOnce(g, s, h)
      BY <3>1 DEF Once, StoredOnce
    <3>3. Copies(g, s, h)' = Copies(g, s, h)
      BY <2>1, <2>2, <3>1 DEF Copies
    <3> QED
      BY <3>2, <3>3 DEF MergedOnce
  <2> QED
    BY <2>3, <2>4, <2>6, <2>7, <2>8 DEF Once, StoredOnce
<1> QED
  BY <1>1, <1>2, <1>3, <1>4

\* While nothing went wrong, every step keeps Once.
LEMMA OnceStep ==
  ASSUME Typed, mishaps = 0 => Once, [Next]_vars, mishaps' = 0
  PROVE  Once'
<1>1. mishaps \in Nat /\ Typed'
  BY TypedStep DEF Typed, TypeOK
<1>2. ~Failure /\ mishaps = 0
  BY <1>1 DEF Next, Job, Stream, Failure, Mishap, UploadShort, StoreFails, DeleteFails, CleanupFails,
     Crash, vars, StartRun, EndRun, Read, Check, DeleteSources, Cleanup, Pick, Upload, Settle, Land
<1>3. CASE UNCHANGED vars
  BY <1>2, <1>3 DEF vars, Once, OutputsKnown, ListedIsThere, MineIsWhole, StoredOnce, NotMergedYet,
     MergedOnce, Merging, Mine, Uploaded, Copies
<1> QED
  BY <1>1, <1>2, <1>3, OnceElsewhere, OnceMerging DEF Next, Job

\* Until something goes wrong each row is stored once whenever no run is under
\* way: as a part file, or with one object for each share of it.
THEOREM RowsStoredOnce == Spec => []StoredOnceWithoutMishap
<1> DEFINE I == Typed /\ (mishaps = 0 => Once)
<1>1. Init => I
  <2> SUFFICES ASSUME Init PROVE Typed /\ Once
    OBVIOUS
  <2>1. Typed
    BY GroupsAssumption DEF Init, Typed, TypeOK, InGroup
  <2>2. OutputsKnown /\ ListedIsThere /\ MineIsWhole
    BY DEF Init, OutputsKnown, ListedIsThere, MineIsWhole, Merging
  <2>3. StoredOnce
    BY DEF Init, StoredOnce
  <2> QED
    BY <2>1, <2>2, <2>3 DEF Once
<1>2. I /\ [Next]_vars => I'
  BY TypedStep, OnceStep
<1>3. I => StoredOnceWithoutMishap
  <2> SUFFICES ASSUME I, pc = "idle", mishaps = 0,
                      NEW g \in Groups, NEW s \in landed[g], NEW k \in Chunks
               PROVE  Cardinality(Copies(g, s, k)) = IF s \in files[g] THEN 0 ELSE 1
    BY DEF StoredOnceWithoutMishap
  <2>1. StoredOnce /\ ~Merging
    BY DEF Once, Merging
  <2>2. CASE s \in files[g]
    <3>1. Copies(g, s, k) = {}
      BY <2>1, <2>2 DEF StoredOnce, NotMergedYet, Copies
    <3> QED
      BY <2>2, <3>1, FS_EmptySet
  <2>3. CASE s \notin files[g]
    <3>1. PICK o \in Copies(g, s, k) : \A p \in Copies(g, s, k) : p = o
      BY <2>1, <2>3 DEF StoredOnce, MergedOnce
    <3>2. Copies(g, s, k) = {o}
      BY <3>1
    <3> QED
      BY <2>3, <3>2, FS_Singleton
  <2> QED
    BY <2>2, <2>3
<1> QED
  BY <1>1, <1>2, <1>3, PTL DEF Spec
=============================================================================
