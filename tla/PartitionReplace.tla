-------------------------- MODULE PartitionReplace --------------------------
(***************************************************************************)
(* Replacing one hour partition: write to staging, read it back, move the  *)
(* old partition aside, move the staged one in, drop the old one.          *)
(*                                                                         *)
(* Three writers of batch_jobs share the procedure and differ in details   *)
(* that matter, so the writer is a variable that never changes:            *)
(*   "features"    hourly_segment_feature_storage.py: recovers a stale     *)
(*                 backup BEFORE it stages, refuses an empty result only   *)
(*                 after staging it;                                       *)
(*   "comfort"     hourly_comfort_storage.py: recovers inside the swap,    *)
(*                 refuses an empty result before it touches anything,     *)
(*                 the recovery included                                   *)
(*                 (with allow_empty it is the procedure of "quarantine"); *)
(*   "quarantine"  cleansing/hourly_storage.py: recovers inside the swap,  *)
(*                 an empty result just removes the old partition.         *)
(*                                                                         *)
(* A path is the set of objects under it; it exists iff the set is not     *)
(* empty.  AtomicFs says whether rename and recursive delete are single    *)
(* steps (HDFS) or go object by object (EMRFS on S3).                      *)
(***************************************************************************)
EXTENDS Naturals, FiniteSets

CONSTANTS
  Versions,    \* results the successive calls compute
  NoVersion,   \* the empty result
  Parts,       \* the part files of one result
  AtomicFs,    \* BOOLEAN
  Writers      \* the writers to consider

ASSUME NoVersionAssumption == NoVersion \notin Versions
ASSUME PartsAssumption == IsFiniteSet(Parts) /\ Parts # {}
ASSUME AtomicFsAssumption == AtomicFs \in BOOLEAN
ASSUME WritersAssumption == Writers \subseteq {"features", "comfort", "quarantine"}

VARIABLES
  final,        \* objects under hour=HH
  backup,       \* objects under _backup_hour_HH
  staging,      \* objects under _staging/<run_id>
  pc,           \* the file-system call the writer makes next
  version,      \* the result the current (or last) call writes
  hadExisting,  \* the local had_existing of the swap
  writer,       \* whose hour this is
  result        \* how the current (or last) call ends: "ok" until it is
                \* refused by the read-back or raises for another reason

vars == <<final, backup, staging, pc, version, hadExisting, writer, result>>
paths == <<final, backup, staging>>

Objects == Versions \X Parts

\* Mutated form of Complete: an empty result leaves a marker object behind.
MutantMarkerForEmpty(v) == {v} \X Parts

Complete(v) == IF v = NoVersion THEN {} ELSE {v} \X Parts

\* Mutated form of RecoversFirst: no writer recovers before it stages.
MutantNeverFirst == FALSE

RecoversFirst == writer = "features"
AllowsEmpty == writer = "quarantine"

PCs == {"idle", "clean", "stage", "verify", "recover", "restore", "dropStale",
        "withdraw", "promote", "rollback", "discard", "cleanup"}

TypeOK ==
  /\ final \in SUBSET Objects
  /\ backup \in SUBSET Objects
  /\ staging \in SUBSET Objects
  /\ pc \in PCs
  /\ version \in Versions \cup {NoVersion}
  /\ hadExisting \in BOOLEAN
  /\ writer \in Writers
  /\ result \in {"ok", "refused", "raised"}

-----------------------------------------------------------------------------
\* What one step of FileSystem.rename leaves at its source and destination
\* (objects moved into a path that exists join the ones already there).
MoveSteps(src, dst) ==
  IF AtomicFs
  THEN {<<{}, dst \cup src>>}
  ELSE {<<src, dst \cup {o}>> : o \in src \ dst}
         \cup {<<src \ {o}, dst>> : o \in src \cap dst}

\* What one step of FileSystem.delete(path, recursive) leaves at the path.
DeleteSteps(path) ==
  IF AtomicFs \/ path = {} THEN {{}} ELSE {path \ {o} : o \in path}

\* The call at pc is over once its source path is empty.
Proceed(source, next) == pc' = IF source = {} THEN next ELSE pc

Raise(next) == result' = "raised" /\ pc' = next

-----------------------------------------------------------------------------
Init ==
  /\ \E v \in Versions \cup {NoVersion} : version = v /\ final = Complete(v)
  /\ backup = {} /\ staging = {}
  /\ pc = "idle"
  /\ hadExisting = FALSE
  /\ writer \in Writers
  /\ result = "ok"

\* A call for this hour, or a retry of one.  Spark names part files after the
\* write job, so a new call never reuses the objects of an old one.  An empty
\* comfort score does not get this far: see RefuseEmpty.
Begin(v) ==
  /\ pc = "idle"
  /\ v = NoVersion => writer # "comfort"
  /\ Complete(v) \cap (final \cup backup) = {}
  /\ version' = v
  /\ hadExisting' = FALSE
  /\ result' = "ok"
  /\ pc' = IF RecoversFirst THEN "recover" ELSE "clean"
  /\ UNCHANGED <<paths, writer>>

\* A comfort call whose result has no rows raises before its first file-system
\* call: a hidden hour is not recovered and old staging is not dropped.
RefuseEmpty ==
  /\ pc = "idle"
  /\ writer = "comfort"
  /\ version' = NoVersion
  /\ hadExisting' = FALSE
  /\ result' = "refused"
  /\ UNCHANGED <<paths, pc, writer>>

\* Leftovers of a dead run under the same run_id would block the write.
Clean ==
  /\ pc = "clean"
  /\ staging' \in DeleteSteps(staging)
  /\ Proceed(staging', "stage")
  /\ UNCHANGED <<final, backup, version, writer, hadExisting, result>>

Stage ==
  /\ pc = "stage" /\ staging = {}
  /\ staging' = Complete(version)
  /\ pc' = "verify"
  /\ UNCHANGED <<final, backup, version, writer, hadExisting, result>>

\* The write ends without an exception and yet leaves only some of the rows.
StagePartially ==
  /\ pc = "stage" /\ staging = {}
  /\ \E lost \in SUBSET Complete(version) :
       lost # {} /\ staging' = Complete(version) \ lost
  /\ pc' = "verify"
  /\ UNCHANGED <<final, backup, version, writer, hadExisting, result>>

\* Mutated form of ReadBackOK: anything staged is good enough.
MutantNotEmpty == staging # {} \/ (version = NoVersion /\ AllowsEmpty)

\* The read-back: the staged count is the computed one, and not zero unless
\* this writer lets an empty result remove the hour.
ReadBackOK ==
  /\ Cardinality(staging) = Cardinality(Complete(version))
  /\ version = NoVersion => AllowsEmpty

Verify ==
  /\ pc = "verify"
  /\ IF ReadBackOK
     THEN pc' = (IF RecoversFirst THEN "withdraw" ELSE "recover") /\ UNCHANGED result
     ELSE pc' = "cleanup" /\ result' = "refused"
  /\ UNCHANGED <<paths, version, writer, hadExisting>>

-----------------------------------------------------------------------------
AfterRecovery == IF RecoversFirst THEN "clean" ELSE "withdraw"

\* Mutated form of Recover: a backup is always debris.
MutantDropsBackup ==
  /\ pc = "recover"
  /\ pc' = IF backup = {} THEN AfterRecovery ELSE "dropStale"
  /\ UNCHANGED <<paths, version, writer, hadExisting, result>>

\* A backup beside a final partition is taken for the debris of a finished
\* swap; a backup alone for the only good copy.
Recover ==
  /\ pc = "recover"
  /\ pc' = IF backup = {} THEN AfterRecovery
           ELSE IF final # {} THEN "dropStale" ELSE "restore"
  /\ UNCHANGED <<paths, version, writer, hadExisting, result>>

Restore ==
  /\ pc = "restore"
  /\ \E m \in MoveSteps(backup, final) : backup' = m[1] /\ final' = m[2]
  /\ Proceed(backup', AfterRecovery)
  /\ UNCHANGED <<staging, version, writer, hadExisting, result>>

DropStale ==
  /\ pc = "dropStale"
  /\ backup' \in DeleteSteps(backup)
  /\ Proceed(backup', AfterRecovery)
  /\ UNCHANGED <<final, staging, version, writer, hadExisting, result>>

\* Where the swap goes once the old partition is out of the way.
AfterWithdraw(had) ==
  IF version # NoVersion THEN "promote" ELSE IF had THEN "discard" ELSE "cleanup"

Withdraw ==
  /\ pc = "withdraw" /\ final # {}
  /\ \E m \in MoveSteps(final, backup) : final' = m[1] /\ backup' = m[2]
  /\ hadExisting' = (final' = {})
  /\ Proceed(final', AfterWithdraw(TRUE))
  /\ UNCHANGED <<staging, version, writer, result>>

NothingToWithdraw ==
  /\ pc = "withdraw" /\ final = {}
  /\ pc' = AfterWithdraw(FALSE)
  /\ UNCHANGED <<paths, version, writer, hadExisting, result>>

Promote ==
  /\ pc = "promote"
  /\ \E m \in MoveSteps(staging, final) : staging' = m[1] /\ final' = m[2]
  /\ Proceed(staging', IF hadExisting THEN "discard" ELSE "cleanup")
  /\ UNCHANGED <<backup, version, writer, hadExisting, result>>

Discard ==
  /\ pc = "discard"
  /\ backup' \in DeleteSteps(backup)
  /\ Proceed(backup', "cleanup")
  /\ UNCHANGED <<final, staging, version, writer, hadExisting, result>>

\* The except branch.  `promoted` is the last assignment of the try block, so
\* the handler never finds it set and only the rename of the backup is left.
Rollback ==
  /\ pc = "rollback"
  /\ \E m \in MoveSteps(backup, final) : backup' = m[1] /\ final' = m[2]
  /\ Proceed(backup', "cleanup")
  /\ UNCHANGED <<staging, version, writer, hadExisting, result>>

\* The finally branch.
Cleanup ==
  /\ pc = "cleanup"
  /\ staging' \in DeleteSteps(staging)
  /\ Proceed(staging', "idle")
  /\ UNCHANGED <<final, backup, version, writer, hadExisting, result>>

-----------------------------------------------------------------------------
\* Where an exception of the call at pc leads.
Handler ==
  CASE pc \in {"withdraw", "promote"} /\ hadExisting -> "rollback"
    [] pc = "cleanup" -> "idle"
    [] RecoversFirst /\ pc \in {"recover", "restore", "dropStale", "clean"} -> "idle"
    [] OTHER -> "cleanup"

\* The file system or Spark raises (rename answers false, S3 throttles, ...).
Fault ==
  /\ pc # "idle"
  /\ Raise(Handler)
  /\ UNCHANGED <<paths, version, writer, hadExisting>>

\* The process dies: no handler runs.
Crash ==
  /\ pc # "idle"
  /\ Raise("idle")
  /\ UNCHANGED <<paths, version, writer, hadExisting>>

Step ==
  \/ Clean \/ Stage \/ Verify
  \/ Recover \/ Restore \/ DropStale
  \/ Withdraw \/ NothingToWithdraw \/ Promote
  \/ Discard \/ Rollback \/ Cleanup

Attempt == RefuseEmpty \/ \E v \in Versions \cup {NoVersion} : Begin(v)

Failure == StagePartially \/ Fault \/ Crash

Next == Attempt \/ Step \/ Failure

Spec == Init /\ [][Next]_vars

\* The last call was refused for its empty result before it touched anything.
RefusedAtOnce ==
  pc = "idle" /\ writer = "comfort" /\ version = NoVersion /\ result = "refused"

\* The task is retried and the hour is reprocessed, and a running job goes on.
\* Nothing makes an hour of which the score is empty get rows: after such a call
\* no other one need ever come.
Fairness == WF_vars(Step) /\ WF_vars(~RefusedAtOnce /\ Attempt)
FairSpec == Spec /\ Fairness

-----------------------------------------------------------------------------
WholeContents == {Complete(v) : v \in Versions}

\* A reader that lists the partition gets one whole result or nothing: no
\* interleaving of failures and retries shows it a part of one or two at once.
ReaderSeesWholeHour == final \in WholeContents \cup {{}}

\* A call that returns normally has put exactly its own result in the hour,
\* whatever state earlier failed calls left behind, and has left no old copy
\* that a later recovery could bring back over it.
SuccessMeansPublished ==
  pc = "idle" /\ result = "ok" => final = Complete(version) /\ backup = {}

\* A hidden hour does not stay hidden: when the file system, Spark and the
\* process stop failing, the next call shows it again (or replaces it), also
\* one of features whose own result is refused.  The exception is comfort's: as
\* long as its calls compute no rows they are refused before the recovery and
\* leave the hour hidden; the first one with rows ends that.
HiddenHourReturns ==
  <>[][~Failure]_vars
    => []((final = {} /\ backup # {})
            => <>(final # {} \/ backup = {} \/ RefusedAtOnce))

\* The hour a retry can bring back, and what a reader sees of it.
HP == INSTANCE HourPartition WITH
        Contents <- WholeContents, Absent <- {},
        hour <- IF final # {} THEN final ELSE backup,
        visible <- final,
        mayVanish <- AllowsEmpty
ImplementsHourPartition == HP!Spec
=============================================================================
