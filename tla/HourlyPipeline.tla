--------------------------- MODULE HourlyPipeline ---------------------------
(***************************************************************************)
(* The hourly DAG standard_score_pipeline and backfills of its hours,      *)
(* which share one EMR Serverless application through the one-slot pool    *)
(* "emr_serverless".                                                       *)
(*                                                                         *)
(* A task of the DAG is    either a Job Run (the operator submits it and   *)
(* holds the pool slot while it polls) or a Python function of the worker. *)
(* A Job Run is a process of its own: when the operator stops waiting for  *)
(* it (25 minutes of polls, or the worker dies) the slot is free again and *)
(* the Job Run goes on.  How a Job Run replaces one hour is the subject of *)
(* PartitionReplace; here a partition changes in one step.                 *)
(***************************************************************************)
EXTENDS Naturals, FiniteSets

CONSTANTS
  LastHour,      \* bound: the hours that pass
  Retries,       \* retries of a task (default_args)
  Backfilled,    \* the hours an operator may run again, each once
  MaxAbandoned   \* bound: Job Runs an operator stops waiting for

ASSUME HourlyAssumption ==
  /\ LastHour \in Nat \ {0}
  /\ Retries \in Nat
  /\ Backfilled \subseteq 1..LastHour
  /\ MaxAbandoned \in Nat

Hours == 1..LastHour
Dags == {"scheduled", "backfill"}
None == "none"

\* The tasks that are Job Runs, and those a worker runs itself.
JobTasks == {"transform", "score", "standard"}
WorkerTasks == {"validate", "report", "check_idle", "stop"}

NextTask(t) ==
  CASE t = "transform" -> "score"
    [] t = "score" -> "standard"
    [] t = "standard" -> "validate"
    [] t = "validate" -> "report"
    [] t = "report" -> "check_idle"
    [] t = "check_idle" -> "stop"
    [] OTHER -> None

VARIABLES
  last,       \* the last hour a scheduled DAG run was created for
  pending,    \* the hours still to be run again
  run,        \* per DAG, its active DAG run (at most one)
  slot,       \* which DAG run holds the slot of the pool
  jobs,       \* the Job Runs in progress
  bad,        \* the hours whose published features the validation rejects
  tainted,    \* the hours whose published scores come from such features
  manifest,   \* per as_of, the version its manifest names
  lock,       \* the Job Run that holds the staging advisory lock, or NoKey
  served,     \* the as_of of standard_segment_comfort_score, 0 before any load
  loaded,     \* per as_of, the version PostgreSQL was loaded from (history)
  stragglers  \* the Job Runs an operator stopped waiting for (history)

dagVars == <<last, pending>>
dataVars == <<bad, tainted, manifest, lock, served, loaded>>
vars == <<dagVars, run, slot, jobs, dataVars, stragglers>>

Quality == {"good", "bad"}
Phases == {"queued", "submitted"}
JobPcs == {"publish", "validate", "read", "compute", "gold", "manifest",
           "load", "lock", "merge", "truncate"}

\* A Job Run is named by the task instance and the try that submitted it: no two
\* ever have the same name.
Keys == [dag : Dags, hour : Hours, task : JobTasks, try : 0..Retries]
NoKey == [dag |-> None, hour |-> 0, task |-> None, try |-> 0]

\* A version of an as_of in Gold is named by a fresh uuid4; here by the one Job
\* Run that writes it, with whether it was read back whole.
Versions == [by : Keys \cup {NoKey}, whole : BOOLEAN]
NoVersion == [by |-> NoKey, whole |-> FALSE]
Written(key) == [by |-> key, whole |-> FALSE]

NoRun == [hour |-> 0, task |-> None, try |-> 0, phase |-> "queued"]
Runs == [hour : Hours, task : JobTasks \cup WorkerTasks,
         try : 0..Retries, phase : Phases]
Jobs == [key : Keys, pc : JobPcs, watched : BOOLEAN, input : Quality,
         version : Versions]

Active(d) == run[d] # NoRun
KeyOf(d) ==
  [dag |-> d, hour |-> run[d].hour, task |-> run[d].task, try |-> run[d].try]

TypeOK ==
  /\ last \in 0..LastHour
  /\ pending \subseteq Hours
  /\ run \in [Dags -> Runs \cup {NoRun}]
  /\ slot \in Dags \cup {None}
  /\ jobs \subseteq Jobs
  /\ bad \subseteq Hours
  /\ tainted \subseteq Hours
  /\ manifest \in [Hours -> Versions]
  /\ lock \in Keys \cup {NoKey}
  /\ served \in 0..LastHour
  /\ loaded \in [Hours -> Versions]
  /\ stragglers \subseteq Keys

-----------------------------------------------------------------------------
Init ==
  /\ last = 0 /\ pending = Backfilled
  /\ run = [d \in Dags |-> NoRun]
  /\ slot = None
  /\ jobs = {}
  /\ bad = {}
  /\ tainted = {}
  /\ manifest = [h \in Hours |-> NoVersion]
  /\ lock = NoKey
  /\ served = 0
  /\ loaded = [h \in Hours |-> NoVersion]
  /\ stragglers = {}

-----------------------------------------------------------------------------
\* The scheduler.
Start(d, h) ==
  /\ ~Active(d)
  /\ run' = [run EXCEPT ![d] = [hour |-> h, task |-> "transform", try |-> 0,
                                phase |-> "queued"]]
  /\ UNCHANGED <<slot, jobs, dataVars, stragglers>>

\* Mutated form of StartScheduled: catchup = True, in no particular order.
MutantStartAnyHour ==
  \E h \in Hours : last' = h /\ UNCHANGED pending /\ Start("scheduled", h)

\* max_active_runs = 1 and catchup = False: whenever no run is active, the
\* latest interval that is over by then; those passed over are not made up for.
StartScheduled ==
  \E h \in last + 1..LastHour :
    /\ last' = h
    /\ UNCHANGED pending
    /\ Start("scheduled", h)

StartBackfill(h) ==
  /\ h \in pending /\ h <= last
  /\ Active("scheduled") => run["scheduled"].hour # h
  /\ pending' = pending \ {h}
  /\ UNCHANGED last
  /\ Start("backfill", h)

-----------------------------------------------------------------------------
\* The state of the DAG run after its task succeeded, and after it failed.
AfterSuccess(d) ==
  LET next == NextTask(run[d].task)
  IN IF next = None THEN NoRun
     ELSE [hour |-> run[d].hour, task |-> next, try |-> 0, phase |-> "queued"]

\* Every task waits for the success of those before it (all_success).
AfterFailure(d) ==
  IF run[d].try < Retries
  THEN [run[d] EXCEPT !.try = @ + 1, !.phase = "queued"]
  ELSE NoRun

FirstPc(task) ==
  CASE task = "transform" -> "publish"
    [] task = "score" -> "read"
    [] OTHER -> "compute"

\* EmrServerlessStartJobOperator.execute, once the task has its pool slot.
Submit(d) ==
  /\ Active(d) /\ run[d].task \in JobTasks /\ run[d].phase = "queued"
  /\ slot = None
  /\ slot' = d
  /\ run' = [run EXCEPT ![d].phase = "submitted"]
  /\ jobs' = jobs \cup {[key |-> KeyOf(d), pc |-> FirstPc(run[d].task),
                         watched |-> TRUE, input |-> "good", version |-> NoVersion]}
  /\ UNCHANGED <<dagVars, dataVars, stragglers>>

\* Rendering the arguments raises (no road snapshot for the month), or the
\* start call is refused: the task fails without a Job Run.
NotSubmitted(d) ==
  /\ Active(d) /\ run[d].task \in JobTasks /\ run[d].phase = "queued"
  /\ slot = None
  /\ run' = [run EXCEPT ![d] = AfterFailure(d)]
  /\ UNCHANGED <<dagVars, slot, jobs, dataVars, stragglers>>

Watched(d, j) == j.watched /\ j.key = KeyOf(d)

\* Mutated form of GiveUp: the slot stays taken.
MutantGiveUpKeepsSlot(d) ==
  /\ run[d].phase = "submitted"
  /\ Cardinality(stragglers) < MaxAbandoned
  /\ jobs' = {IF Watched(d, j) THEN [j EXCEPT !.watched = FALSE] ELSE j : j \in jobs}
  /\ run' = [run EXCEPT ![d] = AfterFailure(d)]
  /\ stragglers' = stragglers \cup {KeyOf(d)}
  /\ UNCHANGED <<dagVars, slot, dataVars>>

\* waiter_delay x waiter_max_attempts polls without an end: the operator
\* raises and the Job Run is left to itself.
GiveUp(d) ==
  /\ run[d].phase = "submitted"
  /\ Cardinality(stragglers) < MaxAbandoned
  /\ jobs' = {IF Watched(d, j) THEN [j EXCEPT !.watched = FALSE] ELSE j : j \in jobs}
  /\ slot' = None
  /\ run' = [run EXCEPT ![d] = AfterFailure(d)]
  /\ stragglers' = stragglers \cup {KeyOf(d)}
  /\ UNCHANGED <<dagVars, dataVars>>
-----------------------------------------------------------------------------
\* The Job Runs.  The operator that still polls finds its Job Run ended, gives
\* the slot back and its task succeeds or fails.
Becomes(j, k) ==
  /\ jobs' = (jobs \ {j}) \cup {k}
  /\ UNCHANGED <<dagVars, run, slot, stragglers>>

Ends(j, succeeded) ==
  /\ jobs' = jobs \ {j}
  /\ IF j.watched
     THEN LET d == j.key.dag
          IN /\ run' = [run EXCEPT ![d] = IF succeeded THEN AfterSuccess(d)
                                          ELSE AfterFailure(d)]
             /\ slot' = None
     ELSE UNCHANGED <<run, slot>>
  /\ UNCHANGED <<dagVars, stragglers>>

\* cleanse-sensor-events publishes the features of the hour, then validates
\* the partition it finds at the path.
PublishFeatures(j) ==
  /\ j.key.task = "transform" /\ j.pc = "publish"
  /\ bad' \in {bad \cup {j.key.hour}, bad \ {j.key.hour}}
  /\ Becomes(j, [j EXCEPT !.pc = "validate"])
  /\ UNCHANGED <<tainted, manifest, lock, served, loaded>>

\* Mutated form of ValidateFeatures: the suite runs and nobody looks.
MutantValidateSoftly(j) ==
  /\ j.key.task = "transform" /\ j.pc = "validate"
  /\ Ends(j, TRUE)
  /\ UNCHANGED dataVars

ValidateFeatures(j) ==
  /\ j.key.task = "transform" /\ j.pc = "validate"
  /\ Ends(j, j.key.hour \notin bad)
  /\ UNCHANGED dataVars

\* score-hourly-comfort reads the features of the hour, whoever wrote them.
ReadFeatures(j) ==
  /\ j.key.task = "score" /\ j.pc = "read"
  /\ Becomes(j, [j EXCEPT !.pc = "publish",
                          !.input = IF j.key.hour \in bad THEN "bad" ELSE "good"])
  /\ UNCHANGED dataVars

PublishScores(j) ==
  /\ j.key.task = "score" /\ j.pc = "publish"
  /\ tainted' = IF j.input = "bad" THEN tainted \cup {j.key.hour}
                ELSE tainted \ {j.key.hour}
  /\ Becomes(j, [j EXCEPT !.pc = "validate", !.input = "good"])
  /\ UNCHANGED <<bad, manifest, lock, served, loaded>>

ValidateScores(j) ==
  /\ j.key.task = "score" /\ j.pc = "validate"
  /\ \E succeeded \in BOOLEAN : Ends(j, succeeded)
  /\ UNCHANGED dataVars

\* load-standard-segment-comfort-score computes and writes a version of its
\* own, ...
Compute(j) ==
  /\ j.key.task = "standard" /\ j.pc = "compute"
  /\ Becomes(j, [j EXCEPT !.pc = "gold", !.version = Written(j.key)])
  /\ UNCHANGED dataVars

\* Mutated form of ReadBack: the manifest is switched first.
MutantManifestFirst(j) ==
  /\ j.pc = "gold"
  /\ manifest' = [manifest EXCEPT ![j.key.hour] = j.version]
  /\ Becomes(j, [j EXCEPT !.pc = "manifest", !.version.whole = TRUE])
  /\ UNCHANGED <<bad, tainted, lock, served, loaded>>

\* ... reads it back whole, ...
ReadBack(j) ==
  /\ j.pc = "gold"
  /\ Becomes(j, [j EXCEPT !.pc = "manifest", !.version.whole = TRUE])
  /\ UNCHANGED dataVars

\* ... and only then names it in the manifest.
SwitchManifest(j) ==
  /\ j.pc = "manifest"
  /\ manifest' = [manifest EXCEPT ![j.key.hour] = j.version]
  /\ Becomes(j, [j EXCEPT !.pc = "load", !.version = NoVersion])
  /\ UNCHANGED <<bad, tainted, lock, served, loaded>>

\* The snapshot to load is the one the manifest names now, whoever switched it.
ReadManifest(j) ==
  /\ j.pc = "load"
  /\ Becomes(j, [j EXCEPT !.pc = "lock", !.version = manifest[j.key.hour]])
  /\ UNCHANGED dataVars

\* Mutated form of LockStaging: who does not get the lock leaves the load to
\* whoever has it.
MutantLockSkips(j) ==
  /\ j.pc = "lock"
  /\ IF lock = NoKey
     THEN lock' = j.key /\ Becomes(j, [j EXCEPT !.pc = "merge"])
     ELSE lock' = lock /\ Ends(j, TRUE)
  /\ UNCHANGED <<bad, tainted, manifest, served, loaded>>

\* pg_try_advisory_lock does not wait.
LockStaging(j) ==
  /\ j.pc = "lock"
  /\ IF lock = NoKey
     THEN lock' = j.key /\ Becomes(j, [j EXCEPT !.pc = "merge"])
     ELSE lock' = lock /\ Ends(j, FALSE)
  /\ UNCHANGED <<bad, tainted, manifest, served, loaded>>

\* INSERT ... ON CONFLICT DO UPDATE and its commit: whatever is there loses.
Merge(j) ==
  /\ j.pc = "merge"
  /\ served' = j.key.hour
  /\ loaded' = [loaded EXCEPT ![j.key.hour] = j.version]
  /\ Becomes(j, [j EXCEPT !.pc = "truncate", !.version = NoVersion])
  /\ UNCHANGED <<bad, tainted, manifest, lock>>

Truncate(j) ==
  /\ j.pc = "truncate"
  /\ lock' = NoKey
  /\ Ends(j, TRUE)
  /\ UNCHANGED <<bad, tainted, manifest, served, loaded>>

\* Any step may raise instead, and the Job Run may be killed; the session's
\* advisory lock goes with its connection.
Fails(j) ==
  /\ lock' = IF lock = j.key THEN NoKey ELSE lock
  /\ Ends(j, FALSE)
  /\ UNCHANGED <<bad, tainted, manifest, served, loaded>>

JobStep(j) ==
  \/ PublishFeatures(j) \/ ValidateFeatures(j)
  \/ ReadFeatures(j) \/ PublishScores(j) \/ ValidateScores(j)
  \/ Compute(j) \/ ReadBack(j) \/ SwitchManifest(j)
  \/ ReadManifest(j) \/ LockStaging(j) \/ Merge(j) \/ Truncate(j)
  \/ Fails(j)
-----------------------------------------------------------------------------
\* The tasks a worker runs itself.
Due(d, task) == Active(d) /\ run[d].task = task /\ run[d].phase = "queued"

WorkerTaskEnds(d, after) ==
  /\ run' = [run EXCEPT ![d] = after]
  /\ UNCHANGED <<dagVars, slot, jobs, dataVars, stragglers>>

\* validate_standard_score reads what the manifest names now (what it finds is
\* good, or the task fails: WorkerTaskFails).  STANDARD_SCORE_ASSET is an outlet
\* of this task: Airflow announces it when the task succeeds (see Announces).
Validate(d) ==
  /\ Due(d, "validate")
  /\ manifest[run[d].hour] # NoVersion
  /\ WorkerTaskEnds(d, AfterSuccess(d))

\* report_pipeline_counts reads the counts of the hour and prints them.
Report(d) ==
  /\ Due(d, "report")
  /\ WorkerTaskEnds(d, AfterSuccess(d))

\* A Job Run of anybody skips the stop, and the DAG run ends.
CheckIdle(d) ==
  /\ Due(d, "check_idle")
  /\ WorkerTaskEnds(d, IF jobs = {} THEN AfterSuccess(d) ELSE NoRun)

\* StopApplication is refused while a Job Run is in progress (force_stop is
\* False), whenever that one was submitted.
Stop(d) ==
  /\ Due(d, "stop")
  /\ WorkerTaskEnds(d, IF jobs = {} THEN AfterSuccess(d) ELSE AfterFailure(d))

WorkerTaskFails(d) ==
  /\ \E task \in WorkerTasks : Due(d, task)
  /\ WorkerTaskEnds(d, AfterFailure(d))

WorkerTask(d) ==
  Validate(d) \/ Report(d) \/ CheckIdle(d) \/ Stop(d) \/ WorkerTaskFails(d)

Next ==
  \/ StartScheduled
  \/ \E h \in Hours : StartBackfill(h)
  \/ \E d \in Dags : \/ Submit(d) \/ NotSubmitted(d) \/ GiveUp(d)
                    \/ WorkerTask(d)
  \/ \E j \in jobs : JobStep(j)

Spec == Init /\ [][Next]_vars

\* Airflow starts what it can, and EMR Serverless carries on with every Job Run
\* it accepted; no DAG run is preferred, and no waiter ever needs to time out.
Progress ==
  \/ \E d \in Dags : Submit(d) \/ WorkerTask(d)
  \/ \E j \in jobs : JobStep(j)

FairSpec == Spec /\ WF_vars(Progress)

-----------------------------------------------------------------------------
\* The pool serialises the Job Runs somebody waits for, across both DAGs: at
\* most one is in progress, and its DAG run holds the slot.
PoolSerialises ==
  \A j, k \in jobs :
    /\ j.watched => slot = j.key.dag
    /\ j.watched /\ k.watched => j = k

\* A version of the as_of h that was written and read back.
Whole(v, h) == v.whole /\ v.by.task = "standard" /\ v.by.hour = h

\* PostgreSQL is never ahead of Gold: a manifest names only versions of its
\* own as_of that were written and read back, and an as_of is loaded only from
\* such a version, never before its manifest names one.
GoldIsSource ==
  \A h \in Hours :
    /\ \A v \in {manifest[h], loaded[h]} : v = NoVersion \/ Whole(v, h)
    /\ loaded[h] # NoVersion => manifest[h] # NoVersion

\* A Job Run of one of these tasks of the hour was left to itself.
LeftBehind(tasks, h) == \E key \in stragglers : key.task \in tasks /\ key.hour = h

\* Features the validation rejected are never scored, through every retry and
\* rerun.  The exception is an hour of which an operator stopped waiting for a
\* transform or score Job Run: that one goes on beside its retry, and what one
\* of them validated the other replaces.  It never reaches any other hour.
RejectedFeaturesNotScored ==
  \A h \in tainted : LeftBehind({"transform", "score"}, h)

\* The validation of a DAG run succeeds and its asset event goes out.
Announces(d) == run[d].task = "validate" /\ run'[d].task = "report"

\* A DAG run announces the asset of an as_of only once PostgreSQL was loaded
\* from a version read back whole, and that is the very version its validation
\* found in the manifest: no failure, retry or rerun skips the load or puts
\* another version between the two.  The exception is an as_of of which an
\* operator stopped waiting for a standard Job Run: that one may switch the
\* manifest after the retry has loaded, or load after it, and the validation
\* compares the two no more.
AnnouncesWhatWasLoaded ==
  [][\A d \in Dags : Announces(d) =>
       LET h == run[d].hour
       IN /\ Whole(manifest[h], h) /\ Whole(loaded[h], h)
          /\ manifest[h] = loaded[h] \/ LeftBehind({"standard"}, h)]_vars

\* The served generation goes back only by a rerun of an old hour or by a
\* Job Run nobody waits for any more, never by the schedule and its retries.
OnlyStragglersGoBack ==
  [][served' < served =>
       \/ lock.dag = "backfill"
       \/ \E j \in jobs : j.key = lock /\ ~j.watched]_vars

\* Every DAG run ends: no slot is lost and nobody waits for ever.
EveryRunEnds == \A d \in Dags : Active(d) ~> ~Active(d)
=============================================================================
