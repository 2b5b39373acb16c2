------------------------ MODULE HourlyPipelineProofs ------------------------
(***************************************************************************)
(* Theorems about HourlyPipeline, for any number of hours, retries, reruns *)
(* and abandoned Job Runs.                                                 *)
(*                                                                         *)
(* PoolInv ties a Job Run somebody waits for to the slot and to the task   *)
(* instance that waits; with it the types hold, and the pool serialises.   *)
(* GoldInv follows one version through the steps of the standard load: of  *)
(* an hour of which nobody was left behind there is one load in progress,  *)
(* so what it read in the manifest is what it loads and what is validated. *)
(* CleanInv says why, of such an hour, only features that passed the       *)
(* validation reach the scores: the one task that may touch them is the    *)
(* one whose success is waited for, since no two runs share an hour.       *)
(* OrderInv keeps the tries of the Job Runs in progress apart, so that the *)
(* staging lock has one holder, and says that only Job Runs of the past    *)
(* can load an hour older than the latest one.                             *)
(***************************************************************************)
EXTENDS HourlyPipeline, TLAPS

PoolInv ==
  /\ \A d \in Dags :
       run[d].phase = "submitted" => slot = d /\ run[d].task \in JobTasks
  /\ \A j \in jobs :
       j.watched =>
         /\ slot = j.key.dag
         /\ j.key = KeyOf(j.key.dag)
         /\ run[j.key.dag].phase = "submitted"
  /\ \A j \in jobs : ~j.watched => j.key \in stragglers

AtMostOneWatched == \A j, k \in jobs : j.watched /\ k.watched => j = k

Inv1 == TypeOK /\ PoolInv /\ AtMostOneWatched

\* What follows a task keeps the types and waits to be started.
LEMMA AfterTyped ==
  ASSUME TypeOK, NEW d \in Dags, Active(d)
  PROVE  /\ AfterSuccess(d) \in Runs \cup {NoRun}
         /\ AfterFailure(d) \in Runs \cup {NoRun}
         /\ AfterSuccess(d).phase = "queued"
         /\ AfterFailure(d).phase = "queued"
<1>1. run[d] \in Runs
  BY DEF TypeOK, Active
<1>2. run[d].try \in Nat /\ Retries \in Nat /\ run[d].try \in 0..Retries
  BY <1>1, HourlyAssumption DEF Runs
<1>3. AfterFailure(d) \in Runs \cup {NoRun} /\ AfterFailure(d).phase = "queued"
  <2>1. CASE run[d].try < Retries
    <3> DEFINE r == [run[d] EXCEPT !.try = @ + 1, !.phase = "queued"]
    <3>1. run[d].try + 1 \in 0..Retries
      BY <1>2, <2>1
    <3>2. r \in Runs /\ r.phase = "queued"
      BY <1>1, <3>1 DEF Runs, Phases
    <3>3. AfterFailure(d) = r
      BY <2>1 DEF AfterFailure
    <3>. QED BY <3>2, <3>3
  <2>2. CASE ~(run[d].try < Retries)
    BY <2>2 DEF AfterFailure, NoRun
  <2>. QED BY <2>1, <2>2
<1>4. NextTask(run[d].task) \in JobTasks \cup WorkerTasks \cup {None}
  BY <1>1 DEF NextTask, JobTasks, WorkerTasks, None
<1>5. 0 \in 0..Retries
  BY <1>2
<1>6. AfterSuccess(d) \in Runs \cup {NoRun} /\ AfterSuccess(d).phase = "queued"
  BY <1>1, <1>4, <1>5 DEF AfterSuccess, Runs, NoRun, Phases
<1>. QED BY <1>3, <1>6

\* The run of a Job Run somebody waits for is active, and waits for it.
LEMMA WatchedIsActive ==
  ASSUME Inv1, NEW j \in jobs, j.watched
  PROVE  /\ j.key.dag \in Dags /\ Active(j.key.dag)
         /\ run[j.key.dag].task = j.key.task /\ run[j.key.dag].hour = j.key.hour
<1>1. j.key \in Keys
  BY DEF Inv1, TypeOK, Jobs
<1>2. j.key = KeyOf(j.key.dag) /\ run[j.key.dag].phase = "submitted"
  BY DEF Inv1, PoolInv
<1>3. Active(j.key.dag)
  BY <1>2 DEF Active, NoRun
<1>4. run[j.key.dag].task = j.key.task /\ run[j.key.dag].hour = j.key.hour
  BY <1>2 DEF KeyOf
<1>. QED BY <1>1, <1>3, <1>4 DEF Keys

\* A Job Run that goes on stays with whoever waits for it.
LEMMA BecomesKeeps ==
  ASSUME Inv1, NEW j \in jobs, NEW k \in Jobs, Becomes(j, k),
         k.key = j.key, k.watched = j.watched
  PROVE  /\ PoolInv' /\ AtMostOneWatched'
         /\ jobs' \subseteq Jobs
<1>1. jobs' = (jobs \ {j}) \cup {k} /\ run' = run /\ slot' = slot
      /\ stragglers' = stragglers
  BY DEF Becomes
<1>2. PoolInv'
  BY <1>1 DEF Inv1, PoolInv, KeyOf
<1>3. AtMostOneWatched'
  BY <1>1 DEF Inv1, AtMostOneWatched
<1>4. jobs' \subseteq Jobs
  BY <1>1 DEF Inv1, TypeOK
<1>. QED BY <1>2, <1>3, <1>4

\* The end of a Job Run is taken note of by whoever waits for it.
LEMMA EndsKeeps ==
  ASSUME Inv1, NEW j \in jobs, NEW succeeded \in BOOLEAN, Ends(j, succeeded)
  PROVE  /\ PoolInv' /\ AtMostOneWatched'
         /\ jobs' \subseteq Jobs
         /\ run' \in [Dags -> Runs \cup {NoRun}]
         /\ slot' \in Dags \cup {None}
<1>1. jobs' = jobs \ {j} /\ jobs' \subseteq Jobs /\ stragglers' = stragglers
  BY DEF Ends, Inv1, TypeOK
<1>2. AtMostOneWatched'
  BY <1>1 DEF Inv1, AtMostOneWatched
<1>3. CASE ~j.watched
  <2>1. run' = run /\ slot' = slot
    BY <1>3 DEF Ends
  <2>2. PoolInv'
    BY <1>1, <2>1 DEF Inv1, PoolInv, KeyOf
  <2>. QED BY <1>1, <1>2, <2>1, <2>2 DEF Inv1, TypeOK
<1>4. CASE j.watched
  <2>1. j.key.dag \in Dags /\ Active(j.key.dag)
    BY <1>4, WatchedIsActive
  <2>3. slot' = None
    BY <1>4 DEF Ends
  <2>4. \E r \in Runs \cup {NoRun} : run' = [run EXCEPT ![j.key.dag] = r]
                                 /\ r.phase = "queued"
    BY <1>4, <2>1, AfterTyped DEF Ends, Inv1
  <2>6. \A d \in Dags : run'[d].phase # "submitted"
    BY <1>4, <2>1, <2>4 DEF Inv1, TypeOK, PoolInv
  <2>2. PoolInv'
    BY <1>1, <1>4, <2>3, <2>6 DEF Inv1, AtMostOneWatched, PoolInv
  <2>5. run' \in [Dags -> Runs \cup {NoRun}]
    BY <2>4 DEF Inv1, TypeOK
  <2>. QED BY <1>1, <1>2, <2>2, <2>3, <2>5
<1>. QED BY <1>3, <1>4

-----------------------------------------------------------------------------
\* Nothing has started.
LEMMA InitInv1 == Init => Inv1
<1> SUFFICES ASSUME Init PROVE Inv1
  OBVIOUS
<1>1. TypeOK
  BY HourlyAssumption DEF Init, TypeOK, Versions, NoVersion, Hours
<1>2. PoolInv /\ AtMostOneWatched
  BY DEF Init, PoolInv, AtMostOneWatched, NoRun
<1>. QED BY <1>1, <1>2 DEF Inv1

\* The steps of the Job Runs: what they write has its type, and who waits for
\* them is as before.
LEMMA JobStepInv1 ==
  ASSUME Inv1, NEW j \in jobs, JobStep(j)
  PROVE  Inv1'
<1>0. j \in Jobs /\ j.key \in Keys /\ j.key.hour \in Hours
  BY DEF Inv1, TypeOK, Jobs, Keys
<1>a. ASSUME NEW k \in Jobs, Becomes(j, k), k.key = j.key, k.watched = j.watched,
             UNCHANGED dataVars
      PROVE  Inv1'
  <2>1. PoolInv' /\ AtMostOneWatched' /\ jobs' \subseteq Jobs
    BY <1>a, BecomesKeeps
  <2>. QED BY <1>a, <2>1 DEF Inv1, TypeOK, Becomes, dagVars, dataVars
<1>b. ASSUME NEW ok \in BOOLEAN, Ends(j, ok), UNCHANGED dataVars
      PROVE  Inv1'
  <2>1. PoolInv' /\ AtMostOneWatched' /\ jobs' \subseteq Jobs
        /\ run' \in [Dags -> Runs \cup {NoRun}] /\ slot' \in Dags \cup {None}
    BY <1>b, EndsKeeps
  <2>. QED BY <1>b, <2>1 DEF Inv1, TypeOK, Ends, dagVars, dataVars
<1>1. CASE PublishFeatures(j)
  <2> DEFINE k == [j EXCEPT !.pc = "validate"]
  <2>1. k \in Jobs /\ k.key = j.key /\ k.watched = j.watched
    BY <1>0 DEF Jobs, JobPcs
  <2>2. Becomes(j, k)
    BY <1>1 DEF PublishFeatures
  <2>3. PoolInv' /\ AtMostOneWatched' /\ jobs' \subseteq Jobs
    BY <2>1, <2>2, BecomesKeeps
  <2>. QED BY <1>0, <1>1, <2>2, <2>3 DEF Inv1, TypeOK, PublishFeatures, Becomes, dagVars
<1>2. CASE ValidateFeatures(j)
  <2>1. (j.key.hour \notin bad) \in BOOLEAN
    OBVIOUS
  <2>. QED BY <1>2, <2>1, <1>b DEF ValidateFeatures
<1>3. CASE ReadFeatures(j)
  <2> DEFINE k == [j EXCEPT !.pc = "publish",
                            !.input = IF j.key.hour \in bad THEN "bad" ELSE "good"]
  <2>1. k \in Jobs /\ k.key = j.key /\ k.watched = j.watched
    BY <1>0 DEF Jobs, JobPcs, Quality
  <2>. QED BY <1>3, <2>1, <1>a DEF ReadFeatures
<1>4. CASE PublishScores(j)
  <2> DEFINE k == [j EXCEPT !.pc = "validate", !.input = "good"]
  <2>1. k \in Jobs /\ k.key = j.key /\ k.watched = j.watched
    BY <1>0 DEF Jobs, JobPcs, Quality
  <2>2. Becomes(j, k)
    BY <1>4 DEF PublishScores
  <2>3. PoolInv' /\ AtMostOneWatched' /\ jobs' \subseteq Jobs
    BY <2>1, <2>2, BecomesKeeps
  <2>. QED BY <1>0, <1>4, <2>2, <2>3 DEF Inv1, TypeOK, PublishScores, Becomes, dagVars
<1>5. CASE ValidateScores(j)
  BY <1>5, <1>b DEF ValidateScores
<1>6. CASE Compute(j)
  <2> DEFINE k == [j EXCEPT !.pc = "gold", !.version = Written(j.key)]
  <2>1. k \in Jobs /\ k.key = j.key /\ k.watched = j.watched
    BY <1>0 DEF Jobs, JobPcs, Versions, Written
  <2>. QED BY <1>6, <2>1, <1>a DEF Compute
<1>7. CASE ReadBack(j)
  <2> DEFINE k == [j EXCEPT !.pc = "manifest", !.version.whole = TRUE]
  <2>1. k \in Jobs /\ k.key = j.key /\ k.watched = j.watched
    BY <1>0 DEF Jobs, JobPcs, Versions
  <2>. QED BY <1>7, <2>1, <1>a DEF ReadBack
<1>8. CASE SwitchManifest(j)
  <2> DEFINE k == [j EXCEPT !.pc = "load", !.version = NoVersion]
  <2>1. k \in Jobs /\ k.key = j.key /\ k.watched = j.watched
    BY <1>0 DEF Jobs, JobPcs, Versions, NoVersion
  <2>2. Becomes(j, k)
    BY <1>8 DEF SwitchManifest
  <2>3. PoolInv' /\ AtMostOneWatched' /\ jobs' \subseteq Jobs
    BY <2>1, <2>2, BecomesKeeps
  <2>4. manifest' \in [Hours -> Versions]
    BY <1>0, <1>8 DEF Inv1, TypeOK, SwitchManifest, Jobs
  <2>. QED BY <1>8, <2>2, <2>3, <2>4 DEF Inv1, TypeOK, SwitchManifest, Becomes, dagVars
<1>9. CASE LockStaging(j)
  <2>1. CASE lock = NoKey
    <3> DEFINE k == [j EXCEPT !.pc = "merge"]
    <3>1. k \in Jobs /\ k.key = j.key /\ k.watched = j.watched
      BY <1>0 DEF Jobs, JobPcs
    <3>2. Becomes(j, k) /\ lock' = j.key
      BY <1>9, <2>1 DEF LockStaging
    <3>3. PoolInv' /\ AtMostOneWatched' /\ jobs' \subseteq Jobs
      BY <3>1, <3>2, BecomesKeeps
    <3>. QED BY <1>0, <1>9, <3>2, <3>3 DEF Inv1, TypeOK, LockStaging, Becomes, dagVars
  <2>2. CASE lock # NoKey
    BY <1>9, <2>2, <1>b DEF LockStaging, dataVars
  <2>. QED BY <2>1, <2>2
<1>10. CASE Merge(j)
  <2> DEFINE k == [j EXCEPT !.pc = "truncate", !.version = NoVersion]
  <2>1. k \in Jobs /\ k.key = j.key /\ k.watched = j.watched
    BY <1>0 DEF Jobs, JobPcs, Versions, NoVersion
  <2>2. Becomes(j, k)
    BY <1>10 DEF Merge
  <2>3. PoolInv' /\ AtMostOneWatched' /\ jobs' \subseteq Jobs
    BY <2>1, <2>2, BecomesKeeps
  <2>4. loaded' \in [Hours -> Versions] /\ served' \in 0..LastHour
    BY <1>0, <1>10 DEF Inv1, TypeOK, Merge, Jobs, Hours
  <2>. QED BY <1>10, <2>2, <2>3, <2>4 DEF Inv1, TypeOK, Merge, Becomes, dagVars
<1>c. ASSUME NEW ok \in BOOLEAN, Ends(j, ok), lock' \in {lock, NoKey},
             UNCHANGED <<bad, tainted, manifest, served, loaded>>
      PROVE  Inv1'
  <2>1. PoolInv' /\ AtMostOneWatched' /\ jobs' \subseteq Jobs
        /\ run' \in [Dags -> Runs \cup {NoRun}] /\ slot' \in Dags \cup {None}
    BY <1>c, EndsKeeps
  <2>. QED BY <1>c, <2>1 DEF Inv1, TypeOK, Ends, dagVars
<1>11. CASE Truncate(j)
  BY <1>11, <1>c DEF Truncate
<1>12. CASE Fails(j)
  BY <1>12, <1>c DEF Fails
<1>13. CASE ReadManifest(j)
  <2> DEFINE k == [j EXCEPT !.pc = "lock", !.version = manifest[j.key.hour]]
  <2>1. manifest[j.key.hour] \in Versions
    BY <1>0 DEF Inv1, TypeOK
  <2>2. k \in Jobs /\ k.key = j.key /\ k.watched = j.watched
    BY <1>0, <2>1 DEF Jobs, JobPcs
  <2>. QED BY <1>13, <2>2, <1>a DEF ReadManifest
<1>. QED BY <1>1, <1>2, <1>3, <1>4, <1>5, <1>6, <1>7, <1>8, <1>9, <1>10, <1>11,
            <1>12, <1>13 DEF JobStep

\* The steps of the scheduler, of the operators and of the workers.
LEMMA DagStepInv1 ==
  ASSUME Inv1,
         \/ StartScheduled
         \/ \E h \in Hours : StartBackfill(h)
         \/ \E d \in Dags : Submit(d) \/ NotSubmitted(d) \/ GiveUp(d) \/ WorkerTask(d)
  PROVE  Inv1'
\* A DAG run in which nobody waits for a Job Run changes its state.
<1>a. ASSUME NEW d \in Dags, NEW r \in Runs \cup {NoRun}, run[d].phase = "queued",
             r.phase = "queued", run' = [run EXCEPT ![d] = r],
             UNCHANGED <<slot, jobs, stragglers>>
      PROVE  /\ PoolInv' /\ AtMostOneWatched'
             /\ run' \in [Dags -> Runs \cup {NoRun}]
  <2>1. \A j \in jobs : j.watched => j.key.dag # d
    BY <1>a DEF Inv1, PoolInv
  <2>2. PoolInv'
    BY <1>a, <2>1 DEF Inv1, TypeOK, PoolInv, KeyOf
  <2>3. AtMostOneWatched'
    BY <1>a DEF Inv1, AtMostOneWatched
  <2>. QED BY <1>a, <2>2, <2>3 DEF Inv1, TypeOK
<1>b. ASSUME NEW d \in Dags, NEW h \in Hours, Start(d, h),
             last' \in 0..LastHour, pending' \subseteq Hours
      PROVE  Inv1'
  <2> DEFINE r == [hour |-> h, task |-> "transform", try |-> 0, phase |-> "queued"]
  <2>1. r \in Runs
    BY HourlyAssumption DEF Runs, JobTasks, Phases
  <2>2. run[d].phase = "queued"
    BY <1>b DEF Start, Active, NoRun
  <2>3. run' = [run EXCEPT ![d] = r] /\ UNCHANGED <<slot, jobs, dataVars, stragglers>>
    BY <1>b DEF Start
  <2>4. PoolInv' /\ AtMostOneWatched' /\ run' \in [Dags -> Runs \cup {NoRun}]
    BY <2>1, <2>2, <2>3, <1>a
  <2>. QED BY <1>b, <2>3, <2>4 DEF Inv1, TypeOK, dataVars
<1>1. CASE StartScheduled
  <2> PICK h \in last + 1..LastHour : last' = h /\ UNCHANGED pending /\ Start("scheduled", h)
    BY <1>1 DEF StartScheduled
  <2>1. h \in Hours /\ last' \in 0..LastHour
    BY HourlyAssumption DEF Inv1, TypeOK, Hours
  <2>. QED BY <2>1, <1>b DEF Inv1, TypeOK, Dags
<1>2. ASSUME NEW h \in Hours, StartBackfill(h)
      PROVE  Inv1'
  BY <1>2, <1>b DEF StartBackfill, Inv1, TypeOK, Dags
<1>3. ASSUME NEW d \in Dags, Submit(d)
      PROVE  Inv1'
  <2> DEFINE k == [key |-> KeyOf(d), pc |-> FirstPc(run[d].task), watched |-> TRUE,
                   input |-> "good", version |-> NoVersion]
  <2>1. run[d] \in Runs /\ run[d].task \in JobTasks
    BY <1>3 DEF Submit, Active, Inv1, TypeOK
  <2>2. KeyOf(d) \in Keys
    BY <2>1 DEF KeyOf, Keys, Runs
  <2>3. k \in Jobs
    BY <2>2 DEF Jobs, JobPcs, Quality, Versions, NoVersion, FirstPc
  <2>4. (\A j \in jobs : ~j.watched) /\ (\A e \in Dags : run[e].phase # "submitted")
    BY <1>3 DEF Submit, Inv1, TypeOK, PoolInv, Jobs, Keys, Dags, None
  <2>5. jobs' = jobs \cup {k} /\ slot' = d
        /\ run' = [run EXCEPT ![d].phase = "submitted"]
    BY <1>3 DEF Submit
  <2>6. run' \in [Dags -> Runs \cup {NoRun}]
    BY <2>1, <2>5 DEF Inv1, TypeOK, Runs, Phases
  <2>7. KeyOf(d)' = KeyOf(d) /\ run'[d].phase = "submitted"
    BY <2>1, <2>5 DEF Inv1, TypeOK, KeyOf, Runs
  <2>8. PoolInv' /\ AtMostOneWatched'
    <3>0. run'[d].task \in JobTasks /\ stragglers' = stragglers
      BY <1>3, <2>1, <2>5 DEF Submit, Inv1, TypeOK, Runs
    <3>1. \A j \in jobs' : j.watched => j = k
      BY <2>4, <2>5
    <3>2. k.key.dag = d /\ k.key = KeyOf(d)
      BY DEF KeyOf
    <3>3. \A e \in Dags : run'[e].phase = "submitted" => e = d
      BY <2>4, <2>5 DEF Inv1, TypeOK
    <3>4. ASSUME NEW j \in jobs', j.watched
          PROVE  /\ slot' = j.key.dag /\ j.key = KeyOf(j.key.dag)'
                 /\ run'[j.key.dag].phase = "submitted"
      <4>1. j.key = KeyOf(d) /\ j.key.dag = d
        BY <3>1, <3>2, <3>4
      <4>. QED BY <4>1, <2>5, <2>7
    <3>5. \A j \in jobs' : ~j.watched => j.key \in stragglers'
      BY <3>0, <2>4, <2>5 DEF Inv1, PoolInv
    <3>6. \A e \in Dags : run'[e].phase = "submitted" =>
                           slot' = e /\ run'[e].task \in JobTasks
      BY <3>0, <3>3, <2>5
    <3>7. AtMostOneWatched'
      BY <3>1 DEF AtMostOneWatched
    <3>. QED BY <3>4, <3>5, <3>6, <3>7 DEF PoolInv
  <2>. QED BY <1>3, <2>3, <2>5, <2>6, <2>8 DEF Submit, Inv1, TypeOK, dagVars, dataVars
<1>4. ASSUME NEW d \in Dags, NotSubmitted(d)
      PROVE  Inv1'
  <2>1. AfterFailure(d) \in Runs \cup {NoRun} /\ run[d].phase = "queued"
        /\ AfterFailure(d).phase = "queued"
    BY <1>4, AfterTyped DEF NotSubmitted, Inv1
  <2>2. PoolInv' /\ AtMostOneWatched' /\ run' \in [Dags -> Runs \cup {NoRun}]
    BY <1>4, <2>1, <1>a DEF NotSubmitted
  <2>. QED BY <1>4, <2>2 DEF NotSubmitted, Inv1, TypeOK, dagVars, dataVars
<1>5. ASSUME NEW d \in Dags, GiveUp(d)
      PROVE  Inv1'
  <2> DEFINE f(j) == IF Watched(d, j) THEN [j EXCEPT !.watched = FALSE] ELSE j
  <2>1. jobs' = {f(j) : j \in jobs} /\ slot' = None
        /\ run' = [run EXCEPT ![d] = AfterFailure(d)] /\ stragglers' = stragglers \cup {KeyOf(d)}
    BY <1>5 DEF GiveUp
  <2>2. Active(d) /\ run[d].phase = "submitted"
    BY <1>5 DEF GiveUp, Active, NoRun
  <2>3. AfterFailure(d) \in Runs \cup {NoRun}
    BY <2>2, AfterTyped DEF Inv1
  <2>4. jobs' \subseteq Jobs
    BY <2>1 DEF Inv1, TypeOK, Jobs
  <2>5. ASSUME NEW j \in jobs
        PROVE  ~f(j).watched
    <3>1. CASE Watched(d, j)
      BY <3>1 DEF Inv1, TypeOK, Jobs
    <3>2. CASE ~Watched(d, j)
      <4>1. SUFFICES ASSUME j.watched PROVE FALSE
        BY <3>2
      <4>2. j.key.dag = d
        BY <2>2, <4>1 DEF Inv1, PoolInv
      <4>. QED BY <3>2, <4>1, <4>2 DEF Watched, Inv1, PoolInv
    <3>. QED BY <3>1, <3>2
  <2>8. \A e \in Dags : run'[e].phase # "submitted"
    BY <2>1, <2>2, <2>3, AfterTyped DEF Inv1, TypeOK, PoolInv
  <2>9. ASSUME NEW j \in jobs
        PROVE  f(j).key \in stragglers'
    <3>1. CASE Watched(d, j)
      BY <2>1, <3>1 DEF Watched, Inv1, TypeOK, Jobs
    <3>2. CASE ~Watched(d, j)
      BY <2>1, <2>5, <3>2 DEF Inv1, PoolInv
    <3>. QED BY <3>1, <3>2
  <2>6. PoolInv' /\ AtMostOneWatched'
    BY <2>1, <2>5, <2>8, <2>9 DEF PoolInv, AtMostOneWatched
  <2>7. stragglers' \subseteq Keys
    <3>1. run[d] \in Runs /\ run[d].task \in JobTasks
      BY <1>5, <2>2 DEF Active, Inv1, TypeOK, PoolInv
    <3>. QED BY <2>1, <3>1 DEF KeyOf, Keys, Runs, Inv1, TypeOK
  <2>. QED BY <1>5, <2>1, <2>3, <2>4, <2>6, <2>7
          DEF GiveUp, Inv1, TypeOK, dagVars, dataVars
<1>6. ASSUME NEW d \in Dags, WorkerTask(d)
      PROVE  Inv1'
  <2>1. Active(d) /\ run[d].phase = "queued"
    BY <1>6 DEF WorkerTask, Validate, Report, CheckIdle, Stop, WorkerTaskFails, Due
  <2>2. \E r \in Runs \cup {NoRun} : WorkerTaskEnds(d, r) /\ r.phase = "queued"
    BY <1>6, <2>1, AfterTyped DEF WorkerTask, Validate, Report, CheckIdle, Stop,
       WorkerTaskFails, Inv1, NoRun
  <2>5. PICK r \in Runs \cup {NoRun} : WorkerTaskEnds(d, r) /\ r.phase = "queued"
    BY <2>2
  <2>6. PoolInv' /\ AtMostOneWatched' /\ run' \in [Dags -> Runs \cup {NoRun}]
    BY <2>1, <2>5, <1>a DEF WorkerTaskEnds
  <2>. QED BY <2>5, <2>6 DEF WorkerTaskEnds, Inv1, TypeOK, dagVars, dataVars
<1>. QED BY <1>1, <1>2, <1>3, <1>4, <1>5, <1>6

LEMMA StepInv1 == Inv1 /\ [Next]_vars => Inv1'
<1> SUFFICES ASSUME Inv1, [Next]_vars PROVE Inv1'
  OBVIOUS
<1>1. CASE UNCHANGED vars
  BY <1>1 DEF Inv1, TypeOK, PoolInv, AtMostOneWatched, KeyOf, vars, dagVars, dataVars
<1>2. ASSUME NEW j \in jobs, JobStep(j) PROVE Inv1'
  BY <1>2, JobStepInv1
<1>. QED BY <1>1, <1>2, DagStepInv1 DEF Next

\* The state of the pipeline keeps its types.
THEOREM TypeCorrect == Spec => []TypeOK
<1>1. Inv1 => TypeOK
  BY DEF Inv1
<1>. QED BY InitInv1, StepInv1, <1>1, PTL DEF Spec

\* The pool serialises the Job Runs somebody waits for.
THEOREM Serialised == Spec => []PoolSerialises
<1>1. Inv1 => PoolSerialises
  BY DEF Inv1, PoolInv, AtMostOneWatched, PoolSerialises
<1>. QED BY InitInv1, StepInv1, <1>1, PTL DEF Spec

-----------------------------------------------------------------------------
\* A task's Job Run is at a step of that task's command.
Command(j) ==
  /\ j.key.task = "transform" => j.pc \in {"publish", "validate"}
  /\ j.key.task = "score" => j.pc \in {"read", "publish", "validate"}

\* Nobody was left behind who might write the manifest or the table of the hour.
Settled(h) == ~LeftBehind({"standard"}, h)

\* The version a Job Run carries or has loaded is whole, and the one the
\* manifest of its hour names.
Agrees(v, h) ==
  Whole(v, h) /\ Whole(manifest[h], h) /\ (Settled(h) => v = manifest[h])

\* How far the version of a standard load has got.
Progressed(j) ==
  LET h == j.key.hour
  IN /\ j.pc = "gold" => j.version = Written(j.key)
     /\ j.pc = "manifest" => Whole(j.version, h)
     /\ j.pc = "load" => Whole(manifest[h], h)
     /\ j.pc \in {"lock", "merge"} => Agrees(j.version, h)
     /\ j.pc = "truncate" => Agrees(loaded[h], h)

\* What the success of a Job Run stands for: a standard load was loaded whole.
Accomplished(j) ==
  j.key.task = "standard" => Agrees(loaded[j.key.hour], j.key.hour)

ValidatedIsLoaded ==
  \A d \in Dags : run[d].task = "validate" => Agrees(loaded[run[d].hour], run[d].hour)

GoldInv ==
  /\ GoldIsSource
  /\ \A j \in jobs : Command(j) /\ Progressed(j)
  /\ ValidatedIsLoaded

\* No two DAG runs work on the same hour, and every hour they work on was
\* scheduled.
HoursApart ==
  /\ \A d \in Dags : Active(d) => run[d].hour <= last
  /\ \A d, e \in Dags : Active(d) /\ Active(e) /\ run[d].hour = run[e].hour => d = e

\* A Job Run writes the manifest and the table of its own hour only, as a
\* standard load, and only whole versions.
LEMMA JobWrites ==
  ASSUME Inv1, GoldInv, NEW j \in jobs, JobStep(j), NEW h \in Hours
  PROVE  /\ stragglers' = stragglers
         /\ Whole(manifest[h], h) => Whole(manifest'[h], h)
         /\ Whole(loaded[h], h) => Whole(loaded'[h], h)
         /\ manifest'[h] # manifest[h] => /\ j.key.hour = h /\ j.key.task = "standard"
                                          /\ SwitchManifest(j) /\ Whole(manifest'[h], h)
         /\ loaded'[h] # loaded[h] => /\ j.key.hour = h /\ j.key.task = "standard"
                                      /\ Merge(j) /\ Whole(loaded'[h], h)
                                      /\ Whole(manifest[h], h)
<1>1. j.key \in Keys /\ j.key.task \in JobTasks /\ j.key.hour \in Hours
  BY DEF Inv1, TypeOK, Jobs, Keys
<1>2. stragglers' = stragglers
  BY DEF JobStep, PublishFeatures, ValidateFeatures, ReadFeatures, PublishScores,
     ValidateScores, Compute, ReadBack, SwitchManifest, ReadManifest, LockStaging, Merge,
     Truncate, Fails, Becomes, Ends
<1>3. CASE SwitchManifest(j)
  <2>1. j.key.task = "standard" /\ Whole(j.version, j.key.hour)
    BY <1>1, <1>3 DEF SwitchManifest, GoldInv, Command, Progressed, JobTasks
  <2>2. manifest'[h] = IF h = j.key.hour THEN j.version ELSE manifest[h]
    BY <1>3 DEF SwitchManifest, Inv1, TypeOK
  <2>3. loaded' = loaded
    BY <1>3 DEF SwitchManifest
  <2>. QED BY <1>2, <1>3, <2>1, <2>2, <2>3
<1>4. CASE Merge(j)
  <2>1. /\ j.key.task = "standard" /\ Whole(j.version, j.key.hour)
        /\ Whole(manifest[j.key.hour], j.key.hour)
    BY <1>1, <1>4 DEF Merge, GoldInv, Command, Progressed, Agrees, JobTasks
  <2>2. loaded'[h] = IF h = j.key.hour THEN j.version ELSE loaded[h]
    BY <1>4 DEF Merge, Inv1, TypeOK
  <2>3. manifest' = manifest
    BY <1>4 DEF Merge
  <2>. QED BY <1>2, <1>4, <2>1, <2>2, <2>3
<1>5. CASE UNCHANGED <<manifest, loaded>>
  BY <1>2, <1>5
<1>6. SwitchManifest(j) \/ Merge(j) \/ UNCHANGED <<manifest, loaded>>
  BY DEF JobStep, PublishFeatures, ValidateFeatures, ReadFeatures, PublishScores,
     ValidateScores, Compute, ReadBack, ReadManifest, LockStaging, Truncate, Fails, dataVars
<1>. QED BY <1>3, <1>4, <1>5, <1>6

\* Of a settled hour there is one standard load in progress, and its DAG run
\* waits for it: what another Job Run or a validation relies on stays as it is.
LEMMA OthersStay ==
  ASSUME Inv1, GoldInv, HoursApart, NEW j \in jobs, JobStep(j), NEW h \in Hours, Settled(h)
  PROVE  /\ \A k \in jobs :
              k # j /\ k.key.task = "standard" /\ k.key.hour = h
                => manifest'[h] = manifest[h] /\ loaded'[h] = loaded[h]
         /\ \A d \in Dags :
              run[d].task = "validate" /\ run[d].hour = h
                => manifest'[h] = manifest[h] /\ loaded'[h] = loaded[h]
<1>1. \A i \in jobs : i.key.task = "standard" /\ i.key.hour = h => i.watched
  BY DEF Settled, LeftBehind, Inv1, PoolInv
<1> SUFFICES ASSUME j.key.task = "standard", j.key.hour = h
    PROVE  /\ \A k \in jobs : k.key.task = "standard" /\ k.key.hour = h => k = j
           /\ \A d \in Dags : run[d].task = "validate" => run[d].hour # h
  BY JobWrites
<1>2. /\ j.watched /\ j.key.dag \in Dags /\ Active(j.key.dag)
      /\ run[j.key.dag].task = "standard" /\ run[j.key.dag].hour = h
  BY <1>1, WatchedIsActive
<1>3. \A k \in jobs : k.key.task = "standard" /\ k.key.hour = h => k = j
  BY <1>1, <1>2 DEF Inv1, AtMostOneWatched
<1>4. ASSUME NEW d \in Dags, run[d].task = "validate", run[d].hour = h PROVE FALSE
  <2>1. Active(d)
    BY <1>4 DEF Active, NoRun, None
  <2>. QED BY <1>2, <1>4, <2>1 DEF HoursApart
<1>. QED BY <1>3, <1>4

\* Reading a version back changes nothing but what is known of it.
LEMMA ReadWhole ==
  ASSUME NEW v \in Versions
  PROVE  [v EXCEPT !.whole = TRUE] = [by |-> v.by, whole |-> TRUE]
<1> DEFINE w == [v EXCEPT !.whole = TRUE]
<1>1. w \in Versions /\ w.by = v.by /\ w.whole = TRUE
  BY DEF Versions
<1> HIDE DEF w
<1>2. w = [by |-> w.by, whole |-> w.whole]
  BY <1>1 DEF Versions
<1>. QED BY <1>1, <1>2 DEF w

\* A step of a Job Run takes its version one step further, and what it writes
\* to a manifest or loads is whole.
LEMMA JobStepGold ==
  ASSUME Inv1, Inv1', GoldInv, HoursApart, NEW j \in jobs, JobStep(j)
  PROVE  GoldInv'
<1>0. j \in Jobs /\ j.key \in Keys /\ j.key.hour \in Hours
      /\ j.key.task \in JobTasks /\ j.pc \in JobPcs
  BY DEF Inv1, TypeOK, Jobs, Keys
<1>u. \A h : Settled(h)' <=> Settled(h)
  BY <1>0, JobWrites DEF Settled, LeftBehind
<1>s. \A k \in jobs : k.pc \in {"gold", "manifest", "load", "lock", "merge", "truncate"} =>
        k.key.task = "standard"
  BY DEF GoldInv, Command, Inv1, TypeOK, Jobs, Keys, JobTasks
<1>2. ASSUME NEW k \in jobs, k # j PROVE Command(k)' /\ Progressed(k)'
  <2> DEFINE h == k.key.hour
  <2>1. h \in Hours /\ Command(k) /\ Progressed(k)
    BY DEF GoldInv, Inv1, TypeOK, Jobs, Keys
  <2>2. Whole(manifest[h], h) => Whole(manifest'[h], h)
    BY <2>1, JobWrites
  <2>3. Whole(loaded[h], h) => Whole(loaded'[h], h)
    BY <2>1, JobWrites
  <2>4. Settled(h) /\ k.key.task = "standard"
          => manifest'[h] = manifest[h] /\ loaded'[h] = loaded[h]
    BY <1>2, <2>1, OthersStay
  <2>5. k.pc \in {"lock", "merge"} => Agrees(k.version, h)'
    BY <1>s, <1>u, <2>1, <2>2, <2>4 DEF Progressed, Agrees
  <2>6. k.pc = "truncate" => Agrees(loaded[h], h)'
    BY <1>s, <1>u, <2>1, <2>2, <2>3, <2>4 DEF Progressed, Agrees
  <2>. QED BY <2>1, <2>2, <2>5, <2>6 DEF Command, Progressed
<1>3. GoldIsSource'
  <2> SUFFICES ASSUME NEW h \in Hours
      PROVE  /\ manifest'[h] = NoVersion \/ Whole(manifest'[h], h)
             /\ loaded'[h] = NoVersion \/ Whole(loaded'[h], h)
             /\ loaded'[h] # NoVersion => manifest'[h] # NoVersion
    BY DEF GoldIsSource
  <2>1. /\ manifest[h] = NoVersion \/ Whole(manifest[h], h)
        /\ loaded[h] = NoVersion \/ Whole(loaded[h], h)
        /\ loaded[h] # NoVersion => manifest[h] # NoVersion
    BY DEF GoldInv, GoldIsSource
  <2>2. ~Whole(NoVersion, h)
    BY DEF Whole, NoVersion
  <2>. QED BY <2>1, <2>2, JobWrites
\* A validation's hour is written by a Job Run left behind only.
<1>w. ASSUME NEW d \in Dags, run[d].task = "validate", run'[d] = run[d]
      PROVE  Agrees(loaded[run[d].hour], run[d].hour)'
  <2> DEFINE h == run[d].hour
  <2>1. h \in Hours
    BY <1>w DEF Inv1, TypeOK, Runs, NoRun, None
  <2>2. Agrees(loaded[h], h)
    BY <1>w DEF GoldInv, ValidatedIsLoaded
  <2>3. Whole(loaded'[h], h) /\ Whole(manifest'[h], h)
    BY <2>1, <2>2, JobWrites DEF Agrees
  <2>4. Settled(h) => manifest'[h] = manifest[h] /\ loaded'[h] = loaded[h]
    BY <1>w, <2>1, OthersStay
  <2>. QED BY <1>u, <1>w, <2>2, <2>3, <2>4 DEF Agrees
\* A Job Run that goes on.
<1>a. ASSUME NEW k \in Jobs, Becomes(j, k), Command(k)', Progressed(k)'
      PROVE  GoldInv'
  <2>1. \A i \in jobs' : Command(i)' /\ Progressed(i)'
    BY <1>a, <1>2 DEF Becomes
  <2>2. ValidatedIsLoaded'
    BY <1>a, <1>w DEF Becomes, ValidatedIsLoaded
  <2>. QED BY <1>3, <2>1, <2>2 DEF GoldInv
\* A Job Run that ends: only the last step of a load lets its run go on to
\* validate.
<1>b. ASSUME NEW ok \in BOOLEAN, Ends(j, ok), UNCHANGED <<manifest, loaded>>,
             ok => Accomplished(j)
      PROVE  GoldInv'
  <2>1. \A i \in jobs' : Command(i)' /\ Progressed(i)'
    BY <1>b, <1>2 DEF Ends
  <2>2. ValidatedIsLoaded'
    <3> SUFFICES ASSUME NEW d \in Dags, run'[d].task = "validate"
        PROVE  Agrees(loaded[run[d].hour], run[d].hour)'
      BY DEF ValidatedIsLoaded
    <3>1. CASE run'[d] = run[d]
      BY <1>w, <3>1
    <3>2. CASE run'[d] # run[d]
      <4>1. j.watched /\ d = j.key.dag
        BY <1>b, <3>2 DEF Ends, Inv1, TypeOK
      <4>2. run[d].task = j.key.task /\ run[d].hour = j.key.hour /\ Active(d)
        BY <4>1, WatchedIsActive
      <4>3. CASE ok
        <5>1. run'[d] = AfterSuccess(d)
          BY <1>b, <4>1, <4>3 DEF Ends, Inv1, TypeOK
        <5>2. run'[d].hour = j.key.hour /\ j.key.task = "standard"
          BY <1>0, <5>1, <4>2 DEF AfterSuccess, NextTask, JobTasks, NoRun, None
        <5>3. Agrees(loaded[j.key.hour], j.key.hour)
          BY <1>b, <4>3, <5>2 DEF Accomplished
        <5>. QED BY <1>b, <1>u, <5>2, <5>3 DEF Agrees
      <4>4. CASE ~ok
        <5>1. run'[d] = AfterFailure(d)
          BY <1>b, <4>1, <4>4 DEF Ends, Inv1, TypeOK
        <5>2. run[d] \in Runs
          BY <4>2 DEF Active, Inv1, TypeOK
        <5>3. AfterFailure(d).task \in {run[d].task, None}
          BY <5>2 DEF AfterFailure, Runs, NoRun
        <5>. QED BY <1>0, <4>2, <5>1, <5>3 DEF JobTasks, None
      <4>. QED BY <4>3, <4>4
    <3>. QED BY <3>1, <3>2
  <2>. QED BY <1>3, <2>1, <2>2 DEF GoldInv
<1>4. CASE PublishFeatures(j)
  <2> DEFINE k == [j EXCEPT !.pc = "validate"]
  <2>1. k \in Jobs /\ k.key = j.key /\ k.pc = "validate"
    BY <1>0 DEF Jobs, JobPcs
  <2>2. Command(k)' /\ Progressed(k)'
    BY <1>4, <2>1 DEF PublishFeatures, Command, Progressed
  <2>. QED BY <1>4, <1>a, <2>1, <2>2 DEF PublishFeatures
<1>5. CASE ValidateFeatures(j)
  <2>1. Accomplished(j)
    BY <1>5 DEF ValidateFeatures, Accomplished
  <2>2. (Ends(j, TRUE) \/ Ends(j, FALSE)) /\ UNCHANGED <<manifest, loaded>>
    BY <1>5 DEF ValidateFeatures, Ends, dataVars
  <2>3. CASE Ends(j, TRUE)
    BY <2>1, <2>2, <2>3, <1>b
  <2>4. CASE Ends(j, FALSE)
    BY <2>2, <2>4, <1>b
  <2>. QED BY <2>2, <2>3, <2>4
<1>6. CASE ReadFeatures(j)
  <2> DEFINE k == [j EXCEPT !.pc = "publish",
                            !.input = IF j.key.hour \in bad THEN "bad" ELSE "good"]
  <2>1. k \in Jobs /\ k.key = j.key /\ k.pc = "publish"
    BY <1>0 DEF Jobs, JobPcs, Quality
  <2>2. Command(k)' /\ Progressed(k)'
    BY <1>6, <2>1 DEF ReadFeatures, Command, Progressed
  <2>3. PICK i \in Jobs : i = k
    BY <2>1
  <2>4. k' = k
    BY <1>6 DEF ReadFeatures, dataVars
  <2>5. Becomes(j, i) /\ i.key = j.key /\ Command(i)' /\ Progressed(i)'
    BY <1>6, <2>1, <2>2, <2>3, <2>4 DEF ReadFeatures
  <2>. QED BY <1>a, <2>5
<1>7. CASE PublishScores(j)
  <2> DEFINE k == [j EXCEPT !.pc = "validate", !.input = "good"]
  <2>1. k \in Jobs /\ k.key = j.key /\ k.pc = "validate"
    BY <1>0 DEF Jobs, JobPcs, Quality
  <2>2. Command(k)' /\ Progressed(k)'
    BY <1>7, <2>1 DEF PublishScores, Command, Progressed
  <2>. QED BY <1>7, <1>a, <2>1, <2>2 DEF PublishScores
<1>8. CASE ValidateScores(j)
  <2>1. Accomplished(j)
    BY <1>8 DEF ValidateScores, Accomplished
  <2>2. (Ends(j, TRUE) \/ Ends(j, FALSE)) /\ UNCHANGED <<manifest, loaded>>
    BY <1>8 DEF ValidateScores, Ends, dataVars
  <2>3. CASE Ends(j, TRUE)
    BY <2>1, <2>2, <2>3, <1>b
  <2>4. CASE Ends(j, FALSE)
    BY <2>2, <2>4, <1>b
  <2>. QED BY <2>2, <2>3, <2>4
<1>9. CASE Compute(j)
  <2> DEFINE k == [j EXCEPT !.pc = "gold", !.version = Written(j.key)]
  <2>1. k \in Jobs /\ k.key = j.key /\ k.pc = "gold" /\ k.version = Written(j.key)
    BY <1>0 DEF Jobs, JobPcs, Versions, Written
  <2>2. Command(k)' /\ Progressed(k)'
    BY <1>9, <2>1 DEF Compute, Command, Progressed, Written
  <2>. QED BY <1>9, <1>a, <2>1, <2>2 DEF Compute
<1>10. CASE ReadBack(j)
  <2>1. j.key.task = "standard" /\ j.version = Written(j.key)
    BY <1>s, <1>10 DEF ReadBack, GoldInv, Progressed
  <2>2. j.version \in Versions
    BY <1>0 DEF Jobs
  <2>8. j.version.by = j.key
    BY <2>1 DEF Written
  <2>3. [j.version EXCEPT !.whole = TRUE] = [by |-> j.key, whole |-> TRUE]
    BY <2>2, <2>8, ReadWhole
  <2>4. [by |-> j.key, whole |-> TRUE] \in Versions
    BY <1>0 DEF Versions
  <2> DEFINE k == [j EXCEPT !.pc = "manifest", !.version.whole = TRUE]
  <2>5. k = [j EXCEPT !.pc = "manifest", !.version = [by |-> j.key, whole |-> TRUE]]
    BY <1>0, <2>3 DEF Jobs
  <2>6. k \in Jobs /\ k.key = j.key /\ k.pc = "manifest"
        /\ k.version = [by |-> j.key, whole |-> TRUE]
    BY <1>0, <2>4, <2>5 DEF Jobs, JobPcs
  <2>7. Command(k)' /\ Progressed(k)'
    BY <2>1, <2>6 DEF Command, Progressed, Whole
  <2>. QED BY <1>10, <1>a, <2>6, <2>7 DEF ReadBack
<1>11. CASE SwitchManifest(j)
  <2> DEFINE k == [j EXCEPT !.pc = "load", !.version = NoVersion]
  <2>1. k \in Jobs /\ k.key = j.key /\ k.pc = "load"
    BY <1>0 DEF Jobs, JobPcs, Versions, NoVersion
  <2>2. j.key.task = "standard" /\ Whole(manifest'[j.key.hour], j.key.hour)
    BY <1>0, <1>s, <1>11 DEF SwitchManifest, Inv1, TypeOK, GoldInv, Progressed
  <2>3. Command(k)' /\ Progressed(k)'
    BY <2>1, <2>2 DEF Command, Progressed
  <2>. QED BY <1>11, <1>a, <2>1, <2>3 DEF SwitchManifest
<1>12. CASE ReadManifest(j)
  <2> DEFINE k == [j EXCEPT !.pc = "lock", !.version = manifest[j.key.hour]]
  <2>1. j.key.task = "standard" /\ Whole(manifest[j.key.hour], j.key.hour)
    BY <1>s, <1>12 DEF ReadManifest, GoldInv, Progressed
  <2>2. manifest[j.key.hour] \in Versions /\ manifest' = manifest
    BY <1>0, <1>12 DEF ReadManifest, Inv1, TypeOK, dataVars
  <2>3. k \in Jobs /\ k.key = j.key /\ k.pc = "lock" /\ k.version = manifest[j.key.hour]
    BY <1>0, <2>2 DEF Jobs, JobPcs
  <2>4. Agrees(k.version, j.key.hour)
    BY <2>1, <2>3 DEF Agrees
  <2>5. Command(k)' /\ Progressed(k)'
    BY <1>u, <2>1, <2>2, <2>3, <2>4 DEF Command, Progressed, Agrees
  <2>6. PICK i \in Jobs : i = k
    BY <2>3
  <2>7. k' = k
    BY <2>2
  <2>8. Becomes(j, i) /\ Command(i)' /\ Progressed(i)'
    BY <1>12, <2>5, <2>6, <2>7 DEF ReadManifest
  <2>. QED BY <1>a, <2>8
<1>13. CASE LockStaging(j)
  <2>0. UNCHANGED <<manifest, loaded>>
    BY <1>13 DEF LockStaging
  <2>1. CASE lock = NoKey
    <3> DEFINE k == [j EXCEPT !.pc = "merge"]
    <3>1. k \in Jobs /\ k.key = j.key /\ k.pc = "merge" /\ k.version = j.version
      BY <1>0 DEF Jobs, JobPcs
    <3>2. j.key.task = "standard" /\ Agrees(j.version, j.key.hour)
      BY <1>s, <1>13 DEF LockStaging, GoldInv, Progressed
    <3>3. Command(k)' /\ Progressed(k)'
      BY <1>u, <2>0, <3>1, <3>2 DEF Command, Progressed, Agrees
    <3>. QED BY <1>13, <2>1, <1>a, <3>1, <3>3 DEF LockStaging
  <2>2. CASE lock # NoKey
    BY <1>13, <2>0, <2>2, <1>b DEF LockStaging
  <2>. QED BY <2>1, <2>2
<1>14. CASE Merge(j)
  <2> DEFINE k == [j EXCEPT !.pc = "truncate", !.version = NoVersion]
  <2>1. k \in Jobs /\ k.key = j.key /\ k.pc = "truncate"
    BY <1>0 DEF Jobs, JobPcs, Versions, NoVersion
  <2>2. j.key.task = "standard" /\ Agrees(j.version, j.key.hour)
    BY <1>s, <1>14 DEF Merge, GoldInv, Progressed
  <2>3. loaded'[j.key.hour] = j.version /\ manifest' = manifest
    BY <1>0, <1>14 DEF Merge, Inv1, TypeOK
  <2>4. Command(k)' /\ Progressed(k)'
    BY <1>u, <2>1, <2>2, <2>3 DEF Command, Progressed, Agrees
  <2>. QED BY <1>14, <1>a, <2>1, <2>4 DEF Merge
<1>15. CASE Truncate(j)
  <2>1. Accomplished(j)
    BY <1>15 DEF Truncate, GoldInv, Progressed, Accomplished
  <2>. QED BY <1>15, <1>b, <2>1 DEF Truncate
<1>16. CASE Fails(j)
  BY <1>16, <1>b DEF Fails
<1>. QED BY <1>4, <1>5, <1>6, <1>7, <1>8, <1>9, <1>10, <1>11, <1>12, <1>13, <1>14,
            <1>15, <1>16 DEF JobStep

\* The other steps write neither manifests nor the table, and only the success
\* of the standard load lets a run go on to validate.
LEMMA DagStepGold ==
  ASSUME Inv1, Inv1', GoldInv,
         \/ StartScheduled
         \/ \E h \in Hours : StartBackfill(h)
         \/ \E d \in Dags : Submit(d) \/ NotSubmitted(d) \/ GiveUp(d) \/ WorkerTask(d)
  PROVE  GoldInv'
<1>1. ASSUME NEW e \in Dags, NEW r, run' = [run EXCEPT ![e] = r],
             r.task = "validate" => run[e].task = "validate" /\ r.hour = run[e].hour,
             UNCHANGED dataVars,
             stragglers \subseteq stragglers',
             \A k \in jobs' : Command(k) /\ Progressed(k)
      PROVE  GoldInv'
  <2>0. \A v, h : Agrees(v, h) => Agrees(v, h)'
    BY <1>1 DEF Agrees, Settled, LeftBehind, dataVars
  <2>1. \A k \in jobs' : Command(k)' /\ Progressed(k)'
    <3> SUFFICES ASSUME NEW k \in jobs' PROVE Command(k)' /\ Progressed(k)'
      OBVIOUS
    <3>1. Command(k) /\ Progressed(k) /\ UNCHANGED <<manifest, loaded>>
      BY <1>1 DEF dataVars
    <3>2. k.pc \in {"lock", "merge"} => Agrees(k.version, k.key.hour)'
      BY <2>0, <3>1 DEF Progressed
    <3>3. k.pc = "truncate" => Agrees(loaded[k.key.hour], k.key.hour)'
      BY <2>0, <3>1 DEF Progressed, Agrees
    <3>. QED BY <3>1, <3>2, <3>3 DEF Command, Progressed
  <2>2. ValidatedIsLoaded'
    <3> SUFFICES ASSUME NEW d \in Dags, run'[d].task = "validate"
        PROVE  Agrees(loaded[run[d].hour], run[d].hour)'
      BY DEF ValidatedIsLoaded
    <3>1. run[d].task = "validate" /\ run'[d].hour = run[d].hour
      BY <1>1 DEF Inv1, TypeOK
    <3>2. Agrees(loaded[run[d].hour], run[d].hour) /\ loaded' = loaded
      BY <1>1, <3>1 DEF GoldInv, ValidatedIsLoaded, dataVars
    <3>. QED BY <1>1, <3>1, <3>2 DEF Agrees, Settled, LeftBehind, dataVars
  <2>3. GoldIsSource'
    BY <1>1 DEF GoldInv, GoldIsSource, dataVars
  <2>. QED BY <2>1, <2>2, <2>3 DEF GoldInv
<1>2. ASSUME NEW d \in Dags, NEW h \in Hours, Start(d, h)
      PROVE  GoldInv'
  BY <1>2, <1>1 DEF Start, GoldInv
<1>3. CASE StartScheduled
  <2>1. \E h \in Hours : Start("scheduled", h)
    BY <1>3, HourlyAssumption DEF StartScheduled, Hours, Inv1, TypeOK
  <2>. QED BY <2>1, <1>2 DEF Dags
<1>4. ASSUME NEW h \in Hours, StartBackfill(h)
      PROVE  GoldInv'
  BY <1>4, <1>2 DEF StartBackfill, Dags
<1>5. ASSUME NEW d \in Dags, Submit(d)
      PROVE  GoldInv'
  <2> DEFINE r == [run[d] EXCEPT !.phase = "submitted"]
             k == [key |-> KeyOf(d), pc |-> FirstPc(run[d].task), watched |-> TRUE,
                   input |-> "good", version |-> NoVersion]
  <2>1. run[d] \in Runs /\ run[d].task \in JobTasks
    BY <1>5 DEF Submit, Active, Inv1, TypeOK
  <2>2. r.task # "validate"
    BY <2>1 DEF Runs, JobTasks
  <2>3. Command(k) /\ Progressed(k)
    BY <2>1 DEF Command, Progressed, KeyOf, FirstPc
  <2>4. run' = [run EXCEPT ![d] = r] /\ jobs' = jobs \cup {k}
        /\ UNCHANGED <<dataVars, stragglers>>
    BY <1>5 DEF Submit
  <2>. QED BY <2>2, <2>3, <2>4, <1>1 DEF GoldInv
\* Where a failure and where a success lead to.
<1>a. ASSUME NEW d \in Dags, Active(d)
      PROVE  /\ AfterFailure(d).task = "validate" =>
                   run[d].task = "validate" /\ AfterFailure(d).hour = run[d].hour
             /\ run[d].task # "standard" => AfterSuccess(d).task # "validate"
  <2>1. run[d] \in Runs
    BY <1>a DEF Active, Inv1, TypeOK
  <2>2. AfterFailure(d).task = "validate" =>
           run[d].task = "validate" /\ AfterFailure(d).hour = run[d].hour
    BY <2>1 DEF AfterFailure, NoRun, Runs, None
  <2>3. run[d].task # "standard" => AfterSuccess(d).task # "validate"
    BY <2>1 DEF AfterSuccess, NextTask, NoRun, None
  <2>. QED BY <2>2, <2>3
<1>6. ASSUME NEW d \in Dags, NotSubmitted(d)
      PROVE  GoldInv'
  <2>1. Active(d) /\ run' = [run EXCEPT ![d] = AfterFailure(d)] /\ jobs' = jobs
        /\ UNCHANGED <<dataVars, stragglers>>
    BY <1>6 DEF NotSubmitted
  <2>. QED BY <2>1, <1>a, <1>1 DEF GoldInv
<1>7. ASSUME NEW d \in Dags, GiveUp(d)
      PROVE  GoldInv'
  <2>1. Active(d) /\ run' = [run EXCEPT ![d] = AfterFailure(d)] /\ UNCHANGED dataVars
        /\ stragglers \subseteq stragglers'
    BY <1>7 DEF GiveUp, Active, NoRun
  <2>2. ASSUME NEW j \in jobs
        PROVE  /\ [j EXCEPT !.watched = FALSE].key = j.key
               /\ [j EXCEPT !.watched = FALSE].pc = j.pc
               /\ [j EXCEPT !.watched = FALSE].version = j.version
    BY DEF Inv1, TypeOK, Jobs
  <2>3. \A k \in jobs' : \E j \in jobs : k.key = j.key /\ k.pc = j.pc
                                        /\ k.version = j.version
    BY <1>7, <2>2 DEF GiveUp
  <2>4. \A k \in jobs' : Command(k) /\ Progressed(k)
    BY <2>3 DEF GoldInv, Command, Progressed
  <2>. QED BY <2>1, <2>4, <1>a, <1>1
<1>8. ASSUME NEW d \in Dags, WorkerTask(d)
      PROVE  GoldInv'
  <2>1. Active(d) /\ run[d].task \in WorkerTasks
    BY <1>8 DEF WorkerTask, Validate, Report, CheckIdle, Stop, WorkerTaskFails, Due,
       WorkerTasks
  <2>2. \E r \in {AfterSuccess(d), AfterFailure(d), NoRun} : WorkerTaskEnds(d, r)
    BY <1>8 DEF WorkerTask, Validate, Report, CheckIdle, Stop, WorkerTaskFails
  <2>3. PICK r \in {AfterSuccess(d), AfterFailure(d), NoRun} : WorkerTaskEnds(d, r)
    BY <2>2
  <2>4. r.task = "validate" => run[d].task = "validate" /\ r.hour = run[d].hour
    BY <2>1, <2>3, <1>a DEF WorkerTasks, NoRun, None
  <2>5. run' = [run EXCEPT ![d] = r] /\ jobs' = jobs
        /\ UNCHANGED <<dataVars, stragglers>>
    BY <2>3 DEF WorkerTaskEnds
  <2>. QED BY <2>4, <2>5, <1>1 DEF GoldInv
<1>. QED BY <1>3, <1>4, <1>5, <1>6, <1>7, <1>8

LEMMA InitGold == Init => GoldInv
BY DEF Init, GoldInv, GoldIsSource, ValidatedIsLoaded, NoRun, None

LEMMA StepGold == Inv1 /\ Inv1' /\ GoldInv /\ HoursApart /\ [Next]_vars => GoldInv'
<1> SUFFICES ASSUME Inv1, Inv1', GoldInv, HoursApart, [Next]_vars PROVE GoldInv'
  OBVIOUS
<1>1. CASE UNCHANGED vars
  BY <1>1 DEF GoldInv, GoldIsSource, ValidatedIsLoaded, Command, Progressed, Agrees,
     Settled, LeftBehind, vars, dagVars, dataVars
<1>2. ASSUME NEW j \in jobs, JobStep(j) PROVE GoldInv'
  BY <1>2, JobStepGold
<1>. QED BY <1>1, <1>2, DagStepGold DEF Next

Scoring == {"transform", "score"}

\* Unless a transform or score Job Run of the hour was left behind, a scoring
\* task, and a scoring Job Run, finds the features its own run had accepted.
CleanInv ==
  /\ RejectedFeaturesNotScored
  /\ \A j \in jobs :
       j.key.task = "score" /\ j.pc = "publish" /\ j.input = "bad"
         => LeftBehind(Scoring, j.key.hour)
  /\ \A d \in Dags :
       run[d].task = "score" /\ run[d].hour \in bad => LeftBehind(Scoring, run[d].hour)

\* What follows a task is of the same hour, and only the success of transform
\* leads to score.
LEMMA AfterHours ==
  ASSUME Inv1, NEW d \in Dags, Active(d), NEW r \in {AfterSuccess(d), AfterFailure(d)},
         r # NoRun
  PROVE  /\ r.hour = run[d].hour
         /\ r.task = "score" /\ r = AfterSuccess(d) => run[d].task = "transform"
         /\ r.task = "score" /\ r = AfterFailure(d) => run[d].task = "score"
<1>1. run[d] \in Runs
  BY DEF Active, Inv1, TypeOK
<1>2. CASE r = AfterSuccess(d)
  <2>1. NextTask(run[d].task) = "score" => run[d].task = "transform"
    BY <1>1 DEF Runs, JobTasks, WorkerTasks, NextTask, None
  <2>2. r = [hour |-> run[d].hour, task |-> NextTask(run[d].task), try |-> 0,
             phase |-> "queued"]
    BY <1>2 DEF AfterSuccess
  <2>3. r.task = "score" /\ r = AfterFailure(d) => run[d].task = "score"
    BY <1>1 DEF AfterFailure, Runs
  <2>. QED BY <2>1, <2>2, <2>3
<1>3. CASE r = AfterFailure(d)
  <2>1. r = [run[d] EXCEPT !.try = @ + 1, !.phase = "queued"]
    BY <1>3 DEF AfterFailure
  <2>2. r.hour = run[d].hour /\ r.task = run[d].task
    BY <1>1, <2>1 DEF Runs
  <2>3. r.task = "score" /\ r = AfterSuccess(d) => run[d].task = "transform"
    BY <1>1 DEF AfterSuccess, Runs, JobTasks, WorkerTasks, NextTask, None
  <2>. QED BY <2>2, <2>3
<1>. QED BY <1>2, <1>3

\* How a step of a Job Run moves the DAG runs: not at all, or the run that
\* waits goes on; to score only after the transform Job Run found good features.
LEMMA JobMovesRuns ==
  ASSUME Inv1, GoldInv, NEW j \in jobs, JobStep(j)
  PROVE  /\ last' = last /\ stragglers' = stragglers
         /\ \A d \in Dags : run'[d] # NoRun =>
              /\ Active(d) /\ run'[d].hour = run[d].hour
              /\ run'[d].task = "score" =>
                   \/ run[d].task = "score"
                   \/ run[d].hour \notin bad /\ UNCHANGED bad
<1>a. CASE UNCHANGED <<last, stragglers, run>>
  BY <1>a DEF Active
<1>b. ASSUME NEW ok \in BOOLEAN, Ends(j, ok),
             ok => j.key.task # "transform" \/ (j.key.hour \notin bad /\ UNCHANGED bad)
      PROVE  /\ last' = last /\ stragglers' = stragglers
             /\ \A d \in Dags : run'[d] # NoRun =>
                  /\ Active(d) /\ run'[d].hour = run[d].hour
                  /\ run'[d].task = "score" =>
                       \/ run[d].task = "score"
                       \/ run[d].hour \notin bad /\ UNCHANGED bad
  <2>1. last' = last /\ stragglers' = stragglers
    BY <1>b DEF Ends, dagVars
  <2>2. ASSUME NEW d \in Dags, run'[d] # NoRun
        PROVE  /\ Active(d) /\ run'[d].hour = run[d].hour
               /\ run'[d].task = "score" =>
                    \/ run[d].task = "score"
                    \/ run[d].hour \notin bad /\ UNCHANGED bad
    <3>1. CASE run'[d] = run[d]
      BY <2>2, <3>1 DEF Active
    <3>2. CASE run'[d] # run[d]
      <4>1. j.watched /\ d = j.key.dag
        BY <1>b, <3>2 DEF Ends, Inv1, TypeOK
      <4>2. Active(d) /\ run[d].task = j.key.task /\ run[d].hour = j.key.hour
        BY <4>1, WatchedIsActive
      <4>3. CASE ok
        <5>1. run'[d] = AfterSuccess(d)
          BY <1>b, <4>1, <4>3 DEF Ends, Inv1, TypeOK
        <5>. QED BY <1>b, <2>2, <4>2, <4>3, <5>1, AfterHours
      <4>4. CASE ~ok
        <5>1. run'[d] = AfterFailure(d)
          BY <1>b, <4>1, <4>4 DEF Ends, Inv1, TypeOK
        <5>. QED BY <2>2, <4>2, <5>1, AfterHours
      <4>. QED BY <4>3, <4>4
    <3>. QED BY <3>1, <3>2
  <2>. QED BY <2>1, <2>2
<1>1. \/ UNCHANGED <<last, stragglers, run>>
      \/ \E ok \in BOOLEAN : Ends(j, ok) /\
           (ok => j.key.task # "transform" \/ (j.key.hour \notin bad /\ UNCHANGED bad))
  <2>1. CASE ValidateFeatures(j)
    <3>1. CASE j.key.hour \notin bad
      BY <2>1, <3>1 DEF ValidateFeatures, dataVars, Ends
    <3>2. CASE j.key.hour \in bad
      BY <2>1, <3>2 DEF ValidateFeatures, dataVars, Ends
    <3>. QED BY <3>1, <3>2
  <2>2. CASE ValidateScores(j)
    BY <2>2 DEF ValidateScores
  <2>3. CASE Truncate(j) \/ Fails(j)
    BY <2>3 DEF Truncate, Fails, GoldInv, Command
  <2>4. CASE LockStaging(j)
    BY <2>4 DEF LockStaging, Becomes, dagVars
  <2>5. CASE PublishFeatures(j) \/ ReadFeatures(j) \/ PublishScores(j) \/ Compute(j)
             \/ ReadBack(j) \/ SwitchManifest(j) \/ ReadManifest(j) \/ Merge(j)
    BY <2>5 DEF PublishFeatures, ReadFeatures, PublishScores, Compute, ReadBack,
       SwitchManifest, ReadManifest, Merge, Becomes, dagVars
  <2>. QED BY <2>1, <2>2, <2>3, <2>4, <2>5 DEF JobStep
<1>. QED BY <1>1, <1>a, <1>b

\* The steps of the scheduler, the operators and the workers never lead to score.
LEMMA DagMovesRuns ==
  ASSUME Inv1,
         \/ \E d \in Dags, h \in Hours : Start(d, h)
         \/ \E d \in Dags : Submit(d) \/ NotSubmitted(d) \/ GiveUp(d) \/ WorkerTask(d)
  PROVE  \A d \in Dags : run'[d].task = "score" =>
            run[d].task = "score" /\ run'[d].hour = run[d].hour
<1>1. ASSUME NEW e \in Dags, NEW r, run' = [run EXCEPT ![e] = r],
             r.task = "score" => run[e].task = "score" /\ r.hour = run[e].hour
      PROVE  \A d \in Dags : run'[d].task = "score" =>
                run[d].task = "score" /\ run'[d].hour = run[d].hour
  BY <1>1 DEF Inv1, TypeOK
<1>2. ASSUME NEW d \in Dags, NEW h \in Hours, Start(d, h)
      PROVE  \A e \in Dags : run'[e].task = "score" =>
                run[e].task = "score" /\ run'[e].hour = run[e].hour
  BY <1>2, <1>1 DEF Start
<1>3. ASSUME NEW d \in Dags, Submit(d)
      PROVE  \A e \in Dags : run'[e].task = "score" =>
                run[e].task = "score" /\ run'[e].hour = run[e].hour
  <2>1. run[d] \in Runs
    BY <1>3 DEF Submit, Active, Inv1, TypeOK
  <2>2. run' = [run EXCEPT ![d] = [run[d] EXCEPT !.phase = "submitted"]]
    BY <1>3 DEF Submit
  <2>. QED BY <2>1, <2>2, <1>1 DEF Runs
<1>4. ASSUME NEW d \in Dags, NotSubmitted(d) \/ GiveUp(d)
      PROVE  \A e \in Dags : run'[e].task = "score" =>
                run[e].task = "score" /\ run'[e].hour = run[e].hour
  <2>1. Active(d) /\ run' = [run EXCEPT ![d] = AfterFailure(d)]
    BY <1>4 DEF NotSubmitted, GiveUp, Active, NoRun
  <2>2. AfterFailure(d).task = "score" =>
           run[d].task = "score" /\ AfterFailure(d).hour = run[d].hour
    BY <2>1, AfterHours DEF NoRun, None
  <2>. QED BY <2>1, <2>2, <1>1
<1>5. ASSUME NEW d \in Dags, WorkerTask(d)
      PROVE  \A e \in Dags : run'[e].task = "score" =>
                run[e].task = "score" /\ run'[e].hour = run[e].hour
  <2>1. Active(d) /\ run[d].task \in WorkerTasks
    BY <1>5 DEF WorkerTask, Validate, Report, CheckIdle, Stop, WorkerTaskFails, Due,
       WorkerTasks
  <2>2. PICK r \in {AfterSuccess(d), AfterFailure(d), NoRun} : WorkerTaskEnds(d, r)
    BY <1>5 DEF WorkerTask, Validate, Report, CheckIdle, Stop, WorkerTaskFails
  <2>3. r.task # "score"
    BY <2>1, <2>2, AfterHours DEF WorkerTasks, NoRun, None
  <2>. QED BY <2>2, <2>3, <1>1 DEF WorkerTaskEnds
<1>. QED BY <1>2, <1>3, <1>4, <1>5

\* Hours stay apart: a new run is of an hour nobody works on.
LEMMA StepApart == Inv1 /\ GoldInv /\ HoursApart /\ [Next]_vars => HoursApart'
<1> SUFFICES ASSUME Inv1, GoldInv, HoursApart, [Next]_vars PROVE HoursApart'
  OBVIOUS
<1>a. ASSUME last' = last,
             \A d \in Dags : run'[d] # NoRun => Active(d) /\ run'[d].hour = run[d].hour
      PROVE  HoursApart'
  BY <1>a DEF HoursApart, Active
<1>1. ASSUME NEW j \in jobs, JobStep(j) PROVE HoursApart'
  BY <1>1, <1>a, JobMovesRuns
<1>b. ASSUME NEW e \in Dags, NEW r, run' = [run EXCEPT ![e] = r], last' = last,
             r # NoRun => Active(e) /\ r.hour = run[e].hour
      PROVE  HoursApart'
  BY <1>a, <1>b DEF Inv1, TypeOK, Active
<1>2. CASE StartScheduled
  <2> PICK h \in last + 1..LastHour : last' = h /\ Start("scheduled", h)
    BY <1>2 DEF StartScheduled
  <2>5. last \in Nat /\ h \in Nat /\ last < h
    BY HourlyAssumption DEF Inv1, TypeOK
  <2>6. \A d \in Dags : Active(d) => run[d].hour \in Hours
    BY DEF Inv1, TypeOK, Active, Runs
  <2>1. \A d \in Dags : Active(d) => run[d].hour \in Hours /\ run[d].hour < h
    BY <2>5, <2>6, HourlyAssumption DEF HoursApart, Hours
  <2>2. \A d \in Dags : run'[d] # NoRun =>
           (run'[d].hour = h /\ d = "scheduled") \/ (Active(d) /\ run'[d] = run[d])
    BY DEF Start, Inv1, TypeOK, Active
  <2>0. h \in Nat /\ last' = h
    BY HourlyAssumption DEF Inv1, TypeOK
  <2>3. \A d \in Dags : Active(d)' => run'[d].hour <= last'
    <3> SUFFICES ASSUME NEW d \in Dags, run'[d] # NoRun PROVE run'[d].hour <= h
      BY <2>0 DEF Active
    <3>1. CASE run'[d].hour = h
      BY <2>0, <3>1
    <3>2. CASE Active(d) /\ run'[d] = run[d]
      BY <2>0, <2>1, <3>2, HourlyAssumption DEF Hours
    <3>. QED BY <2>2, <3>1, <3>2
  <2>4. \A d, e \in Dags : Active(d)' /\ Active(e)' /\ run'[d].hour = run'[e].hour => d = e
    <3> SUFFICES ASSUME NEW d \in Dags, NEW e \in Dags, run'[d] # NoRun, run'[e] # NoRun,
                        run'[d].hour = run'[e].hour
        PROVE  d = e
      BY DEF Active
    <3>3. \A c \in Dags : c # "scheduled" /\ run'[c] # NoRun => run'[c].hour # h
      BY <2>0, <2>1, <2>2, HourlyAssumption DEF Hours
    <3>4. run'["scheduled"].hour = h
      BY DEF Start, Inv1, TypeOK, Dags
    <3>1. CASE d = "scheduled" \/ e = "scheduled"
      BY <3>1, <3>3, <3>4
    <3>2. CASE d # "scheduled" /\ e # "scheduled"
      BY <3>2 DEF Dags
    <3>. QED BY <3>1, <3>2
  <2>. QED BY <2>3, <2>4 DEF HoursApart
<1>3. ASSUME NEW h \in Hours, StartBackfill(h) PROVE HoursApart'
  <2>1. run' = [run EXCEPT !["backfill"] = [hour |-> h, task |-> "transform", try |-> 0,
                                            phase |-> "queued"]]
        /\ last' = last /\ h <= last
    BY <1>3 DEF StartBackfill, Start
  <2>2. Active("scheduled") => run["scheduled"].hour # h
    BY <1>3 DEF StartBackfill
  <2>. QED BY <2>1, <2>2 DEF HoursApart, Inv1, TypeOK, Active, Dags
<1>4. ASSUME NEW d \in Dags, Submit(d) PROVE HoursApart'
  <2>1. run[d] \in Runs /\ Active(d)
    BY <1>4 DEF Submit, Active, Inv1, TypeOK
  <2>2. run' = [run EXCEPT ![d] = [run[d] EXCEPT !.phase = "submitted"]] /\ last' = last
    BY <1>4 DEF Submit, dagVars
  <2>. QED BY <2>1, <2>2, <1>b DEF Runs
<1>5. ASSUME NEW d \in Dags, NotSubmitted(d) \/ GiveUp(d) PROVE HoursApart'
  <2>1. Active(d) /\ run' = [run EXCEPT ![d] = AfterFailure(d)] /\ last' = last
    BY <1>5 DEF NotSubmitted, GiveUp, Active, NoRun, dagVars
  <2>. QED BY <2>1, AfterHours, <1>b
<1>6. ASSUME NEW d \in Dags, WorkerTask(d) PROVE HoursApart'
  <2>1. Active(d)
    BY <1>6 DEF WorkerTask, Validate, Report, CheckIdle, Stop, WorkerTaskFails, Due
  <2>2. PICK r \in {AfterSuccess(d), AfterFailure(d), NoRun} : WorkerTaskEnds(d, r)
    BY <1>6 DEF WorkerTask, Validate, Report, CheckIdle, Stop, WorkerTaskFails
  <2>3. r # NoRun => r.hour = run[d].hour
    BY <2>1, <2>2, AfterHours
  <2>. QED BY <2>1, <2>2, <2>3, <1>b DEF WorkerTaskEnds, dagVars
<1>7. CASE UNCHANGED vars
  BY <1>7 DEF HoursApart, Active, vars, dagVars
<1>. QED BY <1>1, <1>2, <1>3, <1>4, <1>5, <1>6, <1>7 DEF Next

-----------------------------------------------------------------------------
LEMMA InitApart == Init => HoursApart
BY DEF Init, HoursApart, Active, NoRun, None

\* What the theorems below rest on holds in every reachable state.
LEMMA Kept == Spec => [](Inv1 /\ GoldInv /\ HoursApart)
BY InitInv1, StepInv1, InitGold, StepGold, InitApart, StepApart, PTL DEF Spec

\* PostgreSQL is never ahead of Gold, and nothing names a version that was not
\* read back.
THEOREM SourceOfTruth == Spec => []GoldIsSource
<1>1. GoldInv => GoldIsSource
  BY DEF GoldInv
<1>. QED BY Kept, <1>1, PTL

\* A DAG run announces an as_of only when PostgreSQL holds a whole version of
\* it, the one its manifest names, unless a standard Job Run of it was left
\* behind by its waiter.
THEOREM AnnouncedIsLoaded == Spec => AnnouncesWhatWasLoaded
<1>1. ASSUME GoldInv
      PROVE  [\A d \in Dags : Announces(d) =>
                LET h == run[d].hour
                IN /\ Whole(manifest[h], h) /\ Whole(loaded[h], h)
                   /\ manifest[h] = loaded[h] \/ LeftBehind({"standard"}, h)]_vars
  BY <1>1 DEF GoldInv, ValidatedIsLoaded, Announces, Agrees, Settled
<1>. QED BY Kept, <1>1, PTL DEF AnnouncesWhatWasLoaded

\* A step of a Job Run leaves the scores clean: it scores what its run had
\* accepted, and only the transform task of another hour writes features.
LEMMA JobStepClean ==
  ASSUME Inv1, GoldInv, HoursApart, CleanInv, NEW j \in jobs, JobStep(j)
  PROVE  CleanInv'
<1>0. j \in Jobs /\ j.key \in Keys /\ j.key.hour \in Hours
  BY DEF Inv1, TypeOK, Jobs, Keys
<1>1. \A T, h : LeftBehind(T, h)' <=> LeftBehind(T, h)
  BY JobMovesRuns DEF LeftBehind
<1>2. ~j.watched /\ j.key.task \in Scoring => LeftBehind(Scoring, j.key.hour)
  BY DEF LeftBehind, Inv1, PoolInv
<1>3. j.watched => /\ j.key.dag \in Dags /\ Active(j.key.dag)
                   /\ run[j.key.dag].task = j.key.task
                   /\ run[j.key.dag].hour = j.key.hour
  BY WatchedIsActive
<1>4. RejectedFeaturesNotScored'
  <2>1. CASE PublishScores(j)
    <3>1. j.input = "bad" => LeftBehind(Scoring, j.key.hour)
      BY <2>1 DEF PublishScores, CleanInv
    <3>. QED BY <1>1, <2>1, <3>1
             DEF PublishScores, CleanInv, RejectedFeaturesNotScored, Scoring
  <2>2. CASE ~PublishScores(j)
    <3>1. tainted' = tainted
      BY <2>2 DEF JobStep, PublishFeatures, ValidateFeatures, ReadFeatures,
         ValidateScores, Compute, ReadBack, SwitchManifest, ReadManifest, LockStaging,
         Merge, Truncate, Fails, dataVars
    <3>. QED BY <1>1, <3>1 DEF CleanInv, RejectedFeaturesNotScored
  <2>. QED BY <2>1, <2>2
<1>5. ASSUME NEW k \in jobs', k.key.task = "score", k.pc = "publish", k.input = "bad"
      PROVE  LeftBehind(Scoring, k.key.hour)'
  <2>1. CASE k \in jobs
    BY <1>1, <1>5, <2>1 DEF CleanInv
  <2>2. CASE k \notin jobs
    <3>1. CASE ReadFeatures(j)
      <4> DEFINE i == [j EXCEPT !.pc = "publish",
                                !.input = IF j.key.hour \in bad THEN "bad" ELSE "good"]
      <4>1. k = i
        BY <2>2, <3>1 DEF ReadFeatures, Becomes
      <4>2. k.key = j.key /\ j.key.hour \in bad /\ j.key.task = "score"
        BY <1>0, <1>5, <3>1, <4>1 DEF Jobs, ReadFeatures
      <4>3. CASE j.watched
        BY <1>1, <1>3, <4>2, <4>3 DEF CleanInv
      <4>4. CASE ~j.watched
        BY <1>1, <1>2, <4>2, <4>4 DEF Scoring
      <4>. QED BY <4>3, <4>4
    <3>2. CASE ~ReadFeatures(j)
      <4>1. k.pc # "publish"
        BY <1>0, <2>2, <3>2 DEF JobStep, PublishFeatures, ValidateFeatures, PublishScores,
           ValidateScores, Compute, ReadBack, SwitchManifest, ReadManifest, LockStaging,
           Merge, Truncate, Fails, Becomes, Ends, Jobs
      <4>. QED BY <1>5, <4>1
    <3>. QED BY <3>1, <3>2
  <2>. QED BY <2>1, <2>2
<1>6. ASSUME NEW d \in Dags, run'[d].task = "score", run'[d].hour \in bad'
      PROVE  LeftBehind(Scoring, run[d].hour)'
  <2>1. run'[d] # NoRun
    BY <1>6 DEF NoRun, None
  <2>2. /\ Active(d) /\ run'[d].hour = run[d].hour
        /\ run[d].task = "score" \/ (run[d].hour \notin bad /\ UNCHANGED bad)
    BY <1>6, <2>1, JobMovesRuns
  <2>3. run[d].task = "score"
    BY <1>6, <2>2
  <2>4. CASE run[d].hour \in bad
    BY <1>1, <2>2, <2>3, <2>4 DEF CleanInv
  <2>5. CASE run[d].hour \notin bad
    <3>0. bad' # bad
      BY <1>6, <2>2, <2>5
    <3>5. PublishFeatures(j)
      BY <3>0 DEF JobStep, ValidateFeatures, ReadFeatures,
         PublishScores, ValidateScores, Compute, ReadBack, SwitchManifest, ReadManifest,
         LockStaging, Merge, Truncate, Fails, dataVars
    <3>6. bad' \in {bad \cup {j.key.hour}, bad \ {j.key.hour}}
      BY <3>5 DEF PublishFeatures
    <3>1. PublishFeatures(j) /\ j.key.hour = run[d].hour
      BY <1>6, <2>2, <2>5, <3>5, <3>6
    <3>2. j.key.task = "transform"
      BY <3>1 DEF PublishFeatures
    <3>3. CASE j.watched
      BY <1>3, <2>2, <2>3, <3>1, <3>2, <3>3 DEF HoursApart
    <3>4. CASE ~j.watched
      BY <1>1, <1>2, <2>2, <3>1, <3>2, <3>4 DEF Scoring
    <3>. QED BY <3>3, <3>4
  <2>. QED BY <2>4, <2>5
<1>. QED BY <1>4, <1>5, <1>6 DEF CleanInv

LEMMA StepClean ==
  Inv1 /\ GoldInv /\ HoursApart /\ CleanInv /\ [Next]_vars => CleanInv'
<1> SUFFICES ASSUME Inv1, GoldInv, HoursApart, CleanInv, [Next]_vars PROVE CleanInv'
  OBVIOUS
<1>a. ASSUME UNCHANGED dataVars, stragglers \subseteq stragglers',
             \A d \in Dags : run'[d].task = "score" =>
                run[d].task = "score" /\ run'[d].hour = run[d].hour,
             \A k \in jobs' : \/ k.input = "good"
                             \/ \E j \in jobs : /\ k.key = j.key /\ k.pc = j.pc
                                                /\ k.input = j.input
      PROVE  CleanInv'
  <2>1. \A T, h : LeftBehind(T, h) => LeftBehind(T, h)'
    BY <1>a DEF LeftBehind
  <2>2. RejectedFeaturesNotScored'
    BY <1>a, <2>1 DEF CleanInv, RejectedFeaturesNotScored, dataVars
  <2>3. ASSUME NEW k \in jobs', k.key.task = "score", k.pc = "publish", k.input = "bad"
        PROVE  LeftBehind(Scoring, k.key.hour)'
    BY <1>a, <2>1, <2>3 DEF CleanInv
  <2>4. ASSUME NEW d \in Dags, run'[d].task = "score", run'[d].hour \in bad'
        PROVE  LeftBehind(Scoring, run[d].hour)'
    <3>1. run[d].task = "score" /\ run'[d].hour = run[d].hour /\ bad' = bad
      BY <1>a, <2>4 DEF dataVars
    <3>2. LeftBehind(Scoring, run[d].hour)
      BY <2>4, <3>1 DEF CleanInv
    <3>. QED BY <1>a, <3>1, <3>2 DEF LeftBehind
  <2>. QED BY <2>2, <2>3, <2>4 DEF CleanInv
<1>1. ASSUME NEW j \in jobs, JobStep(j) PROVE CleanInv'
  BY <1>1, JobStepClean
<1>2. ASSUME NEW d \in Dags, NEW h \in Hours, Start(d, h) PROVE CleanInv'
  <2>1. jobs' = jobs /\ UNCHANGED <<dataVars, stragglers>>
    BY <1>2 DEF Start
  <2>. QED BY <1>2, <2>1, <1>a, DagMovesRuns
<1>3. CASE StartScheduled
  <2>1. \E h \in Hours : Start("scheduled", h)
    BY <1>3, HourlyAssumption DEF StartScheduled, Hours, Inv1, TypeOK
  <2>. QED BY <2>1, <1>2 DEF Dags
<1>4. ASSUME NEW h \in Hours, StartBackfill(h) PROVE CleanInv'
  BY <1>4, <1>2 DEF StartBackfill, Dags
<1>5. ASSUME NEW d \in Dags, Submit(d) PROVE CleanInv'
  <2>1. /\ UNCHANGED <<dataVars, stragglers>>
        /\ \A k \in jobs' : k \in jobs \/ k.input = "good"
    BY <1>5 DEF Submit
  <2>. QED BY <1>5, <2>1, <1>a, DagMovesRuns
<1>6. ASSUME NEW d \in Dags, NotSubmitted(d) \/ WorkerTask(d) PROVE CleanInv'
  <2>1. jobs' = jobs /\ UNCHANGED <<dataVars, stragglers>>
    BY <1>6 DEF NotSubmitted, WorkerTask, Validate, Report, CheckIdle, Stop,
       WorkerTaskFails, WorkerTaskEnds
  <2>. QED BY <1>6, <2>1, <1>a, DagMovesRuns
<1>7. ASSUME NEW d \in Dags, GiveUp(d) PROVE CleanInv'
  <2>1. UNCHANGED dataVars /\ stragglers \subseteq stragglers'
    BY <1>7 DEF GiveUp
  <2>2. ASSUME NEW j \in jobs
        PROVE  /\ [j EXCEPT !.watched = FALSE].key = j.key
               /\ [j EXCEPT !.watched = FALSE].pc = j.pc
               /\ [j EXCEPT !.watched = FALSE].input = j.input
    BY DEF Inv1, TypeOK, Jobs
  <2>3. \A k \in jobs' : \E j \in jobs : k.key = j.key /\ k.pc = j.pc
                                        /\ k.input = j.input
    BY <1>7, <2>2 DEF GiveUp
  <2>. QED BY <1>7, <2>1, <2>3, <1>a, DagMovesRuns
<1>8. CASE UNCHANGED vars
  BY <1>8 DEF CleanInv, RejectedFeaturesNotScored, LeftBehind, vars, dataVars
<1>. QED BY <1>1, <1>3, <1>4, <1>5, <1>6, <1>7, <1>8 DEF Next

LEMMA InitClean == Init => CleanInv
BY DEF Init, CleanInv, RejectedFeaturesNotScored, NoRun, None

\* Features the validation rejected never reach the scores of an hour of which
\* no transform or score Job Run was left behind, whatever fails, is retried or
\* is run again.
THEOREM OnlyAcceptedScored == Spec => []RejectedFeaturesNotScored
<1>1. CleanInv => RejectedFeaturesNotScored
  BY DEF CleanInv
<1>. QED BY Kept, InitClean, StepClean, <1>1, PTL DEF Spec

-----------------------------------------------------------------------------
\* The order in which a DAG run passes its tasks and their tries.
Rank(task) ==
  CASE task = "transform" -> 0
    [] task = "score" -> 1
    [] task = "standard" -> 2
    [] OTHER -> 3

\* A run has passed the task instance and try that a Job Run is named by, or
\* waits for it.
Behind(key, r) ==
  \/ Rank(key.task) < Rank(r.task)
  \/ /\ key.task = r.task
     /\ key.try < r.try \/ (key.try = r.try /\ r.phase = "submitted")

\* The schedule works on its latest hour, a backfill on one it will not take
\* up again, and a Job Run in progress was submitted by a run of an hour that
\* has been reached and, if that run is still active, at an earlier try of it.
RunsInOrder ==
  /\ Active("scheduled") => run["scheduled"].hour = last
  /\ Active("backfill") => run["backfill"].hour \notin pending
  /\ \A j \in jobs :
       /\ j.key.hour <= last
       /\ j.key.dag = "backfill" => j.key.hour \notin pending
       /\ Active(j.key.dag) /\ run[j.key.dag].hour = j.key.hour =>
            Behind(j.key, run[j.key.dag])

\* No two Job Runs in progress are of the same try.
NamesApart == \A j, k \in jobs : j.key = k.key => j = k

Holding == {"merge", "truncate"}

\* Whoever works in the staging table holds its lock.
StagingHeld ==
  /\ served <= last
  /\ \A j \in jobs : j.pc \in Holding => lock = j.key

OrderInv == RunsInOrder /\ NamesApart /\ StagingHeld

\* What follows a task has passed what its run had passed.
LEMMA AfterBehind ==
  ASSUME Inv1, NEW d \in Dags, Active(d), NEW r \in {AfterSuccess(d), AfterFailure(d)},
         r # NoRun
  PROVE  /\ r.hour = run[d].hour
         /\ \A key \in Keys : Behind(key, run[d]) => Behind(key, r)
<1>1. run[d] \in Runs /\ r.hour = run[d].hour
  BY AfterHours DEF Active, Inv1, TypeOK
<1>2. run[d].try \in Nat
  BY <1>1, HourlyAssumption DEF Runs
<1> SUFFICES ASSUME NEW key \in Keys, Behind(key, run[d]) PROVE Behind(key, r)
  BY <1>1
<1>3. key.task \in JobTasks /\ key.try \in Nat
  BY HourlyAssumption DEF Keys
<1>4. CASE r = AfterSuccess(d)
  <2>1. r.task = NextTask(run[d].task) /\ r.task # None
    BY <1>4 DEF AfterSuccess
  <2>2. Rank(key.task) <= Rank(run[d].task) /\ Rank(key.task) \in 0..2
    BY <1>3 DEF Behind, Rank, JobTasks
  <2>3. run[d].task \in JobTasks \cup WorkerTasks
    BY <1>1 DEF Runs
  <2>4. Rank(r.task) = 3 \/ (Rank(run[d].task) \in 0..2 /\ Rank(r.task) = Rank(run[d].task) + 1)
    BY <2>1, <2>3 DEF Rank, NextTask, JobTasks, WorkerTasks, None
  <2>5. Rank(key.task) < Rank(r.task)
    BY <2>2, <2>4
  <2>. QED BY <2>5 DEF Behind
<1>5. CASE r = AfterFailure(d)
  <2>1. r = [run[d] EXCEPT !.try = @ + 1, !.phase = "queued"]
    BY <1>5 DEF AfterFailure
  <2>2. r.task = run[d].task /\ r.try = run[d].try + 1
    BY <1>1, <2>1 DEF Runs
  <2>. QED BY <1>2, <1>3, <2>2 DEF Behind
<1>. QED BY <1>4, <1>5

\* A run goes on: it is of the same hour and has passed what it had passed.
GoesOn(d) ==
  run'[d] # NoRun =>
    /\ Active(d) /\ run'[d].hour = run[d].hour
    /\ \A key \in Keys : Behind(key, run[d]) => Behind(key, run'[d])

\* The steps of a Job Run let the DAG runs go on.
LEMMA JobGoesOn ==
  ASSUME Inv1, NEW j \in jobs, JobStep(j)
  PROVE  UNCHANGED dagVars /\ \A d \in Dags : GoesOn(d)
<1>1. UNCHANGED <<dagVars, run>> \/ \E ok \in BOOLEAN : Ends(j, ok)
  BY DEF JobStep, PublishFeatures, ValidateFeatures, ReadFeatures, PublishScores,
     ValidateScores, Compute, ReadBack, SwitchManifest, ReadManifest, LockStaging, Merge, Truncate,
     Fails, Becomes
<1>2. CASE UNCHANGED <<dagVars, run>>
  BY <1>2 DEF GoesOn, Active
<1>3. ASSUME NEW ok \in BOOLEAN, Ends(j, ok)
      PROVE  UNCHANGED dagVars /\ \A d \in Dags : GoesOn(d)
  <2>1. UNCHANGED dagVars
    BY <1>3 DEF Ends
  <2>2. ASSUME NEW d \in Dags PROVE GoesOn(d)
    <3>1. CASE run'[d] = run[d]
      BY <3>1 DEF GoesOn, Active
    <3>2. CASE run'[d] # run[d]
      <4>1. j.watched /\ d = j.key.dag
        BY <1>3, <3>2 DEF Ends, Inv1, TypeOK
      <4>2. Active(d)
        BY <4>1, WatchedIsActive
      <4>3. run'[d] \in {AfterSuccess(d), AfterFailure(d)}
        BY <1>3, <4>1 DEF Ends, Inv1, TypeOK
      <4>. QED BY <4>2, <4>3, AfterBehind DEF GoesOn
    <3>. QED BY <3>1, <3>2
  <2>. QED BY <2>1, <2>2
<1>. QED BY <1>1, <1>2, <1>3

\* So do those of the operators and of the workers.
LEMMA DagGoesOn ==
  ASSUME Inv1, NEW d \in Dags, Submit(d) \/ NotSubmitted(d) \/ GiveUp(d) \/ WorkerTask(d)
  PROVE  UNCHANGED dagVars /\ \A e \in Dags : GoesOn(e)
<1>1. UNCHANGED dagVars
  BY DEF Submit, NotSubmitted, GiveUp, WorkerTask, Validate, Report, CheckIdle, Stop,
     WorkerTaskFails, WorkerTaskEnds
<1>a. ASSUME NEW r, run' = [run EXCEPT ![d] = r], Active(d),
             r # NoRun => /\ r.hour = run[d].hour
                          /\ \A key \in Keys : Behind(key, run[d]) => Behind(key, r)
      PROVE  \A e \in Dags : GoesOn(e)
  BY <1>a DEF GoesOn, Active, Inv1, TypeOK
<1>2. CASE Submit(d)
  <2> DEFINE r == [run[d] EXCEPT !.phase = "submitted"]
  <2>1. run[d] \in Runs /\ Active(d) /\ run' = [run EXCEPT ![d] = r]
    BY <1>2 DEF Submit, Active, Inv1, TypeOK
  <2>2. r.hour = run[d].hour /\ r.task = run[d].task /\ r.try = run[d].try
        /\ r.phase = "submitted"
    BY <2>1 DEF Runs
  <2>3. \A key \in Keys : Behind(key, run[d]) => Behind(key, r)
    BY <2>2 DEF Behind
  <2>. QED BY <2>1, <2>2, <2>3, <1>1, <1>a
<1>3. CASE NotSubmitted(d) \/ GiveUp(d)
  <2>1. Active(d) /\ run' = [run EXCEPT ![d] = AfterFailure(d)]
    BY <1>3 DEF NotSubmitted, GiveUp, Active, NoRun
  <2>. QED BY <2>1, <1>1, <1>a, AfterBehind
<1>4. CASE WorkerTask(d)
  <2>1. Active(d)
    BY <1>4 DEF WorkerTask, Validate, Report, CheckIdle, Stop, WorkerTaskFails, Due
  <2>2. PICK r \in {AfterSuccess(d), AfterFailure(d), NoRun} : WorkerTaskEnds(d, r)
    BY <1>4 DEF WorkerTask, Validate, Report, CheckIdle, Stop, WorkerTaskFails
  <2>3. run' = [run EXCEPT ![d] = r]
    BY <2>2 DEF WorkerTaskEnds
  <2>. QED BY <2>1, <2>2, <2>3, <1>1, <1>a, AfterBehind
<1>. QED BY <1>2, <1>3, <1>4

\* Runs that go on stay in order, as long as no Job Run is added.
LEMMA GoingOnInOrder ==
  ASSUME Inv1, RunsInOrder, UNCHANGED dagVars, \A d \in Dags : GoesOn(d),
         \A k \in jobs' : \E j \in jobs : k.key = j.key
  PROVE  RunsInOrder'
<1>1. last' = last /\ pending' = pending
  BY DEF dagVars
<1>2. Active("scheduled")' => run'["scheduled"].hour = last'
  BY <1>1 DEF GoesOn, Active, RunsInOrder, Dags
<1>3. Active("backfill")' => run'["backfill"].hour \notin pending'
  BY <1>1 DEF GoesOn, Active, RunsInOrder, Dags
<1>4. ASSUME NEW k \in jobs'
      PROVE  /\ k.key.hour <= last'
             /\ k.key.dag = "backfill" => k.key.hour \notin pending'
             /\ Active(k.key.dag)' /\ run'[k.key.dag].hour = k.key.hour =>
                  Behind(k.key, run'[k.key.dag])
  <2>1. PICK j \in jobs : k.key = j.key
    BY <1>4
  <2>2. j.key \in Keys /\ j.key.dag \in Dags
    BY DEF Inv1, TypeOK, Jobs, Keys
  <2>. QED BY <1>1, <2>1, <2>2 DEF RunsInOrder, GoesOn, Active
<1>. QED BY <1>2, <1>3, <1>4 DEF RunsInOrder

\* A Job Run's step leaves its name, and takes or gives back the lock.
LEMMA JobLocks ==
  ASSUME Inv1, StagingHeld, NEW j \in jobs, JobStep(j)
  PROVE  \/ /\ jobs' = jobs \ {j}
            /\ lock' = lock \/ lock = j.key
         \/ \E k : /\ jobs' = (jobs \ {j}) \cup {k} /\ k.key = j.key
                   /\ \/ lock' = lock /\ (k.pc \in Holding => j.pc \in Holding)
                      \/ lock = NoKey /\ lock' = j.key
<1>0. j \in Jobs
  BY DEF Inv1, TypeOK
<1>1. CASE PublishFeatures(j)
  <2> DEFINE k == [j EXCEPT !.pc = "validate"]
  <2>1. k.key = j.key /\ k.pc \notin Holding
    BY <1>0 DEF Jobs, Holding
  <2>2. jobs' = (jobs \ {j}) \cup {k} /\ lock' = lock
    BY <1>1 DEF PublishFeatures, Becomes
  <2>. QED BY <2>1, <2>2
<1>2. CASE ReadFeatures(j)
  <2> DEFINE k == [j EXCEPT !.pc = "publish",
                            !.input = IF j.key.hour \in bad THEN "bad" ELSE "good"]
  <2>1. k.key = j.key /\ k.pc \notin Holding
    BY <1>0 DEF Jobs, Holding
  <2>2. jobs' = (jobs \ {j}) \cup {k} /\ lock' = lock
    BY <1>2 DEF ReadFeatures, Becomes, dataVars
  <2>. QED BY <2>1, <2>2
<1>3. CASE PublishScores(j)
  <2> DEFINE k == [j EXCEPT !.pc = "validate", !.input = "good"]
  <2>1. k.key = j.key /\ k.pc \notin Holding
    BY <1>0 DEF Jobs, Holding
  <2>2. jobs' = (jobs \ {j}) \cup {k} /\ lock' = lock
    BY <1>3 DEF PublishScores, Becomes
  <2>. QED BY <2>1, <2>2
<1>4. CASE Compute(j)
  <2> DEFINE k == [j EXCEPT !.pc = "gold", !.version = Written(j.key)]
  <2>1. k.key = j.key /\ k.pc \notin Holding
    BY <1>0 DEF Jobs, Holding
  <2>2. jobs' = (jobs \ {j}) \cup {k} /\ lock' = lock
    BY <1>4 DEF Compute, Becomes, dataVars
  <2>. QED BY <2>1, <2>2
<1>5. CASE ReadBack(j)
  <2> DEFINE k == [j EXCEPT !.pc = "manifest", !.version.whole = TRUE]
  <2>1. k.key = j.key /\ k.pc \notin Holding
    BY <1>0 DEF Jobs, Holding
  <2>2. jobs' = (jobs \ {j}) \cup {k} /\ lock' = lock
    BY <1>5 DEF ReadBack, Becomes, dataVars
  <2>. QED BY <2>1, <2>2
<1>6. CASE SwitchManifest(j)
  <2> DEFINE k == [j EXCEPT !.pc = "load", !.version = NoVersion]
  <2>1. k.key = j.key /\ k.pc \notin Holding
    BY <1>0 DEF Jobs, Holding
  <2>2. jobs' = (jobs \ {j}) \cup {k} /\ lock' = lock
    BY <1>6 DEF SwitchManifest, Becomes
  <2>. QED BY <2>1, <2>2
<1>12. CASE ReadManifest(j)
  <2> DEFINE k == [j EXCEPT !.pc = "lock", !.version = manifest[j.key.hour]]
  <2>1. k.key = j.key /\ k.pc \notin Holding
    BY <1>0 DEF Jobs, Holding
  <2>2. jobs' = (jobs \ {j}) \cup {k} /\ lock' = lock
    BY <1>12 DEF ReadManifest, Becomes, dataVars
  <2>. QED BY <2>1, <2>2
<1>7. CASE LockStaging(j) /\ lock = NoKey
  <2> DEFINE k == [j EXCEPT !.pc = "merge"]
  <2>1. k.key = j.key
    BY <1>0 DEF Jobs
  <2>2. jobs' = (jobs \ {j}) \cup {k} /\ lock' = j.key
    BY <1>7 DEF LockStaging, Becomes
  <2>. QED BY <1>7, <2>1, <2>2
<1>8. CASE Merge(j)
  <2> DEFINE k == [j EXCEPT !.pc = "truncate", !.version = NoVersion]
  <2>1. k.key = j.key /\ j.pc \in Holding
    BY <1>0, <1>8 DEF Jobs, Merge, Holding
  <2>2. jobs' = (jobs \ {j}) \cup {k} /\ lock' = lock
    BY <1>8 DEF Merge, Becomes
  <2>. QED BY <2>1, <2>2
<1>9. CASE Truncate(j)
  <2>1. lock = j.key
    BY <1>9 DEF Truncate, StagingHeld, Holding
  <2>. QED BY <1>9, <2>1 DEF Truncate, Ends
<1>10. CASE Fails(j)
  BY <1>10 DEF Fails, Ends
<1>11. CASE ValidateFeatures(j) \/ ValidateScores(j) \/ (LockStaging(j) /\ lock # NoKey)
  BY <1>11 DEF ValidateFeatures, ValidateScores, LockStaging, Ends, dataVars
<1>. QED BY <1>1, <1>2, <1>3, <1>4, <1>5, <1>6, <1>7, <1>8, <1>9, <1>10, <1>11,
            <1>12 DEF JobStep

\* The table is only ever moved by the Job Run that holds the lock, to its hour.
LEMMA Moves ==
  ASSUME Inv1, [Next]_vars
  PROVE  served' = served \/ \E j \in jobs : Merge(j)
BY DEF Next, StartScheduled, StartBackfill, Start, Submit, NotSubmitted, GiveUp,
   WorkerTask, Validate, Report, CheckIdle, Stop, WorkerTaskFails, WorkerTaskEnds, JobStep,
   PublishFeatures, ValidateFeatures, ReadFeatures, PublishScores, ValidateScores, Compute,
   ReadBack, SwitchManifest, ReadManifest, LockStaging, Truncate, Fails, dataVars, vars

LEMMA JobStepOrder ==
  ASSUME Inv1, OrderInv, NEW j \in jobs, JobStep(j)
  PROVE  OrderInv'
<1>0. /\ \/ jobs' = jobs \ {j} /\ (lock' = lock \/ lock = j.key)
         \/ \E k : /\ jobs' = (jobs \ {j}) \cup {k} /\ k.key = j.key
                   /\ \/ lock' = lock /\ (k.pc \in Holding => j.pc \in Holding)
                      \/ lock = NoKey /\ lock' = j.key
      /\ RunsInOrder /\ NamesApart /\ StagingHeld
  BY JobLocks DEF OrderInv
<1>1. UNCHANGED dagVars /\ \A d \in Dags : GoesOn(d)
  BY JobGoesOn
<1>2. \A k \in jobs' : \E i \in jobs : k.key = i.key
  BY <1>0
<1>3. RunsInOrder'
  BY <1>0, <1>1, <1>2, GoingOnInOrder
<1>4. NamesApart'
  BY <1>0 DEF NamesApart
<1>5. \A i \in jobs : i.key # NoKey
  BY DEF Inv1, TypeOK, Jobs, Keys, NoKey, Dags, None
<1>6. \A i \in jobs' : i.pc \in Holding => lock' = i.key
  <2>1. CASE jobs' = jobs \ {j} /\ (lock' = lock \/ lock = j.key)
    BY <1>0, <2>1 DEF NamesApart, StagingHeld
  <2>2. ASSUME NEW k, jobs' = (jobs \ {j}) \cup {k}, k.key = j.key,
               \/ lock' = lock /\ (k.pc \in Holding => j.pc \in Holding)
               \/ lock = NoKey /\ lock' = j.key
        PROVE  \A i \in jobs' : i.pc \in Holding => lock' = i.key
    BY <1>0, <1>5, <2>2 DEF StagingHeld
  <2>. QED BY <1>0, <2>1, <2>2
<1>7. served' <= last'
  <2>1. last' = last /\ j.key.hour <= last
    BY <1>0, <1>1 DEF dagVars, RunsInOrder
  <2>2. CASE Merge(j)
    BY <2>1, <2>2 DEF Merge
  <2>3. CASE ~Merge(j)
    <3>1. served' = served
      BY <2>3 DEF JobStep, PublishFeatures, ValidateFeatures, ReadFeatures, PublishScores,
         ValidateScores, Compute, ReadBack, SwitchManifest, ReadManifest, LockStaging, Truncate, Fails,
         dataVars
    <3>. QED BY <1>0, <2>1, <3>1 DEF StagingHeld
  <2>. QED BY <2>2, <2>3
<1>. QED BY <1>3, <1>4, <1>6, <1>7 DEF OrderInv, StagingHeld

LEMMA StepOrder == Inv1 /\ HoursApart /\ OrderInv /\ [Next]_vars => OrderInv'
<1> SUFFICES ASSUME Inv1, HoursApart, OrderInv, [Next]_vars PROVE OrderInv'
  OBVIOUS
<1>0. RunsInOrder /\ NamesApart /\ StagingHeld
  BY DEF OrderInv
<1>1. ASSUME NEW j \in jobs, JobStep(j) PROVE OrderInv'
  BY <1>1, JobStepOrder
\* A new run is of an hour none of its DAG's Job Runs is of.
<1>2. CASE StartScheduled
  <2> PICK h \in last + 1..LastHour : /\ last' = h /\ UNCHANGED pending
                                     /\ Start("scheduled", h)
    BY <1>2 DEF StartScheduled
  <2> DEFINE r == [hour |-> h, task |-> "transform", try |-> 0, phase |-> "queued"]
  <2>1. last \in Nat /\ h \in Nat /\ last < h /\ served \in Nat
    BY HourlyAssumption DEF Inv1, TypeOK
  <2>2. run' = [run EXCEPT !["scheduled"] = r] /\ jobs' = jobs /\ served' = served
        /\ lock' = lock
    BY DEF Start, dataVars
  <2>3. run'["scheduled"].hour = h /\ run'["backfill"] = run["backfill"]
    BY <2>2 DEF Inv1, TypeOK, Dags
  <2>4. ASSUME NEW j \in jobs
        PROVE  /\ j.key.hour <= last'
               /\ j.key.dag = "backfill" => j.key.hour \notin pending'
               /\ Active(j.key.dag)' /\ run'[j.key.dag].hour = j.key.hour =>
                    Behind(j.key, run'[j.key.dag])
    <3>1. j.key.hour \in Nat /\ j.key.hour <= last /\ j.key.dag \in Dags
      BY <1>0, HourlyAssumption DEF RunsInOrder, Inv1, TypeOK, Jobs, Keys, Hours
    <3>2. j.key.hour < h
      BY <2>1, <3>1
    <3>. QED BY <1>0, <2>1, <2>3, <3>1, <3>2 DEF RunsInOrder, Dags, Active
  <2>5. RunsInOrder'
    BY <1>0, <2>2, <2>3, <2>4 DEF RunsInOrder, Active
  <2>6. NamesApart' /\ StagingHeld'
    BY <1>0, <2>1, <2>2 DEF NamesApart, StagingHeld
  <2>. QED BY <2>5, <2>6 DEF OrderInv
<1>3. ASSUME NEW h \in Hours, StartBackfill(h) PROVE OrderInv'
  <2> DEFINE r == [hour |-> h, task |-> "transform", try |-> 0, phase |-> "queued"]
  <2>1. h \in pending /\ pending' = pending \ {h} /\ last' = last
        /\ run' = [run EXCEPT !["backfill"] = r] /\ jobs' = jobs /\ served' = served
        /\ lock' = lock
    BY <1>3 DEF StartBackfill, Start, dataVars
  <2>2. run'["backfill"].hour = h /\ run'["scheduled"] = run["scheduled"]
    BY <2>1 DEF Inv1, TypeOK, Dags
  <2>3. \A j \in jobs : j.key.dag \in Dags
    BY DEF Inv1, TypeOK, Jobs, Keys
  <2>4. RunsInOrder'
    BY <1>0, <2>1, <2>2, <2>3 DEF RunsInOrder, Active, Dags
  <2>5. NamesApart' /\ StagingHeld'
    BY <1>0, <2>1 DEF NamesApart, StagingHeld
  <2>. QED BY <2>4, <2>5 DEF OrderInv
\* The Job Runs of the run's hour are of earlier tries than the one submitted.
<1>4. ASSUME NEW d \in Dags, Submit(d) PROVE OrderInv'
  <2> DEFINE k == [key |-> KeyOf(d), pc |-> FirstPc(run[d].task), watched |-> TRUE,
                   input |-> "good", version |-> NoVersion]
  <2>1. run[d] \in Runs /\ Active(d) /\ run[d].phase = "queued" /\ run[d].task \in JobTasks
    BY <1>4 DEF Submit, Active, Inv1, TypeOK
  <2>2. /\ run' = [run EXCEPT ![d] = [run[d] EXCEPT !.phase = "submitted"]]
        /\ jobs' = jobs \cup {k} /\ served' = served /\ lock' = lock
        /\ last' = last /\ pending' = pending
    BY <1>4 DEF Submit, dagVars, dataVars
  <2>3. k.key = KeyOf(d) /\ KeyOf(d).dag = d /\ KeyOf(d).hour = run[d].hour
        /\ KeyOf(d).task = run[d].task /\ KeyOf(d).try = run[d].try
    BY DEF KeyOf
  <2>4. k.pc \notin Holding
    BY <2>1 DEF FirstPc, JobTasks, Holding
  <2>5. run[d].try \in Nat /\ Rank(run[d].task) \in Nat
    BY <2>1, HourlyAssumption DEF Runs, Rank
  <2>6. \A j \in jobs : j.key # k.key
    <3> SUFFICES ASSUME NEW j \in jobs, j.key = k.key PROVE FALSE
      OBVIOUS
    <3>1. Behind(j.key, run[d])
      BY <1>0, <2>1, <2>3 DEF RunsInOrder
    <3>. QED BY <2>1, <2>3, <2>5, <3>1 DEF Behind
  <2>7. NamesApart' /\ StagingHeld'
    BY <1>0, <2>2, <2>4, <2>6 DEF NamesApart, StagingHeld
  <2>8. \A e \in Dags : GoesOn(e)
    BY <1>4, DagGoesOn
  <2>9. run'[d].hour = run[d].hour /\ run'[d].task = run[d].task
        /\ run'[d].try = run[d].try /\ run'[d].phase = "submitted"
    BY <2>1, <2>2 DEF Inv1, TypeOK, Runs
  <2>10. ASSUME NEW j \in jobs'
         PROVE  /\ j.key.hour <= last'
                /\ j.key.dag = "backfill" => j.key.hour \notin pending'
                /\ Active(j.key.dag)' /\ run'[j.key.dag].hour = j.key.hour =>
                     Behind(j.key, run'[j.key.dag])
    <3>1. CASE j \in jobs
      <4>1. j.key \in Keys /\ j.key.dag \in Dags
        BY <3>1 DEF Inv1, TypeOK, Jobs, Keys
      <4>. QED BY <1>0, <2>2, <2>8, <3>1, <4>1 DEF RunsInOrder, GoesOn, Active
    <3>2. CASE j = k
      <4>1. run[d].hour <= last /\ (d = "backfill" => run[d].hour \notin pending)
        BY <1>0, <2>1 DEF RunsInOrder, HoursApart, Dags
      <4>2. Behind(j.key, run'[d])
        BY <2>3, <2>9, <3>2 DEF Behind
      <4>. QED BY <2>2, <2>3, <3>2, <4>1, <4>2
    <3>. QED BY <2>2, <3>1, <3>2
  <2>11. (Active("scheduled")' => run'["scheduled"].hour = last')
         /\ (Active("backfill")' => run'["backfill"].hour \notin pending')
    BY <1>0, <2>2, <2>8 DEF RunsInOrder, GoesOn, Active, Dags
  <2>12. RunsInOrder'
    BY <2>10, <2>11 DEF RunsInOrder
  <2>. QED BY <2>7, <2>12 DEF OrderInv
<1>5. ASSUME NEW d \in Dags, NotSubmitted(d) \/ WorkerTask(d) PROVE OrderInv'
  <2>1. jobs' = jobs /\ served' = served /\ lock' = lock
    BY <1>5 DEF NotSubmitted, WorkerTask, Validate, Report, CheckIdle, Stop,
       WorkerTaskFails, WorkerTaskEnds, dataVars
  <2>2. UNCHANGED dagVars /\ \A e \in Dags : GoesOn(e)
    BY <1>5, DagGoesOn
  <2>3. RunsInOrder'
    BY <1>0, <2>1, <2>2, GoingOnInOrder
  <2>4. NamesApart' /\ StagingHeld'
    BY <1>0, <2>1, <2>2 DEF NamesApart, StagingHeld, dagVars
  <2>. QED BY <2>3, <2>4 DEF OrderInv
<1>6. ASSUME NEW d \in Dags, GiveUp(d) PROVE OrderInv'
  <2> DEFINE f(j) == IF Watched(d, j) THEN [j EXCEPT !.watched = FALSE] ELSE j
  <2>1. jobs' = {f(j) : j \in jobs} /\ served' = served /\ lock' = lock
    BY <1>6 DEF GiveUp, dataVars
  <2>2. UNCHANGED dagVars /\ \A e \in Dags : GoesOn(e)
    BY <1>6, DagGoesOn
  <2>3. \A j \in jobs : f(j).key = j.key /\ f(j).pc = j.pc
    BY DEF Inv1, TypeOK, Jobs
  <2>4. \A k \in jobs' : \E j \in jobs : k = f(j)
    BY <2>1
  <2> HIDE DEF f
  <2>5. RunsInOrder'
    BY <1>0, <2>2, <2>3, <2>4, GoingOnInOrder
  <2>6. NamesApart'
    BY <1>0, <2>3, <2>4 DEF NamesApart
  <2>7. StagingHeld'
    BY <1>0, <2>1, <2>2, <2>3, <2>4 DEF StagingHeld, dagVars
  <2>. QED BY <2>5, <2>6, <2>7 DEF OrderInv
<1>7. CASE UNCHANGED vars
  BY <1>0, <1>7 DEF OrderInv, RunsInOrder, NamesApart, StagingHeld, Active, vars, dagVars,
     dataVars
<1>. QED BY <1>1, <1>2, <1>3, <1>4, <1>5, <1>6, <1>7 DEF Next

LEMMA InitOrder == Init => OrderInv
BY DEF Init, OrderInv, RunsInOrder, NamesApart, StagingHeld, Active, Dags

LEMMA OrderKept == Spec => [](Inv1 /\ OrderInv)
BY Kept, InitOrder, StepOrder, PTL DEF Spec

\* At any time at most one Job Run, waited for or not, is between the lock of
\* the staging table and its release.
THEOREM OneInStaging ==
  Spec => [](\A j, k \in jobs : j.pc \in Holding /\ k.pc \in Holding => j = k)
<1>1. OrderInv => \A j, k \in jobs : j.pc \in Holding /\ k.pc \in Holding => j = k
  BY DEF OrderInv, NamesApart, StagingHeld
<1>. QED BY <1>1, OrderKept, PTL

\* The served generation goes back only by a backfill or by a Job Run nobody
\* waits for: one the schedule waits for is of the latest hour.
THEOREM NeverBackBySchedule == Spec => OnlyStragglersGoBack
<1>1. ASSUME Inv1, OrderInv, [Next]_vars
      PROVE  [served' < served =>
                \/ lock.dag = "backfill"
                \/ \E j \in jobs : j.key = lock /\ ~j.watched]_vars
  <2> SUFFICES ASSUME served' < served, lock.dag # "backfill",
                      \A j \in jobs : j.key = lock => j.watched
      PROVE  FALSE
    OBVIOUS
  <2>1. served \in Nat /\ last \in Nat
    BY <1>1, HourlyAssumption DEF Inv1, TypeOK
  <2>2. PICK j \in jobs : Merge(j)
    BY <1>1, <2>1, Moves
  <2>3. served' = j.key.hour /\ lock = j.key
    BY <1>1, <2>2 DEF Merge, OrderInv, StagingHeld, Holding
  <2>4. j.watched /\ j.key.dag = "scheduled"
    BY <1>1, <2>3 DEF Inv1, TypeOK, Jobs, Keys, Dags
  <2>5. Active("scheduled") /\ run["scheduled"].hour = j.key.hour
    BY <1>1, <2>4, WatchedIsActive
  <2>6. j.key.hour = last /\ served <= last
    BY <1>1, <2>5 DEF OrderInv, RunsInOrder, StagingHeld
  <2>. QED BY <2>1, <2>3, <2>6
<1>. QED BY <1>1, OrderKept, PTL DEF Spec, OnlyStragglersGoBack
=============================================================================
