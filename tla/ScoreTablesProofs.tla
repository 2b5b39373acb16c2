-------------------------- MODULE ScoreTablesProofs --------------------------
(***************************************************************************)
(* Facts about the current scores, for every road network, any number of   *)
(* overlapping attempts and of failures: as long as no Spark job of the    *)
(* standard pipeline merges after one of a later hour, a row never returns *)
(* to an older standard generation, and none is left behind unrecorded.    *)
(* About the weather they are adjusted with, for every map of zones, every *)
(* master and whatever is answered.  And about the routes compared with    *)
(* them, for every request and every commit between its two queries.       *)
(***************************************************************************)
EXTENDS ScoreService, FiniteSetTheorems, TLAPS

WF == INSTANCE WellFoundedInduction

\* What the two facts need of TypeOK.
Types ==
  /\ hour \in 0..MaxHour /\ standard \in 0..MaxHour
  /\ sTask \in {"idle", "merge", "validate"}
  /\ att \in [Attempts -> Process]
  /\ current \in [Rows -> [asOf : 0..MaxHour, sig : Signatures \cup {NoSignature}]]
  /\ \A z \in Zones : latest[z].sig \in Signatures \cup {NoSignature}
  /\ sky \in [Zones -> Signatures]
  /\ \A o \in late : o.sky \in [Zones -> Signatures]
  /\ refreshed \in 0..MaxHour

\* Generations only come from hours that have begun, and abandoned jobs are no
\* older than what the table holds.
InTurn ==
  /\ standard <= hour
  /\ sTask # "idle" => hour > 0
  /\ \A h \in overrun : h \in 1..MaxHour /\ standard <= h /\ h <= hour

\* The lock: one process scores, and while it does no row is newer than what
\* it has read.
Exclusive == \A a, b \in Attempts : att[a].at = "score" /\ att[b].at = "score" => a = b
HolderIsNewest ==
  \A a \in Attempts : att[a].at = "score" =>
    /\ att[a].asOf <= standard
    /\ \A r \in Rows : current[r].asOf <= att[a].asOf
Behind == \A r \in Rows : current[r].asOf <= standard

Inv == Types /\ InTurn /\ Exclusive /\ HolderIsNewest /\ Behind /\ NoSilentSkip

\* Inv holds at the start.
LEMMA InitInv == Init => Inv
<1> SUFFICES ASSUME Init PROVE Inv
  OBVIOUS
<1>1. NoProcess \in Process
  BY BoundsAssumption DEF NoProcess, Process
<1>2. (CHOOSE s \in Signatures : TRUE) \in Signatures
  BY NamesAssumption
<1>3. Types
  BY <1>1, <1>2, BoundsAssumption DEF Init, Types
<1> QED
  BY <1>3, BoundsAssumption
  DEF Init, Inv, InTurn, Exclusive, HolderIsNewest, Behind, NoSilentSkip, NoProcess

\* A step that leaves the standard table, the processes and the scores alone
\* keeps Inv when it keeps the types of the weather and of the standard DAG.
LEMMA Elsewhere ==
  ASSUME Inv, Types', InTurn', UNCHANGED <<att, scores>>, standard' >= standard
  PROVE  Inv'
<1> USE BoundsAssumption
<1>1. Exclusive'
  BY DEF Inv, Exclusive
<1>2. HolderIsNewest' /\ Behind'
  BY DEF Inv, HolderIsNewest, Behind, scores, Types, Process
<1>3. NoSilentSkip'
  BY DEF Inv, NoSilentSkip, scores
<1> QED
  BY <1>1, <1>2, <1>3 DEF Inv

\* The weather DAG writes signatures and nothing else that Inv is about.
LEMMA WeatherStep ==
  ASSUME Inv,
         Tick \/ (\E zones \in SUBSET Zones : Fetch(zones))
           \/ (\E bad \in SUBSET fetched : Upsert(bad)) \/ Validate \/ Detect
           \/ WeatherTaskFails \/ AbandonCollector \/ (\E o \in late : LateUpsert(o))
  PROVE  Inv'
<1> USE BoundsAssumption
<1>1. UNCHANGED <<standardDag, att, scores>>
  BY DEF Tick, Fetch, Upsert, Validate, Detect, WeatherTaskFails, AbandonCollector,
         LateUpsert, currentRun
<1>2. sky' \in [Zones -> Signatures]
  BY DEF Inv, Types, Tick, Fetch, Upsert, Validate, Detect, WeatherTaskFails,
         AbandonCollector, LateUpsert
<1>3. \A o \in late' : o.sky \in [Zones -> Signatures]
  BY DEF Inv, Types, Tick, Fetch, Upsert, Validate, Detect, WeatherTaskFails,
         AbandonCollector, LateUpsert
<1>4. \A z \in Zones : latest'[z].sig \in Signatures \cup {NoSignature}
  BY DEF Inv, Types, Tick, Fetch, Upsert, Upserted, Validate, Detect, WeatherTaskFails,
         AbandonCollector, LateUpsert
<1>5. Types' /\ InTurn' /\ standard' >= standard
  BY <1>1, <1>2, <1>3, <1>4 DEF Inv, Types, InTurn, standardDag, scores
<1> QED
  BY <1>1, <1>5, Elsewhere

\* The standard DAG only ever brings the table to a later generation.
LEMMA StandardStep ==
  ASSUME Inv, StandardOverruns = FALSE,
         StandardRun \/ StandardTaskFails \/ WaiterTimesOut
  PROVE  Inv'
<1> USE BoundsAssumption
<1>1. UNCHANGED <<latest, sky, late, att, scores>>
  BY DEF StandardRun, StartHour, Merge, ValidateStandard, StandardTaskFails, WaiterTimesOut,
         LateMerge, currentRun, weatherDag
<1>2. InTurn' /\ standard' >= standard
  <2> USE DEF Inv, Types, InTurn
  <2>1. CASE StartHour \/ ValidateStandard
    BY <2>1 DEF StartHour, ValidateStandard
  <2>2. CASE Merge
    BY <2>2 DEF Merge, OnTime
  <2>3. CASE StandardTaskFails
    BY <2>3 DEF StandardTaskFails, OnTime
  <2>4. CASE WaiterTimesOut
    <3>1. hour \in 1..MaxHour
      BY <2>4 DEF WaiterTimesOut
    <3> QED
      BY <2>4, <3>1 DEF WaiterTimesOut, RetryStandard
  <2>5. ASSUME NEW h \in overrun, LateMerge(h)
        PROVE  InTurn' /\ standard' >= standard
    BY <2>5 DEF LateMerge, OnTime
  <2> HIDE DEF Inv, Types, InTurn
  <2> QED
    BY <2>1, <2>2, <2>3, <2>4, <2>5 DEF StandardRun
<1>3. hour' \in 0..MaxHour /\ standard' \in 0..MaxHour
      /\ sTask' \in {"idle", "merge", "validate"}
  BY DEF Inv, Types, InTurn, StandardRun, StartHour, Merge, ValidateStandard,
         StandardTaskFails, RetryStandard, WaiterTimesOut, LateMerge, OnTime
<1>4. Types'
  BY <1>1, <1>3 DEF Inv, Types, scores
<1> QED
  BY <1>1, <1>2, <1>4, Elsewhere

\* A process outside the lock, or one that ends, is no danger to the others.
LEMMA ProcessStep ==
  ASSUME Inv, NEW a \in Attempts, NEW p \in Process, p.at # "score",
         att' = [att EXCEPT ![a] = p] \/ att' = att,
         UNCHANGED <<weatherDag, standardDag, scores>>
  PROVE  Inv'
<1> USE BoundsAssumption
<1>1. att' \in [Attempts -> Process]
  BY DEF Inv, Types
<1>2. \A b \in Attempts : att'[b].at = "score" => att[b] = att'[b]
  BY DEF Inv, Types
<1>3. Types' /\ InTurn' /\ Behind' /\ NoSilentSkip'
  BY <1>1 DEF Inv, Types, InTurn, Behind, NoSilentSkip, weatherDag, standardDag, scores
<1>4. Exclusive' /\ HolderIsNewest'
  BY <1>2 DEF Inv, Exclusive, HolderIsNewest, scores, standardDag
<1> QED
  BY <1>3, <1>4 DEF Inv

\* Who gets the lock reads a generation no older than any row.
LEMMA LockStep == ASSUME Inv, NEW a \in Attempts, Lock(a) PROVE Inv'
<1> USE BoundsAssumption
<1>1. UNCHANGED <<weatherDag, standardDag, scores>>
  BY DEF Lock
<1>2. att' \in [Attempts -> Process]
  <2> DEFINE p == [att[a] EXCEPT !.at = "score", !.asOf = standard]
  <2>1. p \in Process
    BY DEF Inv, Types, Process
  <2>2. att' = [att EXCEPT ![a] = p]
    BY DEF Inv, Types, Lock
  <2> QED
    BY <2>1, <2>2 DEF Inv, Types
<1>3. Types' /\ InTurn' /\ Behind' /\ NoSilentSkip'
  BY <1>1, <1>2 DEF Inv, Types, InTurn, Behind, NoSilentSkip, weatherDag, standardDag, scores
<1>4. \A b \in Attempts : att'[b].at = "score" => b = a
  BY DEF Inv, Types, Lock, Locked
<1>5. att'[a].asOf = standard
  BY DEF Inv, Types, Lock, Process
<1>6. Exclusive'
  BY <1>4 DEF Exclusive
<1>7. HolderIsNewest'
  <2> SUFFICES ASSUME NEW b \in Attempts, att'[b].at = "score"
               PROVE  /\ att'[b].asOf <= standard'
                      /\ \A r \in Rows : current'[r].asOf <= att'[b].asOf
    BY DEF HolderIsNewest
  <2>1. b = a
    BY <1>4
  <2> QED
    BY <1>1, <1>5, <2>1 DEF Inv, Types, Behind, standardDag, scores
<1> QED
  BY <1>3, <1>6, <1>7 DEF Inv

\* What a commit writes: rows only move up to the generation the holder read.
LEMMA CommitWrites ==
  ASSUME Inv, NEW a \in Attempts, NEW bad \in SUBSET Rows, Commit(a, bad)
  PROVE  /\ current' \in [Rows -> [asOf : 0..MaxHour, sig : Signatures \cup {NoSignature}]]
         /\ \A r \in Rows : /\ current[r].asOf <= current'[r].asOf
                            /\ current'[r].asOf <= att[a].asOf
<1> USE BoundsAssumption
<1>1. att[a] \in Process /\ (\A r \in Rows : current[r].asOf <= att[a].asOf)
  BY DEF Inv, Types, HolderIsNewest, Commit
<1>2. CASE Trips(bad, Scored(a))
  BY <1>1, <1>2 DEF Inv, Types, Commit, scores
<1>3. CASE ~Trips(bad, Scored(a))
  BY <1>1, <1>3, NetworkAssumption DEF Inv, Types, Commit, Process
<1> QED
  BY <1>2, <1>3

\* A commit accounts for every row that it could have refreshed.
LEMMA CommitAccounts ==
  ASSUME Inv, NEW a \in Attempts, NEW bad \in SUBSET Rows, Commit(a, bad)
  PROVE  NoSilentSkip'
<1> USE BoundsAssumption
<1> SUFFICES ASSUME NEW r \in Rows, current'[r].asOf < refreshed'
             PROVE  \E g \in refreshed'..MaxHour : <<r, g>> \in quarantine'
  BY DEF NoSilentSkip
<1>1. att[a] \in Process /\ refreshed \in 0..MaxHour /\ current[r].asOf \in 0..MaxHour
  BY DEF Inv, Types
<1>2. CASE Trips(bad, Scored(a))
  BY <1>2 DEF Inv, NoSilentSkip, Commit, scores
<1>3. CASE ~Trips(bad, Scored(a)) /\ att[a].rows # Rows
  <2>1. current[r].asOf < refreshed /\ refreshed' = refreshed /\ quarantine \subseteq quarantine'
    BY <1>1, <1>3, CommitWrites DEF Commit, Recorded, Inv, Types
  <2> QED
    BY <2>1 DEF Inv, NoSilentSkip
<1>4. CASE ~Trips(bad, Scored(a)) /\ att[a].rows = Rows
  <2>1. refreshed' = att[a].asOf /\ att[a].asOf \in 0..MaxHour
    BY <1>1, <1>4 DEF Commit, Process
  <2>2. att[a].asOf # 0
    BY <1>1, <1>4, <2>1, CommitWrites
  <2>3. r \in bad
    BY <1>4, <2>1, <2>2 DEF Commit, Scored
  <2> QED
    BY <1>4, <2>1, <2>3 DEF Commit, Recorded
<1> QED
  BY <1>2, <1>3, <1>4

\* A commit keeps Inv: nobody else holds the lock.
LEMMA CommitStep ==
  ASSUME Inv, NEW a \in Attempts, NEW bad \in SUBSET Rows, Commit(a, bad)
  PROVE  Inv'
<1> USE BoundsAssumption
<1>1. UNCHANGED <<weatherDag, standardDag>>
  BY DEF Commit
<1>2. att' = [att EXCEPT ![a] = NoProcess]
  BY DEF Commit, Succeed, Fail
<1>3. NoProcess \in Process /\ NoProcess.at # "score"
  BY DEF NoProcess, Process
<1>4. att' \in [Attempts -> Process] /\ \A b \in Attempts : att'[b].at # "score"
  BY <1>2, <1>3 DEF Inv, Types, Exclusive, Commit
<1>5. refreshed' \in 0..MaxHour
  BY DEF Inv, Types, Commit, Process, scores
<1>6. Types' /\ InTurn'
  BY <1>1, <1>4, <1>5, CommitWrites DEF Inv, Types, InTurn, weatherDag, standardDag
<1>7. Behind'
  <2>1. att[a].asOf <= standard /\ att[a].asOf \in Nat /\ standard' = standard
    BY <1>1 DEF Inv, HolderIsNewest, Commit, Types, Process, standardDag
  <2>2. \A r \in Rows : current'[r].asOf \in Nat /\ current'[r].asOf <= att[a].asOf
    BY CommitWrites
  <2>3. standard \in Nat
    BY DEF Inv, Types
  <2> QED
    BY <2>1, <2>2, <2>3 DEF Behind
<1> QED
  BY <1>4, <1>6, <1>7, CommitAccounts DEF Inv, Exclusive, HolderIsNewest

\* Inv is inductive.
LEMMA InvStep == ASSUME Inv, [Next]_vars, StandardOverruns = FALSE PROVE Inv'
<1> USE BoundsAssumption
<1>1. NoProcess \in Process /\ NoProcess.at # "score"
  BY DEF NoProcess, Process
<1>2. CASE WeatherRun \/ (\E zones \in (SUBSET Zones) \ {Zones} : Fetch(zones))
           \/ (\E bad \in (SUBSET fetched) \ {{}} : Upsert(bad))
           \/ WeatherTaskFails \/ AbandonCollector
  <2>1. CASE \E zones \in SUBSET Zones : Fetch(zones)
    BY <2>1, WeatherStep
  <2>2. CASE \E bad \in SUBSET fetched : Upsert(bad)
    BY <2>2, WeatherStep
  <2>3. CASE Tick \/ Validate \/ Detect \/ \E o \in late : LateUpsert(o)
    BY <2>3, WeatherStep
  <2>4. CASE WeatherTaskFails \/ AbandonCollector
    BY <2>4, WeatherStep
  <2> QED
    BY <1>2, <2>1, <2>2, <2>3, <2>4 DEF WeatherRun
<1>3. CASE StandardRun \/ StandardTaskFails \/ WaiterTimesOut
  BY <1>3, StandardStep
<1>4. CASE StartRun
  BY <1>4, Elsewhere DEF StartRun, Inv, Types, InTurn, weatherDag, standardDag, scores
<1>5. ASSUME NEW a \in Attempts, Launch(a) PROVE Inv'
  <2>1. [att[a] EXCEPT !.at = "read", !.rows = Targets] \in Process
    BY DEF Inv, Types, Process, Targets
  <2>2. \/ att' = att
        \/ att' = [att EXCEPT ![a] = [att[a] EXCEPT !.at = "read", !.rows = Targets]]
    BY <1>5 DEF Launch, Inv, Types
  <2> QED
    BY <1>5, <2>1, <2>2, ProcessStep DEF Launch, Inv, Types, Process
<1>6. ASSUME NEW a \in Attempts, ReadWeather(a) PROVE Inv'
  <2> DEFINE p == [att[a] EXCEPT !.at = "wait", !.seen = [z \in Zones |-> latest[z].sig]]
  <2>1. p \in Process /\ p.at # "score"
    BY DEF Inv, Types, Process
  <2>2. att' = [att EXCEPT ![a] = p] /\ UNCHANGED <<weatherDag, standardDag, scores>>
    BY <1>6 DEF ReadWeather, Inv, Types
  <2> QED
    BY <2>1, <2>2, ProcessStep
<1>7. ASSUME NEW a \in Attempts, Lock(a) PROVE Inv'
  BY <1>7, LockStep
<1>8. ASSUME NEW a \in Attempts, NEW bad \in SUBSET Rows, Commit(a, bad) PROVE Inv'
  BY <1>8, CommitStep
<1>9. ASSUME NEW a \in Attempts, AttemptFails(a) PROVE Inv'
  BY <1>1, <1>9, ProcessStep DEF AttemptFails, Fail
<1>10. ASSUME NEW a \in Attempts, AbandonAttempt(a) PROVE Inv'
  BY <1>1, <1>10, ProcessStep DEF AbandonAttempt
<1>11. CASE UNCHANGED vars
  BY <1>11, Elsewhere DEF vars, Inv, Types, InTurn, weatherDag, standardDag, currentRun, scores
<1> QED
  BY <1>2, <1>3, <1>4, <1>5, <1>6, <1>7, <1>8, <1>9, <1>10, <1>11 DEF Next, Attempt, Mishaps

\* Inv holds in every reachable state.
LEMMA Invariance == ASSUME StandardOverruns = FALSE PROVE Spec => []Inv
<1>1. Inv /\ [Next]_vars => Inv'
  BY InvStep
<1> QED
  BY <1>1, InitInv, PTL DEF Spec

\* However many attempts of the current-score task overlap, alive or given up,
\* no row of the table returns to an older standard generation: the advisory
\* lock is taken before the standard rows are read.
THEOREM RowsOnlyAdvance ==
  ASSUME StandardOverruns = FALSE
  PROVE  Spec => CurrentNeverGoesBack
<1>1. ASSUME Inv, [Next]_vars
      PROVE  [\A r \in Rows : current'[r].asOf >= current[r].asOf]_vars
  <2>1. ASSUME NEW a \in Attempts, NEW bad \in SUBSET Rows, Commit(a, bad)
        PROVE  \A r \in Rows : current'[r].asOf >= current[r].asOf
    BY <1>1, <2>1, CommitWrites, BoundsAssumption DEF Inv, Types
  <2>2. current' = current \/ \E a \in Attempts, bad \in SUBSET Rows : Commit(a, bad)
    BY <1>1
    DEF Next, WeatherRun, StandardRun, StartRun, Launch, Attempt, Mishaps, Tick, Fetch,
        Upsert, Validate, Detect, LateUpsert, WeatherTaskFails, AbandonCollector,
        StartHour, Merge, ValidateStandard, LateMerge, StandardTaskFails, WaiterTimesOut,
        ReadWeather, Lock, AttemptFails, AbandonAttempt, vars, scores
  <2> QED
    BY <1>1, <2>1, <2>2, BoundsAssumption DEF Inv, Types
<1> QED
  BY <1>1, Invariance, PTL DEF Spec, CurrentNeverGoesBack

\* A row that a refresh of all rows left on an older generation has a record in
\* the quarantine table: merge and records are one transaction.
THEOREM NothingSkipped ==
  ASSUME StandardOverruns = FALSE
  PROVE  Spec => []NoSilentSkip
<1>1. Inv => NoSilentSkip
  BY DEF Inv
<1> QED
  BY <1>1, Invariance, PTL

-----------------------------------------------------------------------------
(* Types and the weather table; nothing here depends on the Spark jobs. *)

Typed == TypeOK /\ (sTask # "idle" => hour > 0)

\* The types hold at the start.
LEMMA InitTyped == Init => Typed
<1> SUFFICES ASSUME Init PROVE Typed
  OBVIOUS
<1> USE BoundsAssumption
<1>1. NoProcess \in Process
  BY DEF NoProcess, Process
<1>2. (CHOOSE s \in Signatures : TRUE) \in Signatures
  BY NamesAssumption
<1>3. latest \in [Zones -> Observation]
  BY DEF Init, Observation
<1>4. att \in [Attempts -> Process]
  BY <1>1 DEF Init
<1>5. current \in [Rows -> [asOf : 0..MaxHour, sig : Signatures \cup {NoSignature}]]
  BY DEF Init
<1>6. /\ now \in 0..MaxTick /\ sky \in [Zones -> Signatures]
      /\ wTask \in {"idle", "collect", "upsert", "validate", "detect"} /\ wTry \in 1..Tries
      /\ fetched \in SUBSET Zones
      /\ late \in SUBSET [time : 0..MaxTick, zones : SUBSET Zones, sky : [Zones -> Signatures]]
  BY <1>2 DEF Init, Tries
<1>7. /\ hour \in 0..MaxHour /\ standard \in 0..MaxHour /\ overrun \in SUBSET (1..MaxHour)
      /\ sTask \in {"idle", "merge", "validate"} /\ sTry \in 1..StandardTries
      /\ sTask = "idle"
  BY DEF Init, StandardTries
<1>8. /\ queued \in SUBSET {"standard", "weather"}
      /\ events \in SUBSET {"standard", "weather"} /\ cTry \in 1..Tries
      /\ live \in Attempts \cup {NoAttempt}
      /\ quarantine \in SUBSET (Rows \X (1..MaxHour))
      /\ refreshed \in 0..MaxHour /\ mishaps \in Nat
  BY DEF Init, Tries
<1> QED
  BY <1>3, <1>4, <1>5, <1>6, <1>7, <1>8 DEF Typed, TypeOK

\* What an UPSERT leaves is observations again.
LEMMA UpsertedTyped ==
  ASSUME TypeOK, NEW zones, NEW weather \in [Zones -> Signatures],
         NEW time \in 0..MaxTick, NEW bad
  PROVE  Upserted(zones, weather, time, bad) \in [Zones -> Observation]
<1> SUFFICES ASSUME NEW z \in Zones
             PROVE  (IF z \in zones /\ latest[z].time <= time
                     THEN [time |-> time, sig |-> weather[z], sound |-> z \notin bad]
                     ELSE latest[z]) \in Observation
  BY DEF Upserted
<1>1. latest[z] \in Observation
  BY DEF TypeOK
<1>2. [time |-> time, sig |-> weather[z], sound |-> z \notin bad] \in Observation
  BY DEF Observation
<1> QED
  BY <1>1, <1>2

\* The weather DAG keeps the types.
LEMMA WeatherTyped ==
  ASSUME Typed,
         Tick \/ (\E zones \in SUBSET Zones : Fetch(zones))
           \/ (\E bad \in SUBSET fetched : Upsert(bad)) \/ Validate \/ Detect
           \/ WeatherTaskFails \/ AbandonCollector \/ (\E o \in late : LateUpsert(o))
  PROVE  Typed'
<1> USE BoundsAssumption DEF Typed, TypeOK
<1>1. UNCHANGED <<standardDag, currentRun, scores>>
  BY DEF Tick, Fetch, Upsert, Validate, Detect, WeatherTaskFails, AbandonCollector, LateUpsert
<1>2. now' \in 0..MaxTick /\ sky' \in [Zones -> Signatures]
  BY DEF Tick, Fetch, Upsert, Validate, Detect, WeatherTaskFails, AbandonCollector, LateUpsert
<1>3. latest' \in [Zones -> Observation]
  <2>1. CASE \E bad \in SUBSET fetched : Upsert(bad)
    <3>1. PICK bad \in SUBSET fetched : Upsert(bad)
      BY <2>1
    <3>2. sky \in [Zones -> Signatures] /\ now \in 0..MaxTick
      OBVIOUS
    <3> QED
      BY <3>1, <3>2, UpsertedTyped DEF Upsert
  <2>2. CASE \E o \in late : LateUpsert(o)
    <3>1. PICK o \in late : LateUpsert(o)
      BY <2>2
    <3>2. o.sky \in [Zones -> Signatures] /\ o.time \in 0..MaxTick
      OBVIOUS
    <3> QED
      BY <3>1, <3>2, UpsertedTyped DEF LateUpsert
  <2>3. CASE ~(\E bad \in SUBSET fetched : Upsert(bad)) /\ ~(\E o \in late : LateUpsert(o))
    BY <2>3 DEF Tick, Fetch, Validate, Detect, WeatherTaskFails, AbandonCollector
  <2> QED
    BY <2>1, <2>2, <2>3
<1>4. wTask' \in {"idle", "collect", "upsert", "validate", "detect"} /\ wTry' \in 1..Tries
  BY DEF Tick, Fetch, Upsert, Validate, Detect, WeatherTaskFails, AbandonCollector, LateUpsert,
         WeatherGoesTo, RetryWeather, Tries
<1>5. fetched' \in SUBSET Zones
  BY DEF Tick, Fetch, Upsert, Validate, Detect, WeatherTaskFails, AbandonCollector, LateUpsert
<1>6. late' \in SUBSET [time : 0..MaxTick, zones : SUBSET Zones, sky : [Zones -> Signatures]]
  <2>1. CASE AbandonCollector
    <3>1. [time |-> now, zones |-> fetched, sky |-> sky]
            \in [time : 0..MaxTick, zones : SUBSET Zones, sky : [Zones -> Signatures]]
      OBVIOUS
    <3> QED
      BY <2>1, <3>1 DEF AbandonCollector
  <2>2. CASE ~AbandonCollector
    BY <2>2 DEF Tick, Fetch, Upsert, Validate, Detect, WeatherTaskFails, LateUpsert
  <2> QED
    BY <2>1, <2>2
<1>7. queued' \in SUBSET {"standard", "weather"}
  BY DEF Tick, Fetch, Upsert, Validate, Detect, WeatherTaskFails, AbandonCollector, LateUpsert
<1>8. mishaps' \in Nat
  BY DEF Tick, Fetch, Upsert, Validate, Detect, WeatherTaskFails, AbandonCollector, LateUpsert,
         Mishap
<1> QED
  BY <1>1, <1>2, <1>3, <1>4, <1>5, <1>6, <1>7, <1>8 DEF standardDag, currentRun, scores

\* The standard DAG keeps the types.
LEMMA StandardTyped ==
  ASSUME Typed, StandardRun \/ StandardTaskFails \/ WaiterTimesOut
  PROVE  Typed'
<1> DEFINE Hours == /\ hour' \in 0..MaxHour /\ standard' \in 0..MaxHour
                    /\ overrun' \in SUBSET (1..MaxHour)
           Tasks == /\ sTask' \in {"idle", "merge", "validate"} /\ sTry' \in 1..StandardTries
                    /\ sTask' # "idle" => hour' > 0
           Others == queued' \in SUBSET {"standard", "weather"} /\ mishaps' \in Nat
<1>1. UNCHANGED <<weatherDag, currentRun, scores>>
  BY DEF StandardRun, StartHour, Merge, ValidateStandard, StandardTaskFails, WaiterTimesOut,
         LateMerge
<1>2. /\ hour \in 0..MaxHour /\ standard \in 0..MaxHour /\ overrun \in SUBSET (1..MaxHour)
      /\ sTask \in {"idle", "merge", "validate"} /\ sTry \in 1..StandardTries
      /\ sTask # "idle" => hour > 0
      /\ queued \in SUBSET {"standard", "weather"} /\ mishaps \in Nat
      /\ MaxHour \in Nat
  BY BoundsAssumption DEF Typed, TypeOK
<1>3. ASSUME StartHour PROVE Hours /\ Tasks /\ Others
  BY <1>2, <1>3 DEF StartHour, StandardTries
<1>4. ASSUME Merge PROVE Hours /\ Tasks /\ Others
  BY <1>2, <1>4 DEF Merge, StandardTries
<1>5. ASSUME ValidateStandard PROVE Hours /\ Tasks /\ Others
  BY <1>2, <1>5 DEF ValidateStandard, StandardTries
<1>6. ASSUME NEW h \in overrun, LateMerge(h) PROVE Hours /\ Tasks /\ Others
  BY <1>2, <1>6 DEF LateMerge
<1>7. ASSUME StandardTaskFails PROVE Hours /\ Tasks /\ Others
  <2>1. standard' \in {standard, hour} /\ UNCHANGED <<hour, overrun, queued>>
    BY <1>7 DEF StandardTaskFails
  <2>2. mishaps' \in Nat
    BY <1>2, <1>7 DEF StandardTaskFails, Mishap
  <2>3. Tasks
    BY <1>2, <1>7, <2>1 DEF StandardTaskFails, RetryStandard, StandardTries
  <2> QED
    BY <1>2, <2>1, <2>2, <2>3
<1>8. ASSUME WaiterTimesOut PROVE Hours /\ Tasks /\ Others
  <2>1. overrun' = overrun \cup {hour} /\ UNCHANGED <<hour, standard, queued>> /\ hour > 0
    BY <1>2, <1>8 DEF WaiterTimesOut
  <2>2. mishaps' \in Nat
    BY <1>2, <1>8 DEF WaiterTimesOut, Mishap
  <2>3. Tasks
    BY <1>2, <1>8, <2>1 DEF WaiterTimesOut, RetryStandard, StandardTries
  <2> QED
    BY <1>2, <2>1, <2>2, <2>3
<1>9. Hours /\ Tasks /\ Others
  BY <1>3, <1>4, <1>5, <1>6, <1>7, <1>8 DEF StandardRun
<1> QED
  BY <1>1, <1>9 DEF Typed, TypeOK, weatherDag, currentRun, scores

\* The attempts of the current run keep the types.
LEMMA RunTyped ==
  ASSUME Typed,
         StartRun
           \/ \E a \in Attempts : \/ Launch(a) \/ ReadWeather(a) \/ Lock(a)
                                  \/ (\E bad \in SUBSET Rows : Commit(a, bad))
                                  \/ AttemptFails(a) \/ AbandonAttempt(a)
  PROVE  /\ events' \in SUBSET {"standard", "weather"} /\ cTry' \in 1..Tries
         /\ live' \in Attempts \cup {NoAttempt}
<1> DEFINE Run == /\ events' \in SUBSET {"standard", "weather"} /\ cTry' \in 1..Tries
                  /\ live' \in Attempts \cup {NoAttempt}
<1>1. /\ events \in SUBSET {"standard", "weather"} /\ cTry \in 1..Tries
      /\ live \in Attempts \cup {NoAttempt} /\ queued \in SUBSET {"standard", "weather"}
  BY DEF Typed, TypeOK
<1>idle. 1 \in 1..Tries /\ {} \in SUBSET {"standard", "weather"}
  BY DEF Tries
<1>2. ASSUME NEW a \in Attempts, Succeed(a) PROVE Run
  <2>1. CASE live = a
    BY <1>idle, <1>2, <2>1 DEF Succeed
  <2>2. CASE live # a
    BY <1>1, <1>2, <2>2 DEF Succeed
  <2> QED
    BY <2>1, <2>2
<1>3. ASSUME RetryRun PROVE Run
  <2>1. live' = NoAttempt
    BY <1>3 DEF RetryRun
  <2>2. CASE cTry < Tries
    <3>1. cTry' = cTry + 1 /\ events' = events
      BY <1>3, <2>2 DEF RetryRun
    <3>2. cTry' \in 1..Tries
      BY <1>1, <2>2, <3>1 DEF Tries
    <3> QED
      BY <1>1, <2>1, <3>1, <3>2
  <2>3. CASE ~(cTry < Tries)
    BY <1>idle, <1>3, <2>1, <2>3 DEF RetryRun
  <2> QED
    BY <2>2, <2>3
<1>4. ASSUME NEW a \in Attempts, Fail(a) PROVE Run
  <2>1. CASE live = a
    BY <1>3, <1>4, <2>1 DEF Fail
  <2>2. CASE live # a
    BY <1>1, <1>4, <2>2 DEF Fail
  <2> QED
    BY <2>1, <2>2
<1>5. CASE StartRun
  BY <1>1, <1>5 DEF StartRun, Tries
<1>6. ASSUME NEW a \in Attempts, Launch(a) PROVE Run
  BY <1>1, <1>6 DEF Launch, Tries
<1>7. ASSUME NEW a \in Attempts, ReadWeather(a) \/ Lock(a) PROVE Run
  BY <1>1, <1>7 DEF ReadWeather, Lock
<1>8. ASSUME NEW a \in Attempts, NEW bad \in SUBSET Rows, Commit(a, bad) PROVE Run
  BY <1>2, <1>4, <1>8 DEF Commit
<1>9. ASSUME NEW a \in Attempts, AttemptFails(a) \/ AbandonAttempt(a) PROVE Run
  BY <1>3, <1>4, <1>9, <1>1 DEF AttemptFails, AbandonAttempt
<1> QED
  BY <1>5, <1>6, <1>7, <1>8, <1>9

\* So do its processes.
LEMMA ProcessesTyped ==
  ASSUME Typed,
         StartRun
           \/ \E a \in Attempts : \/ Launch(a) \/ ReadWeather(a) \/ Lock(a)
                                  \/ (\E bad \in SUBSET Rows : Commit(a, bad))
                                  \/ AttemptFails(a) \/ AbandonAttempt(a)
  PROVE  att' \in [Attempts -> Process]
<1> USE BoundsAssumption
<1>1. att \in [Attempts -> Process] /\ NoProcess \in Process
  BY DEF Typed, TypeOK, NoProcess, Process
<1>3. ASSUME NEW a \in Attempts, Launch(a) PROVE att' \in [Attempts -> Process]
  <2>1. Targets \in SUBSET Rows
    BY DEF Targets
  <2>2. [att[a] EXCEPT !.at = "read", !.rows = Targets] \in Process
    BY <1>1, <2>1 DEF Process
  <2>3. \/ att' = att
        \/ att' = [att EXCEPT ![a] = [att[a] EXCEPT !.at = "read", !.rows = Targets]]
    BY <1>1, <1>3 DEF Launch
  <2> QED
    BY <1>1, <2>2, <2>3
<1>4. ASSUME NEW a \in Attempts, ReadWeather(a) PROVE att' \in [Attempts -> Process]
  <2> DEFINE p == [att[a] EXCEPT !.at = "wait", !.seen = [z \in Zones |-> latest[z].sig]]
  <2>1. [z \in Zones |-> latest[z].sig] \in [Zones -> Signatures \cup {NoSignature}]
    BY DEF Typed, TypeOK, Observation
  <2>2. p \in Process
    BY <1>1, <2>1 DEF Process
  <2>3. att' = [att EXCEPT ![a] = p]
    BY <1>1, <1>4 DEF ReadWeather
  <2> QED
    BY <1>1, <2>2, <2>3
<1>5. ASSUME NEW a \in Attempts, Lock(a) PROVE att' \in [Attempts -> Process]
  <2> DEFINE p == [att[a] EXCEPT !.at = "score", !.asOf = standard]
  <2>1. p \in Process
    BY <1>1 DEF Typed, TypeOK, Process
  <2>2. att' = [att EXCEPT ![a] = p]
    BY <1>1, <1>5 DEF Lock
  <2> QED
    BY <1>1, <2>1, <2>2
<1>6. ASSUME NEW a \in Attempts, NEW bad \in SUBSET Rows, Commit(a, bad)
      PROVE  att' \in [Attempts -> Process]
  BY <1>1, <1>6 DEF Commit, Succeed, Fail
<1>7. ASSUME NEW a \in Attempts, AttemptFails(a) \/ AbandonAttempt(a)
      PROVE  att' \in [Attempts -> Process]
  BY <1>1, <1>7 DEF AttemptFails, AbandonAttempt, Fail
<1>8. CASE StartRun
  BY <1>1, <1>8 DEF StartRun
<1> QED
  BY <1>3, <1>4, <1>5, <1>6, <1>7, <1>8

\* The current run keeps all types.
LEMMA CurrentTyped ==
  ASSUME Typed,
         StartRun
           \/ \E a \in Attempts : \/ Launch(a) \/ ReadWeather(a) \/ Lock(a)
                                  \/ (\E bad \in SUBSET Rows : Commit(a, bad))
                                  \/ AttemptFails(a) \/ AbandonAttempt(a)
  PROVE  Typed'
<1> USE BoundsAssumption DEF Typed, TypeOK
<1>1. UNCHANGED <<weatherDag, standardDag>>
  BY DEF StartRun, Launch, ReadWeather, Lock, Commit, AttemptFails, AbandonAttempt
<1>2. queued' \in SUBSET {"standard", "weather"}
  BY DEF StartRun, Launch, ReadWeather, Lock, Commit, AttemptFails, AbandonAttempt
<1>3. mishaps' \in Nat
  <2>1. mishaps' = mishaps \/ mishaps' = mishaps + 1
    BY DEF StartRun, Launch, ReadWeather, Lock, Commit, AttemptFails, AbandonAttempt, Mishap
  <2> QED
    BY <2>1
<1>4. /\ events' \in SUBSET {"standard", "weather"} /\ cTry' \in 1..Tries
      /\ live' \in Attempts \cup {NoAttempt}
  BY RunTyped
<1>5. att' \in [Attempts -> Process]
  BY ProcessesTyped
<1>6. current' \in [Rows -> [asOf : 0..MaxHour, sig : Signatures \cup {NoSignature}]]
  <2>1. ASSUME NEW a \in Attempts, NEW bad \in SUBSET Rows, Commit(a, bad),
               ~Trips(bad, Scored(a))
        PROVE  current' \in [Rows -> [asOf : 0..MaxHour, sig : Signatures \cup {NoSignature}]]
    <3>1. att[a] \in Process /\ att[a].asOf \in 0..MaxHour
      BY DEF Process
    <3>2. \A r \in Rows : [asOf |-> att[a].asOf, sig |-> att[a].seen[ZoneOf[r]]]
                            \in [asOf : 0..MaxHour, sig : Signatures \cup {NoSignature}]
      BY <3>1, NetworkAssumption DEF Process
    <3>3. current' = [r \in Rows |->
               IF r \in Scored(a) \ bad
               THEN [asOf |-> att[a].asOf, sig |-> att[a].seen[ZoneOf[r]]]
               ELSE current[r]]
      BY <2>1 DEF Commit
    <3> QED
      BY <3>2, <3>3
  <2> QED
    BY <2>1 DEF StartRun, Launch, ReadWeather, Lock, Commit, AttemptFails, AbandonAttempt, scores
<1>7. quarantine' \in SUBSET (Rows \X (1..MaxHour)) /\ refreshed' \in 0..MaxHour
  <2>1. ASSUME NEW a \in Attempts, NEW bad \in SUBSET Rows, Commit(a, bad),
               ~Trips(bad, Scored(a))
        PROVE  quarantine' \in SUBSET (Rows \X (1..MaxHour)) /\ refreshed' \in 0..MaxHour
    <3>1. att[a].asOf \in 0..MaxHour
      BY DEF Process
    <3>2. bad # {} => att[a].asOf \in 1..MaxHour
      BY <2>1, <3>1 DEF Commit, Scored
    <3>3. (bad \X {att[a].asOf}) \in SUBSET (Rows \X (1..MaxHour))
      BY <3>2
    <3> QED
      BY <2>1, <3>1, <3>3 DEF Commit, Recorded
  <2> QED
    BY <2>1 DEF StartRun, Launch, ReadWeather, Lock, Commit, AttemptFails, AbandonAttempt, scores
<1> QED
  BY <1>1, <1>2, <1>3, <1>4, <1>5, <1>6, <1>7 DEF weatherDag, standardDag

\* Every step keeps the types.
LEMMA StepTyped == ASSUME Typed, [Next]_vars PROVE Typed'
<1>1. CASE UNCHANGED vars
  BY <1>1 DEF vars, Typed, TypeOK, weatherDag, standardDag, currentRun, scores
<1>2. CASE WeatherRun \/ (\E zones \in (SUBSET Zones) \ {Zones} : Fetch(zones))
             \/ (\E bad \in (SUBSET fetched) \ {{}} : Upsert(bad))
             \/ WeatherTaskFails \/ AbandonCollector
  BY <1>2, WeatherTyped DEF WeatherRun
<1>3. CASE StandardRun \/ StandardTaskFails \/ WaiterTimesOut
  BY <1>3, StandardTyped
<1>4. CASE StartRun \/ \E a \in Attempts :
             \/ Launch(a) \/ Attempt(a)
             \/ (\E bad \in (SUBSET Rows) \ {{}} : Commit(a, bad))
             \/ AttemptFails(a) \/ AbandonAttempt(a)
  <2>1. StartRun \/ \E a \in Attempts : \/ Launch(a) \/ ReadWeather(a) \/ Lock(a)
                                        \/ (\E bad \in SUBSET Rows : Commit(a, bad))
                                        \/ AttemptFails(a) \/ AbandonAttempt(a)
    BY <1>4 DEF Attempt
  <2> QED
    BY <2>1, CurrentTyped
<1> QED
  BY <1>1, <1>2, <1>3, <1>4 DEF Next, Mishaps

\* The tables, the three DAGs and their processes keep their types.
THEOREM TypeCorrect == Spec => []TypeOK
<1>1. Typed /\ [Next]_vars => Typed'
  BY StepTyped
<1>2. Typed => TypeOK
  BY DEF Typed
<1> QED
  BY <1>1, <1>2, InitTyped, PTL DEF Spec

\* However late a collector ends, no zone returns to weather of an earlier
\* target time: the UPSERT compares before it writes.
THEOREM WeatherAdvances == Spec => WeatherNeverGoesBack
<1>1. ASSUME Typed, [Next]_vars
      PROVE  [\A z \in Zones : latest'[z].time >= latest[z].time]_vars
  <2> USE BoundsAssumption
  <2>1. \A z \in Zones : latest[z] \in Observation /\ latest[z].time \in 0..MaxTick
    BY <1>1 DEF Typed, TypeOK, Observation
  <2>2. \/ latest' = latest
        \/ \E zones, weather, bad : \E time \in 0..MaxTick :
              latest' = Upserted(zones, weather, time, bad)
    <3>1. CASE \E bad \in SUBSET fetched : Upsert(bad)
      BY <1>1, <3>1 DEF Upsert, Typed, TypeOK
    <3>2. CASE \E o \in late : LateUpsert(o)
      BY <1>1, <3>2 DEF LateUpsert, Typed, TypeOK
    <3>3. CASE ~(\E bad \in SUBSET fetched : Upsert(bad)) /\ ~(\E o \in late : LateUpsert(o))
      BY <1>1, <3>3
      DEF Next, WeatherRun, StandardRun, StartRun, Launch, Attempt, Mishaps, Tick, Fetch,
          Validate, Detect, WeatherTaskFails, AbandonCollector, StartHour, Merge,
          ValidateStandard, LateMerge, StandardTaskFails, WaiterTimesOut, ReadWeather, Lock,
          Commit, AttemptFails, AbandonAttempt, vars, weatherDag
    <3> QED
      BY <3>1, <3>2, <3>3
  <2>3. ASSUME NEW zones, NEW weather, NEW bad, NEW time \in 0..MaxTick,
               latest' = Upserted(zones, weather, time, bad)
        PROVE  \A z \in Zones : latest'[z].time >= latest[z].time
    BY <2>1, <2>3 DEF Upserted
  <2> QED
    BY <2>1, <2>2, <2>3
<1>2. Typed /\ [Next]_vars => Typed'
  BY StepTyped
<1> QED
  BY <1>1, <1>2, InitTyped, PTL DEF Spec, WeatherNeverGoesBack

-----------------------------------------------------------------------------
(***************************************************************************)
(* What weather does to the scores.                                        *)
(***************************************************************************)
\* Kept numbers the places from 1 in their order: each place has a number, and
\* each number a place of its own.
LEMMA PlacesNumbered ==
  ASSUME NEW len \in Nat, NEW places, places \subseteq 1..len,
         NEW n \in 1..Cardinality(places)
  PROVE  \E i \in places : /\ Cardinality({j \in places : j <= i}) = n
                           /\ \A k \in places : Cardinality({j \in places : j <= k}) = n => k = i
<1> DEFINE Upto(i) == {j \in places : j <= i}
           f == [i \in places |-> Cardinality(Upto(i))]
           N == 1..Cardinality(places)
<1>0. IsFiniteSet(1..len)
  BY FS_Interval
<1>1. IsFiniteSet(places) /\ Cardinality(places) \in Nat
  BY <1>0, FS_Subset, FS_CardinalityType
<1>2. ASSUME NEW i \in places
      PROVE  IsFiniteSet(Upto(i)) /\ f[i] \in N
  <2>1. Upto(i) \subseteq places /\ i \in Upto(i)
    OBVIOUS
  <2>2. IsFiniteSet(Upto(i)) /\ Cardinality(Upto(i)) \in Nat
          /\ Cardinality(Upto(i)) <= Cardinality(places)
    BY <1>1, <2>1, FS_Subset, FS_CardinalityType
  <2>3. Cardinality(Upto(i)) # 0
    BY <2>1, <2>2, FS_EmptySet
  <2> QED
    BY <1>1, <2>2, <2>3
<1>3. ASSUME NEW i \in places, NEW k \in places, i < k
      PROVE  f[i] < f[k]
  <2>0. i \in Int /\ k \in Int /\ places \subseteq Int
    OBVIOUS
  <2>a. \A j \in places : j <= i => j <= k
    BY <1>3, <2>0
  <2>b. Upto(i) \subseteq Upto(k)
    BY <2>a
  <2>c. k <= k /\ ~(k <= i)
    BY <1>3, <2>0
  <2>1. Upto(i) \subseteq Upto(k) /\ k \in Upto(k) /\ k \notin Upto(i)
    BY <2>b, <2>c
  <2>2. Cardinality(Upto(i)) <= Cardinality(Upto(k)) /\ Cardinality(Upto(i)) # Cardinality(Upto(k))
    BY <1>2, <2>1, FS_Subset
  <2>3. Cardinality(Upto(i)) \in Nat /\ Cardinality(Upto(k)) \in Nat
    BY <1>2, FS_CardinalityType
  <2> QED
    BY <2>2, <2>3
<1>4. \A i, k \in places : f[i] = f[k] => i = k
  <2> SUFFICES ASSUME NEW i \in places, NEW k \in places, f[i] = f[k], i # k PROVE FALSE
    OBVIOUS
  <2>1. i < k \/ k < i
    OBVIOUS
  <2>2. f[i] \in Nat /\ f[k] \in Nat
    BY <1>1, <1>2
  <2>3. f[i] < f[k] \/ f[k] < f[i]
    BY <1>3, <2>1
  <2> QED
    BY <2>2, <2>3
<1>5. f \in Injection(places, N)
  BY <1>2, <1>4 DEF Injection, IsInjective
<1>6. IsFiniteSet(N) /\ Cardinality(N) = Cardinality(places)
  BY <1>1, FS_Interval
<1>7. f \in Surjection(places, N)
  BY <1>1, <1>5, <1>6, FS_Injection
<1>8. PICK i \in places : f[i] = n
  BY <1>7 DEF Surjection
<1> QED
  BY <1>4, <1>8

\* Kept is a sequence of the elements at those places, each once.
LEMMA KeptIs ==
  ASSUME NEW S, NEW sequence \in Seq(S), NEW places, places \subseteq DOMAIN sequence
  PROVE  LET count == Cardinality(places)
         IN /\ Kept(sequence, places) \in Seq(S)
            /\ Len(Kept(sequence, places)) = count
            /\ \E at \in [1..count -> places] :
                 /\ \A n \in 1..count : Kept(sequence, places)[n] = sequence[at[n]]
                 /\ \A n, m \in 1..count : at[n] = at[m] => n = m
                 /\ \A i \in places : \E n \in 1..count : at[n] = i
<1> DEFINE c == Cardinality(places)
           len == Len(sequence)
           Number(i) == Cardinality({j \in places : j <= i})
           at == [n \in 1..c |-> CHOOSE i \in places : Number(i) = n]
<1>1. len \in Nat /\ DOMAIN sequence = 1..len
  OBVIOUS
<1>0. IsFiniteSet(1..len)
  BY <1>1, FS_Interval
<1>2. IsFiniteSet(places) /\ c \in Nat
  BY <1>0, <1>1, FS_Subset, FS_CardinalityType
<1>3. ASSUME NEW n \in 1..c
      PROVE  /\ at[n] \in places /\ Number(at[n]) = n
             /\ \A k \in places : Number(k) = n => k = at[n]
  <2>1. PICK i \in places : /\ Cardinality({j \in places : j <= i}) = n
                            /\ \A k \in places : Cardinality({j \in places : j <= k}) = n => k = i
    BY <1>1, PlacesNumbered
  <2>2. Number(i) = n /\ \A k \in places : Number(k) = n => k = i
    BY <2>1
  <2> HIDE DEF Number
  <2>3. at[n] = i
    BY <2>2
  <2> QED
    BY <2>2, <2>3
<1>4. Kept(sequence, places) = [n \in 1..c |-> sequence[at[n]]]
  BY DEF Kept
<1>5. ASSUME NEW i \in places
      PROVE  Number(i) \in 1..c
  <2> DEFINE U == {j \in places : j <= i}
  <2>1. U \subseteq places /\ i \in U
    BY <1>1
  <2>2. IsFiniteSet(U) /\ Cardinality(U) \in Nat /\ Cardinality(U) <= c /\ Cardinality(U) # 0
    BY <1>2, <2>1, FS_Subset, FS_CardinalityType, FS_EmptySet
  <2> QED
    BY <1>2, <2>2
<1>6. at \in [1..c -> places]
  BY <1>3
<1> HIDE DEF at, Number
<1>7. \A n, m \in 1..c : at[n] = at[m] => n = m
  BY <1>3
<1>8. \A i \in places : \E n \in 1..c : at[n] = i
  BY <1>3, <1>5
<1>9. \A n \in 1..c : sequence[at[n]] \in S
  <2> SUFFICES ASSUME NEW n \in 1..c PROVE sequence[at[n]] \in S
    OBVIOUS
  <2>1. at[n] \in 1..len
    BY <1>1, <1>3
  <2> QED
    BY <2>1
<1>10. Kept(sequence, places) \in [1..c -> S]
  BY <1>4, <1>9
<1>11. Kept(sequence, places) \in Seq(S) /\ Len(Kept(sequence, places)) = c
  BY <1>2, <1>10
<1> QED
  BY <1>4, <1>6, <1>7, <1>8, <1>11

Names == {"ice", "low_visibility", "rain", "snow", "wind"}

LEMMA ConditionsAre ==
  /\ Conditions \in Seq(Names) /\ DOMAIN Conditions = 1..5
  /\ Range(Conditions) = Names
  /\ \A c \in Names : \E i \in 1..5 : Conditions[i] = c
<1>1. Conditions \in Seq(Names) /\ DOMAIN Conditions = 1..5
  BY DEF Conditions, Names
<1>2. \A c \in Names : \E i \in 1..5 : Conditions[i] = c
  BY DEF Conditions, Names
<1>3. \A i \in 1..5 : Conditions[i] \in Names
  BY DEF Conditions, Names
<1>4. Range(Conditions) = Names
  BY <1>1, <1>2, <1>3 DEF Range
<1> QED
  BY <1>1, <1>2, <1>4

\* Sorting neither loses nor invents a condition.
LEMMA SortedIs ==
  ASSUME NEW conditions \in SUBSET Names
  PROVE  /\ Range(Sorted(conditions)) = conditions
         /\ Sorted(conditions) \in Seq(Names)
<1> DEFINE places == {i \in DOMAIN Conditions : Conditions[i] \in conditions}
           sorted == Kept(Conditions, places)
           count == Cardinality(places)
<1>1. Sorted(conditions) = sorted
  BY DEF Sorted
<1>2. /\ sorted \in Seq(Names) /\ Len(sorted) = count
      /\ \A i \in places : \E n \in 1..count : sorted[n] = Conditions[i]
      /\ \A n \in 1..count : \E i \in places : sorted[n] = Conditions[i]
  <2>1. Conditions \in Seq(Names) /\ places \subseteq DOMAIN Conditions
    BY ConditionsAre
  <2> HIDE DEF places
  <2>2. /\ sorted \in Seq(Names) /\ Len(sorted) = count
        /\ \E at \in [1..count -> places] :
             /\ \A n \in 1..count : sorted[n] = Conditions[at[n]]
             /\ \A i \in places : \E n \in 1..count : at[n] = i
    BY <2>1, KeptIs
  <2> QED
    BY <2>2
<1> HIDE DEF sorted, count
<1>3. DOMAIN sorted = 1..count
  BY <1>2
<1>4. ASSUME NEW c \in conditions
      PROVE  \E n \in DOMAIN sorted : sorted[n] = c
  <2>1. PICK i \in 1..5 : Conditions[i] = c
    BY ConditionsAre
  <2>2. i \in places
    BY <2>1, ConditionsAre
  <2> QED
    BY <1>2, <1>3, <2>1, <2>2
<1>5. \A n \in DOMAIN sorted : sorted[n] \in conditions
  BY <1>2, <1>3
<1>6. Range(sorted) = conditions
  BY <1>4, <1>5 DEF Range
<1> QED
  BY <1>1, <1>2, <1>6

\* A signature is accepted and gives back its conditions.
LEMMA SignatureTells ==
  ASSUME NEW conditions \in SUBSET Names
  PROVE  LET signature == format_impact_signature(conditions)
         IN /\ Parsable(signature) /\ AcceptedSignature(signature)
            /\ parse_impact_signature(signature) = conditions
<1> DEFINE signature == format_impact_signature(conditions)
<1>1. signature.version = WEATHER_RULE_VERSION
  BY DEF format_impact_signature
<1>2. CASE conditions = {}
  <2>1. signature.body = <<"clear">>
    BY <1>2 DEF format_impact_signature
  <2> QED
    BY <1>1, <1>2, <2>1 DEF Parsable, AcceptedSignature, parse_impact_signature
<1>3. CASE conditions # {}
  <2> DEFINE body == Sorted(conditions)
  <2>1. signature.body = body
    BY <1>3 DEF format_impact_signature
  <2>2. Range(body) = conditions /\ body \in Seq(Names)
    BY SortedIs
  <2> HIDE DEF body, signature
  <2>3. body # << >> /\ body # <<"clear">>
    <3>1. "clear" \notin Names
      BY DEF Names
    <3>2. Range(<< >>) = {} /\ "clear" \in Range(<<"clear">>)
      BY DEF Range
    <3> QED
      BY <1>3, <2>2, <3>1, <3>2
  <2>4. Range(body) \subseteq Range(Conditions) /\ body = Sorted(Range(body))
    BY <2>2, ConditionsAre DEF body
  <2>5. Parsable(signature) /\ AcceptedSignature(signature)
    BY <1>1, <2>1, <2>3, <2>4 DEF Parsable, AcceptedSignature
  <2>6. parse_impact_signature(signature) = conditions
    BY <2>1, <2>2, <2>3 DEF parse_impact_signature
  <2> QED
    BY <2>5, <2>6 DEF signature
<1> QED
  BY <1>2, <1>3

-----------------------------------------------------------------------------
Value == Int \cup {NULL}
Reading ==
  [rain : Value, snow : Value, precipitation : Value, code : Value,
   temperature : Value, gust : Value, visibility : Value]
Fields == {"rain", "snow", "precipitation", "code", "temperature", "gust", "visibility"}

LEMMA PositiveTyped ==
  ASSUME NULL \notin Int, NEW v \in Value
  PROVE  /\ Positive(v) \in Nat /\ PerHour(v) \in Nat
         /\ Positive(NULL) = 0 /\ PerHour(NULL) = 0
         /\ PerHour(v) = 4 * Positive(v)
  BY DEF Positive, PerHour, Value

\* What each condition asks of a reading.
LEMMA Classified ==
  ASSUME NEW reading
  PROVE  /\ classify_weather(reading) \in SUBSET Names
         /\ "rain" \in classify_weather(reading) <=>
              PerHour(reading.rain) >= 5 \/ reading.code \in RainCodes
         /\ "snow" \in classify_weather(reading) <=>
              PerHour(reading.snow) >= 2 \/ reading.code \in SnowCodes
         /\ "ice" \in classify_weather(reading) <=>
              \/ reading.code \in FreezingCodes
              \/ /\ reading.temperature # NULL /\ reading.temperature <= 5
                 /\ PerHour(reading.rain) > 0 \/ PerHour(reading.precipitation) > 0
         /\ "wind" \in classify_weather(reading) <=> Positive(reading.gust) >= 15
         /\ "low_visibility" \in classify_weather(reading) <=>
              \/ reading.code \in FogCodes
              \/ reading.visibility # NULL /\ reading.visibility <= 1000
  BY DEF classify_weather, Names, Config, Freezing

\* A value that is missing takes conditions away only.
LEMMA MissingAddsNothing ==
  ASSUME NULL \notin Int, NEW reading \in Reading, NEW field \in Fields
  PROVE  classify_weather([reading EXCEPT ![field] = NULL]) \subseteq classify_weather(reading)
<1> DEFINE less == [reading EXCEPT ![field] = NULL]
<1>1. \A f \in Fields : less[f] = IF f = field THEN NULL ELSE reading[f]
  BY DEF Reading, Fields
<1>2. \A f \in Fields : reading[f] \in Value
  BY DEF Reading, Fields
<1>3. NULL \notin RainCodes \cup SnowCodes \cup FreezingCodes \cup FogCodes
  BY DEF RainCodes, SnowCodes, FreezingCodes, FogCodes
<1>4. /\ less.rain \in {NULL, reading.rain} /\ less.snow \in {NULL, reading.snow}
      /\ less.precipitation \in {NULL, reading.precipitation}
      /\ less.code \in {NULL, reading.code} /\ less.temperature \in {NULL, reading.temperature}
      /\ less.gust \in {NULL, reading.gust} /\ less.visibility \in {NULL, reading.visibility}
  BY <1>1 DEF Fields
<1>5. /\ PerHour(reading.rain) \in Nat /\ PerHour(reading.snow) \in Nat
      /\ PerHour(reading.precipitation) \in Nat /\ Positive(reading.gust) \in Nat
      /\ PerHour(NULL) = 0 /\ Positive(NULL) = 0
  BY <1>2, PositiveTyped DEF Fields
<1> HIDE DEF less
<1>6. /\ PerHour(less.rain) \in {0, PerHour(reading.rain)}
      /\ PerHour(less.snow) \in {0, PerHour(reading.snow)}
      /\ PerHour(less.precipitation) \in {0, PerHour(reading.precipitation)}
      /\ Positive(less.gust) \in {0, Positive(reading.gust)}
  BY <1>4, <1>5
<1> SUFFICES ASSUME NEW c \in Names, c \in classify_weather(less)
             PROVE  c \in classify_weather(reading)
  BY Classified DEF less
<1>7. CASE c = "rain"
  BY <1>3, <1>4, <1>5, <1>6, <1>7, Classified
<1>8. CASE c = "snow"
  BY <1>3, <1>4, <1>5, <1>6, <1>8, Classified
<1>9. CASE c = "ice"
  BY <1>3, <1>4, <1>5, <1>6, <1>9, Classified
<1>10. CASE c = "wind"
  BY <1>5, <1>6, <1>10, Classified
<1>11. CASE c = "low_visibility"
  BY <1>3, <1>4, <1>11, Classified
<1> QED
  BY <1>7, <1>8, <1>9, <1>10, <1>11 DEF Names

\* The state shown agrees with the conditions.
LEMMA StateAgrees ==
  ASSUME NULL \notin Int, NEW reading \in Reading
  PROVE  LET conditions == classify_weather(reading)
             state == classify_weather_state(reading)
         IN /\ "snow" \in conditions => state = "snow"
            /\ {"rain", "ice"} \cap conditions # {} => state \in {"snow", "rain"}
            /\ "low_visibility" \in conditions /\ reading.visibility # 1000
                 => state \in {"snow", "rain", "fog"}
            /\ "wind" \in conditions => state # "dry"
<1> DEFINE conditions == classify_weather(reading)
           state == classify_weather_state(reading)
<1>1. /\ reading.rain \in Value /\ reading.snow \in Value /\ reading.precipitation \in Value
      /\ reading.gust \in Value /\ reading.visibility \in Value /\ reading.temperature \in Value
  BY DEF Reading
<1>2. /\ Positive(reading.rain) \in Nat /\ PerHour(reading.rain) = 4 * Positive(reading.rain)
      /\ Positive(reading.snow) \in Nat /\ PerHour(reading.snow) = 4 * Positive(reading.snow)
      /\ Positive(reading.precipitation) \in Nat
      /\ PerHour(reading.precipitation) = 4 * Positive(reading.precipitation)
      /\ Positive(reading.gust) \in Nat
  BY <1>1, PositiveTyped
<1>3. FreezingCodes \subseteq RainCodes
  BY DEF FreezingCodes, RainCodes
<1>4. Positive(reading.snow) > 0 \/ reading.code \in SnowCodes => state = "snow"
  BY DEF classify_weather_state
<1>5. \/ Positive(reading.rain) > 0 \/ Positive(reading.precipitation) > 0
      \/ reading.code \in RainCodes
      => state \in {"snow", "rain"}
  BY DEF classify_weather_state
<1>6. \/ reading.code \in FogCodes
      \/ reading.visibility # NULL /\ reading.visibility < 1000
      => state \in {"snow", "rain", "fog"}
  BY DEF classify_weather_state
<1>7. Positive(reading.gust) >= 15 => state # "dry"
  BY DEF classify_weather_state
<1> HIDE DEF state
<1>8. "snow" \in conditions => state = "snow"
  BY <1>2, <1>4, Classified
<1>9. "rain" \in conditions \/ "ice" \in conditions => state \in {"snow", "rain"}
  BY <1>2, <1>3, <1>5, Classified
<1>10. "low_visibility" \in conditions /\ reading.visibility # 1000
         => state \in {"snow", "rain", "fog"}
  <2>1. reading.visibility # NULL /\ reading.visibility <= 1000 /\ reading.visibility # 1000
          => reading.visibility < 1000
    BY <1>1 DEF Value
  <2> QED
    BY <1>6, <2>1, Classified
<1>11. "wind" \in conditions => state # "dry"
  BY <1>7, Classified
<1> QED
  BY <1>8, <1>9, <1>10, <1>11 DEF state

\* Of any reading the rules read what is there, and no more.
LEMMA ReadingsRead == RulesReadWhatIsThere
<1>1. NULL \notin Int /\ Readings \subseteq Reading
  BY ReadingsAssumption DEF Reading, Value
<1> SUFFICES ASSUME NEW reading \in Readings
    PROVE LET conditions == classify_weather(reading)
              signature == format_impact_signature(conditions)
              state == classify_weather_state(reading)
          IN /\ Parsable(signature) /\ AcceptedSignature(signature)
             /\ parse_impact_signature(signature) = conditions
             /\ \A field \in DOMAIN reading :
                  classify_weather([reading EXCEPT ![field] = NULL]) \subseteq conditions
             /\ "snow" \in conditions => state = "snow"
             /\ {"rain", "ice"} \cap conditions # {} => state \in {"snow", "rain"}
             /\ "low_visibility" \in conditions /\ reading.visibility # 1000
                  => state \in {"snow", "rain", "fog"}
             /\ "wind" \in conditions => state # "dry"
  BY DEF RulesReadWhatIsThere
<1> DEFINE conditions == classify_weather(reading)
           signature == format_impact_signature(conditions)
           state == classify_weather_state(reading)
<1>2. reading \in Reading /\ DOMAIN reading = Fields
  BY <1>1 DEF Reading, Fields
<1>3. conditions \in SUBSET Names
  BY Classified
<1>4. /\ Parsable(signature) /\ AcceptedSignature(signature)
      /\ parse_impact_signature(signature) = conditions
  BY <1>3, SignatureTells
<1>5. \A field \in DOMAIN reading :
        classify_weather([reading EXCEPT ![field] = NULL]) \subseteq conditions
  BY <1>1, <1>2, MissingAddsNothing
<1>6. /\ "snow" \in conditions => state = "snow"
      /\ {"rain", "ice"} \cap conditions # {} => state \in {"snow", "rain"}
      /\ "low_visibility" \in conditions /\ reading.visibility # 1000
           => state \in {"snow", "rain", "fog"}
      /\ "wind" \in conditions => state # "dry"
  BY <1>1, <1>2, StateAgrees
<1> QED
  BY <1>4, <1>5, <1>6

-----------------------------------------------------------------------------
LEMMA GreatestIs ==
  ASSUME NEW S, NEW m \in S, S \subseteq Int, \A x \in S : x <= m
  PROVE  Max(S) = m
<1>1. \A x \in S : (\A y \in S : x >= y) <=> x = m
  OBVIOUS
<1>2. (CHOOSE x \in S : \A y \in S : x >= y) = m
  BY <1>1
<1> QED
  BY <1>2 DEF Max

LEMMA LeastIs ==
  ASSUME NEW S, NEW m \in S, S \subseteq Int, \A x \in S : m <= x
  PROVE  Min(S) = m
<1>1. \A x \in S : (\A y \in S : x =< y) <=> x = m
  OBVIOUS
<1>2. (CHOOSE x \in S : \A y \in S : x =< y) = m
  BY <1>1
<1> QED
  BY <1>2 DEF Min

\* What each direction loses.
LEMMA Lost ==
  ASSUME NEW c
  PROVE  /\ weather_deduction(c).vertical = IF "snow" \in c THEN 5 ELSE 0
         /\ weather_deduction(c).lateral = IF "wind" \in c THEN 6 ELSE 0
         /\ weather_deduction(c).final = IF "low_visibility" \in c THEN 4 ELSE 0
         /\ weather_deduction(c).longitudinal =
              IF "ice" \in c THEN 18 ELSE IF "snow" \in c THEN 10
              ELSE IF "rain" \in c THEN 6 ELSE 0
<1> DEFINE If(x, points) == IF x \in c THEN points ELSE 0
           S == {If("rain", 6), If("ice", 18), If("snow", 10)}
           worst == IF "ice" \in c THEN 18 ELSE IF "snow" \in c THEN 10
                    ELSE IF "rain" \in c THEN 6 ELSE 0
<1>1. worst \in S /\ S \subseteq Int /\ \A x \in S : x <= worst
  OBVIOUS
<1>2. Max(S) = worst
  <2> HIDE DEF S, worst
  <2> QED
    BY <1>1, GreatestIs
<1> QED
  BY <1>2 DEF weather_deduction, Config

Sides == {"vertical", "longitudinal", "lateral"}
Graded == [vertical : 0..100, longitudinal : 0..100, lateral : 0..100]

LEMMA LostTyped ==
  ASSUME NEW c
  PROVE  /\ \A d \in Sides : weather_deduction(c)[d] \in 0..18
         /\ weather_deduction(c).final \in 0..4
  BY Lost DEF Sides

\* More conditions take at least as much.
LEMMA MoreIsWorse ==
  ASSUME NEW c, NEW more, c \subseteq more
  PROVE  /\ \A d \in Sides : weather_deduction(c)[d] <= weather_deduction(more)[d]
         /\ weather_deduction(c).final <= weather_deduction(more).final
<1>1. \A x \in {"snow", "wind", "rain", "ice", "low_visibility"} : x \in c => x \in more
  OBVIOUS
<1> QED
  BY <1>1, Lost DEF Sides

\* Of several conditions one takes as much as all of them, and none more.
LEMMA OneIsWorst ==
  ASSUME NEW c \in SUBSET Names, c # {}, NEW d \in Sides
  PROVE  \E one \in c : weather_deduction({one})[d] = weather_deduction(c)[d]
<1>1. PICK any \in c : TRUE
  OBVIOUS
<1>2. any \in Names
  OBVIOUS
<1>3. CASE d = "vertical"
  BY <1>1, <1>2, <1>3, Lost DEF Names
<1>4. CASE d = "lateral"
  BY <1>1, <1>2, <1>4, Lost DEF Names
<1>5. CASE d = "longitudinal"
  BY <1>1, <1>2, <1>5, Lost DEF Names
<1> QED
  BY <1>3, <1>4, <1>5 DEF Sides

LEMMA ClampOrders ==
  ASSUME NEW x \in Int, NEW y \in Int, x <= y, NEW top \in Nat
  PROVE  Clamp(x, top) \in 0..Clamp(y, top) /\ Clamp(y, top) \in 0..top
  BY DEF Clamp

LEMMA Adjusted ==
  ASSUME NEW s \in Graded, NEW c
  PROVE  LET adjusted == adjust_comfort_scores(s, c)
             lost == weather_deduction(c)
         IN /\ \A d \in Sides : adjusted[d] = Clamp(s[d] - lost[d], 100)
            /\ \A d \in Sides : adjusted[d] \in 0..100
            /\ adjusted.comfort
                 = Clamp(5 * adjusted.vertical + 3 * adjusted.longitudinal
                           + 2 * adjusted.lateral - 10 * lost.final, 1000)
<1> DEFINE adjusted == adjust_comfort_scores(s, c)
           lost == weather_deduction(c)
<1>1. \A d \in Sides : adjusted[d] = Clamp(s[d] - lost[d], 100)
  BY DEF adjust_comfort_scores, Sides
<1>2. adjusted.comfort
        = Clamp(5 * adjusted.vertical + 3 * adjusted.longitudinal
                  + 2 * adjusted.lateral - 10 * lost.final, 1000)
  BY DEF adjust_comfort_scores, Config
<1>3. \A d \in Sides : s[d] \in 0..100 /\ lost[d] \in 0..18
  BY LostTyped DEF Sides, Graded
<1> HIDE DEF adjusted, lost
<1>4. ASSUME NEW d \in Sides PROVE adjusted[d] \in 0..100
  <2>1. PICK v \in 0..100, w \in 0..18 : s[d] = v /\ lost[d] = w
    BY <1>3
  <2>2. v - w \in Int /\ v - w <= v - w
    OBVIOUS
  <2>3. PICK top \in Nat : top = 100
    OBVIOUS
  <2>4. Clamp(v - w, top) \in 0..top
    BY <2>2, ClampOrders
  <2> QED
    BY <1>1, <2>1, <2>3, <2>4
<1> QED
  BY <1>1, <1>2, <1>4 DEF adjusted, lost

\* A direction that loses more ends no higher.
LEMMA SideOrders ==
  ASSUME NEW s \in Graded, NEW c, NEW more, NEW d \in Sides,
         weather_deduction(c)[d] <= weather_deduction(more)[d]
  PROVE  adjust_comfort_scores(s, more)[d] \in 0..adjust_comfort_scores(s, c)[d]
<1>1. PICK v \in 0..100 : v = s[d]
  BY DEF Sides, Graded
<1>2. PICK a \in 0..18, b \in 0..18 :
        a = weather_deduction(c)[d] /\ b = weather_deduction(more)[d]
  BY LostTyped
<1>3. /\ adjust_comfort_scores(s, c)[d] = Clamp(v - a, 100)
      /\ adjust_comfort_scores(s, more)[d] = Clamp(v - b, 100)
  BY <1>1, <1>2, Adjusted
<1>4. a <= b
  BY <1>2
<1>5. v - b \in Int /\ v - a \in Int /\ v - b <= v - a
  BY <1>4
<1>6. Clamp(v - b, 100) \in 0..Clamp(v - a, 100)
  BY <1>5, ClampOrders
<1> QED
  BY <1>3, <1>6

LEMMA ComfortOrders ==
  ASSUME NEW s \in Graded, NEW c, NEW more, c \subseteq more
  PROVE  adjust_comfort_scores(s, more).comfort \in 0..adjust_comfort_scores(s, c).comfort
<1> DEFINE low == adjust_comfort_scores(s, more)
           high == adjust_comfort_scores(s, c)
<1>0. high.vertical \in 0..100 /\ high.longitudinal \in 0..100 /\ high.lateral \in 0..100
  BY Adjusted DEF Sides
<1>1. PICK v \in 0..100, l \in 0..100, a \in 0..100 :
        v = high.vertical /\ l = high.longitudinal /\ a = high.lateral
  BY <1>0
<1>2. PICK w \in 0..v, m \in 0..l, b \in 0..a :
        w = low.vertical /\ m = low.longitudinal /\ b = low.lateral
  BY <1>1, MoreIsWorse, SideOrders DEF Sides
<1>3. PICK f \in 0..4, g \in 0..4 :
        f = weather_deduction(c).final /\ g = weather_deduction(more).final /\ f <= g
  BY LostTyped, MoreIsWorse
<1> DEFINE x == 5 * w + 3 * m + 2 * b - 10 * g
           y == 5 * v + 3 * l + 2 * a - 10 * f
<1>4. low.comfort = Clamp(x, 1000) /\ high.comfort = Clamp(y, 1000)
  BY <1>1, <1>2, <1>3, Adjusted
<1>5. x \in Int /\ y \in Int /\ x <= y
  BY <1>3
<1> HIDE DEF x, y
<1>6. Clamp(x, 1000) \in 0..Clamp(y, 1000)
  BY <1>5, ClampOrders
<1> QED
  BY <1>4, <1>6

LEMMA NothingIsLost ==
  ASSUME NEW s \in Graded
  PROVE  /\ \A d \in Sides : adjust_comfort_scores(s, {})[d] = s[d]
         /\ adjust_comfort_scores(s, {}).comfort
              = 5 * s.vertical + 3 * s.longitudinal + 2 * s.lateral
<1> DEFINE adjusted == adjust_comfort_scores(s, {})
           lost == weather_deduction({})
<1>1. lost.vertical = 0 /\ lost.longitudinal = 0 /\ lost.lateral = 0 /\ lost.final = 0
  BY Lost
<1>2. PICK v \in 0..100, l \in 0..100, a \in 0..100 :
        v = s.vertical /\ l = s.longitudinal /\ a = s.lateral
  BY DEF Graded
<1>3. Clamp(v - 0, 100) = v /\ Clamp(l - 0, 100) = l /\ Clamp(a - 0, 100) = a
  BY DEF Clamp
<1>4. adjusted.vertical = v /\ adjusted.longitudinal = l /\ adjusted.lateral = a
  BY <1>1, <1>2, <1>3, Adjusted DEF Sides
<1>5. adjusted.comfort = Clamp(5 * v + 3 * l + 2 * a - 10 * 0, 1000)
  BY <1>1, <1>4, Adjusted
<1>6. Clamp(5 * v + 3 * l + 2 * a - 10 * 0, 1000) = 5 * v + 3 * l + 2 * a
  BY DEF Clamp
<1> QED
  BY <1>2, <1>4, <1>5, <1>6 DEF Sides

LEMMA WorstCounts ==
  ASSUME NEW s \in Graded, NEW c \in SUBSET Names, c # {}, NEW d \in Sides
  PROVE  adjust_comfort_scores(s, c)[d] = Min({adjust_comfort_scores(s, {one})[d] : one \in c})
<1> DEFINE all == adjust_comfort_scores(s, c)[d]
           S == {adjust_comfort_scores(s, {one})[d] : one \in c}
<1>1. PICK one \in c : weather_deduction({one})[d] = weather_deduction(c)[d]
  BY OneIsWorst
<1>2. all = adjust_comfort_scores(s, {one})[d]
  BY <1>1, Adjusted
<1>3. all \in S
  BY <1>2
<1>4. ASSUME NEW x \in S
      PROVE  x \in Int /\ all <= x
  <2>1. PICK other \in c : x = adjust_comfort_scores(s, {other})[d]
    OBVIOUS
  <2>2. weather_deduction({other})[d] <= weather_deduction(c)[d]
    BY MoreIsWorse
  <2>3. all \in 0..x
    BY <2>1, <2>2, SideOrders
  <2>4. x \in 0..100
    BY <2>1, Adjusted
  <2> HIDE DEF all, S
  <2> QED
    BY <2>3, <2>4
<1>5. S \subseteq Int /\ \A x \in S : all <= x
  BY <1>4
<1> HIDE DEF all, S
<1>6. Min(S) = all
  BY <1>3, <1>5, LeastIs
<1> QED
  BY <1>6 DEF all, S

\* Conditions only take points away, none takes none, and the worst counts.
LEMMA OnlyTaken == RulesOnlyLower
<1> DEFINE All == SUBSET Range(Conditions)
           adjusted == [s \in Standard |-> [c \in All |-> adjust_comfort_scores(s, c)]]
<1>1. All = SUBSET Names
  BY ConditionsAre
<1>2. Standard \subseteq Graded
  BY ReadingsAssumption DEF Graded
<1>3. \A s \in Standard, c \in All : adjusted[s][c] = adjust_comfort_scores(s, c)
  OBVIOUS
<1>4. {} \in All /\ \A c \in All : \A one \in c : {one} \in All
  OBVIOUS
<1> SUFFICES ASSUME NEW s \in Standard
    PROVE  /\ \A d \in Sides : adjusted[s][{}][d] = s[d]
           /\ adjusted[s][{}].comfort = 5 * s.vertical + 3 * s.longitudinal + 2 * s.lateral
           /\ \A c, more \in All : c \subseteq more =>
                /\ adjusted[s][more].comfort \in 0..adjusted[s][c].comfort
                /\ \A d \in Sides : adjusted[s][more][d] \in 0..adjusted[s][c][d]
           /\ \A c \in All \ {{}}, d \in Sides :
                adjusted[s][c][d] = Min({adjusted[s][{one}][d] : one \in c})
  BY DEF RulesOnlyLower, Sides
<1> HIDE DEF All, adjusted
<1>5. /\ \A d \in Sides : adjusted[s][{}][d] = s[d]
      /\ adjusted[s][{}].comfort = 5 * s.vertical + 3 * s.longitudinal + 2 * s.lateral
  BY <1>2, <1>3, <1>4, NothingIsLost
<1>6. ASSUME NEW c \in All, NEW more \in All, c \subseteq more
      PROVE  /\ adjusted[s][more].comfort \in 0..adjusted[s][c].comfort
             /\ \A d \in Sides : adjusted[s][more][d] \in 0..adjusted[s][c][d]
  <2>1. s \in Graded
    BY <1>2
  <2>2. adjust_comfort_scores(s, more).comfort \in 0..adjust_comfort_scores(s, c).comfort
    BY <1>6, <2>1, ComfortOrders
  <2>3. \A d \in Sides :
          adjust_comfort_scores(s, more)[d] \in 0..adjust_comfort_scores(s, c)[d]
    BY <1>6, <2>1, MoreIsWorse, SideOrders
  <2> QED
    BY <1>3, <2>2, <2>3
<1>7. ASSUME NEW c \in All \ {{}}, NEW d \in Sides
      PROVE  adjusted[s][c][d] = Min({adjusted[s][{one}][d] : one \in c})
  <2>1. adjust_comfort_scores(s, c)[d] = Min({adjust_comfort_scores(s, {one})[d] : one \in c})
    BY <1>1, <1>2, WorstCounts
  <2>2. \A one \in c : adjusted[s][{one}][d] = adjust_comfort_scores(s, {one})[d]
    BY <1>3, <1>4
  <2>3. {adjusted[s][{one}][d] : one \in c} = {adjust_comfort_scores(s, {one})[d] : one \in c}
    BY <2>2
  <2> QED
    BY <1>3, <2>1, <2>3
<1> QED
  BY <1>5, <1>6, <1>7

\* For any readings and scores, of any of them, weather takes points away only,
\* and for what was observed (weather_rules.py, weather.py
\* classify_weather_state).
THEOREM RulesOnlyTake == Spec => []WeatherOnlyLowers
<1>1. WeatherOnlyLowers
  BY ReadingsRead, OnlyTaken DEF WeatherOnlyLowers
<1> QED
  BY <1>1, PTL

-----------------------------------------------------------------------------
\* Each region of the master is asked for once.
LEMMA RegionsDiffer ==
  ASSUME NEW master \in MasterTables
  PROVE  LET regions == load_weather_regions(master)
         IN /\ regions \in Seq(Int)
            /\ \A i, j \in 1..Len(regions) : regions[i] = regions[j] => i = j
<1> DEFINE Row == [id : Int, placed : BOOLEAN]
           places == {i \in DOMAIN master : master[i].placed}
           placed == Kept(master, places)
           count == Cardinality(places)
           regions == load_weather_regions(master)
<1>1. /\ master \in Seq(Row)
      /\ \A i, j \in DOMAIN master : master[i].id = master[j].id => i = j
  BY CollectionAssumption
<1>2. places \subseteq DOMAIN master
  OBVIOUS
<1>3. regions = [i \in DOMAIN placed |-> placed[i].id]
  BY DEF load_weather_regions
<1> HIDE DEF places, Row, regions
<1>4. /\ placed \in Seq(Row) /\ Len(placed) = count
      /\ \E at \in [1..count -> places] :
           /\ \A n \in 1..count : placed[n] = master[at[n]]
           /\ \A n, m \in 1..count : at[n] = at[m] => n = m
  BY <1>1, <1>2, KeptIs
<1> HIDE DEF placed, count
<1>5. DOMAIN placed = 1..count /\ count \in Nat
  BY <1>4
<1>6. PICK at \in [1..count -> places] :
        /\ \A n \in 1..count : placed[n] = master[at[n]]
        /\ \A n, m \in 1..count : at[n] = at[m] => n = m
  BY <1>4
<1>a. \A n \in 1..count : placed[n] \in Row
  BY <1>4, <1>5
<1>7. \A n \in 1..count : placed[n].id \in Int
  BY <1>a DEF Row
<1>8. regions \in [1..count -> Int]
  BY <1>3, <1>5, <1>7
<1>9. regions \in Seq(Int) /\ Len(regions) = count
  BY <1>5, <1>8
<1>10. ASSUME NEW i \in 1..count, NEW j \in 1..count, regions[i] = regions[j]
       PROVE  i = j
  <2>1. master[at[i]].id = master[at[j]].id
    BY <1>3, <1>5, <1>6, <1>10
  <2>2. at[i] \in DOMAIN master /\ at[j] \in DOMAIN master
    BY <1>2, <1>6
  <2> QED
    BY <1>1, <1>6, <2>1, <2>2
<1> QED
  BY <1>9, <1>10 DEF regions

LEMMA TimesOrders ==
  ASSUME NEW size \in Nat, NEW b \in Int, NEW c \in Int, b <= c
  PROVE  b * size <= c * size /\ b * size \in Int /\ c * size \in Int
<1>1. (c - b) \in Nat
  OBVIOUS
<1>2. (c - b) * size \in Nat
  BY <1>1
<1>3. (c - b) * size = c * size - b * size
  OBVIOUS
<1> QED
  BY <1>2, <1>3

\* The places of the batches, laid end to end, do not overlap.
LEMMA PlacesDiffer ==
  ASSUME NEW size \in Nat \ {0}, NEW b \in Int, NEW c \in Int,
         NEW i \in 1..size, NEW j \in 1..size,
         (b - 1) * size + i = (c - 1) * size + j
  PROVE  b = c /\ i = j
<1>1. ASSUME NEW x \in Int, NEW y \in Int, NEW k \in 1..size, NEW l \in 1..size, x < y
      PROVE  (x - 1) * size + k < (y - 1) * size + l
  <2>1. x * size <= (y - 1) * size /\ x * size \in Int /\ (y - 1) * size \in Int
    BY <1>1, TimesOrders
  <2>2. (x - 1) * size = x * size - size
    OBVIOUS
  <2> QED
    BY <2>1, <2>2
<1>2. (b - 1) * size + i \in Int /\ (c - 1) * size + j \in Int
  OBVIOUS
<1>3. ~(b < c) /\ ~(c < b)
  BY <1>1, <1>2
<1>4. b = c
  BY <1>3
<1> QED
  BY <1>4

\* The batches are the regions, laid end to end.
LEMMA BatchesAre ==
  ASSUME NEW regions \in Seq(Int), NEW b \in DOMAIN Batches(regions)
  PROVE  LET batch == Batches(regions)[b]
         IN /\ b \in Nat \ {0}
            /\ batch \in Seq(Int) /\ Len(batch) <= BatchSize
            /\ \A i \in 1..Len(batch) :
                 /\ (b - 1) * BatchSize + i \in 1..Len(regions)
                 /\ batch[i] = regions[(b - 1) * BatchSize + i]
<1> DEFINE len == Len(regions)
           count == (len + BatchSize - 1) \div BatchSize
           from == (b - 1) * BatchSize
           to == Min({b * BatchSize, len})
           batch == Batches(regions)[b]
<1>1. BatchSize \in Nat \ {0} /\ len \in Nat
  BY CollectionAssumption
<1>2. count \in Nat /\ count * BatchSize <= len + BatchSize - 1
  <2>0. len + BatchSize - 1 \in Nat
    <3>1. PICK l \in Nat, size \in Nat \ {0} : l = len /\ size = BatchSize
      BY <1>1
    <3>2. l + size - 1 \in Nat
      OBVIOUS
    <3> QED
      BY <3>1, <3>2
  <2>1. PICK total \in Nat, size \in Nat \ {0} : total = len + BatchSize - 1 /\ size = BatchSize
    BY <1>1, <2>0
  <2>2. total \div size \in Nat /\ (total \div size) * size <= total
    OBVIOUS
  <2> QED
    BY <2>1, <2>2
<1>3. b \in 1..count /\ batch = SubSeq(regions, from + 1, to)
  BY DEF Batches
<1>4. b * BatchSize <= count * BatchSize /\ b * BatchSize \in Int /\ count * BatchSize \in Int
  BY <1>1, <1>2, <1>3, TimesOrders
<1>5. from = b * BatchSize - BatchSize
  BY <1>1, <1>2, <1>3
<1>6. 0 * BatchSize <= (b - 1) * BatchSize /\ 0 * BatchSize = 0
  BY <1>1, <1>2, <1>3, TimesOrders
<1>7. from \in Nat /\ from < len
  BY <1>1, <1>2, <1>4, <1>5, <1>6
<1>8. to \in Int /\ to <= len /\ to <= b * BatchSize /\ to > from
  <2> DEFINE S == {b * BatchSize, len}
  <2>1. CASE b * BatchSize <= len
    <3>0. b * BatchSize \in S /\ S \subseteq Int /\ \A x \in S : b * BatchSize <= x
      BY <1>1, <1>4, <2>1
    <3>1. Min(S) = b * BatchSize
      <4> HIDE DEF S
      <4> QED
        BY <3>0, LeastIs
    <3> QED
      BY <1>1, <1>4, <1>5, <2>1, <3>1
  <2>2. CASE ~(b * BatchSize <= len)
    <3>0. len \in S /\ S \subseteq Int /\ \A x \in S : len <= x
      BY <1>1, <1>4, <2>2
    <3>1. Min(S) = len
      <4> HIDE DEF S, len
      <4> QED
        BY <3>0, LeastIs
    <3> QED
      BY <1>1, <1>4, <1>7, <2>2, <3>1
  <2> QED
    BY <2>1, <2>2
<1> HIDE DEF from, to, len, count, batch
<1>9. from + 1 \in 1..len /\ to \in 1..len
  BY <1>1, <1>7, <1>8
<1>10. /\ SubSeq(regions, from + 1, to) \in Seq(Int)
       /\ Len(SubSeq(regions, from + 1, to)) = to - from
       /\ \A i \in 1..(to - from) : SubSeq(regions, from + 1, to)[i] = regions[from + i]
  <2>1. PICK f \in 1..len, t \in 1..len : f = from + 1 /\ t = to
    BY <1>9
  <2>2. /\ SubSeq(regions, f, t) \in Seq(Int)
        /\ Len(SubSeq(regions, f, t)) = IF f <= t THEN t - f + 1 ELSE 0
        /\ \A i \in 1..(t - f + 1) : SubSeq(regions, f, t)[i] = regions[f + i - 1]
    BY DEF len
  <2>3. \A i \in 1..(to - from) : from + 1 + i - 1 = from + i
    BY <1>7
  <2>4. t - f + 1 = to - from /\ f <= t
    BY <1>7, <1>8, <2>1
  <2> QED
    BY <2>1, <2>2, <2>3, <2>4
<1>11. Len(batch) = to - from /\ batch \in Seq(Int)
  BY <1>3, <1>10
<1>12. Len(batch) <= BatchSize
  BY <1>1, <1>4, <1>5, <1>8, <1>11
<1>13. \A i \in 1..(to - from) : from + i \in 1..len
  BY <1>1, <1>7, <1>8
<1> QED
  BY <1>2, <1>3, <1>10, <1>11, <1>12, <1>13 DEF from, batch, len

\* An answer that is as long as its batch tells at each place what is observed
\* there, that it is missing, or that it is broken; no answer is longer.
LEMMA AnswersAre ==
  ASSUME NEW batch \in Seq(Int), NEW answer \in AnswersTo(batch),
         answer \notin {Limited, Unusable}
  PROVE  /\ Len(answer) <= Len(batch)
         /\ Len(answer) = Len(batch) =>
              /\ DOMAIN answer = 1..Len(batch)
              /\ \A i \in 1..Len(batch) : answer[i] \in {Sky[batch[i]], NULL, Broken}
<1> DEFINE full == [i \in DOMAIN batch |-> Sky[batch[i]]]
           len == Len(batch)
           Seen == {Sky[batch[i]] : i \in DOMAIN batch}
<1>1. len \in Nat /\ DOMAIN batch = 1..len
  OBVIOUS
<1>2. full \in [1..len -> Seen]
  BY <1>1
<1>3. full \in Seq(Seen) /\ Len(full) = len
  BY <1>1, <1>2
<1>4. /\ Len(full) = len /\ DOMAIN full = 1..len
      /\ \A k \in 1..len : full[k] \in {Sky[batch[k]], NULL, Broken}
  BY <1>1, <1>3
<1>5. ASSUME NEW i \in DOMAIN batch, NEW lost \in {NULL, Broken}, answer = [full EXCEPT ![i] = lost]
      PROVE  /\ Len(answer) = len /\ DOMAIN answer = 1..len
             /\ \A k \in 1..len : answer[k] \in {Sky[batch[k]], NULL, Broken}
  <2>1. answer \in [1..len -> Seen \cup {NULL, Broken}]
    BY <1>1, <1>2, <1>5
  <2>2. answer \in Seq(Seen \cup {NULL, Broken}) /\ Len(answer) = len
    BY <1>1, <2>1
  <2>3. \A k \in 1..len : answer[k] = IF k = i THEN lost ELSE Sky[batch[k]]
    BY <1>1, <1>5
  <2> QED
    BY <2>1, <2>2, <2>3
<1>6. ASSUME NEW i \in DOMAIN batch, answer = RemoveAt(full, i)
      PROVE  Len(answer) = len - 1
  <2> HIDE DEF full, Seen
  <2>1. i \in 1..len
    BY <1>1
  <2>2. /\ SubSeq(full, 1, i - 1) \in Seq(Seen) /\ Len(SubSeq(full, 1, i - 1)) = i - 1
    BY <1>1, <1>3, <2>1
  <2>3. /\ SubSeq(full, i + 1, len) \in Seq(Seen) /\ Len(SubSeq(full, i + 1, len)) = len - i
    BY <1>1, <1>3, <2>1
  <2>4. answer = SubSeq(full, 1, i - 1) \o SubSeq(full, i + 1, len)
    BY <1>3, <1>6 DEF RemoveAt
  <2>5. Len(answer) = (i - 1) + (len - i)
    BY <2>2, <2>3, <2>4
  <2> QED
    BY <1>1, <2>1, <2>5
<1>7. \/ answer = full
      \/ \E i \in DOMAIN batch, lost \in {NULL, Broken} : answer = [full EXCEPT ![i] = lost]
      \/ \E i \in DOMAIN batch : answer = RemoveAt(full, i)
  BY DEF AnswersTo
<1>8. CASE answer = full
  BY <1>1, <1>4, <1>8
<1>9. CASE \E i \in DOMAIN batch, lost \in {NULL, Broken} : answer = [full EXCEPT ![i] = lost]
  <2>1. /\ Len(answer) = len /\ DOMAIN answer = 1..len
        /\ \A k \in 1..len : answer[k] \in {Sky[batch[k]], NULL, Broken}
    BY <1>5, <1>9
  <2> QED
    BY <1>1, <2>1
<1>10. CASE \E i \in DOMAIN batch : answer = RemoveAt(full, i)
  <2>1. Len(answer) = len - 1
    BY <1>6, <1>10
  <2>2. Len(answer) <= len /\ Len(answer) # len
    <3> HIDE DEF len
    <3> QED
      BY <1>1, <2>1
  <2> QED
    BY <2>2
<1> QED
  BY <1>7, <1>8, <1>9, <1>10

\* The row of a zone, when its region is at place i of batch b.
LEMMA RowTells ==
  ASSUME NEW master \in MasterTables, NEW answers,
         \A b \in DOMAIN Batches(load_weather_regions(master)) :
           answers[b] \in AnswersTo(Batches(load_weather_regions(master))[b]),
         ~Raises(Batches(load_weather_regions(master)), answers),
         NEW b \in DOMAIN Batches(load_weather_regions(master)),
         NEW i \in DOMAIN Batches(load_weather_regions(master))[b],
         NEW z \in DOMAIN zone_regions,
         zone_regions[z] = Batches(load_weather_regions(master))[b][i]
  PROVE  LET batches == Batches(load_weather_regions(master))
             rows == snapshot_rows(fetch_open_meteo(batches, answers))
         IN IF rows[z].status = "success"
            THEN rows[z].reading = Sky[batches[b][i]]
            ELSE \/ answers[b] \in {Limited, Unusable}
                 \/ Len(answers[b]) < Len(batches[b])
                 \/ answers[b][i] = NULL
                 \/ \E c \in 1..(b - 1) : answers[c] = Limited
<1> DEFINE regions == load_weather_regions(master)
           batches == Batches(regions)
           F == Found(batches, answers)
           r == batches[b][i]
           readings == fetch_open_meteo(batches, answers)
           rows == snapshot_rows(readings)
           here == <<b, i>>
<1>1. /\ regions \in Seq(Int)
      /\ \A k, l \in 1..Len(regions) : regions[k] = regions[l] => k = l
  BY RegionsDiffer
<1>2. ASSUME NEW c \in DOMAIN batches
      PROVE  /\ c \in Nat \ {0}
             /\ batches[c] \in Seq(Int) /\ Len(batches[c]) <= BatchSize
             /\ DOMAIN batches[c] = 1..Len(batches[c])
             /\ \A k \in 1..Len(batches[c]) :
                  /\ (c - 1) * BatchSize + k \in 1..Len(regions)
                  /\ batches[c][k] = regions[(c - 1) * BatchSize + k]
  <2> HIDE DEF regions
  <2> QED
    BY <1>1, BatchesAre
<1> HIDE DEF batches, regions
<1>3. BatchSize \in Nat \ {0}
  BY CollectionAssumption
<1>4. i \in 1..BatchSize /\ i \in 1..Len(batches[b])
  BY <1>2, <1>3 DEF batches, regions
<1>5. ASSUME NEW p \in F, batches[p[1]][p[2]] = r
      PROVE  p = here
  <2>1. PICK c \in DOMAIN batches, k \in 1..BatchSize : p = <<c, k>> /\ k \in DOMAIN batches[c]
    BY <1>5 DEF Found
  <2>2. k \in 1..Len(batches[c]) /\ batches[c][k] = r
    BY <1>2, <1>5, <2>1
  <2>a. b \in DOMAIN batches /\ batches[b][i] = r
    BY DEF batches, regions
  <2>b. /\ (c - 1) * BatchSize + k \in 1..Len(regions)
        /\ r = regions[(c - 1) * BatchSize + k]
    BY <1>2, <2>2
  <2>c. /\ (b - 1) * BatchSize + i \in 1..Len(regions)
        /\ r = regions[(b - 1) * BatchSize + i]
    BY <1>2, <1>4, <2>a
  <2>d. \A x, y \in 1..Len(regions) : regions[x] = regions[y] => x = y
    BY <1>1 DEF regions
  <2>3. (c - 1) * BatchSize + k = (b - 1) * BatchSize + i
    BY <2>b, <2>c, <2>d
  <2>4. c \in Int /\ b \in Int
    BY <1>2 DEF batches, regions
  <2>5. c = b /\ k = i
    BY <1>3, <1>4, <2>3, <2>4, PlacesDiffer
  <2> QED
    BY <2>1, <2>5
<1>6. DOMAIN readings = {batches[p[1]][p[2]] : p \in F}
  BY DEF fetch_open_meteo
<1>7. ASSUME NEW c \in DOMAIN batches, answers[c] \notin {Limited, Unusable}
      PROVE  /\ Len(answers[c]) <= Len(batches[c])
             /\ Len(answers[c]) = Len(batches[c]) =>
                  /\ DOMAIN answers[c] = 1..Len(batches[c])
                  /\ \A k \in 1..Len(batches[c]) : answers[c][k] \in {Sky[batches[c][k]], NULL, Broken}
  <2>1. batches[c] \in Seq(Int) /\ answers[c] \in AnswersTo(batches[c])
    BY <1>2 DEF batches, regions
  <2> QED
    BY <1>7, <2>1, AnswersAre
<1>8. zone_regions[z] = r /\ b \in DOMAIN batches
  BY DEF batches, regions
<1>9. CASE here \in F
  <2>1. r \in DOMAIN readings
    BY <1>6, <1>9
  <2>2. (CHOOSE p \in F : batches[p[1]][p[2]] = r) = here
    BY <1>5, <1>9
  <2>a. readings[r] = answers[(CHOOSE p \in F : batches[p[1]][p[2]] = r)[1]]
                            [(CHOOSE p \in F : batches[p[1]][p[2]] = r)[2]]
    <3>1. readings = [q \in {batches[p[1]][p[2]] : p \in F} |->
                        answers[(CHOOSE p \in F : batches[p[1]][p[2]] = q)[1]]
                               [(CHOOSE p \in F : batches[p[1]][p[2]] = q)[2]]]
      BY DEF fetch_open_meteo
    <3> HIDE DEF F, r, readings
    <3> QED
      BY <1>6, <2>1, <3>1
  <2>b. here[1] = b /\ here[2] = i
    OBVIOUS
  <2>3. readings[r] = answers[b][i]
    <3> HIDE DEF F, r, readings, here
    <3> QED
      BY <2>2, <2>a, <2>b
  <2>4. rows[z].status = "success" /\ rows[z].reading = answers[b][i]
    <3> HIDE DEF readings
    <3> QED
      BY <1>8, <2>1, <2>3 DEF snapshot_rows
  <2>5. /\ b \in Usable(batches, answers) /\ answers[b][i] # NULL /\ i \in DOMAIN answers[b]
        /\ Matches(answers[b], batches[b])
    BY <1>9 DEF Found, Usable
  <2>6. Broken \notin Range(answers[b])
    BY <2>5 DEF Raises, batches, regions
  <2>7. answers[b][i] # Broken
    BY <2>5, <2>6 DEF Range
  <2>8. answers[b][i] \in {Sky[batches[b][i]], NULL, Broken}
    BY <1>4, <1>7, <1>8, <2>5 DEF Matches
  <2>9. answers[b][i] = Sky[batches[b][i]]
    BY <2>5, <2>7, <2>8
  <2> QED
    BY <2>4, <2>9 DEF batches, regions
<1>10. CASE here \notin F
  <2>1. r \notin DOMAIN readings
    BY <1>5, <1>6, <1>10
  <2>2. rows[z].status = "failed"
    <3> HIDE DEF readings
    <3> QED
      BY <1>8, <2>1 DEF snapshot_rows
  <2>3. CASE b \in Usable(batches, answers)
    <3>1. Matches(answers[b], batches[b])
      BY <2>3 DEF Usable
    <3>2. DOMAIN answers[b] = 1..Len(batches[b])
      BY <1>7, <1>8, <3>1 DEF Matches
    <3>3. i \in DOMAIN answers[b] /\ i \in DOMAIN batches[b]
      BY <1>2, <1>4, <1>8, <3>2
    <3>4. answers[b][i] = NULL
      BY <1>4, <1>8, <1>10, <2>3, <3>3 DEF Found
    <3> QED
      BY <2>2, <3>4 DEF batches, regions
  <2>4. CASE b \notin Requested(batches, answers)
    <3>1. \E c \in 1..(b - 1) : answers[c] = Limited
      BY <1>8, <2>4 DEF Requested
    <3> QED
      BY <2>2, <3>1 DEF batches, regions
  <2>5. CASE ~Matches(answers[b], batches[b])
    <3>1. \/ answers[b] \in {Limited, Unusable}
          \/ answers[b] \notin {Limited, Unusable} /\ Len(answers[b]) # Len(batches[b])
      BY <2>5 DEF Matches
    <3>2. ASSUME answers[b] \notin {Limited, Unusable}, Len(answers[b]) # Len(batches[b])
          PROVE  Len(answers[b]) < Len(batches[b])
      BY <1>7, <1>8, <3>2
    <3> QED
      BY <2>2, <3>1, <3>2 DEF batches, regions
  <2> QED
    BY <2>3, <2>4, <2>5 DEF Usable
<1> QED
  BY <1>9, <1>10

\* Whatever the batches are answered with, the row of a zone shows what was
\* observed at its region, and fails for a reason of its own
\* (weather.py fetch_open_meteo, run_latest_zone_weather_job).
LEMMA RowsShowTheirRegion == RowsOfEveryAnswer
<1> SUFFICES ASSUME NEW master \in MasterTables PROVE RowsTellTheSky(master)
  BY DEF RowsOfEveryAnswer
<1> DEFINE batches == Batches(load_weather_regions(master))
<1> SUFFICES ASSUME NEW a \in [DOMAIN batches -> UNION {AnswersTo(batches[b]) : b \in DOMAIN batches}],
                    \A b \in DOMAIN batches : a[b] \in AnswersTo(batches[b]),
                    ~Raises(batches, a),
                    NEW b \in DOMAIN batches, NEW i \in DOMAIN batches[b],
                    NEW z \in DOMAIN zone_regions, zone_regions[z] = batches[b][i]
             PROVE  LET rows == snapshot_rows(fetch_open_meteo(batches, a))
                    IN IF rows[z].status = "success"
                       THEN rows[z].reading = Sky[batches[b][i]]
                       ELSE \/ a[b] \in {Limited, Unusable}
                            \/ Len(a[b]) < Len(batches[b])
                            \/ a[b][i] = NULL
                            \/ \E c \in 1..(b - 1) : a[c] = Limited
  BY DEF RowsTellTheSky
<1> QED
  BY RowTells

-----------------------------------------------------------------------------
(***************************************************************************)
(* The regions the zones are merged into.                                  *)
(***************************************************************************)
LEMMA SmallestIn ==
  ASSUME NEW T, T \subseteq Nat, T # {}
  PROVE  Min(T) \in T /\ \A y \in T : Min(T) <= y
<1>1. PICK x \in T : \A y \in T : ~ (<<y, x>> \in WF!OpToRel(<, Nat))
  BY WF!NatLessThanWellFounded, WF!WFMin
<1>2. \A y \in T : ~(y < x)
  BY <1>1 DEF WF!OpToRel
<1>3. \A y \in T : x <= y
  BY <1>2
<1> QED
  BY <1>3 DEF Min

\* The least of some keys is one of them.
LEMMA LeastIn ==
  ASSUME NEW keys, keys \subseteq Nat, keys # {},
         NEW size, \A k \in keys : size[k] \in Nat
  PROVE  Least(keys, size) \in keys
<1> DEFINE sizes == {size[k] : k \in keys}
           small == {k \in keys : size[k] = Min(sizes)}
           best == Min(small)
<1>1. sizes \subseteq Nat /\ sizes # {}
  OBVIOUS
<1>2. Min(sizes) \in sizes /\ \A y \in sizes : Min(sizes) <= y
  BY <1>1, SmallestIn
<1>3. small \subseteq Nat /\ small # {}
  BY <1>2
<1>4. best \in small /\ \A y \in small : best <= y
  BY <1>3, SmallestIn
<1>5. \A l \in keys \ {best} : size[best] < size[l] \/ (size[best] = size[l] /\ best < l)
  <2> SUFFICES ASSUME NEW l \in keys \ {best}
      PROVE size[best] < size[l] \/ (size[best] = size[l] /\ best < l)
    OBVIOUS
  <2>1. best \in keys /\ size[best] = Min(sizes)
    BY <1>4
  <2>2. size[best] <= size[l] /\ size[best] \in Nat /\ size[l] \in Nat
    BY <1>2, <2>1
  <2>3. CASE size[best] = size[l]
    <3>1. l \in small
      BY <2>1, <2>3
    <3>2. best <= l /\ best \in Nat /\ l \in Nat /\ best # l
      BY <3>1, <2>1, <1>4
    <3> QED
      BY <2>3, <3>2
  <2> QED
    BY <2>2, <2>3
<1>6. best \in keys
  BY <1>4
<1> HIDE DEF best
<1> QED
  BY <1>5, <1>6 DEF Least

-----------------------------------------------------------------------------
(***************************************************************************)
(* The map a state of the loop stands for: the regions divide the zones,   *)
(* neighbours are the regions that touch, and each region is one piece of  *)
(* the map with whole islands.                                             *)
(***************************************************************************)
Linked(zones, others) == \E z \in zones, y \in others : Touch(z, y)
InOnePiece(region) ==
  \E piece \in SUBSET region : Connected(piece) /\ Islands(region \ piece)

Divides(members) ==
  /\ DOMAIN members \subseteq SpatialZones
  /\ \A k \in DOMAIN members : k \in members[k] /\ members[k] \subseteq SpatialZones
  /\ \A z \in SpatialZones : \E k \in DOMAIN members : z \in members[k]
  /\ \A k, l \in DOMAIN members : k # l => members[k] \cap members[l] = {}
Neighbouring(members, neighbours) ==
  /\ DOMAIN neighbours = DOMAIN members
  /\ \A k \in DOMAIN members :
       neighbours[k] = {l \in DOMAIN members \ {k} : Linked(members[k], members[l])}
Mapped(state) ==
  /\ Divides(state.members)
  /\ Neighbouring(state.members, state.neighbours)
  /\ \A k \in DOMAIN state.members : InOnePiece(state.members[k])

LEMMA TouchSymmetric == \A z, y : Touch(z, y) <=> Touch(y, z)
  BY DEF Touch

\* Two pieces that touch are one piece.
LEMMA PiecesJoin ==
  ASSUME NEW P, NEW Q, Connected(P), Connected(Q), Linked(P, Q)
  PROVE  Connected(P \cup Q)
<1> SUFFICES ASSUME NEW some \in SUBSET (P \cup Q), some # {}, some # P \cup Q
             PROVE  \E z \in some, y \in (P \cup Q) \ some : Touch(z, y)
  BY DEF Connected
<1>1. CASE some \cap P \notin {{}, P}
  <2>1. \E z \in some \cap P, y \in P \ (some \cap P) : Touch(z, y)
    BY <1>1 DEF Connected
  <2> QED
    BY <2>1
<1>2. CASE some \cap Q \notin {{}, Q}
  <2>1. \E z \in some \cap Q, y \in Q \ (some \cap Q) : Touch(z, y)
    BY <1>2 DEF Connected
  <2> QED
    BY <2>1
<1>3. CASE some \cap P \in {{}, P} /\ some \cap Q \in {{}, Q}
  <2>1. PICK z \in P, y \in Q : Touch(z, y)
    BY DEF Linked
  <2>2. (some \cap P = P /\ some \cap Q = {}) \/ (some \cap P = {} /\ some \cap Q = Q)
    <3>1. ~(some \cap P = {} /\ some \cap Q = {})
      OBVIOUS
    <3>2. ~(some \cap P = P /\ some \cap Q = Q)
      OBVIOUS
    <3> QED
      BY <1>3, <3>1, <3>2
  <2>3. CASE some \cap P = P /\ some \cap Q = {}
    <3>1. z \in some /\ y \in (P \cup Q) \ some
      BY <2>3
    <3> QED
      BY <2>1, <3>1
  <2>4. CASE some \cap P = {} /\ some \cap Q = Q
    <3>1. y \in some /\ z \in (P \cup Q) \ some /\ Touch(y, z)
      BY <2>1, <2>4, TouchSymmetric
    <3> QED
      BY <3>1
  <2> QED
    BY <2>2, <2>3, <2>4
<1> QED
  BY <1>1, <1>2, <1>3

\* A region that takes one it touches is in one piece: what touches belongs
\* to the pieces of both.
LEMMA TouchingRegionsJoin ==
  ASSUME NEW A, A \subseteq SpatialZones, InOnePiece(A),
         NEW B, B \subseteq SpatialZones, InOnePiece(B),
         A \cap B = {}, Linked(A, B)
  PROVE  InOnePiece(A \cup B)
<1>1. PICK P \in SUBSET A : Connected(P) /\ Islands(A \ P)
  BY DEF InOnePiece
<1>2. PICK Q \in SUBSET B : Connected(Q) /\ Islands(B \ Q)
  BY DEF InOnePiece
<1>3. PICK z \in A, y \in B : Touch(z, y)
  BY DEF Linked
<1>4. z \in P
  BY <1>1, <1>3 DEF Islands
<1>5. y \in Q
  BY <1>2, <1>3, TouchSymmetric DEF Islands
<1>6. Linked(P, Q)
  BY <1>3, <1>4, <1>5 DEF Linked
<1>7. Connected(P \cup Q)
  BY <1>1, <1>2, <1>6, PiecesJoin
<1>8. Islands((A \cup B) \ (P \cup Q))
  BY <1>1, <1>2 DEF Islands
<1>9. P \cup Q \in SUBSET (A \cup B)
  OBVIOUS
<1> QED
  BY <1>7, <1>8, <1>9 DEF InOnePiece

\* A region that takes whole islands stays in one piece.
LEMMA IslandsJoin ==
  ASSUME NEW A, A \subseteq SpatialZones, InOnePiece(A),
         NEW B, B \subseteq SpatialZones, A \cap B = {}, Islands(B)
  PROVE  InOnePiece(A \cup B)
<1>1. PICK P \in SUBSET A : Connected(P) /\ Islands(A \ P)
  BY DEF InOnePiece
<1>2. (A \cup B) \ P = (A \ P) \cup B
  OBVIOUS
<1>3. Islands((A \cup B) \ P)
  BY <1>1, <1>2 DEF Islands
<1> QED
  BY <1>1, <1>3 DEF InOnePiece

-----------------------------------------------------------------------------
(***************************************************************************)
(* A turn of the loop.                                                     *)
(***************************************************************************)
\* The areas and the distances are numbers, so the region that is absorbed and
\* the one that absorbs it are two of those there are; the second touches the
\* first, or the first touches none.
LEMMA SourceIs ==
  ASSUME NEW members, Divides(members), DOMAIN members # {}
  PROVE  Least(DOMAIN members, [k \in DOMAIN members |-> Area[members[k]]]) \in DOMAIN members
<1> DEFINE size == [k \in DOMAIN members |-> Area[members[k]]]
<1>1. DOMAIN members \subseteq Nat
  BY RegionsAssumption DEF Divides, SpatialZones
<1>2. \A k \in DOMAIN members : size[k] \in Nat
  BY RegionsAssumption DEF Divides
<1> HIDE DEF size
<1>3. Least(DOMAIN members, size) \in DOMAIN members
  BY <1>1, <1>2, LeastIn
<1> QED
  BY <1>3 DEF size

LEMMA TargetIs ==
  ASSUME NEW members, Divides(members), NEW neighbours, Neighbouring(members, neighbours),
         NEW source \in DOMAIN members, DOMAIN members \ {source} # {}
  PROVE  LET target == MergeTarget(source, members, neighbours)
         IN /\ target \in DOMAIN members \ {source}
            /\ target \in neighbours[source] \/ neighbours[source] = {}
<1> DEFINE candidates == neighbours[source] \cap DOMAIN members
           others == DOMAIN members \ {source}
           areas == [k \in candidates |-> Area[members[k]]]
           distances == [k \in DOMAIN members |-> Distance(members[source], members[k])]
<1>1. DOMAIN members \subseteq Nat
  BY RegionsAssumption DEF Divides, SpatialZones
<1>2. candidates = neighbours[source] /\ candidates \subseteq others
  BY DEF Neighbouring
<1>3. CASE candidates # {}
  <2>1. \A k \in candidates : areas[k] \in Nat
    BY RegionsAssumption DEF Divides
  <2>2. candidates \subseteq Nat
    BY <1>1
  <2>3. MergeTarget(source, members, neighbours) = Least(candidates, areas)
    BY <1>3 DEF MergeTarget
  <2> HIDE DEF candidates, areas
  <2>4. Least(candidates, areas) \in candidates
    BY <1>3, <2>1, <2>2, LeastIn
  <2> QED
    BY <1>2, <2>3, <2>4
<1>4. CASE candidates = {}
  <2>1. ASSUME NEW k \in others PROVE distances[k] \in Nat
    <3> DEFINE far == {Far[p] : p \in members[source] \X members[k]}
    <3>0. /\ source \in members[source] /\ k \in members[k]
          /\ members[source] \subseteq SpatialZones /\ members[k] \subseteq SpatialZones
      BY DEF Divides
    <3>1. far \subseteq Nat
      BY <3>0, RegionsAssumption
    <3>2. far # {}
      <4>1. <<source, k>> \in members[source] \X members[k]
        BY <3>0
      <4>2. Far[<<source, k>>] \in far
        BY <4>1
      <4> QED
        BY <4>2
    <3> HIDE DEF far
    <3>3. Min(far) \in Nat
      BY <3>1, <3>2, SmallestIn
    <3> QED
      BY <3>3 DEF Distance, far
  <2>2. others \subseteq Nat
    BY <1>1
  <2>3. MergeTarget(source, members, neighbours) = Least(others, distances)
    BY <1>4 DEF MergeTarget
  <2>4. others # {}
    OBVIOUS
  <2> HIDE DEF others, distances
  <2>5. Least(others, distances) \in others
    BY <2>1, <2>2, <2>4, LeastIn
  <2> QED
    BY <1>2, <1>4, <2>3, <2>5 DEF others
<1> QED
  BY <1>3, <1>4

\* What Absorb makes of two regions.
Joined(members, source, target) ==
  [k \in DOMAIN members \ {source} |->
     IF k = target THEN members[k] \cup members[source] ELSE members[k]]

LEMMA JoinedDivides ==
  ASSUME NEW members, Divides(members),
         NEW source \in DOMAIN members, NEW target \in DOMAIN members \ {source}
  PROVE  Divides(Joined(members, source, target))
<1> DEFINE new == Joined(members, source, target)
<1>1. DOMAIN new = DOMAIN members \ {source}
  BY DEF Joined
<1>2. \A k \in DOMAIN new :
        new[k] = IF k = target THEN members[k] \cup members[source] ELSE members[k]
  BY DEF Joined
<1> HIDE DEF new
<1>3. \A z \in SpatialZones : \E k \in DOMAIN new : z \in new[k]
  <2> SUFFICES ASSUME NEW z \in SpatialZones PROVE \E k \in DOMAIN new : z \in new[k]
    OBVIOUS
  <2>1. PICK k \in DOMAIN members : z \in members[k]
    BY DEF Divides
  <2>2. CASE k = source
    BY <1>1, <1>2, <2>1, <2>2
  <2>3. CASE k # source
    BY <1>1, <1>2, <2>1, <2>3
  <2> QED
    BY <2>2, <2>3
<1>4. \A k \in DOMAIN new : k \in new[k] /\ new[k] \subseteq SpatialZones
  BY <1>1, <1>2 DEF Divides
<1>5. \A k, l \in DOMAIN new : k # l => new[k] \cap new[l] = {}
  <2> SUFFICES ASSUME NEW k \in DOMAIN new, NEW l \in DOMAIN new, k # l,
                      NEW z \in new[k], z \in new[l]
               PROVE  FALSE
    OBVIOUS
  <2>0. \A i, j \in DOMAIN members : z \in members[i] /\ z \in members[j] => i = j
    BY DEF Divides
  <2>1. z \in members[k] \/ (k = target /\ z \in members[source])
    BY <1>2
  <2>2. z \in members[l] \/ (l = target /\ z \in members[source])
    BY <1>2
  <2>3. {k, l, source, target} \subseteq DOMAIN members /\ k # source /\ l # source
    BY <1>1
  <2> QED
    BY <2>0, <2>1, <2>2, <2>3
<1> QED
  BY <1>1, <1>3, <1>4, <1>5 DEF Divides, new

LEMMA LinkedWith ==
  ASSUME NEW a, NEW b, NEW c
  PROVE  /\ Linked(a \cup b, c) <=> Linked(a, c) \/ Linked(b, c)
         /\ Linked(c, a \cup b) <=> Linked(c, a) \/ Linked(c, b)
         /\ Linked(a, c) <=> Linked(c, a)
  BY TouchSymmetric DEF Linked

LEMMA JoinedNeighbouring ==
  ASSUME NEW members, NEW neighbours, Neighbouring(members, neighbours),
         NEW source \in DOMAIN members, NEW target \in DOMAIN members \ {source}
  PROVE  Neighbouring(Joined(members, source, target), Inherited(neighbours, source, target))
<1> DEFINE new == Joined(members, source, target)
           inherited == Inherited(neighbours, source, target)
           Near(k) == {l \in DOMAIN new \ {k} : Linked(new[k], new[l])}
<1>1. /\ DOMAIN new = DOMAIN members \ {source}
      /\ \A k \in DOMAIN new :
           new[k] = IF k = target THEN members[k] \cup members[source] ELSE members[k]
  BY DEF Joined
<1>2. /\ DOMAIN neighbours = DOMAIN members
      /\ \A k, l \in DOMAIN members : k # l =>
           (l \in neighbours[k] <=> Linked(members[k], members[l]))
      /\ \A k \in DOMAIN members : neighbours[k] \subseteq DOMAIN members \ {k}
  BY DEF Neighbouring
<1>3. /\ DOMAIN inherited = DOMAIN new
      /\ \A k \in DOMAIN new :
           inherited[k] =
             IF k = target THEN (neighbours[k] \cup neighbours[source]) \ {source, target}
             ELSE IF source \in neighbours[k] THEN (neighbours[k] \ {source}) \cup {target}
             ELSE neighbours[k]
  BY <1>1, <1>2 DEF Inherited
<1> HIDE DEF new, inherited
<1>4. \A k \in DOMAIN new : inherited[k] = Near(k)
  <2> SUFFICES ASSUME NEW k \in DOMAIN new PROVE inherited[k] = Near(k)
    OBVIOUS
  <2>0. k \in DOMAIN members /\ k # source /\ target \in DOMAIN new
    BY <1>1
  <2>1. inherited[k] \subseteq DOMAIN new \ {k}
    BY <1>1, <1>2, <1>3, <2>0
  <2>2. ASSUME NEW l \in DOMAIN new \ {k}
        PROVE  l \in inherited[k] <=> Linked(new[k], new[l])
    <3>0. l \in DOMAIN members /\ l # source /\ l # k
      BY <1>1
    <3>1. CASE k = target
      <4>1. l \in inherited[k] <=> l \in neighbours[k] \/ l \in neighbours[source]
        BY <1>3, <3>0, <3>1
      <4>2. new[k] = members[k] \cup members[source] /\ new[l] = members[l]
        BY <1>1, <3>0, <3>1
      <4> QED
        BY <1>2, <2>0, <3>0, <4>1, <4>2, LinkedWith
    <3>2. CASE k # target /\ l = target
      <4>1. l \in inherited[k] <=> l \in neighbours[k] \/ source \in neighbours[k]
        BY <1>3, <3>0, <3>2
      <4>2. new[k] = members[k] /\ new[l] = members[l] \cup members[source]
        BY <1>1, <3>0, <3>2
      <4> QED
        BY <1>2, <2>0, <3>0, <4>1, <4>2, LinkedWith
    <3>3. CASE k # target /\ l # target
      <4>1. l \in inherited[k] <=> l \in neighbours[k]
        BY <1>3, <3>0, <3>3
      <4>2. new[k] = members[k] /\ new[l] = members[l]
        BY <1>1, <3>0, <3>3
      <4> QED
        BY <1>2, <2>0, <3>0, <4>1, <4>2
    <3> QED
      BY <3>1, <3>2, <3>3
  <2> QED
    BY <2>1, <2>2
<1> QED
  BY <1>3, <1>4 DEF Neighbouring, new, inherited

LEMMA JoinedWhole ==
  ASSUME NEW members, Divides(members), NEW neighbours, Neighbouring(members, neighbours),
         \A k \in DOMAIN members : InOnePiece(members[k]),
         NEW source \in DOMAIN members, NEW target \in DOMAIN members \ {source},
         target \in neighbours[source] \/ neighbours[source] = {}
  PROVE  \A k \in DOMAIN Joined(members, source, target) :
           InOnePiece(Joined(members, source, target)[k])
<1>0. \A k, l \in DOMAIN members : k # l => members[k] \cap members[l] = {}
  BY DEF Divides
<1>1. InOnePiece(members[target] \cup members[source])
  <2>0. /\ members[target] \subseteq SpatialZones /\ members[source] \subseteq SpatialZones
        /\ members[target] \cap members[source] = {}
        /\ InOnePiece(members[target]) /\ InOnePiece(members[source])
    BY <1>0 DEF Divides
  <2>1. CASE target \in neighbours[source]
    <3>1. Linked(members[source], members[target])
      BY <2>1 DEF Neighbouring
    <3>2. Linked(members[target], members[source])
      BY <3>1, LinkedWith
    <3> QED
      BY <2>0, <3>2, TouchingRegionsJoin
  <2>2. CASE neighbours[source] = {}
    <3>1. Islands(members[source])
      <4> SUFFICES ASSUME NEW z \in members[source], NEW y \in SpatialZones \ members[source]
                   PROVE  ~Touch(z, y)
        BY DEF Islands
      <4>1. PICK l \in DOMAIN members : y \in members[l]
        BY DEF Divides
      <4>2. l # source /\ l \notin neighbours[source]
        BY <2>2, <4>1
      <4>3. ~Linked(members[source], members[l])
        BY <4>2 DEF Neighbouring
      <4> QED
        BY <4>1, <4>3 DEF Linked
    <3> QED
      BY <2>0, <3>1, IslandsJoin
  <2> QED
    BY <2>1, <2>2
<1> QED
  BY <1>1 DEF Joined

\* A turn leaves the map one with one region less.
LEMMA AbsorbMaps ==
  ASSUME NEW state, Mapped(state), NEW other \in DOMAIN state.members,
         DOMAIN state.members # {other}
  PROVE  /\ Mapped(Absorb(state))
         /\ \E source \in DOMAIN state.members :
              DOMAIN Absorb(state).members = DOMAIN state.members \ {source}
<1> DEFINE members == state.members
           neighbours == state.neighbours
           source == Least(DOMAIN members, [k \in DOMAIN members |-> Area[members[k]]])
           target == MergeTarget(source, members, neighbours)
           new == Absorb(state)
<1>1. Divides(members) /\ Neighbouring(members, neighbours)
      /\ \A k \in DOMAIN members : InOnePiece(members[k])
  BY DEF Mapped
<1>2. /\ new.members = Joined(members, source, target)
      /\ new.neighbours = Inherited(neighbours, source, target)
  BY DEF Absorb, Joined
<1> HIDE DEF new, source, target, members, neighbours
<1>3. source \in DOMAIN members
  BY <1>1, SourceIs DEF source, members
<1>4. DOMAIN members \ {source} # {}
  BY <1>3 DEF members
<1>5. target \in DOMAIN members \ {source} /\ (target \in neighbours[source] \/ neighbours[source] = {})
  BY <1>1, <1>3, <1>4, TargetIs DEF target
<1>6. Divides(Joined(members, source, target))
  BY <1>1, <1>3, <1>5, JoinedDivides
<1>7. Neighbouring(Joined(members, source, target), Inherited(neighbours, source, target))
  BY <1>1, <1>3, <1>5, JoinedNeighbouring
<1>8. \A k \in DOMAIN Joined(members, source, target) :
        InOnePiece(Joined(members, source, target)[k])
  BY <1>1, <1>3, <1>5, JoinedWhole
<1>9. Mapped(new)
  BY <1>2, <1>6, <1>7, <1>8 DEF Mapped
<1>10. DOMAIN new.members = DOMAIN members \ {source}
  BY <1>2 DEF Joined
<1> QED
  BY <1>3, <1>9, <1>10 DEF new, members

-----------------------------------------------------------------------------
(***************************************************************************)
(* The loop: its states one after the other, and what each of them is.     *)
(***************************************************************************)
LEMMA ZonesFinite == IsFiniteSet(SpatialZones) /\ Cardinality(SpatialZones) \in Nat
<1>1. SpatialZones \subseteq DOMAIN Master
  BY DEF SpatialZones
<1> QED
  BY <1>1, RegionsAssumption, FS_Subset, FS_CardinalityType

LEMMA TurnsAre == Turns \in Nat /\ Cardinality(SpatialZones) - Turns = RegionCount /\ RegionCount >= 1
  BY ZonesFinite, RegionsAssumption DEF Turns

Start == [members |-> [z \in SpatialZones |-> {z}], neighbours |-> build_adjacency]

\* Merged is the function its equation asks for: up to each turn there is one.
LEMMA MergedIs ==
  \A n \in 0..Turns : Merged[n] = IF n = 0 THEN Start ELSE Absorb(Merged[n - 1])
<1> DEFINE Upto(m, f) == f = [n \in 0..m |-> IF n = 0 THEN Start ELSE Absorb(f[n - 1])]
           without == {m \in 0..Turns : \A f : ~Upto(m, f)}
<1>0. Turns \in Nat
  BY TurnsAre
<1>1. without = {}
  <2> SUFFICES ASSUME without # {} PROVE FALSE
    OBVIOUS
  <2> DEFINE m == Min(without)
  <2>0. without \subseteq Nat
    BY <1>0
  <2>1. m \in without /\ \A y \in without : m <= y
    BY <2>0, SmallestIn
  <2> HIDE DEF m
  <2>2. m \in 0..Turns /\ \A f : ~Upto(m, f)
    BY <2>1
  <2>3. CASE m = 0
    <3> DEFINE f == [n \in 0..0 |-> Start]
    <3>1. \A n \in 0..0 : n = 0
      OBVIOUS
    <3>2. f = [n \in 0..0 |-> IF n = 0 THEN Start ELSE Absorb(f[n - 1])]
      BY <3>1
    <3> QED
      BY <2>2, <2>3, <3>2
  <2>4. CASE m # 0
    <3>0. m \in Nat /\ m - 1 \in 0..Turns /\ ~(m <= m - 1)
      BY <1>0, <2>2, <2>4
    <3>1. m - 1 \in 0..Turns /\ m - 1 \notin without
      BY <2>1, <3>0
    <3>2. PICK g : Upto(m - 1, g)
      BY <3>1
    <3> DEFINE f == [n \in 0..m |-> IF n = m THEN Absorb(g[m - 1]) ELSE g[n]]
    <3>3. ASSUME NEW n \in 0..m
          PROVE  f[n] = IF n = 0 THEN Start ELSE Absorb(f[n - 1])
      <4>1. CASE n = m
        <5>1. n - 1 \in 0..m /\ n - 1 # m
          BY <2>2, <2>4, <4>1
        <5>2. f[n - 1] = g[m - 1]
          BY <4>1, <5>1
        <5> QED
          BY <2>4, <4>1, <5>2
      <4>2. CASE n # m
        <5>1. n \in 0..(m - 1)
          BY <2>2, <4>2
        <5>2. f[n] = g[n]
          BY <4>2
        <5>3. g[n] = IF n = 0 THEN Start ELSE Absorb(g[n - 1])
          BY <3>2, <5>1
        <5>4. n # 0 => n - 1 \in 0..m /\ n - 1 # m
          BY <2>2, <5>1
        <5>5. n # 0 => f[n - 1] = g[n - 1]
          BY <5>4
        <5> QED
          BY <5>2, <5>3, <5>5
      <4> QED
        BY <4>1, <4>2
    <3>4. f = [n \in 0..m |-> f[n]]
      OBVIOUS
    <3> HIDE DEF f
    <3>5. Upto(m, f)
      BY <3>3, <3>4
    <3> QED
      BY <2>2, <3>5
  <2> QED
    BY <2>3, <2>4
<1>2. Turns \in 0..Turns
  BY <1>0
<1>3. \E f : Upto(Turns, f)
  BY <1>1, <1>2
<1>4. Merged = CHOOSE f : Upto(Turns, f)
  BY DEF Merged, Start
<1>5. Upto(Turns, Merged)
  BY <1>3, <1>4
<1> QED
  BY <1>5

LEMMA StartMapped == Mapped(Start)
<1> DEFINE members == Start.members
<1>1. DOMAIN members = SpatialZones /\ \A z \in SpatialZones : members[z] = {z}
  BY DEF Start
<1>2. Start.neighbours = build_adjacency
  BY DEF Start
<1> HIDE DEF members
<1>3. Divides(members)
  BY <1>1 DEF Divides
<1>4. Neighbouring(members, build_adjacency)
  <2>1. \A z, y \in SpatialZones : Linked(members[z], members[y]) <=> Touch(z, y)
    BY <1>1 DEF Linked
  <2> QED
    BY <1>1, <2>1 DEF Neighbouring, build_adjacency
<1>5. \A z \in SpatialZones : InOnePiece({z})
  <2> SUFFICES ASSUME NEW z \in SpatialZones PROVE InOnePiece({z})
    OBVIOUS
  <2>1. (SUBSET {z}) \ {{}, {z}} = {}
    OBVIOUS
  <2>2. Connected({z})
    BY <2>1 DEF Connected
  <2>3. {z} \ {z} = {}
    OBVIOUS
  <2>4. Islands({z} \ {z})
    BY <2>3 DEF Islands
  <2> QED
    BY <2>2, <2>4 DEF InOnePiece
<1> QED
  BY <1>1, <1>2, <1>3, <1>4, <1>5 DEF Mapped, members

\* After each turn the regions are a map, one fewer than before.
LEMMA MergedMaps ==
  \A n \in 0..Turns : /\ Mapped(Merged[n])
                      /\ IsFiniteSet(DOMAIN Merged[n].members)
                      /\ Cardinality(DOMAIN Merged[n].members) = Cardinality(SpatialZones) - n
<1> DEFINE Good(n) == /\ Mapped(Merged[n])
                      /\ IsFiniteSet(DOMAIN Merged[n].members)
                      /\ Cardinality(DOMAIN Merged[n].members) = Cardinality(SpatialZones) - n
           bad == {n \in 0..Turns : ~Good(n)}
<1>0. Turns \in Nat
  BY TurnsAre
<1> SUFFICES ASSUME bad # {} PROVE FALSE
  OBVIOUS
<1> DEFINE n == Min(bad)
<1>1. n \in bad /\ \A y \in bad : n <= y
  <2>1. bad \subseteq Nat
    BY <1>0
  <2> HIDE DEF bad
  <2> QED
    BY <2>1, SmallestIn
<1> HIDE DEF n
<1>2. n \in 0..Turns /\ ~Good(n)
  BY <1>1
<1>3. CASE n = 0
  <2>1. Merged[0] = Start
    BY <1>2, <1>3, MergedIs
  <2>2. DOMAIN Start.members = SpatialZones
    BY DEF Start
  <2> QED
    BY <1>2, <1>3, <2>1, <2>2, StartMapped, ZonesFinite
<1>4. CASE n # 0
  <2>1. n - 1 \in 0..Turns /\ Good(n - 1)
    BY <1>0, <1>1, <1>2, <1>4
  <2> DEFINE before == Merged[n - 1]
             D == DOMAIN before.members
  <2>2. Merged[n] = Absorb(before)
    BY <1>2, <1>4, MergedIs
  <2>3. Mapped(before) /\ IsFiniteSet(D) /\ Cardinality(D) = Cardinality(SpatialZones) - (n - 1)
    BY <2>1
  <2>4. Cardinality(D) >= 2
    BY <1>0, <1>2, <2>3, TurnsAre, ZonesFinite
  <2> HIDE DEF before
  <2>5. D # {}
    BY <2>4, FS_EmptySet
  <2>6. PICK other \in D : TRUE
    BY <2>5
  <2>7. D # {other}
    <3>1. Cardinality({other}) = 1
      BY FS_Singleton
    <3> HIDE DEF D
    <3> QED
      BY <2>4, <3>1
  <2>8. /\ Mapped(Absorb(before))
        /\ \E source \in D : DOMAIN Absorb(before).members = D \ {source}
    BY <2>3, <2>6, <2>7, AbsorbMaps
  <2>9. PICK source \in D : DOMAIN Absorb(before).members = D \ {source}
    BY <2>8
  <2>10. IsFiniteSet(D \ {source}) /\ Cardinality(D \ {source}) = Cardinality(D) - 1
    BY <2>3, FS_RemoveElement
  <2>11. Cardinality(D) - 1 = Cardinality(SpatialZones) - n
    BY <1>2, <2>3, ZonesFinite
  <2> QED
    BY <1>2, <2>2, <2>8, <2>9, <2>10, <2>11
<1> QED
  BY <1>3, <1>4

-----------------------------------------------------------------------------
(***************************************************************************)
(* The regions that are written.                                           *)
(***************************************************************************)
\* The ids of regions that divide the zones are 1 up to their number, each once.
LEMMA IdsAre ==
  ASSUME NEW members, Divides(members), IsFiniteSet(DOMAIN members)
  PROVE  /\ DOMAIN assign_region_ids(members) = DOMAIN members
         /\ Range(assign_region_ids(members)) = 1..Cardinality(DOMAIN members)
<1> DEFINE D == DOMAIN members
           first == [k \in D |-> Min(members[k])]
           Ahead(k) == {l \in D : first[l] < first[k]}
           ids == [k \in D |-> 1 + Cardinality(Ahead(k))]
           N == 1..Cardinality(D)
<1>1. ids = assign_region_ids(members)
  BY DEF assign_region_ids
<1>2. Cardinality(D) \in Nat
  BY FS_CardinalityType
<1>3. ASSUME NEW k \in D PROVE first[k] \in members[k] /\ first[k] \in Nat
  <2>1. members[k] \subseteq Nat /\ members[k] # {}
    BY RegionsAssumption DEF Divides, SpatialZones
  <2>2. Min(members[k]) \in members[k]
    BY <2>1, SmallestIn
  <2> QED
    BY <2>1, <2>2
<1>4. \A k, l \in D : first[k] = first[l] => k = l
  BY <1>3 DEF Divides
<1> HIDE DEF first
<1>5. ASSUME NEW k \in D
      PROVE  IsFiniteSet(Ahead(k)) /\ Cardinality(Ahead(k)) \in 0..(Cardinality(D) - 1)
  <2>1. Ahead(k) \subseteq D \ {k}
    BY <1>3
  <2>2. IsFiniteSet(D \ {k}) /\ Cardinality(D \ {k}) = Cardinality(D) - 1
    BY FS_RemoveElement
  <2>3. IsFiniteSet(Ahead(k)) /\ Cardinality(Ahead(k)) <= Cardinality(D \ {k})
    BY <2>1, <2>2, FS_Subset
  <2>4. Cardinality(Ahead(k)) \in Nat
    BY <2>3, FS_CardinalityType
  <2> QED
    BY <1>2, <2>2, <2>3, <2>4
<1>6. ASSUME NEW k \in D, NEW l \in D, first[k] < first[l]
      PROVE  ids[k] < ids[l]
  <2>1. \A i \in D : first[i] < first[k] => first[i] < first[l]
    BY <1>3, <1>6
  <2>2. ~(first[k] < first[k])
    BY <1>3
  <2>3. Ahead(k) \subseteq Ahead(l) /\ k \in Ahead(l) /\ k \notin Ahead(k)
    BY <1>6, <2>1, <2>2
  <2>4. Cardinality(Ahead(k)) <= Cardinality(Ahead(l)) /\ Cardinality(Ahead(k)) # Cardinality(Ahead(l))
    BY <1>5, <2>3, FS_Subset
  <2>5. Cardinality(Ahead(k)) \in Nat /\ Cardinality(Ahead(l)) \in Nat
    BY <1>5, FS_CardinalityType
  <2> QED
    BY <2>4, <2>5
<1>7. ASSUME NEW k \in D PROVE ids[k] \in N
  <2>1. PICK c \in 0..(Cardinality(D) - 1) : c = Cardinality(Ahead(k))
    BY <1>5
  <2>2. ids[k] = 1 + c
    BY <2>1
  <2> QED
    BY <1>2, <2>1, <2>2
<1>8. \A k, l \in D : ids[k] = ids[l] => k = l
  <2> SUFFICES ASSUME NEW k \in D, NEW l \in D, ids[k] = ids[l], k # l PROVE FALSE
    OBVIOUS
  <2>1. first[k] < first[l] \/ first[l] < first[k]
    BY <1>3, <1>4
  <2>2. ids[k] < ids[l] \/ ids[l] < ids[k]
    BY <1>6, <2>1
  <2>3. ids[k] \in Int /\ ids[l] \in Int
    BY <1>2, <1>7
  <2> HIDE DEF ids
  <2> QED
    BY <2>2, <2>3
<1>9. ids \in Injection(D, N)
  <2>1. ids \in [D -> N]
    BY <1>7
  <2> HIDE DEF ids
  <2> QED
    BY <1>8, <2>1 DEF Injection, IsInjective
<1>10. IsFiniteSet(N) /\ Cardinality(N) = Cardinality(D)
  BY <1>2, FS_Interval
<1> HIDE DEF ids
<1>11. ids \in Surjection(D, N)
  BY <1>9, <1>10, FS_Injection
<1>12. DOMAIN ids = D /\ Range(ids) = N
  BY <1>11 DEF Surjection, Range
<1> QED
  BY <1>1, <1>12 DEF ids

\* The merged regions are valid, and each is one piece with whole islands.
LEMMA RegionsDivideTheMap == RegionsAreContiguous
<1> DEFINE members == merge_regions
           D == DOMAIN members
           ids == assign_region_ids(members)
           map == build_zone_region_map(members)
           Of(z) == CHOOSE k \in D : z \in members[k]
<1>0. Turns \in 0..Turns
  BY TurnsAre
<1>1. /\ Mapped(Merged[Turns]) /\ IsFiniteSet(D) /\ Cardinality(D) = RegionCount
  BY <1>0, MergedMaps, TurnsAre DEF merge_regions
<1>2. Divides(members) /\ \A k \in D : InOnePiece(members[k])
  BY <1>1 DEF Mapped, merge_regions
<1> HIDE DEF members
<1>3. UNION Range(members) = SpatialZones
  BY <1>2 DEF Range, Divides
<1>4. DOMAIN ids = D /\ Range(ids) = 1..RegionCount
  BY <1>1, <1>2, IdsAre
<1>5. DOMAIN map = SpatialZones /\ \A z \in SpatialZones : map[z] = ids[Of(z)]
  BY <1>3 DEF build_zone_region_map
<1>6. \A z \in SpatialZones : Of(z) \in D
  BY <1>2 DEF Divides
<1>7. \A k \in D : k \in SpatialZones /\ Of(k) = k
  BY <1>2 DEF Divides
<1> HIDE DEF ids, map, Of
<1>8. Range(map) = Range(ids)
  BY <1>4, <1>5, <1>6, <1>7 DEF Range
<1>9. Valid(members)
  BY <1>1, <1>4, <1>5, <1>8 DEF Valid, ids, map
<1>10. \A region \in Range(members) : InOnePiece(region)
  BY <1>2 DEF Range
<1> QED
  BY <1>9, <1>10 DEF RegionsAreContiguous, InOnePiece, members

\* However the zones lie and whatever the batches are answered with, the regions
\* divide the zones, each is one piece of the map with whole islands, and the
\* row of a zone shows what was observed at its region, or failed for a reason
\* of its own (build_weather_region.py, weather.py run_latest_zone_weather_job).
THEOREM ZonesGetTheirs == Spec => []ZonesGetTheirWeather
<1>1. ZonesGetTheirWeather
  BY RegionsDivideTheMap, RowsShowTheirRegion DEF ZonesGetTheirWeather
<1> QED
  BY <1>1, PTL

-----------------------------------------------------------------------------
(***************************************************************************)
(* Sums along a sequence.                                                  *)
(***************************************************************************)
\* What is reached from 0 and from each number before it is reached at last.
LEMMA AllReached ==
  ASSUME NEW N \in Nat, NEW good, 0 \in good, \A n \in 1..N : n - 1 \in good => n \in good
  PROVE  \A n \in 0..N : n \in good
<1> DEFINE bad == {n \in 0..N : n \notin good}
<1> SUFFICES ASSUME bad # {} PROVE FALSE
  OBVIOUS
<1>1. bad \subseteq Nat
  OBVIOUS
<1>2. PICK n \in bad : \A y \in bad : n <= y
  BY <1>1, SmallestIn
<1>3. n \in 1..N /\ n - 1 \in 0..N /\ ~(n <= n - 1)
  BY <1>2
<1> QED
  BY <1>2, <1>3

Sums(f, d, N) == f = [n \in 0..N |-> IF n = 0 THEN 0 ELSE f[n - 1] + d[n]]

LEMMA SumsExist ==
  ASSUME NEW N \in Nat, NEW d \in [1..N -> Int]
  PROVE  \E f \in [0..N -> Int] : Sums(f, d, N)
<1> DEFINE good == {m \in 0..N : \E f \in [0..m -> Int] : Sums(f, d, m)}
<1>1. 0 \in good
  <2> DEFINE f == [n \in 0..0 |-> 0]
  <2>1. \A n \in 0..0 : n = 0
    OBVIOUS
  <2>2. f = [n \in 0..0 |-> IF n = 0 THEN 0 ELSE f[n - 1] + d[n]]
    BY <2>1
  <2>3. f \in [0..0 -> Int] /\ 0 \in 0..N
    OBVIOUS
  <2> HIDE DEF f
  <2>4. Sums(f, d, 0)
    BY <2>2 DEF Sums
  <2> QED
    BY <2>3, <2>4
<1>2. ASSUME NEW m \in 1..N, m - 1 \in good PROVE m \in good
  <2>1. PICK g \in [0..(m - 1) -> Int] : Sums(g, d, m - 1)
    BY <1>2
  <2> DEFINE f == [n \in 0..m |-> IF n = m THEN g[m - 1] + d[m] ELSE g[n]]
  <2>2. g[m - 1] \in Int /\ d[m] \in Int
    OBVIOUS
  <2>3. f \in [0..m -> Int]
    <3> SUFFICES ASSUME NEW n \in 0..m, n # m PROVE g[n] \in Int
      BY <2>2
    <3>1. n \in 0..(m - 1)
      OBVIOUS
    <3> QED
      BY <3>1
  <2>4. ASSUME NEW n \in 0..m
        PROVE  f[n] = IF n = 0 THEN 0 ELSE f[n - 1] + d[n]
    <3>1. CASE n = m
      <4>1. n # 0 /\ n - 1 \in 0..m /\ n - 1 # m
        BY <3>1
      <4>2. f[n - 1] = g[n - 1]
        BY <4>1
      <4> QED
        BY <3>1, <4>1, <4>2
    <3>2. CASE n # m
      <4>1. n \in 0..(m - 1) /\ f[n] = g[n]
        BY <3>2
      <4>2. g[n] = IF n = 0 THEN 0 ELSE g[n - 1] + d[n]
        BY <2>1, <4>1 DEF Sums
      <4>3. n # 0 => n - 1 \in 0..m /\ n - 1 # m
        BY <4>1
      <4>4. n # 0 => f[n - 1] = g[n - 1]
        BY <4>3
      <4> QED
        BY <4>1, <4>2, <4>4
    <3> QED
      BY <3>1, <3>2
  <2>5. f = [n \in 0..m |-> f[n]]
    OBVIOUS
  <2> HIDE DEF f
  <2>6. Sums(f, d, m)
    BY <2>4, <2>5 DEF Sums
  <2>7. m \in 0..N
    OBVIOUS
  <2> QED
    BY <2>3, <2>6, <2>7
<1> HIDE DEF good
<1>3. \A n \in 0..N : n \in good
  BY <1>1, <1>2, AllReached
<1>4. N \in good
  BY <1>3
<1> QED
  BY <1>4 DEF good

\* What Points adds at each place.
Part(drive, places) == [n \in 1..Len(drive) |-> IF n \in places THEN drive[n] ELSE 0]

LEMMA PartTyped ==
  ASSUME NEW drive \in Seq(Int), NEW places
  PROVE  /\ Len(drive) \in Nat /\ Part(drive, places) \in [1..Len(drive) -> Int]
         /\ \A n \in 1..Len(drive) :
              Part(drive, places)[n] = IF n \in places THEN drive[n] ELSE 0
  BY DEF Part

\* The sums on the way to Points.
Totals(f, drive, places) ==
  /\ f \in [0..Len(drive) -> Int] /\ f[0] = 0
  /\ \A n \in 1..Len(drive) : f[n] = f[n - 1] + Part(drive, places)[n]

LEMMA PointsAre ==
  ASSUME NEW drive \in Seq(Int), NEW places
  PROVE  \E f : Totals(f, drive, places) /\ Points(drive, places) = f[Len(drive)]
<1> DEFINE N == Len(drive)
           d == Part(drive, places)
<1>1. N \in Nat /\ d \in [1..N -> Int]
  BY PartTyped
<1>2. ASSUME NEW g
      PROVE  Sums(g, d, N) <=>
               g = [n \in 0..N |-> IF n = 0 THEN 0
                                  ELSE g[n - 1] + (IF n \in places THEN drive[n] ELSE 0)]
  <2>1. \A n \in 0..N : n # 0 => d[n] = IF n \in places THEN drive[n] ELSE 0
    BY <1>1, PartTyped
  <2>2. [n \in 0..N |-> IF n = 0 THEN 0 ELSE g[n - 1] + d[n]]
          = [n \in 0..N |-> IF n = 0 THEN 0
                            ELSE g[n - 1] + (IF n \in places THEN drive[n] ELSE 0)]
    BY <2>1
  <2> QED
    BY <2>2 DEF Sums
<1> DEFINE f == CHOOSE g : Sums(g, d, N)
<1>3. Points(drive, places) = f[N]
  <2>1. f = CHOOSE g : g = [n \in 0..N |-> IF n = 0 THEN 0
                                  ELSE g[n - 1] + (IF n \in places THEN drive[n] ELSE 0)]
    BY <1>2
  <2> QED
    BY <2>1 DEF Points
<1>4. Sums(f, d, N)
  BY <1>1, SumsExist
<1> HIDE DEF f, d, N
<1>5. f = [n \in 0..N |-> IF n = 0 THEN 0 ELSE f[n - 1] + d[n]]
  BY <1>4 DEF Sums
<1>6. f[0] = 0 /\ \A n \in 1..N : f[n] = f[n - 1] + d[n]
  BY <1>1, <1>5
<1>7. f \in [0..N -> Int]
  <2> DEFINE good == {n \in 0..N : f[n] \in Int}
  <2>1. 0 \in good
    BY <1>1, <1>6
  <2>2. ASSUME NEW n \in 1..N, n - 1 \in good PROVE n \in good
    <3>1. f[n - 1] \in Int /\ d[n] \in Int
      BY <1>1, <2>2
    <3>2. f[n] \in Int
      BY <1>6, <3>1
    <3> QED
      BY <1>1, <3>2
  <2> HIDE DEF good
  <2>3. \A n \in 0..N : n \in good
    BY <1>1, <2>1, <2>2, AllReached
  <2>4. \A n \in 0..N : f[n] \in Int
    BY <2>3 DEF good
  <2> QED
    BY <1>5, <2>4
<1> QED
  BY <1>3, <1>6, <1>7 DEF d, N, Totals

\* What is no more at each place is no more in sum.
LEMMA PointsOrder ==
  ASSUME NEW s \in Seq(Int), NEW P, NEW t \in Seq(Int), NEW Q, Len(s) = Len(t),
         \A n \in 1..Len(s) : Part(s, P)[n] <= Part(t, Q)[n]
  PROVE  Points(s, P) <= Points(t, Q)
<1>1. PICK f : Totals(f, s, P) /\ Points(s, P) = f[Len(s)]
  BY PointsAre
<1>2. PICK g : Totals(g, t, Q) /\ Points(t, Q) = g[Len(t)]
  BY PointsAre
<1> DEFINE N == Len(s)
<1>3. /\ N \in Nat /\ N = Len(t)
      /\ Part(s, P) \in [1..N -> Int] /\ Part(t, Q) \in [1..N -> Int]
  BY PartTyped
<1>4. /\ f \in [0..N -> Int] /\ f[0] = 0 /\ \A n \in 1..N : f[n] = f[n - 1] + Part(s, P)[n]
      /\ g \in [0..N -> Int] /\ g[0] = 0 /\ \A n \in 1..N : g[n] = g[n - 1] + Part(t, Q)[n]
  BY <1>1, <1>2, <1>3 DEF Totals
<1>5. \A n \in 1..N : Part(s, P)[n] <= Part(t, Q)[n]
  OBVIOUS
<1> HIDE DEF N
<1> DEFINE good == {n \in 0..N : f[n] <= g[n]}
<1>6. 0 \in good
  BY <1>3, <1>4
<1>7. ASSUME NEW n \in 1..N, n - 1 \in good PROVE n \in good
  <2>1. n \in 0..N /\ n - 1 \in 0..N
    BY <1>3
  <2>2. f[n - 1] \in Int /\ g[n - 1] \in Int /\ Part(s, P)[n] \in Int /\ Part(t, Q)[n] \in Int
    BY <1>3, <1>4, <2>1
  <2>3. f[n - 1] <= g[n - 1] /\ Part(s, P)[n] <= Part(t, Q)[n]
    BY <1>5, <1>7
  <2>4. f[n] = f[n - 1] + Part(s, P)[n] /\ g[n] = g[n - 1] + Part(t, Q)[n]
    BY <1>4
  <2>5. f[n] <= g[n]
    BY <2>2, <2>3, <2>4
  <2> QED
    BY <2>1, <2>5
<1> HIDE DEF good
<1>8. \A n \in 0..N : n \in good
  BY <1>3, <1>6, <1>7, AllReached
<1>9. N \in good
  BY <1>3, <1>8
<1> QED
  BY <1>1, <1>2, <1>3, <1>9 DEF good, N

LEMMA PointsTyped ==
  ASSUME NEW s \in Seq(Int), NEW P
  PROVE  Points(s, P) \in Int
<1>1. PICK f : Totals(f, s, P) /\ Points(s, P) = f[Len(s)]
  BY PointsAre
<1>2. Len(s) \in 0..Len(s)
  BY PartTyped
<1> QED
  BY <1>1, <1>2 DEF Totals

\* Sums add up place by place.
LEMMA PointsAdd ==
  ASSUME NEW s \in Seq(Int), NEW P, NEW t \in Seq(Int), NEW Q, NEW u \in Seq(Int), NEW R,
         Len(s) = Len(t), Len(s) = Len(u),
         \A n \in 1..Len(s) : Part(s, P)[n] = Part(t, Q)[n] + Part(u, R)[n]
  PROVE  Points(s, P) = Points(t, Q) + Points(u, R)
<1>1. PICK f : Totals(f, s, P) /\ Points(s, P) = f[Len(s)]
  BY PointsAre
<1>2. PICK g : Totals(g, t, Q) /\ Points(t, Q) = g[Len(t)]
  BY PointsAre
<1>3. PICK h : Totals(h, u, R) /\ Points(u, R) = h[Len(u)]
  BY PointsAre
<1> DEFINE N == Len(s)
<1>4. /\ N \in Nat /\ N = Len(t) /\ N = Len(u)
      /\ Part(s, P) \in [1..N -> Int] /\ Part(t, Q) \in [1..N -> Int] /\ Part(u, R) \in [1..N -> Int]
  BY PartTyped
<1>5. /\ f \in [0..N -> Int] /\ f[0] = 0 /\ \A n \in 1..N : f[n] = f[n - 1] + Part(s, P)[n]
      /\ g \in [0..N -> Int] /\ g[0] = 0 /\ \A n \in 1..N : g[n] = g[n - 1] + Part(t, Q)[n]
      /\ h \in [0..N -> Int] /\ h[0] = 0 /\ \A n \in 1..N : h[n] = h[n - 1] + Part(u, R)[n]
  BY <1>1, <1>2, <1>3, <1>4 DEF Totals
<1>6. \A n \in 1..N : Part(s, P)[n] = Part(t, Q)[n] + Part(u, R)[n]
  OBVIOUS
<1> HIDE DEF N
<1> DEFINE good == {n \in 0..N : f[n] = g[n] + h[n]}
<1>7. 0 \in good
  BY <1>4, <1>5
<1>8. ASSUME NEW n \in 1..N, n - 1 \in good PROVE n \in good
  <2>1. n \in 0..N /\ n - 1 \in 0..N
    BY <1>4
  <2>2. /\ f[n - 1] \in Int /\ g[n - 1] \in Int /\ h[n - 1] \in Int
        /\ Part(s, P)[n] \in Int /\ Part(t, Q)[n] \in Int /\ Part(u, R)[n] \in Int
    BY <1>4, <1>5, <2>1
  <2>3. f[n - 1] = g[n - 1] + h[n - 1] /\ Part(s, P)[n] = Part(t, Q)[n] + Part(u, R)[n]
    BY <1>6, <1>8
  <2>4. /\ f[n] = f[n - 1] + Part(s, P)[n] /\ g[n] = g[n - 1] + Part(t, Q)[n]
        /\ h[n] = h[n - 1] + Part(u, R)[n]
    BY <1>5
  <2>5. f[n] = g[n] + h[n]
    BY <2>2, <2>3, <2>4
  <2> QED
    BY <2>1, <2>5
<1> HIDE DEF good
<1>9. \A n \in 0..N : n \in good
  BY <1>4, <1>7, <1>8, AllReached
<1>10. N \in good
  BY <1>4, <1>9
<1> QED
  BY <1>1, <1>2, <1>3, <1>4, <1>10 DEF good, N

\* The same number at each place of P.
LEMMA PointsConstant ==
  ASSUME NEW s \in Seq(Int), NEW P, P \subseteq 1..Len(s), NEW c \in Int,
         \A n \in P : s[n] = c
  PROVE  Cardinality(P) \in Nat /\ Points(s, P) = c * Cardinality(P)
<1> DEFINE N == Len(s)
           Upto(n) == P \cap 1..n
<1>0. PICK f : Totals(f, s, P) /\ Points(s, P) = f[N]
  BY PointsAre
<1>2. N \in Nat /\ \A n \in 1..N : Part(s, P)[n] = IF n \in P THEN c ELSE 0
  BY PartTyped
<1>1. /\ f \in [0..N -> Int] /\ f[0] = 0 /\ \A n \in 1..N : f[n] = f[n - 1] + Part(s, P)[n]
      /\ Points(s, P) = f[N] /\ P \subseteq 1..N
  BY <1>0 DEF Totals
<1> HIDE DEF N
<1>3. ASSUME NEW n \in 0..N PROVE IsFiniteSet(Upto(n)) /\ Cardinality(Upto(n)) \in Nat
  <2>1. IsFiniteSet(1..n)
    BY FS_Interval
  <2>2. Upto(n) \subseteq 1..n
    OBVIOUS
  <2> QED
    BY <2>1, <2>2, FS_Subset, FS_CardinalityType
<1> DEFINE good == {n \in 0..N : f[n] = c * Cardinality(Upto(n))}
<1>4. 0 \in good
  <2>1. Upto(0) = {}
    OBVIOUS
  <2>2. c * Cardinality(Upto(0)) = 0
    BY <2>1, FS_EmptySet
  <2> QED
    BY <1>1, <1>2, <2>2
<1>5. ASSUME NEW n \in 1..N, n - 1 \in good PROVE n \in good
  <2>1. n \in 0..N /\ n - 1 \in 0..N
    BY <1>2
  <2>2. f[n - 1] = c * Cardinality(Upto(n - 1))
    BY <1>5
  <2>3. CASE n \in P
    <3>1. Upto(n) = Upto(n - 1) \cup {n} /\ n \notin Upto(n - 1)
      BY <2>3
    <3>2. Cardinality(Upto(n)) = Cardinality(Upto(n - 1)) + 1
      BY <1>3, <2>1, <3>1, FS_AddElement
    <3> DEFINE k == Cardinality(Upto(n - 1))
    <3>3. k \in Nat
      BY <1>3, <2>1
    <3>4. f[n] = f[n - 1] + c
      BY <1>1, <1>2, <2>3
    <3> HIDE DEF k
    <3>5. c * (k + 1) = c * k + c
      BY <3>3
    <3>6. f[n] = c * Cardinality(Upto(n))
      BY <2>2, <3>2, <3>4, <3>5 DEF k
    <3> QED
      BY <2>1, <3>6
  <2>4. CASE n \notin P
    <3>1. Upto(n) = Upto(n - 1)
      BY <2>4
    <3>0. f[n - 1] \in Int
      BY <1>1, <2>1
    <3>2. f[n] = f[n - 1]
      BY <1>1, <1>2, <2>4, <3>0
    <3>3. f[n] = c * Cardinality(Upto(n))
      BY <2>2, <3>1, <3>2
    <3> QED
      BY <2>1, <3>3
  <2> QED
    BY <2>3, <2>4
<1> HIDE DEF good
<1>6. \A n \in 0..N : n \in good
  BY <1>2, <1>4, <1>5, AllReached
<1>7. N \in good /\ N \in 0..N
  BY <1>2, <1>6
<1>8. Upto(N) = P
  BY <1>1
<1> QED
  BY <1>1, <1>3, <1>7, <1>8 DEF good

-----------------------------------------------------------------------------
(***************************************************************************)
(* Numbering along a strict order.                                         *)
(***************************************************************************)
LEMMA Numbered ==
  ASSUME NEW D, IsFiniteSet(D), NEW below \in [D -> SUBSET D],
         \A i \in D : i \notin below[i],
         \A i, k \in D : i # k => i \in below[k] \/ k \in below[i],
         \A i, k \in D : i \in below[k] => below[i] \subseteq below[k]
  PROVE  /\ Cardinality(D) \in Nat
         /\ \A i \in D : 1 + Cardinality(below[i]) \in 1..Cardinality(D)
         /\ \A i, k \in D : i \in below[k] => Cardinality(below[i]) < Cardinality(below[k])
         /\ \A n \in 1..Cardinality(D) : \E i \in D : 1 + Cardinality(below[i]) = n
<1> DEFINE number == [i \in D |-> 1 + Cardinality(below[i])]
           N == 1..Cardinality(D)
<1>1. Cardinality(D) \in Nat
  BY FS_CardinalityType
<1>2. ASSUME NEW i \in D
      PROVE  IsFiniteSet(below[i]) /\ Cardinality(below[i]) \in 0..(Cardinality(D) - 1)
  <2>1. below[i] \subseteq D \ {i}
    OBVIOUS
  <2>2. IsFiniteSet(D \ {i}) /\ Cardinality(D \ {i}) = Cardinality(D) - 1
    BY FS_RemoveElement
  <2>3. IsFiniteSet(below[i]) /\ Cardinality(below[i]) <= Cardinality(D \ {i})
    BY <2>1, <2>2, FS_Subset
  <2>4. Cardinality(below[i]) \in Nat
    BY <2>3, FS_CardinalityType
  <2> QED
    BY <1>1, <2>2, <2>3, <2>4
<1>3. ASSUME NEW i \in D, NEW k \in D, i \in below[k]
      PROVE  Cardinality(below[i]) < Cardinality(below[k])
  <2>1. below[i] \subseteq below[k] /\ i \notin below[i]
    BY <1>3
  <2>2. Cardinality(below[i]) <= Cardinality(below[k]) /\ Cardinality(below[i]) # Cardinality(below[k])
    BY <1>2, <1>3, <2>1, FS_Subset
  <2>3. Cardinality(below[i]) \in Nat /\ Cardinality(below[k]) \in Nat
    BY <1>2, FS_CardinalityType
  <2> QED
    BY <2>2, <2>3
<1>4. ASSUME NEW i \in D PROVE number[i] \in N /\ number[i] = 1 + Cardinality(below[i])
  <2>1. PICK c \in 0..(Cardinality(D) - 1) : c = Cardinality(below[i])
    BY <1>2
  <2>2. number[i] = 1 + c
    BY <2>1
  <2> QED
    BY <1>1, <2>1, <2>2
<1>5. \A i, k \in D : number[i] = number[k] => i = k
  <2> SUFFICES ASSUME NEW i \in D, NEW k \in D, number[i] = number[k], i # k PROVE FALSE
    OBVIOUS
  <2>1. Cardinality(below[i]) \in Int /\ Cardinality(below[k]) \in Int
    BY <1>2
  <2>2. Cardinality(below[i]) < Cardinality(below[k]) \/ Cardinality(below[k]) < Cardinality(below[i])
    BY <1>3
  <2> HIDE DEF number
  <2>3. 1 + Cardinality(below[i]) = 1 + Cardinality(below[k])
    BY <1>4
  <2> QED
    BY <2>1, <2>2, <2>3
<1>6. number \in Injection(D, N)
  <2>1. number \in [D -> N]
    BY <1>4
  <2> HIDE DEF number
  <2> QED
    BY <1>5, <2>1 DEF Injection, IsInjective
<1>7. IsFiniteSet(N) /\ Cardinality(N) = Cardinality(D)
  BY <1>1, FS_Interval
<1> HIDE DEF number
<1>8. number \in Surjection(D, N)
  BY <1>6, <1>7, FS_Injection
<1>9. \A n \in N : \E i \in D : number[i] = n
  BY <1>8 DEF Surjection
<1> QED
  BY <1>1, <1>3, <1>4, <1>9

LEMMA RanksAre ==
  ASSUME NEW n \in Nat, NEW keys \in [1..n -> Int]
  PROVE  /\ \A i \in 1..n : Rank(keys, i) \in 1..n
         /\ \A i, k \in 1..n : Before(keys, i, k) => Rank(keys, i) < Rank(keys, k)
         /\ \A i, k \in 1..n : i # k => Before(keys, i, k) \/ Before(keys, k, i)
         /\ \A m \in 1..n : \E i \in 1..n : Rank(keys, i) = m
<1> DEFINE D == 1..n
           below == [i \in D |-> {j \in D : Before(keys, j, i)}]
<1>1. IsFiniteSet(D) /\ Cardinality(D) = n
  BY FS_Interval
<1>2. \A i \in D : keys[i] \in Int
  OBVIOUS
<1>3. \A i \in D : ~Before(keys, i, i)
  BY <1>2 DEF Before
<1>4. \A i, k \in D : i # k => Before(keys, i, k) \/ Before(keys, k, i)
  BY <1>2 DEF Before
<1>5. \A i, j, k \in D : Before(keys, i, j) /\ Before(keys, j, k) => Before(keys, i, k)
  BY <1>2 DEF Before
<1>6. \A i \in D : Rank(keys, i) = 1 + Cardinality(below[i])
  BY DEF Rank
<1>7. below \in [D -> SUBSET D] /\ \A i, j \in D : j \in below[i] <=> Before(keys, j, i)
  OBVIOUS
<1> HIDE DEF D, below
<1>8. /\ \A i \in D : i \notin below[i]
      /\ \A i, k \in D : i # k => i \in below[k] \/ k \in below[i]
      /\ \A i, k \in D : i \in below[k] => below[i] \subseteq below[k]
  BY <1>3, <1>4, <1>5, <1>7
<1>9. /\ \A i \in D : 1 + Cardinality(below[i]) \in 1..Cardinality(D)
      /\ \A i, k \in D : i \in below[k] => Cardinality(below[i]) < Cardinality(below[k])
      /\ \A m \in 1..Cardinality(D) : \E i \in D : 1 + Cardinality(below[i]) = m
  BY <1>1, <1>7, <1>8, Numbered
<1>10. \A i, k \in D : Before(keys, i, k) => Rank(keys, i) < Rank(keys, k)
  <2> SUFFICES ASSUME NEW i \in D, NEW k \in D, Before(keys, i, k)
               PROVE  Rank(keys, i) < Rank(keys, k)
    OBVIOUS
  <2>1. i \in below[k]
    BY <1>7
  <2>2. Cardinality(below[i]) < Cardinality(below[k])
    BY <1>9, <2>1
  <2>3. Cardinality(below[i]) \in Nat /\ Cardinality(below[k]) \in Nat
    <3>1. IsFiniteSet(below[i]) /\ IsFiniteSet(below[k])
      BY <1>1, <1>7, FS_Subset
    <3> QED
      BY <3>1, FS_CardinalityType
  <2> QED
    BY <1>6, <2>2, <2>3
<1> QED
  BY <1>1, <1>4, <1>6, <1>9, <1>10 DEF D

-----------------------------------------------------------------------------
(***************************************************************************)
(* The few worst scores.                                                   *)
(***************************************************************************)
Worst(drive, few) == {i \in 1..Len(drive) : Rank(drive, i) <= few}

\* They are few, and one of them separates them from the others.
LEMMA WorstAre ==
  ASSUME NEW drive \in Seq(Int), NEW few \in 1..Len(drive)
  PROVE  /\ Worst(drive, few) \subseteq 1..Len(drive)
         /\ IsFiniteSet(Worst(drive, few)) /\ Cardinality(Worst(drive, few)) = few
         /\ \E t \in Int : /\ \A i \in Worst(drive, few) : drive[i] <= t
                          /\ \A i \in 1..Len(drive) \ Worst(drive, few) : t <= drive[i]
<1> DEFINE n == Len(drive)
           W == Worst(drive, few)
           number == [i \in W |-> Rank(drive, i)]
<1>1. n \in Nat /\ drive \in [1..n -> Int] /\ few \in 1..n
  OBVIOUS
<1>2. W = {i \in 1..n : Rank(drive, i) <= few}
  BY DEF Worst
<1> HIDE DEF n, W
<1>3. /\ \A i \in 1..n : Rank(drive, i) \in 1..n
      /\ \A i, k \in 1..n : Before(drive, i, k) => Rank(drive, i) < Rank(drive, k)
      /\ \A i, k \in 1..n : i # k => Before(drive, i, k) \/ Before(drive, k, i)
      /\ \A m \in 1..n : \E i \in 1..n : Rank(drive, i) = m
  BY <1>1, RanksAre
<1>4. \A i, k \in 1..n : Rank(drive, i) = Rank(drive, k) => i = k
  <2> SUFFICES ASSUME NEW i \in 1..n, NEW k \in 1..n, Rank(drive, i) = Rank(drive, k), i # k
               PROVE  FALSE
    OBVIOUS
  <2>1. Rank(drive, i) < Rank(drive, k) \/ Rank(drive, k) < Rank(drive, i)
    BY <1>3
  <2>2. Rank(drive, i) \in Int /\ Rank(drive, k) \in Int
    BY <1>3
  <2> QED
    BY <2>1, <2>2
<1>5. number \in [W -> 1..few]
  <2> SUFFICES ASSUME NEW i \in W PROVE Rank(drive, i) \in 1..few
    OBVIOUS
  <2>1. Rank(drive, i) \in 1..n /\ Rank(drive, i) <= few
    BY <1>2, <1>3
  <2> QED
    BY <1>1, <2>1
<1>6. \A i, k \in W : number[i] = number[k] => i = k
  BY <1>2, <1>4
<1>7. \A m \in 1..few : \E i \in W : number[i] = m
  <2> SUFFICES ASSUME NEW m \in 1..few PROVE \E i \in W : number[i] = m
    OBVIOUS
  <2>0. m \in 1..n /\ m <= few
    BY <1>1
  <2>1. PICK i \in 1..n : Rank(drive, i) = m
    BY <1>3, <2>0
  <2>2. i \in W
    BY <1>2, <2>0, <2>1
  <2> QED
    BY <2>1, <2>2
<1>8. number \in Injection(W, 1..few) /\ number \in Surjection(W, 1..few)
  <2> HIDE DEF number
  <2> QED
    BY <1>5, <1>6, <1>7 DEF Injection, Surjection, IsInjective
<1>9. IsFiniteSet(1..few) /\ Cardinality(1..few) = few
  BY <1>1, FS_Interval
<1> HIDE DEF number
<1>10. IsFiniteSet(W) /\ Cardinality(W) = few
  BY <1>8, <1>9, FS_Injection
<1>11. PICK a \in 1..n : Rank(drive, a) = few
  BY <1>1, <1>3
<1>12. drive[a] \in Int /\ \A i \in 1..n : drive[i] \in Int
  BY <1>1
<1>13. ASSUME NEW i \in W PROVE drive[i] <= drive[a]
  <2>1. i \in 1..n /\ Rank(drive, i) <= few
    BY <1>2
  <2>2. ~Before(drive, a, i)
    <3> SUFFICES ASSUME Before(drive, a, i) PROVE FALSE
      OBVIOUS
    <3>1. few < Rank(drive, i)
      BY <1>3, <1>11, <2>1
    <3>2. Rank(drive, i) \in Int /\ few \in Int
      BY <1>1, <1>3, <2>1
    <3> QED
      BY <2>1, <3>1, <3>2
  <2>3. i = a \/ Before(drive, i, a)
    BY <1>3, <2>1, <2>2
  <2> QED
    BY <1>12, <2>1, <2>3 DEF Before
<1>14. ASSUME NEW i \in 1..n \ W PROVE drive[a] <= drive[i]
  <2>1. i \in 1..n /\ ~(Rank(drive, i) <= few)
    BY <1>2
  <2>2. ~Before(drive, i, a) /\ i # a
    <3>1. Before(drive, i, a) => Rank(drive, i) < few
      BY <1>3, <1>11, <2>1
    <3>2. Rank(drive, i) \in Int /\ few \in Int
      BY <1>1, <1>3, <2>1
    <3>3. few <= few
      BY <3>2
    <3> QED
      BY <1>11, <2>1, <3>1, <3>2, <3>3
  <2>3. Before(drive, a, i)
    BY <1>3, <2>1, <2>2
  <2> QED
    BY <1>12, <2>1, <2>3 DEF Before
<1>15. W \subseteq 1..n
  BY <1>2
<1> QED
  BY <1>10, <1>12, <1>13, <1>14, <1>15 DEF n, W

\* What each score has above t.
Shifted(drive, t) == [k \in 1..Len(drive) |-> drive[k] - t]

LEMMA ShiftedIs ==
  ASSUME NEW drive \in Seq(Int), NEW t \in Int
  PROVE  /\ Shifted(drive, t) \in Seq(Int) /\ Len(Shifted(drive, t)) = Len(drive)
         /\ \A k \in 1..Len(drive) : Shifted(drive, t)[k] = drive[k] - t
<1> DEFINE n == Len(drive)
<1>1. n \in Nat /\ drive \in [1..n -> Int]
  OBVIOUS
<1> HIDE DEF n
<1>2. [k \in 1..n |-> drive[k] - t] \in [1..n -> Int]
  BY <1>1
<1>3. [k \in 1..n |-> drive[k] - t] \in Seq(Int) /\ Len([k \in 1..n |-> drive[k] - t]) = n
  BY <1>1, <1>2
<1> QED
  BY <1>3 DEF Shifted, n

\* A sum is the sum of what the scores have above t, and t for each place.
LEMMA PointsShifted ==
  ASSUME NEW drive \in Seq(Int), NEW t \in Int, NEW P, P \subseteq 1..Len(drive)
  PROVE  /\ Cardinality(P) \in Nat /\ Points(Shifted(drive, t), P) \in Int
         /\ Points(drive, P) = Points(Shifted(drive, t), P) + t * Cardinality(P)
<1> DEFINE n == Len(drive)
           level == [k \in 1..Len(drive) |-> t]
<1>1. n \in Nat /\ \A k \in 1..n : drive[k] \in Int
  OBVIOUS
<1>2. level \in [1..n -> Int] /\ \A k \in 1..n : level[k] = t
  OBVIOUS
<1>3. level \in Seq(Int) /\ Len(level) = n
  BY <1>1, <1>2
<1>4. /\ Shifted(drive, t) \in Seq(Int) /\ Len(Shifted(drive, t)) = n
      /\ \A k \in 1..n : Shifted(drive, t)[k] = drive[k] - t
  BY ShiftedIs
<1> HIDE DEF level
<1>5. Cardinality(P) \in Nat /\ Points(level, P) = t * Cardinality(P)
  BY <1>2, <1>3, PointsConstant
<1>6. ASSUME NEW k \in 1..n
      PROVE  Part(drive, P)[k] = Part(Shifted(drive, t), P)[k] + Part(level, P)[k]
  <2>1. /\ Part(drive, P)[k] = IF k \in P THEN drive[k] ELSE 0
        /\ Part(Shifted(drive, t), P)[k] = IF k \in P THEN Shifted(drive, t)[k] ELSE 0
        /\ Part(level, P)[k] = IF k \in P THEN level[k] ELSE 0
    BY <1>3, <1>4, PartTyped
  <2> QED
    BY <1>1, <1>2, <1>4, <2>1
<1>7. Points(drive, P) = Points(Shifted(drive, t), P) + Points(level, P)
  BY <1>3, <1>4, <1>6, PointsAdd
<1> QED
  BY <1>4, <1>5, <1>7, PointsTyped

\* No other places are as bad, and they are no better than the average.
LEMMA Lightest ==
  ASSUME NEW drive \in Seq(Int), NEW few \in 1..Len(drive)
  PROVE  /\ \A T \in SUBSET (1..Len(drive)) :
              Cardinality(T) = few => Points(drive, Worst(drive, few)) <= Points(drive, T)
         /\ Len(drive) * Points(drive, Worst(drive, few))
              <= few * Points(drive, 1..Len(drive))
<1> DEFINE n == Len(drive)
           W == Worst(drive, few)
<1>1. n \in Nat /\ few \in 1..n /\ \A k \in 1..n : drive[k] \in Int
  OBVIOUS
<1>2. /\ W \subseteq 1..n /\ Cardinality(W) = few
  BY WorstAre
<1>3. PICK t \in Int : /\ \A i \in W : drive[i] <= t
                       /\ \A i \in 1..n \ W : t <= drive[i]
  BY WorstAre
<1> DEFINE d == Shifted(drive, t)
<1>4. d \in Seq(Int) /\ Len(d) = n /\ \A k \in 1..n : d[k] = drive[k] - t
  BY ShiftedIs
<1>5. ASSUME NEW P, P \subseteq 1..n
      PROVE  /\ Cardinality(P) \in Nat /\ Points(d, P) \in Int
             /\ Points(drive, P) = Points(d, P) + t * Cardinality(P)
  BY <1>5, PointsShifted
<1> HIDE DEF W, d
<1>6. \A k \in 1..n : d[k] \in Int /\ (k \in W => d[k] <= 0) /\ (k \notin W => 0 <= d[k])
  BY <1>1, <1>2, <1>3, <1>4
<1> HIDE DEF n
<1>7. ASSUME NEW T \in SUBSET (1..n) PROVE Points(d, W) <= Points(d, T)
  <2>1. ASSUME NEW k \in 1..n PROVE Part(d, W)[k] <= Part(d, T)[k]
    <3>1. /\ Part(d, W)[k] = IF k \in W THEN d[k] ELSE 0
          /\ Part(d, T)[k] = IF k \in T THEN d[k] ELSE 0
      BY <1>4, PartTyped
    <3> QED
      BY <1>6, <3>1
  <2> QED
    BY <1>4, <2>1, PointsOrder
<1>8. ASSUME NEW T \in SUBSET (1..n), Cardinality(T) = few
      PROVE  Points(drive, W) <= Points(drive, T)
  <2>1. Points(d, W) <= Points(d, T) /\ Points(d, W) \in Int /\ Points(d, T) \in Int
    BY <1>2, <1>5, <1>7
  <2>2. t * few \in Int
    BY <1>1
  <2>3. Points(drive, W) = Points(d, W) + t * few
    BY <1>2, <1>5
  <2>4. Points(drive, T) = Points(d, T) + t * few
    BY <1>5, <1>8
  <2> QED
    BY <2>1, <2>2, <2>3, <2>4
<1>9. n * Points(drive, W) <= few * Points(drive, 1..n)
  <2>1. Cardinality(1..n) = n
    BY <1>1, FS_Interval
  <2>2. PICK low \in Int : low = Points(d, W)
    BY <1>2, <1>5
  <2>3. PICK all \in Int : all = Points(d, 1..n)
    BY <1>5
  <2>4. low <= all
    BY <1>7, <2>2, <2>3
  <2>5. low <= 0
    <3>1. Points(d, W) <= Points(d, {})
      BY <1>7
    <3>2. Points(d, {}) = 0
      <4>1. Points(d, {}) = 0 * Cardinality({})
        BY <1>4, PointsConstant
      <4> QED
        BY <4>1, FS_EmptySet
    <3> QED
      BY <2>2, <3>1, <3>2
  <2>6. Points(drive, W) = low + t * few /\ Points(drive, 1..n) = all + t * n
    <3>1. Points(drive, W) = Points(d, W) + t * few
      BY <1>2, <1>5
    <3>2. Points(drive, 1..n) = Points(d, 1..n) + t * n
      BY <1>5, <2>1
    <3> QED
      BY <2>2, <2>3, <3>1, <3>2
  <2>7. n * low <= few * low /\ few * low <= few * all
    <3>1. \A a, b \in Nat, c \in Int : a <= b /\ c <= 0 => b * c <= a * c
      OBVIOUS
    <3>2. \A a \in Nat, b, c \in Int : b <= c => a * b <= a * c
      OBVIOUS
    <3> QED
      BY <1>1, <2>4, <2>5, <3>1, <3>2
  <2>8. n * (low + t * few) = n * low + n * few * t /\ few * (all + t * n) = few * all + n * few * t
    BY <1>1
  <2>9. n * low \in Int /\ few * all \in Int /\ n * few * t \in Int /\ few * low \in Int
    BY <1>1
  <2>10. n * low + n * few * t <= few * all + n * few * t
    <3>1. \A a, b, c, s \in Int : a <= b /\ b <= c => a + s <= c + s
      OBVIOUS
    <3> QED
      BY <2>7, <2>9, <3>1
  <2> QED
    BY <2>6, <2>8, <2>10
<1> QED
  BY <1>8, <1>9 DEF n, W

-----------------------------------------------------------------------------
(***************************************************************************)
(* Rounding.                                                               *)
(***************************************************************************)
LEMMA RoundedOrders ==
  ASSUME NEW p \in Int, NEW r \in Int, NEW q \in Nat \ {0}, p <= r
  PROVE  Rounded(p, q) \in Int /\ Rounded(p, q) <= Rounded(r, q)
<1> DEFINE a == (200 * p) + q
           c == (200 * r) + q
           b == 2 * q
<1>1. a \in Int /\ c \in Int /\ b \in Nat \ {0} /\ a <= c
  OBVIOUS
<1>2. Rounded(p, q) = a \div b /\ Rounded(r, q) = c \div b
  BY DEF Rounded
<1> HIDE DEF a, b, c
<1>3. a \div b \in Int /\ a \div b <= c \div b
  BY <1>1
<1> QED
  BY <1>2, <1>3

LEMMA RoundedScales ==
  ASSUME NEW p \in Int, NEW q \in Nat \ {0}, NEW k \in Nat \ {0}
  PROVE  Rounded(k * p, k * q) = Rounded(p, q)
<1> DEFINE a == (200 * p) + q
           b == 2 * q
<1>1. a \in Int /\ b \in Nat \ {0}
  OBVIOUS
<1>2. (200 * (k * p)) + (k * q) = k * a /\ 2 * (k * q) = k * b
  OBVIOUS
<1> HIDE DEF a, b
<1>3. (k * a) \div (k * b) = a \div b
  BY <1>1
<1>4. Rounded(k * p, k * q) = (k * a) \div (k * b)
  BY <1>2 DEF Rounded
<1> QED
  BY <1>3, <1>4 DEF Rounded, a, b

LEMMA RoundedWhole ==
  ASSUME NEW m \in Int, NEW q \in Nat \ {0}
  PROVE  Rounded(m * q, q) = 100 * m
<1>1. Rounded(q * m, q * 1) = Rounded(m, 1)
  BY RoundedScales
<1>2. q * m = m * q /\ q * 1 = q
  OBVIOUS
<1>3. Rounded(m, 1) = 100 * m
  BY DEF Rounded
<1> QED
  BY <1>1, <1>2, <1>3

\* The worst quarter has a segment and no more than the route.
LEMMA FewOfThem ==
  ASSUME NEW count \in Nat \ {0}
  PROVE  worst_segment_count(count) \in 1..count
<1> DEFINE part == (count * WorstRatio + 99) \div 100
           most == Max({1, part})
<1>1. WorstRatio \in Nat
  BY ConfigAccepted DEF RouteComfortConfig
<1>2. part \in Int
  <2>1. count * WorstRatio \in Nat
    BY <1>1
  <2> QED
    BY <2>1
<1> HIDE DEF part
<1>3. most \in {1, part} /\ 1 <= most
  <2>1. \E x \in {1, part} : \A y \in {1, part} : x >= y
    BY <1>2
  <2>2. most \in {1, part} /\ \A y \in {1, part} : most >= y
    BY <2>1 DEF Max
  <2> QED
    BY <1>2, <2>2
<1> HIDE DEF most
<1>4. most \in Nat
  BY <1>2, <1>3
<1>5. Min({count, most}) \in {count, most} /\ Min({count, most}) <= count
  <2>1. \E x \in {count, most} : \A y \in {count, most} : x <= y
    BY <1>4
  <2> QED
    BY <2>1 DEF Min
<1> QED
  BY <1>3, <1>4, <1>5 DEF worst_segment_count, most, part

Few(drive) == worst_segment_count(Len(drive))
All(drive) == Points(drive, 1..Len(drive))
Rough(drive) == Points(drive, Worst(drive, Few(drive)))

LEMMA RouteScored ==
  ASSUME NEW drive \in Seq(Int), drive # << >>
  PROVE  /\ Len(drive) \in Nat \ {0} /\ Few(drive) \in 1..Len(drive)
         /\ All(drive) \in Int /\ Rough(drive) \in Int
         /\ Len(drive) * Rough(drive) <= Few(drive) * All(drive)
         /\ score_route(drive) =
              [comfort |-> Rounded(AverageWeight * All(drive) * Few(drive)
                                     + WorstQuartileWeight * Rough(drive) * Len(drive),
                                   10 * Len(drive) * Few(drive)),
               average |-> Rounded(All(drive), Len(drive)),
               worst |-> Rounded(Rough(drive), Few(drive))]
<1>1. Len(drive) \in Nat \ {0}
  OBVIOUS
<1>2. Few(drive) \in 1..Len(drive)
  BY <1>1, FewOfThem DEF Few
<1>3. All(drive) \in Int /\ Rough(drive) \in Int
  BY PointsTyped DEF All, Rough
<1>4. Len(drive) * Rough(drive) <= Few(drive) * All(drive)
  BY <1>2, Lightest DEF All, Rough
<1> QED
  BY <1>1, <1>2, <1>3, <1>4 DEF score_route, All, Rough, Few, Worst

LEMMA ComfortIs ==
  ASSUME NEW drive \in Seq(Int), drive # << >>
  PROVE  score_route(drive).comfort
           = Rounded(AverageWeight * All(drive) * Few(drive)
                       + WorstQuartileWeight * Rough(drive) * Len(drive),
                     10 * Len(drive) * Few(drive))
  BY RouteScored

\* What is no better on average and in its worst quarter has no better comfort.
LEMMA ComfortFollows ==
  ASSUME NEW a \in Seq(Int), a # << >>, NEW b \in Seq(Int), b # << >>, Len(a) = Len(b),
         All(a) <= All(b), Rough(a) <= Rough(b)
  PROVE  score_route(a).comfort <= score_route(b).comfort
<1> DEFINE n == Len(a)
           f == Few(a)
           p == AverageWeight * All(a) * f + WorstQuartileWeight * Rough(a) * n
           r == AverageWeight * All(b) * f + WorstQuartileWeight * Rough(b) * n
           q == 10 * n * f
<1>1. /\ n \in Nat \ {0} /\ f \in 1..n /\ n = Len(b) /\ f = Few(b)
      /\ All(a) \in Int /\ All(b) \in Int /\ Rough(a) \in Int /\ Rough(b) \in Int
  BY RouteScored DEF Few
<1>2. AverageWeight \in Nat /\ WorstQuartileWeight \in Nat
  BY ConfigAccepted DEF RouteComfortConfig
<1> HIDE DEF n, f
<1>3. score_route(a).comfort = Rounded(p, q) /\ score_route(b).comfort = Rounded(r, q)
  <2>1. score_route(a).comfort = Rounded(p, q)
    <3>1. score_route(a).comfort
            = Rounded(AverageWeight * All(a) * Few(a) + WorstQuartileWeight * Rough(a) * Len(a),
                      10 * Len(a) * Few(a))
      BY ComfortIs
    <3> QED
      BY <3>1 DEF n, f
  <2>2. score_route(b).comfort
          = Rounded(AverageWeight * All(b) * Few(b) + WorstQuartileWeight * Rough(b) * Len(b),
                    10 * Len(b) * Few(b))
    BY ComfortIs
  <2> QED
    BY <1>1, <2>1, <2>2
<1>4. q \in Nat \ {0}
  BY <1>1
<1>5. \A x, y \in Int, k, m \in Nat : x <= y => k * x * m <= k * y * m /\ k * x * m \in Int
  OBVIOUS
<1>6. p \in Int /\ r \in Int /\ p <= r
  <2>1. f \in Nat /\ n \in Nat
    BY <1>1
  <2>2. /\ AverageWeight * All(a) * f <= AverageWeight * All(b) * f
        /\ WorstQuartileWeight * Rough(a) * n <= WorstQuartileWeight * Rough(b) * n
    BY <1>1, <1>2, <1>5, <2>1
  <2>3. /\ AverageWeight * All(a) * f \in Int /\ AverageWeight * All(b) * f \in Int
        /\ WorstQuartileWeight * Rough(a) * n \in Int /\ WorstQuartileWeight * Rough(b) * n \in Int
    <3>1. \A x \in Int, k, m \in Nat : k * x * m \in Int
      OBVIOUS
    <3> HIDE DEF p, q, r
    <3> QED
      BY <1>1, <1>2, <2>1, <3>1
  <2>4. \A w, x, y, z \in Int : w <= x /\ y <= z => w + y \in Int /\ x + z \in Int /\ w + y <= x + z
    OBVIOUS
  <2> QED
    BY <2>2, <2>3, <2>4
<1> HIDE DEF p, q, r
<1> QED
  BY <1>3, <1>4, <1>6, RoundedOrders

\* The comfort lies between the worst quarter and the average.
LEMMA ComfortBetween ==
  ASSUME NEW drive \in Seq(Int), drive # << >>
  PROVE  /\ score_route(drive).worst <= score_route(drive).comfort
         /\ score_route(drive).comfort <= score_route(drive).average
<1> DEFINE n == Len(drive)
           f == Few(drive)
           all == All(drive)
           low == Rough(drive)
           p == AverageWeight * all * f + WorstQuartileWeight * low * n
           q == 10 * n * f
<1>1. /\ n \in Nat \ {0} /\ f \in 1..n /\ all \in Int /\ low \in Int /\ n * low <= f * all
      /\ score_route(drive).comfort = Rounded(p, q)
      /\ score_route(drive).average = Rounded(all, n)
      /\ score_route(drive).worst = Rounded(low, f)
  BY RouteScored
<1>2. AverageWeight \in Nat /\ WorstQuartileWeight \in Nat /\ AverageWeight + WorstQuartileWeight = 10
  BY ConfigAccepted DEF RouteComfortConfig
<1> HIDE DEF n, f, all, low
<1>3. PICK x \in Int : x = f * all
  BY <1>1
<1>4. PICK y \in Int : y = n * low
  BY <1>1
<1>5. p = AverageWeight * x + WorstQuartileWeight * y
  <2>1. AverageWeight * all * f = AverageWeight * (f * all)
    BY <1>1, <1>2
  <2>2. WorstQuartileWeight * low * n = WorstQuartileWeight * (n * low)
    BY <1>1, <1>2
  <2> QED
    BY <1>3, <1>4, <2>1, <2>2
<1>6. y <= x
  BY <1>1, <1>3, <1>4
<1>7. p \in Int /\ 10 * y <= p /\ p <= 10 * x
  <2>1. AverageWeight * y <= AverageWeight * x /\ WorstQuartileWeight * y <= WorstQuartileWeight * x
    <3>1. \A k \in Nat, a, b \in Int : a <= b => k * a <= k * b
      OBVIOUS
    <3> QED
      BY <1>2, <1>6, <3>1
  <2>2. /\ AverageWeight * y + WorstQuartileWeight * y = 10 * y
        /\ AverageWeight * x + WorstQuartileWeight * x = 10 * x
    <3>1. \A j, k \in Nat, a \in Int : j * a + k * a = (j + k) * a
      OBVIOUS
    <3> QED
      BY <1>2, <3>1
  <2>3. /\ AverageWeight * y \in Int /\ WorstQuartileWeight * y \in Int
        /\ AverageWeight * x \in Int /\ WorstQuartileWeight * x \in Int
    BY <1>2
  <2>4. \A a, b, c, e \in Int : a <= b /\ c <= e => a + c <= b + c /\ b + c <= b + e /\ b + c \in Int
    OBVIOUS
  <2> HIDE DEF p
  <2> QED
    BY <1>5, <2>1, <2>2, <2>3, <2>4
<1>8. Rounded(low, f) = Rounded(10 * y, q)
  <2>1. Rounded((10 * n) * low, (10 * n) * f) = Rounded(low, f)
    <3>1. 10 * n \in Nat \ {0} /\ f \in Nat \ {0}
      BY <1>1
    <3> QED
      BY <1>1, <3>1, RoundedScales
  <2>2. (10 * n) * low = 10 * y
    BY <1>1, <1>4
  <2> QED
    BY <2>1, <2>2
<1>9. Rounded(all, n) = Rounded(10 * x, q)
  <2>1. Rounded((10 * f) * all, (10 * f) * n) = Rounded(all, n)
    <3>1. 10 * f \in Nat \ {0} /\ n \in Nat \ {0}
      BY <1>1
    <3> QED
      BY <1>1, <3>1, RoundedScales
  <2>2. (10 * f) * all = 10 * x /\ (10 * f) * n = q
    BY <1>1, <1>3
  <2> QED
    BY <2>1, <2>2
<1>10. q \in Nat \ {0} /\ 10 * y \in Int /\ 10 * x \in Int
  BY <1>1
<1> HIDE DEF p, q
<1>11. Rounded(10 * y, q) <= Rounded(p, q) /\ Rounded(p, q) <= Rounded(10 * x, q)
  BY <1>7, <1>10, RoundedOrders
<1> QED
  BY <1>1, <1>8, <1>9, <1>11

\* Sums over places that agree.
LEMMA PointsSame ==
  ASSUME NEW s \in Seq(Int), NEW u \in Seq(Int), Len(s) = Len(u), NEW P,
         \A k \in 1..Len(s) : k \in P => s[k] <= u[k]
  PROVE  Points(s, P) <= Points(u, P)
<1>1. \A k \in 1..Len(s) : s[k] \in Int /\ u[k] \in Int
  OBVIOUS
<1>2. ASSUME NEW k \in 1..Len(s) PROVE Part(s, P)[k] <= Part(u, P)[k]
  <2>1. /\ Part(s, P)[k] = IF k \in P THEN s[k] ELSE 0
        /\ Part(u, P)[k] = IF k \in P THEN u[k] ELSE 0
    BY PartTyped
  <2> QED
    BY <1>1, <2>1
<1> QED
  BY <1>2, PointsOrder

\* A worse score makes no other place of the worst ones better.
LEMMA RoughOrders ==
  ASSUME NEW s \in Seq(Int), NEW u \in Seq(Int), s # << >>, u # << >>, Len(s) = Len(u),
         \A k \in 1..Len(s) : s[k] <= u[k]
  PROVE  All(s) <= All(u) /\ Rough(s) <= Rough(u)
<1>1. Few(s) = Few(u) /\ Few(s) \in 1..Len(s)
  BY RouteScored DEF Few
<1>2. All(s) <= All(u)
  BY PointsSame DEF All
<1> DEFINE T == Worst(u, Few(s))
<1>3. T \in SUBSET (1..Len(s)) /\ Cardinality(T) = Few(s)
  BY <1>1, WorstAre
<1>4. Points(s, T) <= Points(u, T)
  BY PointsSame
<1>5. Rough(s) <= Points(s, T)
  <2> HIDE DEF T
  <2> QED
    BY <1>1, <1>3, Lightest DEF Rough
<1>6. Rough(u) = Points(u, T)
  BY <1>1 DEF Rough
<1>7. Points(s, T) \in Int /\ Points(u, T) \in Int /\ Rough(s) \in Int
  BY PointsTyped DEF Rough
<1> HIDE DEF T
<1> QED
  BY <1>2, <1>4, <1>5, <1>6, <1>7

LEMMA OnePlace ==
  ASSUME NEW s \in Seq(Int), NEW i \in 1..Len(s)
  PROVE  Points(s, {i}) = s[i]
<1>1. Points(s, {i}) = s[i] * Cardinality({i})
  <2>1. PICK P : P = {i}
    OBVIOUS
  <2>2. P \subseteq 1..Len(s) /\ s[i] \in Int /\ \A k \in P : s[k] = s[i]
    BY <2>1
  <2>3. Points(s, P) = s[i] * Cardinality(P)
    BY <2>2, PointsConstant
  <2> QED
    BY <2>1, <2>3
<1>2. Cardinality({i}) = 1
  BY FS_Singleton
<1>3. s[i] \in Int
  OBVIOUS
<1> QED
  BY <1>1, <1>2, <1>3

LEMMA PartAt ==
  ASSUME NEW s \in Seq(Int), NEW P, NEW k \in 1..Len(s)
  PROVE  Part(s, P)[k] = (IF k \in P THEN s[k] ELSE 0) /\ Part(s, P)[k] \in Int
<1>1. s[k] \in Int
  OBVIOUS
<1>2. Part(s, P)[k] = IF k \in P THEN s[k] ELSE 0
  BY PartTyped
<1> QED
  BY <1>1, <1>2

\* What adds a at one place and b at another.
TwoParts(more, K, n, i, j, a, b) ==
  /\ more \in Seq(Int) /\ Len(more) = n
  /\ Part(more, K)[i] = a /\ Part(more, K)[j] = b
  /\ \A k \in 1..n : k # i /\ k # j => Part(more, K)[k] = 0

LEMMA TwoAdded ==
  ASSUME NEW n \in Nat, NEW i \in 1..n, NEW j \in 1..n, i # j, NEW a \in Int, NEW b \in Int
  PROVE  \E more, K : TwoParts(more, K, n, i, j, a, b) /\ Points(more, K) = a + b
<1> DEFINE m == [k \in 1..n |-> IF k = i THEN a ELSE IF k = j THEN b ELSE 0]
<1>1. /\ m \in [1..n -> Int] /\ m[i] = a /\ m[j] = b
      /\ \A k \in 1..n : k # i /\ k # j => m[k] = 0
  OBVIOUS
<1>2. m \in Seq(Int) /\ Len(m) = n
  BY <1>1
<1> HIDE DEF m
<1>3. PICK more \in Seq(Int) : /\ Len(more) = n /\ more[i] = a /\ more[j] = b
                               /\ \A k \in 1..n : k # i /\ k # j => more[k] = 0
  BY <1>1, <1>2
<1>4. PICK I : I = {i}
  OBVIOUS
<1>5. PICK J : J = {j}
  OBVIOUS
<1>6. PICK K : K = {i, j}
  OBVIOUS
<1>7. ASSUME NEW k \in 1..n
      PROVE  /\ Part(more, K)[k] = IF k = i THEN a ELSE IF k = j THEN b ELSE 0
             /\ Part(more, I)[k] = IF k = i THEN a ELSE 0
             /\ Part(more, J)[k] = IF k = j THEN b ELSE 0
  <2>1. k \in 1..Len(more)
    BY <1>3
  <2>2. /\ Part(more, K)[k] = IF k \in K THEN more[k] ELSE 0
        /\ Part(more, I)[k] = IF k \in I THEN more[k] ELSE 0
        /\ Part(more, J)[k] = IF k \in J THEN more[k] ELSE 0
    BY <2>1, PartAt
  <2>3. (k \in I <=> k = i) /\ (k \in J <=> k = j) /\ (k \in K <=> k = i \/ k = j)
    BY <1>4, <1>5, <1>6
  <2>4. (k = i => more[k] = a) /\ (k = j => more[k] = b)
    BY <1>3
  <2> QED
    BY <2>2, <2>3, <2>4
<1>8. ASSUME NEW k \in 1..Len(more)
      PROVE  Part(more, K)[k] = Part(more, I)[k] + Part(more, J)[k]
  <2>1. k \in 1..n
    BY <1>3
  <2>2. /\ Part(more, K)[k] = IF k = i THEN a ELSE IF k = j THEN b ELSE 0
        /\ Part(more, I)[k] = IF k = i THEN a ELSE 0
        /\ Part(more, J)[k] = IF k = j THEN b ELSE 0
    BY <1>7, <2>1
  <2> QED
    BY <2>2
<1>9. Points(more, K) = Points(more, I) + Points(more, J)
  BY <1>8, PointsAdd
<1>10. Points(more, I) = a /\ Points(more, J) = b
  <2>1. i \in 1..Len(more) /\ j \in 1..Len(more)
    BY <1>3
  <2>2. Points(more, {i}) = more[i] /\ Points(more, {j}) = more[j]
    BY <2>1, OnePlace
  <2> QED
    BY <1>3, <1>4, <1>5, <2>2
<1>11. Part(more, K)[i] = a
  BY <1>7
<1>12. Part(more, K)[j] = b
  BY <1>7
<1>13. \A k \in 1..n : k # i /\ k # j => Part(more, K)[k] = 0
  BY <1>7
<1>14. TwoParts(more, K, n, i, j, a, b)
  BY <1>3, <1>11, <1>12, <1>13 DEF TwoParts
<1> QED
  BY <1>9, <1>10, <1>14

\* What two places add to a sum.
Differs(s, P, u, Q, i, j, a, b) ==
  /\ Part(s, P)[i] = Part(u, Q)[i] + a /\ Part(s, P)[j] = Part(u, Q)[j] + b
  /\ \A k \in 1..Len(s) : k # i /\ k # j => Part(s, P)[k] = Part(u, Q)[k]

LEMMA TwoPlaces ==
  ASSUME NEW s \in Seq(Int), NEW P, NEW u \in Seq(Int), NEW Q, Len(s) = Len(u),
         NEW i \in 1..Len(s), NEW j \in 1..Len(s), i # j, NEW a \in Int, NEW b \in Int,
         Differs(s, P, u, Q, i, j, a, b)
  PROVE  Points(s, P) = Points(u, Q) + (a + b)
<1>1. Len(s) \in Nat
  OBVIOUS
<1>2. PICK more, K : TwoParts(more, K, Len(s), i, j, a, b) /\ Points(more, K) = a + b
  BY <1>1, TwoAdded
<1>3. more \in Seq(Int) /\ Len(more) = Len(s)
  BY <1>2 DEF TwoParts
<1>4. ASSUME NEW k \in 1..Len(s) PROVE Part(s, P)[k] = Part(u, Q)[k] + Part(more, K)[k]
  <2>1. Part(u, Q)[k] \in Int
    BY PartAt
  <2>2. CASE k = i
    BY <1>2, <2>2 DEF TwoParts, Differs
  <2>3. CASE k = j
    BY <1>2, <2>3 DEF TwoParts, Differs
  <2>4. CASE k # i /\ k # j
    <3>1. Part(s, P)[k] = Part(u, Q)[k]
      BY <2>4 DEF Differs
    <3>2. Part(more, K)[k] = 0
      BY <1>2, <2>4 DEF TwoParts
    <3> QED
      BY <2>1, <3>1, <3>2
  <2> QED
    BY <2>2, <2>3, <2>4
<1>5. Points(s, P) = Points(u, Q) + Points(more, K)
  BY <1>3, <1>4, PointsAdd
<1> QED
  BY <1>2, <1>5

LEMMA MovedIs ==
  ASSUME NEW s \in Seq(Int), NEW i \in 1..Len(s), NEW c \in Int
  PROVE  /\ [s EXCEPT ![i] = @ + c] \in Seq(Int) /\ Len([s EXCEPT ![i] = @ + c]) = Len(s)
         /\ [s EXCEPT ![i] = @ + c][i] = s[i] + c
         /\ \A k \in 1..Len(s) : k # i => [s EXCEPT ![i] = @ + c][k] = s[k]
<1> DEFINE n == Len(s)
<1>1. n \in Nat /\ s \in [1..n -> Int] /\ i \in 1..n /\ s[i] + c \in Int
  OBVIOUS
<1>2. s \in [1..Len(s) -> Int]
  OBVIOUS
<1> HIDE DEF n
<1>3. PICK u : u = [s EXCEPT ![i] = @ + c]
  OBVIOUS
<1>4. u \in [1..n -> Int] /\ u[i] = s[i] + c /\ \A k \in 1..n : k # i => u[k] = s[k]
  BY <1>1, <1>3
<1>5. u \in Seq(Int) /\ Len(u) = n
  BY <1>1, <1>4
<1> QED
  BY <1>3, <1>4, <1>5 DEF n

\* One score goes down and one up.
LEMMA RoughMix ==
  ASSUME NEW s \in Seq(Int), NEW u \in Seq(Int), Len(s) = Len(u),
         NEW i \in 1..Len(s), NEW j \in 1..Len(s), i # j,
         u[i] = s[i] - 1, u[j] = s[j] + 1,
         \A k \in 1..Len(s) : k # i /\ k # j => u[k] = s[k],
         s[i] <= s[j]
  PROVE  s # << >> /\ u # << >> /\ All(u) <= All(s) /\ Rough(u) <= Rough(s)
<1> DEFINE n == Len(s)
           W == Worst(s, Few(s))
<1>1. s # << >> /\ u # << >>
  OBVIOUS
<1>2. /\ n \in Nat /\ n = Len(u) /\ i \in 1..n /\ j \in 1..n
      /\ Few(u) = Few(s) /\ Few(s) \in 1..n /\ All(s) \in Int /\ Rough(s) \in Int
  BY <1>1, RouteScored DEF Few
<1>3. \A k \in 1..n : s[k] \in Int
  OBVIOUS
<1>4. /\ u[i] = s[i] - 1 /\ u[j] = s[j] + 1
      /\ \A k \in 1..n : k # i /\ k # j => u[k] = s[k]
  OBVIOUS
<1>5. W \subseteq 1..n /\ IsFiniteSet(W) /\ Cardinality(W) = Few(s) /\ Rough(s) = Points(s, W)
  BY <1>2, WorstAre DEF Rough
<1> HIDE DEF n, W
<1>6. ASSUME NEW P, NEW Q, NEW k \in 1..n
      PROVE  /\ Part(u, P)[k] = IF k \in P THEN u[k] ELSE 0
             /\ Part(s, Q)[k] = IF k \in Q THEN s[k] ELSE 0
  <2>1. k \in 1..Len(u) /\ k \in 1..Len(s)
    BY <1>2 DEF n
  <2> QED
    BY <2>1, PartAt
<1>7. ASSUME NEW T \in SUBSET (1..n), Cardinality(T) = Few(s) PROVE Rough(u) <= Points(u, T)
  <2>1. Few(s) \in 1..Len(u) /\ T \in SUBSET (1..Len(u))
    BY <1>2
  <2>2. Points(u, Worst(u, Few(s))) <= Points(u, T)
    BY <1>7, <2>1, Lightest
  <2> QED
    BY <1>2, <2>2 DEF Rough
<1>8. ASSUME NEW P, NEW Q, NEW a \in Int, NEW b \in Int, Differs(u, P, s, Q, i, j, a, b)
      PROVE  Points(u, P) = Points(s, Q) + (a + b) /\ Points(s, Q) \in Int
  <2>1. i \in 1..Len(u) /\ j \in 1..Len(u)
    BY <1>2
  <2> QED
    BY <1>8, <2>1, TwoPlaces, PointsTyped
<1>9. All(u) <= All(s)
  <2>1. PICK D : D = 1..n
    OBVIOUS
  <2>2. Part(u, D)[i] = Part(s, D)[i] + (-1)
    <3>1. Part(u, D)[i] = u[i] /\ Part(s, D)[i] = s[i]
      BY <1>2, <1>6, <2>1
    <3> QED
      BY <1>2, <1>3, <1>4, <3>1
  <2>3. Part(u, D)[j] = Part(s, D)[j] + 1
    <3>1. Part(u, D)[j] = u[j] /\ Part(s, D)[j] = s[j]
      BY <1>2, <1>6, <2>1
    <3> QED
      BY <1>2, <1>3, <1>4, <3>1
  <2>4. ASSUME NEW k \in 1..n, k # i, k # j PROVE Part(u, D)[k] = Part(s, D)[k]
    <3>1. /\ Part(u, D)[k] = IF k \in D THEN u[k] ELSE 0
          /\ Part(s, D)[k] = IF k \in D THEN s[k] ELSE 0
      BY <1>6
    <3>2. u[k] = s[k]
      BY <1>4, <2>4
    <3> QED
      BY <3>1, <3>2
  <2>5. Differs(u, D, s, D, i, j, -1, 1)
    BY <1>2, <2>2, <2>3, <2>4 DEF Differs
  <2>6. Points(u, D) = Points(s, D) + (-1 + 1) /\ Points(s, D) \in Int
    BY <1>8, <2>5
  <2>7. All(u) = Points(u, D) /\ All(s) = Points(s, D)
    BY <1>2, <2>1 DEF All, n
  <2> QED
    BY <2>6, <2>7
<1>10. CASE j \in W /\ i \notin W
  <2>1. PICK T : T = (W \ {j}) \cup {i}
    OBVIOUS
  <2>2. T \in SUBSET (1..n) /\ (\A k \in 1..n : k # i /\ k # j => (k \in T <=> k \in W))
        /\ i \in T /\ j \notin T
    BY <1>2, <1>5, <1>10, <2>1
  <2>3. Cardinality(T) = Few(s)
    <3>1. IsFiniteSet(W \ {j}) /\ Cardinality(W \ {j}) = Few(s) - 1
      BY <1>5, <1>10, FS_RemoveElement
    <3>2. Cardinality((W \ {j}) \cup {i}) = Few(s) - 1 + 1
      BY <1>10, <3>1, FS_AddElement
    <3> QED
      BY <1>2, <2>1, <3>2
  <2>4. Part(u, T)[i] = Part(s, W)[i] + (s[i] - 1)
    <3>1. Part(u, T)[i] = u[i] /\ Part(s, W)[i] = 0
      BY <1>2, <1>6, <1>10, <2>2
    <3> QED
      BY <1>2, <1>3, <1>4, <3>1
  <2>5. Part(u, T)[j] = Part(s, W)[j] + (-s[j])
    <3>1. Part(u, T)[j] = 0 /\ Part(s, W)[j] = s[j]
      BY <1>2, <1>6, <1>10, <2>2
    <3> QED
      BY <1>2, <1>3, <3>1
  <2>6. ASSUME NEW k \in 1..n, k # i, k # j PROVE Part(u, T)[k] = Part(s, W)[k]
    <3>1. k \in T <=> k \in W
      BY <2>2, <2>6
    <3> QED
      BY <1>4, <1>6, <2>6, <3>1
  <2>7. Differs(u, T, s, W, i, j, s[i] - 1, -s[j])
    BY <1>2, <2>4, <2>5, <2>6 DEF Differs
  <2>8. s[i] \in Int /\ s[j] \in Int /\ s[i] <= s[j]
    BY <1>2, <1>3
  <2>9. Points(u, T) = Points(s, W) + (s[i] - 1 + -s[j]) /\ Points(s, W) \in Int
    <3>1. s[i] - 1 \in Int /\ -s[j] \in Int
      BY <2>8
    <3> QED
      BY <1>8, <2>7, <3>1
  <2>10. Points(u, T) <= Points(s, W) /\ Points(u, T) \in Int
    <3>1. PICK a \in Int : a = s[i]
      BY <2>8
    <3>2. PICK b \in Int : b = s[j]
      BY <2>8
    <3>3. PICK p \in Int : p = Points(s, W)
      BY <2>9
    <3>4. a <= b /\ Points(u, T) = p + (a - 1 + -b)
      BY <2>8, <2>9, <3>1, <3>2, <3>3
    <3>5. p + (a - 1 + -b) <= p /\ p + (a - 1 + -b) \in Int
      BY <3>4
    <3> QED
      BY <3>3, <3>4, <3>5
  <2>11. Rough(u) <= Points(u, T) /\ Rough(u) \in Int
    BY <1>7, <2>2, <2>3, PointsTyped DEF Rough
  <2>12. Rough(u) <= Rough(s)
    BY <1>2, <1>5, <2>10, <2>11
  <2> QED
    BY <1>1, <1>9, <2>12
<1>11. CASE ~(j \in W /\ i \notin W)
  <2>1. PICK a \in Int : a = IF i \in W THEN -1 ELSE 0
    OBVIOUS
  <2>2. PICK b \in Int : b = IF j \in W THEN 1 ELSE 0
    OBVIOUS
  <2>3. Part(u, W)[i] = Part(s, W)[i] + a
    <3>1. Part(u, W)[i] = (IF i \in W THEN u[i] ELSE 0) /\ Part(s, W)[i] = (IF i \in W THEN s[i] ELSE 0)
      BY <1>2, <1>6
    <3> QED
      BY <1>2, <1>3, <1>4, <2>1, <3>1
  <2>4. Part(u, W)[j] = Part(s, W)[j] + b
    <3>1. Part(u, W)[j] = (IF j \in W THEN u[j] ELSE 0) /\ Part(s, W)[j] = (IF j \in W THEN s[j] ELSE 0)
      BY <1>2, <1>6
    <3> QED
      BY <1>2, <1>3, <1>4, <2>2, <3>1
  <2>5. ASSUME NEW k \in 1..n, k # i, k # j PROVE Part(u, W)[k] = Part(s, W)[k]
    <3>1. /\ Part(u, W)[k] = IF k \in W THEN u[k] ELSE 0
          /\ Part(s, W)[k] = IF k \in W THEN s[k] ELSE 0
      BY <1>6
    <3>2. u[k] = s[k]
      BY <1>4, <2>5
    <3> QED
      BY <3>1, <3>2
  <2>6. Differs(u, W, s, W, i, j, a, b)
    BY <1>2, <2>3, <2>4, <2>5 DEF Differs
  <2>7. Points(u, W) = Points(s, W) + (a + b) /\ Points(s, W) \in Int
    BY <1>8, <2>6
  <2>8. a + b <= 0
    BY <1>11, <2>1, <2>2
  <2>9. Points(u, W) <= Points(s, W) /\ Points(u, W) \in Int
    BY <2>7, <2>8
  <2>10. Rough(u) <= Points(u, W) /\ Rough(u) \in Int
    BY <1>5, <1>7, PointsTyped DEF Rough
  <2>11. Rough(u) <= Rough(s)
    BY <1>2, <1>5, <2>9, <2>10
  <2> QED
    BY <1>1, <1>9, <2>11
<1> QED
  BY <1>10, <1>11

LEMMA NoGain == RoughnessNeverPays
<1> SUFFICES ASSUME NEW drive \in Drives
             PROVE  /\ score_route(drive).worst <= score_route(drive).comfort
                    /\ score_route(drive).comfort <= score_route(drive).average
                    /\ \A i \in DOMAIN drive :
                         score_route([drive EXCEPT ![i] = @ + -1]).comfort
                           <= score_route(drive).comfort
                    /\ \A i, j \in DOMAIN drive : i # j /\ drive[i] <= drive[j] =>
                         score_route([[drive EXCEPT ![i] = @ + -1] EXCEPT ![j] = @ + 1]).comfort
                           <= score_route(drive).comfort
  BY DEF RoughnessNeverPays
<1>1. drive \in Seq(Int) /\ drive # << >>
  BY ServingAssumption
<1>2. DOMAIN drive = 1..Len(drive) /\ \A k \in 1..Len(drive) : drive[k] \in Int
  BY <1>1
<1>3. ASSUME NEW i \in DOMAIN drive
      PROVE  score_route([drive EXCEPT ![i] = @ + -1]).comfort <= score_route(drive).comfort
  <2>1. PICK u : u = [drive EXCEPT ![i] = @ + -1]
    OBVIOUS
  <2>2. /\ u \in Seq(Int) /\ Len(u) = Len(drive) /\ u[i] = drive[i] + -1
        /\ \A k \in 1..Len(drive) : k # i => u[k] = drive[k]
    BY <1>1, <1>2, <2>1, MovedIs
  <2>3. u # << >>
    BY <1>1, <2>2
  <2>4. \A k \in 1..Len(u) : u[k] <= drive[k]
    BY <1>2, <2>2
  <2>5. All(u) <= All(drive) /\ Rough(u) <= Rough(drive)
    BY <1>1, <2>2, <2>3, <2>4, RoughOrders
  <2>6. score_route(u).comfort <= score_route(drive).comfort
    BY <1>1, <2>2, <2>3, <2>5, ComfortFollows
  <2> QED
    BY <2>1, <2>6
<1>4. ASSUME NEW i \in DOMAIN drive, NEW j \in DOMAIN drive, i # j, drive[i] <= drive[j]
      PROVE  score_route([[drive EXCEPT ![i] = @ + -1] EXCEPT ![j] = @ + 1]).comfort
               <= score_route(drive).comfort
  <2>1. PICK u : u = [drive EXCEPT ![i] = @ + -1]
    OBVIOUS
  <2>2. /\ u \in Seq(Int) /\ Len(u) = Len(drive) /\ u[i] = drive[i] + -1
        /\ \A k \in 1..Len(drive) : k # i => u[k] = drive[k]
    BY <1>1, <1>2, <2>1, MovedIs
  <2>3. PICK v : v = [u EXCEPT ![j] = @ + 1]
    OBVIOUS
  <2>4. /\ v \in Seq(Int) /\ Len(v) = Len(u) /\ v[j] = u[j] + 1
        /\ \A k \in 1..Len(u) : k # j => v[k] = u[k]
    BY <1>2, <2>2, <2>3, MovedIs
  <2>5. /\ v[i] = drive[i] - 1 /\ v[j] = drive[j] + 1
        /\ \A k \in 1..Len(drive) : k # i /\ k # j => v[k] = drive[k]
    BY <1>2, <1>4, <2>2, <2>4
  <2>6. v # << >> /\ All(v) <= All(drive) /\ Rough(v) <= Rough(drive)
    BY <1>1, <1>2, <1>4, <2>2, <2>4, <2>5, RoughMix
  <2>7. score_route(v).comfort <= score_route(drive).comfort
    BY <1>1, <2>2, <2>4, <2>6, ComfortFollows
  <2> QED
    BY <2>1, <2>3, <2>7
<1> QED
  BY <1>1, <1>3, <1>4, ComfortBetween

\* A bounded set of numbers has its greatest one.
LEMMA GreatestIn ==
  ASSUME NEW N \in Nat, NEW T, T \subseteq 0..N, T # {}
  PROVE  Max(T) \in T /\ \A y \in T : y <= Max(T)
<1> DEFINE left == {n \in 0..N : N - n \in T}
<1>1. left \subseteq Nat /\ left # {}
  <2>1. PICK y \in T : TRUE
    OBVIOUS
  <2>2. y \in 0..N /\ N - y \in 0..N /\ N - (N - y) = y
    BY <2>1
  <2>3. N - (N - y) \in T
    BY <2>2
  <2>4. N - y \in left
    BY <2>2, <2>3
  <2>5. left \subseteq Nat
    OBVIOUS
  <2> QED
    BY <2>4, <2>5
<1>2. PICK u \in left : \A n \in left : u <= n
  BY <1>1, SmallestIn
<1>3. PICK m \in T : m = N - u
  BY <1>2
<1>4. ASSUME NEW y \in T PROVE y <= m
  <2>1. y \in 0..N /\ N - y \in 0..N /\ N - (N - y) = y
    OBVIOUS
  <2>2. u <= N - y /\ u \in 0..N
    BY <1>2, <2>1
  <2> QED
    BY <1>3, <2>1, <2>2
<1>5. T \subseteq Int
  OBVIOUS
<1>6. Max(T) = m
  BY <1>4, <1>5, GreatestIs
<1> QED
  BY <1>4, <1>6

\* A route whose segments all score the same has that comfort.
LEMMA LevelRoute ==
  ASSUME NEW s \in Seq(Int), s # << >>, NEW c \in Int, \A k \in 1..Len(s) : s[k] = c
  PROVE  score_route(s).comfort = 100 * c
<1> DEFINE n == Len(s)
           f == Few(s)
           q == 10 * n * f
<1>1. n \in Nat \ {0} /\ f \in 1..n
  BY RouteScored
<1>2. All(s) = c * n
  <2>1. All(s) = c * Cardinality(1..n)
    BY PointsConstant DEF All
  <2> QED
    BY <1>1, <2>1, FS_Interval
<1>3. Rough(s) = c * f
  <2>1. /\ Worst(s, f) \subseteq 1..n /\ Cardinality(Worst(s, f)) = f
    BY <1>1, WorstAre
  <2>2. \A k \in Worst(s, f) : s[k] = c
    BY <2>1
  <2>3. Points(s, Worst(s, f)) = c * Cardinality(Worst(s, f))
    BY <2>1, <2>2, PointsConstant
  <2> QED
    BY <2>1, <2>3 DEF Rough
<1>4. AverageWeight \in Nat /\ WorstQuartileWeight \in Nat /\ AverageWeight + WorstQuartileWeight = 10
  BY ConfigAccepted DEF RouteComfortConfig
<1>5. score_route(s).comfort
        = Rounded(AverageWeight * All(s) * f + WorstQuartileWeight * Rough(s) * n, q)
  BY ComfortIs
<1> HIDE DEF n, f
<1>6. AverageWeight * (c * n) * f + WorstQuartileWeight * (c * f) * n = c * q
  <2>1. PICK x \in Int : x = c * n * f
    BY <1>1
  <2>2. AverageWeight * (c * n) * f = AverageWeight * x /\ WorstQuartileWeight * (c * f) * n = WorstQuartileWeight * x
    BY <1>1, <1>4, <2>1
  <2>3. c * q = 10 * x
    BY <1>1, <2>1
  <2>4. AverageWeight * x + WorstQuartileWeight * x = 10 * x
    <3>1. \A j, k \in Nat : j * x + k * x = (j + k) * x
      OBVIOUS
    <3> QED
      BY <1>4, <3>1
  <2> QED
    BY <2>2, <2>3, <2>4
<1>7. q \in Nat \ {0}
  BY <1>1
<1> HIDE DEF q
<1>8. Rounded(c * q, q) = 100 * c
  BY <1>7, RoundedWhole
<1> QED
  BY <1>2, <1>3, <1>5, <1>6, <1>8

\* No route is better or worse than its segments.
LEMMA RouteBounded ==
  ASSUME NEW s \in Seq(Int), s # << >>, NEW low \in Int, NEW high \in Int,
         \A k \in 1..Len(s) : low <= s[k] /\ s[k] <= high
  PROVE  score_route(s).comfort \in (100 * low)..(100 * high)
<1>1. Len(s) \in Nat \ {0}
  OBVIOUS
<1>2. ASSUME NEW c \in Int
      PROVE  \E u \in Seq(Int) : Len(u) = Len(s) /\ u # << >> /\ \A k \in 1..Len(s) : u[k] = c
  <2> DEFINE u == [k \in 1..Len(s) |-> c]
  <2>1. u \in Seq(Int) /\ Len(u) = Len(s) /\ \A k \in 1..Len(s) : u[k] = c
    BY <1>1
  <2>2. u # << >>
    BY <1>1, <2>1
  <2> HIDE DEF u
  <2> QED
    BY <2>1, <2>2
<1>3. PICK bad \in Seq(Int) :
        Len(bad) = Len(s) /\ bad # << >> /\ \A k \in 1..Len(s) : bad[k] = low
  BY <1>2
<1>4. PICK good \in Seq(Int) :
        Len(good) = Len(s) /\ good # << >> /\ \A k \in 1..Len(s) : good[k] = high
  BY <1>2
<1>5. score_route(bad).comfort = 100 * low
  BY <1>3, LevelRoute
<1>6. score_route(good).comfort = 100 * high
  BY <1>4, LevelRoute
<1>7. score_route(bad).comfort <= score_route(s).comfort
  <2>1. \A k \in 1..Len(bad) : bad[k] <= s[k]
    BY <1>3
  <2>2. All(bad) <= All(s) /\ Rough(bad) <= Rough(s)
    BY <1>3, <2>1, RoughOrders
  <2> QED
    BY <1>3, <2>2, ComfortFollows
<1>8. score_route(s).comfort <= score_route(good).comfort
  <2>1. \A k \in 1..Len(s) : s[k] <= good[k]
    BY <1>4
  <2>2. All(s) <= All(good) /\ Rough(s) <= Rough(good)
    BY <1>4, <2>1, RoughOrders
  <2> QED
    BY <1>4, <2>2, ComfortFollows
<1>9. score_route(s).comfort \in Int
  <2> DEFINE p == AverageWeight * All(s) * Few(s) + WorstQuartileWeight * Rough(s) * Len(s)
             q == 10 * Len(s) * Few(s)
  <2>1. Few(s) \in Nat \ {0} /\ All(s) \in Int /\ Rough(s) \in Int
    BY RouteScored
  <2>2. AverageWeight \in Nat /\ WorstQuartileWeight \in Nat
    BY ConfigAccepted DEF RouteComfortConfig
  <2>3. \A x \in Int, j, k \in Nat : j * x * k \in Int
    OBVIOUS
  <2>4. AverageWeight * All(s) * Few(s) \in Int /\ WorstQuartileWeight * Rough(s) * Len(s) \in Int
    BY <1>1, <2>1, <2>2, <2>3
  <2>5. p \in Int /\ p <= p
    BY <2>4
  <2>6. q \in Nat \ {0}
    BY <1>1, <2>1
  <2>7. score_route(s).comfort = Rounded(p, q)
    BY ComfortIs
  <2> HIDE DEF p, q
  <2> QED
    BY <2>5, <2>6, <2>7, RoundedOrders
<1> QED
  BY <1>5, <1>6, <1>7, <1>8, <1>9

-----------------------------------------------------------------------------
(***************************************************************************)
(* The segments of a request.                                              *)
(***************************************************************************)
LEMMA Appended ==
  ASSUME NEW S, NEW s \in Seq(S), NEW t \in Seq(S)
  PROVE  s \o t \in Seq(S) /\ ToSet(s \o t) = ToSet(s) \cup ToSet(t)
<1>1. /\ s \o t \in Seq(S) /\ Len(s \o t) = Len(s) + Len(t)
      /\ \A k \in 1..(Len(s) + Len(t)) :
           (s \o t)[k] = IF k <= Len(s) THEN s[k] ELSE t[k - Len(s)]
  OBVIOUS
<1>2. Len(s) \in Nat /\ Len(t) \in Nat /\ DOMAIN s = 1..Len(s) /\ DOMAIN t = 1..Len(t)
  OBVIOUS
<1>3. PICK w \in Seq(S) : w = s \o t
  BY <1>1
<1>4. /\ DOMAIN w = 1..(Len(s) + Len(t))
      /\ \A k \in 1..(Len(s) + Len(t)) : w[k] = IF k <= Len(s) THEN s[k] ELSE t[k - Len(s)]
  BY <1>1, <1>3
<1>5. ASSUME NEW x \in ToSet(w) PROVE x \in ToSet(s) \cup ToSet(t)
  <2>1. PICK k \in DOMAIN w : w[k] = x
    BY DEF ToSet
  <2>2. CASE k <= Len(s)
    <3>1. k \in DOMAIN s /\ x = s[k]
      BY <1>2, <1>4, <2>1, <2>2
    <3> QED
      BY <3>1 DEF ToSet
  <2>3. CASE ~(k <= Len(s))
    <3>1. k - Len(s) \in DOMAIN t /\ x = t[k - Len(s)]
      BY <1>2, <1>4, <2>1, <2>3
    <3> QED
      BY <3>1 DEF ToSet
  <2> QED
    BY <2>2, <2>3
<1>6. ASSUME NEW x \in ToSet(s) PROVE x \in ToSet(w)
  <2>1. PICK k \in DOMAIN s : s[k] = x
    BY DEF ToSet
  <2>2. k \in DOMAIN w /\ w[k] = x
    BY <1>2, <1>4, <2>1
  <2> QED
    BY <2>2 DEF ToSet
<1>7. ASSUME NEW x \in ToSet(t) PROVE x \in ToSet(w)
  <2>1. PICK k \in DOMAIN t : t[k] = x
    BY DEF ToSet
  <2>2. PICK m \in 1..(Len(s) + Len(t)) : m = k + Len(s)
    BY <1>2, <2>1
  <2>3. m - Len(s) = k /\ ~(m <= Len(s))
    BY <1>2, <2>1, <2>2
  <2>4. m \in DOMAIN w /\ w[m] = x
    BY <1>4, <2>1, <2>3
  <2> QED
    BY <2>4 DEF ToSet
<1> QED
  BY <1>1, <1>3, <1>5, <1>6, <1>7

Joins(f, s, N) == f = [i \in 1..N |-> IF i = 1 THEN s[i] ELSE f[i - 1] \o s[i]]

LEMMA JoinsExist ==
  ASSUME NEW S, NEW N \in Nat, NEW s \in [1..N -> Seq(S)]
  PROVE  \E f \in [1..N -> Seq(S)] : Joins(f, s, N)
<1> DEFINE good == {m \in 0..N : \E f \in [1..m -> Seq(S)] : Joins(f, s, m)}
<1>1. 0 \in good
  <2>1. PICK f : f = [i \in 1..0 |-> << >>]
    OBVIOUS
  <2>2. f = [i \in 1..0 |-> IF i = 1 THEN s[i] ELSE f[i - 1] \o s[i]]
    BY <2>1
  <2>3. f \in [1..0 -> Seq(S)] /\ 0 \in 0..N
    BY <2>1
  <2>4. Joins(f, s, 0)
    BY <2>2 DEF Joins
  <2> QED
    BY <2>3, <2>4
<1>2. ASSUME NEW m \in 1..N, m - 1 \in good PROVE m \in good
  <2>1. PICK g \in [1..(m - 1) -> Seq(S)] : Joins(g, s, m - 1)
    BY <1>2
  <2>2. PICK last \in Seq(S) : last = IF m = 1 THEN s[m] ELSE g[m - 1] \o s[m]
    <3>1. s[m] \in Seq(S)
      OBVIOUS
    <3>2. m # 1 => g[m - 1] \in Seq(S)
      OBVIOUS
    <3>3. m # 1 => g[m - 1] \o s[m] \in Seq(S)
      BY <3>1, <3>2
    <3> QED
      BY <3>1, <3>3
  <2>3. PICK f : f = [n \in 1..m |-> IF n = m THEN last ELSE g[n]]
    OBVIOUS
  <2>4. ASSUME NEW n \in 1..m PROVE f[n] \in Seq(S)
    <3>1. n # m => n \in 1..(m - 1)
      OBVIOUS
    <3> QED
      BY <2>3, <3>1
  <2>5. ASSUME NEW n \in 1..m
        PROVE  f[n] = IF n = 1 THEN s[n] ELSE f[n - 1] \o s[n]
    <3>1. CASE n = m
      <4>1. n # 1 => n - 1 \in 1..m /\ n - 1 # m
        BY <3>1
      <4>2. n # 1 => f[n - 1] = g[n - 1]
        BY <2>3, <4>1
      <4> QED
        BY <2>2, <2>3, <3>1, <4>2
    <3>2. CASE n # m
      <4>1. n \in 1..(m - 1) /\ f[n] = g[n]
        BY <2>3, <3>2
      <4>2. g[n] = IF n = 1 THEN s[n] ELSE g[n - 1] \o s[n]
        BY <2>1, <4>1 DEF Joins
      <4>3. n # 1 => n - 1 \in 1..m /\ n - 1 # m
        BY <4>1
      <4>4. n # 1 => f[n - 1] = g[n - 1]
        BY <2>3, <4>3
      <4> QED
        BY <4>1, <4>2, <4>4
    <3> QED
      BY <3>1, <3>2
  <2>6. f = [n \in 1..m |-> f[n]]
    BY <2>3
  <2>7. Joins(f, s, m)
    BY <2>5, <2>6 DEF Joins
  <2>8. f \in [1..m -> Seq(S)] /\ m \in 0..N
    BY <2>4, <2>6
  <2> QED
    BY <2>7, <2>8
<1> HIDE DEF good
<1>3. \A n \in 0..N : n \in good
  BY <1>1, <1>2, AllReached
<1>4. N \in good
  BY <1>3
<1> QED
  BY <1>4 DEF good

\* Flattened, the sequences keep their elements.
LEMMA FlattenedIs ==
  ASSUME NEW S, NEW N \in Nat \ {0}, NEW s \in [1..N -> Seq(S)]
  PROVE  /\ FlattenSeq(s) \in Seq(S)
         /\ ToSet(FlattenSeq(s)) = UNION {ToSet(s[r]) : r \in 1..N}
<1> DEFINE f == CHOOSE g : Joins(g, s, N)
<1>1. Len(s) = N /\ N # 0
  OBVIOUS
<1>2. FlattenSeq(s) = f[N]
  <2>1. f = CHOOSE g : g = [i \in 1..N |-> IF i = 1 THEN s[i] ELSE g[i - 1] \o s[i]]
    BY DEF Joins
  <2> QED
    BY <1>1, <2>1 DEF FlattenSeq
<1>3. Joins(f, s, N)
  BY JoinsExist
<1> HIDE DEF f
<1>4. \A n \in 1..N : f[n] = IF n = 1 THEN s[n] ELSE f[n - 1] \o s[n]
  BY <1>3 DEF Joins
<1> DEFINE Upto(n) == UNION {ToSet(s[r]) : r \in 1..n}
           good == {n \in 0..N : n = 0 \/ (f[n] \in Seq(S) /\ ToSet(f[n]) = Upto(n))}
<1>5. 0 \in good
  OBVIOUS
<1>6. ASSUME NEW n \in 1..N, n - 1 \in good PROVE n \in good
  <2>1. s[n] \in Seq(S) /\ n \in 0..N
    OBVIOUS
  <2>2. CASE n = 1
    <3>1. f[n] = s[n]
      BY <1>4, <2>2
    <3>2. 1..n = {n}
      BY <2>2
    <3>3. Upto(n) = ToSet(s[n])
      BY <3>2
    <3> QED
      BY <2>1, <3>1, <3>3
  <2>3. CASE n # 1
    <3>1. f[n - 1] \in Seq(S) /\ ToSet(f[n - 1]) = Upto(n - 1)
      BY <1>6, <2>3
    <3>2. f[n] = f[n - 1] \o s[n]
      BY <1>4, <2>3
    <3>3. f[n] \in Seq(S) /\ ToSet(f[n]) = ToSet(f[n - 1]) \cup ToSet(s[n])
      BY <2>1, <3>1, <3>2, Appended
    <3>4. 1..n = 1..(n - 1) \cup {n}
      BY <2>3
    <3>5. Upto(n) = Upto(n - 1) \cup ToSet(s[n])
      BY <3>4
    <3> HIDE DEF Upto
    <3> QED
      BY <2>1, <3>1, <3>3, <3>5
  <2> QED
    BY <2>2, <2>3
<1> HIDE DEF good
<1>7. \A n \in 0..N : n \in good
  BY <1>5, <1>6, AllReached
<1>8. N \in good /\ N # 0
  BY <1>7
<1> QED
  BY <1>2, <1>8 DEF good

\* What is kept are the elements at the places.
LEMMA KeptSet ==
  ASSUME NEW S, NEW s \in Seq(S), NEW P, P \subseteq DOMAIN s
  PROVE  /\ Kept(s, P) \in Seq(S)
         /\ ToSet(Kept(s, P)) = {s[i] : i \in P}
         /\ P = {} => Kept(s, P) = << >>
<1>1. PICK c : c = Cardinality(P)
  OBVIOUS
<1>2. PICK w : w = Kept(s, P)
  OBVIOUS
<1>3. w \in Seq(S) /\ Len(w) = c
  BY <1>1, <1>2, KeptIs
<1>4. PICK at \in [1..c -> P] :
        /\ \A n \in 1..c : w[n] = s[at[n]]
        /\ \A i \in P : \E n \in 1..c : at[n] = i
  BY <1>1, <1>2, KeptIs
<1>5. DOMAIN w = 1..c
  BY <1>3
<1>6. ToSet(w) = {s[i] : i \in P}
  <2>1. ASSUME NEW x \in ToSet(w) PROVE x \in {s[i] : i \in P}
    <3>1. PICK n \in 1..c : x = w[n]
      BY <1>5 DEF ToSet
    <3>2. at[n] \in P /\ x = s[at[n]]
      BY <1>4, <3>1
    <3> QED
      BY <3>2
  <2>2. ASSUME NEW i \in P PROVE s[i] \in ToSet(w)
    <3>1. PICK n \in 1..c : at[n] = i
      BY <1>4
    <3>2. w[n] = s[i]
      BY <1>4, <3>1
    <3> QED
      BY <1>5, <3>2 DEF ToSet
  <2> QED
    BY <2>1, <2>2
<1>7. P = {} => w = << >>
  <2>1. P = {} => c = 0
    BY <1>1, FS_EmptySet
  <2> QED
    BY <1>3, <2>1
<1> QED
  BY <1>2, <1>3, <1>6, <1>7

\* Unique, a segment is still asked for.
LEMMA UniqueIs ==
  ASSUME NEW S, NEW s \in Seq(S)
  PROVE  /\ _unique_segment_ids(s) \in Seq(S)
         /\ ToSet(_unique_segment_ids(s)) = ToSet(s)
<1> DEFINE P == {i \in DOMAIN s : \A j \in 1..(i - 1) : s[j] # s[i]}
<1>1. P \subseteq DOMAIN s /\ _unique_segment_ids(s) = Kept(s, P)
  BY DEF _unique_segment_ids
<1>2. DOMAIN s = 1..Len(s) /\ Len(s) \in Nat
  OBVIOUS
<1>3. ASSUME NEW x \in ToSet(s) PROVE \E i \in P : s[i] = x
  <2> DEFINE T == {i \in DOMAIN s : s[i] = x}
  <2>1. T # {} /\ T \subseteq Nat
    BY <1>2 DEF ToSet
  <2>2. PICK m \in T : \A y \in T : m <= y
    BY <2>1, SmallestIn
  <2>3. m \in DOMAIN s /\ s[m] = x
    BY <2>2
  <2>4. ASSUME NEW j \in 1..(m - 1) PROVE s[j] # s[m]
    <3>1. j \in DOMAIN s /\ ~(m <= j)
      BY <1>2, <2>3
    <3> QED
      BY <2>2, <2>3, <3>1
  <2>5. m \in P
    BY <2>3, <2>4
  <2> QED
    BY <2>3, <2>5
<1> HIDE DEF P
<1>4. Kept(s, P) \in Seq(S) /\ ToSet(Kept(s, P)) = {s[i] : i \in P}
  BY <1>1, KeptSet
<1>5. {s[i] : i \in P} = ToSet(s)
  BY <1>1, <1>3 DEF ToSet
<1> QED
  BY <1>1, <1>4, <1>5

Driven(route) ==
  route.segments \in Seq(Nat) /\ route.segments # << >> /\ route.id \in Nat

\* What a request asks for: n routes.
Asks(request, n) ==
  /\ n \in Nat \ {0} /\ DOMAIN request.routes = 1..n
  /\ \A r \in 1..n : Driven(request.routes[r])
  /\ SegmentsOf(request) \in Seq(Nat)
  /\ ToSet(SegmentsOf(request)) = UNION {ToSet(request.routes[r].segments) : r \in 1..n}

LEMMA RequestIs ==
  ASSUME NEW request \in Requests, ValidRequest(request)
  PROVE  \E n : Asks(request, n)
<1>1. request.routes \in Seq([id : Nat, segments : Seq(Nat)])
  BY ServingAssumption
<1>2. PICK R : R = [id : Nat, segments : Seq(Nat)]
  OBVIOUS
<1>a. PICK routes \in Seq(R) : routes = request.routes
  BY <1>1, <1>2
<1>3. PICK n \in Nat : n = Len(routes) /\ DOMAIN routes = 1..n
  OBVIOUS
<1>4. \A r \in 1..n : routes[r] \in R
  BY <1>3
<1>5. n # 0 /\ \A r \in 1..n : Len(routes[r].segments) > 0
  <2>1. Len(routes) \in 1..MaxRoutes /\ \A r \in DOMAIN routes : Len(routes[r].segments) > 0
    BY <1>a DEF ValidRequest
  <2> QED
    BY <1>3, <2>1
<1>6. ASSUME NEW r \in 1..n
      PROVE  /\ routes[r].segments \in Seq(Nat) /\ routes[r].segments # << >>
             /\ routes[r].id \in Nat
  <2>1. routes[r] \in [id : Nat, segments : Seq(Nat)]
    BY <1>2, <1>4
  <2>2. routes[r].segments \in Seq(Nat) /\ routes[r].id \in Nat
    BY <2>1
  <2>3. Len(routes[r].segments) > 0
    BY <1>5
  <2> QED
    BY <2>2, <2>3
<1>7. PICK s : s = [r \in 1..n |-> routes[r].segments]
  OBVIOUS
<1>8. s \in [1..n -> Seq(Nat)] /\ \A r \in 1..n : s[r] = routes[r].segments
  BY <1>6, <1>7
<1>9. SegmentsOf(request) = FlattenSeq(s)
  BY <1>a, <1>3, <1>7 DEF SegmentsOf
<1>10. FlattenSeq(s) \in Seq(Nat) /\ ToSet(FlattenSeq(s)) = UNION {ToSet(s[r]) : r \in 1..n}
  BY <1>5, <1>8, FlattenedIs
<1>11. UNION {ToSet(s[r]) : r \in 1..n} = UNION {ToSet(routes[r].segments) : r \in 1..n}
  BY <1>8
<1>12. SegmentsOf(request) \in Seq(Nat)
       /\ ToSet(SegmentsOf(request)) = UNION {ToSet(routes[r].segments) : r \in 1..n}
  BY <1>9, <1>10, <1>11
<1>13. n \in Nat \ {0}
  BY <1>5
<1> QED
  <2>1. \A r \in 1..n : Driven(routes[r])
    BY <1>6 DEF Driven
  <2> QED
    BY <1>a, <1>3, <1>12, <1>13, <2>1 DEF Asks

\* The rows of many segments are those of each, and have a score.
LEMMA FetchedIs ==
  ASSUME NEW profile, NEW segments, NEW history \in Histories,
         NEW found, found = fetch_many(profile, segments, history)
  PROVE  /\ DOMAIN found = {s \in segments : \/ <<s, profile>> \in DOMAIN history.current
                                             \/ <<s, profile>> \in DOMAIN history.later}
         /\ \A s \in DOMAIN found : /\ fetch_one(profile, s, history) = {found[s]}
                                    /\ found[s].score \in 0..100
<1> DEFINE corrected == {s \in segments : <<s, profile>> \in DOMAIN history.current}
           rest == {s \in segments \ corrected : <<s, profile>> \in DOMAIN history.later}
<1>1. found = [s \in corrected \cup rest |->
                 IF s \in corrected THEN [source |-> "current", score |-> history.current[<<s, profile>>]]
                 ELSE [source |-> "standard", score |-> history.later[<<s, profile>>]]]
  BY DEF fetch_many
<1>2. DOMAIN found = corrected \cup rest
  BY <1>1
<1>3. DOMAIN found = {s \in segments : \/ <<s, profile>> \in DOMAIN history.current
                                       \/ <<s, profile>> \in DOMAIN history.later}
  BY <1>2
<1>4. /\ \A row \in DOMAIN history.current : history.current[row] \in 0..100
      /\ \A row \in DOMAIN history.later : history.later[row] \in 0..100
  BY ServingAssumption
<1>5. ASSUME NEW s \in corrected
      PROVE  fetch_one(profile, s, history) = {found[s]} /\ found[s].score \in 0..100
  <2>1. /\ <<s, profile>> \in DOMAIN history.current
        /\ found[s] = [source |-> "current", score |-> history.current[<<s, profile>>]]
    BY <1>1
  <2>2. history.current[<<s, profile>>] \in 0..100
    BY <1>4, <2>1
  <2> QED
    BY <2>1, <2>2 DEF fetch_one
<1>6. ASSUME NEW s \in rest
      PROVE  fetch_one(profile, s, history) = {found[s]} /\ found[s].score \in 0..100
  <2>1. /\ <<s, profile>> \notin DOMAIN history.current /\ <<s, profile>> \in DOMAIN history.later
        /\ found[s] = [source |-> "standard", score |-> history.later[<<s, profile>>]]
    BY <1>1
  <2>2. history.later[<<s, profile>>] \in 0..100
    BY <1>4, <2>1
  <2>3. {<<s, profile>>} \cap DOMAIN history.later = {<<s, profile>>}
    BY <2>1
  <2>4. fetch_one(profile, s, history)
          = {[source |-> "standard", score |-> history.later[row]] : row \in {<<s, profile>>}}
    BY <2>1, <2>3 DEF fetch_one
  <2>5. PICK key : key = <<s, profile>>
    OBVIOUS
  <2>6. fetch_one(profile, s, history)
          = {[source |-> "standard", score |-> history.later[row]] : row \in {key}}
    BY <2>4, <2>5
  <2>7. fetch_one(profile, s, history) = {[source |-> "standard", score |-> history.later[key]]}
    BY <2>6
  <2> QED
    BY <2>1, <2>2, <2>5, <2>7
<1> QED
  BY <1>2, <1>3, <1>5, <1>6

\* The answer of the batch endpoint.
Tells(batch, found, asked, effective) ==
  /\ batch.effective = effective
  /\ ToSet(batch.not_found) = asked \ DOMAIN found
  /\ asked \subseteq DOMAIN found => batch.not_found = << >>
  /\ \E scored \in Seq(Nat) :
       /\ ToSet(scored) = DOMAIN found
       /\ batch.scores = [i \in DOMAIN scored |-> <<scored[i], found[scored[i]]>>]

\* The batch endpoint names what has a row and what has none.
LEMMA BatchIs ==
  ASSUME NEW profile, NEW segments \in Seq(Nat), NEW history,
         NEW batch, batch = read_comfort_scores(profile, segments, history),
         NEW found, found = fetch_many(_resolve_vehicle_profile_id(profile), ToSet(segments), history),
         DOMAIN found \subseteq ToSet(segments)
  PROVE  Tells(batch, found, ToSet(segments), _resolve_vehicle_profile_id(profile))
<1>1. PICK unique \in Seq(Nat) : /\ unique = _unique_segment_ids(segments)
                                 /\ ToSet(unique) = ToSet(segments)
  BY UniqueIs
<1>2. PICK has : has = {i \in DOMAIN unique : unique[i] \in DOMAIN found}
  OBVIOUS
<1>3. PICK lacks : lacks = {i \in DOMAIN unique : unique[i] \notin DOMAIN found}
  OBVIOUS
<1>4. has \subseteq DOMAIN unique /\ lacks \subseteq DOMAIN unique
  BY <1>2, <1>3
<1>5. PICK scored : scored = Kept(unique, has)
  OBVIOUS
<1>6. /\ batch.effective = _resolve_vehicle_profile_id(profile)
      /\ batch.scores = [i \in DOMAIN scored |-> <<scored[i], found[scored[i]]>>]
      /\ batch.not_found = Kept(unique, lacks)
  BY <1>1, <1>2, <1>3, <1>5 DEF read_comfort_scores
<1>7. scored \in Seq(Nat) /\ ToSet(scored) = {unique[i] : i \in has}
  BY <1>4, <1>5, KeptSet
<1>8. {unique[i] : i \in has} = DOMAIN found
  <2>1. {unique[i] : i \in has} = ToSet(unique) \cap DOMAIN found
    BY <1>2 DEF ToSet
  <2> QED
    BY <1>1, <2>1
<1>9. /\ ToSet(Kept(unique, lacks)) = {unique[i] : i \in lacks}
      /\ lacks = {} => Kept(unique, lacks) = << >>
  BY <1>4, KeptSet
<1>10. {unique[i] : i \in lacks} = ToSet(segments) \ DOMAIN found
  <2>1. {unique[i] : i \in lacks} = ToSet(unique) \ DOMAIN found
    BY <1>3 DEF ToSet
  <2> QED
    BY <1>1, <2>1
<1>11. ToSet(segments) \subseteq DOMAIN found => lacks = {}
  <2>1. \A i \in DOMAIN unique : unique[i] \in ToSet(segments)
    BY <1>1 DEF ToSet
  <2> QED
    BY <1>3, <2>1
<1> QED
  BY <1>6, <1>7, <1>8, <1>9, <1>10, <1>11 DEF Tells

\* A sort by the keys.
Ranking(keys, n) == [m \in 1..n |-> CHOOSE r \in 1..n : Rank(keys, r) = m]

Sorts(ranking, keys, n) ==
  /\ \A m \in 1..n : ranking[m] \in 1..n
  /\ \A r \in 1..n : \E m \in 1..n : ranking[m] = r
  /\ \A i, j \in 1..n : i < j => Before(keys, ranking[i], ranking[j])

LEMMA RankedIs ==
  ASSUME NEW n \in Nat, NEW keys \in [1..n -> Int]
  PROVE  Sorts(Ranking(keys, n), keys, n)
<1> DEFINE ranking == Ranking(keys, n)
<1>0. ranking = [m \in 1..n |-> CHOOSE r \in 1..n : Rank(keys, r) = m]
  BY DEF Ranking
<1> HIDE DEF ranking
<1>1. /\ \A i \in 1..n : Rank(keys, i) \in 1..n
      /\ \A i, k \in 1..n : Before(keys, i, k) => Rank(keys, i) < Rank(keys, k)
      /\ \A i, k \in 1..n : i # k => Before(keys, i, k) \/ Before(keys, k, i)
      /\ \A m \in 1..n : \E i \in 1..n : Rank(keys, i) = m
  BY RanksAre
<1>2. ASSUME NEW i \in 1..n, NEW k \in 1..n, Rank(keys, i) <= Rank(keys, k), i # k
      PROVE  Before(keys, i, k)
  <2> SUFFICES ASSUME Before(keys, k, i) PROVE FALSE
    BY <1>1, <1>2
  <2>1. Rank(keys, k) < Rank(keys, i)
    BY <1>1
  <2>2. Rank(keys, k) \in Int /\ Rank(keys, i) \in Int
    BY <1>1
  <2> QED
    BY <1>2, <2>1, <2>2
<1>3. ASSUME NEW m \in 1..n
      PROVE  ranking[m] \in 1..n /\ Rank(keys, ranking[m]) = m
  BY <1>0, <1>1
<1>4. ASSUME NEW r \in 1..n PROVE \E m \in 1..n : ranking[m] = r
  <2>1. PICK m \in 1..n : m = Rank(keys, r)
    BY <1>1
  <2>2. PICK k \in 1..n : k = ranking[m] /\ Rank(keys, k) = m
    BY <1>3
  <2>3. k = r
    <3> SUFFICES ASSUME k # r PROVE FALSE
      OBVIOUS
    <3>1. Rank(keys, k) < Rank(keys, r) \/ Rank(keys, r) < Rank(keys, k)
      BY <1>1
    <3> QED
      BY <2>1, <2>2, <3>1
  <2> QED
    BY <2>2, <2>3
<1>5. ASSUME NEW i \in 1..n, NEW j \in 1..n, i < j
      PROVE  Before(keys, ranking[i], ranking[j])
  <2>1. PICK a \in 1..n : a = ranking[i] /\ Rank(keys, a) = i
    BY <1>3
  <2>2. PICK b \in 1..n : b = ranking[j] /\ Rank(keys, b) = j
    BY <1>3
  <2>3. Rank(keys, a) <= Rank(keys, b) /\ a # b
    BY <1>5, <2>1, <2>2
  <2> QED
    BY <1>2, <2>1, <2>2, <2>3
<1> QED
  BY <1>3, <1>4, <1>5 DEF Sorts, ranking

LEMMA Counted == \A x \in 0..100 : x \in Int
OBVIOUS

\* A route's comfort is that of its scores, between the lowest and the highest
\* of those the batch endpoint shows of its segments.
LEMMA RouteAnswered ==
  ASSUME NEW route, Driven(route),
         NEW found, ToSet(route.segments) \subseteq DOMAIN found,
         \A s \in DOMAIN found : found[s].score \in 0..100,
         NEW V, V \subseteq 0..100,
         \A s \in ToSet(route.segments) : found[s].score \in V
  PROVE  /\ _evaluate(route, found).id = route.id
         /\ _evaluate(route, found).comfort \in Int
         /\ _evaluate(route, found).comfort \in (100 * Min(V))..(100 * Max(V))
<1>1. PICK segments \in Seq(Nat) : segments = route.segments /\ segments # << >>
  BY DEF Driven
<1>2. PICK n \in Nat \ {0} : n = Len(segments) /\ DOMAIN segments = 1..n
  BY <1>1
<1>3. PICK s : s = [i \in 1..n |-> found[segments[i]].score]
  OBVIOUS
<1>4. ASSUME NEW i \in 1..n PROVE s[i] \in V /\ s[i] \in 0..100
  <2>1. segments[i] \in ToSet(segments)
    BY <1>2 DEF ToSet
  <2> QED
    BY <1>1, <1>3, <2>1
<1>5. s \in [1..n -> Int]
  <2>1. ASSUME NEW i \in 1..n PROVE s[i] \in Int
    <3>1. s[i] \in 0..100
      BY <1>4
    <3> QED
      BY <3>1, Counted, Zenon
  <2> QED
    BY <1>3, <2>1
<1>6. s \in Seq(Int) /\ Len(s) = n
  BY <1>5
<1>7. s # << >>
  BY <1>2, <1>6
<1>8. V # {} /\ V \subseteq Nat
  BY <1>2, <1>4
<1>9. Min(V) \in V /\ \A y \in V : Min(V) <= y
  BY <1>8, SmallestIn
<1>10. Max(V) \in V /\ \A y \in V : y <= Max(V)
  BY <1>8, GreatestIn
<1>11. Min(V) \in Int /\ Max(V) \in Int
  <2>1. Min(V) \in 0..100 /\ Max(V) \in 0..100
    BY <1>9, <1>10
  <2> QED
    BY <2>1, Counted, Zenon
<1>12. score_route(s).comfort \in (100 * Min(V))..(100 * Max(V))
  <2>1. \A k \in 1..Len(s) : Min(V) <= s[k] /\ s[k] <= Max(V)
    BY <1>4, <1>6, <1>9, <1>10
  <2> QED
    BY <1>6, <1>7, <1>11, <2>1, RouteBounded
<1>13. _evaluate(route, found) = [id |-> route.id, comfort |-> score_route(s).comfort]
  BY <1>1, <1>2, <1>3 DEF _evaluate
<1>14. score_route(s).comfort \in Int
  BY <1>11, <1>12
<1> QED
  BY <1>12, <1>13, <1>14

LEMMA Answered == RequestsAnswered
<1> SUFFICES ASSUME NEW request \in Requests, ValidRequest(request), NEW history \in Histories
             PROVE
    LET reply == evaluate_routes(request, history)
        batch == read_comfort_scores(request.profile, SegmentsOf(request), history)
        shown == [i \in DOMAIN batch.scores |-> batch.scores[i][2].score]
        Place(id) == CHOOSE r \in DOMAIN request.routes : request.routes[r].id = id
        On(id) == {i \in DOMAIN batch.scores :
                     Contains(request.routes[Place(id)].segments, batch.scores[i][1])}
    IN /\ \A s \in ToSet(batch.not_found) :
            <<s, batch.effective>> \notin DOMAIN history.current \cup DOMAIN history.standard
       /\ \A i \in DOMAIN batch.scores :
            read_comfort_score(request.profile, batch.scores[i][1], history)
              = {batch.scores[i][2]}
       /\ reply.status = 404 => reply.missing = ToSet(batch.not_found)
       /\ reply.status = 200 =>
            /\ batch.not_found = << >>
            /\ {reply.routes[i].id : i \in DOMAIN reply.routes}
                 = {request.routes[r].id : r \in DOMAIN request.routes}
            /\ \A i, j \in DOMAIN reply.routes : i < j =>
                 \/ reply.routes[i].comfort > reply.routes[j].comfort
                 \/ /\ reply.routes[i].comfort = reply.routes[j].comfort
                    /\ Place(reply.routes[i].id) < Place(reply.routes[j].id)
            /\ \A i \in DOMAIN reply.routes :
                 reply.routes[i].comfort \in 100 * Min({shown[k] : k \in On(reply.routes[i].id)})
                                            ..100 * Max({shown[k] : k \in On(reply.routes[i].id)})
  BY DEF RequestsAnswered
<1> DEFINE Place(id) == CHOOSE r \in DOMAIN request.routes : request.routes[r].id = id
           effective == _resolve_vehicle_profile_id(request.profile)
           batch == read_comfort_scores(request.profile, SegmentsOf(request), history)
           reply == evaluate_routes(request, history)
           shown == [i \in DOMAIN batch.scores |-> batch.scores[i][2].score]
           On(id) == {i \in DOMAIN batch.scores :
                        Contains(request.routes[Place(id)].segments, batch.scores[i][1])}
<1>1. PICK n \in Nat \ {0} :
        /\ DOMAIN request.routes = 1..n
        /\ \A r \in 1..n : Driven(request.routes[r])
        /\ SegmentsOf(request) \in Seq(Nat)
        /\ ToSet(SegmentsOf(request)) = UNION {ToSet(request.routes[r].segments) : r \in 1..n}
  BY RequestIs DEF Asks
<1>2. PICK asked : asked = ToSet(SegmentsOf(request))
  OBVIOUS
<1>3. PICK found : found = fetch_many(effective, asked, history)
  OBVIOUS
<1>4. /\ DOMAIN found = {s \in asked : \/ <<s, effective>> \in DOMAIN history.current
                                       \/ <<s, effective>> \in DOMAIN history.later}
      /\ \A s \in DOMAIN found : /\ fetch_one(effective, s, history) = {found[s]}
                                 /\ found[s].score \in 0..100
  BY <1>3, FetchedIs
<1>5. batch = read_comfort_scores(request.profile, SegmentsOf(request), history)
  OBVIOUS
<1> HIDE DEF batch
<1>6. Tells(batch, found, asked, effective)
  <2>1. /\ SegmentsOf(request) \in Seq(Nat)
        /\ found = fetch_many(_resolve_vehicle_profile_id(request.profile),
                              ToSet(SegmentsOf(request)), history)
        /\ DOMAIN found \subseteq ToSet(SegmentsOf(request))
    BY <1>1, <1>2, <1>3, <1>4
  <2>2. Tells(batch, found, ToSet(SegmentsOf(request)), _resolve_vehicle_profile_id(request.profile))
    BY <1>5, <2>1, BatchIs
  <2> QED
    BY <1>2, <2>2
<1> HIDE DEF effective
<1>a. /\ batch.effective = effective
      /\ ToSet(batch.not_found) = asked \ DOMAIN found
      /\ asked \subseteq DOMAIN found => batch.not_found = << >>
  BY <1>6 DEF Tells
<1>7. PICK scored \in Seq(Nat) :
        /\ ToSet(scored) = DOMAIN found
        /\ batch.scores = [i \in DOMAIN scored |-> <<scored[i], found[scored[i]]>>]
  BY <1>6 DEF Tells
<1>8. /\ DOMAIN batch.scores = DOMAIN scored
      /\ \A i \in DOMAIN scored : /\ batch.scores[i][1] = scored[i]
                                  /\ batch.scores[i][2] = found[scored[i]]
                                  /\ scored[i] \in DOMAIN found
  BY <1>7 DEF ToSet
<1>9. \A s \in ToSet(batch.not_found) :
        <<s, batch.effective>> \notin DOMAIN history.current \cup DOMAIN history.standard
  <2>1. DOMAIN history.standard \subseteq DOMAIN history.later
    BY ServingAssumption
  <2> QED
    BY <1>4, <1>a, <2>1
<1>10. \A i \in DOMAIN batch.scores :
         read_comfort_score(request.profile, batch.scores[i][1], history) = {batch.scores[i][2]}
  BY <1>4, <1>8 DEF read_comfort_score, effective
<1>11. PICK evaluated : evaluated = [r \in 1..n |-> _evaluate(request.routes[r], found)]
  OBVIOUS
<1>12. PICK keys : keys = [r \in 1..n |-> -evaluated[r].comfort]
  OBVIOUS
<1>13. PICK ranking : ranking = Ranking(keys, n)
  OBVIOUS
<1>14. reply = evaluate_routes(request, history)
  OBVIOUS
<1> HIDE DEF reply
<1>15. reply = IF asked \ DOMAIN found # {} THEN [status |-> 404, missing |-> asked \ DOMAIN found]
               ELSE [status |-> 200, routes |-> [i \in 1..n |-> evaluated[ranking[i]]]]
  <2>1. DOMAIN evaluated = 1..n /\ DOMAIN keys = 1..n /\ DOMAIN ranking = 1..n
    BY <1>11, <1>12, <1>13 DEF Ranking
  <2> QED
    BY <1>1, <1>2, <1>3, <1>11, <1>12, <1>13, <1>14, <2>1 DEF evaluate_routes, effective, Ranking
<1>16. reply.status = 404 => reply.missing = ToSet(batch.not_found)
  BY <1>a, <1>15
<1>17. ASSUME reply.status = 200
       PROVE
            /\ batch.not_found = << >>
            /\ {reply.routes[i].id : i \in DOMAIN reply.routes}
                 = {request.routes[r].id : r \in DOMAIN request.routes}
            /\ \A i, j \in DOMAIN reply.routes : i < j =>
                 \/ reply.routes[i].comfort > reply.routes[j].comfort
                 \/ /\ reply.routes[i].comfort = reply.routes[j].comfort
                    /\ Place(reply.routes[i].id) < Place(reply.routes[j].id)
            /\ \A i \in DOMAIN reply.routes :
                 reply.routes[i].comfort \in 100 * Min({shown[k] : k \in On(reply.routes[i].id)})
                                            ..100 * Max({shown[k] : k \in On(reply.routes[i].id)})
  <2>1. asked \subseteq DOMAIN found /\ reply.routes = [i \in 1..n |-> evaluated[ranking[i]]]
    BY <1>15, <1>17
  <2>2. batch.not_found = << >>
    BY <1>a, <2>1
  <2>3. ASSUME NEW r \in 1..n PROVE Place(request.routes[r].id) = r
    <3>1. \A q \in 1..n : q # r => request.routes[q].id # request.routes[r].id
      BY <1>1 DEF ValidRequest
    <3> QED
      BY <1>1, <3>1
  <2>4. ASSUME NEW r \in 1..n
        PROVE  /\ evaluated[r].id = request.routes[r].id
               /\ evaluated[r].comfort \in Int
               /\ evaluated[r].comfort \in 100 * Min({shown[k] : k \in On(request.routes[r].id)})
                                          ..100 * Max({shown[k] : k \in On(request.routes[r].id)})
    <3>1. PICK route : route = request.routes[r]
      OBVIOUS
    <3>2. PICK V : V = {shown[k] : k \in On(route.id)}
      OBVIOUS
    <3>3. Driven(route) /\ ToSet(route.segments) \subseteq DOMAIN found
      BY <1>1, <1>2, <2>1, <3>1
    <3>4. On(route.id) = {i \in DOMAIN scored : Contains(route.segments, scored[i])}
      BY <1>8, <2>3, <3>1
    <3>5. \A k \in DOMAIN scored : shown[k] = found[scored[k]].score
      BY <1>8
    <3>6. ASSUME NEW v \in V PROVE v \in 0..100
      <4>1. PICK k \in On(route.id) : v = shown[k]
        BY <3>2
      <4>2. k \in DOMAIN scored
        BY <3>4, <4>1
      <4>3. scored[k] \in DOMAIN found /\ v = found[scored[k]].score
        BY <1>8, <3>5, <4>1, <4>2
      <4> QED
        BY <1>4, <4>3
    <3>7. ASSUME NEW s \in ToSet(route.segments) PROVE found[s].score \in V
      <4>1. s \in ToSet(scored)
        BY <1>7, <3>3
      <4>2. PICK k \in DOMAIN scored : scored[k] = s
        BY <4>1 DEF ToSet
      <4>3. Contains(route.segments, s)
        BY <3>3 DEF ToSet, Contains, Driven
      <4>4. k \in On(route.id)
        BY <3>4, <4>2, <4>3
      <4> QED
        BY <3>2, <3>5, <4>2, <4>4
    <3> HIDE DEF On, shown
    <3>8. /\ _evaluate(route, found).id = route.id
          /\ _evaluate(route, found).comfort \in Int
          /\ _evaluate(route, found).comfort \in (100 * Min(V))..(100 * Max(V))
      BY <1>4, <3>3, <3>6, <3>7, RouteAnswered
    <3> QED
      BY <1>11, <3>1, <3>2, <3>8
  <2> HIDE DEF On, shown, Place
  <2>5. keys \in [1..n -> Int] /\ \A r \in 1..n : keys[r] = -evaluated[r].comfort
    <3>1. ASSUME NEW r \in 1..n PROVE -evaluated[r].comfort \in Int
      <4>1. PICK x \in Int : x = evaluated[r].comfort
        BY <2>4
      <4> QED
        BY <4>1
    <3> QED
      BY <1>12, <3>1
  <2>6. /\ \A m \in 1..n : ranking[m] \in 1..n
        /\ \A r \in 1..n : \E m \in 1..n : ranking[m] = r
        /\ \A i, j \in 1..n : i < j => Before(keys, ranking[i], ranking[j])
    <3>1. Sorts(Ranking(keys, n), keys, n)
      BY <2>5, RankedIs
    <3> QED
      BY <1>13, <3>1 DEF Sorts
  <2>7. DOMAIN reply.routes = 1..n /\ \A i \in 1..n : reply.routes[i] = evaluated[ranking[i]]
    BY <2>1
  <2>8. \A i \in 1..n : reply.routes[i].id = request.routes[ranking[i]].id
    BY <2>4, <2>6, <2>7
  <2>9. {reply.routes[i].id : i \in DOMAIN reply.routes}
          = {request.routes[r].id : r \in DOMAIN request.routes}
    <3>1. ASSUME NEW r \in 1..n PROVE \E i \in 1..n : reply.routes[i].id = request.routes[r].id
      BY <2>6, <2>8
    <3>2. ASSUME NEW i \in 1..n PROVE \E r \in 1..n : reply.routes[i].id = request.routes[r].id
      BY <2>6, <2>8
    <3>3. {reply.routes[i].id : i \in 1..n} = {request.routes[r].id : r \in 1..n}
      <4>1. ASSUME NEW i \in 1..n
            PROVE  reply.routes[i].id \in {request.routes[r].id : r \in 1..n}
        BY <3>2
      <4>2. ASSUME NEW r \in 1..n
            PROVE  request.routes[r].id \in {reply.routes[i].id : i \in 1..n}
        BY <3>1
      <4> QED
        BY <4>1, <4>2
    <3> QED
      BY <1>1, <2>7, <3>3
  <2>10. ASSUME NEW i \in 1..n, NEW j \in 1..n, i < j
         PROVE  \/ reply.routes[i].comfort > reply.routes[j].comfort
                \/ /\ reply.routes[i].comfort = reply.routes[j].comfort
                   /\ Place(reply.routes[i].id) < Place(reply.routes[j].id)
    <3>1. PICK a \in 1..n : a = ranking[i]
      BY <2>6
    <3>2. PICK b \in 1..n : b = ranking[j]
      BY <2>6
    <3>3. keys[a] < keys[b] \/ (keys[a] = keys[b] /\ a < b)
      BY <2>6, <2>10, <3>1, <3>2 DEF Before
    <3>4. Place(reply.routes[i].id) = a /\ Place(reply.routes[j].id) = b
      BY <2>3, <2>8, <3>1, <3>2
    <3>5. PICK x \in Int : x = reply.routes[i].comfort /\ keys[a] = -x
      BY <2>4, <2>5, <2>7, <3>1
    <3>6. PICK y \in Int : y = reply.routes[j].comfort /\ keys[b] = -y
      BY <2>4, <2>5, <2>7, <3>2
    <3>8. -x < -y \/ (-x = -y /\ a < b)
      BY <3>3, <3>5, <3>6
    <3>7. x > y \/ (x = y /\ a < b)
      BY <3>8
    <3> QED
      BY <3>4, <3>5, <3>6, <3>7
  <2>11. ASSUME NEW i \in 1..n
         PROVE  reply.routes[i].comfort \in 100 * Min({shown[k] : k \in On(reply.routes[i].id)})
                                            ..100 * Max({shown[k] : k \in On(reply.routes[i].id)})
    <3>1. PICK a \in 1..n : a = ranking[i]
      BY <2>6
    <3>2. reply.routes[i] = evaluated[a] /\ evaluated[a].id = request.routes[a].id
      BY <2>4, <2>7, <3>1
    <3> QED
      BY <2>4, <3>2
  <2> QED
    BY <2>2, <2>7, <2>9, <2>10, <2>11
<1> QED
  BY <1>9, <1>10, <1>16, <1>17 DEF batch, reply

\* For every request, every history of the two tables and every drive: routes
\* are ranked by a comfort that lies among the scores of their segments, nothing
\* that had a row is missing, and neither a worse segment nor a rougher mix of
\* the same average pays (routes.py, repository.py, route_comfort.py).
THEOREM RoutesFair == Spec => []RoutesComparedFairly
<1>1. RoutesComparedFairly
  BY Answered, NoGain DEF RoutesComparedFairly
<1> QED
  BY <1>1, PTL
=============================================================================
