----------------------------- MODULE ScoreTables -----------------------------
(***************************************************************************)
(* The three DAGs of the orchestration service and the PostgreSQL tables   *)
(* they meet in:                                                           *)
(*   zone_weather_pipeline    collect -> validate -> detect -> publish,    *)
(*                            every 15 minutes, writes latest_zone_weather;*)
(*   standard_score_pipeline  merge -> validate and publish, every hour,   *)
(*                            writes standard_segment_comfort_score;       *)
(*   current_score_pipeline   wakes on either event and writes             *)
(*                            current_segment_comfort_score, all rows or   *)
(*                            those of the zones whose weather changed.    *)
(*                                                                         *)
(* A row is a (segment, vehicle profile) of a zone.  Of a current row only *)
(* its standard_score_as_of and weather_impact_signature are kept, of an   *)
(* observation its signature and whether the validation rules accept it.   *)
(***************************************************************************)
EXTENDS Naturals, FiniteSets

CONSTANTS
  Zones, Rows, ZoneOf,  \* the road network: rows and the zone of each
  Signatures,           \* the impact signatures weather can have
  NoSignature,          \* SQL's NULL
  Attempts, NoAttempt,  \* processes of the current-score task, dead or alive
  MaxRate,              \* max_quarantine_rate, in percent
  StandardOverruns,     \* BOOLEAN: an abandoned Spark job may merge after a later hour's
  MaxTick,              \* bound: weather times beyond it are not told apart
  MaxHour,              \* bound: hours the standard pipeline runs for
  MaxMishaps            \* bound: failures of any kind in one behaviour

ASSUME NetworkAssumption == ZoneOf \in [Rows -> Zones] /\ IsFiniteSet(Rows)
ASSUME NamesAssumption ==
  Signatures # {} /\ NoSignature \notin Signatures /\ NoAttempt \notin Attempts
ASSUME BoundsAssumption ==
  MaxRate \in Nat /\ MaxTick \in Nat /\ MaxHour \in Nat /\ MaxMishaps \in Nat
ASSUME OverrunsAssumption == StandardOverruns \in BOOLEAN

VARIABLES
  now, sky,             \* the target time of the last tick and the weather then
  latest,               \* latest_zone_weather; time 0 when the zone has no row
  wTask, wTry, fetched, \* the weather run's task, its try and the zones fetched
  late,                 \* readings of a collector that Airflow has given up
  hour, sTask, sTry,    \* the hour of the standard run, its task and its try
  standard,             \* score_as_of of standard_segment_comfort_score
  overrun,              \* hours whose abandoned Spark job is still running
  queued,               \* asset events no current run has consumed
  events, cTry, live,   \* the current run: its events, its try and its process
  att,                  \* the processes: where they are and what they have read
  current,              \* current_segment_comfort_score; asOf 0 for no row
  quarantine,           \* its quarantine table, one record per row and generation
  refreshed,            \* generation of the last commit over all rows
  mishaps

weatherDag == <<now, sky, latest, wTask, wTry, fetched, late>>
standardDag == <<hour, sTask, sTry, standard, overrun>>
currentRun == <<events, cTry, live, att>>
scores == <<current, quarantine, refreshed>>
vars == <<weatherDag, standardDag, queued, currentRun, scores, mishaps>>

Tries == 3          \* retries = 2 in the weather and current DAGs
StandardTries == 2  \* retries = 1 in the standard DAG

Observation == [time : 0..MaxTick, sig : Signatures \cup {NoSignature}, sound : BOOLEAN]
Process == [at : {"done", "read", "wait", "score"}, rows : SUBSET Rows,
            seen : [Zones -> Signatures \cup {NoSignature}], asOf : 0..MaxHour]

TypeOK ==
  /\ now \in 0..MaxTick /\ sky \in [Zones -> Signatures]
  /\ latest \in [Zones -> Observation]
  /\ wTask \in {"idle", "collect", "upsert", "validate", "detect"} /\ wTry \in 1..Tries
  /\ fetched \in SUBSET Zones
  /\ late \in SUBSET [time : 0..MaxTick, zones : SUBSET Zones, sky : [Zones -> Signatures]]
  /\ hour \in 0..MaxHour /\ standard \in 0..MaxHour /\ overrun \in SUBSET (1..MaxHour)
  /\ sTask \in {"idle", "merge", "validate"} /\ sTry \in 1..StandardTries
  /\ queued \in SUBSET {"standard", "weather"}
  /\ events \in SUBSET {"standard", "weather"} /\ cTry \in 1..Tries
  /\ live \in Attempts \cup {NoAttempt}
  /\ att \in [Attempts -> Process]
  /\ current \in [Rows -> [asOf : 0..MaxHour, sig : Signatures \cup {NoSignature}]]
  /\ quarantine \in SUBSET (Rows \X (1..MaxHour))
  /\ refreshed \in 0..MaxHour
  /\ mishaps \in Nat

NoProcess == [at |-> "done", rows |-> {}, seen |-> [z \in Zones |-> NoSignature], asOf |-> 0]

Init ==
  /\ now = 0 /\ sky = [z \in Zones |-> CHOOSE s \in Signatures : TRUE]
  /\ latest = [z \in Zones |-> [time |-> 0, sig |-> NoSignature, sound |-> TRUE]]
  /\ wTask = "idle" /\ wTry = 1 /\ fetched = {} /\ late = {}
  /\ hour = 0 /\ sTask = "idle" /\ sTry = 1 /\ standard = 0 /\ overrun = {}
  /\ queued = {} /\ events = {} /\ cTry = 1 /\ live = NoAttempt
  /\ att = [a \in Attempts |-> NoProcess]
  /\ current = [r \in Rows |-> [asOf |-> 0, sig |-> NoSignature]]
  /\ quarantine = {} /\ refreshed = 0 /\ mishaps = 0

Mishap == mishaps < MaxMishaps /\ mishaps' = mishaps + 1

-----------------------------------------------------------------------------
(* zone_weather_pipeline *)

\* A tick while the last run still goes on waits for it (max_active_runs = 1).
Tick ==
  /\ wTask = "idle"
  /\ IF now < MaxTick
     THEN now' = now + 1 /\ sky' \in [Zones -> Signatures]
     ELSE UNCHANGED <<now, sky>>
  /\ wTask' = "collect" /\ wTry' = 1
  /\ UNCHANGED <<latest, fetched, late, standardDag, queued, currentRun, scores, mishaps>>

\* Some regions fail, all after a 429: their zones get no reading.
Fetch(zones) ==
  /\ wTask = "collect"
  /\ IF zones = Zones THEN UNCHANGED mishaps ELSE Mishap
  /\ fetched' = zones
  /\ wTask' = "upsert"
  /\ UNCHANGED <<now, sky, latest, wTry, late, standardDag, queued, currentRun, scores>>

\* Mutated form of Upserted: without the WHERE of the UPSERT.
MutantUpserted(zones, weather, time, bad) ==
  [z \in Zones |-> IF z \in zones
                   THEN [time |-> time, sig |-> weather[z], sound |-> z \notin bad]
                   ELSE latest[z]]

\* _UPSERT_SQL: a reading never replaces one of a later time.
Upserted(zones, weather, time, bad) ==
  [z \in Zones |-> IF z \in zones /\ latest[z].time <= time
                   THEN [time |-> time, sig |-> weather[z], sound |-> z \notin bad]
                   ELSE latest[z]]

\* The next task, or the next try of this one.
WeatherGoesTo(task) == wTask' = task /\ wTry' = 1

RetryWeather(task) ==
  IF wTry < Tries THEN wTask' = task /\ wTry' = wTry + 1 ELSE WeatherGoesTo("idle")

\* One transaction.  Without any reading the task fails.
Upsert(bad) ==
  /\ wTask = "upsert"
  /\ IF bad = {} THEN UNCHANGED mishaps ELSE Mishap
  /\ latest' = Upserted(fetched, sky, now, bad)
  /\ IF fetched = {} THEN RetryWeather("collect") ELSE WeatherGoesTo("validate")
  /\ fetched' = {}
  /\ UNCHANGED <<now, sky, late, standardDag, queued, currentRun, scores>>

\* Only the rows of this target time are looked at, and there must be some.
Accepts ==
  /\ \E z \in Zones : latest[z].time = now
  /\ \A z \in Zones : latest[z].time = now => latest[z].sound

Validate ==
  /\ wTask = "validate"
  /\ IF Accepts THEN WeatherGoesTo("detect") ELSE RetryWeather("validate")
  /\ UNCHANGED <<now, sky, latest, fetched, late, standardDag, queued, currentRun,
                 scores, mishaps>>

\* Mutated form of Changed: a zone has changed when no row of it fits any more.
MutantChanged ==
  {z \in Zones : /\ latest[z].time > 0
                 /\ \E r \in Rows : ZoneOf[r] = z /\ current[r].asOf > 0
                 /\ \A r \in Rows : ZoneOf[r] = z /\ current[r].asOf > 0
                                      => current[r].sig # latest[z].sig}

\* _CHANGED_ZONES_SQL: one row that does not fit is enough.
Changed ==
  {z \in Zones : /\ latest[z].time > 0
                 /\ \E r \in Rows : /\ ZoneOf[r] = z /\ current[r].asOf > 0
                                    /\ current[r].sig # latest[z].sig}

\* The short circuit skips the publishing task when no zone has changed.
Detect ==
  /\ wTask = "detect"
  /\ queued' = IF Changed = {} THEN queued ELSE queued \cup {"weather"}
  /\ WeatherGoesTo("idle")
  /\ UNCHANGED <<now, sky, latest, fetched, late, standardDag, currentRun, scores, mishaps>>

WeatherTaskFails ==
  /\ Mishap
  /\ wTask # "idle"
  /\ RetryWeather(IF wTask = "upsert" THEN "collect" ELSE wTask)
  /\ UNCHANGED <<now, sky, latest, fetched, late, standardDag, queued, currentRun, scores>>

\* Airflow takes the collector for dead and retries it; it is only slow.
AbandonCollector ==
  /\ Mishap
  /\ wTask = "upsert"
  /\ late' = late \cup {[time |-> now, zones |-> fetched, sky |-> sky]}
  /\ RetryWeather("collect")
  /\ UNCHANGED <<now, sky, latest, fetched, standardDag, queued, currentRun, scores>>

LateUpsert(o) ==
  /\ o \in late
  /\ latest' = Upserted(o.zones, o.sky, o.time, {})
  /\ late' = late \ {o}
  /\ UNCHANGED <<now, sky, wTask, wTry, fetched, standardDag, queued, currentRun,
                 scores, mishaps>>

-----------------------------------------------------------------------------
(* standard_score_pipeline *)

StartHour ==
  /\ sTask = "idle" /\ hour < MaxHour
  /\ hour' = hour + 1
  /\ sTask' = "merge" /\ sTry' = 1
  /\ UNCHANGED <<weatherDag, standard, overrun, queued, currentRun, scores, mishaps>>

\* No code keeps an abandoned Spark job of an earlier hour from merging later
\* than hour h does: an assumption on durations, dropped by StandardOverruns.
OnTime(h) == StandardOverruns \/ \A k \in overrun : h <= k

\* _MERGE_SQL, one transaction over the whole universe and whatever generation
\* is there.
Merge ==
  /\ sTask = "merge" /\ OnTime(hour)
  /\ standard' = hour
  /\ sTask' = "validate" /\ sTry' = 1
  /\ UNCHANGED <<weatherDag, hour, overrun, queued, currentRun, scores, mishaps>>

\* The Gold snapshot is validated; only then the event is published.
ValidateStandard ==
  /\ sTask = "validate"
  /\ queued' = queued \cup {"standard"}
  /\ sTask' = "idle" /\ sTry' = 1
  /\ UNCHANGED <<weatherDag, hour, standard, overrun, currentRun, scores, mishaps>>

RetryStandard ==
  IF sTry < StandardTries
  THEN sTry' = sTry + 1 /\ UNCHANGED sTask
  ELSE sTask' = "idle" /\ sTry' = 1

\* A task raises, the merging one perhaps after its commit.
StandardTaskFails ==
  /\ Mishap
  /\ sTask # "idle"
  /\ standard' \in IF sTask = "merge" /\ OnTime(hour) THEN {standard, hour} ELSE {standard}
  /\ RetryStandard
  /\ UNCHANGED <<weatherDag, hour, overrun, queued, currentRun, scores>>

\* The waiter gives up after 25 minutes; the Spark job it waited for does not.
WaiterTimesOut ==
  /\ Mishap
  /\ sTask = "merge"
  /\ overrun' = overrun \cup {hour}
  /\ RetryStandard
  /\ UNCHANGED <<weatherDag, hour, standard, queued, currentRun, scores>>

LateMerge(h) ==
  /\ h \in overrun /\ OnTime(h)
  /\ standard' = h
  /\ overrun' = overrun \ {h}
  /\ UNCHANGED <<weatherDag, hour, sTask, sTry, queued, currentRun, scores, mishaps>>

-----------------------------------------------------------------------------
(* current_score_pipeline *)

\* One run at a time takes all events there are.
StartRun ==
  /\ events = {} /\ queued # {}
  /\ events' = queued /\ queued' = {}
  /\ cTry' = 1
  /\ UNCHANGED <<weatherDag, standardDag, live, att, scores, mishaps>>

\* Mutated form of FullRefresh: a weather event limits the run to changed zones.
MutantFullRefresh == events = {"standard"}

\* _changed_zones_only: the standard event wins.
FullRefresh == "standard" \in events

\* The attempt returns; if it is the one the run waits for, the run is over.
Succeed(a) ==
  /\ att' = [att EXCEPT ![a] = NoProcess]
  /\ IF live = a
     THEN live' = NoAttempt /\ events' = {} /\ cTry' = 1
     ELSE UNCHANGED <<live, events, cTry>>

\* The run hears that its attempt failed.
RetryRun ==
  /\ live' = NoAttempt
  /\ IF cTry < Tries
     THEN cTry' = cTry + 1 /\ UNCHANGED events
     ELSE cTry' = 1 /\ events' = {}

Fail(a) ==
  /\ att' = [att EXCEPT ![a] = NoProcess]
  /\ IF live = a THEN RetryRun ELSE UNCHANGED <<live, events, cTry>>

\* The rows to score: all of them, or those current has in the changed zones.
Targets ==
  IF FullRefresh THEN Rows
  ELSE {r \in Rows : ZoneOf[r] \in Changed /\ current[r].asOf > 0}

\* A try of the task.  Without a changed zone there is nothing to do.
Launch(a) ==
  /\ events # {} /\ live = NoAttempt
  /\ att[a].at = "done"
  /\ IF ~FullRefresh /\ Changed = {}
     THEN events' = {} /\ cTry' = 1 /\ UNCHANGED <<live, att>>
     ELSE /\ live' = a
          /\ att' = [att EXCEPT ![a].at = "read", ![a].rows = Targets]
          /\ UNCHANGED <<events, cTry>>
  /\ UNCHANGED <<weatherDag, standardDag, queued, scores, mishaps>>

\* The weather is read before the lock is asked for.
ReadWeather(a) ==
  /\ att[a].at = "read"
  /\ att' = [att EXCEPT ![a].at = "wait", ![a].seen = [z \in Zones |-> latest[z].sig]]
  /\ UNCHANGED <<weatherDag, standardDag, queued, live, events, cTry, scores, mishaps>>

\* Mutated form of Locked: nobody waits.
MutantLocked(a) == FALSE

Locked(a) == \E b \in Attempts \ {a} : att[b].at = "score"

\* pg_advisory_lock, then the snapshot of the cursor on the standard table.
Lock(a) ==
  /\ att[a].at = "wait" /\ ~Locked(a)
  /\ att' = [att EXCEPT ![a].at = "score", ![a].asOf = standard]
  /\ UNCHANGED <<weatherDag, standardDag, queued, live, events, cTry, scores, mishaps>>

Scored(a) == IF att[a].asOf = 0 THEN {} ELSE att[a].rows

\* check_circuit_breaker
Trips(bad, rows) ==
  \/ rows # {} /\ bad = rows
  \/ Cardinality(bad) * 100 > MaxRate * Cardinality(rows)

\* Mutated form of Recorded: the records of a full refresh are left out.
MutantRecorded(a, bad) ==
  IF att[a].rows = Rows THEN quarantine ELSE quarantine \cup (bad \X {att[a].asOf})

Recorded(a, bad) == quarantine \cup (bad \X {att[a].asOf})

\* The rows that violate the expectations are quarantined, the others merged,
\* in one transaction that the breaker rolls back.
Commit(a, bad) ==
  /\ att[a].at = "score"
  /\ bad \subseteq Scored(a)
  /\ IF bad = {} THEN UNCHANGED mishaps ELSE Mishap
  /\ IF Trips(bad, Scored(a))
     THEN Fail(a) /\ UNCHANGED scores
     ELSE /\ Succeed(a)
          /\ current' = [r \in Rows |->
               IF r \in Scored(a) \ bad
               THEN [asOf |-> att[a].asOf, sig |-> att[a].seen[ZoneOf[r]]]
               ELSE current[r]]
          /\ quarantine' = Recorded(a, bad)
          /\ refreshed' = IF att[a].rows = Rows THEN att[a].asOf ELSE refreshed
  /\ UNCHANGED <<weatherDag, standardDag, queued>>

\* The attempt raises or dies: rolled back, and the lock is free.
AttemptFails(a) ==
  /\ Mishap
  /\ att[a].at # "done"
  /\ Fail(a)
  /\ UNCHANGED <<weatherDag, standardDag, queued, scores>>

\* Airflow takes the attempt for dead while it goes on.
AbandonAttempt(a) ==
  /\ Mishap
  /\ live = a
  /\ RetryRun
  /\ UNCHANGED <<weatherDag, standardDag, queued, att, scores>>

-----------------------------------------------------------------------------
WeatherRun ==
  \/ Tick \/ Fetch(Zones) \/ Upsert({}) \/ Validate \/ Detect
  \/ \E o \in late : LateUpsert(o)

StandardRun == StartHour \/ Merge \/ ValidateStandard \/ \E h \in overrun : LateMerge(h)

Attempt(a) == ReadWeather(a) \/ Lock(a) \/ Commit(a, {})

Mishaps ==
  \/ \E zones \in (SUBSET Zones) \ {Zones} : Fetch(zones)
  \/ \E bad \in (SUBSET fetched) \ {{}} : Upsert(bad)
  \/ WeatherTaskFails \/ AbandonCollector
  \/ StandardTaskFails \/ WaiterTimesOut
  \/ \E a \in Attempts :
       \/ \E bad \in (SUBSET Rows) \ {{}} : Commit(a, bad)
       \/ AttemptFails(a) \/ AbandonAttempt(a)

Next ==
  \/ WeatherRun \/ StandardRun \/ StartRun
  \/ \E a \in Attempts : Launch(a) \/ Attempt(a)
  \/ Mishaps

Spec == Init /\ [][Next]_vars

\* The scheduler keeps starting what is due and running processes go on.
FairSpec ==
  /\ Spec
  /\ WF_vars(WeatherRun) /\ WF_vars(StandardRun)
  /\ WF_vars(StartRun) /\ WF_vars(\E a \in Attempts : Launch(a))
  /\ \A a \in Attempts : WF_vars(Attempt(a))

-----------------------------------------------------------------------------
\* weather.py:116: a collector that ends late, with the readings of an older
\* target time, does not overwrite newer ones.
WeatherNeverGoesBack == [][\A z \in Zones : latest'[z].time >= latest[z].time]_vars

\* current_score.py:297: however attempts overlap, none puts a row back to an
\* older standard generation than another one has written.
CurrentNeverGoesBack == [][\A r \in Rows : current'[r].asOf >= current[r].asOf]_vars

\* A row that a committed refresh of all rows left on an older generation is accounted
\* for in the quarantine table: no row is silently stale.
NoSilentSkip ==
  \A r \in Rows : current[r].asOf < refreshed =>
    \E g \in refreshed..MaxHour : <<r, g>> \in quarantine

\* current_score.py:101: whatever mixed or stale signatures failures, late
\* attempts and quarantined rows leave behind, the ticks bring every row there
\* is to the signature of its zone's weather once that and the failures stop.
SignaturesHeal ==
  <>[](\A r \in Rows : current[r].asOf > 0 => current[r].sig = sky[ZoneOf[r]])

\* A published standard generation reaches every row, or the row's quarantine,
\* also when the event comes while a run limited to changed zones is active;
\* unless as many failures as a run has tries use that run up.
Arrived(g) ==
  \A r \in Rows : current[r].asOf >= g \/ \E h \in g..MaxHour : <<r, h>> \in quarantine
StandardArrives ==
  \A g \in 1..MaxHour :
    [](mishaps < Tries) => [](("standard" \in queued /\ standard >= g) => <>Arrived(g))

\* zone_weather_pipeline.py:57: the validation stands before the detection so
\* that no zone is taken for changed because of a reading it rejects.
RejectedWeatherIsNotNews ==
  [][queued' # queued /\ wTask = "detect" => \A z \in Changed : latest[z].sound]_vars
=============================================================================
