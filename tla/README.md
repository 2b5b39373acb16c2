# TLA+ models of the 4una road-comfort pipeline

The repository collects ride-sensor readings from taxis, turns them hour by hour
into comfort scores of road segments, corrects those with the current weather, and
serves them.  This directory holds TLA+ modules of the parts where order, failure
and concurrency decide whether the data is right, the TLC configurations that
check small instances, and TLAPS proofs for instances of any size.

    tlc -config HourSwap.cfg MCPartitionReplace.tla
    tlapm ScoreTablesProofs.tla

## 1. The system

    sensor-producer --Kafka--> stream-processor --> Bronze (S3, hour partitions)
                                                     |        ^ daily compaction
    standard_score_pipeline (hourly, EMR Serverless) v
      cleanse + features -> hourly comfort -> 168 h roll-up -> Gold snapshot + PostgreSQL
                                                     | asset event
    zone_weather_pipeline (every 15 min) -- event --> current_score_pipeline
      Open-Meteo -> latest_zone_weather              -> current_segment_comfort_score
                                                     v
                             serving-api -> dashboard       Grafana alerts -> ops-agent

| component | state it keeps | operations | correct when |
|---|---|---|---|
| hour-partition writers (`hourly_comfort_storage`, `cleansing/hourly_storage`, `hourly_segment_feature_storage`) | the hour's path, its backup path, a staging path | write staging, read back, recover, swap, clean up | a reader sees one whole result or none; a success has published its own result; a hidden hour comes back |
| the hour's computation (`cleansing`, `sensor_features`, `map_matching`, `hourly_comfort`, `comfort_score/formula`) | quarantine, features and scores per hour, standard scores | cleanse, match, aggregate, score, roll up | each row is counted once or quarantined; events are episodes; the best candidate is taken; the standard table covers the map |
| Bronze compaction (`jobs/sensor_events_compaction`) | part files and `compacted-` objects per hour | list, merge, upload, check counts, delete, clean up | no row is lost; rows are stored once; the backlog shrinks |
| zone weather DAG (`jobs/weather`, `weather_rules`, `weather_validation`) | `latest_zone_weather`, a snapshot file per tick | collect, classify, upsert, validate, detect, publish | readings never go back in time; a zone gets its own region's weather; bad weather lowers scores only |
| standard score DAG (`standard_score_pipeline`, `comfort_score/*`, `standard_score_validation`) | Gold snapshots with a manifest, `standard_segment_comfort_score` | cleanse, score, roll up, merge, validate, publish | Gold leads the table; rejected features are not scored; only what was loaded is announced |
| current score DAG (`jobs/current_score`, `current_score_quarantine`) | `current_segment_comfort_score`, quarantine, staging | full or incremental refresh under an advisory lock | rows never go back a generation; none is silently stale; signatures converge |
| EMR Serverless tasks (`dags/emr_serverless`) | pool slot, Job Runs, the application | submit and wait, idle check, stop | one watched Job Run at a time; every DAG run ends |
| road environment (`road_segment/*`, `environment`, `pipeline`, `jobs/road_environment`) | eight objects and a manifest per build, the active pointer | build, upload, publish, activate, resolve a month | a manifest means whole objects; the rows say what the city data said on the date; past months keep their roads |
| stream-processor | Kafka offsets and sink log (Spark's) | append part files | every valid message lands once |
| sensor-producer | prepared bundles, worker processes | prepare, replay, publish | all or an error; in order; on roads that carry the routes; the coordinator always ends |
| failure alerts (`dags/notifications`, `jobs/failure_rules`) | failure records, a thread file per task | first failure, retry, final failure, recovery | a failed try is reported once; a task keeps one thread; the cause is named, not its consequence |
| ops-agent | SQLite table of attempts | webhook -> reverify -> policy -> cooldown -> restart -> poll -> notify | at most one restart per alert and cooldown; outcomes are not invented; what is down is repaired |
| serving-api | none | segment, batch and route requests | a request misses no segment that has a row; routes are compared fairly |
| migrations, zone profiles, dashboard, performance tools | - | - | see section 6 |

Components meet in shared state, not in calls: S3 paths, four PostgreSQL tables,
Airflow's asset events (a run takes all events there are), and one pool slot.  The
hard behaviours follow from that: a writer that dies half-way through a swap, a
task that Airflow retries while its first process still runs, events that are
coalesced, a check made before a lock and used after it, a multi-object delete
that removes some keys and raises.  `PROJECT.json` lists them as hazards with
their lines.

## 2. Modules

| module | models | role |
|---|---|---|
| `HourPartition` | what the writers promise of one hour | abstract specification |
| `PartitionReplace` | the three hour-partition writers | one file-system call per action |
| `HourlyPipeline` | the hourly DAG, its backfills, the pool and the Job Runs | one task decision or one step of a Job Run per action |
| `SensorCleansing`, `SensorFeatures`, `MapMatching`, `ComfortFormula` | the computation of an hour | operators, each extending the one before |
| `HourData` | the jobs that run them, on the hours of a small Bronze | one stage of a run per action |
| `BronzeCompaction` | compaction job beside the stream sink | one store request per action |
| `ScoreTables` | weather, standard and current DAGs and their tables | composition of three DAGs: one transaction or task decision per action |
| `WeatherRules`, `WeatherRegions`, `WeatherCollection` | what a reading means, which region a zone is in, what a collection makes of the answers | operators |
| `Lists` | the comprehensions and sorts of the code | operators |
| `ServingApi` | requests on the two score tables | operators |
| `ScoreService` | the score tables with the collection before them and the requests after | composition: the properties of both |
| `RoadSegments` | from the city's datasets to the rows of a road environment | operators |
| `RoadEnvironment` | builds, their uploads, manifests and the pointer | one upload per action |
| `RoadRouting`, `ReplayInput` | routes on a network; what a replay reads, sorts and samples | operators |
| `ReplayProducer` | prepare-replay and run, coordinator, workers and Kafka queue | one step of a process per action |
| `FailureAlerts` | the Slack callbacks of a DAG run | one callback per action |
| `RestartLimit` | what the ops-agent promises of restarts | abstract specification |
| `IncidentResponse` | ops-agent beside Grafana, Prometheus and a container | one step of the handler per action |
| `MC...` | - | small constants, symmetry, inputs; where a property needs one, the enumeration of inputs to an algorithm |
| `...Proofs` | - | theorems and proofs |

The operator modules have parameters for whatever the configuration files of the
repository set, so that the proofs and the runs of the modules above them do not
depend on one set of numbers.  Where an algorithm is enumerated over its inputs
(`ZonesGetTheirWeather`, `WeatherOnlyLowers`,
`RoutesComparedFairly`, the months of `SampledAsPlanned` and the datasets of `EnvironmentSound`), the property is
evaluated as an invariant of the component that calls it.

### PartitionReplace

A path is the set of objects under it, and it exists iff that set is not empty.
`pc` names the file-system call the writer makes next.  The three writers share
the procedure; `writer` selects where they differ: *features* recovers a stale
backup before it stages, *comfort* refuses an empty result before its first
file-system call (`RefuseEmpty`), the recovery included, *quarantine* lets an empty result remove the hour (*comfort* called with `allow_empty`, as it is
for the score quarantine, follows that procedure too).  `result` tells a call the
read-back refused from one that raised for another reason, because the liveness
property assumes an end of the second kind only.  `HiddenHourReturns` excepts one
thing, because the code does: while comfort's calls compute no rows, each is refused
before it looks for a backup, and a hidden hour stays hidden until one has rows.  `Fault` is an exception of the call at
`pc`, at any `pc`, with `Handler` as the except and finally branches; `Crash` runs
no handler; `StagePartially` is a write that silently lost rows.  A call can fail
any number of times, also inside a handler.  `AtomicFs` chooses between a file
system whose rename and delete are single steps (HDFS) and EMRFS, where they
move and remove one object at a time and any call may stop in between.

The rollback of a promoted result in the code's handlers is not in the model:
`promoted` is assigned in the last statement of the `try` block, so no exception
finds it set.  With `AtomicFs = FALSE` only `SuccessMeansPublished` is claimed.
That a reader can see a partly copied hour there, and that a late failure can
cost the previous result, is documented in the code (#290, README) and is no
property of this project.

`HourPartition` has the durable result, what a reader sees, and whether the hour may
be replaced by nothing; an hour that may not (features, comfort) is never lost.
The refinement mapping takes `final`, or `backup` when `final` is empty, as the
durable result.

### BronzeCompaction

A source is one part file and stands for its rows; an output object holds, for
one chunk of one merge (`batch`, the uuid in the names), a share of each source's
rows.  `listed` is the listing made once per run, so files that land later are
not deleted.  `recent` is the safety margin: partitions with a file younger than
two hours at the time of the listing.  `Mixed` partitions have files with
different schemas: `Read` raises and the run ends.  `PartialDeletes` says whether
`delete_objects` may remove some keys and raise, as S3's multi-object delete does.

### ScoreTables

A row is a (segment, profile).  Of a row of `current_segment_comfort_score` the
model keeps `standard_score_as_of` and `weather_impact_signature`; of an
observation its target time, its signature and whether the validation rules
accept it.  The standard table is one generation number because its MERGE rewrites
the whole universe in one transaction.

- Weather DAG: `Tick`, `Fetch` (a subset of zones), `Upsert` (one transaction with
  the guarded UPDATE), `Validate` (rows of this target time only), `Detect` (the
  short circuit before the publishing task).  A run has three tries per task.
  `AbandonCollector`/`LateUpsert`: Airflow's heartbeat misses a collector that is
  only slow, and it writes later.
- Standard DAG: `StartHour`, `Merge`, `ValidateStandard` (the event is this task's
  outlet).  `StandardTaskFails` covers failures before and after the commit, and
  those of the earlier tasks, which end the run with the table as it was.
  `WaiterTimesOut` leaves a Job Run behind that merges later (`LateMerge`).  Nothing
  in the code keeps it from merging after one of a later hour; `OnTime` assumes
  that it does not, unless `StandardOverruns` is set.
- Current DAG: `StartRun` takes all queued events; a try is a process (`Launch`,
  `ReadWeather`, `Lock`, `Commit`).  Weather is read before the lock, the standard
  rows in it.  `Commit(a, bad)` quarantines `bad`, applies the circuit breaker and
  merges the rest, or rolls all of it back.  `AbandonAttempt` is Airflow giving up
  on a process that goes on; a new try may then run beside it.

Left out: segments without a zone (skipped by the job), the columns computed by the
formula (`WeatherRules` has it), the snapshot history files, the `weather_time` column of
current rows.  The job reads every `road_segment` file of the snapshot date, so two
builds that share one mix their zones (`current_score.py:186`); `RoadEnvironment` has
that (`SegmentZones`), the zones are constant here.

### HourlyPipeline

One DAG run per DAG (`max_active_runs=1`), a scheduled one and a backfill.  A task is
a Job Run, for which the operator takes the slot of the pool, submits and polls, or
a Python function.  A Job Run is a process of its own with the steps it takes on
shared data: features published and validated, read and scored, Gold written,
read back, manifest, staging table under its advisory lock, MERGE, truncation.
`GiveUp` is the waiter that gives up; the Job Run stays, as one of `stragglers`, and a
retry may run beside it.  A version of an hour in Gold is named by the Job Run that
writes it, which stands for its uuid4; the standard job resolves the manifest once it
has switched it and loads what it finds there, and the validation resolves it again.

What a straggler can do is in the model and is named by the exceptions of two
properties.  A transform or score Job Run that goes on replaces what its retry has
validated, and rejected features of that hour may be scored.  A standard one may switch
the manifest after the retry's MERGE and then fail at the lock: the validation accepts
the straggler's version, the event goes out, and PostgreSQL holds the retry's.  Nothing
in the code compares the two.  `RejectedFeaturesNotScored` and `AnnouncesWhatWasLoaded` say
that it takes such a Job Run of the very hour; TLC finds these traces when the
exceptions are left out.

A partition changes in one step here, its inside is `PartitionReplace`.  That
the pool serialises the Job Runs somebody waits for is a theorem
(`Serialised`) and no property of the run.

### HourData and the operators it calls

The rows of Bronze are loaded in micro-batches; a run of an hour cleanses, writes
the quarantine, the features, validates the accepted rate, scores, writes the
rejected scores and validates those; `FailRun` ends it anywhere.  `StandardScore` is
the roll-up.  `SensorFeatures` follows the shared windows of
`add_steering_and_event_features` and says beside it what a reader of the code
expects (`SustainedRuns`, `DirectionChanges`); the properties are stated in the latter.
`RowsAccountedFor` counts, and asks of a counted row what a valid row is, its time
bounds included; `EventsAreEpisodes` compares totals with maximal episodes,
`MatchUndominated` says that no other candidate beats the chosen one and that ties go to
the lowest segment, `StandardComplete`
that every segment and profile has a row between the extremes of the data.

`Places` stands for coordinates, `BronzeRow` for the parsed columns of Bronze; their
assumptions (`CleansingAssumption`, `InputsAssumption`, `FormulaAssumption`) say that an offset
belongs to one row, ranges and anchors are of known columns, weights add up, and
that a percent can tell the evidence of one trip (`ShrinkageK * Saturation <= 99`; 50 with
the repository's configuration), without which the rounded confidence of a
segment with few trips would be 0, as if nobody had driven there.  The names of
its `HourInit`, `HourNext`, `HourSpec` and `HourTypeOK` are its own, so that the proofs can stand
beside those of the swap.

Scores are whole points, times and thresholds small units, the hour 20 units;
distances and heading differences are tables.  `RejectLimit` is 50 in the instance (10
percent in the suite), because hours of a few rows cannot have a tenth of them
rejected.  An hour without a Bronze directory is an hour without rows.  Copies of an
event ingested at the same instant leave open which one survives.  The cache of the
worker's context, the version columns and the suites about columns alone are left
out.  A reading of vehicle profile 0 passes the cleansing, and makes every standard
scoring of its window raise (`formula.py:197`): `StandardScore` is not enabled then, and the
instance has such a reading.

### WeatherRules, WeatherRegions, WeatherCollection

Readings are in tenths of their unit, as are the thresholds; a missing value is 0 where
the code has `or 0`, except for the temperature.  `ConfigLoads` is an assumption about the
constants that TLC evaluates: the numbers of `weather_rules.yaml` pass the loader's own
checks.  Polygons are given by the zones that touch, the area of any union of them
(`Area`) and their distances; the point asked for is left out.  The loop of
`merge_regions` is the recursive function `Merged`, one turn per argument.
`RegionsAreContiguous` says what comes out: regions that divide the zones, each
one piece of the map, with islands added whole (`Connected`, `Islands`).  A collection is evaluated by itself, for every answer, and not
joined with the tables of `ScoreTables`, which takes any subset of zones as collected;
the snapshot file is written before the UPSERT, and its contents are left out.

Two things the models leave to the reader.  A new `WEATHER_RULE_VERSION` makes
`parse_impact_signature` raise, and with it every refresh, until all zones have been
collected again (`current_score.py:412`, `weather_rules.py:184`).  A visibility of exactly
the threshold counts as low.

### ServingApi

A request reads current scores and then, for the segments it did not find, standard
ones; the instance lets a commit fall between (`later`), since each statement has its
own snapshot.  A route may thus mix scores corrected by the weather and plain ones;
`RoutesComparedFairly` says what holds all the same: no segment with a row is missed,
the endpoints agree, the recommendation is a best route, and a worse or rougher
segment never makes a route better.  Profiles change by migration only and are a
constant.  Averages are exact, rounded half up; the code's floats can differ from
that at exact ties only.  The worst quarter and the order of the answer come from
stable sorts, which are given by the rank of each place (`Lists`).  Health, metrics and error wording are left out.

### RoadSegments, RoadEnvironment

Dates are days in months of 31; a geometry is a place on an axis that also orders the
lines' texts; thresholds of the validation are percents.  `RoadSegments` follows the
order of the code: choose one row per segment, join ratings and humps by street,
date and distance, assign zones, validate.  A row of the file, an inspection and a hump
are named by their places in it, so that equal ones stay apart; `Ordered` gives the
`n`-th element of a set in a strict order, here the fractions of a segment.  `RoadEnvironment` uploads the eight
objects one by one, then the manifest, then the pointer, and may die at any step;
`last_modified` of manifests increases.  `RequestsAssumption`: a build id belongs to one
pair of reference and snapshot date, and is not built twice at a time.  Nothing in the code checks this, and without it a
build overwrites objects of another one that is published, because the paths of the
sources and of `road_segment` contain the snapshot date only.  Left out: parse errors of
numbers, paging of the download, checksums, lineage and quality metrics.

### ReplayProducer and its inputs

`Prepare` writes temporary files, renames them and writes the manifest last;
`PrepareFails` is an exception, which unlinks them, or a death, which leaves what there is.  `run` loads the road environment, checks the bundle's
snapshot date against it, and plays trips from one heap; `parallel_replay` starts
workers, waits for each `ready`, sets the start signal, waits for results.  A delivery
report arrives only when the producer polls or flushes, as in librdkafka's Python
binding.  The bundle and the source are not changed while a run is in progress.
`RoadRouting` and `ReplayInput` hold shortest paths, candidates, the sort and rotation of
a month, the two readers, hourly sampling and shards.  `Months` and `Starts` are files and
anchors on which `SampledAsPlanned` compares the readers and adds up the sample; no
behaviour depends on them.

Both checks of the roads, `BundleFits` and `SameRoads`, compare the snapshot date
(`SameDate`) and nothing else, and two builds may share one, as they do in
`RoadEnvironment`: the instance has two networks of one date and one of the next.  With
another build of the same date both checks pass.  The reader walks each stored route on
the loaded roads when it brings the trip (`Brings`), one trip ahead of the dispatch, and
raises if they do not carry it: `Enters` for the first trip, `NextComes` and
`NextRaises` for the others.  A replay may thus fail in the middle after a new build of
the same date.  `RoutesFitTheRoads` claims that the dates agree, that no trip is
dispatched or played on roads that do not carry its route, and that none raises with
the very build the bundle was planned on.

`StartCutShort` is a `process.start()` that raises.  The loop stands before the `try`,
so nobody signals or terminates the workers already started; they are not daemons, and
Python waits for them at exit.  `main = "stranded"` is that state, and `RunEnds` excepts
it.

A race the model contains and
no property forbids: the coordinator may find a worker dead whose result is still in
the pipe, and fail a run that was complete.  The motion and vibration signals, the
summary file and the JSON-lines publisher are left out.

### FailureAlerts

A try fails, the callback looks up the owner, reads the driver log, writes the
failure record and posts; each of these helpers, the object store or Slack may be out
(`Outages`).  A log is a sequence of kinds of lines (an executor lost, a disk full,
noise, ...), and `RootCauseNamed` compares the rules with the cause the log was made for.
Things a reader should know and no property claims: the record is overwritten by
each try; a normal "Removing executor" counts as an executor's mark, which is
`RootCauseNamed`'s exception; the mark `MemoryError` also matches Java's
`OutOfMemoryError`; a root line more than 400 lines from the end is lost; the final alert
opens no thread of its own; for a DAG missing in the registry the summary of a
success is silent while failures are still alerted; the recovery is silent when the
thread file cannot be read.  Mentions, masking and wording are left out.

### IncidentResponse

`Handle(w)` is `OpsAgentOrchestrator.handle` in the order of its calls: `Take` (an alert
without an `ActionSpec` is only reported), `Reverify`, `Decide`, `Check` (the cooldown),
`Record` (the committed row), `Restart`, `Poll` until healthy or out of budget,
`RecordOutcome`, `Notify`.  Any of them may raise (`Raises`): the app logs it and goes
on.  An SSH command that fails or times out raises nothing: `RestartFails` goes on
to the poll, and the host may have executed the command all the same.  `Crash`
kills the agent at any step; the rows are on a volume and survive.

The webhook endpoint is `async` and calls the orchestrator without an `await`, so one
handling occupies the event loop from `Take` to its end: that is `LoopFree`, and the
only thing that keeps two deliveries from both passing `Check`.  The comment in
`incident_store.py:29` speaks of handlers in a thread pool; the mutant
`MutantThreadPool` shows what would follow from one.

Of the attempt table the model keeps the newest row of each alert: its age up to
the cooldown, its outcome (`recovered` is kept, `succeeded` is not) and, as a ghost, how
many restarts were commanded since.  Attempts are a cooldown apart; the command
itself may come a little after its row.  Prometheus is its newest sample per
container, and whether that is younger than the last restart.  The model lets
the agent restart a healthy container: without samples there is no status, and
that is not healthy; and a container may recover after the second look.  The first look comes
before any sleep, so a sample scraped before the restart can answer it and be
written down as the recovery (`orchestrator.py:243`); `OutcomeHasRestart` claims no more
than that there was a restart.

## 3. Runs

| configuration | instance | states | result |
|---|---|---|---|
| `HourSwap.cfg` | two part files, four results, atomic renames | 6,419 | holds |
| `HourData.cfg` | three hours of 20 units, trips of up to five samples, every odd kind of row, two runs | 253,510 | holds |
| `HourlyPipeline.cfg` | two hours, a backfill of the first, one retry, one waiter that gives up | 671,517 | holds |
| `Bronze_compaction.cfg` | two partitions (the later one unmergeable), three files, two chunks, limit of one group a run, two mishaps | 580,726 | holds |
| `Bronze_partial_delete.cfg` | a delete that removes some keys | - | `NoRowLost` violated |
| `Scores.cfg` | two zones, three rows, two processes, one mishap; collections of a map of seven zones; route requests | 628,045 | holds |
| `Scores_progress.cfg` | one zone with two rows, one mishap | 218,282 | holds |
| `Scores_rejected_weather.cfg` | a rejected reading and a missing one | - | `RejectedWeatherIsNotNews` violated |
| `RoadEnvironment.cfg` | six command lines, three datasets, three attempts, two at a time | 312,834 | holds |
| `Replay.cfg` | months of a small town, three networks of which two share a date, two workers, queue of two, one mishap | 317,868 | holds |
| `FailureAlerts.cfg` | two tasks, retries, six logs, one clear, two callbacks with an outage | 2,320,547 | holds |
| `Incidents.cfg` | two alerts about one container, two handlers, cooldown of two ticks, one mishap | 145,155 | holds |

What each passing run shows, beyond its properties' comments:

- *Swap*: all three writers keep the hour whole and refine `HourPartition` through any
  number of faults, crashes and retries.
- *Hour data*: from Bronze rows to standard scores nothing is counted twice or lost,
  against definitions that do not use the windows of the code.
- *Hourly pipeline*: with a Job Run nobody waits for any more, Gold still leads
  PostgreSQL; a generation goes back only by such a Job Run or a backfill
  (`OnlyStragglersGoBack`); and the harm it does to validated data stays in its hour.
- *Bronze*: compaction beside the stream, and how far a backlog is worked off.
- *Scores*: the composition of the three DAGs, with the algorithms that
  feed it and read from it.
- *Road environment*: interrupted, repeated, overlapping and late builds.
- *Replay*: preparation, road refreshes of the same and of another snapshot date, and
  a run with one crash, kill, exception, lost message or start that fails.
- *Failure alerts*: what still gets through when helpers fail.
- *Incidents*: redeliveries, exceptions and deaths of the agent.

Type invariants are proved for all nine state machines that runs start from (section 4).

Bounds.  *Swap*: two part files are the least that can be torn; four results let
debris of three failed calls lie beside a fresh one; faults and crashes are not
bounded.  *Hour data*: five samples give every pattern of two episodes with a gap
or a change of segment between; a reversal needs three; rows of the next hour
and of a second run show what leaks.  *Hourly pipeline*: two hours are an old and a
new one; the backfill of the first can run beside the second.  *Bronze*: three
files allow two merged and one late; two mishaps allow a failure and the failure of
its clean-up.  *Scores*: two ticks and two hours give an old and a new value of
everything; `now` stops at `MaxTick`, after which further ticks rerun with unchanged
weather, so that "once the weather stops changing" has a meaning; two processes
are an abandoned one and its successor; two rows in a zone can disagree.
`MaxRate` is 50 instead of the default 25 percent so that one of three rows may be
quarantined without tripping the breaker while two trip it.  One mishap in this run:
the proofs cover any number.  Readings sit on both sides of
each threshold and on it; the map has a mainland, two islands and zones without a
polygon, in three regions and two batches.  *Road environment*: three attempts are a
published build, one that died and one that comes late; the datasets contain each
rule of the enrichment once with a counterpart that must not apply.  *Replay*: a
queue of two fills; two workers are the least that can disagree; months of three
trips at six anchors for the readers; a second build of a date, with a segment turned
round, carries some routes and not others.  *Failure alerts*: a task with two retries has a
first, a middle and a final failure; a clear makes tries start again; two outages
are a failed first alert and a failed later one.  *Incidents*: two fingerprints share
what can be shared, a container; two handlers are the least that could overlap; a
cooldown of two ticks tells "just attempted" from "soon over" from "over"; a poll
with one sleep has a first, a last and a failing look; the inbox keeps one waiting
copy of an alert, since another one would meet the same cooldown.

Deadlock is checked except where the system stops: after the last hour
(`HourlyPipeline`, `HourData`), when a DAG run (`FailureAlerts`), a replay
or the builds (`RoadEnvironment`) are over.

Fairness.  `PartitionReplace`: a job that runs goes on, and Airflow calls it again,
except that nothing makes an hour without rows get any: after a refused empty comfort
score no other call need come (`RefusedAtOnce`).  `HiddenHourReturns` assumes that
failures stop.  `BronzeCompaction`: the DAG runs
daily and time passes for the safety margin; nothing is assumed of the stream.
`ScoreTables`: weak fairness for the scheduler (ticks, hours, starting runs,
tries) and for each process; `Mishaps` have none and are bounded.  Nothing is
assumed of the order in which waiting processes get the lock.  `HourlyPipeline`: some
task or Job Run goes on while one can (`Progress`); no DAG run is preferred and nobody is
forced to give up.
`ReplayProducer`: processes go on and the coordinator looks at its workers, as its
loop with a time-out does; no mishap need happen, and a worker that hangs without dying
is excluded (the coordinator waits for it as long as it lives).  `IncidentResponse`:
Grafana keeps posting an alert while the service looks down, the event loop
runs, Prometheus scrapes, a starting container comes up unless a (bounded) mishap
stops it, and time passes; a container need not restart by itself.

The two violations disagree with a sentence of the repository each, quoted in
`PROJECT.json`:

1. *A partial delete loses rows.*  The sources are deleted inside the `try` whose
   handler removes the merged outputs.
2. *A rejected reading can trigger a refresh.*  It is upserted before it is
   validated and stays there; a tick in which its zone got no reading validates
   only the other rows, then finds the zone changed.

Three more traces are in the models without a run of their own.  A compaction worker
that dies after the upload frees the pool slot with both copies in place: a reader
sees the rows twice, and the next run merges the sources again under new names beside
the outputs that are there.  A standard generation can
be overwritten by an older one, since the MERGE does not compare generations
(`OnlyStragglersGoBack` says by whom).  And the ops-agent can take a sample from
before its restart for the recovery (section 2).

## 4. Proofs

| theorem | property | assumption |
|---|---|---|
| `HourProofs!TypeCorrect` | `TypeOK` | none |
| `HourProofs!SuccessSafe` | `SuccessMeansPublished` | none: also on the object store |
| `HourProofs!ReaderSafe` | `ReaderSeesWholeHour` | `AtomicFs` |
| `HourProofs!Refinement` | `ImplementsHourPartition` | `AtomicFs` |
| `HourProofs!TablesTyped` | `HourTypeOK` | none |
| `HourProofs!NoBetterRoad` | `MatchUndominated` | none |
| `HourProofs!EpisodesCountedOnce` | `EventsAreEpisodes` | none |
| `HourProofs!NothingLost` | `RowsAccountedFor` | `NoPartitionIsNull` |
| `HourProofs!WholeMapScored` | `StandardComplete` | none |
| `HourlyPipelineProofs!TypeCorrect` | `TypeOK` | none |
| `HourlyPipelineProofs!Serialised` | one watched Job Run, whose DAG run holds the slot | none |
| `HourlyPipelineProofs!SourceOfTruth` | `GoldIsSource` | none |
| `HourlyPipelineProofs!AnnouncedIsLoaded` | `AnnouncesWhatWasLoaded` | none (hours with a standard straggler are its exception) |
| `HourlyPipelineProofs!OnlyAcceptedScored` | `RejectedFeaturesNotScored` | none (hours with a transform or score straggler are its exception) |
| `HourlyPipelineProofs!OneInStaging` | at most one holder of the staging lock | none |
| `HourlyPipelineProofs!NeverBackBySchedule` | `OnlyStragglersGoBack` | none |
| `BronzeCompactionProofs!TypeCorrect` | `TypeOK` | none |
| `BronzeCompactionProofs!NothingLost` | `NoRowLost` | `~PartialDeletes` |
| `BronzeCompactionProofs!RowsStoredOnce` | `StoredOnceWithoutMishap` | none |
| `ScoreTablesProofs!TypeCorrect` | `TypeOK` | none |
| `ScoreTablesProofs!WeatherAdvances` | `WeatherNeverGoesBack` | none |
| `ScoreTablesProofs!RowsOnlyAdvance` | `CurrentNeverGoesBack` | `~StandardOverruns` |
| `ScoreTablesProofs!NothingSkipped` | `NoSilentSkip` | `~StandardOverruns` |
| `ScoreTablesProofs!ZonesGetTheirs` | `ZonesGetTheirWeather` | `RegionsAssumption`, `CollectionAssumption` |
| `ScoreTablesProofs!RulesOnlyTake` | `WeatherOnlyLowers` | `ReadingsAssumption` |
| `ScoreTablesProofs!RoutesFair` | `RoutesComparedFairly` | `ConfigAccepted`, `ServingAssumption` |
| `RoadEnvironmentProofs!TypeCorrect` | `TypeOK` | none |
| `RoadEnvironmentProofs!Whole` | `PublishedIsWhole` | `RequestsAssumption` |
| `RoadEnvironmentProofs!RoadsOfTheirTime` | `PastMonthsKeepTheirRoads` | `RequestsAssumption` |
| `RoadEnvironmentProofs!EnvironmentsSound` | `EnvironmentSound` | `RequestsAssumption`, `DatasetsAssumption` |
| `ReplayProducerProofs!TypeCorrect` | `TypeOK` | none |
| `ReplayProducerProofs!ManifestIsLast` | `ManifestMeansWhole` | none |
| `ReplayProducerProofs!RoutesAlwaysFit` | `RoutesFitTheRoads` | `SourcesAssumption`, `NetworksAssumption` |
| `ReplayProducerProofs!SuccessLosesNothing` | queues empty and no error passed over at success | none |
| `ReplayProducerProofs!NeverBackInTime` | `ReplayedInOrder` | `SourcesAssumption`, `WallsAssumption`, `AnchorsAssumption` |
| `ReplayProducerProofs!SuccessIsWhole` | `SuccessIsComplete` | as above, and `ShardAssumption` |
| `ReplayProducerProofs!PlannedSample` | `SampledAsPlanned` | `SourcesAssumption`, `WallsAssumption` |
| `FailureAlertsProofs!TypeCorrect` | `TypeOK` | none |
| `FailureAlertsProofs!AlwaysReported` | `FailuresReported` | none |
| `FailureAlertsProofs!OneThread` | `OneThreadPerTask` | none |
| `FailureAlertsProofs!CauseIsNamed` | `RootCauseNamed` | `LogsAssumption` |
| `IncidentResponseProofs!TypeCorrect` | `TypeOK` | none |
| `IncidentResponseProofs!OutcomesHonest` | `OutcomeHasRestart` | none |
| `IncidentResponseProofs!LimitKept` | `ImplementsRestartLimit` | none |

- *Swap.*  The first invariant holds on any file system: nothing is known of the
  final and backup paths between calls, but what the read-back established of
  staging stays true, at "promote" the final path and staging together are the
  result, and a call that got to its end has moved every object it had to.  It
  gives `SuccessMeansPublished`.  The second one is for atomic renames: final and
  backup hold whole results or nothing.  The refinement uses both: each action is
  a step of `HourPartition` or leaves the mapped variables alone.
- *Hour data.*  The invariant says where a run's state comes from: what it has read
  (`Given`), and that each table of an hour is what the job's operator makes of it
  (`Working`, `Stored`, `Tables`, `StandardTyped`); the rest is about the operators.  *Matching*:
  the order by score, distance, heading and segment is total on the candidates, so the
  chosen road is before all others, also among those that fit equally well; better in one and no worse in the other
  makes the score better.  *Episodes*: the numbered runs of the windows are the maximal
  stretches, by induction on the row; the sign of the last turn before a row
  is the one a change of direction looks for.  *Rows*: the features partition the
  matched rows by segment and profile, so their sample counts add up, and offsets
  tell apart the rows of the quarantine.  *Scores*: sums over finite sets are
  proved to keep order, split and scale by well-founded induction over the set
  of subsets for which they do, which needs no operator parameter.  A weighted average
  then lies between the least and the greatest of its parts; the integer
  root and the percentile exist and have their bounds.
- *Hourly pipeline.*  The key is who may be where: a watched Job Run belongs to the
  DAG run that holds the slot and to its present task.  A version
  only ever becomes whole, and each Job Run knows how far its own is (`GoldInv`).  Two DAG
  runs are never of one hour (`HoursApart`), so in an hour without a straggler of the
  task nobody else switches the manifest between the load and the validation (`Agrees`),
  and nobody replaces features between their validation and their scoring
  (`CleanInv`).  For
  `OnlyStragglersGoBack`, no two Job Runs in progress are the same try (`NamesApart`), so the
  staging lock names its holder (`StagingHeld`), and a holder the schedule waits for is
  of the latest hour that was begun (`RunsInOrder`).
- *Bronze.*  A deleted source must be held by a merge that will not be cleaned up
  any more, that is, an earlier one or one that is no longer in flight; and the
  job comes to "delete" only when the current merge holds all that was listed.
  `NoRowLost` alone is not inductive: it would let a clean-up take the only copy.
  For `StoredOnceWithoutMishap` a file that is still there may be in outputs of the
  merge in flight only (`NotMergedYet`), what the run has yet to merge must still be
  there (`ListedIsThere`), and a merge holds exactly what was listed (`MineIsWhole`).
- *Scores.*  At most one process scores; what it read is no newer than the table
  and no older than any row (`HolderIsNewest`), because the lock is taken before the
  rows are read and the table only advances.  Hence a commit moves every row up.
  The same fact gives `NoSilentSkip`: a refresh of all rows writes or quarantines
  each row with the generation it records, and an incremental one adds records.
  `WeatherNeverGoesBack` needs only the guard of the upsert and the types.
- *Weather.*  *Regions*: after each turn of the loop the regions divide the zones,
  the neighbour sets are exactly the regions that touch (`Neighbouring`; the
  loop maintains them by hand), and each region is one piece with whole islands
  (`Mapped`).  Zones that touch belong to the pieces of their regions, so
  absorbing a neighbour joins two pieces; a region without neighbours is whole
  islands.  The third part needs the second: with a neighbour forgotten, a region
  would be taken for an island.  The turns are counted by a least counterexample, which
  needs no operator parameter.  *Rows*: a region is asked for at one place of one batch
  only, because the batches cut the list of distinct regions, so what came at that place is
  its own.  *Rules*: the sorted conditions of a signature give back the set, each
  deduction grows with the conditions, and the cut to 0..100 keeps the order.
- *Routes.*  The worst scores are those of rank up to `few`; one of them separates them
  from the others, so no other choice of as many places has a lower sum, and their
  average is no more than that of all (`Lightest`).  A comfort therefore lies between
  the two averages; and since the worst places of the old drive, or those with the
  lowered score exchanged for the raised one, are a choice too, a worse segment or a
  rougher mix can only lower both sums.  Rounding keeps the order and
  whole points.  For the answer: the ranks number the routes once each, first places
  keep every segment asked for, and both endpoints fetch the same rows.
- *Road environment.*  A build id has one attempt at a time and none after its manifest
  (`Exclusive`), so only the attempt at work writes under its paths, and it has written what it
  has passed (`WrittenSoFar`).  For `PastMonthsKeepTheirRoads`, each manifest was published at an
  instant of its own, before now (`Bounded`), so a step can only add a newer
  one to those a month chooses among; that a month with candidates has a newest
  (or nearest) one is shown by well-founded induction.  For `EnvironmentSound`, a
  manifest names the source of an accepted command line (`Sourced`), and the rest is
  about the rows that are made of a source.  Any strict order on a finite set numbers its
  elements (`Numbered`), so a list taken from one is known without induction over
  lists.  *Segments*: one of an identifier's rows survives, the lowest; a
  valid record has no other of its identifier, so its geometry is its own.
  *Ratings*: the order by distance, date, text and place is total, so the
  first of the inspections is nearest and then latest, and dropping inspections of
  later dates does not move it.  *Humps*: a record goes to at most one segment, to
  one exactly if a segment of its street is near (`SegmentForIs`), so the humps placed
  correspond one to one to those recorded; fractions compared by cross
  multiplication are in order, and the same when later records are dropped, since
  the points that remain correspond in the same order (`OrderedSame`).
- *Replay.*  For the bundle: a preparation starts only where no file of a
  bundle is, and the manifest comes after both renames.  For the routes: a process past its checks
  has roads of the date of the manifest, and whatever is in its queue was brought on
  the roads it has loaded (`DueBrought`); on the build the bundle was planned on every
  stored route can be walked again.  For success: a worker reports a result only
  after a flush that left nothing, and an error is never forgotten.  For the order:
  what is still to come of a trip is in the queue or the iterator, and
  nothing there is due before what was handled last (`DueFits`, `TodoFits`,
  `DispatchFits`).  For completeness: whatever sample a process owes has been sent or
  is still to come (`NothingForgotten`), nothing is sent that nobody owes
  (`NothingInvented`), and when everybody is done nothing is to come.  Each trip is in one
  share, so no sample is sent twice: the messages correspond one to one
  to the samples expected.
- *What a replay reads.*  *Order*: rows are sorted by request and row number, a strict
  order, so `Numbered` knows the list.  The rows at or after the anchor are an interval at
  its end (`FirstLate`); the first group whose statistics reach the anchor holds its
  first row, so the groups from there on give that interval, the groups up to it the rows before
  (`PreparedIs`).  Shifting those by a cycle puts them behind all others, so the query's
  sort gives the same rotation (`ParquetIs`, `SameOrder`).  Sampling and sharding keep the order
  of what they keep (`PlaylistsOrdered`), and each trip is in one share (`PlaylistsDivided`).
  *Sample*: a trip's probability is not above the ratio of any hour it spans
  (`ProbabilityIs`), hence its events in the hour, weighted by it, add up to no more than
  the target (`ExpectedKept`); the product of the denominators makes the ratios comparable.
  Sums and products are recursive functions: that such a function exists is shown
  by a least counterexample (`AccumulatedFunction`), as above.  *Routes*: every route the search builds
  is a walk on the network (`RoutesWalk`); where there is one to the destination, one has the
  least length (`ShortestIs`) and, among the pairs of anchors, the least error
  (`BestExists`).  Walked from its stored segments and directions it is the same walk
  (`TemplateIs`), and that is what `plan_from_segments` checks.
- *Failure alerts.*  A message of a failed try is posted in the callback or Slack was
  out; a thread file names a message of the same task, and the later messages follow it.
  A diagnosis in a message is that of the task's log (`Diagnosed`); that it is right is
  shown rule by rule: the window holds the telling line, the rules before it in
  priority match nothing in a log of that cause, and its own does.
- *Incidents.*  At most one handler is not idle (`OneAtATime`), so nobody else
  touches the row a handler has looked at: at "record" its alert is a cooldown
  old, at "restart" the row is there and nothing was restarted since, at "poll"
  and "outcome" exactly one restart was (`RowOf`).  Neither property is inductive
  without these.  `Record` then maps to `Attempt`, a command to `Restart`, `Tick` to `Time`,
  and everything else leaves the mapped variables alone.

`NoPartitionIsNull` says that no set of quarantine rows is `NULL`, which in `HourData` stands
for a partition that is not there; TLC cannot enumerate those sets, so it is a
hypothesis.  `LogsAssumption`, `SourcesAssumption` (a file is a list of rows, and times and miles of a valid row are
there), `WallsAssumption` (weekday occurrences, clock times and anchors are whole
numbers), `ShardAssumption` (`stable_worker_index` is below the number of workers), `NetworksAssumption`
(finitely many segments with an id each, as the loader checks, lengths and times in whole units), `AnchorsAssumption`, `RequestsAssumption`, `DatasetsAssumption` (places, object ids and counts are
whole numbers, a date is one or missing, a missing identifier stays missing), `RegionsAssumption` (finitely many zones, at least as
many on the map as regions are wanted, areas and distances in whole units),
`CollectionAssumption` (a region has one row in the master, as the script writes it) `ReadingsAssumption` (readings are integers or missing, scores 0 to 100) and
`ServingAssumption` (requests as the schema reads them, scores 0 to 100 as the table's
`CHECK` has them, a standard load that takes no row away) are assumptions of
the modules.

`AnchorsAssumption` says that a run begins no later than just after the last request of its file.
Nothing in `source_anchor_for_wall_time` checks it; it holds of a month with requests up to the
end of its last day.  Later than that, everything would be a cycle ahead and some of it still
before the anchor (the cycle is as long as the requests, not as the month).
That playlists are in order and shared out (`PlaylistsInOrder`, `PlaylistsShared`) and that stored
routes can be walked (`RoutesWalkable`) is no assumption: the lemmas `PlaylistsOrdered`, `PlaylistsDivided`
and `TemplatesWalkable` prove it, and `MCReplayProducer` has TLC evaluate it on its months and networks.

Where the assumption of a theorem fails, a run shows a counterexample or (object
store, overrunning Job Runs, reused build ids) nothing is claimed.

Every safety invariant and action property of the passing runs is stated by a theorem.
Model-checked only: the liveness properties (`HiddenHourReturns`, `EventuallyCompacted`,
`SignaturesHeal`, `StandardArrives`, `EveryRunEnds`, `RunEnds`, `DownIsRepaired`), which
are out of TLAPS's reach.

## 5. Plan

Done: the parts of the pipeline that keep state, but for those in section 6, with the
algorithms between.
What would add most next:

1. The pointer moved between the standard load and the current score: a composition
   of `RoadEnvironment` and `ScoreTables` in which the network changes.
2. A version bump of the weather rules as an action of `ScoreTables`.

## 6. Not modelled

- Floating-point computation: kinematics and vibration signals of the simulation,
  geometry, the statistics of zone profiles and of the calibration.  Where a
  decision depends on such a number, a table of the instance or a whole number
  stands for it.
- Spark's checkpointing and commit protocols, Kafka's replication.
- `migrate.py`: one process under an advisory lock applies files in order with one
  commit each; nothing interleaves with it.
- `zone_weather_compaction.py`: the merge of `BronzeCompaction` again, with the
  deletion outside the `try`, over files nobody in the repository reads.
- The daily data-quality audits, which read and report; the dashboard,
  infrastructure and performance tools; Slack wording.
