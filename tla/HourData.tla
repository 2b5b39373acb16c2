------------------------------ MODULE HourData ------------------------------
(***************************************************************************)
(* What the hourly jobs make of the Bronze rows of an hour: the rows kept, *)
(* quarantined and counted (run_sensor_processing), the quarantine rate    *)
(* (validate_sensor_processing), the scores of the hour                    *)
(* (run_hourly_comfort_scoring) and the standard scores of a window        *)
(* (run_standard_score).  The computations are those of SensorCleansing,   *)
(* SensorFeatures, MapMatching and ComfortFormula; how the tasks are       *)
(* scheduled is the subject of HourlyPipeline, and how a partition is      *)
(* replaced that of PartitionReplace.                                      *)
(***************************************************************************)
EXTENDS ComfortFormula

CONSTANTS
  Inputs,        \* [feed, roads]: micro-batches of Bronze rows, road_segment file
  Snapshot,      \* road_snapshot_date
  Hours,         \* bound: the hours that pass
  MaxRuns,       \* bound: runs of the hourly jobs
  RejectLimit    \* highest quarantine rate, in percent

ASSUME HourDataAssumption ==
  /\ {Hours, MaxRuns} \subseteq Nat \ {0}
  /\ RejectLimit \in 0..100

\* An offset belongs to one row, and the roads are near or far from every place.
ASSUME InputsAssumption ==
  \A in \in Inputs :
    /\ in.feed \in Seq(SUBSET BronzeRow)
    /\ \A i \in DOMAIN in.feed : IsFiniteSet(in.feed[i])
    /\ \A i, j \in DOMAIN in.feed : \A a \in in.feed[i], b \in in.feed[j] :
         a.offset = b.offset => a = b
    /\ IsFiniteSet(in.roads)
    /\ \A road \in in.roads :
         /\ road.bearing \in Int /\ road.segment \in Int \cup {NULL}
         /\ road.segment # NULL => \A place \in Places : Distance[place][road.segment] \in Nat

VARIABLES
  input,       \* the member of Inputs this behaviour reads
  loaded,      \* how many micro-batches the stream has written
  now,         \* the hour that has begun; those before it are over
  run,         \* the hourly run in progress, NULL between runs
  features,    \* hourly_segment_features, a partition per hour, NULL without
  quarantine,  \* sensor_event_quarantine
  comfort,     \* hourly_comfort_score
  rejected,    \* hourly_comfort_rejected
  standard,    \* the rows of the last standard score, NULL before the first
  runs         \* how many runs were started

partitions == <<features, quarantine, comfort, rejected>>
hourVars == <<input, loaded, now, run, partitions, standard, runs>>

HourSet == 0..(Hours - 1)
Stages == {"cleansed", "quarantined", "featured", "validated", "scored", "stored"}
Bronze == UNION {input.feed[i] : i \in 1..loaded}

HourInit ==
  /\ input \in Inputs
  /\ loaded = 0 /\ now = 0 /\ runs = 0
  /\ run = NULL /\ standard = NULL
  /\ features = [h \in HourSet |-> NULL]
  /\ quarantine = [h \in HourSet |-> NULL]
  /\ comfort = [h \in HourSet |-> NULL]
  /\ rejected = [h \in HourSet |-> NULL]

\* The stream writes a micro-batch, each row in the directory of its hour.
Load ==
  /\ loaded < Len(input.feed)
  /\ loaded' = loaded + 1
  /\ UNCHANGED <<input, now, run, partitions, standard, runs>>

Tick ==
  /\ now < Hours
  /\ now' = now + 1
  /\ UNCHANGED <<input, loaded, run, partitions, standard, runs>>

\* run_cleansing_job, and run_hourly_segment_feature_job up to the materialised
\* matches.  A missing directory is an hour without rows; an unusable road file
\* ends the job before the matching.  A kept row whose time cannot be converted
\* either makes the job raise (FailRun) or is left out by the filter on the hour.
StartRun(h) ==
  /\ run = NULL /\ runs < MaxRuns /\ h < now
  /\ UsableRoads(input.roads, Snapshot)
  /\ LET rows == BronzeHour(Bronze, h)
     IN \E kept \in Survivors(Sound(rows)) :
          run' = [hour |-> h, stage |-> "cleansed", rows |-> rows, kept |-> kept,
                  segment |-> MatchRows(kept \ Unconvertible(kept), input.roads)]
  /\ runs' = runs + 1
  /\ UNCHANGED <<input, loaded, now, partitions, standard>>

\* _build_map_matching_quarantine.
Unmatched(segment) ==
  {Quarantined(row, "MAP_MATCH_FAILED") : row \in {r \in DOMAIN segment : segment[r] = NULL}}

OrNothing(rows) == IF rows = {} THEN NULL ELSE rows
CountOf(partition) == IF partition = NULL THEN 0 ELSE Cardinality(partition)

\* write_hourly_quarantine: an hour without rejects keeps no partition.
WriteQuarantine ==
  /\ run # NULL /\ run.stage = "cleansed"
  /\ quarantine' = [quarantine EXCEPT ![run.hour] =
       OrNothing(Rejects(run.rows, run.kept) \cup Unmatched(run.segment))]
  /\ run' = [run EXCEPT !.stage = "quarantined"]
  /\ UNCHANGED <<input, loaded, now, features, comfort, rejected, standard, runs>>

\* build_hourly_segment_features, validate_hourly_segment_features and
\* write_hourly_segment_features, which refuses an hour without rows.
WriteFeatures ==
  /\ run # NULL /\ run.stage = "quarantined"
  /\ LET rows == HourlyFeatures(DOMAIN run.segment, run.segment)
     IN /\ rows # {} /\ FeaturesValid(rows)
        /\ features' = [features EXCEPT ![run.hour] = rows]
  /\ run' = [run EXCEPT !.stage = "featured"]
  /\ UNCHANGED <<input, loaded, now, quarantine, comfort, rejected, standard, runs>>

\* compute_quarantine_rate against the suite: a missing quarantine counts 0.
RateAcceptable(h) ==
  LET bad == CountOf(quarantine[h])
      accepted == Sum(features[h], [f \in features[h] |-> f.samples])
  IN 100 * bad <= RejectLimit * (bad + accepted)

\* run_sensor_processing_validation.
Validate ==
  /\ run # NULL /\ run.stage = "featured"
  /\ features[run.hour] # NULL
  /\ RateAcceptable(run.hour)
  /\ run' = [run EXCEPT !.stage = "validated"]
  /\ UNCHANGED <<input, loaded, now, partitions, standard, runs>>

\* run_hourly_comfort_job up to the scores, which may not be empty.
ScoreHour ==
  /\ run # NULL /\ run.stage = "validated"
  /\ features[run.hour] # NULL
  /\ LET rows == ScoredRows(features[run.hour], run.hour)
     IN /\ rows # {}
        /\ comfort' = [comfort EXCEPT ![run.hour] = rows]
  /\ run' = [run EXCEPT !.stage = "scored"]
  /\ UNCHANGED <<input, loaded, now, features, quarantine, rejected, standard, runs>>

\* run_hourly_comfort_job, its second partition.
WriteRejected ==
  /\ run # NULL /\ run.stage = "scored"
  /\ rejected' = [rejected EXCEPT ![run.hour] = OrNothing(RejectedRows(features[run.hour]))]
  /\ run' = [run EXCEPT !.stage = "stored"]
  /\ UNCHANGED <<input, loaded, now, features, quarantine, comfort, standard, runs>>

\* run_hourly_scoring_validation, against the suite; the run is over.
ValidateScores ==
  /\ run # NULL /\ run.stage = "stored"
  /\ comfort[run.hour] # NULL
  /\ \A row \in comfort[run.hour] : \A d \in Directions : row.scores[d] \in 0..100
  /\ run' = NULL
  /\ UNCHANGED <<input, loaded, now, partitions, standard, runs>>

\* A job of the run raises or is stopped; what it has written stays.
FailRun ==
  /\ run # NULL
  /\ run' = NULL
  /\ UNCHANGED <<input, loaded, now, partitions, standard, runs>>

\* load_hourly_comfort_score_for_gold.
WindowRows == UNION {comfort[h] : h \in {w \in Window(now) \cap HourSet : comfort[w] # NULL}}

\* run_standard_score: as_of is the hour that begins.
StandardScore ==
  /\ run = NULL
  /\ WindowRows # {}
  /\ ~ReservedProfileUsed(WindowRows)
  /\ standard' = StandardRows(WindowRows, now)
  /\ UNCHANGED <<input, loaded, now, run, partitions, runs>>

HourNext ==
  \/ Load
  \/ Tick
  \/ \E h \in HourSet : StartRun(h)
  \/ WriteQuarantine
  \/ WriteFeatures
  \/ Validate
  \/ ScoreHour
  \/ WriteRejected
  \/ ValidateScores
  \/ FailRun
  \/ StandardScore

HourSpec == HourInit /\ [][HourNext]_hourVars

-----------------------------------------------------------------------------
\* What a row of the features and of a score table looks like.
FeatureRowOK(f) ==
  /\ f.samples \in Nat /\ f.trips \in 1..f.samples
  /\ \A k \in Kinds \cup {"steer_reversal"} : f[k] \in 0..f.samples
ScoresOK(scores) == DOMAIN scores = Directions /\ \A d \in Directions : scores[d] \in 0..100

\* Every variable holds what its table or counter can hold: feature rows with
\* fewer trips and events than samples, scores of 0 to 100 points
\* (hourly_comfort.py _component_score, comfort_score/formula.py
\* _apply_shrinkage), a confidence of 0 to 100 percent.
HourTypeOK ==
  /\ loaded \in 0..Len(input.feed)
  /\ now \in 0..Hours /\ runs \in 0..MaxRuns
  /\ run # NULL =>
       /\ run.hour \in HourSet /\ run.stage \in Stages
       /\ DOMAIN run.segment \subseteq run.kept /\ run.kept \subseteq run.rows
  /\ \A h \in HourSet :
       /\ features[h] # NULL => \A f \in features[h] : FeatureRowOK(f)
       /\ comfort[h] # NULL => \A row \in comfort[h] : ScoresOK(row.scores)
       /\ quarantine[h] # NULL => Cardinality(quarantine[h]) > 0
       /\ rejected[h] # NULL => Cardinality(rejected[h]) > 0
  /\ standard # NULL => \A row \in standard :
       /\ ScoresOK(row.scores)
       /\ row.comfort \in 0..100 /\ row.confidence \in 0..100

\* Nothing is lost and nothing is counted twice between Bronze and Silver: the
\* samples of an hour's features, its quarantined rows and the rows whose time
\* cannot be converted add up to the rows read.  What is counted was valid, in
\* the hour and near a road, and is the only counted copy of its event, no
\* valid copy having been ingested later (cleansing/validate.py,
\* hourly_segment_feature_job.py run_hourly_segment_feature_job).
RowsAccountedFor ==
  (run # NULL /\ run.stage \in {"featured", "validated", "scored"}) =>
    LET counted == {row \in DOMAIN run.segment : run.segment[row] # NULL}
        samples == Sum(features[run.hour], [f \in features[run.hour] |-> f.samples])
        Valid(row) ==
          /\ row.parsed
          /\ \A c \in Required : row[c] # NULL
          /\ Readable(row.time) => row.time \in TimeBounds.least..TimeBounds.most
          /\ \A c \in DOMAIN Ranges : row[c] # NULL =>
               /\ Ranges[c].least <= row[c]
               /\ row[c] < Ranges[c].most \/ (row[c] = Ranges[c].most /\ ~Ranges[c].open)
    IN /\ samples = Cardinality(counted)
       /\ samples + CountOf(quarantine[run.hour]) + Cardinality(Unconvertible(run.kept))
            = Cardinality(run.rows)
       /\ \A row \in counted :
            /\ Valid(row) /\ Readable(row.time)
            /\ row.time \div HourLength = run.hour
            /\ \E road \in input.roads : Distance[row.place][road.segment] <= Radius
            /\ \A other \in run.rows \ {row} : other.event = row.event =>
                 other \notin counted /\ (Valid(other) => other.ingested <= row.ingested)

\* The events of a feature row are the episodes of the hour that begin on its
\* samples, each once: a longest stretch of samples over a threshold, without
\* a gap, that lasts long enough; and the reversals are the changes of
\* direction of the wheel (sensor_features/feature_pipeline.py against
\* events.py _add_episode_start and steering.py add_steering_reversal).
EventsAreEpisodes ==
  (run # NULL /\ run.stage = "featured") =>
    LET rows == DOMAIN run.segment
        trips == [t \in TripsOf(rows) |-> TripRows(rows, t)]
        Positions == UNION {{t} \X DOMAIN trips[t] : t \in DOMAIN trips}
        On(f, p) == LET row == trips[p[1]][p[2]]
                    IN run.segment[row] = f.segment /\ row.profile = f.profile
        Episodes(f, k) ==
          {p \in Positions : On(f, p) /\ \E r \in SustainedRuns(trips[p[1]], k) : r[1] = p[2]}
        Changes(f) == {p \in Positions : On(f, p) /\ p[2] \in DirectionChanges(trips[p[1]])}
    IN \A f \in features[run.hour] :
         /\ \A k \in Kinds : f[k] = Cardinality(Episodes(f, k))
         /\ f.steer_reversal = Cardinality(Changes(f))

\* Road a fits the sample better than road b: nearer and at least as well
\* aligned, or better aligned and as near; just nearer when the sample has no
\* heading.  Of roads as near and as well aligned, the lower segment goes first.
Beats(row, a, b) ==
  LET near == <<DistanceOf(row, a), DistanceOf(row, b)>>
      diff == <<HeadingDiffOf(row, a), HeadingDiffOf(row, b)>>
  IN \/ row.heading = NULL /\ near[1] < near[2]
     \/ /\ NULL \notin {diff[1], diff[2]}
        /\ near[1] <= near[2] /\ diff[1] <= diff[2]
        /\ near[1] < near[2] \/ diff[1] < diff[2]
     \/ near[1] = near[2] /\ diff[1] = diff[2] /\ a.segment < b.segment

\* A sample is matched whenever a road is within the radius, and never to a
\* road that another one beats; of roads that fit it equally well it gets the
\* same one in every run (map_matching/scoring.py, and matching.py
\* select_best_candidates).
MatchUndominated ==
  (run # NULL /\ run.stage = "cleansed") =>
    \A row \in DOMAIN run.segment :
      LET near == {road \in input.roads : Distance[row.place][road.segment] <= Radius}
      IN IF near = {} THEN run.segment[row] = NULL
         ELSE \E best \in near :
                /\ run.segment[row] = best.segment
                /\ \A other \in near : ~Beats(row, other, best)

\* A standard score covers the whole map: one row for every segment and every
\* vehicle profile and for all vehicles together, also where nobody drove, its
\* scores between the lowest and the highest of the hours read, no confidence
\* without evidence, and a period inside the window that ends before the hour
\* that has begun (comfort_score/formula.py, loader.py).
StandardComplete ==
  [][ standard' # standard =>
        LET used == {row \in UNION {comfort[h] : h \in {g \in HourSet : comfort[g] # NULL}} :
                       row.hour < now /\ now - row.hour <= WindowHours}
            points == {row.scores[d] : row \in used, d \in Directions}
        IN /\ \A segment \in Universe, profile \in Profiles \cup {AllVehicles} :
                Cardinality({row \in standard' : row.segment = segment /\ row.profile = profile}) = 1
           /\ \A row \in standard' :
                /\ \A d \in Directions : row.scores[d] \in Min(points)..Max(points)
                /\ row.comfort \in Min(points)..Max(points)
                /\ row.samples = 0 <=> row.confidence = 0
                /\ 0 <= row.to - row.from /\ row.to <= now /\ now - row.from <= WindowHours
    ]_hourVars
=============================================================================
