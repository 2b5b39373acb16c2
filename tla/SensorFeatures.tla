---------------------------- MODULE SensorFeatures ----------------------------
(***************************************************************************)
(* Steering and event features of the rows of an hour, and their totals    *)
(* per segment and vehicle profile (batch_jobs/sensor_features).           *)
(* Operators only.                                                         *)
(*                                                                         *)
(* add_steering_and_event_features replaces five functions, which compute  *)
(* one feature each, by shared windows.  Starts and ReversalAt follow it,  *)
(* by lags and running sums; SustainedRuns and DirectionChanges say what   *)
(* the functions of events.py and steering.py stand for.                   *)
(***************************************************************************)
EXTENDS SensorCleansing, Functions

CONSTANTS
  SteerGap, Deadband,             \* steering_features.yaml
  EventGap, HardAccel, HardBrake, \* event_features.yaml
  SharpSteer, MinEvent, MinSharp

ASSUME FeaturesAssumption ==
  /\ {SteerGap, EventGap, HardAccel, SharpSteer} \subseteq Nat \ {0}
  /\ {Deadband, MinEvent, MinSharp} \subseteq Nat
  /\ HardBrake \in Int /\ HardBrake < 0

Size(n) == IF n < 0 THEN -n ELSE n

\* trip_window: the rows of a trip by trip_seq, event_time and event_id.
TripRows(rows, trip) ==
  LET ofTrip == {row \in rows : row.trip = trip}
      Follows(a, b) == \/ a.seq > b.seq
                       \/ a.seq = b.seq /\ a.time > b.time
                       \/ a.seq = b.seq /\ a.time = b.time /\ a.event > b.event
      Earlier(a) == Cardinality({b \in ofTrip : Follows(a, b)})
  IN [i \in 1..Cardinality(ofTrip) |-> CHOOSE a \in ofTrip : Earlier(a) = i - 1]

\* A row does not continue the one before it.
Gap(s, i, most) ==
  i = 1 \/ s[i].time <= s[i - 1].time \/ s[i].time - s[i - 1].time > most

\* steering_rate, as the turn and the time it took.
SteeringRate(s, i) ==
  IF Gap(s, i, SteerGap) \/ NULL \in {s[i].angle, s[i - 1].angle} THEN NULL
  ELSE [turn |-> s[i].angle - s[i - 1].angle, over |-> s[i].time - s[i - 1].time]

\* _steering_direction.
DirectionOf(s, i) ==
  LET rate == SteeringRate(s, i)
  IN IF rate = NULL THEN NULL
     ELSE IF Size(rate.turn) <= Deadband * rate.over THEN NULL
     ELSE IF rate.turn > 0 THEN "left" ELSE "right"

\* _continuity_group: rows without a rate up to this one.
ContinuityGroup(s, i) == Cardinality({j \in 1..i : SteeringRate(s, j) = NULL})

EarlierTurns(s, i) ==
  {j \in 1..(i - 1) : /\ ContinuityGroup(s, j) = ContinuityGroup(s, i)
                      /\ DirectionOf(s, j) # NULL}

\* is_steering_reversal, NULL counted as FALSE.
ReversalAt(s, i) ==
  /\ DirectionOf(s, i) # NULL
  /\ EarlierTurns(s, i) # {}
  /\ DirectionOf(s, Max(EarlierTurns(s, i))) # DirectionOf(s, i)

\* The candidates of the three events; NULL is not one.
HardAccelAt(s, i) == s[i].accel # NULL /\ s[i].accel >= HardAccel
HardBrakeAt(s, i) == s[i].accel # NULL /\ s[i].accel <= HardBrake
SharpSteerAt(s, i) ==
  LET rate == SteeringRate(s, i)
  IN rate # NULL /\ Size(rate.turn) >= SharpSteer * rate.over

Kinds == {"hard_accel", "hard_brake", "sharp_steer"}

CandidateAt(s, kind, i) ==
  CASE kind = "hard_accel" -> HardAccelAt(s, i)
    [] kind = "hard_brake" -> HardBrakeAt(s, i)
    [] kind = "sharp_steer" -> SharpSteerAt(s, i)

MinDuration(kind) == IF kind = "sharp_steer" THEN MinSharp ELSE MinEvent

\* Mutated form of NewRun: a gap in the samples does not end a run.
MutantNewRun(s, kind, i) ==
  i = 1 \/ CandidateAt(s, kind, i) # CandidateAt(s, kind, i - 1)

\* _is_new_run, and the running sum that numbers the runs.
NewRun(s, kind, i) ==
  Gap(s, i, EventGap) \/ CandidateAt(s, kind, i) # CandidateAt(s, kind, i - 1)

RunNumber(s, kind, i) == Cardinality({j \in 1..i : NewRun(s, kind, j)})

\* _run_duration_seconds.
RunDuration(s, kind, i) ==
  LET times == {s[j].time : j \in {k \in DOMAIN s : RunNumber(s, kind, k) = RunNumber(s, kind, i)}}
  IN Max(times) - Min(times)

\* *_event_start.
Starts(s, kind) ==
  {i \in DOMAIN s : /\ NewRun(s, kind, i)
                    /\ CandidateAt(s, kind, i)
                    /\ RunDuration(s, kind, i) >= MinDuration(kind)}

Reversals(s) == {i \in DOMAIN s : ReversalAt(s, i)}

-----------------------------------------------------------------------------
\* _add_episode_start: an episode is a longest stretch of candidates without a
\* gap, and counts if it lasts.
SustainedRuns(s, kind) ==
  {r \in (DOMAIN s) \X (DOMAIN s) :
     LET first == r[1]
         last == r[2]
     IN /\ first <= last
        /\ \A i \in first..last : CandidateAt(s, kind, i)
        /\ \A i \in (first + 1)..last : ~Gap(s, i, EventGap)
        /\ Gap(s, first, EventGap) \/ ~CandidateAt(s, kind, first - 1)
        /\ last < Len(s) => Gap(s, last + 1, EventGap) \/ ~CandidateAt(s, kind, last + 1)
        /\ s[last].time - s[first].time >= MinDuration(kind)}

\* add_steering_reversal: the wheel turns the other way than it last did, and
\* its rate is known all the time in between.
DirectionChanges(s) ==
  {i \in DOMAIN s : \E j \in 1..(i - 1) :
     /\ NULL \notin {DirectionOf(s, i), DirectionOf(s, j)}
     /\ DirectionOf(s, i) # DirectionOf(s, j)
     /\ \A k \in (j + 1)..(i - 1) : DirectionOf(s, k) = NULL
     /\ \A k \in j..i : SteeringRate(s, k) # NULL}

-----------------------------------------------------------------------------
\* Statistics of a column over rows, NULL left out.
Values(rows, c) == {<<row.offset, row[c]>> : row \in {r \in rows : r[c] # NULL}}
Sum(set, at) == MapThenSumSet(LAMBDA x : at[x], set)
Total(values) == Sum(values, [v \in values |-> v[2]])

\* avg, as a sum and a count.
Average(rows, c) ==
  LET values == Values(rows, c)
  IN IF values = {} THEN NULL ELSE <<Total(values), Cardinality(values)>>

\* _rms in whole units.
RootMeanSquare(rows, c) ==
  LET values == Values(rows, c)
      squares == Sum(values, [v \in values |-> v[2] * v[2]])
      mean == squares \div Cardinality(values)
  IN IF values = {} THEN NULL
     ELSE CHOOSE r \in 0..(mean + 1) : r * r <= mean /\ mean < (r + 1) * (r + 1)

\* _p95_abs: the least value that 95% of the values do not exceed.
P95Abs(rows, c) ==
  LET values == Values(rows, c)
      NotAbove(n) == Cardinality({v \in values : Size(v[2]) <= n})
  IN IF values = {} THEN NULL
     ELSE Min({n \in {Size(v[2]) : v \in values} : 100 * NotAbove(n) >= 95 * Cardinality(values)})

\* The rows a set of positions of the trips stands for.
At(rows, positions) ==
  UNION {{TripRows(rows, t)[i] : i \in positions[t]} : t \in DOMAIN positions}

TripsOf(rows) == {row.trip : row \in rows}

EventStarts(rows, kind) ==
  At(rows, [t \in TripsOf(rows) |-> Starts(TripRows(rows, t), kind)])

ReversalRows(rows) == At(rows, [t \in TripsOf(rows) |-> Reversals(TripRows(rows, t))])

\* _aggregate_hourly_segment_features: one row per segment and profile of the
\* matched rows, with the events that start on them.  segment maps rows to
\* their segment or NULL.
HourlyFeatures(rows, segment) ==
  LET matched == {row \in rows : segment[row] # NULL}
      starts == [k \in Kinds |-> EventStarts(rows, k)]
      reversals == ReversalRows(rows)
      Of(key) == {row \in matched : segment[row] = key[1] /\ row.profile = key[2]}
      Row(key) ==
        LET group == Of(key)
        IN [segment |-> key[1], profile |-> key[2],
            samples |-> Cardinality(group),
            trips |-> Cardinality(TripsOf(group)),
            avg_speed |-> Average(group, "speed"),
            rms_accel_x |-> RootMeanSquare(group, "accel"),
            p95_abs_accel_z |-> P95Abs(group, "rough"),
            hard_accel |-> Cardinality(group \cap starts["hard_accel"]),
            hard_brake |-> Cardinality(group \cap starts["hard_brake"]),
            sharp_steer |-> Cardinality(group \cap starts["sharp_steer"]),
            steer_reversal |-> Cardinality(group \cap reversals)]
  IN {Row(key) : key \in {<<segment[row], row.profile>> : row \in matched}}

\* validate_hourly_segment_features.
FeaturesValid(features) ==
  /\ \A f \in features :
       /\ f.trips > 0 /\ f.samples >= f.trips
       /\ \A n \in {f.hard_accel, f.hard_brake, f.sharp_steer, f.steer_reversal} :
            n \in 0..f.samples
  /\ \A f, g \in features : f.segment = g.segment /\ f.profile = g.profile => f = g
=============================================================================
