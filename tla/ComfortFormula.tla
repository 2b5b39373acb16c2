---------------------------- MODULE ComfortFormula ----------------------------
(***************************************************************************)
(* The scores of the batch path: directional scores of an hour from its    *)
(* features (hourly_comfort.py), and the standard score of every segment   *)
(* and vehicle profile from the hours of a window (comfort_score).         *)
(* Operators only.  Scores are whole points where the code rounds to six   *)
(* decimals, weights of features are percents, those of directions tenths. *)
(***************************************************************************)
EXTENDS MapMatching

CONSTANTS
  SpeedBands,     \* sequence of [upper, scale], scale in tenths, last without upper
  Anchors,        \* feature -> [low, high]
  FeatureWeights, \* direction -> feature -> percent
  MinimumWeight,  \* minimum_valid_weight, in percent
  DirectionWeights, \* direction -> tenths
  Saturation,     \* evidence_saturation_trip_count
  ShrinkageK,     \* shrinkage_k
  WindowHours,
  Universe,       \* segments of the active road environment
  Profiles        \* vehicle_profile without its sentinel

AllVehicles == 0  \* VEHICLE_AGNOSTIC_VEHICLE_PROFILE_ID
Directions == DOMAIN FeatureWeights

\* RATE_SOURCE_COLUMNS: counts become rates per trip.
RateSources == [hard_brake_rate |-> "hard_brake", hard_accel_rate |-> "hard_accel",
                sharp_steer_rate |-> "sharp_steer", steer_reversal_rate |-> "steer_reversal"]

\* HourlyScoringConfig.__post_init__, ComfortScoreConfig.__post_init__,
\* load_vehicle_profile_ids.  A percent can tell the evidence of one trip.
ASSUME FormulaAssumption ==
  /\ MinimumWeight \in 1..100
  /\ SpeedBands \in Seq([upper : Column, scale : Nat \ {0}])
  /\ SpeedBands # <<>> /\ SpeedBands[Len(SpeedBands)].upper = NULL
  /\ DOMAIN Anchors \subseteq DOMAIN RateSources \cup {"rms_accel_x", "p95_abs_accel_z"}
  /\ \A f \in DOMAIN Anchors :
       /\ {Anchors[f].low, Anchors[f].high} \subseteq Int
       /\ Anchors[f].low < Anchors[f].high
  /\ \A d \in Directions :
       /\ DOMAIN FeatureWeights[d] \subseteq DOMAIN Anchors
       /\ \A f \in DOMAIN FeatureWeights[d] : FeatureWeights[d][f] \in Nat
       /\ Sum(DOMAIN FeatureWeights[d], FeatureWeights[d]) = 100
  /\ IsFiniteSet(Directions) /\ DOMAIN DirectionWeights = Directions
  /\ \A d \in Directions : DirectionWeights[d] \in Nat
  /\ Sum(Directions, DirectionWeights) = 10
  /\ {Saturation, ShrinkageK, WindowHours} \subseteq Nat \ {0}
  /\ ShrinkageK * Saturation <= 99
  /\ Profiles # {} /\ AllVehicles \notin Profiles
  /\ NULL \notin {"INVALID_SCORING_INPUT", "INSUFFICIENT_SCORING_FEATURES"}

Clamp(n, low, high) == Max({low, Min({high, n})})

-----------------------------------------------------------------------------
\* A feature of an hourly row, as numerator and denominator.
FeatureValue(row, f) ==
  IF f \in DOMAIN RateSources THEN <<row[RateSources[f]], row.trips>>
  ELSE IF row[f] = NULL THEN NULL ELSE <<row[f], 1>>

\* _speed_anchor_scale: the first band the average speed is below.
SpeedScale(row) ==
  LET Below(i) == \/ SpeedBands[i].upper = NULL
                  \/ row.avg_speed[1] < SpeedBands[i].upper * row.avg_speed[2]
  IN SpeedBands[Min({i \in DOMAIN SpeedBands : Below(i)})].scale

\* Mutated form of Penalty: a value outside the anchors is not cut off.
MutantPenalty(row, f) ==
  LET value == FeatureValue(row, f)
      scale == SpeedScale(row)
      above == 10 * value[1] - value[2] * Anchors[f].low * scale
      width == value[2] * (Anchors[f].high - Anchors[f].low) * scale
  IN (100 * above) \div width

\* _normalized_penalty, in percent.
Penalty(row, f) ==
  LET value == FeatureValue(row, f)
      scale == SpeedScale(row)
      above == 10 * value[1] - value[2] * Anchors[f].low * scale
      width == value[2] * (Anchors[f].high - Anchors[f].low) * scale
  IN Clamp((100 * above) \div width, 0, 100)

\* _component_score: the weights of the features that are there must be enough,
\* and are scaled up to the whole.
DirectionScore(row, d) ==
  LET present == {f \in DOMAIN FeatureWeights[d] : FeatureValue(row, f) # NULL}
      valid == Sum(present, FeatureWeights[d])
      penalty == Sum(present, [f \in present |-> FeatureWeights[d][f] * Penalty(row, f)])
  IN IF valid < MinimumWeight THEN NULL ELSE (100 * valid - penalty) \div valid

\* _eligible.
Eligible(row) ==
  /\ row.avg_speed # NULL /\ row.avg_speed[1] >= 0
  /\ row.samples > 0 /\ row.trips > 0

\* reject_reason of a row that cannot be scored, NULL for one that can.
ScoreRejectReason(row) ==
  IF ~Eligible(row) THEN "INVALID_SCORING_INPUT"
  ELSE IF \E d \in Directions : DirectionScore(row, d) = NULL
       THEN "INSUFFICIENT_SCORING_FEATURES" ELSE NULL

\* HourlyScoringPlan.scored and rejected.
ScoredRows(features, h) ==
  {[hour |-> h, segment |-> row.segment, profile |-> row.profile,
    trips |-> row.trips, samples |-> row.samples,
    scores |-> [d \in Directions |-> DirectionScore(row, d)]] :
      row \in {f \in features : ScoreRejectReason(f) = NULL}}

RejectedRows(features) ==
  {[segment |-> row.segment, profile |-> row.profile, reason |-> ScoreRejectReason(row)] :
      row \in {f \in features : ScoreRejectReason(f) # NULL}}

-----------------------------------------------------------------------------
\* _filter_window_partitions, _filter_window_hours: [as_of - window, as_of).
Window(asOf) == {h \in 0..(asOf - 1) : h >= asOf - WindowHours}

\* _validate_no_reserved_vehicle_profile_id.
ReservedProfileUsed(rows) == \E row \in rows : row.profile = AllVehicles

\* _attach_evidence_weight: in parts of Saturation.
Evidence(row) == Min({row.trips, Saturation})
EvidenceSum(rows) == Sum(rows, [row \in rows |-> Evidence(row)])
WeightedSum(rows, d) == Sum(rows, [row \in rows |-> Evidence(row) * row.scores[d]])

\* _pool_vehicle_profiles: the rows of a segment and hour folded into one by
\* their trips.
Pooled(rows) ==
  LET Group(key) == {row \in rows : row.segment = key[1] /\ row.hour = key[2]}
      Trips(group) == Sum(group, [row \in group |-> row.trips])
      Fold(key) ==
        LET group == Group(key)
        IN [hour |-> key[2], segment |-> key[1], profile |-> AllVehicles,
            trips |-> Trips(group),
            samples |-> Sum(group, [row \in group |-> row.samples]),
            scores |-> [d \in Directions |->
              Sum(group, [row \in group |-> row.trips * row.scores[d]]) \div Trips(group)]]
  IN {Fold(key) : key \in {<<row.segment, row.hour>> : row \in rows}}

\* Mutated form of Population: a profile without rows has no mean.
MutantPopulation(rows, profile) ==
  IF profile = AllVehicles THEN Pooled(rows) ELSE {row \in rows : row.profile = profile}

\* The rows whose mean a score shrinks to: those of the profile
\* (_population_means), all of them where there is none (_fill_population_means).
Population(rows, profile) ==
  LET own == {row \in rows : row.profile = profile}
  IN IF profile = AllVehicles \/ own = {} THEN Pooled(rows) ELSE own

\* The rows a score observes (_observed_with_universe).
Observed(rows, segment, profile) ==
  {row \in IF profile = AllVehicles THEN Pooled(rows) ELSE rows :
     row.segment = segment /\ row.profile = profile}

\* _apply_shrinkage, _combine_directions, _fill_missing_periods.
StandardRow(rows, asOf, segment, profile) ==
  LET seen == Observed(rows, segment, profile)
      mean == Population(rows, profile)
      n == EvidenceSum(seen)
      q == EvidenceSum(mean)
      k == ShrinkageK * Saturation
      Shrunk(d) == WeightedSum(seen, d) * q + k * WeightedSum(mean, d)
      hours == {row.hour : row \in seen}
  IN [segment |-> segment, profile |-> profile, as_of |-> asOf,
      scores |-> [d \in Directions |-> Shrunk(d) \div (q * (n + k))],
      comfort |-> Sum(Directions, [d \in Directions |-> DirectionWeights[d] * Shrunk(d)])
                    \div (10 * q * (n + k)),
      confidence |-> (100 * n) \div (n + k),
      samples |-> Sum(seen, [row \in seen |-> row.samples]),
      from |-> IF seen = {} THEN asOf - WindowHours ELSE Min(hours),
      to |-> IF seen = {} THEN asOf ELSE Max(hours) + 1]

\* compute_standard_comfort_scores: rows without a population mean are left out.
StandardRows(rows, asOf) ==
  {StandardRow(rows, asOf, key[1], key[2]) :
     key \in {k \in Universe \X (Profiles \cup {AllVehicles}) : Population(rows, k[2]) # {}}}
=============================================================================
