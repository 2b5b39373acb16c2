----------------------------- MODULE MapMatching -----------------------------
(***************************************************************************)
(* Which road segment a sensor row is on (batch_jobs/map_matching): the    *)
(* segments within a radius, a score of distance and heading for each, and *)
(* the best by a total order.  Operators only.                             *)
(*                                                                         *)
(* A road record is [segment, snapshot, bearing, direction]; the distance  *)
(* of a place from a segment is given, and the scores are in               *)
(* 1 / (100 * 180 * Radius).                                               *)
(***************************************************************************)
EXTENDS SensorFeatures

CONSTANTS
  Distance,         \* place -> segment -> distance in metres
  Radius,           \* candidate_search_radius_m
  DistanceWeight,   \* in hundredths, as the next
  HeadingWeight

\* validate_search_radius, validate_score_weights.
ASSUME MatchingAssumption ==
  /\ Radius \in Nat \ {0}
  /\ {DistanceWeight, HeadingWeight} \subseteq 0..100
  /\ DistanceWeight + HeadingWeight = 100

\* collect_road_segment_candidates, _require_matching_road_snapshot_date: what
\* the job refuses before it matches.
UsableRoads(roads, snapshot) ==
  roads # {} /\ \A road \in roads : road.snapshot = snapshot /\ road.segment # NULL

\* circular_heading_diff.
HeadingDiff(a, b) == Size(((a - b + 180) % 360) - 180)

Reverse180(bearing) == (bearing + 180) % 360

\* resolve_prematched_road_bearing: with the digitised direction, against it, or
\* the nearer of both; NULL for what is not open to traffic.
RoadBearing(road, heading) ==
  LET forward == road.bearing
      backward == Reverse180(road.bearing)
  IN CASE road.direction = "W" -> forward
       [] road.direction = "A" -> backward
       [] road.direction = "T" ->
            IF heading = NULL THEN NULL
            ELSE IF HeadingDiff(heading, forward) <= HeadingDiff(heading, backward)
                 THEN forward ELSE backward
       [] OTHER -> NULL

HeadingDiffOf(row, road) ==
  IF NULL \in {row.heading, RoadBearing(road, row.heading)} THEN NULL
  ELSE HeadingDiff(row.heading, RoadBearing(road, row.heading))

DistanceOf(row, road) == Distance[row.place][road.segment]

\* find_segment_candidates: dwithin.
Candidates(row, roads) == {road \in roads : DistanceOf(row, road) <= Radius}

\* compute_match_scores: without a heading the distance alone.
MatchScore(row, road) ==
  LET near == Radius - DistanceOf(row, road)
      diff == HeadingDiffOf(row, road)
  IN IF diff = NULL THEN 100 * 180 * near
     ELSE DistanceWeight * 180 * near + HeadingWeight * Radius * (180 - diff)

\* Mutated form of Before: the segments in descending order like the scores.
MutantBefore(row, a, b) ==
  \/ MatchScore(row, a) > MatchScore(row, b)
  \/ MatchScore(row, a) = MatchScore(row, b) /\ a.segment > b.segment

\* The order of select_best_segment and of select_best_candidates: score, then
\* distance, then heading difference with NULL last, then segment.
Before(row, a, b) ==
  LET Tied(at) == at[1] = at[2]
      score == <<MatchScore(row, a), MatchScore(row, b)>>
      distance == <<DistanceOf(row, a), DistanceOf(row, b)>>
      diff == <<HeadingDiffOf(row, a), HeadingDiffOf(row, b)>>
  IN \/ score[1] > score[2]
     \/ Tied(score) /\ distance[1] < distance[2]
     \/ /\ Tied(score) /\ Tied(distance)
        /\ diff[1] # NULL
        /\ diff[2] = NULL \/ diff[1] < diff[2]
     \/ Tied(score) /\ Tied(distance) /\ Tied(diff) /\ a.segment < b.segment

\* match_batch: the segment of a row, NULL when there is no candidate.
MatchedSegment(row, roads) ==
  LET candidates == Candidates(row, roads)
  IN IF candidates = {} THEN NULL
     ELSE (CHOOSE a \in candidates : \A b \in candidates : ~Before(row, b, a)).segment

\* attach_match_results: every row goes on, with its segment beside it.
MatchRows(rows, roads) == [row \in rows |-> MatchedSegment(row, roads)]
=============================================================================
