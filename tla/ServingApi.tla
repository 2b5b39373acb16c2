------------------------------ MODULE ServingApi ------------------------------
(***************************************************************************)
(* The requests of the serving API (serving-api routes.py, repository.py,  *)
(* route_comfort.py) on the two score tables.                              *)
(*                                                                         *)
(* Names are numbers; a table maps <<segment, profile>> to a score in      *)
(* points.                                                                 *)
(* The rows of a request are read with two queries, and a DAG may commit   *)
(* between them.  A route's scores are hundredths of a point.              *)
(***************************************************************************)
EXTENDS Lists, FiniteSetsExt, SequencesExt

CONSTANTS
  ActiveProfiles,       \* rows of vehicle_profile with is_active
  AverageWeight, WorstQuartileWeight,  \* in tenths
  WorstRatio,           \* in percent
  MaxRouteSegments,     \* MAX_ROUTE_SEGMENTS
  MaxRoutes,            \* MAX_ROUTES_PER_REQUEST
  Requests,             \* [profile, routes : Seq([id, segments])]
  Histories,            \* [current, standard, later]: the tables at the first query
                        \* and standard at the second
  Drives                \* sequences of scores that routes are looked at with

\* A configuration that does not satisfy it is refused at start.
RouteComfortConfig ==
  /\ AverageWeight \in Nat /\ WorstQuartileWeight \in Nat
  /\ AverageWeight + WorstQuartileWeight = 10
  /\ WorstRatio \in 1..100
ASSUME ConfigAccepted == RouteComfortConfig

\* Scores are of 0 to 100 points; a standard load replaces rows and takes none
\* away; a drive has a segment.
ASSUME ServingAssumption ==
  /\ Requests \subseteq [profile : Nat, routes : Seq([id : Nat, segments : Seq(Nat)])]
  /\ \A history \in Histories :
       /\ \A table \in {history.current, history.later} :
            \A row \in DOMAIN table : table[row] \in 0..100
       /\ DOMAIN history.standard \subseteq DOMAIN history.later
  /\ Drives \subseteq Seq(Int) \ {<< >>}

-----------------------------------------------------------------------------
(* route_comfort.py *)

\* Half up, to hundredths.
Rounded(points, share) == ((200 * points) + share) \div (2 * share)

\* Rounded up: at least one segment, never more than there are.
worst_segment_count(count) ==
  Min({count, Max({1, (count * WorstRatio + 99) \div 100})})

\* The sum of the scores at some of the places.
Points(scores, places) ==
  LET sum[n \in 0..Len(scores)] ==
        IF n = 0 THEN 0 ELSE sum[n - 1] + (IF n \in places THEN scores[n] ELSE 0)
  IN sum[Len(scores)]

\* A segment that is driven twice counts twice.
score_route(scores) ==
  LET count == Len(scores)
      few == worst_segment_count(count)
      all == Points(scores, 1..count)
      worst == Points(scores, {i \in 1..count : Rank(scores, i) <= few})
  IN [comfort |-> Rounded(AverageWeight * all * few + WorstQuartileWeight * worst * count,
                          10 * count * few),
      average |-> Rounded(all, count),
      worst |-> Rounded(worst, few)]

-----------------------------------------------------------------------------
(* repository.py *)

\* Nothing, or one row: of current, or else of standard.
fetch_one(profile, segment, history) ==
  IF <<segment, profile>> \in DOMAIN history.current
  THEN {[source |-> "current", score |-> history.current[<<segment, profile>>]]}
  ELSE {[source |-> "standard", score |-> history.later[row]] :
          row \in {<<segment, profile>>} \cap DOMAIN history.later}

\* The same of many segments, with as many queries.
fetch_many(profile, segments, history) ==
  LET found == {s \in segments : <<s, profile>> \in DOMAIN history.current}
      missing == segments \ found
      rest == {s \in missing : <<s, profile>> \in DOMAIN history.later}
  IN [s \in found \cup rest |->
        IF s \in found THEN [source |-> "current", score |-> history.current[<<s, profile>>]]
        ELSE [source |-> "standard", score |-> history.later[<<s, profile>>]]]

-----------------------------------------------------------------------------
(* routes.py *)

_resolve_vehicle_profile_id(requested) ==
  IF requested = 0 \/ requested \in ActiveProfiles THEN requested ELSE 0

\* A segment once, at its first place.
_unique_segment_ids(segments) ==
  Kept(segments, {i \in DOMAIN segments : \A j \in 1..(i - 1) : segments[j] # segments[i]})

SegmentsOf(request) ==
  FlattenSeq([r \in DOMAIN request.routes |-> request.routes[r].segments])

\* The schema refuses the others (422).
ValidRequest(request) ==
  /\ Len(request.routes) \in 1..MaxRoutes
  /\ \A r, q \in DOMAIN request.routes :
       r # q => request.routes[r].id # request.routes[q].id
  /\ \A r \in DOMAIN request.routes : Len(request.routes[r].segments) > 0
  /\ Len(_unique_segment_ids(SegmentsOf(request))) <= MaxRouteSegments

\* The single endpoint: without a row it is 404.
read_comfort_score(profile, segment, history) ==
  fetch_one(_resolve_vehicle_profile_id(profile), segment, history)

\* The batch endpoint: what has no score is named, and is no error.
read_comfort_scores(profile, segments, history) ==
  LET effective == _resolve_vehicle_profile_id(profile)
      unique == _unique_segment_ids(segments)
      found == fetch_many(effective, ToSet(unique), history)
      scored == Kept(unique, {i \in DOMAIN unique : unique[i] \in DOMAIN found})
  IN [effective |-> effective,
      scores |-> [i \in DOMAIN scored |-> <<scored[i], found[scored[i]]>>],
      not_found |-> Kept(unique, {i \in DOMAIN unique : unique[i] \notin DOMAIN found})]

_evaluate(route, found) ==
  [id |-> route.id,
   comfort |-> score_route([i \in DOMAIN route.segments |->
                              found[route.segments[i]].score]).comfort]

\* The route endpoint: a segment without a score is an error (404).
evaluate_routes(request, history) ==
  LET effective == _resolve_vehicle_profile_id(request.profile)
      found == fetch_many(effective, ToSet(SegmentsOf(request)), history)
      missing == ToSet(SegmentsOf(request)) \ DOMAIN found
      evaluated == [r \in DOMAIN request.routes |-> _evaluate(request.routes[r], found)]
      keys == [r \in DOMAIN evaluated |-> -evaluated[r].comfort]
      ranking == [n \in DOMAIN keys |-> CHOOSE r \in DOMAIN keys : Rank(keys, r) = n]
  IN IF missing # {} THEN [status |-> 404, missing |-> missing]
     ELSE [status |-> 200, routes |-> [i \in DOMAIN ranking |-> evaluated[ranking[i]]]]

-----------------------------------------------------------------------------
\* What had a row when the request came is not missing, and each endpoint shows
\* the same row of it; the first route is one of the best, equal ones stay in
\* the order of the request, and no route is better or worse than its segments.
RequestsAnswered ==
  \A request \in Requests : ValidRequest(request) => \A history \in Histories :
    LET reply == evaluate_routes(request, history)
        batch == read_comfort_scores(request.profile, SegmentsOf(request), history)
        shown == [i \in DOMAIN batch.scores |-> batch.scores[i][2].score]
        Place(id) == CHOOSE r \in DOMAIN request.routes : request.routes[r].id = id
        On(id) == {i \in DOMAIN batch.scores :
                     Contains(request.routes[Place(id)].segments, batch.scores[i][1])}
    IN /\ \A s \in ToSet(batch.not_found) :
            <<s, batch.effective>> \notin DOMAIN history.current \cup DOMAIN history.standard
       /\ \A i \in DOMAIN batch.scores :
            read_comfort_score(request.profile, batch.scores[i][1], history)
              = {batch.scores[i][2]}
       /\ reply.status = 404 => reply.missing = ToSet(batch.not_found)
       /\ reply.status = 200 =>
            /\ batch.not_found = << >>
            /\ {reply.routes[i].id : i \in DOMAIN reply.routes}
                 = {request.routes[r].id : r \in DOMAIN request.routes}
            /\ \A i, j \in DOMAIN reply.routes : i < j =>
                 \/ reply.routes[i].comfort > reply.routes[j].comfort
                 \/ /\ reply.routes[i].comfort = reply.routes[j].comfort
                    /\ Place(reply.routes[i].id) < Place(reply.routes[j].id)
            /\ \A i \in DOMAIN reply.routes :
                 reply.routes[i].comfort \in 100 * Min({shown[k] : k \in On(reply.routes[i].id)})
                                            ..100 * Max({shown[k] : k \in On(reply.routes[i].id)})

\* A route gains neither by a worse segment nor by a rougher mix of the same
\* average.
RoughnessNeverPays ==
  \A drive \in Drives :
    LET smooth == score_route(drive)
        Moved(i, points) == [drive EXCEPT ![i] = @ + points]
    IN /\ smooth.worst <= smooth.comfort /\ smooth.comfort <= smooth.average
       /\ \A i \in DOMAIN drive : score_route(Moved(i, -1)).comfort <= smooth.comfort
       /\ \A i, j \in DOMAIN drive : i # j /\ drive[i] <= drive[j] =>
            score_route([Moved(i, -1) EXCEPT ![j] = @ + 1]).comfort <= smooth.comfort
=============================================================================
