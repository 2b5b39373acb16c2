----------------------------- MODULE RoadRouting -----------------------------
(***************************************************************************)
(* Routes over the road network, as the sensor producer plans them         *)
(* (sensor_producer/routing.py, and the route templates and speed profile  *)
(* built on it).  Operators only.                                          *)
(*                                                                         *)
(* A network is [date, segments, zones], date being its road snapshot date.*)
(* A segment is [id, from, to, direction, length, seconds]: seconds is its *)
(* length over its speed limit.  Nodes are numbers and stand for their     *)
(* coordinate as well; a zone is [inside, centre], the nodes its polygon   *)
(* covers and its representative point.  What geometry computes is given,  *)
(* what is done with it is not.                                            *)
(***************************************************************************)
EXTENDS Integers, FiniteSets, SequencesExt

NoRoute == <<>>

Abs(n) == IF n < 0 THEN -n ELSE n

\* RoadRouter.__init__: W runs along the geometry, A against it, T both ways.
Edges(net) ==
  {[segment |-> s.id, from |-> s.from, to |-> s.to, reverse |-> FALSE] :
     s \in {x \in net.segments : x.direction \in {"W", "T"}}}
  \cup
  {[segment |-> s.id, from |-> s.to, to |-> s.from, reverse |-> TRUE] :
     s \in {x \in net.segments : x.direction \in {"A", "T"}}}

\* Only nodes one can leave are indexed.
Routable(net) == {e.from : e \in Edges(net)}

NodesInside(net, z) == net.zones[z].inside \cap Routable(net)

Segment(net, id) == CHOOSE s \in net.segments : s.id = id

\* The sum of a measure of the segments over a path.
Along(measure, path) ==
  LET upTo[i \in 0..Len(path)] ==
        IF i = 0 THEN 0 ELSE upTo[i - 1] + measure[path[i].segment]
  IN upTo[Len(path)]

Ids(net) == {s.id : s \in net.segments}
Length(net, path) == Along([id \in Ids(net) |-> Segment(net, id).length], path)
Seconds(net, path) == Along([id \in Ids(net) |-> Segment(net, id).seconds], path)

\* The ends of an order by distance, then by node.
Nearest(nodes, distance) ==
  CHOOSE n \in nodes : \A m \in nodes :
    distance[n] < distance[m] \/ (distance[n] = distance[m] /\ n <= m)

Farthest(nodes, distance) ==
  CHOOSE n \in nodes : \A m \in nodes :
    distance[n] > distance[m] \/ (distance[n] = distance[m] /\ n >= m)

\* zone_anchor_nodes: the node nearest to the representative point, and the one
\* farthest from that.
ZoneAnchors(net, z) ==
  LET nodes == NodesInside(net, z)
      primary == Nearest(nodes, [n \in nodes |-> Abs(n - net.zones[z].centre)])
      others == nodes \ {primary}
  IN CASE nodes = {} -> {}
       [] nodes # {} /\ others = {} -> {primary}
       [] OTHER -> {primary, Farthest(others, [n \in others |-> Abs(n - primary)])}

\* Routes from a node, each one edge longer than one of them, that do not come
\* back to a node.
Visited(start, path) == {start} \cup {e.to : e \in Range(path)}
EndOf(start, path) == IF path = NoRoute THEN start ELSE Last(path).to

Longer(net, start, routes) ==
  {Append(r[1], r[2]) : r \in {x \in routes \X Edges(net) :
     x[2].from = EndOf(start, x[1]) /\ x[2].to \notin Visited(start, x[1])}}

\* The routes from a node that never come back to a node.
SimpleRoutes(net, start) ==
  LET upTo[n \in 0..Cardinality(Routable(net))] ==
        IF n = 0 THEN {NoRoute} ELSE upTo[n - 1] \cup Longer(net, start, upTo[n - 1])
  IN upTo[Cardinality(Routable(net))]

\* shortest_paths: the path Dijkstra's algorithm settles for a target is a
\* shortest one; NoRoute for what cannot be reached.
ShortestPath(net, start, target) ==
  LET routes == {r \in SimpleRoutes(net, start) : r # NoRoute /\ Last(r).to = target}
  IN IF routes = {} THEN NoRoute
     ELSE CHOOSE r \in routes : \A q \in routes : Length(net, r) <= Length(net, q)

\* _route_template_row: the best route between the anchors of two zones is the
\* one whose length is nearest to the representative trip, or the reason there
\* is none.
Template(net, pu, do, target) ==
  LET known == DOMAIN net.zones
      pairs == {p \in ZoneAnchors(net, pu) \X ZoneAnchors(net, do) :
                  p[1] # p[2] /\ ShortestPath(net, p[1], p[2]) # NoRoute}
      Error(p) == Abs(Length(net, ShortestPath(net, p[1], p[2])) - target)
      best == CHOOSE p \in pairs : \A q \in pairs :
                \/ Error(p) < Error(q)
                \/ Error(p) = Error(q) /\ (p[1] < q[1] \/ (p[1] = q[1] /\ p[2] <= q[2]))
      Skipped(reason) == [skip |-> reason, path |-> NoRoute]
  IN CASE pu \notin known -> Skipped("pickup_zone_not_found")
       [] pu \in known /\ do \notin known -> Skipped("dropoff_zone_not_found")
       [] OTHER ->
            CASE ZoneAnchors(net, pu) = {} -> Skipped("pickup_zone_no_routable_nodes")
              [] ZoneAnchors(net, pu) # {} /\ ZoneAnchors(net, do) = {} ->
                   Skipped("dropoff_zone_no_routable_nodes")
              [] OTHER -> IF pairs = {} THEN Skipped("no_directed_route")
                          ELSE [skip |-> "", path |-> ShortestPath(net, best[1], best[2])]

\* plan_for_zones, the route of a trip whose file was not prepared: start and
\* end candidates are rotated by a seed of the trip, and the first route within
\* 15% of the recorded distance is taken, else the nearest.
PlanForZones(net, pu, do, target, seed, limit) ==
  LET Rotated(nodes, offset) ==
        LET s == SetToSortSeq(nodes, <)
        IN [i \in 1..Len(s) |-> s[((i - 1 + offset) % Len(s)) + 1]]
      starts == NodesInside(net, pu)
      ends == NodesInside(net, do)
      First(s) == SubSeq(s, 1, IF Len(s) < limit THEN Len(s) ELSE limit)
      from == First(Rotated(starts, seed % Cardinality(starts)))
      to == First(Rotated(ends, (seed \div Cardinality(starts)) % Cardinality(ends)))
      pairs == {p \in (1..Len(from)) \X (1..Len(to)) :
                  from[p[1]] # to[p[2]] /\ ShortestPath(net, from[p[1]], to[p[2]]) # NoRoute}
      Route(p) == ShortestPath(net, from[p[1]], to[p[2]])
      Error(p) == Abs(Length(net, Route(p)) - target)
      Before(p, q) == p[1] < q[1] \/ (p[1] = q[1] /\ p[2] <= q[2])
      Lower(p, q) ==
        from[p[1]] < from[q[1]] \/ (from[p[1]] = from[q[1]] /\ to[p[2]] <= to[q[2]])
      close == {p \in pairs : 20 * Error(p) <= 3 * target}
      Skipped(reason) == [skip |-> reason, path |-> NoRoute]
  IN CASE pu \notin DOMAIN net.zones -> Skipped("pickup_zone_not_found")
       [] pu \in DOMAIN net.zones /\ do \notin DOMAIN net.zones ->
            Skipped("dropoff_zone_not_found")
       [] OTHER ->
            CASE starts = {} -> Skipped("pickup_zone_no_routable_nodes")
              [] starts # {} /\ ends = {} -> Skipped("dropoff_zone_no_routable_nodes")
              [] OTHER ->
                   IF pairs = {} THEN Skipped("no_directed_route")
                   ELSE LET best == IF close # {}
                              THEN CHOOSE p \in close : \A q \in close : Before(p, q)
                              ELSE CHOOSE p \in pairs : \A q \in pairs :
                                     Error(p) < Error(q) \/ (Error(p) = Error(q) /\ Lower(p, q))
                        IN [skip |-> "", path |-> Route(best)]

\* Where the i-th segment of a route begins and ends on a network.
Origin(net, path, i) ==
  LET s == Segment(net, path[i].segment) IN IF path[i].reverse THEN s.to ELSE s.from

Destination(net, path, i) ==
  LET s == Segment(net, path[i].segment) IN IF path[i].reverse THEN s.from ELSE s.to

\* plan_from_segments: a stored route, which is its ends, its segments and their
\* directions, is walked again on the runtime network.  That raises unless every
\* segment is known and begins where the last one ended, and the ends are met.
Replannable(net, path) ==
  /\ path # NoRoute
  /\ \A i \in 1..Len(path) :
       /\ path[i].segment \in Ids(net)
       /\ Origin(net, path, i) = IF i = 1 THEN path[1].from ELSE Destination(net, path, i - 1)
  /\ Destination(net, path, Len(path)) = path[Len(path)].to

\* SpeedProfile.for_route: the ramps take at most 8 seconds, a third of the
\* trip, and what the end legs allow; the rest at the limits must be enough.
\* In thirds of a second.
RampSeconds(net, path, duration) ==
  LET Leg(i) == 3 * Segment(net, path[i].segment).seconds
      ends == IF Len(path) = 1 THEN {Leg(1)} ELSE {2 * Leg(1), 2 * Leg(Len(path))}
  IN Min({24, duration} \cup ends)

Feasible(net, path, duration) ==
  3 * Seconds(net, path) <= 3 * duration - RampSeconds(net, path, duration)

Playable(net, plan, duration) == plan.skip = "" /\ Feasible(net, plan.path, duration)
=============================================================================
