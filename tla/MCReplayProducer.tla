-------------------------- MODULE MCReplayProducer --------------------------
(***************************************************************************)
(* A small town: nodes 1 to 4 on a line, zones 1 and 2, an                 *)
(* hour of 4 units, a day of 2 hours and a week of 2 days.                 *)
(***************************************************************************)
EXTENDS ReplayProducer

MCSegment(id, from, to, direction, length, seconds) ==
  [id |-> id, from |-> from, to |-> to, direction |-> direction, length |-> length,
   seconds |-> seconds]

MCZones == [z \in {1, 2} |-> IF z = 1 THEN [inside |-> {1, 2}, centre |-> 1]
                            ELSE [inside |-> {3, 4}, centre |-> 3]]

\* A second build of the first month's roads, where segment 1 is drawn the other
\* way and segment 2 is slower, and the roads of a second month, with segment 4.
MCNetworks ==
  <<[date |-> 1, zones |-> MCZones,
     segments |-> {MCSegment(1, 1, 2, "T", 1, 0), MCSegment(2, 2, 3, "T", 2, 1),
                   MCSegment(3, 3, 4, "W", 1, 0)}],
    [date |-> 1, zones |-> MCZones,
     segments |-> {MCSegment(1, 2, 1, "T", 1, 0), MCSegment(2, 2, 3, "T", 2, 2),
                   MCSegment(3, 3, 4, "W", 1, 0)}],
    [date |-> 2, zones |-> MCZones,
     segments |-> {MCSegment(1, 1, 2, "T", 1, 0), MCSegment(2, 2, 3, "T", 2, 1),
                   MCSegment(4, 3, 4, "T", 1, 0)}]>>

MCRow(request, pickup, dropoff, pu, do, miles) ==
  [complete |-> TRUE, request |-> request, pickup |-> pickup, dropoff |-> dropoff,
   pu |-> pu, do |-> do, miles |-> miles]

\* A month with a row that is not valid, two requests at once and a trip to an
\* unknown zone, and a month of one day.
MCSources ==
  {<<MCRow(9, 10, 12, 1, 2, 1), MCRow(1, 5, 5, 1, 2, 1), MCRow(2, 3, 4, 2, 1, 2),
     MCRow(9, 9, 10, 1, 9, 1)>>,
   <<MCRow(3, 3, 5, 1, 2, 2), MCRow(3, 4, 5, 2, 1, 1), MCRow(5, 5, 6, 1, 2, 1)>>}

MCDraw == <<1, 0, 2, 5>>
MCShard == <<"w1", "w2", "w2", "w1">>
MCSeed == <<0, 1, 2, 3>>
MCWalls == {[weekday |-> 0, week |-> 0, clock |-> 4], [weekday |-> 1, week |-> 1, clock |-> 1]}
MCWorkers == {"w1", "w2"}
MCModes == {"parallel", "prepared", "parquet"}

\* Every month of three trips in a row of requests, starts and lengths.
MCTrip(request, wait, length) == MCRow(request, request + wait, request + wait + length, 1, 2, 1)

MCMonths ==
  {<<MCTrip(a, 1, 3), MCTrip(b, 0, 1), MCTrip(c, 2, m)>> :
     a \in 0..9, b \in 0..9, c \in {2, 8, 15}, m \in {2, 6}}

MCStarts == {0, 3, 7, 9, 12, 20}

-----------------------------------------------------------------------------
ASSUME RoutesAreWalkable == RoutesWalkable
ASSUME PlaylistsAreFit == PlaylistsInOrder /\ PlaylistsShared
=============================================================================
