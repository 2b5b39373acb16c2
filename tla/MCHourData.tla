----------------------------- MODULE MCHourData -----------------------------
(***************************************************************************)
(* Two hours of 20 units.  Places 1 and 2 lie on roads, place 3 between    *)
(* them and place 4 on none.  The inputs are one trip of up to five samples with *)
(* every pattern of acceleration, one with every pattern of steering, and  *)
(* hours of few rows of which some are late, repeated or not valid.        *)
(***************************************************************************)
EXTENDS HourData

MCRequired == {"event", "trip", "seq", "time", "profile", "place", "speed", "rough", "ingested"}
MCRange(least, most, open) == [least |-> least, most |-> most, open |-> open]
MCRanges == [profile |-> MCRange(0, 99, FALSE), seq |-> MCRange(0, 99, FALSE),
             speed |-> MCRange(0, 60, FALSE), heading |-> MCRange(0, 360, TRUE),
             accel |-> MCRange(-30, 30, FALSE)]
MCTimeBounds == [least |-> 0, most |-> 39]

MCDistance == <<<<0, 30, 30>>, <<12, 4, 8>>,
                <<6, 6, 9>>, <<30, 30, 30>>>>
MCRoad(segment, snapshot, bearing, direction) ==
  [segment |-> segment, snapshot |-> snapshot, bearing |-> bearing, direction |-> direction]
MCRoads == {MCRoad(1, 7, 0, "T"), MCRoad(2, 7, 90, "W"), MCRoad(3, 7, 350, "A")}
MCOldRoads == {MCRoad(1, 7, 0, "T"), MCRoad(2, 6, 90, "W")}

MCSpeedBands == <<[upper |-> 10, scale |-> 10], [upper |-> NULL, scale |-> 20]>>
MCAnchor(low, high) == [low |-> low, high |-> high]
MCAnchors == [rms_accel_x |-> MCAnchor(0, 4), p95_abs_accel_z |-> MCAnchor(1, 5),
              hard_brake_rate |-> MCAnchor(0, 1), steer_reversal_rate |-> MCAnchor(0, 2)]
MCFeatureWeights ==
  [longitudinal |-> [rms_accel_x |-> 60, hard_brake_rate |-> 40],
   other |-> [p95_abs_accel_z |-> 70, steer_reversal_rate |-> 30]]
MCDirectionWeights == [longitudinal |-> 4, other |-> 6]

MCBase ==
  [offset |-> 0, parsed |-> TRUE, source |-> 2, time |-> 0, event |-> 0, trip |-> 1, seq |-> 0,
   ingested |-> 1, profile |-> 1, place |-> 1, speed |-> 8, heading |-> 10, accel |-> 0,
   angle |-> 0, rough |-> 2]

MCHardBrake == -3

\* One trip of four or five samples.
MCAccelTimes == {<<0, 2, 4, 5, 8>>, <<0, 1, 1, 3>>}
MCSteerTimes == {<<0, 1, 2, 3>>, <<0, 2, 5, 6, 7>>}
MCPlaces == <<1, 1, 4, 2, 2>>
MCSample(times, i, accel, angle) ==
  [MCBase EXCEPT !.offset = i, !.event = i, !.seq = i, !.time = times[i],
                 !.accel = accel, !.angle = angle, !.place = MCPlaces[i]]
MCAccelTrips ==
  UNION {{{MCSample(times, i, accel[i], 0) : i \in DOMAIN times} :
            accel \in [DOMAIN times -> {0, 4, -4}]} : times \in MCAccelTimes}
MCSteerTrips ==
  UNION {{{MCSample(times, i, 0, angle[i]) : i \in DOMAIN times} :
            angle \in [DOMAIN times -> {0, 30, NULL}]} : times \in MCSteerTimes}

\* Rows of the first hour and of the second, sound and otherwise.
MCSound ==
  {[MCBase EXCEPT !.offset = 1, !.event = 1, !.time = 3],
   [MCBase EXCEPT !.offset = 2, !.event = 2, !.trip = 2, !.profile = 2, !.time = 4, !.place = 2,
                  !.rough = 5, !.accel = 9, !.heading = NULL],
   [MCBase EXCEPT !.offset = 3, !.event = 3, !.trip = 3, !.time = 21, !.place = 3, !.rough = 0,
                  !.heading = 100, !.source = 22]}
MCOdd ==
  {[MCBase EXCEPT !.offset = 11, !.event = 1, !.time = 3, !.ingested = 2, !.place = 2],
   [MCBase EXCEPT !.offset = 12, !.event = 1, !.time = 3, !.heading = 360, !.ingested = 3],
   [MCBase EXCEPT !.offset = 13, !.parsed = FALSE, !.time = NULL, !.event = NULL],
   [MCBase EXCEPT !.offset = 14, !.event = 4, !.speed = NULL],
   [MCBase EXCEPT !.offset = 15, !.event = 5, !.time = Unreadable],
   [MCBase EXCEPT !.offset = 16, !.event = 6, !.time = 41, !.source = 19],
   [MCBase EXCEPT !.offset = 17, !.event = 7, !.trip = 7, !.profile = 0],
   [MCBase EXCEPT !.offset = 18, !.event = 8, !.trip = 8, !.place = 4],
   [MCBase EXCEPT !.offset = 19, !.event = 9, !.trip = 2, !.profile = 2, !.seq = 1, !.time = 5,
                  !.accel = NULL],
   [MCBase EXCEPT !.offset = 20, !.event = 10, !.trip = 10, !.time = 23, !.profile = 2,
                  !.rough = 9, !.place = 3, !.heading = 45]}

MCInput(feed, roads) == [feed |-> feed, roads |-> roads]
MCInputs ==
  {MCInput(<<trip>>, MCRoads) : trip \in MCAccelTrips \cup MCSteerTrips}
    \cup {MCInput(<<MCSound \cup odd, late>>, MCRoads) :
            odd \in kSubset(1, MCOdd), late \in kSubset(1, MCOdd)}
    \cup {MCInput(<<MCSound \cup odd>>, MCRoads) : odd \in kSubset(2, MCOdd)}
    \cup {MCInput(<<MCSound>>, MCOldRoads), MCInput(<<MCSound>>, {})}
=============================================================================
