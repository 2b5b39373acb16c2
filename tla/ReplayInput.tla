----------------------------- MODULE ReplayInput -----------------------------
(***************************************************************************)
(* What a replay reads (sensor_producer/prepared_replay.py, nyc_data.py,   *)
(* sampling.py): the valid rows of a TLC file in order, rotated so that    *)
(* they begin at the present weekday and clock time, the sample that keeps *)
(* the hourly budget, and the shard of each worker.  Operators only.       *)
(*                                                                         *)
(* A source is a sequence of rows; the position is file_row_number.  A row *)
(* is [complete, request, pickup, dropoff, pu, do, miles]; the trip id is  *)
(* its position, which the hash in the code contains.  Time is counted in  *)
(* units of one sample.                                                    *)
(***************************************************************************)
EXTENDS RoadRouting, Lists

CONSTANTS
  HourLength,    \* units per hour
  DayHours,      \* hours per day
  WeekDays,      \* days per week
  HourlyTarget,  \* target_events_per_hour
  GroupSize,     \* rows per row group of the prepared file
  Draw,          \* per trip id, the hash the sampling draws
  DrawScale,     \* the draws are fractions of this
  Shard,         \* per trip id, its worker
  Seed           \* per trip id, the hash that rotates route candidates

ASSUME ReplayInputAssumption ==
  /\ {HourLength, DayHours, WeekDays, HourlyTarget, GroupSize, DrawScale}
       \subseteq Nat \ {0}
  /\ \A t \in DOMAIN Draw : Draw[t] \in 0..(DrawScale - 1)

\* The WHERE clause all readers share.
Valid(row) ==
  /\ row.complete
  /\ row.request <= row.pickup /\ row.pickup < row.dropoff
  /\ row.miles > 0

Trips(file) == {t \in DOMAIN file : Valid(file[t])}

\* A file is a list of rows; the numbers of a valid one are there, those of
\* other rows may be missing.
Readable(file) ==
  /\ file \in Seq(Range(file))
  /\ \A t \in Trips(file) :
       {file[t].request, file[t].pickup, file[t].dropoff, file[t].miles} \subseteq Nat

\* ORDER BY request_datetime, file_row_number.
Earlier(trips, at) ==
  {p \in trips \X trips : at[p[1]] < at[p[2]] \/ (at[p[1]] = at[p[2]] /\ p[1] < p[2])}

Sorted(trips, at) == Ordered(trips, Earlier(trips, at))

Requests(file) == {file[t].request : t \in Trips(file)}
FirstRequest(file) == Min(Requests(file))
LastRequest(file) == Max(Requests(file))
Cycle(file) == LastRequest(file) + 1 - FirstRequest(file)
CycleHours(file) == Max({1, (Cycle(file) + HourLength - 1) \div HourLength})

-----------------------------------------------------------------------------
\* build_hourly_sampling_plan.
Hour(time) == time \div HourLength
SpannedHours(row) == Hour(row.pickup)..Hour(row.dropoff)

ExpectedEvents(row, h) ==
  LET start == h * HourLength
      end == start + HourLength
  IN Max({0, Min({row.dropoff, end}) - Max({row.pickup, start})})
     + (IF Hour(row.dropoff) = h THEN 1 ELSE 0)

\* The events of each row in an hour; the other hours are not generated.
Spans(file, t, h) == t \in Trips(file) /\ h \in SpannedHours(file[t])

Events(file, h) ==
  [t \in DOMAIN file |-> IF Spans(file, t, h) THEN ExpectedEvents(file[t], h) ELSE 0]

HourlyEvents(file, h) == Total(Events(file, h), Len(file))

CoveredHours(file) == UNION {SpannedHours(file[t]) : t \in Trips(file)}

\* The hours before the first one have no events.
FullEventCount(file) ==
  LET hours == Max(CoveredHours(file)) + 1
  IN Total([n \in 1..hours |-> HourlyEvents(file, n - 1)], hours)

\* A ratio is a pair <<numerator, denominator>>.
Less(p, q) == p[1] * q[2] < q[1] * p[2]
Least(ratios) == CHOOSE p \in ratios : \A q \in ratios : ~Less(q, p)

BaseRatio(file) ==
  Least({<<1, 1>>, <<HourlyTarget * CycleHours(file), FullEventCount(file)>>})

HourRatio(file, h) ==
  Least({BaseRatio(file),
         IF HourlyEvents(file, h) = 0 THEN <<1, 1>>
         ELSE <<HourlyTarget, HourlyEvents(file, h)>>})

\* Mutated form of Probability: the hour of the pickup decides.
MutantPickupHour(file, t) == HourRatio(file, Hour(file[t].pickup))

\* probability_for: the busiest hour a trip touches decides.
Probability(file, t) ==
  Least({BaseRatio(file)} \cup {HourRatio(file, h) : h \in SpannedHours(file[t])})

\* includes: the same draw in every process that reads the plan.
Included(file, t) ==
  Draw[t] * Probability(file, t)[2] < DrawScale * Probability(file, t)[1]

-----------------------------------------------------------------------------
\* source_anchor_for_wall_time: the day of the file with the weekday of the
\* wall clock, the same one of the month if there are that many.
DayOf(time) == time \div (HourLength * DayHours)

AnchorDays(file, weekday) ==
  {d \in UNION {DayOf(FirstRequest(file))..DayOf(time) : time \in Requests(file)} :
     d % WeekDays = weekday}

SourceAnchor(file, wall) ==
  LET days == AnchorDays(file, wall.weekday)
      nth == Min({wall.week, Cardinality(days) - 1})
      day == CHOOSE d \in days : Cardinality({e \in days : e < d}) = nth
  IN day * HourLength * DayHours + wall.clock

\* A trip as it is replayed: its row, and by how much it is shifted.
Played(t, shift) == [trip |-> t, shift |-> shift]

\* The rows of a prepared file, in groups of the same size.
Rows(file) == Sorted(Trips(file), [t \in Trips(file) |-> file[t].request])
GroupOf(i) == ((i - 1) \div GroupSize) + 1
Groups(file) == (Len(Rows(file)) + GroupSize - 1) \div GroupSize

\* The first group whose statistics reach the anchor.
StartGroup(file, startAt) ==
  Min({g \in 1..Groups(file) : \E i \in DOMAIN Rows(file) :
         GroupOf(i) = g /\ file[Rows(file)[i]].request >= startAt} \cup {Groups(file) + 1})

\* The row groups read a second time, from 1 in place of 0.
WrappedGroups(start, groups) == 1..Min({start, groups})

\* The rows of some groups that are at or after the anchor, or those before it.
GroupRows(file, groups, startAt, late) ==
  Kept(Rows(file), {i \in DOMAIN Rows(file) :
         GroupOf(i) \in groups /\ (late <=> file[Rows(file)[i]].request >= startAt)})

\* _iter_rotated_rows: row groups that end before the anchor are skipped by
\* their statistics, and read last, a cycle later.
PreparedOrder(file, startAt) ==
  LET start == StartGroup(file, startAt)
      after == GroupRows(file, start..Groups(file), startAt, TRUE)
      before == GroupRows(file, WrappedGroups(start, Groups(file)), startAt, FALSE)
  IN [k \in DOMAIN after |-> Played(after[k], 0)]
       \o [k \in DOMAIN before |-> Played(before[k], Cycle(file))]

\* iter_hvfhv_parquet_trips: the same by a query over the source file.
Shift(file, startAt, t) == IF file[t].request < startAt THEN Cycle(file) ELSE 0

ParquetOrder(file, startAt) ==
  LET order == Sorted(Trips(file), [t \in Trips(file) |->
                                      file[t].request + Shift(file, startAt, t)])
  IN [k \in DOMAIN order |-> Played(order[k], Shift(file, startAt, order[k]))]

\* The trips left by the sampling, and those of a worker (stable_worker_index).
Sampled(file, order) ==
  Kept(order, {k \in DOMAIN order : Included(file, order[k].trip)})
OfWorker(order, w) == Kept(order, {k \in DOMAIN order : Shard[order[k].trip] = w})

-----------------------------------------------------------------------------
\* _read_od_stats: one entry per observed pair of zones, with the median miles.
Pairs(file) == {<<file[t].pu, file[t].do>> : t \in Trips(file)}

\* Twice the median, which for two values in the middle is their sum.
MedianMiles2(file, od) ==
  LET trips == {t \in Trips(file) : <<file[t].pu, file[t].do>> = od}
      order == Sorted(trips, [t \in trips |-> file[t].miles])
      n == Len(order)
  IN file[order[(n + 1) \div 2]].miles + file[order[(n + 2) \div 2]].miles

\* The route templates of a source on a network; lengths are in half miles.
Templates(file, net) ==
  [od \in Pairs(file) |-> Template(net, od[1], od[2], MedianMiles2(file, od))]

\* The samples of a planned trip: one per unit, the first at the pickup and
\* the last at the drop-off.
SampleCount(row) == Max({2, row.dropoff - row.pickup + 1})
\* Mutated form of SampleTime: the schedule of the source is not shifted.
MutantSampleTime(row, shift, k) == Min({row.dropoff, row.pickup + k - 1})

SampleTime(row, shift, k) == shift + Min({row.dropoff, row.pickup + k - 1})
=============================================================================
