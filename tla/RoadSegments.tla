---------------------------- MODULE RoadSegments ----------------------------
(***************************************************************************)
(* From the four city datasets to the rows of one road environment         *)
(* (batch_jobs road_segment/*.py, environment.py, tables.py).              *)
(*                                                                         *)
(* A geometry is reduced to the place of its line on a number axis: the    *)
(* distance of two lines is the distance of their places, and the axis     *)
(* also orders their WKT texts.  Codes, names and identifiers are model    *)
(* values; Strip and StreetKey say what the string functions make of them. *)
(***************************************************************************)
EXTENDS Lists, FiniteSetsExt

CONSTANTS
  NULL,       \* Python's None
  Strip,      \* raw SegmentID -> the identifier without blanks, or NULL
  StreetKey,  \* street name -> its upper-case letters and digits
  NoKey       \* the key of a name without letters, and of a missing name

VehicleFeatures == {"0", "6", "A", "C"}
VehicleRoadways == {"1", "2", "3", "4", "8", "9", "10", "13"}
VehicleDirections == {"T", "W", "A"}
MaxReferenceDistance == 39

-----------------------------------------------------------------------------
(* LION rows to road segments *)

IsVehicleSegment(row) ==
  /\ row.feature \in VehicleFeatures
  /\ row.status = "2"
  /\ row.roadway \in VehicleRoadways
  /\ row.direction \in VehicleDirections

\* One row for each SegmentID as the file spells it: the lowest OBJECTID, the
\* first of equals, in the order in which the identifiers first appear.
Representatives(rows) ==
  LET Same(i) == {j \in DOMAIN rows : rows[j].segment = rows[i].segment}
      Firsts == {i \in DOMAIN rows : rows[i].segment # NULL /\ \A j \in Same(i) : i <= j}
      Best(i) == CHOOSE j \in Same(i) : \A k \in Same(i) :
                    \/ rows[j].object < rows[k].object
                    \/ rows[j].object = rows[k].object /\ j <= k
  IN Kept([i \in DOMAIN rows |-> rows[Best(i)]], Firsts)

VehicleRows(lion) ==
  Representatives(Kept(lion, {i \in DOMAIN lion : IsVehicleSegment(lion[i])}))

\* A line, or a multi-line of one part; the direction of more parts is unknown.
SingleLine(shape) ==
  IF shape = NULL \/ ~shape.valid \/ shape.parts # 1 THEN NULL ELSE shape

\* The second pass over the file: the geometry of each identifier, of one that
\* is spelt twice the last.
GeometryOf(id, rows) ==
  LET Own == {n \in DOMAIN rows : Strip[rows[n].segment] = id /\ SingleLine(rows[n].shape) # NULL}
  IN IF id = NULL \/ Own = {} THEN NULL ELSE rows[Max(Own)].shape

\* combine_segment_records: the rows of the first pass with the geometry of
\* their identifier.
Combined(rows) ==
  [n \in DOMAIN rows |->
     [segment |-> Strip[rows[n].segment], street |-> rows[n].street,
      from |-> rows[n].from, to |-> rows[n].to, direction |-> rows[n].direction,
      length |-> rows[n].length, line |-> GeometryOf(Strip[rows[n].segment], rows)]]

\* No required_field_null, length_not_positive or geometry_invalid.
Passes(record) ==
  /\ NULL \notin {record.segment, record.from, record.to, record.length, record.line}
  /\ record.length > 0

\* Looked for among all records, also those another rule rejects.
DuplicateKey(records, n) ==
  \E m \in DOMAIN records \ {n} : records[m].segment = records[n].segment

ValidRecords(records) ==
  Kept(records, {n \in DOMAIN records : Passes(records[n]) /\ ~DuplicateKey(records, n)})

\* The zone that covers the midpoint; on a border, one of them.
FindLocation(line) ==
  IF line.zones = {} THEN NULL ELSE CHOOSE z \in line.zones : TRUE

RoadSegment(record) ==
  [segment |-> record.segment, street |-> record.street,
   direction |-> record.direction, length |-> record.length,
   place |-> record.line.place, location |-> FindLocation(record.line)]

RoadSegmentsOf(lion) ==
  LET records == ValidRecords(Combined(VehicleRows(lion)))
  IN [n \in DOMAIN records |-> RoadSegment(records[n])]

-----------------------------------------------------------------------------
(* Pavement ratings and speed humps *)

Key(street) == IF street = NULL THEN NoKey ELSE StreetKey[street]
Gap(segment, item) ==
  IF segment.place > item.place THEN segment.place - item.place ELSE item.place - segment.place

\* Mutated form of Known: every record counts.
MutantKnown(date, reference) == TRUE

\* A record with no readable date is taken for an old one.
Known(date, reference) == date = NULL \/ date <= reference

\* The inspections of a street by the reference date.
Applicable(segment, ratings, reference) ==
  {i \in DOMAIN ratings : /\ ratings[i].located
                          /\ Key(ratings[i].street) = Key(segment.street)
                          /\ Known(ratings[i].date, reference)}

\* The nearest is preferred, of equals the latest.
Day(item) == IF item.date = NULL THEN 0 ELSE item.date
Preference(segment, ratings, i) ==
  <<Gap(segment, ratings[i]), -Day(ratings[i]), ratings[i].place, i>>
Preferred(a, b) == \E k \in 1..4 : a[k] < b[k] /\ \A l \in 1..(k - 1) : a[l] = b[l]

\* The inspection a segment takes its rating from.
PavementFor(segment, ratings, reference) ==
  LET candidates == Applicable(segment, ratings, reference)
      best == CHOOSE i \in candidates : \A j \in candidates \ {i} :
                Preferred(Preference(segment, ratings, i), Preference(segment, ratings, j))
  IN IF candidates = {} \/ Gap(segment, ratings[best]) > MaxReferenceDistance
       THEN NULL ELSE best

Rating(item) == IF item.rating # NULL /\ item.rating <= 0 THEN NULL ELSE item.rating

\* The segment a hump record belongs to: the nearest on its street, the first
\* of equals.
SegmentFor(hump, segments, reference) ==
  LET candidates == {n \in DOMAIN segments : Key(segments[n].street) = Key(hump.street)}
      nearest == CHOOSE n \in candidates : \A m \in candidates \ {n} :
                    \/ Gap(segments[n], hump) < Gap(segments[m], hump)
                    \/ Gap(segments[n], hump) = Gap(segments[m], hump) /\ n < m
  IN IF \/ ~hump.located
        \/ ~Known(hump.date, reference)
        \/ candidates = {}
        \/ Gap(segments[nearest], hump) > MaxReferenceDistance
       THEN NULL ELSE nearest

HumpCount(hump) == IF hump.count = NULL \/ hump.count < 0 THEN 0 ELSE hump.count

\* The points at which the humps of some records lie, each <<record, i, of>>.
Points(own, humps) ==
  UNION {{<<h, i, HumpCount(humps[h]) + 1>> : i \in 1..HumpCount(humps[h])} : h \in own}
Lower(a, b) ==
  \/ a[2] * b[3] < b[2] * a[3]
  \/ a[2] * b[3] = b[2] * a[3] /\ a[1] < b[1]
InOrder(points) == Ordered(points, {p \in points \X points : Lower(p[1], p[2])})

\* The sorted fractions of a segment at which its humps lie, as <<i, of>>.
Fractions(n, humps, segments, reference) ==
  LET own == {h \in DOMAIN humps : SegmentFor(humps[h], segments, reference) = n}
      order == InOrder(Points(own, humps))
  IN [k \in DOMAIN order |-> <<order[k][2], order[k][3]>>]

-----------------------------------------------------------------------------
(* The environment *)

EnrichedRows(segments, source, reference) ==
  [n \in DOMAIN segments |->
     LET best == PavementFor(segments[n], source.pavement, reference)
     IN [road |-> segments[n],
         rating |-> IF best = NULL THEN NULL ELSE Rating(source.pavement[best]),
         matched |-> best # NULL,
         humps |-> Fractions(n, source.humps, segments, reference)]]

Enriched(source, reference) == EnrichedRows(RoadSegmentsOf(source.lion), source, reference)

\* The match rates in percent, as PreparationQuality counts them.
PavementRate(rows) == (100 * Cardinality({n \in DOMAIN rows : rows[n].matched})) \div Len(rows)
HumpRate(source, reference) ==
  LET located == {h \in DOMAIN source.humps : source.humps[h].located}
      mapped == {h \in located :
                   SegmentFor(source.humps[h], RoadSegmentsOf(source.lion), reference) # NULL}
  IN IF located = {} THEN 0 ELSE (100 * Cardinality(mapped)) \div Cardinality(located)

\* validate_environment; a file of taxi zones without one is refused as well.
ValidEnvironment(source, rows) ==
  /\ rows # << >> /\ source.zones # {}
  /\ \A n \in DOMAIN rows : rows[n].rating = NULL \/ rows[n].rating <= 10

\* A column of the table for the simulation may not be null.
Storable(rows) == \A n \in DOMAIN rows : rows[n].road.street # NULL

\* build_and_publish_environment raises before the first upload otherwise.
Acceptable(source, reference, minPavement, minHumps) ==
  LET rows == Enriched(source, reference)
  IN /\ ValidEnvironment(source, rows)
     /\ PavementRate(rows) >= minPavement
     /\ HumpRate(source, reference) >= minHumps
     /\ Storable(rows)

\* RoadEnvironment.from_parquet of the producer, or it does not start.
Loadable(rows) ==
  /\ rows # << >>
  /\ \A m, n \in DOMAIN rows : rows[m].road.segment = rows[n].road.segment => m = n
  /\ \A n \in DOMAIN rows : \A k \in DOMAIN rows[n].humps :
       LET at == rows[n].humps[k] IN 0 <= at[1] /\ at[1] <= at[2]
=============================================================================
