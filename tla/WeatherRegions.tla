---------------------------- MODULE WeatherRegions ----------------------------
(***************************************************************************)
(* The weather regions the taxi zones are merged into, once and offline    *)
(* (sensor-producer zone_profile/build_weather_region.py).                 *)
(*                                                                         *)
(* A zone is its location id; polygons are given by the zones they touch,  *)
(* the areas of their unions and their distances.  A region bears the id   *)
(* of the zone that absorbed the others.                                   *)
(***************************************************************************)
EXTENDS Integers, FiniteSets, FiniteSetsExt, Functions

CONSTANTS
  Master,      \* the zone master: location id -> [drawn, placed]
  Touching,    \* the pairs of zones whose polygons touch
  Area,        \* set of zones -> the area of the union of their polygons
  Far,         \* <<zone, zone>> -> the distance of their polygons
  RegionCount  \* TARGET_REGION_COUNT

NonSpatial == {264, 265}
SpatialZones ==
  {z \in DOMAIN Master : z \notin NonSpatial /\ Master[z].drawn /\ Master[z].placed}

\* There are zones for the target; else the validation below fails.
ASSUME RegionsAssumption ==
  /\ IsFiniteSet(DOMAIN Master) /\ DOMAIN Master \subseteq Nat
  /\ RegionCount \in 1..Cardinality(SpatialZones)
  /\ \A zones \in SUBSET SpatialZones : Area[zones] \in Nat
  /\ \A p \in SpatialZones \X SpatialZones : Far[p] \in Nat

Touch(z, y) == <<z, y>> \in Touching \/ <<y, z>> \in Touching
build_adjacency == [z \in SpatialZones |-> {y \in SpatialZones \ {z} : Touch(z, y)}]

\* The polygon of a region is the union of those of its zones.
Distance(zones, others) == Min({Far[p] : p \in zones \X others})

\* The least of keys by Size, of equals the lowest id.
Least(keys, size) ==
  CHOOSE k \in keys : \A l \in keys \ {k} : size[k] < size[l] \/ (size[k] = size[l] /\ k < l)

\* The smallest region it touches, or the nearest when it touches none.
MergeTarget(source, members, neighbours) ==
  LET candidates == neighbours[source] \cap DOMAIN members
  IN IF candidates # {} THEN Least(candidates, [k \in candidates |-> Area[members[k]]])
     ELSE Least(DOMAIN members \ {source}, [k \in DOMAIN members |-> Distance(members[source], members[k])])

\* The neighbours of the source become those of the target.
Inherited(neighbours, source, target) ==
  [k \in DOMAIN neighbours \ {source} |->
     IF k = target THEN (neighbours[k] \cup neighbours[source]) \ {source, target}
     ELSE IF source \in neighbours[k] THEN (neighbours[k] \ {source}) \cup {target}
     ELSE neighbours[k]]

\* One turn of the loop: the smallest region is absorbed.
Absorb(state) ==
  LET source == Least(DOMAIN state.members, [k \in DOMAIN state.members |-> Area[state.members[k]]])
      target == MergeTarget(source, state.members, state.neighbours)
  IN [members |-> [k \in DOMAIN state.members \ {source} |->
                     IF k = target THEN state.members[k] \cup state.members[source]
                     ELSE state.members[k]],
      neighbours |-> Inherited(state.neighbours, source, target)]

\* Until the target count is reached.
Turns == LET surplus == Cardinality(SpatialZones) - RegionCount
         IN IF surplus > 0 THEN surplus ELSE 0
Merged[n \in 0..Turns] ==
  IF n = 0 THEN [members |-> [z \in SpatialZones |-> {z}], neighbours |-> build_adjacency]
  ELSE Absorb(Merged[n - 1])
merge_regions == Merged[Turns].members

\* Numbered from 1 by the lowest zone of each.
assign_region_ids(members) ==
  [k \in DOMAIN members |->
     1 + Cardinality({l \in DOMAIN members : Min(members[l]) < Min(members[k])})]

build_zone_region_map(members) ==
  [z \in UNION Range(members) |->
     assign_region_ids(members)[CHOOSE k \in DOMAIN members : z \in members[k]]]

\* The script writes nothing otherwise.
Valid(members) ==
  /\ DOMAIN build_zone_region_map(members) = SpatialZones
  /\ Cardinality(DOMAIN members) = RegionCount
  /\ Range(assign_region_ids(members)) = 1..RegionCount
  /\ Range(build_zone_region_map(members)) = 1..RegionCount
=============================================================================
