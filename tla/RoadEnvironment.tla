--------------------------- MODULE RoadEnvironment ---------------------------
(***************************************************************************)
(* Builds of the monthly road environment in the data lake                 *)
(* (batch_jobs/pipeline.py) and the services that choose among them        *)
(* (orchestration jobs/road_environment.py, jobs/current_score.py,         *)
(* batch_jobs comfort_score/universe.py).                                  *)
(*                                                                         *)
(* A build uploads four source files and four tables one by one, then the  *)
(* manifest, then, if asked to, the active pointer; it can die anywhere    *)
(* and what it has uploaded stays.  Dates count days in months of 31.      *)
(***************************************************************************)
EXTENDS RoadSegments

CONSTANTS
  DataOf,       \* source directory -> the four datasets in it
  Requests,     \* the command lines of the builds
  MinPavement, MinHumps,    \* thresholds of the match rates, in percent
  MaxAttempts, MaxRunning   \* bounds of the instance

Sources == DOMAIN DataOf
\* The order of SOURCE_FILES, then that of table_files.
Uploads == <<"nyc_lion", "nyc_street_pavement_ratings", "nyc_speed_humps", "tlc_taxi_zones",
             "road_segment", "enriched_segment_reference",
             "simulation_road_environment", "taxi_zone">>
Roles == {Uploads[k] : k \in 1..8}
SourceRoles == {Uploads[k] : k \in 1..4}

\* A build id is used for one reference date and one snapshot date.
ASSUME RequestsAssumption ==
  /\ \A q \in Requests :
       /\ q.reference \in Nat /\ q.snapshot \in Nat /\ q.build \in Nat
       /\ q.source \in Sources /\ q.activate \in BOOLEAN
  /\ \A q, r \in Requests : q.build = r.build =>
       q.reference = r.reference /\ q.snapshot = r.snapshot
  /\ MaxAttempts \in Nat

\* The datasets as they are read: a date that cannot be read is NULL.
Readable(data) ==
  /\ \A dataset \in {data.lion, data.pavement, data.humps} : dataset \in Seq(Range(dataset))
  /\ \A i \in DOMAIN data.lion :
       /\ data.lion[i].object \in Int
       /\ data.lion[i].shape # NULL => data.lion[i].shape.place \in Int
  /\ \A i \in DOMAIN data.pavement :
       /\ data.pavement[i].place \in Int
       /\ data.pavement[i].date \in (Nat \ {0}) \cup {NULL}
  /\ \A h \in DOMAIN data.humps :
       /\ data.humps[h].place \in Int
       /\ data.humps[h].date \in (Nat \ {0}) \cup {NULL}
       /\ data.humps[h].count \in Int \cup {NULL}
ASSUME DatasetsAssumption ==
  /\ NULL \notin Int /\ Strip[NULL] = NULL
  /\ \A s \in Sources : Readable(DataOf[s])

Attempts == 1..MaxAttempts
Builds == {<<q.reference, q.build>> : q \in Requests}
ASSUME NullAssumption ==
  /\ \A a \in Attempts, q \in Requests :
       [attempt |-> a, source |-> q.source, snapshot |-> q.snapshot] # NULL
  /\ \A s \in Sources, a \in 0..MaxAttempts : [source |-> s, attempt |-> a] # NULL
  /\ NULL \notin Builds

\* ARTIFACT_KEYS and the keys of publish_sources.
PathOf(role, q) ==
  [role |-> role, build |-> q.build,
   date |-> IF role \in SourceRoles \cup {"road_segment"} THEN q.snapshot ELSE q.reference]
Paths == {PathOf(role, q) : role \in Roles, q \in Requests}

VARIABLES
  store,      \* path -> the bytes of the object, NULL where there is none
  manifests,  \* <<reference date, build>> -> the manifest, or NULL
  active,     \* the build the active pointer names, or NULL
  runs,       \* attempt -> its command line and the uploads done, or NULL
  started,    \* the number of attempts
  modified,   \* <<reference date, build>> -> last_modified of the manifest
  clock       \* the number of manifests written

vars == <<store, manifests, active, runs, started, modified, clock>>

\* A source file is copied; a table holds the time of the attempt.
BytesOf(role, source, attempt) ==
  [source |-> source,
   attempt |-> IF role \in SourceRoles THEN 0 ELSE attempt]

References == {q.reference : q \in Requests}
RoadsOf == [s \in Sources |-> RoadSegmentsOf(DataOf[s].lion)]
EnrichedBy == [s \in Sources |-> [d \in References |-> Enriched(DataOf[s], d)]]
AcceptedRequests ==
  {q \in Requests : Acceptable(DataOf[q.source], q.reference, MinPavement, MinHumps)}

Init ==
  /\ store = [p \in Paths |-> NULL]
  /\ manifests = [k \in Builds |-> NULL]
  /\ active = NULL
  /\ runs = [a \in Attempts |-> NULL]
  /\ started = 0
  /\ modified = [k \in Builds |-> 0]
  /\ clock = 0

Running == {a \in Attempts : runs[a] # NULL}
KeyOf(q) == <<q.reference, q.build>>
\* Mutated form of NotPublished: a build may be repeated.
MutantNotPublished(q) == q \in Requests

NotPublished(q) == manifests[KeyOf(q)] = NULL

\* The command line is given by hand or by a monthly schedule, and again after
\* a crash; one build id is not run twice at a time.
Start(q) ==
  /\ started < MaxAttempts /\ Cardinality(Running) < MaxRunning
  /\ \A a \in Running : runs[a].request.build # q.build
  /\ NotPublished(q)
  /\ q \in AcceptedRequests
  /\ started' = started + 1
  /\ runs' = [runs EXCEPT ![started + 1] = [request |-> q, uploaded |-> 0]]
  /\ UNCHANGED <<store, manifests, active, modified, clock>>

Upload(a) ==
  /\ runs[a].uploaded < 8
  /\ LET q == runs[a].request
         role == Uploads[runs[a].uploaded + 1]
     IN store' = [store EXCEPT ![PathOf(role, q)] = BytesOf(role, q.source, a)]
  /\ runs' = [runs EXCEPT ![a].uploaded = @ + 1]
  /\ UNCHANGED <<manifests, active, started, modified, clock>>

EverythingUploaded(a) == runs[a].uploaded = 8

WriteManifest(a) ==
  /\ EverythingUploaded(a)
  /\ LET q == runs[a].request
     IN /\ manifests' = [manifests EXCEPT ![KeyOf(q)] =
              [attempt |-> a, source |-> q.source, snapshot |-> q.snapshot]]
        /\ modified' = [modified EXCEPT ![KeyOf(q)] = clock]
        /\ runs' = [runs EXCEPT ![a] = IF q.activate THEN [@ EXCEPT !.uploaded = 9] ELSE NULL]
  /\ clock' = clock + 1
  /\ UNCHANGED <<store, active, started>>

Activate(a) ==
  /\ runs[a].uploaded = 9
  /\ active' = KeyOf(runs[a].request)
  /\ runs' = [runs EXCEPT ![a] = NULL]
  /\ UNCHANGED <<store, manifests, started, modified, clock>>

Die(a) ==
  /\ runs' = [runs EXCEPT ![a] = NULL]
  /\ UNCHANGED <<store, manifests, active, started, modified, clock>>

Next ==
  \/ \E q \in Requests : Start(q)
  \/ \E a \in Running : Upload(a) \/ WriteManifest(a) \/ Activate(a) \/ Die(a)

Spec == Init /\ [][Next]_vars
-----------------------------------------------------------------------------
(* The readers *)

MonthOf(date) == date \div 31

\* Mutated form of Candidates: the newest build, of whatever month.
MutantCandidates(month) == {k \in Builds : manifests[k] # NULL}

\* resolve_road_snapshot_date_for_month: the build a month is processed with.
Candidates(month) == {k \in Builds : manifests[k] # NULL /\ MonthOf(k[1]) <= month}
Resolved(month) ==
  LET same == {k \in Candidates(month) : MonthOf(k[1]) = month}
      eligible == IF same # {} THEN same ELSE Candidates(month)
  IN IF eligible = {} THEN NULL
     ELSE CHOOSE k \in eligible : \A l \in eligible :
            \/ l[1] < k[1]
            \/ l[1] = k[1] /\ modified[l] <= modified[k]

\* resolve_active_road_snapshot_date, and the universe of the standard scores.
ActiveSnapshot == manifests[active].snapshot
ActiveRoads == {RoadsOf[manifests[active].source][n] :
                  n \in DOMAIN RoadsOf[manifests[active].source]}

\* load_segment_zones: every table in the partition of the date, of a published
\* build or not, the last in the order of paths over the earlier ones.
ZoneRows(path) ==
  LET rows == RoadsOf[store[path].source]
  IN {<<rows[n].segment, rows[n].location>> : n \in DOMAIN rows}
SegmentZones(snapshot) ==
  LET tables == {p \in Paths : store[p] # NULL /\ p.role = "road_segment" /\ p.date = snapshot}
      Names(p) == {row[1] : row \in {r \in ZoneRows(p) : r[2] # NULL}}
      Last(s) == CHOOSE p \in tables : s \in Names(p) /\
                   \A o \in tables : s \in Names(o) => o.build <= p.build
  IN [s \in UNION {Names(p) : p \in tables} |->
        (CHOOSE row \in ZoneRows(Last(s)) : row[1] = s)[2]]

-----------------------------------------------------------------------------
(* Types *)

TypeOK ==
  /\ store \in [Paths -> [source : Sources, attempt : 0..MaxAttempts] \cup {NULL}]
  /\ manifests \in [Builds -> [attempt : Attempts, source : Sources,
                               snapshot : {q.snapshot : q \in Requests}] \cup {NULL}]
  /\ active \in Builds \cup {NULL}
  /\ runs \in [Attempts -> [request : Requests, uploaded : 0..9] \cup {NULL}]
  /\ started \in 0..MaxAttempts
  /\ modified \in [Builds -> Nat]
  /\ clock \in Nat

(***************************************************************************)
(* A published environment is whole: every object its manifest lists is    *)
(* there with the bytes of the attempt that wrote the manifest, whatever   *)
(* other attempts died with the same build id before, ran beside it or     *)
(* came after; and the active pointer names a published environment        *)
(* (pipeline.py:83, README: "a failed or rejected build cannot replace     *)
(* the previously active environment").                                    *)
(***************************************************************************)
PublishedIsWhole ==
  /\ \A q \in Requests, role \in Roles :
       LET m == manifests[KeyOf(q)]
       IN m # NULL => store[PathOf(role, q)] = BytesOf(role, m.source, m.attempt)
  /\ active # NULL => manifests[active] # NULL

(***************************************************************************)
(* Roads do not change behind a month: what a past month is processed with *)
(* is only replaced by a build for that month or an earlier one that is    *)
(* newer, never by a build of a later month and never by an older one      *)
(* (jobs/road_environment.py:49-88), so that a backfill sees the roads of  *)
(* its time.                                                               *)
(***************************************************************************)
PastMonthsKeepTheirRoads ==
  [][\A month \in {MonthOf(d) : d \in References} :
       LET before == Resolved(month)
           after == Resolved(month)'
       IN before # NULL =>
            /\ after # NULL
            /\ \/ after = before /\ manifests'[after] = manifests[before]
               \/ MonthOf(after[1]) <= month /\ after[1] >= before[1]]_vars

-----------------------------------------------------------------------------
(* What an environment says of the city *)

\* The datasets as they were on the reference date.
AsOf(data, reference) ==
  LET Then(items) == {i \in DOMAIN items : items[i].date = NULL \/ items[i].date <= reference}
  IN [lion |-> data.lion, pavement |-> Kept(data.pavement, Then(data.pavement)),
      humps |-> Kept(data.humps, Then(data.humps)), zones |-> data.zones]

\* A segment is its vehicle line with the lowest OBJECTID.
FromLowestObject(data, rows) ==
  \A n \in DOMAIN rows :
    LET Lines == {i \in DOMAIN data.lion : /\ Strip[data.lion[i].segment] = rows[n].road.segment
                                          /\ IsVehicleSegment(data.lion[i])}
    IN \E i \in Lines : /\ \A j \in Lines : data.lion[i].object <= data.lion[j].object
                        /\ data.lion[i].street = rows[n].road.street
                        /\ data.lion[i].length = rows[n].road.length
                        /\ data.lion[i].shape.place = rows[n].road.place

\* No usable inspection of the street is nearer, or as near and more recent.
RatedByNearest(data, reference, rows) ==
  \A n \in DOMAIN rows :
    LET road == rows[n].road
        Usable == {i \in DOMAIN data.pavement :
                     /\ data.pavement[i].located
                     /\ Key(data.pavement[i].street) = Key(road.street)
                     /\ Known(data.pavement[i].date, reference)
                     /\ Gap(road, data.pavement[i]) <= MaxReferenceDistance}
        Better(j, i) ==
          \/ Gap(road, data.pavement[j]) < Gap(road, data.pavement[i])
          \/ /\ Gap(road, data.pavement[j]) = Gap(road, data.pavement[i])
             /\ data.pavement[j].date # NULL
             /\ data.pavement[i].date = NULL \/ data.pavement[j].date > data.pavement[i].date
    IN IF Usable = {} THEN rows[n].rating = NULL /\ ~rows[n].matched
       ELSE \E i \in Usable : /\ \A j \in Usable : ~Better(j, i)
                             /\ rows[n].rating = Rating(data.pavement[i])

\* Every hump of a record near its street is on one segment, inside it.
HumpsOnce(data, reference, rows) ==
  LET Near(h) == \E n \in DOMAIN rows :
        /\ h.located /\ Known(h.date, reference)
        /\ Key(h.street) = Key(rows[n].road.street)
        /\ Gap(rows[n].road, h) <= MaxReferenceDistance
      Placed == UNION {{n} \X DOMAIN rows[n].humps : n \in DOMAIN rows}
      Recorded == UNION {{h} \X (1..HumpCount(data.humps[h])) :
                           h \in {g \in DOMAIN data.humps : Near(data.humps[g])}}
  IN /\ Cardinality(Placed) = Cardinality(Recorded)
     /\ \A n \in DOMAIN rows : \A k \in DOMAIN rows[n].humps :
          LET at == rows[n].humps[k]
          IN /\ 0 < at[1] /\ at[1] < at[2]
             /\ k > 1 => rows[n].humps[k - 1][1] * at[2] <= at[1] * rows[n].humps[k - 1][2]

(***************************************************************************)
(* A published environment says of every road what the datasets said on    *)
(* its reference date: what was recorded later changes nothing, a segment  *)
(* appears once, is rated by the nearest inspection of its street that no  *)
(* more recent one equals, and every hump lies on one segment (package     *)
(* road_segment and environment.py:110-202), so that the simulation can    *)
(* load it (sensor_producer/environment.py:96-165).  Every road of the     *)
(* active one that lies in a zone has one in the map of current_score.     *)
(***************************************************************************)
SoundBy ==
  [s \in Sources |-> [d \in References |->
     LET data == DataOf[s]
         rows == EnrichedBy[s][d]
     IN /\ rows = Enriched(AsOf(data, d), d)
        /\ Loadable(rows)
        /\ FromLowestObject(data, rows)
        /\ RatedByNearest(data, d, rows)
        /\ HumpsOnce(data, d, rows)]]
EnvironmentSound ==
  /\ \A q \in Requests : manifests[KeyOf(q)] # NULL =>
       SoundBy[manifests[KeyOf(q)].source][q.reference]
  /\ active # NULL =>
       \A road \in ActiveRoads : road.location # NULL =>
         road.segment \in DOMAIN SegmentZones(ActiveSnapshot)
=============================================================================
