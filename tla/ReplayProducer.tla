--------------------------- MODULE ReplayProducer ---------------------------
(***************************************************************************)
(* The sensor producer: prepare-replay writes a bundle of files from a TLC *)
(* source and a road environment, run replays it (or the source itself) to *)
(* Kafka, with one process or with a coordinator and worker processes.     *)
(*                                                                         *)
(* A worker loads the environment, reports "ready", waits for the start    *)
(* signal, plays its trips in the order of time, flushes and reports its   *)
(* result.  Its queue of what is due holds the next dispatch and the next  *)
(* sample of every trip under way.                                         *)
(***************************************************************************)
EXTENDS ReplayInput

CONSTANTS
  Workers,     \* the worker processes
  Sources,     \* the TLC files a replay may be made from
  Networks,    \* the road environments published one after the other
  Walls,       \* the wall clocks a run may start at
  Modes,       \* of "parallel", "prepared", "parquet": how run is called
  QueueLimit,  \* queue.buffering.max.messages
  Candidates,  \* MAX_ROUTE_CANDIDATES_PER_ZONE
  Months,      \* other files, and
  Starts,      \* anchors, which the two readers are compared on
  Solo,        \* the name under which a single process does a worker's part
  MaxMishaps   \* bound: exceptions, kills and lost messages in one behaviour

ASSUME ReplayAssumption ==
  /\ Networks \in Seq(Range(Networks)) /\ Networks # <<>>
  /\ Solo \in Workers /\ IsFiniteSet(Workers)
  /\ Modes \subseteq {"parallel", "prepared", "parquet"}
  /\ MaxMishaps \in Nat /\ QueueLimit \in Nat \ {0}

ASSUME SourcesAssumption == \A s \in Sources \cup Months : Readable(s)

\* A wall clock is a weekday, which one of its month it is, and a time of day.
ASSUME WallsAssumption ==
  /\ \A wall \in Walls : wall.week \in Nat /\ wall.clock \in Nat
  /\ Starts \subseteq Nat

\* stable_worker_index is below the number of workers.
ASSUME ShardAssumption ==
  \A s \in Sources : \A t \in Trips(s) : Shard[t] \in Workers

\* Nodes are numbers here, and lengths and times are whole; an environment with
\* a segment_id twice is not loaded.
ASSUME NetworksAssumption ==
  \A i \in DOMAIN Networks :
    /\ IsFiniteSet(Networks[i].segments)
    /\ \A s, t \in Networks[i].segments : s.id = t.id => s = t
    /\ \A s \in Networks[i].segments : {s.from, s.to, s.length} \subseteq Nat

VARIABLES
  source,    \* the TLC file
  road,      \* the road environment on disk
  disk,      \* the files of the bundle, and the environment it was planned on
  prep,      \* [at: where prepare-replay is, road: the environment it loaded]
  mode,      \* how run was called
  main,      \* where run is
  mainRoad,  \* the environment it loaded
  anchor,    \* the source time the replay begins at
  got,       \* messages of the awaited kind so far
  starved,   \* whether the last get timed out
  status,    \* the status queue
  signals,   \* start signals not taken yet
  proc,      \* [Workers -> where the process is]
  loaded,    \* [Workers -> the environment it loaded]
  todo,      \* [Workers -> the trips its iterator has left]
  due,       \* [Workers -> its queue of dispatches and samples]
  count,     \* [Workers -> the counter that breaks ties in it]
  clock,     \* [Workers -> the time of what was handled last]
  tally,     \* [Workers -> trips planned and skipped, samples published]
  unsent,    \* [Workers -> messages in the Kafka producer's queue]
  errors,    \* [Workers -> whether a delivery callback brought an error]
  topic,     \* the messages Kafka has
  mishaps

bundle == <<source, road, disk, prep>>
run == <<mode, mainRoad, anchor>>
mailbox == <<got, starved, status, signals>>
player == <<todo, due, count, clock, tally>>
kafka == <<unsent, errors, topic>>
vars == <<bundle, run, main, mailbox, proc, loaded, player, kafka, mishaps>>

Written == {"none", "partial", "whole"}
NoFiles == [trips |-> "none", routes |-> "none", tripsTmp |-> "none",
            routesTmp |-> "none", manifest |-> "none", road |-> 0]

Alive == {"load", "wait", "play", "full", "flush", "sent"}
Ended == {"exited", "failed", "killed"}

\* A dispatch of a trip, or the sample-th sample of it.
Item(at, number, played, sample) ==
  [at |-> at, number |-> number, trip |-> played.trip, shift |-> played.shift,
   sample |-> sample]

Message(w, i) == [by |-> w, trip |-> i.trip, shift |-> i.shift, sample |-> i.sample]

Init ==
  /\ source \in Sources /\ road = 1 /\ disk = NoFiles
  /\ prep = [at |-> "idle", road |-> 0]
  /\ mode \in Modes /\ main = "idle" /\ mainRoad = 0 /\ anchor = 0
  /\ got = 0 /\ starved = FALSE /\ status = <<>> /\ signals = 0
  /\ proc = [w \in Workers |-> "none"] /\ loaded = [w \in Workers |-> 0]
  /\ todo = [w \in Workers |-> <<>>] /\ due = [w \in Workers |-> {}]
  /\ count = [w \in Workers |-> 0] /\ clock = [w \in Workers |-> 0]
  /\ tally = [w \in Workers |-> [planned |-> 0, skipped |-> 0, published |-> 0]]
  /\ unsent = [w \in Workers |-> {}] /\ errors = [w \in Workers |-> FALSE]
  /\ topic = {} /\ mishaps = 0

Mishap == mishaps < MaxMishaps /\ mishaps' = mishaps + 1

-----------------------------------------------------------------------------
\* Another build of the road environment replaces the files: of the next road
\* snapshot, or of the same one from other data (RoadEnvironment).
RefreshRoads ==
  /\ road < Len(Networks) /\ road' = road + 1
  /\ UNCHANGED <<source, disk, prep, run, main, mailbox, proc, loaded, player, kafka, mishaps>>

-----------------------------------------------------------------------------
\* prepare-replay.
Preparing(from, to) ==
  /\ main = "idle" /\ prep.at = from /\ prep' = [prep EXCEPT !.at = to]
  /\ UNCHANGED <<source, road, run, main, mailbox, proc, loaded, player, kafka>>

\* No file of a bundle may be there, whole or not.
StartPrepare ==
  /\ main = "idle" /\ prep.at = "idle"
  /\ {disk.trips, disk.routes, disk.manifest} = {"none"}
  /\ prep' = [at |-> "trips", road |-> road]
  /\ UNCHANGED <<source, road, disk, run, main, mailbox, proc, loaded, player, kafka, mishaps>>

WriteTrips ==
  /\ Preparing("trips", "routes") /\ Trips(source) # {}
  /\ disk' = [disk EXCEPT !.tripsTmp = "whole"] /\ UNCHANGED mishaps

WriteRoutes ==
  /\ Preparing("routes", "move_trips")
  /\ disk' = [disk EXCEPT !.routesTmp = "whole"] /\ UNCHANGED mishaps

MoveTrips ==
  /\ Preparing("move_trips", "move_routes")
  /\ disk' = [disk EXCEPT !.trips = disk.tripsTmp, !.tripsTmp = "none"]
  /\ UNCHANGED mishaps

MoveRoutes ==
  /\ Preparing("move_routes", "manifest")
  /\ disk' = [disk EXCEPT !.routes = disk.routesTmp, !.routesTmp = "none"]
  /\ UNCHANGED mishaps

WriteManifest ==
  /\ Preparing("manifest", "idle")
  /\ disk' = [disk EXCEPT !.manifest = "whole", !.road = prep.road]
  /\ UNCHANGED mishaps

\* Mutated form of Interrupted: files are written under their final names.
MutantInterrupted(at) ==
  CASE at = "trips" -> {disk, [disk EXCEPT !.trips = "partial"]}
    [] at = "routes" -> {disk, [disk EXCEPT !.manifest = "whole"]}
    [] OTHER -> {disk}

\* What an interrupted step leaves: a file may be cut off.
Interrupted(at) ==
  CASE at = "trips" -> {disk, [disk EXCEPT !.tripsTmp = "partial"]}
    [] at = "routes" -> {disk, [disk EXCEPT !.routesTmp = "partial"]}
    [] at = "manifest" -> {disk, [disk EXCEPT !.manifest = "partial"]}
    [] OTHER -> {disk}

\* An exception up to the second rename unlinks the temporary files; a crash
\* leaves everything as it is.
PrepareFails(crash) ==
  /\ Mishap /\ prep.at # "idle" /\ Preparing(prep.at, "idle")
  /\ \E left \in Interrupted(prep.at) :
       disk' = IF crash \/ prep.at = "manifest" THEN left
               ELSE [left EXCEPT !.tripsTmp = "none", !.routesTmp = "none"]

\* A person removes a bundle, to prepare another one.
RemoveBundle ==
  /\ disk # NoFiles /\ Preparing("idle", "idle")
  /\ disk' = NoFiles /\ UNCHANGED mishaps

Prepare ==
  \/ StartPrepare \/ WriteTrips \/ WriteRoutes \/ MoveTrips \/ MoveRoutes
  \/ WriteManifest \/ RemoveBundle \/ \E crash \in BOOLEAN : PrepareFails(crash)

-----------------------------------------------------------------------------
\* The sampled trips by the anchor, as the readers of the bundle and of the
\* source bring them.
Anchors(s) ==
  {SourceAnchor(s, wall) : wall \in {x \in Walls : AnchorDays(s, x.weekday) # {}}}

PreparedTrips ==
  [s \in Sources |-> [at \in Anchors(s) |-> Sampled(s, PreparedOrder(s, at))]]

ParquetTrips ==
  [s \in Sources |-> [at \in Anchors(s) |-> Sampled(s, ParquetOrder(s, at))]]

\* A file has requests up to the end of its last day: no run begins after the
\* last one, where everything would be a cycle later and still in the past.
ASSUME AnchorsAssumption ==
  \A s \in Sources : \A at \in Anchors(s) : at <= LastRequest(s) + 1

\* The trips a process plays: all of them, or its shard.
Playlist(w, at) ==
  CASE mode = "parallel" -> OfWorker(PreparedTrips[source][at], w)
    [] mode = "prepared" -> PreparedTrips[source][at]
    [] mode = "parquet" -> ParquetTrips[source][at]

Request(played) == source[played.trip].request + played.shift

\* The route of a trip: that of its zones in the bundle, or one by its distance.
PreparedRoutes ==
  [s \in Sources |-> [r \in DOMAIN Networks |-> Templates(s, Networks[r])]]

DirectRoutes ==
  [s \in Sources |-> [r \in DOMAIN Networks |-> [t \in Trips(s) |->
     PlanForZones(Networks[r], s[t].pu, s[t].do, 2 * s[t].miles, Seed[t], Candidates)]]]

StoredPlan(trip) == PreparedRoutes[source][disk.road][<<source[trip].pu, source[trip].do>>]

PlanOf(trip, roads) ==
  IF mode = "parquet" THEN DirectRoutes[source][roads][trip] ELSE StoredPlan(trip)

Plannable(trip, roads) ==
  Playable(Networks[roads], PlanOf(trip, roads), source[trip].dropoff - source[trip].pickup)

\* The iterator of a bundle walks the stored route of the trip it brings once
\* more, on the roads the process has loaded, and raises if they do not carry it.
Brings(trip, roads) ==
  mode # "parquet" =>
    LET plan == StoredPlan(trip)
    IN plan.skip = "" => Replannable(Networks[roads], plan.path)

\* The playlist is entered with its first dispatch, unless that raises.
Enters(w, at, roads) ==
  LET list == Playlist(w, at) IN list # <<>> => Brings(list[1].trip, roads)

Begin(w, at) ==
  LET list == Playlist(w, at)
  IN /\ todo' = [todo EXCEPT ![w] = IF list = <<>> THEN list ELSE Tail(list)]
     /\ due' = [due EXCEPT ![w] = IF list = <<>> THEN {}
                                  ELSE {Item(Request(list[1]), 0, list[1], 0)}]
     /\ count' = [count EXCEPT ![w] = 1]
     /\ clock' = [clock EXCEPT ![w] = at]
     /\ UNCHANGED tally

\* Environments are told apart by the date of their road snapshot.
SameDate(r, q) == Networks[r].date = Networks[q].date

\* _read_manifest: the manifest names the date of the roads the reader uses.
BundleFits(roads) == disk.manifest = "whole" /\ SameDate(disk.road, roads)

\* run with one process.
StartSolo(wall) ==
  /\ main = "idle" /\ mode # "parallel"
  /\ AnchorDays(source, wall.weekday) # {}
  /\ mode = "prepared" => BundleFits(road)
  /\ mode = "parquet" => Trips(source) # {}
  /\ Enters(Solo, SourceAnchor(source, wall), road)
  /\ main' = "solo" /\ mainRoad' = road
  /\ anchor' = SourceAnchor(source, wall)
  /\ proc' = [proc EXCEPT ![Solo] = "play"] /\ loaded' = [loaded EXCEPT ![Solo] = road]
  /\ Begin(Solo, SourceAnchor(source, wall))
  /\ UNCHANGED <<bundle, mode, mailbox, kafka, mishaps>>

\* run with workers: the bounds are read from the manifest, then all of the
\* processes are started.
StartParallel ==
  /\ main = "idle" /\ mode = "parallel"
  /\ disk.manifest = "whole"
  /\ main' = "ready" /\ mainRoad' = road
  /\ proc' = [w \in Workers |-> "load"]
  /\ UNCHANGED <<bundle, mode, anchor, mailbox, loaded, player, kafka, mishaps>>

\* process.start() raises in the loop, which no try surrounds: nobody signals or
\* terminates the processes already started.
StartCutShort ==
  /\ Mishap /\ main = "idle" /\ mode = "parallel"
  /\ disk.manifest = "whole"
  /\ main' = "stranded" /\ mainRoad' = road
  /\ \E started \in (SUBSET Workers) \ {Workers} :
       proc' = [w \in Workers |-> IF w \in started THEN "load" ELSE "none"]
  /\ UNCHANGED <<bundle, mode, anchor, mailbox, loaded, player, kafka>>

-----------------------------------------------------------------------------
\* The processes.  An exception is reported and ends the process with an exit
\* code; what was in the producer's queue is gone.
Fails(w) ==
  /\ proc' = [proc EXCEPT ![w] = "failed"]
  /\ unsent' = [unsent EXCEPT ![w] = {}]
  /\ IF main = "solo" THEN main' = "failed" /\ UNCHANGED status
     ELSE status' = Append(status, <<"error", w>>) /\ UNCHANGED main
  /\ UNCHANGED <<bundle, run, got, starved, signals, loaded, player, errors, topic>>

Report(w, kind) == status' = Append(status, <<kind, w>>) /\ UNCHANGED <<got, starved>>

\* Mutated form of SameRoads: the worker trusts the files.
MutantSameRoads(w) == TRUE

\* "worker road snapshot differs from prepared replay"
SameRoads(w) == SameDate(road, mainRoad)

Load(w) ==
  /\ proc[w] = "load"
  /\ IF SameRoads(w)
     THEN /\ proc' = [proc EXCEPT ![w] = "wait"] /\ loaded' = [loaded EXCEPT ![w] = road]
          /\ Report(w, "ready")
          /\ UNCHANGED <<bundle, run, main, signals, player, kafka>>
     ELSE Fails(w)
  /\ UNCHANGED mishaps

TakeSignal(w) ==
  /\ proc[w] = "wait" /\ signals > 0
  /\ IF BundleFits(mainRoad) /\ Enters(w, anchor, loaded[w])
     THEN /\ signals' = signals - 1
          /\ proc' = [proc EXCEPT ![w] = "play"]
          /\ Begin(w, anchor)
          /\ UNCHANGED <<bundle, run, main, got, starved, status, loaded, kafka>>
     ELSE Fails(w)
  /\ UNCHANGED mishaps

First(w) ==
  CHOOSE i \in due[w] : \A j \in due[w] :
    i.at < j.at \/ (i.at = j.at /\ i.number <= j.number)

\* Of the trips to come only the next one is in the queue.
NextDispatch(w) ==
  IF todo[w] = <<>> THEN {}
  ELSE {Item(Request(Head(todo[w])), count[w], Head(todo[w]), 0)}

\* The trip to come is brought, or its route raises.
NextComes(w) == todo[w] # <<>> => Brings(Head(todo[w]).trip, loaded[w])

\* A dispatch: the next one takes its place, then the trip is planned.  A trip
\* without a route or too short for it is skipped.
Dispatch(w) ==
  LET i == First(w)
      next == NextDispatch(w)
      planned == Plannable(i.trip, loaded[w])
      first == Item(SampleTime(source[i.trip], i.shift, 1), count[w] + Cardinality(next), i, 1)
  IN /\ proc[w] = "play" /\ due[w] # {} /\ i.sample = 0 /\ NextComes(w)
     /\ clock' = [clock EXCEPT ![w] = i.at]
     /\ todo' = [todo EXCEPT ![w] = IF next = {} THEN @ ELSE Tail(@)]
     /\ due' = [due EXCEPT ![w] = (@ \ {i}) \cup next \cup (IF planned THEN {first} ELSE {})]
     /\ count' = [count EXCEPT ![w] = @ + Cardinality(next) + (IF planned THEN 1 ELSE 0)]
     /\ tally' = IF planned THEN [tally EXCEPT ![w].planned = @ + 1]
                 ELSE [tally EXCEPT ![w].skipped = @ + 1]
     /\ UNCHANGED <<bundle, run, main, mailbox, proc, loaded, kafka, mishaps>>

NextRaises(w) ==
  /\ proc[w] = "play" /\ due[w] # {} /\ First(w).sample = 0 /\ ~NextComes(w)
  /\ Fails(w) /\ UNCHANGED mishaps

\* publish raises what a delivery callback recorded, before it produces; flush
\* does once its queue is empty.
DeliveryErrorSeen(w) ==
  /\ errors[w]
  /\ \/ proc[w] = "play" /\ due[w] # {} /\ First(w).sample > 0
     \/ proc[w] = "flush" /\ unsent[w] = {}
  /\ Fails(w) /\ UNCHANGED mishaps

HasRoom(w) == Cardinality(unsent[w]) < QueueLimit

\* BufferError: publish polls until there is room.
QueueFull(w) ==
  /\ proc[w] = "play" /\ due[w] # {} /\ First(w).sample > 0
  /\ ~errors[w] /\ ~HasRoom(w)
  /\ proc' = [proc EXCEPT ![w] = "full"]
  /\ UNCHANGED <<bundle, run, main, mailbox, loaded, player, kafka, mishaps>>

\* A sample is produced and the next one of its trip takes its place.
Publish(w) ==
  LET i == First(w)
      row == source[i.trip]
      next == IF i.sample < SampleCount(row)
              THEN {Item(SampleTime(row, i.shift, i.sample + 1), count[w], i, i.sample + 1)}
              ELSE {}
  IN /\ due[w] # {} /\ i.sample > 0
     /\ proc[w] = "full" \/ (proc[w] = "play" /\ ~errors[w])
     /\ HasRoom(w)
     /\ proc' = [proc EXCEPT ![w] = "play"]
     /\ clock' = [clock EXCEPT ![w] = i.at]
     /\ due' = [due EXCEPT ![w] = (@ \ {i}) \cup next]
     /\ count' = [count EXCEPT ![w] = @ + Cardinality(next)]
     /\ unsent' = [unsent EXCEPT ![w] = @ \cup {Message(w, i)}]
     /\ tally' = [tally EXCEPT ![w].published = @ + 1]
     /\ UNCHANGED <<bundle, run, main, mailbox, loaded, todo, errors, topic, mishaps>>

StartFlush(w) ==
  /\ proc[w] = "play" /\ due[w] = {}
  /\ proc' = [proc EXCEPT ![w] = "flush"]
  /\ UNCHANGED <<bundle, run, main, mailbox, loaded, player, kafka, mishaps>>

\* Mutated form of Flushed: flush returns what is left and nobody looks.
MutantFlushed(w) == ~errors[w]

Flushed(w) == unsent[w] = {} /\ ~errors[w]

EndReplay(w) ==
  /\ proc[w] = "flush" /\ Flushed(w)
  /\ IF main = "solo"
     THEN main' = "done" /\ proc' = [proc EXCEPT ![w] = "exited"] /\ UNCHANGED mailbox
     ELSE /\ proc' = [proc EXCEPT ![w] = "sent"] /\ Report(w, "result")
          /\ UNCHANGED <<main, signals>>
  /\ UNCHANGED <<bundle, run, loaded, player, kafka, mishaps>>

\* What were left in the producer's queue would go with the process.
Exit(w) ==
  /\ proc[w] = "sent" /\ proc' = [proc EXCEPT ![w] = "exited"]
  /\ unsent' = [unsent EXCEPT ![w] = {}]
  /\ UNCHANGED <<bundle, run, main, mailbox, loaded, player, errors, topic, mishaps>>

\* Anything may raise, the replay clock too when the lag is over its limit, and
\* flush when messages are left after 30 seconds.
Raises(w) ==
  /\ Mishap /\ proc[w] \in Alive \ {"sent"} /\ Fails(w)

Killed(w) ==
  /\ Mishap /\ proc[w] \in Alive /\ main # "solo"
  /\ proc' = [proc EXCEPT ![w] = "killed"] /\ unsent' = [unsent EXCEPT ![w] = {}]
  /\ UNCHANGED <<bundle, run, main, mailbox, loaded, player, errors, topic>>

\* Kafka takes a message.  Its callback runs, and its place in the queue is
\* free, only when the process polls: with a full queue, or in flush.
Delivered(w, m) ==
  /\ m \in unsent[w] \ topic
  /\ topic' = topic \cup {m}
  /\ UNCHANGED <<bundle, run, main, mailbox, proc, loaded, player, unsent, errors, mishaps>>

Polls(w, m) ==
  /\ proc[w] \in {"full", "flush"} /\ m \in unsent[w]
  /\ unsent' = [unsent EXCEPT ![w] = @ \ {m}]
  /\ UNCHANGED <<bundle, run, main, mailbox, proc, loaded, player, topic>>

Confirmed(w, m) == Polls(w, m) /\ m \in topic /\ UNCHANGED <<errors, mishaps>>

NotDelivered(w, m) ==
  Polls(w, m) /\ m \notin topic /\ Mishap /\ errors' = [errors EXCEPT ![w] = TRUE]

Broker(w) == \E m \in unsent[w] : Delivered(w, m) \/ Confirmed(w, m)

WorkerStep(w) ==
  \/ Load(w) \/ TakeSignal(w) \/ Dispatch(w) \/ NextRaises(w) \/ QueueFull(w)
  \/ Publish(w) \/ DeliveryErrorSeen(w) \/ StartFlush(w) \/ EndReplay(w) \/ Exit(w)

-----------------------------------------------------------------------------
\* The coordinator.
Awaits == IF main = "ready" THEN "ready" ELSE "result"
AfterAll == IF main = "ready" THEN "start" ELSE "join"

Coordinates(to) ==
  /\ main' = to
  /\ UNCHANGED <<bundle, mode, mainRoad, proc, loaded, player, kafka, mishaps>>

\* _next_message returned something.
Receive ==
  /\ main \in {"ready", "result"} /\ ~starved /\ status # <<>>
  /\ status' = Tail(status)
  /\ IF Head(status)[1] # Awaits THEN Coordinates("stop") /\ UNCHANGED got
     ELSE /\ Coordinates(IF got + 1 = Cardinality(Workers) THEN AfterAll ELSE main)
          /\ got' = IF got + 1 = Cardinality(Workers) THEN 0 ELSE got + 1
  /\ UNCHANGED <<anchor, starved, signals>>

\* It waited a second for nothing, ...
Starve ==
  /\ main \in {"ready", "result"} /\ ~starved /\ status = <<>>
  /\ starved' = TRUE
  /\ Coordinates(main) /\ UNCHANGED <<anchor, got, status, signals>>

\* Mutated form of GivesUp: a second without a message is only a second.
MutantGivesUp == FALSE

\* ... and looks at the processes: one that failed, or none left, ends the run.
GivesUp ==
  \/ \E w \in Workers : proc[w] \in {"failed", "killed"}
  \/ \A w \in Workers : proc[w] \in Ended

LookAtWorkers ==
  /\ main \in {"ready", "result"} /\ starved /\ starved' = FALSE
  /\ Coordinates(IF GivesUp THEN "stop" ELSE main)
  /\ UNCHANGED <<anchor, got, status, signals>>

\* One anchor for all, and one signal for each.
Signal(wall) ==
  /\ main = "start"
  /\ IF AnchorDays(source, wall.weekday) = {}
     THEN Coordinates("stop") /\ UNCHANGED <<anchor, signals>>
     ELSE /\ Coordinates("result") /\ anchor' = SourceAnchor(source, wall)
          /\ signals' = Cardinality(Workers)
  /\ UNCHANGED <<got, starved, status>>

\* The except and finally branches: whoever lives is terminated.
Stop ==
  /\ main = "stop" /\ main' = "failed"
  /\ proc' = [w \in Workers |-> IF proc[w] \in Alive THEN "killed" ELSE proc[w]]
  /\ unsent' = [w \in Workers |-> {}]
  /\ UNCHANGED <<bundle, run, mailbox, loaded, player, errors, topic, mishaps>>

AllExited == \A w \in Workers : proc[w] = "exited"

\* Every process is joined, and its exit code looked at.
Join ==
  /\ main = "join" /\ \A w \in Workers : proc[w] \in Ended
  /\ Coordinates(IF AllExited THEN "done" ELSE "failed")
  /\ UNCHANGED <<anchor, mailbox>>

\* After 10 seconds a process has no exit code yet.
JoinTimesOut ==
  /\ Mishap /\ main = "join" /\ \E w \in Workers : proc[w] \notin Ended
  /\ main' = "failed"
  /\ UNCHANGED <<bundle, run, mailbox, proc, loaded, player, kafka>>

Coordinate ==
  Receive \/ Starve \/ LookAtWorkers \/ (\E wall \in Walls : Signal(wall)) \/ Stop \/ Join

Start == (\E wall \in Walls : StartSolo(wall)) \/ StartParallel \/ StartCutShort

Next ==
  \/ RefreshRoads \/ Prepare \/ Start \/ Coordinate \/ JoinTimesOut
  \/ \E w \in Workers :
       \/ WorkerStep(w) \/ Raises(w) \/ Killed(w) \/ Broker(w)
       \/ \E m \in unsent[w] : NotDelivered(w, m)

\* The processes and the coordinator run, and Kafka answers.  Nobody has to
\* prepare, to start, or to refresh anything.
Spec ==
  /\ Init /\ [][Next]_vars
  /\ WF_vars(Coordinate)
  /\ \A w \in Workers : WF_vars(WorkerStep(w)) /\ WF_vars(Broker(w))

-----------------------------------------------------------------------------
Roads == {0} \cup DOMAIN Networks
Files == [trips : Written, routes : Written, tripsTmp : Written, routesTmp : Written,
          manifest : Written, road : Roads]
Letters == {"ready", "result", "error"} \X Workers

InputTyped ==
  /\ source \in Sources /\ mode \in Modes /\ road \in DOMAIN Networks
  /\ disk \in Files /\ mainRoad \in Roads
  /\ prep \in [at : {"idle", "trips", "routes", "move_trips", "move_routes", "manifest"},
              road : Roads]

RunTyped ==
  /\ main \in {"idle", "solo", "ready", "start", "result", "join", "stop", "done", "failed",
             "stranded"}
  /\ got \in 0..(Cardinality(Workers) - 1) /\ starved \in BOOLEAN
  /\ status \in Seq(Letters) /\ signals \in 0..Cardinality(Workers)
  /\ proc \in [Workers -> {"none"} \cup Alive \cup Ended]
  /\ loaded \in [Workers -> Roads] /\ errors \in [Workers -> BOOLEAN]
  /\ mishaps \in 0..MaxMishaps

QueuesBounded ==
  /\ DOMAIN unsent = Workers
  /\ \A w \in Workers : IsFiniteSet(unsent[w]) /\ Cardinality(unsent[w]) <= QueueLimit

TypeOK == InputTyped /\ RunTyped /\ QueuesBounded

\* A manifest that can be read stands beside the whole bundle: prepare-replay
\* writes it last, and a crash before leaves none.
ManifestMeansWhole ==
  disk.manifest = "whole" => disk.trips = "whole" /\ disk.routes = "whole"

\* Every route of a template can be walked on the network it was planned on.
RoutesWalkable ==
  \A s \in Sources : \A r \in DOMAIN Networks : \A od \in Pairs(s) :
    LET plan == PreparedRoutes[s][r][od]
    IN plan.skip = "" => Replannable(Networks[r], plan.path)

\* Whatever was published in between, a process that replays a bundle has loaded
\* roads of the snapshot date of its manifest, and it dispatches and plays only
\* trips whose stored route these roads carry.  Two builds may share a date and
\* have different roads, and then a route may raise in the middle of a replay;
\* with the very build the bundle was planned on, none does.
RoutesFitTheRoads ==
  \A w \in Workers :
    mode # "parquet" /\ proc[w] \in {"play", "full", "flush", "sent", "exited"} =>
      /\ SameDate(disk.road, loaded[w])
      /\ \A t \in Trips(source) :
           loaded[w] = disk.road \/ (\E i \in due[w] : i.trip = t) => Brings(t, loaded[w])

\* The trips a process has played when it has ended without an error.
Share(w) == IF proc[w] = "exited" THEN Playlist(w, anchor) ELSE <<>>

\* The samples Kafka should have after a replay from the anchor: those of the
\* trips that can be planned on the roads of the process that plays them.
Expected ==
  UNION {{[trip |-> p.trip, shift |-> p.shift, sample |-> k] :
            k \in 1..SampleCount(source[p.trip])} :
         p \in {q \in Range(ParquetTrips[source][anchor]) :
                  \E w \in Workers : q \in Range(Share(w)) /\ Plannable(q.trip, loaded[w])}}

\* A run that ends with a summary has brought every sample of every sampled
\* trip to Kafka once, whatever the workers' shards, the delivery reports and
\* the order of the status messages; every trip was played by one process,
\* which planned or skipped it.
SuccessIsComplete ==
  main = "done" =>
    /\ {[trip |-> m.trip, shift |-> m.shift, sample |-> m.sample] : m \in topic} = Expected
    /\ Cardinality(topic) = Cardinality(Expected)
    /\ \A p \in Range(ParquetTrips[source][anchor]) :
         \E w \in Workers : \A v \in Workers : p \in Range(Share(v)) <=> v = w
    /\ \A w \in Workers : tally[w].planned + tally[w].skipped = Len(Share(w))

\* Every playlist is in the order of its requests, none before the anchor.
PlaylistsInOrder ==
  \A s \in Sources : \A at \in Anchors(s) :
    /\ at \in Nat
    /\ \A list \in {ParquetTrips[s][at], PreparedTrips[s][at]}
                     \cup {OfWorker(PreparedTrips[s][at], w) : w \in Workers} :
         /\ list \in Seq([trip : Trips(s), shift : Nat])
         /\ \A j, k \in DOMAIN list : j <= k =>
              at <= s[list[j].trip].request + list[j].shift
                 /\ s[list[j].trip].request + list[j].shift
                      <= s[list[k].trip].request + list[k].shift

\* The bundle and the source give the same trips; the shards share them out.
PlaylistsShared ==
  \A s \in Sources : \A at \in Anchors(s) :
    /\ Range(PreparedTrips[s][at]) = Range(ParquetTrips[s][at])
    /\ \A w \in Workers :
         Range(OfWorker(PreparedTrips[s][at], w)) \subseteq Range(PreparedTrips[s][at])
    /\ \A p \in Range(PreparedTrips[s][at]) : \E w \in Workers :
         \A v \in Workers : p \in Range(OfWorker(PreparedTrips[s][at], v)) <=> v = w

\* The two readers give the same trips of a file in the same order.
ReadersAgree ==
  \A file \in Months : \A at \in Starts : PreparedOrder(file, at) = ParquetOrder(file, at)

\* The events of an hour, each with the probability of its trip, as fractions
\* of a common denominator.
ExpectedWithin(file, h) ==
  LET ratio == [t \in DOMAIN file |->
                  IF Spans(file, t, h) THEN Probability(file, t) ELSE <<0, 1>>]
      common == Product([t \in DOMAIN file |-> ratio[t][2]], Len(file))
      expected == [t \in DOMAIN file |->
                     Events(file, h)[t] * ratio[t][1] * (common \div ratio[t][2])]
  IN Total(expected, Len(file)) <= HourlyTarget * common

TargetKept == \A file \in Months : \A h \in CoveredHours(file) : ExpectedWithin(file, h)

\* A run plays the same whichever reader it uses: the one of the bundle, by row
\* groups, and the one of the source, by a query, give the same trips of a file
\* in the same order at every anchor; and the sample does not exceed the hourly
\* target, in expectation, in any hour of a file, though a trip drawn once
\* publishes in every hour it spans (nyc_data.py, sampling.py).
SampledAsPlanned == main # "idle" => ReadersAgree /\ TargetKept

\* A process never goes back in time: a dispatch or a sample is handled only
\* after everything of its shard that is due before, across the wrap too.
ReplayedInOrder ==
  [][\A w \in Workers : clock'[w] >= clock[w]]_vars

\* A run that was started ends: in success, or with the error of a worker that
\* raised, was killed or exited without an answer.  The exception is a start that
\* was cut short: the error is raised, but the workers already started wait for a
\* signal that never comes, and Python does not exit before they do.
RunEnds == main # "idle" ~> main \in {"done", "failed", "stranded"}
=============================================================================
