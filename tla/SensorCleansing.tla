--------------------------- MODULE SensorCleansing ---------------------------
(***************************************************************************)
(* Stage T1 of the hourly sensor job (batch_jobs/cleansing): which Bronze  *)
(* rows belong to an hour, which of them are rejected and why, and which   *)
(* copy of a repeated event survives.  Operators only.                     *)
(*                                                                         *)
(* A Bronze row is a record with the fields                                *)
(*   offset      what tells two copies of one event apart                  *)
(*   parsed      FALSE when its value is not JSON                          *)
(*   source      the Kafka timestamp                                       *)
(*   time        event_time, or NULL, or Unreadable: a text that is there  *)
(*               and is not a timestamp                                    *)
(*   event, trip, seq, ingested, profile, place, speed, heading, accel,    *)
(*   angle, rough   the columns of the JSON value, any of them NULL;       *)
(*               place stands for latitude and longitude, rough for        *)
(*               accel_z, accel for accel_x, angle for steering_angle.     *)
(***************************************************************************)
EXTENDS Integers, FiniteSets, FiniteSetsExt, SequencesExt

CONSTANTS
  NULL,
  Unreadable,
  HourLength,     \* units of time in an hour
  Required,       \* required_columns
  Ranges,         \* value_ranges: column -> [least, most, open]
  TimeBounds,     \* event_time_bounds
  Places          \* what stands for latitude and longitude

ASSUME CleansingAssumption ==
  /\ HourLength \in Nat \ {0}
  /\ {"event", "trip", "seq", "time", "profile", "place", "speed", "ingested"} \subseteq Required
  /\ Unreadable # NULL /\ NULL \notin Int /\ NULL \notin Places
  /\ {TimeBounds.least, TimeBounds.most} \subseteq Int
  /\ DOMAIN Ranges \subseteq {"event", "trip", "seq", "ingested", "profile", "speed",
                               "heading", "accel", "angle", "rough"}
  /\ \A c \in DOMAIN Ranges : {Ranges[c].least, Ranges[c].most} \subseteq Int

Column == Int \cup {NULL}

BronzeRow ==
  [offset : Nat, parsed : BOOLEAN, source : Int, time : Column \cup {Unreadable},
   place : Places \cup {NULL}, event : Column, trip : Column, seq : Column,
   ingested : Column, profile : Column, speed : Column, heading : Column,
   accel : Column, angle : Column, rough : Column]

Readable(time) == time \notin {NULL, Unreadable}

\* filter_bronze_sensor_events_for_window: the event time, else the Kafka time.
\* The stream writes a row to the directory of that hour.
AssignedTime(row) == IF Readable(row.time) THEN row.time ELSE row.source

HourOf(time) == time \div HourLength

BronzeHour(bronze, h) == {row \in bronze : HourOf(AssignedTime(row)) = h}

\* _null_required_columns.
MissingColumns(row) == {c \in Required : row[c] = NULL}

\* _violates_range: NULL violates nothing.
ViolatesRange(row, c) ==
  /\ row[c] # NULL
  /\ \/ row[c] < Ranges[c].least
     \/ row[c] > Ranges[c].most
     \/ Ranges[c].open /\ row[c] = Ranges[c].most

ViolatesTimeBounds(row) ==
  Readable(row.time) /\ row.time \notin TimeBounds.least..TimeBounds.most

OutOfRange(row) ==
  ViolatesTimeBounds(row) \/ \E c \in DOMAIN Ranges : ViolatesRange(row, c)

\* The rows that reach the search for duplicates.
Sound(rows) ==
  {row \in rows : row.parsed /\ MissingColumns(row) = {} /\ ~OutOfRange(row)}

\* Mutated form of IsSurvivor: the first copy is kept.
MutantIsSurvivor(row, rows) ==
  \A other \in rows : other.event = row.event => row.ingested <= other.ingested

\* split_duplicate_events: row_number over the copies of an event, the latest
\* ingested first; which of two copies ingested together is left open.
IsSurvivor(row, rows) ==
  \A other \in rows : other.event = row.event => other.ingested <= row.ingested

Survivors(sound) ==
  LET Copies(e) == {row \in sound : row.event = e /\ IsSurvivor(row, sound)}
  IN {Range(f) : f \in {g \in [{row.event : row \in sound} -> sound] :
                          \A e \in DOMAIN g : g[e] \in Copies(e)}}

\* reject_reason of a row that does not survive, by the order of the stages.
RejectReason(row) ==
  CASE ~row.parsed -> "MALFORMED_JSON"
    [] row.parsed /\ MissingColumns(row) # {} -> "MISSING_REQUIRED_FIELD"
    [] row.parsed /\ MissingColumns(row) = {} /\ OutOfRange(row) -> "OUT_OF_RANGE"
    [] OTHER -> "DUPLICATE_EVENT"

\* A row of sensor_event_quarantine.
Quarantined(row, reason) == [offset |-> row.offset, reason |-> reason]

Rejects(rows, kept) == {Quarantined(row, RejectReason(row)) : row \in rows \ kept}

\* The rows whose event_time the typed columns cannot hold: to_timestamp of a
\* kept row and to_date of a rejected one fail on them in Spark's ANSI mode,
\* and give NULL otherwise.
Unconvertible(rows) == {row \in rows : row.parsed /\ row.time = Unreadable}
=============================================================================
