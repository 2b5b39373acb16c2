-------------------------- MODULE WeatherCollection --------------------------
(***************************************************************************)
(* One collection of the weather (orchestration jobs/weather.py): the      *)
(* regions are asked for in batches, and what comes back becomes one row   *)
(* for each zone.                                                          *)
(*                                                                         *)
(* An answer is Limited (429), Unusable (after the retries of the session) *)
(* or the sequence of its locations, which are told apart by position      *)
(* alone: the reading at the target time, NULL when the series lacks that  *)
(* time, Broken when there is no series.                                   *)
(***************************************************************************)
EXTENDS WeatherRegions, WeatherRules, SequencesExt

CONSTANTS
  Limited, Unusable, Broken,
  BatchSize,     \* REGION_BATCH_SIZE
  MasterTables,  \* contents of weather_region_master: sequences of [id, placed]
  Sky,           \* region id -> what Open-Meteo observes at its coordinates
  Readings,      \* readings the rules are looked at with
  Standard       \* directional scores they are looked at with

\* Any field of a reading may be missing; a region has one row in the master.
ASSUME CollectionAssumption ==
  /\ BatchSize \in Nat \ {0}
  /\ \A master \in MasterTables :
       /\ master \in Seq([id : Int, placed : BOOLEAN])
       /\ \A i, j \in DOMAIN master : master[i].id = master[j].id => i = j
ASSUME ReadingsAssumption ==
  LET Value == Int \cup {NULL}
  IN /\ NULL \notin Int
     /\ Readings \subseteq [rain : Value, snow : Value, precipitation : Value, code : Value,
                            temperature : Value, gust : Value, visibility : Value]
     /\ Standard \subseteq [vertical : 0..100, longitudinal : 0..100, lateral : 0..100]

zone_regions == build_zone_region_map(merge_regions)

\* load_weather_regions leaves out a region without coordinates.
load_weather_regions(master) ==
  LET placed == Kept(master, {i \in DOMAIN master : master[i].placed})
  IN [i \in DOMAIN placed |-> placed[i].id]

\* The job stops before it asks for anything.
unknown_region_ids(master) == Range(zone_regions) \ Range(load_weather_regions(master))

Batches(regions) ==
  LET count == (Len(regions) + BatchSize - 1) \div BatchSize
  IN [b \in 1..count |-> SubSeq(regions, (b - 1) * BatchSize + 1,
                                Min({b * BatchSize, Len(regions)}))]

\* Mutated form of Matches: whatever is there is matched by position.
MutantMatches(answer, batch) == answer \notin {Limited, Unusable}

\* The locations can be matched to the regions of the request.
Matches(answer, batch) == answer \notin {Limited, Unusable} /\ Len(answer) = Len(batch)

\* The batches sent: after a 429 no other.
Requested(batches, answer) ==
  {b \in DOMAIN batches : \A c \in 1..(b - 1) : answer[c] # Limited}

Usable(batches, answer) ==
  {b \in Requested(batches, answer) : Matches(answer[b], batches[b])}

\* A location without its series raises outside the try of its batch.
Raises(batches, answer) ==
  \E b \in Usable(batches, answer) : Broken \in Range(answer[b])

\* The readings that came: <<batch, place in it>>.
Found(batches, answer) ==
  {p \in (DOMAIN batches) \X (1..BatchSize) :
     /\ p[1] \in Usable(batches, answer)
     /\ p[2] \in DOMAIN batches[p[1]] \cap DOMAIN answer[p[1]]
     /\ answer[p[1]][p[2]] # NULL}

\* region id -> its reading, of the regions that have one.
fetch_open_meteo(batches, answer) ==
  LET At(r) == CHOOSE p \in Found(batches, answer) : batches[p[1]][p[2]] = r
  IN [r \in {batches[p[1]][p[2]] : p \in Found(batches, answer)} |->
        answer[At(r)[1]][At(r)[2]]]

\* One row for each zone, failed when its region has no reading.
snapshot_rows(readings) ==
  [z \in DOMAIN zone_regions |->
     IF zone_regions[z] \notin DOMAIN readings
     THEN [status |-> "failed", reading |-> NULL, state |-> NULL, signature |-> NULL]
     ELSE LET reading == readings[zone_regions[z]]
          IN [status |-> "success", reading |-> reading,
              state |-> classify_weather_state(reading),
              signature |-> format_impact_signature(classify_weather(reading))]]

-----------------------------------------------------------------------------
\* Zones that hang together, and zones that touch no other.
Connected(zones) ==
  \A some \in (SUBSET zones) \ {{}, zones} : \E z \in some, y \in zones \ some : Touch(z, y)
Islands(zones) == \A z \in zones, y \in SpatialZones \ zones : ~Touch(z, y)

\* The merged regions are valid, and each is one piece with whole islands.
RegionsAreContiguous ==
  /\ Valid(merge_regions)
  /\ \A region \in Range(merge_regions) : \E piece \in SUBSET region :
       Connected(piece) /\ Islands(region \ piece)

\* The answers of the server to a batch: all of it, all but one, or less.
AnswersTo(batch) ==
  LET full == [i \in DOMAIN batch |-> Sky[batch[i]]]
  IN {full, Limited, Unusable}
       \cup {[full EXCEPT ![i] = lost] : i \in DOMAIN batch, lost \in {NULL, Broken}}
       \cup {RemoveAt(full, i) : i \in DOMAIN batch}

RowsTellTheSky(master) ==
  LET batches == Batches(load_weather_regions(master))
      answers == {a \in [DOMAIN batches -> UNION {AnswersTo(batches[b]) : b \in DOMAIN batches}] :
                    \A b \in DOMAIN batches : a[b] \in AnswersTo(batches[b])}
  IN \A a \in answers : ~Raises(batches, a) =>
       LET rows == snapshot_rows(fetch_open_meteo(batches, a))
       IN \A b \in DOMAIN batches : \A i \in DOMAIN batches[b] :
            \A z \in DOMAIN zone_regions : zone_regions[z] = batches[b][i] =>
              IF rows[z].status = "success"
              THEN rows[z].reading = Sky[batches[b][i]]
              ELSE \/ a[b] \in {Limited, Unusable}
                   \/ Len(a[b]) < Len(batches[b])
                   \/ a[b][i] = NULL
                   \/ \E c \in 1..(b - 1) : a[c] = Limited

RowsOfEveryAnswer ==
  \A master \in MasterTables : unknown_region_ids(master) = {} => RowsTellTheSky(master)

RulesReadWhatIsThere ==
  \A reading \in Readings :
    LET conditions == classify_weather(reading)
        signature == format_impact_signature(conditions)
        state == classify_weather_state(reading)
    IN /\ Parsable(signature) /\ AcceptedSignature(signature)
       /\ parse_impact_signature(signature) = conditions
       /\ \A field \in DOMAIN reading :
            classify_weather([reading EXCEPT ![field] = NULL]) \subseteq conditions
       /\ "snow" \in conditions => state = "snow"
       /\ {"rain", "ice"} \cap conditions # {} => state \in {"snow", "rain"}
       /\ "low_visibility" \in conditions /\ reading.visibility # 1000
            => state \in {"snow", "rain", "fog"}
       /\ "wind" \in conditions => state # "dry"

RulesOnlyLower ==
  LET Directions == {"vertical", "longitudinal", "lateral"}
      All == SUBSET Range(Conditions)
      adjusted == [s \in Standard |-> [c \in All |-> adjust_comfort_scores(s, c)]]
  IN \A s \in Standard :
       /\ \A d \in Directions : adjusted[s][{}][d] = s[d]
       /\ adjusted[s][{}].comfort = 5 * s.vertical + 3 * s.longitudinal + 2 * s.lateral
       /\ \A c, more \in All : c \subseteq more =>
            /\ adjusted[s][more].comfort \in 0..adjusted[s][c].comfort
            /\ \A d \in Directions : adjusted[s][more][d] \in 0..adjusted[s][c][d]
       /\ \A c \in All \ {{}}, d \in Directions :
            adjusted[s][c][d] = Min({adjusted[s][{one}][d] : one \in c})
=============================================================================
