---------------------------- MODULE ScoreService ----------------------------
(***************************************************************************)
(* The score tables with the collection that feeds them and the requests   *)
(* that are answered from them: what holds of each collection and request. *)
(***************************************************************************)
EXTENDS ScoreTables, WeatherCollection, ServingApi

(***************************************************************************)
(* What a navigation asks and is answered (serving-api routes.py:323-370,  *)
(* repository.py:123-159, route_comfort.py:41-75).  A segment that had a   *)
(* row when the request came is not missed, though the two queries see     *)
(* different tables; the endpoints agree; the first route is one of the    *)
(* best and equal routes keep their order; and a route gains neither by a  *)
(* worse segment nor by a rougher mix of the same average.                 *)
(***************************************************************************)
RoutesComparedFairly == wTask = "idle" \/ (RequestsAnswered /\ RoughnessNeverPays)

(***************************************************************************)
(* A zone gets the weather of its own region or none.  The regions divide  *)
(* the zones, and each is one piece of the map, with whole islands that    *)
(* touch no other zone (build_weather_region.py:80-141).  Whatever the     *)
(* batches are answered with, the row of a zone shows what was observed at *)
(* the coordinates of its region (weather.py:331-364), and it failed only  *)
(* if its own batch did, or came after a 429, or its own series lacks the  *)
(* time.                                                                   *)
(***************************************************************************)
ZonesGetTheirWeather == wTask = "idle" \/ (RegionsAreContiguous /\ RowsOfEveryAnswer)

(***************************************************************************)
(* Weather only takes points away, and for what was observed: a value that *)
(* is missing never adds a condition (weather_rules.py:140-145); every     *)
(* reading has a signature that the validation accepts and that gives back *)
(* its conditions (weather_rules.py:172-196, weather_validation.py:46-58); *)
(* the state shown agrees with the conditions, but at a visibility of      *)
(* exactly 1000 m, where only one of the two thresholds counts; more       *)
(* conditions never raise a score, none leaves it as it is, and of several *)
(* the worst counts (weather_rules.py:199-256).                            *)
(***************************************************************************)
WeatherOnlyLowers == wTask = "idle" \/ (RulesReadWhatIsThere /\ RulesOnlyLower)
=============================================================================
