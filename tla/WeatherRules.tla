----------------------------- MODULE WeatherRules -----------------------------
(***************************************************************************)
(* What the weather of a zone does to its comfort scores                   *)
(* (orchestration jobs/weather_rules.py and resources/weather_rules.yaml,  *)
(* jobs/weather.py classify_weather_state).                                *)
(*                                                                         *)
(* A reading holds rain and precipitation in tenths of a millimetre and    *)
(* snow in tenths of a centimetre over 15 minutes, the temperature in      *)
(* tenths of a degree, gusts in m/s, visibility in m and the WMO code.     *)
(* A signature is its version and its sequence of conditions.              *)
(***************************************************************************)
EXTENDS Lists, FiniteSetsExt, Functions

CONSTANTS NULL, WEATHER_RULE_VERSION

RainCodes == {51, 53, 55, 56, 57, 61, 63, 65, 66, 67, 80, 81, 82, 95, 96, 99}
SnowCodes == {71, 73, 75, 77, 85, 86}
FreezingCodes == {56, 57, 66, 67}
FogCodes == {45, 48}

\* weather_rules.yaml: thresholds, deductions in points and weights in tenths.
Config ==
  [rain_per_hour |-> 5, snow_per_hour |-> 2, freezing |-> 5, gust |-> 15, visibility |-> 1000,
   rain_longitudinal |-> 6, ice_longitudinal |-> 18, snow_vertical |-> 5,
   snow_longitudinal |-> 10, wind_lateral |-> 6, low_visibility_final |-> 4,
   vertical |-> 5, longitudinal |-> 3, lateral |-> 2]

\* Other weights are not loaded.
load_weather_rule_config == Config.vertical + Config.longitudinal + Config.lateral = 10
ASSUME ConfigLoads == load_weather_rule_config

\* The conditions in the order of their names.
Conditions == <<"ice", "low_visibility", "rain", "snow", "wind">>

Positive(value) == IF value = NULL \/ value < 0 THEN 0 ELSE value
PerHour(value) == 4 * Positive(value)

\* Mutated form of Freezing: a missing temperature counts as zero.
MutantFreezing(reading) == reading.temperature = NULL \/ reading.temperature <= Config.freezing

Freezing(reading) == reading.temperature # NULL /\ reading.temperature <= Config.freezing

classify_weather(reading) ==
  {c \in {"ice", "low_visibility", "rain", "snow", "wind"} :
     CASE c = "rain" -> PerHour(reading.rain) >= Config.rain_per_hour \/ reading.code \in RainCodes
       [] c = "snow" -> PerHour(reading.snow) >= Config.snow_per_hour \/ reading.code \in SnowCodes
       [] c = "ice" -> \/ reading.code \in FreezingCodes
                       \/ /\ Freezing(reading)
                          /\ PerHour(reading.rain) > 0 \/ PerHour(reading.precipitation) > 0
       [] c = "wind" -> Positive(reading.gust) >= Config.gust
       [] OTHER -> \/ reading.code \in FogCodes
                   \/ reading.visibility # NULL /\ reading.visibility <= Config.visibility}

\* The state shown to people has one value; its thresholds are its own.
classify_weather_state(reading) ==
  IF Positive(reading.snow) > 0 \/ reading.code \in SnowCodes THEN "snow"
  ELSE IF \/ Positive(reading.rain) > 0 \/ Positive(reading.precipitation) > 0
          \/ reading.code \in RainCodes THEN "rain"
  ELSE IF \/ reading.code \in FogCodes
          \/ reading.visibility # NULL /\ reading.visibility < 1000 THEN "fog"
  ELSE IF Positive(reading.gust) >= 15 THEN "high_wind"
  ELSE "dry"

Sorted(conditions) == Kept(Conditions, {i \in DOMAIN Conditions : Conditions[i] \in conditions})

format_impact_signature(conditions) ==
  [version |-> WEATHER_RULE_VERSION,
   body |-> IF conditions = {} THEN <<"clear">> ELSE Sorted(conditions)]

\* parse_impact_signature raises otherwise.
Parsable(signature) ==
  /\ signature.version = WEATHER_RULE_VERSION
  /\ \/ signature.body = <<"clear">>
     \/ /\ signature.body # << >>
        /\ Range(signature.body) \subseteq Range(Conditions)
parse_impact_signature(signature) ==
  IF signature.body = <<"clear">> THEN {} ELSE Range(signature.body)

\* _is_valid_impact_signature of the validation, for a version of any number.
AcceptedSignature(signature) ==
  \/ signature.body = <<"clear">>
  \/ /\ signature.body # << >>
     /\ Range(signature.body) \subseteq Range(Conditions)
     /\ signature.body = Sorted(Range(signature.body))

-----------------------------------------------------------------------------
(* Scores in points of 0 to 100; comfort in tenths, the weights being tenths. *)

\* Of several conditions the worst counts for a direction, not their sum.
weather_deduction(conditions) ==
  LET If(c, points) == IF c \in conditions THEN points ELSE 0
  IN [vertical |-> If("snow", Config.snow_vertical),
      longitudinal |-> Max({If("rain", Config.rain_longitudinal),
                            If("ice", Config.ice_longitudinal),
                            If("snow", Config.snow_longitudinal)}),
      lateral |-> If("wind", Config.wind_lateral),
      final |-> If("low_visibility", Config.low_visibility_final)]

Clamp(value, top) == IF value < 0 THEN 0 ELSE IF value > top THEN top ELSE value

adjust_comfort_scores(scores, conditions) ==
  LET lost == weather_deduction(conditions)
      v == Clamp(scores.vertical - lost.vertical, 100)
      l == Clamp(scores.longitudinal - lost.longitudinal, 100)
      a == Clamp(scores.lateral - lost.lateral, 100)
  IN [vertical |-> v, longitudinal |-> l, lateral |-> a,
      comfort |-> Clamp(Config.vertical * v + Config.longitudinal * l + Config.lateral * a
                          - 10 * lost.final, 1000)]
=============================================================================
