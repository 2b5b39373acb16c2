-------------------------- MODULE MCRoadEnvironment --------------------------
(***************************************************************************)
(* RoadEnvironment for TLC: two downloads of the datasets that differ in   *)
(* every rule of the enrichment, and builds for two months that share a    *)
(* snapshot date, rebuild a month or come late for an earlier one.         *)
(***************************************************************************)
EXTENDS RoadEnvironment, TLC
CONSTANTS s1, s1blank, blank, s2, s3, s4, s5, mainst, mainstdot, elmst, dashes,
          main, elm, first, second, broken

MCStrip == (s1 :> s1) @@ (s1blank :> s1) @@ (blank :> NULL) @@ (s2 :> s2)
           @@ (s3 :> s3) @@ (s4 :> s4) @@ (s5 :> s5) @@ (NULL :> NULL)
MCStreetKey == (mainst :> main) @@ (mainstdot :> main) @@ (elmst :> elm) @@ (dashes :> NoKey)

At(place) == [valid |-> TRUE, parts |-> 1, place |-> place,
              zones |-> IF place < 100 THEN {1} ELSE IF place < 150 THEN {1, 2} ELSE {}]
Split == [At(10) EXCEPT !.parts = 2]
Row(object, segment, street, shape) ==
  [object |-> object, segment |-> segment, feature |-> "0", status |-> "2", roadway |-> "1",
   direction |-> "T", from |-> 1, to |-> 2, street |-> street, length |-> 50, shape |-> shape]
Inspected(street, date, rating, place) ==
  [street |-> street, date |-> date, rating |-> rating, place |-> place, located |-> TRUE]
Humps(street, date, count, place) ==
  [street |-> street, date |-> date, count |-> count, place |-> place, located |-> TRUE]

\* s2 twice under two aliases, and once as a footpath; s3 of two parts;
\* s4 without length; an identifier of blanks.
FirstDownload ==
  [lion |-> <<Row(7, s2, mainst, At(40)), Row(3, s2, mainstdot, At(40)),
              [Row(1, s2, elmst, At(0)) EXCEPT !.roadway = "6"],
              Row(4, s1, mainst, At(0)), Row(5, s3, elmst, Split),
              [Row(6, s4, elmst, At(5)) EXCEPT !.length = 0],
              Row(8, blank, elmst, At(6)), Row(9, s5, elmst, At(120))>>,
   pavement |-> <<Inspected(mainst, 4, 7, 20), Inspected(mainstdot, 2, 3, 20),
                  Inspected(mainst, 33, 9, 1), Inspected(elmst, NULL, 0, 121),
                  [Inspected(elmst, 1, 5, 120) EXCEPT !.located = FALSE],
                  Inspected(mainst, NULL, 6, -19)>>,
   humps |-> <<Humps(mainst, 3, 2, 20), Humps(mainstdot, NULL, 1, 41),
               Humps(elmst, 34, 3, 121), Humps(elmst, 2, 2, 170),
               Humps(elmst, NULL, NULL, 119), Humps(dashes, NULL, 1, 119)>>,
   zones |-> {1, 2}]

\* s1 in two spellings; a street without letters.
SecondDownload ==
  [FirstDownload EXCEPT
     !.lion = <<Row(1, s1, mainst, At(0)), Row(2, s1blank, mainst, At(3)),
                Row(3, s3, elmst, At(120)), Row(4, s5, dashes, At(119)), Row(5, s2, mainst, At(99))>>,
     !.pavement = @ \o <<Inspected(elmst, 35, 8, 121)>>]

BrokenDownload == [FirstDownload EXCEPT !.lion[4].street = NULL]

Datasets == (first :> FirstDownload) @@ (second :> SecondDownload) @@ (broken :> BrokenDownload)

Build(reference, snapshot, build, source, activate) ==
  [reference |-> reference, snapshot |-> snapshot, build |-> build,
   source |-> source, activate |-> activate]
CommandLines ==
  {Build(5, 3, 1, first, TRUE), Build(36, 35, 2, second, TRUE), Build(36, 35, 3, first, FALSE),
   Build(4, 35, 4, first, TRUE), Build(36, 35, 2, first, TRUE), Build(40, 3, 5, broken, TRUE)}

=============================================================================
