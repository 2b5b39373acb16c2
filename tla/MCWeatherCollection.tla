------------------------- MODULE MCWeatherCollection -------------------------
(***************************************************************************)
(* The score tables for TLC, with the collection that feeds them: a map of *)
(* a mainland of four zones, an island of one, an island of two and zones  *)
(* that are not on it, in three regions asked for in two batches.  And     *)
(* with the requests that are answered from the tables: three segments and *)
(* two profiles, of which one is not active, with rows that come meanwhile.*)
(***************************************************************************)
EXTENDS MCScoreTables, ScoreService

Polygon == [drawn |-> TRUE, placed |-> TRUE]
MCMaster ==
  (264 :> Polygon) @@ (8 :> [Polygon EXCEPT !.drawn = FALSE])
  @@ (9 :> [Polygon EXCEPT !.placed = FALSE]) @@ [z \in 1..7 |-> Polygon]
MCArea ==
  LET area == <<5, 1, 4, 8, 2, 2, 9>>
  IN [zones \in SUBSET (1..7) |-> FoldFunctionOnSet(+, 0, area, zones)]
MCTouching == {<<1, 2>>, <<2, 3>>, <<4, 3>>, <<6, 7>>}
MCFar ==
  LET place == <<0, 10, 20, 30, 45, 100, 110>>
  IN [p \in (1..7) \X (1..7) |->
        IF p \in MCTouching \/ <<p[2], p[1]>> \in MCTouching THEN 0
        ELSE IF place[p[1]] < place[p[2]] THEN place[p[2]] - place[p[1]]
        ELSE place[p[1]] - place[p[2]]]
MCMasterTables ==
  {[r \in 1..3 |-> [id |-> r, placed |-> TRUE]],
   <<[id |-> 2, placed |-> TRUE], [id |-> 4, placed |-> FALSE],
     [id |-> 3, placed |-> TRUE], [id |-> 1, placed |-> TRUE]>>,
   <<[id |-> 1, placed |-> TRUE], [id |-> 2, placed |-> FALSE]>>}

Calm == [rain |-> 0, snow |-> 0, precipitation |-> 0, temperature |-> 150,
         gust |-> 3, visibility |-> 9000, code |-> 3]
MCSky == <<Calm, [Calm EXCEPT !.rain = 4], [Calm EXCEPT !.code = 45]>>
MCReadings ==
  [rain : {NULL, -1, 1, 2}, snow : {NULL, 0, 1}, precipitation : {NULL, 0, 1},
   temperature : {NULL, 5, 6}, gust : {NULL, 14, 15}, visibility : {NULL, 1000, 1001},
   code : {NULL, 3, 45, 56, 61, 71}]
MCStandard == [vertical : {0, 3, 100}, longitudinal : {0, 12, 100}, lateral : {0, 5, 100}]

MCActive == {1}
MCRequests ==
  LET Route(id, segments) == [id |-> id, segments |-> segments]
  IN [profile : {0, 1, 2},
      routes : {<<Route(8, <<1, 2>>), Route(7, <<2, 3, 2>>), Route(9, <<1, 2>>)>>,
                <<Route(7, <<3>>), Route(8, <<2, 1, 3>>)>>,
                <<Route(8, <<1>>), Route(8, <<2>>)>>, <<Route(9, << >>)>>}]
MCHistories ==
  LET Table(rows, points) == [row \in rows |-> (points * row[1] + row[2]) % 100]
      Keys == (1..3) \X {0, 1}
  IN UNION {{[current |-> Table(corrected, p), standard |-> Table(before, 40), later |-> Table(after, 45)] :
               p \in {0, 30}, after \in {a \in SUBSET Keys : before \subseteq a /\ <<2, 1>> \in a},
               corrected \in SUBSET before} :
               before \in {b \in SUBSET Keys : <<1, 0>> \in b}}
MCDrives == UNION {[1..n -> {20, 21, 50, 70}] : n \in 1..5}
=============================================================================
