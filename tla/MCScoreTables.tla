--------------------------- MODULE MCScoreTables ---------------------------
(* ScoreTables for TLC: a zone with two rows, which can disagree, alone or *)
(* beside a zone with a single row.                                        *)
EXTENDS ScoreTables, TLC
CONSTANTS r1, r2, r3, z1, z2
OneZone == [r \in {r1, r2} |-> z1]
TwoZones == (r3 :> z2) @@ OneZone
Interchangeable == Permutations(Attempts)
=============================================================================
