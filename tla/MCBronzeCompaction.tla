------------------------ MODULE MCBronzeCompaction ------------------------
(* BronzeCompaction for TLC: one hour in depth, or a backlog of hours.     *)
EXTENDS BronzeCompaction
OneHour == {1}
Backlogged == 1..2
LastHour == {2}
NoHour == {}
=============================================================================
