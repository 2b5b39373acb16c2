------------------------- MODULE MCPartitionReplace -------------------------
(***************************************************************************)
(* PartitionReplace for TLC.                                               *)
(***************************************************************************)
EXTENDS PartitionReplace

AllWriters == {"features", "comfort", "quarantine"}
=============================================================================
