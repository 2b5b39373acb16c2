--------------------------- MODULE HourPartition ---------------------------
(***************************************************************************)
(* What the three hour-partition writers of batch_jobs promise about one   *)
(* hour, without saying how: the hour durably holds one whole result (or   *)
(* none), and a reader that lists the partition sees either that whole     *)
(* result or nothing at all while it is being replaced.                    *)
(* PartitionReplace is shown to implement this module.                     *)
(***************************************************************************)
CONSTANTS
  Contents,   \* the whole results an hour can hold
  Absent      \* what a path without any object contains

VARIABLES
  hour,       \* the result a retry can still bring back, or Absent
  visible,    \* what a reader listing the partition gets
  mayVanish   \* whether an empty result is one this hour may be replaced by

vars == <<hour, visible, mayVanish>>

TypeOK ==
  /\ hour \in Contents \cup {Absent}
  /\ visible \in {hour, Absent}
  /\ mayVanish \in BOOLEAN

Init ==
  /\ hour \in Contents \cup {Absent}
  /\ visible = hour
  /\ mayVanish \in BOOLEAN

\* The old result is moved aside; it is not lost.
Withdraw ==
  /\ visible = hour
  /\ visible' = Absent
  /\ UNCHANGED <<hour, mayVanish>>

\* A failed replacement, or the recovery of a dead one, shows it again.
Restore ==
  /\ visible = Absent
  /\ visible' = hour
  /\ UNCHANGED <<hour, mayVanish>>

\* A new whole result takes the place of the old one, in one step.
Publish(c) ==
  /\ visible = Absent
  /\ hour' = c
  /\ visible' = c
  /\ UNCHANGED mayVanish

\* An empty result replaces the old one by nothing, where that is allowed: an
\* hour that may not vanish is never lost.
Remove ==
  /\ mayVanish
  /\ visible = Absent
  /\ hour' = Absent
  /\ UNCHANGED <<visible, mayVanish>>

Next ==
  \/ Withdraw
  \/ Restore
  \/ \E c \in Contents : Publish(c)
  \/ Remove

Spec == Init /\ [][Next]_vars
=============================================================================
