---------------------------- MODULE RestartLimit ----------------------------
(***************************************************************************)
(* What the ops-agent promises about the containers it restarts, without   *)
(* saying how: for one alert, an attempt is followed by at most one        *)
(* restart, and the next attempt comes only after the cooldown, whatever   *)
(* is redelivered, raises or dies in between.                              *)
(* IncidentResponse is shown to implement this module.                     *)
(***************************************************************************)
EXTENDS Naturals

CONSTANTS
  Alerts,     \* the fingerprints
  Cooldown    \* ticks between two attempts

VARIABLES
  attempted,  \* alerts with at least one attempt
  age,        \* ticks since the last attempt, Cooldown when that is long ago
  restarts    \* restarts commanded since the last attempt

vars == <<attempted, age, restarts>>

Init ==
  /\ attempted = {}
  /\ age = [f \in Alerts |-> Cooldown]
  /\ restarts = [f \in Alerts |-> 0]

Time ==
  /\ age' = [f \in Alerts |-> IF age[f] < Cooldown THEN age[f] + 1 ELSE Cooldown]
  /\ UNCHANGED <<attempted, restarts>>

Attempt(f) ==
  /\ age[f] = Cooldown
  /\ attempted' = attempted \cup {f}
  /\ age' = [age EXCEPT ![f] = 0]
  /\ restarts' = [restarts EXCEPT ![f] = 0]

Restart(f) ==
  /\ f \in attempted
  /\ restarts[f] = 0
  /\ restarts' = [restarts EXCEPT ![f] = 1]
  /\ UNCHANGED <<attempted, age>>

Next == Time \/ \E f \in Alerts : Attempt(f) \/ Restart(f)

Spec == Init /\ [][Next]_vars
=============================================================================
