------------------------- MODULE MCIncidentResponse -------------------------
(* IncidentResponse for TLC: two alerts about one container.               *)
EXTENDS IncidentResponse
CONSTANTS down, replica, container
BothAlerts == {down, replica}
OneContainer == {container}
TheContainer == [f \in BothAlerts |-> container]
=============================================================================
