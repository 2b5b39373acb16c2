--------------------------- MODULE MCFailureAlerts ---------------------------
(***************************************************************************)
(* A scoring task with short logs and a task without one, and a window of  *)
(* three lines: deaths of driver and executors with their consequences, a  *)
(* flood of them, an executor removed in the normal way.                   *)
(***************************************************************************)
EXTENDS FailureAlerts

MCRetries == [t \in Tasks |-> IF t = "score" THEN 2 ELSE 1]

MCLog(cause, lines) == [cause |-> cause, lines |-> lines]
MCLogs == [t \in Tasks |-> {MCLog("exception", NULL)} \cup IF t # "score" THEN {} ELSE
  {MCLog("disk", <<"disk", "executorLost", "capacity">>),
   MCLog("driver", <<"info", "noise", "oom", "main">>),
   MCLog("executor", <<"exit137", "executorLost", "main">>),
   MCLog("executor", <<"executorLost", "capacity", "capacity", "capacity", "error">>),
   MCLog("capacity", <<"info", "capacity", "info", "info", "error">>),
   MCLog("unknown", <<"noise", "removing", "error">>)}]
=============================================================================
