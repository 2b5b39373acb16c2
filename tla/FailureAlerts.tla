---------------------------- MODULE FailureAlerts ----------------------------
(***************************************************************************)
(* The Slack alerts of the tasks of one DAG run (dags/notifications.py):   *)
(* first failure in the channel, later ones and the recovery in its        *)
(* thread, with the cause read from the driver log (jobs/failure_rules.py).*)
(* What a callback needs besides Slack may be missing: the owner registry  *)
(* (unreadable, or without the DAG), the log, the record and the thread    *)
(* file in the object store.                                               *)
(*                                                                         *)
(* A log is a sequence of kinds of lines; the texts, the evidence that is  *)
(* quoted and the masking are left out.                                    *)
(***************************************************************************)
EXTENDS Integers, FiniteSets, Sequences

CONSTANTS
  NULL,
  Tasks,
  Retries,      \* task -> retries of its DAG (default_args)
  Logs,         \* task -> [cause, lines]: why its tries fail and their log, or no log
  WindowBefore, WindowAfter, MaxWindow,  \* _WINDOW_BEFORE, _WINDOW_AFTER, _MAX_WINDOW_LINES
  MaxClears,    \* bound: failed tasks an operator clears
  MaxFaults     \* bound: callbacks in which something fails

ASSUME AlertsAssumption ==
  /\ Retries \in [Tasks -> Nat \ {0}]
  /\ {WindowBefore, WindowAfter, MaxClears, MaxFaults} \subseteq Nat
  /\ MaxWindow \in Nat \ {0}
  /\ NULL \notin {"driver", "executor"}

LineKinds == {"module", "disk", "oom", "exit137", "executorLost", "capacity", "main", "error",
              "removing", "noise", "info"}

\* What a failure of this cause does not leave in its log: the signs of what
\* comes earlier from boot to capacity.  Later ones may be its consequences.
ForeignTo(cause) ==
  CASE cause = "dependency" -> {}
    [] cause = "disk" -> {"module"}
    [] cause \in {"driver", "executor"} -> {"module", "disk"}
    [] cause = "capacity" -> {"module", "disk", "oom", "exit137", "executorLost"}
    [] OTHER -> {"module", "disk", "oom", "exit137", "executorLost", "capacity"}

ASSUME LogsAssumption ==
  \A t \in Tasks : \A l \in Logs[t] : l.lines # NULL =>
    /\ l.lines \in Seq(LineKinds)
    /\ \A j \in DOMAIN l.lines : l.lines[j] \notin ForeignTo(l.cause)

VARIABLES
  log,      \* per task, the one of Logs its failures leave
  task,     \* per task instance, [try, max, state]
  thread,   \* per task, the post its thread file names, 0 without one
  record,   \* per task, the try its failure record describes, 0 without one
  posts,    \* the messages in Slack, in order
  failures, \* <<task, try>> that failed (history)
  unsent,   \* those whose message Slack did not take (history)
  torn,     \* the tasks whose thread was not read or not kept (history)
  clears, faults

vars == <<log, task, thread, record, posts, failures, unsent, torn, clears, faults>>

-----------------------------------------------------------------------------
\* _ERROR_KEYWORDS without _BENIGN_NOISE, and the marks of either side.
ErrorKinds == {"module", "disk", "oom", "exit137", "executorLost", "capacity", "main", "error"}
ExecutorMarks == {"executorLost", "removing"}
DriverMarks == {"main", "oom"}

\* FAILURE_RULES in the order of their priority.
Rules ==
  <<[type |-> "PYTHON_DEPENDENCY", kinds |-> {"module"}, side |-> NULL],
    [type |-> "DISK_EXCEEDED", kinds |-> {"disk"}, side |-> NULL],
    [type |-> "DRIVER_MEMORY_EXCEEDED", kinds |-> {"oom", "exit137"}, side |-> "driver"],
    [type |-> "EXECUTOR_MEMORY_EXCEEDED", kinds |-> {"executorLost", "oom", "exit137"},
     side |-> "executor"],
    [type |-> "EMR_CAPACITY_EXCEEDED", kinds |-> {"capacity"}, side |-> NULL]>>

\* extract_error_window: the lines around the error lines, the last of them.
ErrorWindow(lines) ==
  LET hits == {i \in DOMAIN lines : lines[i] \in ErrorKinds}
      keep == {i \in DOMAIN lines : \E h \in hits : i \in (h - WindowBefore)..(h + WindowAfter)}
  IN {i \in keep : Cardinality({j \in keep : j > i}) < MaxWindow}

\* Mutated form of TerminatedSide: the driver is looked for first.
MutantTerminatedSide(kinds) ==
  IF kinds \cap DriverMarks # {} THEN "driver"
  ELSE IF kinds \cap ExecutorMarks # {} THEN "executor" ELSE NULL

ErrorTypes == {Rules[i].type : i \in DOMAIN Rules} \cup {"UNKNOWN_ERROR"}

\* _detect_terminated_side.
TerminatedSide(kinds) ==
  IF kinds \cap ExecutorMarks # {} THEN "executor"
  ELSE IF kinds \cap DriverMarks # {} THEN "driver" ELSE NULL

\* classify: the first rule of the right side that matches a line.
Classify(kinds) ==
  LET applying == {i \in DOMAIN Rules : /\ Rules[i].side \in {NULL, TerminatedSide(kinds)}
                                        /\ Rules[i].kinds \cap kinds # {}}
  IN IF applying = {} THEN "UNKNOWN_ERROR"
     ELSE Rules[CHOOSE i \in applying : \A j \in applying : i <= j].type

\* _diagnose_emr_failure: NULL when there is no log, or it cannot be read.
Diagnosis(t, broken) ==
  LET lines == log[t].lines
  IN IF lines = NULL \/ "log" \in broken THEN NULL
     ELSE Classify({lines[i] : i \in ErrorWindow(lines)})

-----------------------------------------------------------------------------
\* What may fail in a callback: one helper, or all that the object store holds.
Helpers == {"registry", "log", "record", "read", "slack", "remember"}
Outages == {{}, {"log", "record", "read", "remember"}} \cup {{h} : h \in Helpers}
Kinds == {"retry", "final", "recovered", "summary"}
States == {"running", "waiting", "failed", "success"}

Init ==
  /\ log \in [Tasks -> UNION {Logs[t] : t \in Tasks}]
  /\ \A t \in Tasks : log[t] \in Logs[t]
  /\ task = [t \in Tasks |-> [try |-> 1, max |-> Retries[t] + 1, state |-> "running"]]
  /\ thread = [t \in Tasks |-> 0] /\ record = [t \in Tasks |-> 0]
  /\ posts = <<>> /\ failures = {} /\ unsent = {} /\ torn = {}
  /\ clears = 0 /\ faults = 0

\* A callback in which something fails, or not.
Breaks(broken) ==
  /\ broken # {} => faults < MaxFaults
  /\ faults' = IF broken = {} THEN faults ELSE faults + 1

\* Mutated form of Silenced: an exception of the record leaves the callback.
MutantSilenced(broken) == broken \cap {"slack", "record"} # {}

\* What keeps a message from Slack: nothing but Slack itself.
Silenced(broken) == "slack" \in broken

\* _pull_thread_ts.
OpenThread(t, broken) == IF "read" \in broken THEN 0 ELSE thread[t]

\* Mutated form of Remembers: every message opens a thread.
MutantRemembers(t, broken, final) == ~final /\ "remember" \notin broken

\* _remember_thread_ts.
Remembers(t, broken, final) ==
  OpenThread(t, broken) = 0 /\ ~final /\ "remember" \notin broken

\* _post_task_failure_alert.
FailureAlert(t, broken, final) ==
  LET try == task[t].try
      message == [task |-> t, try |-> try, kind |-> IF final THEN "final" ELSE "retry",
                  thread |-> OpenThread(t, broken),
                  called |-> "registry" \notin broken /\ (try <= 1 \/ final),
                  error |-> Diagnosis(t, broken)]
  IN /\ Breaks(broken)
     /\ failures' = failures \cup {<<t, try>>}
     /\ record' = IF "record" \in broken THEN record ELSE [record EXCEPT ![t] = try]
     /\ unsent' = IF "slack" \in broken THEN unsent \cup {<<t, try>>} ELSE unsent
     /\ torn' = IF broken \cap {"read", "slack", "remember"} # {} THEN torn \cup {t} ELSE torn
     /\ posts' = IF Silenced(broken) THEN posts ELSE Append(posts, message)
     /\ thread' = IF Remembers(t, broken, final) /\ ~Silenced(broken)
                  THEN [thread EXCEPT ![t] = Len(posts) + 1] ELSE thread

\* A try fails with tries left: on_retry_callback.
FailTry(t, broken) ==
  /\ task[t].state = "running" /\ task[t].try < task[t].max
  /\ task' = [task EXCEPT ![t].state = "waiting"]
  /\ FailureAlert(t, broken, FALSE)
  /\ UNCHANGED <<log, clears>>

\* The last try fails: on_failure_callback.
FailTask(t, broken) ==
  /\ task[t].state = "running" /\ task[t].try = task[t].max
  /\ task' = [task EXCEPT ![t].state = "failed"]
  /\ FailureAlert(t, broken, TRUE)
  /\ UNCHANGED <<log, clears>>

\* The next try of a task begins after its delay.
Retry(t) ==
  /\ task[t].state = "waiting"
  /\ task' = [task EXCEPT ![t].state = "running", ![t].try = @ + 1]
  /\ UNCHANGED <<log, thread, record, posts, failures, unsent, torn, clears, faults>>

\* An operator clears a failed task: it runs again, with its retries.
Clear(t) ==
  /\ task[t].state = "failed" /\ clears < MaxClears
  /\ clears' = clears + 1
  /\ task' = [task EXCEPT ![t] = [try |-> @.try + 1, max |-> @.try + 1 + Retries[t],
                                  state |-> "running"]]
  /\ UNCHANGED <<log, thread, record, posts, failures, unsent, torn, faults>>

\* A task succeeds: on_task_success_callback speaks after a retry, and only in
\* the thread.
Succeed(t, broken) ==
  LET try == task[t].try
      open == OpenThread(t, broken)
      message == [task |-> t, try |-> try, kind |-> "recovered", thread |-> open,
                  called |-> FALSE, error |-> NULL]
  IN /\ task[t].state = "running"
     /\ task' = [task EXCEPT ![t].state = "success"]
     /\ Breaks(broken)
     /\ posts' = IF try <= 1 \/ open = 0 \/ "slack" \in broken THEN posts
                 ELSE Append(posts, message)
     /\ UNCHANGED <<log, thread, record, failures, unsent, torn, clears>>

\* The DAG run succeeds: on_success_callback, which does need the registry;
\* without it, or without Slack, nothing is said.
Summarise ==
  /\ \A t \in Tasks : task[t].state = "success"
  /\ \A i \in DOMAIN posts : posts[i].kind # "summary"
  /\ \E t \in Tasks :
       posts' = Append(posts, [task |-> t, try |-> 1, kind |-> "summary", thread |-> 0,
                               called |-> FALSE, error |-> NULL])
  /\ UNCHANGED <<log, task, thread, record, failures, unsent, torn, clears, faults>>

Next ==
  \/ \E t \in Tasks, broken \in Outages :
       FailTry(t, broken) \/ FailTask(t, broken) \/ Succeed(t, broken)
  \/ \E t \in Tasks : Retry(t) \/ Clear(t)
  \/ Summarise

Spec == Init /\ [][Next]_vars

-----------------------------------------------------------------------------
PostsOf(t, kinds) == {i \in DOMAIN posts : posts[i].task = t /\ posts[i].kind \in kinds}
Alerts == {"retry", "final"}

\* A thread file names a post of its own task, and so does every reply.
TypeOK ==
  /\ log \in [Tasks -> UNION {Logs[t] : t \in Tasks}]
  /\ task \in [Tasks -> [try : Nat \ {0}, max : Nat \ {0}, state : States]]
  /\ thread \in [Tasks -> Nat] /\ record \in [Tasks -> Nat]
  /\ posts \in Seq([task : Tasks, try : Nat \ {0}, kind : Kinds, thread : Nat,
                    called : BOOLEAN, error : ErrorTypes \cup {NULL}])
  /\ {failures, unsent} \subseteq SUBSET (Tasks \X Nat) /\ torn \subseteq Tasks
  /\ clears \in 0..MaxClears /\ faults \in 0..MaxFaults
  /\ \A t \in Tasks : task[t].try <= task[t].max /\ record[t] <= task[t].try
  /\ \A t \in Tasks : thread[t] # 0 => thread[t] \in PostsOf(t, {"retry"})
  /\ \A i \in DOMAIN posts : posts[i].thread # 0 =>
       posts[i].thread < i /\ posts[i].thread \in PostsOf(posts[i].task, {"retry"})

\* "An alert that does not come is the failure hardest to notice": whatever
\* else is missing, every failed try has its message unless Slack did not take
\* it, and never a second one; the last one calls the owner while nothing is
\* missing (notifications.py _post_task_failure_alert).
FailuresReported ==
  /\ \A f \in failures \ unsent :
       \E i \in PostsOf(f[1], Alerts) : posts[i].try = f[2]
  /\ \A t \in Tasks : \A i, j \in PostsOf(t, Alerts) : posts[i].try = posts[j].try => i = j
  /\ \A i \in DOMAIN posts :
       /\ posts[i].kind \in Alerts => <<posts[i].task, posts[i].try>> \in failures
       /\ posts[i].kind = "final" /\ faults = 0 => posts[i].called

\* A failed task leaves one message in the channel, also over retries and
\* clears: as long as the store and Slack answered, every later failure and
\* every recovery is in the thread of the first failure.  A recovery is never
\* in the channel (notifications.py _ALERT_THREAD_TS_SUFFIX).
OneThreadPerTask ==
  \A t \in Tasks :
    /\ \A i \in PostsOf(t, {"recovered"}) : posts[i].thread # 0
    /\ t \notin torn => \A i, j \in PostsOf(t, Kinds \ {"summary"}) :
         i < j => posts[j].thread = (IF posts[i].thread = 0 THEN i ELSE posts[i].thread)

\* The line that tells a cause, and the error type it is reported as.
RootOf(cause) ==
  CASE cause = "dependency" -> [kind |-> "module", type |-> "PYTHON_DEPENDENCY"]
    [] cause = "disk" -> [kind |-> "disk", type |-> "DISK_EXCEEDED"]
    [] cause = "driver" -> [kind |-> "oom", type |-> "DRIVER_MEMORY_EXCEEDED"]
    [] cause = "executor" -> [kind |-> "executorLost", type |-> "EXECUTOR_MEMORY_EXCEEDED"]
    [] cause = "capacity" -> [kind |-> "capacity", type |-> "EMR_CAPACITY_EXCEEDED"]
    [] OTHER -> [kind |-> "none", type |-> "UNKNOWN_ERROR"]

\* A diagnosis names the cause and not its consequences: executors that die of
\* memory are not taken for a lack of capacity or for a dead driver.  It holds
\* when the telling line is among the last MaxWindow of the log and, for a
\* dead driver, when no executor was removed (failure_rules.py FAILURE_RULES,
\* classify).
RootCauseNamed ==
  \A i \in DOMAIN posts :
    LET cause == log[posts[i].task].cause
        lines == log[posts[i].task].lines
        Tells(j) == lines[j] = RootOf(cause).kind /\ Len(lines) - j < MaxWindow
    IN posts[i].error # NULL =>
         /\ (\E j \in DOMAIN lines : Tells(j))
              /\ (cause = "driver" => \A j \in DOMAIN lines : lines[j] \notin ExecutorMarks)
            => posts[i].error = RootOf(cause).type
         /\ cause = "unknown" => posts[i].error = "UNKNOWN_ERROR"
=============================================================================
