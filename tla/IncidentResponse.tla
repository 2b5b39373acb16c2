-------------------------- MODULE IncidentResponse --------------------------
(***************************************************************************)
(* The ops-agent: it takes the alerts Grafana posts, asks Prometheus       *)
(* again, decides, looks at the cooldown in its SQLite table, records the  *)
(* attempt, restarts the container over SSH, polls for the recovery and    *)
(* writes the outcome into the attempt's row.                              *)
(*                                                                         *)
(* The webhook handler is a coroutine that calls the orchestrator without  *)
(* an await, so it holds the event loop; Workers are the request handlers. *)
(* Time is kept as the age of an alert's last attempt, in ticks and up to  *)
(* the cooldown, which is all that now - MAX(attempted_at) is used for.    *)
(* An alert that is not firing any more does nothing and is left out.      *)
(***************************************************************************)
EXTENDS Naturals, Sequences

CONSTANTS
  Workers,     \* request handlers
  Alerts,      \* the fingerprints of the alerts Grafana fires
  Known,       \* alerts whose name has an ActionSpec
  OptedIn,     \* alerts labelled auto_remediate
  Containers,  \* what can be restarted
  Target,      \* [Alerts -> Containers]: the spec's container
  Cooldown,    \* OPS_AGENT_COOLDOWN_SECONDS, in ticks
  MaxPolls,    \* sleeps of the recovery poll before it gives up
  MaxMishaps,  \* bound: failures and crashes in one behaviour
  NoAlert      \* what an idle worker handles

ASSUME SetsAssumption == Known \subseteq Alerts /\ OptedIn \subseteq Alerts
ASSUME TargetAssumption == Target \in [Alerts -> Containers]
ASSUME NumbersAssumption ==
  Cooldown \in Nat \ {0} /\ MaxPolls \in Nat /\ MaxMishaps \in Nat
ASSUME NoAlertAssumption == NoAlert \notin Alerts

VARIABLES
  inbox,     \* alerts posted and not yet handled, in the order of the loop
  pc,        \* [Workers -> the step the handler is at]
  alert,     \* [Workers -> the alert it handles]
  polls,     \* [Workers -> sleeps of its recovery poll]
  verdict,   \* [Workers -> whether that poll saw the service healthy]
  age,       \* [Alerts -> ticks since the newest row, at most Cooldown]
  outcome,   \* [Alerts -> the newest row: "none" if there is no row, "unknown"
             \*  while its columns are NULL, then "recovered" or "failed"]
  restarts,  \* [Alerts -> restarts commanded since the newest row]
  cond,      \* [Containers -> what the container really does]
  seen,      \* [Containers -> the newest sample in Prometheus]
  mishaps    \* failures and crashes so far

handler == <<pc, alert, polls, verdict>>
rows == <<age, outcome, restarts>>
services == <<cond, seen>>
vars == <<inbox, handler, rows, services, mishaps>>

PCs == {"idle", "reverify", "decide", "check", "record", "restart", "poll",
        "outcome", "notify"}

TypeOK ==
  /\ inbox \in Seq(Alerts)
  /\ pc \in [Workers -> PCs]
  /\ alert \in [Workers -> Alerts \cup {NoAlert}]
  /\ polls \in [Workers -> 0..MaxPolls]
  /\ verdict \in [Workers -> BOOLEAN]
  /\ age \in [Alerts -> 0..Cooldown]
  /\ outcome \in [Alerts -> {"none", "unknown", "recovered", "failed"}]
  /\ restarts \in [Alerts -> Nat]
  /\ cond \in [Containers -> {"up", "down", "starting"}]
  /\ seen \in [Containers -> {"healthy", "failing", "absent"}]
  /\ mishaps \in Nat

Init ==
  /\ inbox = <<>>
  /\ pc = [w \in Workers |-> "idle"] /\ alert = [w \in Workers |-> NoAlert]
  /\ polls = [w \in Workers |-> 0] /\ verdict = [w \in Workers |-> FALSE]
  /\ age = [f \in Alerts |-> Cooldown]
  /\ outcome = [f \in Alerts |-> "none"]
  /\ restarts = [f \in Alerts |-> 0]
  /\ cond = [c \in Containers |-> "up"]
  /\ seen = [c \in Containers |-> "healthy"]
  /\ mishaps = 0

-----------------------------------------------------------------------------
Step(w, from, to) == pc[w] = from /\ pc' = [pc EXCEPT ![w] = to]

\* Prometheus has no sample, or a failing one: neither counts as healthy.
Healthy(w) == seen[Target[alert[w]]] = "healthy"

\* Grafana posts while an alert fires and again after a timeout, and what it
\* believes may be out of date.  One waiting copy stands for several.
Deliver(f) ==
  /\ \A i \in 1..Len(inbox) : inbox[i] # f
  /\ inbox' = Append(inbox, f)
  /\ UNCHANGED <<handler, rows, services, mishaps>>

\* Mutated form of LoopFree: a synchronous endpoint, run in a thread pool.
MutantThreadPool == TRUE

\* The coroutine does not await between taking the payload and answering.
LoopFree == \A v \in Workers : pc[v] = "idle"

\* An alert without a spec is only reported: no host is touched.
Take(w) ==
  /\ inbox # <<>> /\ LoopFree
  /\ Step(w, "idle", IF Head(inbox) \in Known THEN "reverify" ELSE "notify")
  /\ alert' = [alert EXCEPT ![w] = Head(inbox)]
  /\ inbox' = Tail(inbox)
  /\ UNCHANGED <<polls, verdict, rows, services, mishaps>>

\* A healthy service ends the handling: the alert was stale.
Reverify(w) ==
  /\ Step(w, "reverify", IF Healthy(w) THEN "notify" ELSE "decide")
  /\ UNCHANGED <<inbox, alert, polls, verdict, rows, services, mishaps>>

\* The policy, and two read-only commands over SSH.
Decide(w) ==
  /\ Step(w, "decide", IF alert[w] \in OptedIn THEN "check" ELSE "notify")
  /\ UNCHANGED <<inbox, alert, polls, verdict, rows, services, mishaps>>

\* Mutated form of Check: each firing refreshes the time the check looks at.
MutantRefreshes(w) ==
  /\ Step(w, "check", IF age[alert[w]] = Cooldown THEN "record" ELSE "notify")
  /\ age' = [age EXCEPT ![alert[w]] = IF @ = Cooldown THEN @ ELSE 0]
  /\ UNCHANGED <<inbox, alert, polls, verdict, outcome, restarts, services, mishaps>>

Check(w) ==
  /\ Step(w, "check", IF age[alert[w]] = Cooldown THEN "record" ELSE "notify")
  /\ UNCHANGED <<inbox, alert, polls, verdict, rows, services, mishaps>>

\* The row is committed before the restart is tried.
Record(w) ==
  /\ Step(w, "record", "restart")
  /\ age' = [age EXCEPT ![alert[w]] = 0]
  /\ outcome' = [outcome EXCEPT ![alert[w]] = "unknown"]
  /\ restarts' = [restarts EXCEPT ![alert[w]] = 0]
  /\ UNCHANGED <<inbox, alert, polls, verdict, services, mishaps>>

\* docker restart is sent; hits says whether it reaches the container.
Command(w, hits) ==
  /\ Step(w, "restart", "poll")
  /\ restarts' = [restarts EXCEPT ![alert[w]] = @ + 1]
  /\ cond' = [cond EXCEPT ![Target[alert[w]]] = IF hits THEN "starting" ELSE @]
  /\ UNCHANGED <<inbox, alert, polls, verdict, age, outcome, seen>>

Restart(w) == Command(w, TRUE) /\ UNCHANGED mishaps

\* Prometheus is asked at once, then after every sleep.
Poll(w) ==
  /\ pc[w] = "poll"
  /\ IF Healthy(w) \/ polls[w] = MaxPolls
     THEN /\ Step(w, "poll", "outcome")
          /\ verdict' = [verdict EXCEPT ![w] = Healthy(w)]
          /\ polls' = [polls EXCEPT ![w] = 0]
     ELSE /\ polls' = [polls EXCEPT ![w] = @ + 1]
          /\ UNCHANGED <<pc, verdict>>
  /\ UNCHANGED <<inbox, alert, rows, services, mishaps>>

RecordOutcome(w) ==
  /\ Step(w, "outcome", "notify")
  /\ outcome' = [outcome EXCEPT ![alert[w]] = IF verdict[w] THEN "recovered" ELSE "failed"]
  /\ verdict' = [verdict EXCEPT ![w] = FALSE]
  /\ UNCHANGED <<inbox, alert, polls, age, restarts, services, mishaps>>

\* The Slack message; a post that fails is logged and that is all.
Notify(w) ==
  /\ Step(w, "notify", "idle")
  /\ alert' = [alert EXCEPT ![w] = NoAlert]
  /\ UNCHANGED <<inbox, polls, verdict, rows, services, mishaps>>

-----------------------------------------------------------------------------
\* The world: time, Prometheus, the containers.
Tick ==
  /\ \E f \in Alerts : age[f] < Cooldown
  /\ age' = [f \in Alerts |-> IF age[f] < Cooldown THEN age[f] + 1 ELSE Cooldown]
  /\ UNCHANGED <<inbox, handler, outcome, restarts, services, mishaps>>

Scrape(c) ==
  /\ seen' = [seen EXCEPT ![c] = IF cond[c] = "up" THEN "healthy" ELSE "failing"]
  /\ UNCHANGED <<inbox, handler, rows, cond, mishaps>>

Becomes(c, from, to) ==
  /\ cond[c] = from
  /\ cond' = [cond EXCEPT ![c] = to]
  /\ UNCHANGED <<inbox, handler, rows, seen>>

Boot(c) == Becomes(c, "starting", "up") /\ UNCHANGED mishaps
Breaks(c) == Becomes(c, "up", "down") /\ UNCHANGED mishaps
\* Docker's own restart policy, or a person.
RestartsItself(c) == Becomes(c, "down", "starting") /\ UNCHANGED mishaps

-----------------------------------------------------------------------------
Mishap == mishaps < MaxMishaps /\ mishaps' = mishaps + 1

\* Prometheus comes back without its samples: there is no status until a scrape.
LoseSamples(c) ==
  /\ Mishap
  /\ seen' = [seen EXCEPT ![c] = "absent"]
  /\ UNCHANGED <<inbox, handler, rows, cond>>

BootFails(c) == Mishap /\ Becomes(c, "starting", "down")

\* SSH fails, or gives up on a command that the host may still execute.
RestartFails(w) == Mishap /\ \E hits \in BOOLEAN : Command(w, hits)

\* Mutated form of AfterError: an error of the restart is taken for its result.
MutantSwallows(w) == IF pc[w] = "restart" THEN "poll" ELSE "idle"

\* The app logs the error and goes on with the next alert.
AfterError(w) == "idle"

\* Prometheus does not answer, SQLite or SSH raises.
Raises(w) ==
  /\ Mishap
  /\ pc[w] # "idle"
  /\ pc' = [pc EXCEPT ![w] = AfterError(w)]
  /\ polls' = [polls EXCEPT ![w] = 0] /\ verdict' = [verdict EXCEPT ![w] = FALSE]
  /\ alert' = [alert EXCEPT ![w] = IF AfterError(w) = "idle" THEN NoAlert ELSE @]
  /\ UNCHANGED <<inbox, rows, services>>

\* The agent dies and Docker starts it again; the table is on a volume.
Crash ==
  /\ Mishap
  /\ inbox' = <<>>
  /\ pc' = [w \in Workers |-> "idle"] /\ alert' = [w \in Workers |-> NoAlert]
  /\ polls' = [w \in Workers |-> 0] /\ verdict' = [w \in Workers |-> FALSE]
  /\ UNCHANGED <<rows, services>>

-----------------------------------------------------------------------------
Handle(w) ==
  \/ Take(w) \/ Reverify(w) \/ Decide(w) \/ Check(w) \/ Record(w)
  \/ Restart(w) \/ Poll(w) \/ RecordOutcome(w) \/ Notify(w)

World ==
  \/ Tick
  \/ \E f \in Alerts : Deliver(f)
  \/ \E c \in Containers :
       Scrape(c) \/ Boot(c) \/ Breaks(c) \/ RestartsItself(c)

Failure ==
  \/ \E w \in Workers : RestartFails(w) \/ Raises(w)
  \/ \E c \in Containers : LoseSamples(c) \/ BootFails(c)
  \/ Crash

Next == (\E w \in Workers : Handle(w)) \/ World \/ Failure

Spec == Init /\ [][Next]_vars

\* Grafana repeats an alert while the service looks down (without samples it
\* sends another alert, which has no spec); the loop, the scrapes, a starting
\* container and time go on.
Fairness ==
  /\ WF_vars(\E w \in Workers : Handle(w))
  /\ WF_vars(Tick)
  /\ \A c \in Containers : WF_vars(Scrape(c)) /\ WF_vars(Boot(c))
  /\ \A f \in Alerts : WF_vars(seen[Target[f]] = "failing" /\ Deliver(f))

FairSpec == Spec /\ Fairness

-----------------------------------------------------------------------------
\* However alerts are redelivered, handlings raise and the agent dies, one alert
\* leads to at most one restart per cooldown: the row is there before the
\* restart, and nothing comes between the look at the table and the row.
Limit == INSTANCE RestartLimit WITH attempted <- {f \in Alerts : outcome[f] # "none"}
ImplementsRestartLimit == Limit!Spec

\* A row with an outcome speaks of a restart that was really commanded, once;
\* an interrupted handling leaves its row unknown.
OutcomeHasRestart ==
  \A f \in Alerts : outcome[f] \in {"recovered", "failed"} => restarts[f] = 1

\* A cooldown does not turn into a ban: once the failures stop, a container
\* that is down and has an alert to be repaired by comes up again.
DownIsRepaired ==
  \A f \in Known \cap OptedIn : cond[Target[f]] = "down" ~> cond[Target[f]] = "up"
=============================================================================
