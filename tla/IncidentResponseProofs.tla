----------------------- MODULE IncidentResponseProofs -----------------------
(***************************************************************************)
(* The ops-agent keeps the restart limit for any number of alerts, request *)
(* handlers, containers and failures, because a handler holds the event    *)
(* loop until it is done.                                                  *)
(***************************************************************************)
EXTENDS IncidentResponse, SequenceTheorems, TLAPS

\* The event loop runs one handler to its end before the next.
OneAtATime == \A v, w \in Workers : pc[v] # "idle" /\ pc[w] # "idle" => v = w

\* What a handler knows of the newest row of its alert at each step.
RowOf(w) ==
  /\ pc[w] # "idle" => alert[w] \in Alerts
  /\ pc[w] = "record" => age[alert[w]] = Cooldown
  /\ pc[w] = "restart" => restarts[alert[w]] = 0 /\ outcome[alert[w]] = "unknown"
  /\ pc[w] \in {"poll", "outcome"} =>
       restarts[alert[w]] = 1 /\ outcome[alert[w]] = "unknown"

Inv ==
  /\ TypeOK
  /\ OneAtATime
  /\ \A w \in Workers : RowOf(w)
  /\ OutcomeHasRestart

\* At the start nobody handles anything and there is no row.
LEMMA InitInv == Init => Inv
<1> SUFFICES ASSUME Init PROVE Inv
  OBVIOUS
<1>1. TypeOK
  BY NumbersAssumption, EmptySeq DEF Init, TypeOK, PCs
<1> QED
  BY <1>1 DEF Init, Inv, OneAtATime, RowOf, OutcomeHasRestart

\* The invariant is inductive: one step per action of Next.
LEMMA InvStep == Inv /\ [Next]_vars => Inv'
<1> SUFFICES ASSUME Inv, [Next]_vars
             PROVE  Inv'
  OBVIOUS
<1> USE NumbersAssumption, TargetAssumption
<1> USE DEF Inv, TypeOK, OneAtATime, RowOf, OutcomeHasRestart, PCs,
            handler, rows, services
<1>1. ASSUME NEW w \in Workers, Take(w)
      PROVE  Inv'
  <2>1. Head(inbox) \in Alerts /\ Tail(inbox) \in Seq(Alerts)
    BY <1>1, HeadTailProperties DEF Take
  <2> QED
    BY <1>1, <2>1 DEF Take, Step, LoopFree
<1>2. ASSUME NEW w \in Workers, Reverify(w)
      PROVE  Inv'
  BY <1>2 DEF Reverify, Step
<1>3. ASSUME NEW w \in Workers, Decide(w)
      PROVE  Inv'
  BY <1>3 DEF Decide, Step
<1>4. ASSUME NEW w \in Workers, Check(w)
      PROVE  Inv'
  BY <1>4 DEF Check, Step
<1>5. ASSUME NEW w \in Workers, Record(w)
      PROVE  Inv'
  <2>1. alert[w] \in Alerts /\ \A v \in Workers : v # w => pc[v] = "idle"
    BY <1>5 DEF Record, Step
  <2>2. TypeOK'
    BY <1>5, <2>1 DEF Record, Step
  <2>3. OneAtATime' /\ \A v \in Workers : v # w => RowOf(v)'
    BY <1>5, <2>1 DEF Record, Step
  <2>4. RowOf(w)'
    BY <1>5, <2>1 DEF Record, Step
  <2>5. OutcomeHasRestart'
    BY <1>5, <2>1 DEF Record
  <2> QED
    BY <2>2, <2>3, <2>4, <2>5
<1>6. ASSUME NEW w \in Workers, NEW hits \in BOOLEAN, Command(w, hits),
             mishaps' \in Nat
      PROVE  Inv'
  <2>1. /\ alert[w] \in Alerts /\ Target[alert[w]] \in Containers
        /\ restarts[alert[w]] = 0 /\ outcome[alert[w]] = "unknown"
        /\ \A v \in Workers : v # w => pc[v] = "idle"
    BY <1>6 DEF Command, Step
  <2>2. TypeOK'
    <3>1. restarts' \in [Alerts -> Nat] /\ pc' \in [Workers -> PCs]
      BY <1>6, <2>1 DEF Command, Step
    <3>2. cond' \in [Containers -> {"up", "down", "starting"}]
      BY <1>6, <2>1 DEF Command
    <3> QED
      BY <1>6, <3>1, <3>2 DEF Command
  <2>3. OneAtATime' /\ \A v \in Workers : v # w => RowOf(v)'
    BY <1>6, <2>1 DEF Command, Step
  <2>4. RowOf(w)'
    BY <1>6, <2>1 DEF Command, Step
  <2>5. OutcomeHasRestart'
    BY <1>6, <2>1 DEF Command
  <2> QED
    BY <2>2, <2>3, <2>4, <2>5
<1>7. ASSUME NEW w \in Workers, Restart(w)
      PROVE  Inv'
  BY <1>6, <1>7 DEF Restart
<1>8. ASSUME NEW w \in Workers, Poll(w)
      PROVE  Inv'
  <2>1. /\ pc[w] = "poll" /\ alert[w] \in Alerts
        /\ \A v \in Workers : v # w => pc[v] = "idle"
    BY <1>8 DEF Poll
  <2>2. Healthy(w) = TRUE \/ Healthy(w) = FALSE
    BY DEF Healthy
  <2>3. /\ pc' = pc \/ pc' = [pc EXCEPT ![w] = "outcome"]
        /\ UNCHANGED <<inbox, alert, rows, services, mishaps>>
    BY <1>8 DEF Poll, Step
  <2>4. /\ polls' \in [Workers -> 0..MaxPolls]
        /\ verdict' \in [Workers -> BOOLEAN]
    <3>1. CASE Healthy(w) \/ polls[w] = MaxPolls
      <4>1. /\ polls' = [polls EXCEPT ![w] = 0]
            /\ verdict' = [verdict EXCEPT ![w] = Healthy(w)]
        BY <1>8, <3>1 DEF Poll
      <4>2. ASSUME NEW b \in BOOLEAN
            PROVE  [verdict EXCEPT ![w] = b] \in [Workers -> BOOLEAN]
        <5>1. verdict \in [Workers -> BOOLEAN]
          BY DEF Inv, TypeOK
        <5> QED
          BY ONLY <5>1, <4>2
      <4>3. verdict' \in [Workers -> BOOLEAN]
        <5>1. Healthy(w) \in BOOLEAN
          BY <2>2
        <5> QED
          BY ONLY <4>1, <4>2, <5>1
      <4>4. polls' \in [Workers -> 0..MaxPolls]
        BY <4>1
      <4> QED
        BY <4>3, <4>4
    <3>2. CASE ~(Healthy(w) \/ polls[w] = MaxPolls)
      <4>1. polls' = [polls EXCEPT ![w] = polls[w] + 1] /\ UNCHANGED verdict
        BY <1>8, <3>2 DEF Poll
      <4>2. polls[w] + 1 \in 0..MaxPolls
        BY <3>2
      <4> QED
        BY <4>1, <4>2
    <3> QED
      BY <3>1, <3>2
  <2>5. TypeOK'
    <3>1. pc' \in [Workers -> PCs]
      <4>1. pc \in [Workers -> PCs] /\ "outcome" \in PCs
        BY DEF Inv, TypeOK
      <4> QED
        BY ONLY <2>3, <4>1
    <3> QED
      BY <2>3, <2>4, <3>1
  <2>6. OneAtATime' /\ OutcomeHasRestart'
    BY <2>1, <2>3
  <2>7. \A v \in Workers : RowOf(v)'
    BY <2>1, <2>3
  <2> QED
    BY <2>5, <2>6, <2>7
<1>9. ASSUME NEW w \in Workers, RecordOutcome(w)
      PROVE  Inv'
  BY <1>9 DEF RecordOutcome, Step
<1>10. ASSUME NEW w \in Workers, Notify(w)
       PROVE  Inv'
  BY <1>10 DEF Notify, Step
<1>11. CASE Tick
  <2>1. /\ age' \in [Alerts -> 0..Cooldown]
        /\ \A f \in Alerts : age[f] = Cooldown => age'[f] = Cooldown
    BY <1>11 DEF Tick
  <2>2. TypeOK'
    BY <1>11, <2>1 DEF Tick
  <2>3. OneAtATime' /\ OutcomeHasRestart'
    BY <1>11 DEF Tick
  <2>4. \A w \in Workers : RowOf(w)'
    BY <1>11, <2>1 DEF Tick
  <2> QED
    BY <2>2, <2>3, <2>4
<1>12. ASSUME NEW f \in Alerts, Deliver(f)
       PROVE  Inv'
  BY <1>12, AppendProperties DEF Deliver
<1>13. ASSUME NEW c \in Containers,
              Scrape(c) \/ LoseSamples(c) \/ Boot(c) \/ Breaks(c)
                \/ RestartsItself(c) \/ BootFails(c)
       PROVE  Inv'
  <2>1. UNCHANGED <<inbox, handler, rows>> /\ mishaps' \in Nat
    BY <1>13 DEF Scrape, LoseSamples, Boot, Breaks, RestartsItself, BootFails, Mishap,
                 Becomes
  <2>2. /\ cond' \in [Containers -> {"up", "down", "starting"}]
        /\ seen' \in [Containers -> {"healthy", "failing", "absent"}]
    <3>1. CASE Scrape(c)
      BY <3>1 DEF Scrape
    <3>2. CASE LoseSamples(c)
      BY <3>2 DEF LoseSamples
    <3>3. CASE Boot(c) \/ Breaks(c) \/ RestartsItself(c) \/ BootFails(c)
      <4>1. UNCHANGED seen
        BY <3>3 DEF Boot, Breaks, RestartsItself, BootFails, Becomes
      <4>2. \E to \in {"up", "down", "starting"} : cond' = [cond EXCEPT ![c] = to]
        BY <3>3 DEF Boot, Breaks, RestartsItself, BootFails, Becomes
      <4> QED
        BY <4>1, <4>2
    <3> QED
      BY <1>13, <3>1, <3>2, <3>3
  <2> QED
    BY <2>1, <2>2
<1>14. ASSUME NEW w \in Workers, RestartFails(w)
       PROVE  Inv'
  <2>1. mishaps' \in Nat
    BY <1>14 DEF RestartFails, Mishap
  <2> QED
    BY <1>6, <1>14, <2>1 DEF RestartFails
<1>15. ASSUME NEW w \in Workers, Raises(w)
       PROVE  Inv'
  BY <1>15 DEF Raises, Mishap, AfterError
<1>16. CASE Crash
  BY <1>16, EmptySeq DEF Crash, Mishap
<1>17. CASE UNCHANGED vars
  BY <1>17 DEF vars
<1> QED
  BY <1>1, <1>2, <1>3, <1>4, <1>5, <1>7, <1>8, <1>9, <1>10, <1>11, <1>12, <1>13,
     <1>14, <1>15, <1>16, <1>17 DEF Next, Handle, World, Failure

\* The inductive invariant holds in every reachable state.
LEMMA Invariance == Spec => []Inv
BY InitInv, InvStep, PTL DEF Spec

\* Type correctness of the ops-agent.
THEOREM TypeCorrect == Spec => []TypeOK
<1>1. Inv => TypeOK
  BY DEF Inv
<1> QED
  BY <1>1, Invariance, PTL

\* A row that says how a restart ended belongs to exactly one restart command,
\* through any exceptions of the handler and deaths of the agent.
THEOREM OutcomesHonest == Spec => []OutcomeHasRestart
<1>1. Inv => OutcomeHasRestart
  BY DEF Inv
<1> QED
  BY <1>1, Invariance, PTL

-----------------------------------------------------------------------------
\* With an empty table no attempt was made.
LEMMA InitRefines == Init => Limit!Init
BY DEF Init, Limit!Init

\* Every step is an attempt after the cooldown, its one restart, a passing of
\* time, or nothing the limit speaks of.
LEMMA StepRefines == Inv /\ [Next]_vars => [Limit!Next]_(Limit!vars)
<1> SUFFICES ASSUME Inv, [Next]_vars
             PROVE  [Limit!Next]_(Limit!vars)
  OBVIOUS
<1> USE DEF Limit!vars, Limit!Next, handler, rows, services
<1>1. CASE UNCHANGED rows
  BY <1>1
<1>2. ASSUME NEW w \in Workers, Record(w)
      PROVE  [Limit!Next]_(Limit!vars)
  <2> DEFINE f == alert[w]
  <2>1. f \in Alerts /\ age[f] = Cooldown
    BY <1>2 DEF Record, Step, Inv, RowOf
  <2>2. /\ age' = [age EXCEPT ![f] = 0]
        /\ restarts' = [restarts EXCEPT ![f] = 0]
        /\ outcome' = [outcome EXCEPT ![f] = "unknown"]
    BY <1>2 DEF Record
  <2>3. {g \in Alerts : outcome'[g] # "none"} = {g \in Alerts : outcome[g] # "none"} \cup {f}
    BY <2>1, <2>2 DEF Inv, TypeOK
  <2>4. Limit!Attempt(f)
    BY <2>1, <2>2, <2>3 DEF Limit!Attempt
  <2>5. Limit!Next
    BY <2>1, <2>4 DEF Limit!Attempt
  <2> QED
    BY <2>5
<1>3. ASSUME NEW w \in Workers, NEW hits \in BOOLEAN, Command(w, hits)
      PROVE  [Limit!Next]_(Limit!vars)
  <2> DEFINE f == alert[w]
  <2>1. f \in Alerts /\ restarts[f] = 0 /\ outcome[f] = "unknown"
    BY <1>3 DEF Command, Step, Inv, RowOf
  <2>2. restarts' = [restarts EXCEPT ![f] = 1] /\ UNCHANGED <<age, outcome>>
    BY <1>3, <2>1 DEF Command
  <2>3. Limit!Restart(f)
    BY <2>1, <2>2 DEF Limit!Restart
  <2> QED
    BY <2>1, <2>3
<1>4. ASSUME NEW w \in Workers, RecordOutcome(w)
      PROVE  [Limit!Next]_(Limit!vars)
  <2>1. alert[w] \in Alerts /\ outcome[alert[w]] = "unknown"
    BY <1>4 DEF RecordOutcome, Step, Inv, RowOf
  <2>2. {g \in Alerts : outcome'[g] # "none"} = {g \in Alerts : outcome[g] # "none"}
    BY <1>4, <2>1 DEF RecordOutcome, Inv, TypeOK
  <2> QED
    BY <1>4, <2>2 DEF RecordOutcome
<1>5. CASE Tick
  BY <1>5 DEF Tick, Limit!Time
<1> QED
  BY <1>1, <1>2, <1>3, <1>4, <1>5
  DEF Next, Handle, World, Failure, vars, Take, Reverify, Decide, Check, Restart, Poll,
      Notify, Deliver, Scrape, LoseSamples, Boot, Breaks, RestartsItself, Becomes,
      BootFails, RestartFails, Raises, Crash

\* The ops-agent implements RestartLimit: one restart per alert and cooldown.
THEOREM LimitKept == Spec => ImplementsRestartLimit
BY InitRefines, StepRefines, Invariance, PTL
DEF Spec, Limit!Spec, ImplementsRestartLimit
=============================================================================
