------------------------- MODULE FailureAlertsProofs -------------------------
(***************************************************************************)
(* What the alerts promise for every set of tasks, every number of retries *)
(* and clears, every log and every outage of the helpers.                  *)
(***************************************************************************)
EXTENDS FailureAlerts, FiniteSetTheorems, TLAPS

Message == [task : Tasks, try : Nat \ {0}, kind : Kinds, thread : Nat,
            called : BOOLEAN, error : ErrorTypes \cup {NULL}]

-----------------------------------------------------------------------------
\* The types, with names for their parts.
TaskType == task \in [Tasks -> [try : Nat \ {0}, max : Nat \ {0}, state : States]]

DataType ==
  /\ log \in [Tasks -> UNION {Logs[t] : t \in Tasks}]
  /\ thread \in [Tasks -> Nat] /\ record \in [Tasks -> Nat]
  /\ posts \in Seq(Message)
  /\ failures \in SUBSET (Tasks \X Nat) /\ unsent \in SUBSET (Tasks \X Nat)
  /\ torn \in SUBSET Tasks
  /\ clears \in 0..MaxClears /\ faults \in 0..MaxFaults

TryBounds == \A t \in Tasks : /\ task[t].try <= task[t].max /\ 2 <= task[t].max
                              /\ record[t] <= task[t].try
                              /\ task[t].state = "waiting" => task[t].try < task[t].max

ThreadFiles ==
  /\ \A t \in Tasks : thread[t] # 0 =>
       /\ thread[t] \in 1..Len(posts)
       /\ posts[thread[t]].task = t /\ posts[thread[t]].kind = "retry"
  /\ \A i \in 1..Len(posts) : posts[i].thread # 0 =>
       /\ posts[i].thread \in 1..(i - 1)
       /\ posts[posts[i].thread].task = posts[i].task
       /\ posts[posts[i].thread].kind = "retry"

TypeInv == TaskType /\ DataType /\ TryBounds /\ ThreadFiles

\* q is an alert of the try that p speaks of.
SameTry(p, q) == q.kind \in Alerts /\ q.task = p.task /\ q.try = p.try

\* A failed try is known to have failed once, and has its one message.
ReportInv ==
  /\ \A t \in Tasks, n \in Nat : <<t, n>> \in failures =>
       /\ n <= task[t].try
       /\ task[t].state = "running" => n < task[t].try
       /\ <<t, n>> \notin unsent => \E i \in 1..Len(posts) :
            posts[i].task = t /\ posts[i].kind \in Alerts /\ posts[i].try = n
  /\ \A i \in 1..Len(posts) : posts[i].kind \in Alerts =>
       /\ <<posts[i].task, posts[i].try>> \in failures
       /\ \A j \in 1..Len(posts) : SameTry(posts[i], posts[j]) => i = j
       /\ posts[i].kind = "final" /\ faults = 0 => posts[i].called

Speaks(i, t) == posts[i].task = t /\ posts[i].kind # "summary"

\* A task whose thread was always read and kept is silent before its first
\* failure; afterwards its thread file names the oldest of its messages.
ThreadInv ==
  /\ \A i \in 1..Len(posts) : posts[i].kind = "recovered" => posts[i].thread # 0
  /\ \A t \in Tasks \ torn :
       /\ thread[t] = 0 =>
            /\ task[t].try = 1 /\ task[t].state \in {"running", "success"}
            /\ \A i \in 1..Len(posts) : ~Speaks(i, t)
       /\ thread[t] # 0 =>
            /\ posts[thread[t]].thread = 0
            /\ \A i \in 1..Len(posts) : Speaks(i, t) =>
                 /\ thread[t] <= i
                 /\ i # thread[t] => posts[i].thread = thread[t]

Inv == TypeInv /\ ReportInv /\ ThreadInv

-----------------------------------------------------------------------------
\* A set of the rules' numbers has a least element.
LEMMA FirstRule ==
  ASSUME NEW S \in SUBSET (1..5), S # {}
  PROVE  \E i \in S : \A j \in S : i <= j
<1>1. CASE 1 \in S
  BY <1>1
<1>2. CASE 1 \notin S /\ 2 \in S
  BY <1>2
<1>3. CASE 1 \notin S /\ 2 \notin S /\ 3 \in S
  BY <1>3
<1>4. CASE 1 \notin S /\ 2 \notin S /\ 3 \notin S /\ 4 \in S
  BY <1>4
<1>5. CASE 1 \notin S /\ 2 \notin S /\ 3 \notin S /\ 4 \notin S
  <2>1. \A i \in S : i = 5
    BY <1>5
  <2>2. PICK i \in S : TRUE
    OBVIOUS
  <2> QED
    BY <2>1, <2>2
<1> QED
  BY <1>1, <1>2, <1>3, <1>4, <1>5

\* classify gives the type of a rule, or UNKNOWN_ERROR.
LEMMA ClassifyType ==
  ASSUME NEW kinds
  PROVE  Classify(kinds) \in ErrorTypes
<1> DEFINE applying == {i \in DOMAIN Rules : /\ Rules[i].side \in {NULL, TerminatedSide(kinds)}
                                             /\ Rules[i].kinds \cap kinds # {}}
           first == CHOOSE i \in applying : \A j \in applying : i <= j
<1>1. DOMAIN Rules = 1..5
  BY DEF Rules
<1>2. CASE applying = {}
  <2>1. Classify(kinds) = "UNKNOWN_ERROR"
    BY <1>2 DEF Classify
  <2> QED
    BY <2>1 DEF ErrorTypes
<1>3. CASE applying # {}
  <2>1. Classify(kinds) = Rules[first].type
    BY <1>3 DEF Classify
  <2>2. applying \in SUBSET (1..5)
    BY <1>1
  <2>3. first \in applying
    <3> HIDE DEF applying
    <3>1. \E i \in applying : \A j \in applying : i <= j
      BY <1>3, <2>2, FirstRule
    <3> QED
      BY <3>1
  <2>4. first \in DOMAIN Rules
    BY <2>3
  <2> QED
    BY <2>1, <2>4 DEF ErrorTypes
<1> QED
  BY <1>2, <1>3

LEMMA DiagnosisType ==
  ASSUME NEW t \in Tasks, NEW broken
  PROVE  Diagnosis(t, broken) \in ErrorTypes \cup {NULL}
BY ClassifyType DEF Diagnosis

\* What appending a message keeps and adds.
LEMMA Appended ==
  ASSUME NEW s \in Seq(Message), NEW m \in Message
  PROVE  /\ Append(s, m) \in Seq(Message)
         /\ Len(Append(s, m)) = Len(s) + 1 /\ Len(s) \in Nat
         /\ \A i \in 1..Len(s) : Append(s, m)[i] = s[i]
         /\ Append(s, m)[Len(s) + 1] = m
OBVIOUS

\* The message of a failed try.
Alert(t, broken, final) ==
  [task |-> t, try |-> task[t].try, kind |-> IF final THEN "final" ELSE "retry",
   thread |-> OpenThread(t, broken),
   called |-> "registry" \notin broken /\ (task[t].try <= 1 \/ final),
   error |-> Diagnosis(t, broken)]

LEMMA AlertType ==
  ASSUME TypeInv, NEW t \in Tasks, NEW broken \in Outages, NEW final \in BOOLEAN
  PROVE  /\ Alert(t, broken, final) \in Message
         /\ OpenThread(t, broken) \in {0, thread[t]}
<1>1. task[t].try \in Nat \ {0} /\ thread[t] \in Nat
  BY DEF TypeInv, TaskType, DataType
<1>2. OpenThread(t, broken) \in {0, thread[t]}
  BY DEF OpenThread
<1>3. ("registry" \notin broken /\ (task[t].try <= 1 \/ final)) \in BOOLEAN
  OBVIOUS
<1>4. Diagnosis(t, broken) \in ErrorTypes \cup {NULL}
  BY DiagnosisType
<1>5. (IF final THEN "final" ELSE "retry") \in Kinds
  BY DEF Kinds
<1> QED
  BY <1>1, <1>2, <1>3, <1>4, <1>5 DEF Alert, Message

\* What a failed try changes, in either callback.
AlertStep(t, broken, final) ==
  /\ task[t].state = "running"
  /\ final <=> task[t].try = task[t].max
  /\ task' = [task EXCEPT ![t].state = IF final THEN "failed" ELSE "waiting"]
  /\ FailureAlert(t, broken, final)
  /\ log' = log /\ clears' = clears

LEMMA AlertPosts ==
  ASSUME TypeInv, NEW t \in Tasks, NEW broken \in Outages, NEW final \in BOOLEAN,
         AlertStep(t, broken, final)
  PROVE  /\ posts' = IF "slack" \in broken THEN posts
                     ELSE Append(posts, Alert(t, broken, final))
         /\ posts' \in Seq(Message) /\ Len(posts) \in Nat
         /\ Len(posts') = IF "slack" \in broken THEN Len(posts) ELSE Len(posts) + 1
         /\ \A i \in 1..Len(posts) : posts'[i] = posts[i]
         /\ "slack" \notin broken => posts'[Len(posts) + 1] = Alert(t, broken, final)
<1>1. posts' = IF "slack" \in broken THEN posts ELSE Append(posts, Alert(t, broken, final))
  BY DEF AlertStep, FailureAlert, Silenced, Alert
<1>2. posts \in Seq(Message) /\ Alert(t, broken, final) \in Message
  BY AlertType DEF TypeInv, DataType
<1>3. Len(posts) \in Nat
  BY <1>2
<1>4. CASE "slack" \in broken
  BY <1>1, <1>2, <1>3, <1>4
<1>5. CASE "slack" \notin broken
  <2> HIDE DEF Alert
  <2>1. posts' = Append(posts, Alert(t, broken, final))
    BY <1>1, <1>5
  <2> QED
    BY <1>2, <1>5, <2>1, Appended
<1> QED
  BY <1>4, <1>5

\* How a failed try leaves its task and the thread file.
LEMMA AlertTask ==
  ASSUME TypeInv, NEW t \in Tasks, NEW broken \in Outages, NEW final \in BOOLEAN,
         AlertStep(t, broken, final)
  PROVE  /\ TaskType'
         /\ \A u \in Tasks : /\ task'[u].try = task[u].try /\ task'[u].max = task[u].max
                             /\ u # t => task'[u] = task[u] /\ thread'[u] = thread[u]
         /\ task'[t].state = IF final THEN "failed" ELSE "waiting"
         /\ thread'[t] = IF Remembers(t, broken, final) /\ "slack" \notin broken
                         THEN Len(posts) + 1 ELSE thread[t]
<1>1. TaskType /\ thread \in [Tasks -> Nat]
  BY DEF TypeInv, DataType
<1>2. task' = [task EXCEPT ![t].state = IF final THEN "failed" ELSE "waiting"]
  BY DEF AlertStep
<1>3. thread' = IF Remembers(t, broken, final) /\ "slack" \notin broken
                THEN [thread EXCEPT ![t] = Len(posts) + 1] ELSE thread
  BY DEF AlertStep, FailureAlert, Silenced
<1>4. TaskType'
  BY <1>1, <1>2 DEF TaskType, States
<1>5. \A u \in Tasks : task'[u].try = task[u].try /\ task'[u].max = task[u].max
  BY <1>1, <1>2 DEF TaskType
<1>6. \A u \in Tasks \ {t} : task'[u] = task[u] /\ thread'[u] = thread[u]
  BY <1>1, <1>2, <1>3 DEF TaskType
<1>7. task'[t].state = IF final THEN "failed" ELSE "waiting"
  BY <1>1, <1>2 DEF TaskType
<1>8. thread'[t] = IF Remembers(t, broken, final) /\ "slack" \notin broken
                   THEN Len(posts) + 1 ELSE thread[t]
  BY <1>1, <1>3
<1> QED
  BY <1>4, <1>5, <1>6, <1>7, <1>8

LEMMA AlertTypes ==
  ASSUME TypeInv, NEW t \in Tasks, NEW broken \in Outages, NEW final \in BOOLEAN,
         AlertStep(t, broken, final)
  PROVE  TypeInv'
<1>1. DataType /\ TryBounds /\ ThreadFiles /\ TaskType
  BY DEF TypeInv
<1>2. task[t].try \in Nat \ {0}
  BY <1>1 DEF TaskType
<1>3. DataType'
  <2>1. log' \in [Tasks -> UNION {Logs[u] : u \in Tasks}] /\ clears' \in 0..MaxClears
    BY <1>1 DEF AlertStep, DataType
  <2>2. thread' \in [Tasks -> Nat]
    BY <1>1, AlertPosts DEF AlertStep, FailureAlert, DataType
  <2>3. record' \in [Tasks -> Nat]
    BY <1>1, <1>2 DEF AlertStep, FailureAlert, DataType
  <2>4. posts' \in Seq(Message)
    BY AlertPosts
  <2>5. failures' \in SUBSET (Tasks \X Nat) /\ unsent' \in SUBSET (Tasks \X Nat)
    <3>1. <<t, task[t].try>> \in Tasks \X Nat
      BY <1>2
    <3>2. /\ failures' = failures \cup {<<t, task[t].try>>}
          /\ unsent' = IF "slack" \in broken THEN unsent \cup {<<t, task[t].try>>} ELSE unsent
      BY DEF AlertStep, FailureAlert
    <3> QED
      BY <1>1, <3>1, <3>2 DEF DataType
  <2>6. torn' \in SUBSET Tasks
    BY <1>1 DEF AlertStep, FailureAlert, DataType
  <2>7. faults' \in 0..MaxFaults
    <3>1. MaxFaults \in Nat
      BY AlertsAssumption DEF AlertsAssumption
    <3>2. broken # {} => faults < MaxFaults
      BY DEF AlertStep, FailureAlert, Breaks
    <3>3. faults' = IF broken = {} THEN faults ELSE faults + 1
      BY DEF AlertStep, FailureAlert, Breaks
    <3> QED
      BY <1>1, <3>1, <3>2, <3>3 DEF DataType
  <2> QED
    BY <2>1, <2>2, <2>3, <2>4, <2>5, <2>6, <2>7 DEF DataType
<1>4. TryBounds'
  <2>1. \A u \in Tasks : record'[u] \in {record[u], task[u].try}
    <3>1. record' = IF "record" \in broken THEN record
                    ELSE [record EXCEPT ![t] = task[t].try]
      BY DEF AlertStep, FailureAlert
    <3> QED
      BY <1>1, <3>1 DEF DataType
  <2>2. /\ \A u \in Tasks : /\ task'[u].try = task[u].try /\ task'[u].max = task[u].max
                            /\ u # t => task'[u] = task[u]
        /\ task'[t].state = IF final THEN "failed" ELSE "waiting"
    BY AlertTask
  <2>3. \A u \in Tasks : task[u].try \in Nat /\ record[u] \in Nat
    BY <1>1 DEF TaskType, DataType
  <2>4. ~final => task[t].try < task[t].max
    BY <1>1 DEF AlertStep, TryBounds, TaskType
  <2>5. \A u \in Tasks : task'[u].state = "waiting" => task[u].try < task[u].max
    BY <1>1, <2>2, <2>4 DEF TryBounds
  <2> QED
    BY <1>1, <2>1, <2>2, <2>3, <2>5 DEF TryBounds
<1>5. ThreadFiles'
  <2>1. "slack" \notin broken =>
          /\ posts'[Len(posts) + 1].task = t
          /\ posts'[Len(posts) + 1].thread \in {0, thread[t]}
          /\ ~final => posts'[Len(posts) + 1].kind = "retry"
    <3>1. CASE "slack" \in broken
      BY <3>1
    <3>2. CASE "slack" \notin broken
      <4>1. posts'[Len(posts) + 1] = Alert(t, broken, final)
        BY <3>2, AlertPosts
      <4>2. OpenThread(t, broken) \in {0, thread[t]}
        BY AlertType
      <4>3. /\ Alert(t, broken, final).task = t
            /\ Alert(t, broken, final).thread = OpenThread(t, broken)
            /\ Alert(t, broken, final).kind = IF final THEN "final" ELSE "retry"
        BY DEF Alert
      <4> QED
        BY <4>1, <4>2, <4>3
    <3> QED
      BY <3>1, <3>2
  <2>2. thread[t] \in Nat /\ Len(posts) \in Nat
    BY <1>1, AlertPosts DEF DataType
  <2>3. \A u \in Tasks : thread'[u] # 0 =>
          /\ thread'[u] \in 1..Len(posts')
          /\ posts'[thread'[u]].task = u /\ posts'[thread'[u]].kind = "retry"
    <3> TAKE u \in Tasks
    <3>1. CASE u # t
      BY <1>1, <2>2, <3>1, AlertTask, AlertPosts DEF ThreadFiles
    <3>2. CASE u = t
      <4>1. CASE Remembers(t, broken, final) /\ "slack" \notin broken
        BY <2>1, <2>2, <3>2, <4>1, AlertTask, AlertPosts DEF Remembers
      <4>2. CASE ~(Remembers(t, broken, final) /\ "slack" \notin broken)
        <5>1. thread'[u] = thread[u]
          BY <3>2, <4>2, AlertTask
        <5> QED
          BY <1>1, <2>2, <5>1, AlertPosts DEF ThreadFiles
      <4> QED
        BY <4>1, <4>2
    <3> QED
      BY <3>1, <3>2
  <2>4. \A i \in 1..Len(posts') : posts'[i].thread # 0 =>
          /\ posts'[i].thread \in 1..(i - 1)
          /\ posts'[posts'[i].thread].task = posts'[i].task
          /\ posts'[posts'[i].thread].kind = "retry"
    <3> SUFFICES ASSUME NEW i \in 1..Len(posts'), posts'[i].thread # 0
                 PROVE  /\ posts'[i].thread \in 1..(i - 1)
                        /\ posts'[posts'[i].thread].task = posts'[i].task
                        /\ posts'[posts'[i].thread].kind = "retry"
      OBVIOUS
    <3>1. CASE i \in 1..Len(posts)
      <4>1. posts'[i] = posts[i]
        BY <3>1, AlertPosts
      <4>2. /\ posts[i].thread \in 1..(i - 1)
            /\ posts[posts[i].thread].task = posts[i].task
            /\ posts[posts[i].thread].kind = "retry"
        BY <1>1, <3>1, <4>1 DEF ThreadFiles
      <4>3. posts[i].thread \in 1..Len(posts)
        BY <2>2, <3>1, <4>2
      <4> QED
        BY <4>1, <4>2, <4>3, AlertPosts
    <3>2. CASE i \notin 1..Len(posts)
      <4>1. i = Len(posts) + 1 /\ "slack" \notin broken
        BY <2>2, <3>2, AlertPosts
      <4>2. posts'[i].thread = thread[t] /\ posts'[i].task = t
        BY <2>1, <4>1
      <4>3. /\ thread[t] \in 1..Len(posts)
            /\ posts[thread[t]].task = t /\ posts[thread[t]].kind = "retry"
        BY <1>1, <4>2 DEF ThreadFiles
      <4> QED
        BY <2>2, <4>1, <4>2, <4>3, AlertPosts
    <3> QED
      BY <3>1, <3>2
  <2> QED
    BY <2>3, <2>4 DEF ThreadFiles
<1> QED
  BY <1>3, <1>4, <1>5, AlertTask DEF TypeInv

\* A failed try is recorded once, and its message is the only one of it.
LEMMA AlertReports ==
  ASSUME Inv, NEW t \in Tasks, NEW broken \in Outages, NEW final \in BOOLEAN,
         AlertStep(t, broken, final)
  PROVE  ReportInv'
<1> DEFINE n == task[t].try
           m == Alert(t, broken, final)
<1>1. TypeInv /\ ReportInv
  BY DEF Inv
<1>2. n \in Nat \ {0} /\ Len(posts) \in Nat
  BY <1>1, AlertPosts DEF TypeInv, TaskType
<1>3. /\ failures' = failures \cup {<<t, n>>}
      /\ unsent' = IF "slack" \in broken THEN unsent \cup {<<t, n>>} ELSE unsent
      /\ faults' = 0 => broken = {} /\ faults = 0
      /\ task[t].state = "running"
  <2>1. faults \in Nat
    BY <1>1 DEF TypeInv, DataType
  <2>2. faults' = IF broken = {} THEN faults ELSE faults + 1
    BY DEF AlertStep, FailureAlert, Breaks
  <2>3. faults' = 0 => broken = {} /\ faults = 0
    BY <2>1, <2>2
  <2> QED
    BY <2>3 DEF AlertStep, FailureAlert
<1>4. /\ \A u \in Tasks : task'[u].try = task[u].try /\ (u # t => task'[u] = task[u])
      /\ task'[t].state \in {"waiting", "failed"}
  BY <1>1, AlertTask
<1>5. /\ Len(posts') = IF "slack" \in broken THEN Len(posts) ELSE Len(posts) + 1
      /\ \A i \in 1..Len(posts) : posts'[i] = posts[i]
      /\ "slack" \notin broken => posts'[Len(posts) + 1] = m
  BY <1>1, AlertPosts
<1>6. /\ m.task = t /\ m.try = n /\ m.kind \in Alerts
      /\ final /\ broken = {} => m.called
      /\ m.kind = "final" => final
  <2>1. m.task = t /\ m.try = n /\ m.kind = IF final THEN "final" ELSE "retry"
    BY DEF Alert
  <2>2. m.called = ("registry" \notin broken /\ (n <= 1 \/ final))
    BY DEF Alert
  <2> QED
    BY <2>1, <2>2 DEF Alerts
<1>7. <<t, n>> \notin failures
  BY <1>1, <1>2, <1>3 DEF ReportInv
<1>8. \A u \in Tasks, k \in Nat : <<u, k>> \in failures' =>
        /\ k <= task'[u].try
        /\ task'[u].state = "running" => k < task'[u].try
        /\ <<u, k>> \notin unsent' => \E i \in 1..Len(posts') :
             posts'[i].task = u /\ posts'[i].kind \in Alerts /\ posts'[i].try = k
  <2> HIDE DEF m
  <2> SUFFICES ASSUME NEW u \in Tasks, NEW k \in Nat, <<u, k>> \in failures'
               PROVE  /\ k <= task'[u].try
                      /\ task'[u].state = "running" => k < task'[u].try
                      /\ <<u, k>> \notin unsent' => \E i \in 1..Len(posts') :
                           posts'[i].task = u /\ posts'[i].kind \in Alerts /\ posts'[i].try = k
    OBVIOUS
  <2>1. CASE u = t /\ k = n
    <3>1. k <= task'[u].try /\ task'[u].state # "running"
      BY <1>2, <1>4, <2>1
    <3>2. <<u, k>> \notin unsent' => "slack" \notin broken
      BY <1>3, <2>1
    <3> QED
      BY <1>2, <1>5, <1>6, <2>1, <3>1, <3>2
  <2>2. CASE ~(u = t /\ k = n)
    <3>1. <<u, k>> \in failures
      BY <1>3, <2>2
    <3>2. /\ k <= task[u].try
          /\ task[u].state = "running" => k < task[u].try
          /\ <<u, k>> \notin unsent => \E i \in 1..Len(posts) :
               posts[i].task = u /\ posts[i].kind \in Alerts /\ posts[i].try = k
      BY <1>1, <3>1 DEF ReportInv
    <3>3. k <= task'[u].try /\ (task'[u].state = "running" => k < task'[u].try)
      BY <1>4, <3>2
    <3>4. <<u, k>> \notin unsent' => <<u, k>> \notin unsent
      BY <1>3
    <3> QED
      BY <1>2, <1>5, <3>2, <3>3, <3>4
  <2> QED
    BY <2>1, <2>2
<1>9. \A i \in 1..Len(posts') : posts'[i].kind \in Alerts =>
        /\ <<posts'[i].task, posts'[i].try>> \in failures'
        /\ \A j \in 1..Len(posts') : SameTry(posts'[i], posts'[j]) => i = j
        /\ posts'[i].kind = "final" /\ faults' = 0 => posts'[i].called
  <2> HIDE DEF m, n
  <2>1. \A i \in 1..Len(posts') \ (1..Len(posts)) :
          i = Len(posts) + 1 /\ posts'[i] = m
    BY <1>2, <1>5
  <2>2. \A i \in 1..Len(posts) : posts'[i].kind \in Alerts =>
          /\ <<posts'[i].task, posts'[i].try>> \in failures
          /\ posts'[i].kind = "final" /\ faults' = 0 => posts'[i].called
          /\ \A j \in 1..Len(posts) : SameTry(posts'[i], posts'[j]) => i = j
    BY <1>1, <1>3, <1>5 DEF ReportInv
  <2>3. \A i \in 1..Len(posts) : posts'[i].kind \in Alerts =>
          ~(posts'[i].task = t /\ posts'[i].try = n)
    BY <1>7, <2>2
  <2>4. \A i \in 1..Len(posts') : posts'[i].kind \in Alerts =>
          <<posts'[i].task, posts'[i].try>> \in failures'
    BY <1>3, <1>6, <2>1, <2>2
  <2>5. \A i \in 1..Len(posts') : posts'[i].kind \in Alerts =>
          \A j \in 1..Len(posts') : SameTry(posts'[i], posts'[j]) => i = j
    <3> SUFFICES ASSUME NEW i \in 1..Len(posts'), NEW j \in 1..Len(posts'),
                        posts'[i].kind \in Alerts, SameTry(posts'[i], posts'[j])
                 PROVE  i = j
      OBVIOUS
    <3>1. CASE i \in 1..Len(posts) /\ j \in 1..Len(posts)
      BY <2>2, <3>1
    <3>2. CASE i \in 1..Len(posts) /\ j \notin 1..Len(posts)
      BY <1>6, <2>1, <2>3, <3>2 DEF SameTry
    <3>3. CASE i \notin 1..Len(posts) /\ j \in 1..Len(posts)
      BY <1>6, <2>1, <2>3, <3>3 DEF SameTry
    <3>4. CASE i \notin 1..Len(posts) /\ j \notin 1..Len(posts)
      BY <2>1, <3>4
    <3> QED
      BY <3>1, <3>2, <3>3, <3>4
  <2>6. \A i \in 1..Len(posts') : posts'[i].kind = "final" /\ faults' = 0 =>
          posts'[i].called
    BY <1>3, <1>6, <2>1, <2>2 DEF Alerts
  <2> QED
    BY <2>4, <2>5, <2>6
<1> QED
  BY <1>8, <1>9 DEF ReportInv

\* A failed try speaks in the thread of its task, or opens it.
LEMMA AlertThreads ==
  ASSUME Inv, NEW t \in Tasks, NEW broken \in Outages, NEW final \in BOOLEAN,
         AlertStep(t, broken, final)
  PROVE  ThreadInv'
<1> DEFINE m == Alert(t, broken, final)
<1>1. TypeInv /\ ThreadInv
  BY DEF Inv
<1>2. Len(posts) \in Nat /\ thread[t] \in Nat
  BY <1>1, AlertPosts DEF TypeInv, DataType
<1>3. /\ Len(posts') = IF "slack" \in broken THEN Len(posts) ELSE Len(posts) + 1
      /\ \A i \in 1..Len(posts) : posts'[i] = posts[i]
      /\ "slack" \notin broken => posts'[Len(posts) + 1] = m
  BY <1>1, AlertPosts
<1>4. /\ \A u \in Tasks : u # t => task'[u] = task[u] /\ thread'[u] = thread[u]
      /\ thread'[t] = IF Remembers(t, broken, final) /\ "slack" \notin broken
                      THEN Len(posts) + 1 ELSE thread[t]
  BY <1>1, AlertTask
<1>5. /\ m.task = t /\ m.kind \in Alerts
      /\ m.thread = IF "read" \in broken THEN 0 ELSE thread[t]
  BY DEF Alert, Alerts, OpenThread
<1>6. /\ torn \subseteq torn'
      /\ t \notin torn' => broken \cap {"read", "slack", "remember"} = {}
  BY DEF AlertStep, FailureAlert
<1>7. t \notin torn' /\ thread[t] = 0 => ~final
  <2>1. t \notin torn' /\ thread[t] = 0 => task[t].try = 1
    BY <1>1, <1>6 DEF ThreadInv
  <2>2. 2 <= task[t].max
    BY <1>1 DEF TypeInv, TryBounds
  <2> QED
    BY <2>1, <2>2 DEF AlertStep
<1> HIDE DEF m
<1>8. \A i \in 1..Len(posts') \ (1..Len(posts)) : i = Len(posts) + 1 /\ posts'[i] = m
  BY <1>2, <1>3
<1>9. \A i \in 1..Len(posts') : posts'[i].kind = "recovered" => posts'[i].thread # 0
  BY <1>1, <1>3, <1>5, <1>8 DEF ThreadInv, Alerts
<1>10. ASSUME NEW u \in Tasks \ torn', u # t
       PROVE  /\ thread'[u] = 0 =>
                   /\ task'[u].try = 1 /\ task'[u].state \in {"running", "success"}
                   /\ \A i \in 1..Len(posts') : ~Speaks(i, u)'
              /\ thread'[u] # 0 =>
                   /\ posts'[thread'[u]].thread = 0
                   /\ \A i \in 1..Len(posts') : Speaks(i, u)' =>
                        /\ thread'[u] <= i
                        /\ i # thread'[u] => posts'[i].thread = thread'[u]
  <2>1. u \notin torn /\ task'[u] = task[u] /\ thread'[u] = thread[u]
    BY <1>4, <1>6, <1>10
  <2>2. \A i \in 1..Len(posts') : Speaks(i, u)' =>
          i \in 1..Len(posts) /\ Speaks(i, u) /\ posts'[i] = posts[i]
    BY <1>3, <1>5, <1>8, <1>10 DEF Speaks
  <2>3. thread[u] # 0 => posts'[thread[u]] = posts[thread[u]]
    BY <1>1, <1>3 DEF TypeInv, ThreadFiles
  <2> QED
    BY <1>1, <2>1, <2>2, <2>3 DEF ThreadInv
<1>11. ASSUME t \notin torn'
       PROVE  /\ thread'[t] # 0 /\ posts'[thread'[t]].thread = 0
              /\ \A i \in 1..Len(posts') : Speaks(i, t)' =>
                   /\ thread'[t] <= i
                   /\ i # thread'[t] => posts'[i].thread = thread'[t]
  <2>1. t \notin torn /\ "read" \notin broken /\ "slack" \notin broken /\ "remember" \notin broken
    BY <1>6, <1>11
  <2>2. Len(posts') = Len(posts) + 1 /\ posts'[Len(posts) + 1] = m /\ m.thread = thread[t]
    BY <1>3, <1>5, <2>1
  <2>3. CASE thread[t] = 0
    <3>1. thread'[t] = Len(posts) + 1
      BY <1>4, <1>7, <1>11, <2>1, <2>3 DEF Remembers, OpenThread
    <3>2. \A i \in 1..Len(posts') : Speaks(i, t)' => i = Len(posts) + 1
      <4>1. \A i \in 1..Len(posts) : ~Speaks(i, t)
        BY <1>1, <2>1, <2>3 DEF ThreadInv
      <4> QED
        BY <1>3, <1>8, <4>1 DEF Speaks
    <3> QED
      BY <1>2, <2>2, <2>3, <3>1, <3>2
  <2>4. CASE thread[t] # 0
    <3>1. thread'[t] = thread[t] /\ thread[t] \in 1..Len(posts)
      BY <1>1, <1>4, <2>1, <2>4 DEF Remembers, OpenThread, TypeInv, ThreadFiles
    <3>2. /\ posts[thread[t]].thread = 0
          /\ \A i \in 1..Len(posts) : Speaks(i, t) =>
               /\ thread[t] <= i
               /\ i # thread[t] => posts[i].thread = thread[t]
      BY <1>1, <2>1, <2>4 DEF ThreadInv
    <3>3. \A i \in 1..Len(posts) : Speaks(i, t)' <=> Speaks(i, t)
      BY <1>3 DEF Speaks
    <3> QED
      BY <1>2, <1>3, <1>8, <2>2, <2>4, <3>1, <3>2, <3>3
  <2> QED
    BY <2>3, <2>4
<1> QED
  BY <1>9, <1>10, <1>11 DEF ThreadInv

-----------------------------------------------------------------------------
\* A step that leaves the posts and the failures alone: a task moves on.
LEMMA MoveOn ==
  ASSUME Inv, NEW t \in Tasks, Retry(t) \/ Clear(t)
  PROVE  Inv'
<1>1. TaskType /\ DataType /\ TryBounds /\ ThreadFiles /\ ReportInv /\ ThreadInv
  BY DEF Inv, TypeInv
<1>2. UNCHANGED <<log, thread, record, posts, failures, unsent, torn, faults>>
  BY DEF Retry, Clear
<1>3. task[t] \in [try : Nat \ {0}, max : Nat \ {0}, state : States]
  BY <1>1 DEF TaskType
<1>4. Retries[t] \in Nat \ {0} /\ MaxClears \in Nat
  BY AlertsAssumption DEF AlertsAssumption
<1>5. /\ task' \in [Tasks -> [try : Nat \ {0}, max : Nat \ {0}, state : States]]
      /\ \A u \in Tasks \ {t} : task'[u] = task[u]
      /\ task'[t].try = task[t].try + 1 /\ task'[t].state = "running"
      /\ task[t].state \in {"waiting", "failed"}
      /\ task'[t].max = IF task[t].state = "waiting" THEN task[t].max
                        ELSE task[t].try + 1 + Retries[t]
  <2>1. CASE Retry(t)
    <3>1. task' = [task EXCEPT ![t] = [try |-> task[t].try + 1, max |-> task[t].max,
                                       state |-> "running"]]
      <4>1. task' = [task EXCEPT ![t].state = "running", ![t].try = @ + 1]
        BY <2>1 DEF Retry
      <4> QED
        BY <1>1, <1>3, <4>1 DEF TaskType
    <3>2. task[t].state = "waiting"
      BY <2>1 DEF Retry
    <3> QED
      BY <1>1, <1>3, <3>1, <3>2 DEF TaskType, States
  <2>2. CASE Clear(t)
    <3>1. /\ task[t].state = "failed"
          /\ task' = [task EXCEPT ![t] = [try |-> task[t].try + 1,
                                          max |-> task[t].try + 1 + Retries[t],
                                          state |-> "running"]]
      BY <2>2 DEF Clear
    <3> QED
      BY <1>1, <1>3, <1>4, <3>1 DEF TaskType, States
  <2> QED
    BY <2>1, <2>2
<1>6. clears' \in 0..MaxClears
  <2>1. CASE Retry(t)
    BY <1>1, <2>1 DEF Retry, DataType
  <2>2. CASE Clear(t)
    BY <1>1, <1>4, <2>2 DEF Clear, DataType
  <2> QED
    BY <2>1, <2>2
<1>7. TypeInv'
  <2>1. DataType'
    BY <1>1, <1>2, <1>6 DEF DataType
  <2>2. ThreadFiles'
    BY <1>1, <1>2 DEF ThreadFiles
  <2>3. TryBounds'
    <3>1. task[t].state = "waiting" => task[t].try < task[t].max
      BY <1>1 DEF TryBounds
    <3>2. record[t] \in Nat /\ record[t] <= task[t].try /\ 2 <= task[t].max
      BY <1>1 DEF TryBounds, DataType
    <3>3. /\ task'[t].try <= task'[t].max /\ 2 <= task'[t].max
          /\ record'[t] <= task'[t].try
      BY <1>2, <1>3, <1>4, <1>5, <3>1, <3>2
    <3> QED
      BY <1>1, <1>2, <1>5, <3>3 DEF TryBounds
  <2> QED
    BY <1>5, <2>1, <2>2, <2>3 DEF TypeInv, TaskType
<1>8. ReportInv'
  <2>1. \A u \in Tasks, n \in Nat : <<u, n>> \in failures =>
          n <= task'[u].try /\ (task'[u].state = "running" => n < task'[u].try)
    <3> SUFFICES ASSUME NEW u \in Tasks, NEW n \in Nat, <<u, n>> \in failures
                 PROVE  n <= task'[u].try /\ (task'[u].state = "running" => n < task'[u].try)
      OBVIOUS
    <3>1. n <= task[u].try /\ (task[u].state = "running" => n < task[u].try)
      BY <1>1 DEF ReportInv
    <3>2. CASE u = t
      BY <1>3, <1>5, <3>1, <3>2
    <3>3. CASE u # t
      BY <1>5, <3>1, <3>3
    <3> QED
      BY <3>2, <3>3
  <2> QED
    BY <1>1, <1>2, <2>1 DEF ReportInv
<1>9. ThreadInv'
  <2>1. t \notin torn => thread[t] # 0
    BY <1>1, <1>5 DEF ThreadInv
  <2>2. \A u \in Tasks \ torn : thread[u] = 0 => u # t /\ task'[u] = task[u]
    BY <1>5, <2>1
  <2> QED
    BY <1>1, <1>2, <2>2 DEF ThreadInv, Speaks
<1> QED
  BY <1>7, <1>8, <1>9 DEF Inv

\* A step that only adds a message about a success.
QuietPost(t, kind, open) ==
  [task |-> t, try |-> IF kind = "summary" THEN 1 ELSE task[t].try, kind |-> kind,
   thread |-> open, called |-> FALSE, error |-> NULL]

LEMMA SayMore ==
  ASSUME Inv, NEW t \in Tasks, NEW kind \in {"recovered", "summary"}, NEW open \in Nat,
         kind = "recovered" => open # 0 /\ open = thread[t],
         kind = "summary" => open = 0,
         posts' = Append(posts, QuietPost(t, kind, open)),
         UNCHANGED <<log, thread, record, failures, unsent, torn, clears>>,
         faults' \in faults..MaxFaults,
         TaskType',
         \A u \in Tasks : \/ task'[u] = task[u]
                          \/ /\ task'[u].try = task[u].try /\ task'[u].max = task[u].max
                             /\ task'[u].state = "success"
  PROVE  Inv'
<1> DEFINE m == QuietPost(t, kind, open)
<1>1. TaskType /\ DataType /\ TryBounds /\ ThreadFiles /\ ReportInv /\ ThreadInv
  BY DEF Inv, TypeInv
<1>2. m \in Message
  <2>1. task[t].try \in Nat \ {0}
    BY <1>1 DEF TaskType
  <2> QED
    BY <2>1 DEF QuietPost, Message, Kinds
<1>3. m.task = t /\ m.kind = kind /\ m.thread = open
  BY DEF QuietPost
<1> HIDE DEF m
<1>4. posts \in Seq(Message) /\ posts' = Append(posts, m)
  BY <1>1 DEF DataType, m
<1>5. /\ posts' \in Seq(Message) /\ Len(posts) \in Nat /\ Len(posts') = Len(posts) + 1
      /\ \A i \in 1..Len(posts) : posts'[i] = posts[i]
      /\ posts'[Len(posts) + 1] = m
  BY <1>2, <1>4, Appended
<1>6. \A i \in 1..Len(posts') : i \in 1..Len(posts) \/ (i = Len(posts) + 1 /\ posts'[i] = m)
  BY <1>5
<1>7. DataType'
  <2>1. faults' \in 0..MaxFaults
    BY <1>1 DEF DataType
  <2> QED
    BY <1>1, <1>5, <2>1 DEF DataType
<1>8. TryBounds'
  <2>1. \A u \in Tasks : /\ task'[u].try = task[u].try /\ task'[u].max = task[u].max
                         /\ task'[u].state = "waiting" => task[u].state = "waiting"
    OBVIOUS
  <2> QED
    BY <1>1, <2>1 DEF TryBounds
<1>9. ThreadFiles'
  <2>1. \A u \in Tasks : thread'[u] # 0 =>
          /\ thread'[u] \in 1..Len(posts')
          /\ posts'[thread'[u]].task = u /\ posts'[thread'[u]].kind = "retry"
    BY <1>1, <1>5 DEF ThreadFiles
  <2>2. open # 0 => open \in 1..Len(posts) /\ posts[open].task = t /\ posts[open].kind = "retry"
    BY <1>1 DEF ThreadFiles
  <2>3. \A i \in 1..Len(posts) : posts[i].thread # 0 =>
          /\ posts[i].thread \in 1..(i - 1) /\ posts[i].thread \in 1..Len(posts)
          /\ posts[posts[i].thread].task = posts[i].task
          /\ posts[posts[i].thread].kind = "retry"
    BY <1>1, <1>5 DEF ThreadFiles
  <2>4. \A i \in 1..Len(posts) : posts'[i].thread # 0 =>
          /\ posts'[i].thread \in 1..(i - 1)
          /\ posts'[posts'[i].thread].task = posts'[i].task
          /\ posts'[posts'[i].thread].kind = "retry"
    BY <1>5, <2>3
  <2>5. m.thread # 0 =>
          /\ m.thread \in 1..Len(posts)
          /\ posts'[m.thread].task = m.task /\ posts'[m.thread].kind = "retry"
    BY <1>3, <1>5, <2>2
  <2> QED
    BY <1>5, <1>6, <2>1, <2>4, <2>5 DEF ThreadFiles
<1>10. ReportInv'
  <2>1. m.kind \notin Alerts
    BY <1>3 DEF Alerts
  <2>2. faults' = 0 => faults = 0
    BY <1>1 DEF DataType
  <2>3. \A u \in Tasks : task'[u].try = task[u].try /\ (task'[u].state = "running" => task[u].state = "running")
    OBVIOUS
  <2>4. \A u \in Tasks, n \in Nat : <<u, n>> \in failures' =>
          /\ n <= task'[u].try
          /\ task'[u].state = "running" => n < task'[u].try
          /\ <<u, n>> \notin unsent' => \E i \in 1..Len(posts') :
               posts'[i].task = u /\ posts'[i].kind \in Alerts /\ posts'[i].try = n
    BY <1>1, <1>5, <2>3 DEF ReportInv
  <2>5. \A i \in 1..Len(posts') : posts'[i].kind \in Alerts =>
          i \in 1..Len(posts) /\ posts'[i] = posts[i]
    BY <1>5, <1>6, <2>1
  <2>6. \A i \in 1..Len(posts') : posts'[i].kind \in Alerts =>
          /\ <<posts'[i].task, posts'[i].try>> \in failures'
          /\ \A j \in 1..Len(posts') : SameTry(posts'[i], posts'[j]) => i = j
          /\ posts'[i].kind = "final" /\ faults' = 0 => posts'[i].called
    BY <1>1, <2>2, <2>5 DEF ReportInv, SameTry
  <2> QED
    BY <2>4, <2>6 DEF ReportInv
<1>11. ThreadInv'
  <2>1. \A i \in 1..Len(posts') : posts'[i].kind = "recovered" => posts'[i].thread # 0
    BY <1>1, <1>3, <1>5, <1>6 DEF ThreadInv
  <2>2. \A u \in Tasks \ torn : \A i \in 1..Len(posts') : Speaks(i, u)' =>
          \/ i \in 1..Len(posts) /\ Speaks(i, u) /\ posts'[i] = posts[i]
          \/ i = Len(posts) + 1 /\ posts'[i].thread = thread[u] /\ thread[u] # 0
    BY <1>3, <1>5, <1>6 DEF Speaks
  <2>3. \A u \in Tasks : thread[u] # 0 =>
          thread[u] \in 1..Len(posts) /\ posts'[thread[u]] = posts[thread[u]]
    BY <1>1, <1>5 DEF ThreadFiles
  <2> QED
    BY <1>1, <1>5, <2>1, <2>2, <2>3 DEF ThreadInv
<1> QED
  BY <1>7, <1>8, <1>9, <1>10, <1>11 DEF Inv, TypeInv

LEMMA SucceedStep ==
  ASSUME Inv, NEW t \in Tasks, NEW broken \in Outages, Succeed(t, broken)
  PROVE  Inv'
<1> DEFINE open == OpenThread(t, broken)
           speaks == ~(task[t].try <= 1 \/ open = 0 \/ "slack" \in broken)
<1>1. TaskType /\ DataType /\ TryBounds /\ ThreadFiles /\ ReportInv /\ ThreadInv
  BY DEF Inv, TypeInv
<1>2. /\ UNCHANGED <<log, thread, record, failures, unsent, torn, clears>>
      /\ task[t].state = "running"
      /\ task' = [task EXCEPT ![t].state = "success"]
      /\ posts' = IF speaks THEN Append(posts, QuietPost(t, "recovered", open)) ELSE posts
  BY DEF Succeed, QuietPost
<1>3. TaskType'
  BY <1>1, <1>2 DEF TaskType, States
<1>4. \A u \in Tasks : \/ task'[u] = task[u]
                       \/ /\ task'[u].try = task[u].try /\ task'[u].max = task[u].max
                          /\ task'[u].state = "success" /\ task[u].state = "running"
  BY <1>1, <1>2 DEF TaskType
<1>5. faults' \in faults..MaxFaults
  <2>1. MaxFaults \in Nat
    BY AlertsAssumption DEF AlertsAssumption
  <2>2. /\ broken # {} => faults < MaxFaults
        /\ faults' = IF broken = {} THEN faults ELSE faults + 1
    BY DEF Succeed, Breaks
  <2> QED
    BY <1>1, <2>1, <2>2 DEF DataType
<1>6. CASE speaks
  <2>1. open = thread[t] /\ open # 0 /\ open \in Nat
    BY <1>1, <1>6 DEF OpenThread, DataType
  <2>2. posts' = Append(posts, QuietPost(t, "recovered", open))
    BY <1>2, <1>6
  <2> HIDE DEF open
  <2> QED
    BY <1>2, <1>3, <1>4, <1>5, <2>1, <2>2, SayMore
<1>7. CASE ~speaks
  <2> HIDE DEF speaks
  <2>1. posts' = posts
    BY <1>2, <1>7
  <2>2. DataType' /\ ThreadFiles'
    <3>1. faults' \in 0..MaxFaults
      BY <1>1, <1>5 DEF DataType
    <3> QED
      BY <1>1, <1>2, <2>1, <3>1 DEF DataType, ThreadFiles
  <2>3. TryBounds'
    <3>1. \A u \in Tasks : /\ task'[u].try = task[u].try /\ task'[u].max = task[u].max
                           /\ task'[u].state = "waiting" => task[u].state = "waiting"
      BY <1>4
    <3> QED
      BY <1>1, <1>2, <3>1 DEF TryBounds
  <2>4. ReportInv'
    <3>1. \A u \in Tasks : /\ task'[u].try = task[u].try
                           /\ task'[u].state = "running" => task[u].state = "running"
      BY <1>4
    <3>2. faults' = 0 => faults = 0
      BY <1>1, <1>5 DEF DataType
    <3> QED
      BY <1>1, <1>2, <2>1, <3>1, <3>2 DEF ReportInv
  <2>5. ThreadInv'
    BY <1>1, <1>2, <1>4, <2>1 DEF ThreadInv, Speaks
  <2> QED
    BY <1>3, <2>2, <2>3, <2>4, <2>5 DEF Inv, TypeInv
<1> QED
  BY <1>6, <1>7

LEMMA SummariseStep ==
  ASSUME Inv, Summarise
  PROVE  Inv'
<1>1. PICK t \in Tasks : posts' = Append(posts, [task |-> t, try |-> 1, kind |-> "summary",
                                                thread |-> 0, called |-> FALSE, error |-> NULL])
  BY DEF Summarise
<1>2. posts' = Append(posts, QuietPost(t, "summary", 0))
  BY <1>1 DEF QuietPost
<1>3. /\ UNCHANGED <<log, thread, record, failures, unsent, torn, clears>>
      /\ task' = task /\ faults' = faults
  BY DEF Summarise
<1>4. TaskType'
  BY <1>3 DEF Inv, TypeInv, TaskType
<1>5. faults' \in faults..MaxFaults
  <2>1. MaxFaults \in Nat
    BY AlertsAssumption DEF AlertsAssumption
  <2> QED
    BY <1>3, <2>1 DEF Inv, TypeInv, DataType
<1> QED
  BY <1>2, <1>3, <1>4, <1>5, SayMore

LEMMA AlertPreserves ==
  ASSUME Inv, NEW t \in Tasks, NEW broken \in Outages,
         FailTry(t, broken) \/ FailTask(t, broken)
  PROVE  Inv'
<1>1. TypeInv
  BY DEF Inv
<1>2. CASE FailTry(t, broken)
  <2>1. AlertStep(t, broken, FALSE)
    <3>1. task[t].try # task[t].max
      BY <1>1, <1>2 DEF FailTry, TypeInv, TaskType
    <3> QED
      BY <1>2, <3>1 DEF FailTry, AlertStep
  <2> QED
    BY <1>1, <2>1, AlertTypes, AlertReports, AlertThreads DEF Inv
<1>3. CASE FailTask(t, broken)
  <2>1. AlertStep(t, broken, TRUE)
    BY <1>3 DEF FailTask, AlertStep
  <2> QED
    BY <1>1, <2>1, AlertTypes, AlertReports, AlertThreads DEF Inv
<1> QED
  BY <1>2, <1>3

LEMMA InitInv == Init => Inv
<1> SUFFICES ASSUME Init
             PROVE  Inv
  OBVIOUS
<1>1. \A t \in Tasks : Retries[t] \in Nat \ {0}
  BY AlertsAssumption DEF AlertsAssumption
<1>2. posts = <<>> /\ Len(posts) = 0 /\ posts \in Seq(Message)
  BY DEF Init
<1>3. \A t \in Tasks :
        /\ task[t].try = 1 /\ task[t].max = Retries[t] + 1 /\ task[t].state = "running"
        /\ thread[t] = 0 /\ record[t] = 0
  <2> TAKE t \in Tasks
  <2>1. task[t] = [try |-> 1, max |-> Retries[t] + 1, state |-> "running"]
    BY DEF Init
  <2> QED
    BY <2>1 DEF Init
<1>4. TaskType
  BY <1>1 DEF Init, TaskType, States
<1>5. DataType
  BY <1>2, AlertsAssumption DEF Init, DataType, AlertsAssumption
<1>6. TryBounds
  BY <1>1, <1>3 DEF TryBounds
<1>7. ThreadFiles
  BY <1>2, <1>3 DEF ThreadFiles
<1>8. ReportInv
  BY <1>2 DEF Init, ReportInv
<1>9. ThreadInv
  BY <1>2, <1>3 DEF ThreadInv
<1> QED
  BY <1>4, <1>5, <1>6, <1>7, <1>8, <1>9 DEF Inv, TypeInv

LEMMA NextInv == Inv /\ [Next]_vars => Inv'
<1> SUFFICES ASSUME Inv, [Next]_vars
             PROVE  Inv'
  OBVIOUS
<1>1. CASE UNCHANGED vars
  <2>1. TypeInv'
    BY <1>1 DEF vars, Inv, TypeInv, TaskType, DataType, TryBounds, ThreadFiles
  <2>2. ReportInv'
    BY <1>1 DEF vars, Inv, ReportInv
  <2>3. ThreadInv'
    BY <1>1 DEF vars, Inv, ThreadInv, Speaks
  <2> QED
    BY <2>1, <2>2, <2>3 DEF Inv
<1>2. CASE \E t \in Tasks, broken \in Outages : FailTry(t, broken) \/ FailTask(t, broken)
  BY <1>2, AlertPreserves
<1>3. CASE \E t \in Tasks, broken \in Outages : Succeed(t, broken)
  BY <1>3, SucceedStep
<1>4. CASE \E t \in Tasks : Retry(t) \/ Clear(t)
  BY <1>4, MoveOn
<1>5. CASE Summarise
  BY <1>5, SummariseStep
<1> QED
  BY <1>1, <1>2, <1>3, <1>4, <1>5 DEF Next

LEMMA Inductive == Spec => []Inv
BY InitInv, NextInv, PTL DEF Spec

-----------------------------------------------------------------------------
\* The types of the alerts; the thread file of a task and every reply name a
\* message of the same task (notifications.py _thread_ts_uri).
THEOREM TypeCorrect == Spec => []TypeOK
<1>1. Inv => TypeOK
  <2> SUFFICES ASSUME Inv
               PROVE  TypeOK
    OBVIOUS
  <2>1. TaskType /\ DataType /\ TryBounds /\ ThreadFiles
    BY DEF Inv, TypeInv
  <2>2. DOMAIN posts = 1..Len(posts) /\ Len(posts) \in Nat
    BY <2>1 DEF DataType
  <2>3. \A t \in Tasks : thread[t] # 0 => thread[t] \in PostsOf(t, {"retry"})
    BY <2>1, <2>2 DEF ThreadFiles, PostsOf
  <2>4. \A i \in DOMAIN posts : posts[i].thread # 0 =>
          posts[i].thread < i /\ posts[i].thread \in PostsOf(posts[i].task, {"retry"})
    BY <2>1, <2>2 DEF ThreadFiles, PostsOf
  <2> QED
    BY <2>1, <2>3, <2>4 DEF TypeOK, TaskType, DataType, TryBounds, Message
<1> QED
  BY <1>1, Inductive, PTL

\* Whatever helper fails in whatever callback, a failed try has exactly one
\* message, or Slack did not take it (_post_task_failure_alert).
THEOREM AlwaysReported == Spec => []FailuresReported
<1>1. Inv => FailuresReported
  <2> SUFFICES ASSUME Inv
               PROVE  FailuresReported
    OBVIOUS
  <2>1. DataType /\ ReportInv
    BY DEF Inv, TypeInv
  <2>2. DOMAIN posts = 1..Len(posts)
    BY <2>1 DEF DataType
  <2>3. ASSUME NEW f \in failures \ unsent
        PROVE  \E i \in PostsOf(f[1], Alerts) : posts[i].try = f[2]
    <3>1. f[1] \in Tasks /\ f[2] \in Nat /\ f = <<f[1], f[2]>>
      BY <2>1 DEF DataType
    <3>2. \E i \in 1..Len(posts) :
            posts[i].task = f[1] /\ posts[i].kind \in Alerts /\ posts[i].try = f[2]
      BY <2>1, <2>3, <3>1 DEF ReportInv
    <3> QED
      BY <2>2, <3>2 DEF PostsOf
  <2>4. \A t \in Tasks : \A i, j \in PostsOf(t, Alerts) : posts[i].try = posts[j].try => i = j
    BY <2>1, <2>2 DEF ReportInv, SameTry, PostsOf
  <2>5. \A i \in DOMAIN posts :
          /\ posts[i].kind \in Alerts => <<posts[i].task, posts[i].try>> \in failures
          /\ posts[i].kind = "final" /\ faults = 0 => posts[i].called
    BY <2>1, <2>2 DEF ReportInv, Alerts
  <2> QED
    BY <2>3, <2>4, <2>5 DEF FailuresReported
<1> QED
  BY <1>1, Inductive, PTL

\* A task leaves one message in the channel while the store and Slack answer;
\* a recovery is always in a thread (_remember_thread_ts, _pull_thread_ts).
THEOREM OneThread == Spec => []OneThreadPerTask
<1>1. Inv => OneThreadPerTask
  <2> SUFFICES ASSUME Inv, NEW t \in Tasks
               PROVE  /\ \A i \in PostsOf(t, {"recovered"}) : posts[i].thread # 0
                      /\ t \notin torn => \A i, j \in PostsOf(t, Kinds \ {"summary"}) :
                           i < j => posts[j].thread =
                                      (IF posts[i].thread = 0 THEN i ELSE posts[i].thread)
    BY DEF OneThreadPerTask
  <2>1. DataType /\ ThreadInv /\ ThreadFiles
    BY DEF Inv, TypeInv
  <2>2. DOMAIN posts = 1..Len(posts) /\ thread[t] \in Nat
    BY <2>1 DEF DataType
  <2>3. \A i \in PostsOf(t, {"recovered"}) : posts[i].thread # 0
    BY <2>1, <2>2 DEF ThreadInv, PostsOf
  <2>4. ASSUME t \notin torn, NEW i \in PostsOf(t, Kinds \ {"summary"}),
               NEW j \in PostsOf(t, Kinds \ {"summary"}), i < j
        PROVE  posts[j].thread = (IF posts[i].thread = 0 THEN i ELSE posts[i].thread)
    <3>1. i \in 1..Len(posts) /\ j \in 1..Len(posts) /\ Speaks(i, t) /\ Speaks(j, t)
      BY <2>2 DEF PostsOf, Speaks
    <3>2. thread[t] # 0
      BY <2>1, <2>4, <3>1 DEF ThreadInv
    <3>3. /\ posts[thread[t]].thread = 0 /\ thread[t] <= i
          /\ i # thread[t] => posts[i].thread = thread[t]
          /\ j # thread[t] => posts[j].thread = thread[t]
      BY <2>1, <2>4, <3>1, <3>2 DEF ThreadInv
    <3>4. j # thread[t]
      BY <2>2, <2>4, <3>1, <3>3
    <3> QED
      BY <3>2, <3>3, <3>4
  <2> QED
    BY <2>3, <2>4
<1> QED
  BY <1>1, Inductive, PTL

-----------------------------------------------------------------------------
\* Every diagnosis that was posted is the one of the window of the log.
KindsOf(lines) == {lines[i] : i \in ErrorWindow(lines)}

LogsGiven == log \in [Tasks -> UNION {Logs[t] : t \in Tasks}]
             /\ \A t \in Tasks : log[t] \in Logs[t]

Diagnosed ==
  \A i \in 1..Len(posts) : posts[i].error # NULL =>
    /\ log[posts[i].task].lines # NULL
    /\ posts[i].error = Classify(KindsOf(log[posts[i].task].lines))

LEMMA DiagnosisGiven ==
  ASSUME NEW t \in Tasks, NEW broken, Diagnosis(t, broken) # NULL
  PROVE  /\ log[t].lines # NULL
         /\ Diagnosis(t, broken) = Classify(KindsOf(log[t].lines))
BY DEF Diagnosis, KindsOf

LEMMA DiagnosedKept == Inv /\ LogsGiven /\ Diagnosed /\ [Next]_vars => LogsGiven' /\ Diagnosed'
<1> SUFFICES ASSUME Inv, LogsGiven, Diagnosed, [Next]_vars
             PROVE  LogsGiven' /\ Diagnosed'
  OBVIOUS
<1>1. log' = log
  BY DEF Next, FailTry, FailTask, Succeed, Retry, Clear, Summarise, vars
<1>2. LogsGiven'
  BY <1>1 DEF LogsGiven
<1>3. posts \in Seq(Message) /\ Len(posts) \in Nat
  BY DEF Inv, TypeInv, DataType
<1>4. ASSUME posts' = posts
      PROVE  Diagnosed'
  <2>1. ASSUME NEW i \in 1..Len(posts'), posts'[i].error # NULL
        PROVE  /\ log'[posts'[i].task].lines # NULL
               /\ posts'[i].error = Classify(KindsOf(log'[posts'[i].task].lines))
    BY <1>1, <1>4, <2>1 DEF Diagnosed
  <2> QED
    BY <2>1 DEF Diagnosed, Classify, KindsOf, ErrorWindow, TerminatedSide
<1>5. ASSUME NEW m \in Message, posts' = Append(posts, m),
             m.error # NULL => /\ log[m.task].lines # NULL
                               /\ m.error = Classify(KindsOf(log[m.task].lines))
      PROVE  Diagnosed'
  <2>1. /\ Len(posts') = Len(posts) + 1 /\ posts'[Len(posts) + 1] = m
        /\ \A i \in 1..Len(posts) : posts'[i] = posts[i]
    BY <1>3, <1>5, Appended
  <2> SUFFICES ASSUME NEW i \in 1..Len(posts'), posts'[i].error # NULL
      PROVE  /\ log[posts'[i].task].lines # NULL
             /\ posts'[i].error = Classify(KindsOf(log[posts'[i].task].lines))
    BY <1>1 DEF Diagnosed
  <2>2. CASE i \in 1..Len(posts)
    BY <2>1, <2>2 DEF Diagnosed
  <2>3. CASE i = Len(posts) + 1
    BY <1>5, <2>1, <2>3
  <2> QED
    BY <1>3, <2>1, <2>2, <2>3
<1>6. ASSUME NEW t \in Tasks, NEW broken \in Outages, NEW final \in BOOLEAN,
             FailureAlert(t, broken, final)
      PROVE  Diagnosed'
  <2>1. posts' = posts \/ posts' = Append(posts, Alert(t, broken, final))
    BY <1>6 DEF FailureAlert, Alert
  <2>2. Alert(t, broken, final) \in Message
    BY AlertType DEF Inv
  <2>3. Alert(t, broken, final).task = t
        /\ Alert(t, broken, final).error = Diagnosis(t, broken)
    BY DEF Alert
  <2> QED
    BY <2>1, <2>2, <2>3, <1>4, <1>5, DiagnosisGiven
<1>7. ASSUME NEW t \in Tasks, NEW broken \in Outages, Succeed(t, broken)
      PROVE  Diagnosed'
  <2> DEFINE m == [task |-> t, try |-> task[t].try, kind |-> "recovered",
                   thread |-> OpenThread(t, broken), called |-> FALSE, error |-> NULL]
  <2>1. m \in Message
    BY DEF Inv, TypeInv, TaskType, DataType, Message, Kinds, OpenThread
  <2>2. posts' = posts \/ posts' = Append(posts, m)
    BY <1>7 DEF Succeed
  <2>3. m.error = NULL
    OBVIOUS
  <2> HIDE DEF m
  <2> QED
    BY <2>1, <2>2, <2>3, <1>4, <1>5
<1>8. CASE Summarise
  <2> DEFINE m(t) == [task |-> t, try |-> 1, kind |-> "summary", thread |-> 0,
                      called |-> FALSE, error |-> NULL]
  <2>1. PICK t \in Tasks : posts' = Append(posts, m(t))
    BY <1>8 DEF Summarise
  <2>2. m(t) \in Message
    BY DEF Message, Kinds
  <2>3. m(t).error = NULL
    OBVIOUS
  <2> HIDE DEF m
  <2> QED
    BY <1>2, <1>5, <2>1, <2>2, <2>3
<1>9. CASE \E t \in Tasks : Retry(t) \/ Clear(t)
  BY <1>2, <1>4, <1>9 DEF Retry, Clear
<1>10. CASE UNCHANGED vars
  BY <1>2, <1>4, <1>10 DEF vars
<1> QED
  BY <1>2, <1>6, <1>7, <1>8, <1>9, <1>10 DEF Next, FailTry, FailTask

\* A telling line among the last MaxWindow is in the window.
LEMMA InWindow ==
  ASSUME NEW lines \in Seq(LineKinds), NEW j \in DOMAIN lines, lines[j] \in ErrorKinds,
         Len(lines) - j < MaxWindow
  PROVE  lines[j] \in KindsOf(lines)
<1> DEFINE hits == {i \in DOMAIN lines : lines[i] \in ErrorKinds}
           keep == {i \in DOMAIN lines :
                      \E h \in hits : i \in (h - WindowBefore)..(h + WindowAfter)}
           after == {i \in keep : i > j}
<1>1. WindowBefore \in Nat /\ WindowAfter \in Nat /\ MaxWindow \in Nat
  BY AlertsAssumption DEF AlertsAssumption
<1>2. Len(lines) \in Nat /\ DOMAIN lines = 1..Len(lines) /\ j \in 1..Len(lines)
  OBVIOUS
<1>3. j \in hits /\ j \in (j - WindowBefore)..(j + WindowAfter)
  BY <1>1, <1>2
<1>4. j \in keep
  BY <1>3
<1>5. after \subseteq (j + 1)..Len(lines)
  BY <1>2
<1> DEFINE low == j + 1
           high == Len(lines)
<1>i. low \in Int /\ high \in Int
  BY <1>2
<1>6. IsFiniteSet((j + 1)..Len(lines))
      /\ Cardinality((j + 1)..Len(lines)) = IF j + 1 > Len(lines) THEN 0
                                            ELSE Len(lines) - (j + 1) + 1
  <2> HIDE DEF low, high
  <2>1. IsFiniteSet(low..high)
        /\ Cardinality(low..high) = IF low > high THEN 0 ELSE high - low + 1
    BY <1>i, FS_Interval
  <2> QED
    BY <2>1 DEF low, high
<1>7. Cardinality(after) <= Cardinality((j + 1)..Len(lines))
      /\ Cardinality(after) \in Nat
  <2> HIDE DEF after
  <2> QED
    BY <1>5, <1>6, FS_Subset, FS_CardinalityType
<1>8. Cardinality(after) < MaxWindow
  BY <1>1, <1>2, <1>6, <1>7
<1>9. j \in ErrorWindow(lines)
  BY <1>4, <1>8 DEF ErrorWindow
<1> QED
  BY <1>9 DEF KindsOf

\* The rule that applies before which none does gives the type.
Applies(n, kinds) == /\ Rules[n].side \in {NULL, TerminatedSide(kinds)}
                     /\ Rules[n].kinds \cap kinds # {}

LEMMA ClassifyFirst ==
  ASSUME NEW kinds, NEW n \in 1..5, Applies(n, kinds),
         \A m \in 1..5 : m < n => ~Applies(m, kinds)
  PROVE  Classify(kinds) = Rules[n].type
<1> DEFINE applying == {i \in DOMAIN Rules : /\ Rules[i].side \in {NULL, TerminatedSide(kinds)}
                                             /\ Rules[i].kinds \cap kinds # {}}
           first == CHOOSE i \in applying : \A j \in applying : i <= j
<1>1. DOMAIN Rules = 1..5
  BY DEF Rules
<1>2. n \in applying /\ \A i \in applying : i \in 1..5 /\ Applies(i, kinds)
  BY <1>1 DEF Applies
<1>3. Classify(kinds) = Rules[first].type
  BY <1>2 DEF Classify
<1>4. \A i \in applying : n <= i
  BY <1>2
<1> HIDE DEF applying
<1>5. first \in applying /\ first <= n
  <2>1. \E i \in applying : \A j \in applying : i <= j
    BY <1>2, <1>4
  <2>2. first \in applying /\ \A j \in applying : first <= j
    BY <2>1
  <2> QED
    BY <1>2, <2>2
<1>6. first = n
  <2>1. first \in 1..5 /\ n <= first /\ first <= n
    BY <1>2, <1>4, <1>5
  <2> HIDE DEF first
  <2> QED
    BY <2>1
<1> QED
  BY <1>3, <1>6

LEMMA ClassifyNone ==
  ASSUME NEW kinds, \A m \in 1..5 : ~Applies(m, kinds)
  PROVE  Classify(kinds) = "UNKNOWN_ERROR"
<1>1. DOMAIN Rules = 1..5
  BY DEF Rules
<1> QED
  BY <1>1 DEF Classify, Applies

\* What a log says of its cause.
LEMMA CauseNamed ==
  ASSUME NEW kinds, NEW cause, kinds \cap ForeignTo(cause) = {}
  PROVE  /\ /\ RootOf(cause).kind \in kinds
            /\ cause = "driver" => kinds \cap ExecutorMarks = {}
            => Classify(kinds) = RootOf(cause).type
         /\ cause = "unknown" => Classify(kinds) = "UNKNOWN_ERROR"
<1>1. /\ Rules[1] = [type |-> "PYTHON_DEPENDENCY", kinds |-> {"module"}, side |-> NULL]
      /\ Rules[2] = [type |-> "DISK_EXCEEDED", kinds |-> {"disk"}, side |-> NULL]
      /\ Rules[3] = [type |-> "DRIVER_MEMORY_EXCEEDED", kinds |-> {"oom", "exit137"},
                     side |-> "driver"]
      /\ Rules[4] = [type |-> "EXECUTOR_MEMORY_EXCEEDED",
                     kinds |-> {"executorLost", "oom", "exit137"}, side |-> "executor"]
      /\ Rules[5] = [type |-> "EMR_CAPACITY_EXCEEDED", kinds |-> {"capacity"}, side |-> NULL]
  BY DEF Rules
<1>2. NULL # "driver" /\ NULL # "executor"
  BY AlertsAssumption DEF AlertsAssumption
<1>3. CASE cause = "dependency"
  <2>1. RootOf(cause) = [kind |-> "module", type |-> "PYTHON_DEPENDENCY"]
    BY <1>3 DEF RootOf
  <2>2. "module" \in kinds => Applies(1, kinds)
    BY <1>1 DEF Applies
  <2> QED
    BY <1>1, <1>3, <2>1, <2>2, ClassifyFirst
<1>4. CASE cause = "disk"
  <2>1. RootOf(cause) = [kind |-> "disk", type |-> "DISK_EXCEEDED"] /\ "module" \notin kinds
    BY <1>4 DEF RootOf, ForeignTo
  <2>2. ~Applies(1, kinds) /\ ("disk" \in kinds => Applies(2, kinds))
    BY <1>1, <2>1 DEF Applies
  <2>3. \A m \in 1..5 : m < 2 => m = 1
    OBVIOUS
  <2> QED
    BY <1>1, <1>4, <2>1, <2>2, <2>3, ClassifyFirst
<1>5. CASE cause = "driver"
  <2>1. RootOf(cause) = [kind |-> "oom", type |-> "DRIVER_MEMORY_EXCEEDED"]
        /\ "module" \notin kinds /\ "disk" \notin kinds
    BY <1>5 DEF RootOf, ForeignTo
  <2>2. ~Applies(1, kinds) /\ ~Applies(2, kinds)
    BY <1>1, <2>1 DEF Applies
  <2>3. "oom" \in kinds /\ kinds \cap ExecutorMarks = {} => TerminatedSide(kinds) = "driver"
    BY DEF TerminatedSide, DriverMarks
  <2>4. "oom" \in kinds /\ kinds \cap ExecutorMarks = {} => Applies(3, kinds)
    BY <1>1, <2>3 DEF Applies
  <2>5. \A m \in 1..5 : m < 3 => m \in {1, 2}
    OBVIOUS
  <2> QED
    BY <1>1, <1>5, <2>1, <2>2, <2>4, <2>5, ClassifyFirst
<1>6. CASE cause = "executor"
  <2>1. RootOf(cause) = [kind |-> "executorLost", type |-> "EXECUTOR_MEMORY_EXCEEDED"]
        /\ "module" \notin kinds /\ "disk" \notin kinds
    BY <1>6 DEF RootOf, ForeignTo
  <2>2. ~Applies(1, kinds) /\ ~Applies(2, kinds)
    BY <1>1, <2>1 DEF Applies
  <2>3. "executorLost" \in kinds => TerminatedSide(kinds) = "executor"
    BY DEF TerminatedSide, ExecutorMarks
  <2>4. "executorLost" \in kinds => Applies(4, kinds) /\ ~Applies(3, kinds)
    BY <1>1, <1>2, <2>3 DEF Applies
  <2>5. \A m \in 1..5 : m < 4 => m \in {1, 2, 3}
    OBVIOUS
  <2> QED
    BY <1>1, <1>6, <2>1, <2>2, <2>4, <2>5, ClassifyFirst
<1>7. CASE cause = "capacity"
  <2>1. RootOf(cause) = [kind |-> "capacity", type |-> "EMR_CAPACITY_EXCEEDED"]
        /\ kinds \cap {"module", "disk", "oom", "exit137", "executorLost"} = {}
    BY <1>7 DEF RootOf, ForeignTo
  <2>2. ~Applies(1, kinds) /\ ~Applies(2, kinds) /\ ~Applies(3, kinds) /\ ~Applies(4, kinds)
    BY <1>1, <2>1 DEF Applies
  <2>3. "capacity" \in kinds => Applies(5, kinds)
    BY <1>1 DEF Applies
  <2>4. \A m \in 1..5 : m < 5 => m \in {1, 2, 3, 4}
    OBVIOUS
  <2> QED
    BY <1>1, <1>7, <2>1, <2>2, <2>3, <2>4, ClassifyFirst
<1>8. CASE cause \notin {"dependency", "disk", "driver", "executor", "capacity"}
  <2>1. RootOf(cause).type = "UNKNOWN_ERROR"
        /\ kinds \cap {"module", "disk", "oom", "exit137", "executorLost", "capacity"} = {}
    BY <1>8 DEF RootOf, ForeignTo
  <2>2. /\ ~Applies(1, kinds) /\ ~Applies(2, kinds) /\ ~Applies(3, kinds)
        /\ ~Applies(4, kinds) /\ ~Applies(5, kinds)
    BY <1>1, <2>1 DEF Applies
  <2>3. \A m \in 1..5 : m \in {1, 2, 3, 4, 5}
    OBVIOUS
  <2>4. Classify(kinds) = "UNKNOWN_ERROR"
    BY <2>2, <2>3, ClassifyNone
  <2> QED
    BY <2>1, <2>4
<1> QED
  BY <1>3, <1>4, <1>5, <1>6, <1>7, <1>8

\* Of whatever log, a diagnosis in a message names the cause when its telling
\* line is near enough to the end, and nothing when there is none
\* (failure_rules.py classify, FAILURE_RULES).
THEOREM CauseIsNamed == Spec => []RootCauseNamed
<1>1. Init => LogsGiven /\ Diagnosed
  BY DEF Init, LogsGiven, Diagnosed
<1>2. Inv /\ LogsGiven /\ Diagnosed => RootCauseNamed
  <2> SUFFICES ASSUME Inv, LogsGiven, Diagnosed, NEW i \in DOMAIN posts, posts[i].error # NULL
      PROVE  LET cause == log[posts[i].task].cause
                 lines == log[posts[i].task].lines
                 Tells(j) == lines[j] = RootOf(cause).kind /\ Len(lines) - j < MaxWindow
             IN /\ (\E j \in DOMAIN lines : Tells(j))
                     /\ (cause = "driver" => \A j \in DOMAIN lines : lines[j] \notin ExecutorMarks)
                   => posts[i].error = RootOf(cause).type
                /\ cause = "unknown" => posts[i].error = "UNKNOWN_ERROR"
    BY DEF RootCauseNamed
  <2> DEFINE l == log[posts[i].task]
             kinds == KindsOf(l.lines)
  <2>1. i \in 1..Len(posts) /\ posts[i].task \in Tasks
    <3>1. posts \in Seq(Message)
      BY DEF Inv, TypeInv, DataType
    <3>2. i \in 1..Len(posts) /\ posts[i] \in Message
      BY <3>1
    <3> QED
      BY <3>2 DEF Message
  <2>2. l.lines # NULL /\ posts[i].error = Classify(kinds) /\ l \in Logs[posts[i].task]
    BY <2>1 DEF Diagnosed, LogsGiven
  <2>3. l.lines \in Seq(LineKinds)
        /\ \A j \in DOMAIN l.lines : l.lines[j] \notin ForeignTo(l.cause)
    BY <2>1, <2>2, LogsAssumption
  <2>4. \A k \in kinds : \E j \in DOMAIN l.lines : k = l.lines[j]
    BY DEF KindsOf, ErrorWindow
  <2>5. kinds \cap ForeignTo(l.cause) = {}
    BY <2>3, <2>4
  <2>6. ASSUME NEW j \in DOMAIN l.lines, l.lines[j] = RootOf(l.cause).kind,
               Len(l.lines) - j < MaxWindow, l.lines[j] \in ErrorKinds
        PROVE  RootOf(l.cause).kind \in kinds
    BY <2>3, <2>6, InWindow
  <2>7. ASSUME NEW j \in DOMAIN l.lines, l.lines[j] = RootOf(l.cause).kind
        PROVE  l.lines[j] \in ErrorKinds
    <3>1. l.lines[j] \in LineKinds
      BY <2>3
    <3> QED
      BY <2>7, <3>1 DEF RootOf, LineKinds, ErrorKinds
  <2> HIDE DEF l, kinds
  <2>8. (\E j \in DOMAIN l.lines : /\ l.lines[j] = RootOf(l.cause).kind
                                   /\ Len(l.lines) - j < MaxWindow)
        => RootOf(l.cause).kind \in kinds
    BY <2>6, <2>7
  <2>9. (\A j \in DOMAIN l.lines : l.lines[j] \notin ExecutorMarks)
        => kinds \cap ExecutorMarks = {}
    BY <2>4
  <2>10. /\ (\E j \in DOMAIN l.lines : /\ l.lines[j] = RootOf(l.cause).kind
                                       /\ Len(l.lines) - j < MaxWindow)
              /\ (l.cause = "driver" => \A j \in DOMAIN l.lines : l.lines[j] \notin ExecutorMarks)
            => posts[i].error = RootOf(l.cause).type
         /\ l.cause = "unknown" => posts[i].error = "UNKNOWN_ERROR"
    BY <2>2, <2>5, <2>8, <2>9, CauseNamed
  <2> QED
    BY <2>10 DEF l
<1> QED
  BY <1>1, <1>2, InitInv, NextInv, DiagnosedKept, PTL DEF Spec
=============================================================================
