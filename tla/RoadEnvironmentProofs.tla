----------------------- MODULE RoadEnvironmentProofs -----------------------
(***************************************************************************)
(* Proofs about RoadEnvironment, for every set of command lines in which a *)
(* build id belongs to one reference date, any number of attempts, and any *)
(* datasets whose dates and distances are numbers.                         *)
(*                                                                         *)
(* PublishedIsWhole is not inductive.  What makes it hold is that a build  *)
(* id has one attempt at a time and none after its manifest (Exclusive),   *)
(* so that only the attempt at work writes under the paths of its id, and  *)
(* that it has written what it has passed (WrittenSoFar).                  *)
(*                                                                         *)
(* EnvironmentSound splits into a fact of the state, that a manifest names *)
(* the source of an accepted command line (Sourced), and facts of the      *)
(* operators of RoadSegments: the rows they make of a source.              *)
(***************************************************************************)
EXTENDS RoadEnvironment, FiniteSetTheorems, TLAPS
WF == INSTANCE WellFoundedInduction

Exclusive ==
  /\ \A a, b \in Running : runs[a].request.build = runs[b].request.build => a = b
  /\ \A a \in Running : a <= started
  /\ \A a \in Running : IF runs[a].uploaded = 9
                        THEN manifests[KeyOf(runs[a].request)] # NULL
                        ELSE manifests[KeyOf(runs[a].request)] = NULL

WrittenSoFar ==
  \A a \in Running : \A k \in 1..8 : k <= runs[a].uploaded =>
     store[PathOf(Uploads[k], runs[a].request)]
        = BytesOf(Uploads[k], runs[a].request.source, a)

IInv == TypeOK /\ Exclusive /\ WrittenSoFar /\ PublishedIsWhole

-----------------------------------------------------------------------------
\* Two objects share a path only in one role under one build id.
LEMMA PathsApart ==
  ASSUME NEW role, NEW other, NEW q, NEW r, PathOf(role, q) = PathOf(other, r)
  PROVE  role = other /\ q.build = r.build
BY DEF PathOf

LEMMA BuildFixesKey ==
  ASSUME NEW q \in Requests, NEW r \in Requests, q.build = r.build
  PROVE  KeyOf(q) = KeyOf(r) /\ \A role : PathOf(role, q) = PathOf(role, r)
BY RequestsAssumption DEF KeyOf, PathOf

LEMMA KeyFixesBuild ==
  ASSUME NEW q, NEW r, KeyOf(q) = KeyOf(r)
  PROVE  q.build = r.build
BY DEF KeyOf

LEMMA BytesTyped ==
  ASSUME NEW role, NEW s \in Sources, NEW a \in Attempts
  PROVE  BytesOf(role, s, a) \in [source : Sources, attempt : 0..MaxAttempts]
BY RequestsAssumption DEF BytesOf, Attempts

LEMMA KeyTyped == ASSUME NEW q \in Requests PROVE KeyOf(q) \in Builds
BY DEF KeyOf, Builds

LEMMA PathTyped ==
  ASSUME NEW q \in Requests, NEW k \in 1..8 PROVE PathOf(Uploads[k], q) \in Paths
BY DEF Paths, Roles

LEMMA RunTyped ==
  ASSUME TypeOK, NEW a \in Running
  PROVE  /\ a \in Attempts /\ runs[a].request \in Requests /\ runs[a].uploaded \in 0..9
         /\ runs[a] = [request |-> runs[a].request, uploaded |-> runs[a].uploaded]
BY DEF TypeOK, Running

-----------------------------------------------------------------------------
LEMMA InitHolds == Init => IInv
<1> SUFFICES ASSUME Init PROVE IInv
  OBVIOUS
<1>1. TypeOK
  BY RequestsAssumption DEF Init, TypeOK
<1>2. Running = {}
  BY DEF Init, Running
<1>3. Exclusive /\ WrittenSoFar
  BY <1>2 DEF Exclusive, WrittenSoFar
<1>4. PublishedIsWhole
  BY KeyTyped DEF Init, PublishedIsWhole
<1> QED
  BY <1>1, <1>3, <1>4 DEF IInv

-----------------------------------------------------------------------------
LEMMA StartKeeps ==
  ASSUME IInv, NEW q \in Requests, Start(q) PROVE IInv'
<1> DEFINE n == started + 1
           run == [request |-> q, uploaded |-> 0]
<1>1. TypeOK /\ n \in Attempts /\ started \in 0..MaxAttempts
  BY RequestsAssumption DEF IInv, TypeOK, Start, Attempts
<1>2. run \in [request : Requests, uploaded : 0..9]
  OBVIOUS
<1>3. runs' = [runs EXCEPT ![n] = run]
  BY DEF Start
<1>4. started' = n /\ UNCHANGED <<store, manifests, active, modified, clock>>
  BY DEF Start
<1>5. TypeOK'
  <2>1. runs' \in [Attempts -> [request : Requests, uploaded : 0..9] \cup {NULL}]
    BY <1>1, <1>2, <1>3 DEF TypeOK
  <2>2. started' \in 0..MaxAttempts
    BY <1>1, <1>4 DEF Attempts
  <2> QED
    BY <1>1, <1>4, <2>1, <2>2 DEF TypeOK
<1>6. \A a \in Running' : \/ a = n /\ runs'[a] = run
                          \/ a # n /\ a \in Running /\ runs'[a] = runs[a]
  BY <1>1, <1>3 DEF Running, TypeOK
<1>7. \A a \in Running : a # n /\ runs[a].request.build # q.build
  BY <1>1 DEF IInv, Exclusive, Start, Running, Attempts
<1>8. manifests[KeyOf(q)] = NULL
  BY DEF Start, NotPublished
<1>9. Exclusive'
  <2>1. \A a, b \in Running' : runs'[a].request.build = runs'[b].request.build => a = b
    BY <1>6, <1>7 DEF IInv, Exclusive
  <2>2. \A a \in Running' : a <= started'
    BY <1>1, <1>4, <1>6 DEF IInv, Exclusive, Running, Attempts
  <2>3. \A a \in Running' : IF runs'[a].uploaded = 9
                            THEN manifests'[KeyOf(runs'[a].request)] # NULL
                            ELSE manifests'[KeyOf(runs'[a].request)] = NULL
    BY <1>4, <1>6, <1>8 DEF IInv, Exclusive
  <2> QED
    BY <2>1, <2>2, <2>3 DEF Exclusive
<1>10. WrittenSoFar'
  BY <1>4, <1>6 DEF IInv, WrittenSoFar
<1>11. PublishedIsWhole'
  BY <1>4 DEF IInv, PublishedIsWhole
<1> QED
  BY <1>5, <1>9, <1>10, <1>11 DEF IInv

LEMMA UploadKeeps ==
  ASSUME IInv, NEW a \in Running, Upload(a) PROVE IInv'
<1> DEFINE q == runs[a].request
           n == runs[a].uploaded + 1
           path == PathOf(Uploads[n], q)
           bytes == BytesOf(Uploads[n], q.source, a)
<1>1. TypeOK /\ Exclusive /\ WrittenSoFar /\ PublishedIsWhole
  BY DEF IInv
<1>2. /\ a \in Attempts /\ q \in Requests /\ runs[a].uploaded \in 0..7 /\ n \in 1..8
      /\ runs[a] = [request |-> q, uploaded |-> n - 1]
  <2>1. runs[a].uploaded \in 0..9 /\ runs[a].uploaded < 8
    BY <1>1, RunTyped DEF Upload
  <2> QED
    BY <1>1, <2>1, RunTyped
<1>3. store' = [store EXCEPT ![path] = bytes]
  BY DEF Upload
<1>4. runs' = [runs EXCEPT ![a] = [request |-> q, uploaded |-> n]]
  <2>1. runs' = [runs EXCEPT ![a] = [runs[a] EXCEPT !.uploaded = n]]
    BY DEF Upload
  <2>2. [runs[a] EXCEPT !.uploaded = n] = [request |-> q, uploaded |-> n]
    BY <1>2
  <2> QED
    BY <2>1, <2>2
<1>5. UNCHANGED <<manifests, active, started, modified, clock>>
  BY DEF Upload
<1>6. path \in Paths /\ q.source \in Sources
  BY <1>2, PathTyped, RequestsAssumption
<1>7. TypeOK'
  <2>1. bytes \in [source : Sources, attempt : 0..MaxAttempts]
    BY <1>2, <1>6, BytesTyped
  <2>2. store' \in [Paths -> [source : Sources, attempt : 0..MaxAttempts] \cup {NULL}]
    BY <1>1, <1>3, <2>1 DEF TypeOK
  <2>3. [request |-> q, uploaded |-> n] \in [request : Requests, uploaded : 0..9]
    BY <1>2
  <2>4. runs' \in [Attempts -> [request : Requests, uploaded : 0..9] \cup {NULL}]
    BY <1>1, <1>4, <2>3 DEF TypeOK
  <2> QED
    BY <1>1, <1>5, <2>2, <2>4 DEF TypeOK
<1>8. \A b \in Running' : /\ b \in Running
                          /\ runs'[b].request = runs[b].request
                          /\ IF b = a THEN runs'[b].uploaded = n ELSE runs'[b] = runs[b]
  BY <1>1, <1>2, <1>4 DEF Running, TypeOK
<1>9. manifests[KeyOf(q)] = NULL
  BY <1>1, <1>2 DEF Exclusive
<1>10. Exclusive'
  <2>1. \A b, c \in Running' : runs'[b].request.build = runs'[c].request.build => b = c
    BY <1>1, <1>8 DEF Exclusive
  <2>2. \A b \in Running' : b <= started'
    BY <1>1, <1>5, <1>8 DEF Exclusive
  <2>3. \A b \in Running' : IF runs'[b].uploaded = 9
                            THEN manifests'[KeyOf(runs'[b].request)] # NULL
                            ELSE manifests'[KeyOf(runs'[b].request)] = NULL
    BY <1>1, <1>2, <1>5, <1>8, <1>9 DEF Exclusive
  <2> QED
    BY <2>1, <2>2, <2>3 DEF Exclusive
<1>11. WrittenSoFar'
  <2> SUFFICES ASSUME NEW b \in Running', NEW k \in 1..8, k <= runs'[b].uploaded
               PROVE  store'[PathOf(Uploads[k], runs'[b].request)]
                         = BytesOf(Uploads[k], runs'[b].request.source, b)
    BY DEF WrittenSoFar
  <2>1. /\ b \in Running /\ runs'[b].request = runs[b].request /\ runs[b].request \in Requests
        /\ PathOf(Uploads[k], runs[b].request) \in Paths
    BY <1>1, <1>8, RunTyped, PathTyped
  <2>2. CASE PathOf(Uploads[k], runs[b].request) = path
    <3>1. Uploads[k] = Uploads[n] /\ runs[b].request.build = q.build
      BY <2>2, PathsApart
    <3>2. b = a
      BY <1>1, <2>1, <3>1 DEF Exclusive
    <3> QED
      BY <1>1, <1>3, <1>6, <2>1, <2>2, <3>1, <3>2 DEF TypeOK
  <2>3. CASE PathOf(Uploads[k], runs[b].request) # path
    <3>1. store'[PathOf(Uploads[k], runs[b].request)] = store[PathOf(Uploads[k], runs[b].request)]
      BY <1>1, <1>3, <2>1, <2>3 DEF TypeOK
    <3>2. k <= runs[b].uploaded
      <4>1. CASE b # a
        BY <1>8, <4>1
      <4>2. CASE b = a
        <5>1. k <= n /\ k # n
          BY <1>8, <2>3, <4>2
        <5> QED
          BY <1>2, <4>2, <5>1
      <4> QED
        BY <4>1, <4>2
    <3> QED
      BY <1>1, <2>1, <3>1, <3>2 DEF WrittenSoFar
  <2> QED
    BY <2>2, <2>3
<1>12. PublishedIsWhole'
  <2> SUFFICES ASSUME NEW r \in Requests, NEW role \in Roles, manifests[KeyOf(r)] # NULL
               PROVE  store'[PathOf(role, r)] = store[PathOf(role, r)]
    BY <1>1, <1>5 DEF PublishedIsWhole
  <2>1. r.build # q.build
    BY <1>2, <1>9, BuildFixesKey
  <2>2. PathOf(role, r) # path
    BY <2>1, PathsApart
  <2>3. PathOf(role, r) \in Paths
    BY DEF Paths
  <2> QED
    BY <1>1, <1>3, <2>2, <2>3 DEF TypeOK
<1> QED
  BY <1>7, <1>10, <1>11, <1>12 DEF IInv

LEMMA WriteManifestKeeps ==
  ASSUME IInv, NEW a \in Running, WriteManifest(a) PROVE IInv'
<1> DEFINE q == runs[a].request
           m == [attempt |-> a, source |-> q.source, snapshot |-> q.snapshot]
<1>1. TypeOK /\ Exclusive /\ WrittenSoFar /\ PublishedIsWhole
  BY DEF IInv
<1>2. /\ a \in Attempts /\ q \in Requests /\ runs[a].uploaded = 8
      /\ q.source \in Sources /\ KeyOf(q) \in Builds
  BY <1>1, RunTyped, KeyTyped, RequestsAssumption DEF WriteManifest, EverythingUploaded
<1>3. manifests' = [manifests EXCEPT ![KeyOf(q)] = m]
  BY DEF WriteManifest
<1>4. \E r \in {NULL, [request |-> q, uploaded |-> 9]} : runs' = [runs EXCEPT ![a] = r]
  <2>1. [runs[a] EXCEPT !.uploaded = 9] = [request |-> q, uploaded |-> 9]
    <3>1. runs[a] = [request |-> q, uploaded |-> runs[a].uploaded]
      BY <1>1, RunTyped
    <3> QED
      BY <3>1
  <2>2. runs' = [runs EXCEPT ![a] = IF q.activate THEN [runs[a] EXCEPT !.uploaded = 9] ELSE NULL]
    BY DEF WriteManifest
  <2> QED
    BY <2>1, <2>2
<1>5. /\ UNCHANGED <<store, active, started>> /\ clock' = clock + 1
      /\ modified' = [modified EXCEPT ![KeyOf(q)] = clock]
  BY DEF WriteManifest
<1>6. m # NULL
  BY <1>2, NullAssumption
<1>7. TypeOK'
  <2>1. m \in [attempt : Attempts, source : Sources, snapshot : {r.snapshot : r \in Requests}]
    BY <1>2
  <2>2. manifests' \in [Builds -> [attempt : Attempts, source : Sources,
                                  snapshot : {r.snapshot : r \in Requests}] \cup {NULL}]
    BY <1>1, <1>3, <2>1 DEF TypeOK
  <2>3. [request |-> q, uploaded |-> 9] \in [request : Requests, uploaded : 0..9]
    BY <1>2
  <2>4. runs' \in [Attempts -> [request : Requests, uploaded : 0..9] \cup {NULL}]
    BY <1>1, <1>4, <2>3 DEF TypeOK
  <2>5. modified' \in [Builds -> Nat]
    BY <1>1, <1>5 DEF TypeOK
  <2>6. clock' \in Nat
    BY <1>1, <1>5 DEF TypeOK
  <2> QED
    BY <1>1, <1>5, <2>2, <2>4, <2>5, <2>6 DEF TypeOK
<1>8. \A b \in Running' : /\ b \in Running
                          /\ runs'[b].request = runs[b].request
                          /\ IF b = a THEN runs'[b].uploaded = 9 ELSE runs'[b] = runs[b]
  BY <1>1, <1>2, <1>4 DEF Running, TypeOK
<1>9. \A k \in Builds : manifests'[k] = IF k = KeyOf(q) THEN m ELSE manifests[k]
  BY <1>1, <1>3 DEF TypeOK
<1>10. Exclusive'
  <2>1. \A b, c \in Running' : runs'[b].request.build = runs'[c].request.build => b = c
    BY <1>1, <1>8 DEF Exclusive
  <2>2. \A b \in Running' : b <= started'
    BY <1>1, <1>5, <1>8 DEF Exclusive
  <2>3. ASSUME NEW b \in Running'
        PROVE  IF runs'[b].uploaded = 9
               THEN manifests'[KeyOf(runs'[b].request)] # NULL
               ELSE manifests'[KeyOf(runs'[b].request)] = NULL
    <3>1. CASE b = a
      BY <1>2, <1>6, <1>8, <1>9, <3>1
    <3>2. CASE b # a
      <4>1. b \in Running /\ runs'[b] = runs[b] /\ runs[b].request \in Requests
        BY <1>1, <1>8, <3>2, RunTyped
      <4>2. KeyOf(runs[b].request) # KeyOf(q)
        BY <1>1, <3>2, <4>1, KeyFixesBuild DEF Exclusive
      <4> QED
        BY <1>1, <1>9, <4>1, <4>2, KeyTyped DEF Exclusive
    <3> QED
      BY <3>1, <3>2
  <2> QED
    BY <2>1, <2>2, <2>3 DEF Exclusive
<1>11. WrittenSoFar'
  <2>1. \A b \in Running', k \in 1..8 : k <= runs'[b].uploaded => k <= runs[b].uploaded
    BY <1>2, <1>8
  <2> QED
    BY <1>1, <1>5, <1>8, <2>1 DEF WrittenSoFar
<1>12. PublishedIsWhole'
  <2>1. ASSUME NEW r \in Requests, NEW role \in Roles, manifests'[KeyOf(r)] # NULL
        PROVE  store[PathOf(role, r)]
                 = BytesOf(role, manifests'[KeyOf(r)].source, manifests'[KeyOf(r)].attempt)
    <3>1. CASE KeyOf(r) = KeyOf(q)
      <4>1. PathOf(role, r) = PathOf(role, q)
        BY <1>2, <3>1, KeyFixesBuild, BuildFixesKey
      <4>2. PICK k \in 1..8 : role = Uploads[k]
        BY DEF Roles
      <4>3. store[PathOf(role, q)] = BytesOf(role, q.source, a)
        BY <1>1, <1>2, <4>2 DEF WrittenSoFar
      <4>4. manifests'[KeyOf(r)] = m
        BY <1>2, <1>9, <3>1
      <4> QED
        BY <4>1, <4>3, <4>4
    <3>2. CASE KeyOf(r) # KeyOf(q)
      <4>1. manifests'[KeyOf(r)] = manifests[KeyOf(r)]
        BY <1>9, <3>2, KeyTyped
      <4> QED
        BY <1>1, <2>1, <4>1 DEF PublishedIsWhole
    <3> QED
      BY <3>1, <3>2
  <2>2. active' # NULL => manifests'[active'] # NULL
    BY <1>1, <1>5, <1>6, <1>9 DEF PublishedIsWhole, TypeOK
  <2> QED
    BY <1>5, <2>1, <2>2 DEF PublishedIsWhole
<1> QED
  BY <1>7, <1>10, <1>11, <1>12 DEF IInv

\* An attempt ends, by death or after the pointer, which names its own build.
LEMMA EndKeeps ==
  ASSUME IInv, NEW a \in Running, Activate(a) \/ Die(a) PROVE IInv'
<1> DEFINE q == runs[a].request
<1>1. TypeOK /\ Exclusive /\ WrittenSoFar /\ PublishedIsWhole
  BY DEF IInv
<1>2. runs' = [runs EXCEPT ![a] = NULL] /\ UNCHANGED <<store, manifests, started, modified, clock>>
  BY DEF Activate, Die
<1>3. q \in Requests /\ KeyOf(q) \in Builds /\ a \in Attempts
  BY <1>1, RunTyped, KeyTyped
<1>4. active' = active \/ (active' = KeyOf(q) /\ manifests[KeyOf(q)] # NULL)
  BY <1>1 DEF Activate, Die, Exclusive
<1>5. TypeOK'
  <2>1. runs' \in [Attempts -> [request : Requests, uploaded : 0..9] \cup {NULL}]
    BY <1>1, <1>2 DEF TypeOK
  <2> QED
    BY <1>1, <1>2, <1>3, <1>4, <2>1 DEF TypeOK
<1>6. \A b \in Running' : b \in Running /\ runs'[b] = runs[b]
  BY <1>1, <1>2 DEF Running, TypeOK
<1>7. Exclusive'
  BY <1>1, <1>2, <1>6 DEF Exclusive
<1>8. WrittenSoFar'
  BY <1>1, <1>2, <1>6 DEF WrittenSoFar
<1>9. PublishedIsWhole'
  BY <1>1, <1>2, <1>4 DEF PublishedIsWhole
<1> QED
  BY <1>5, <1>7, <1>8, <1>9 DEF IInv

LEMMA StutterKeeps == ASSUME IInv, UNCHANGED vars PROVE IInv'
BY DEF vars, IInv, TypeOK, Exclusive, WrittenSoFar, PublishedIsWhole, Running

LEMMA Invariance == Spec => []IInv
<1>1. Init => IInv
  BY InitHolds
<1>2. IInv /\ [Next]_vars => IInv'
  BY StartKeeps, UploadKeeps, WriteManifestKeeps, EndKeeps, StutterKeeps DEF Next
<1> QED
  BY <1>1, <1>2, PTL DEF Spec

-----------------------------------------------------------------------------
\* The state of the builds keeps its types.
THEOREM TypeCorrect == Spec => []TypeOK
BY Invariance, PTL DEF IInv

\* Whatever attempts die, overlap or follow, the objects of a published
\* environment are those of the attempt that wrote its manifest, and the
\* active pointer names a published one.
THEOREM Whole == Spec => []PublishedIsWhole
BY Invariance, PTL DEF IInv

-----------------------------------------------------------------------------
LEMMA Smallest ==
  ASSUME NEW T, T \subseteq Nat, T # {}
  PROVE  \E x \in T : \A y \in T : x <= y
<1>1. PICK x \in T : \A y \in T : ~ (<<y, x>> \in WF!OpToRel(<, Nat))
  BY WF!NatLessThanWellFounded, WF!WFMin
<1>2. \A y \in T : ~(y < x)
  BY <1>1 DEF WF!OpToRel
<1> QED
  BY <1>2

\* What the services choose: of the latest date, and of its builds the one
\* whose manifest was written last.
Newest(k, S, stamp) ==
  \A l \in S : \/ l[1] < k[1]
               \/ l[1] = k[1] /\ stamp[l] <= stamp[k]

LEMMA BuildTyped ==
  ASSUME NEW k \in Builds PROVE k[1] \in Nat /\ k[1] \in References
BY RequestsAssumption DEF Builds, References

\* There is one to choose among builds whose dates and stamps are bounded.
LEMMA NewestExists ==
  ASSUME NEW S, S \subseteq Builds, S # {}, NEW stamp \in [Builds -> Nat],
         NEW n \in Nat, \A k \in S : k[1] <= n,
         NEW c \in Nat, \A k \in S : stamp[k] <= c
  PROVE  \E k \in S : Newest(k, S, stamp)
<1> DEFINE Ages == {n - k[1] : k \in S}
<1>1. \A k \in S : k[1] \in Nat /\ n - k[1] \in Nat
  BY BuildTyped
<1>2. PICK age \in Ages : \A other \in Ages : age <= other
  <2>1. Ages # {} /\ Ages \subseteq Nat
    BY <1>1
  <2> QED
    BY <2>1, Smallest
<1>3. PICK d \in S : age = n - d[1]
  BY <1>2
<1>4. \A k \in S : k[1] <= d[1]
  <2> SUFFICES ASSUME NEW k \in S PROVE k[1] <= d[1]
    OBVIOUS
  <2>1. n - k[1] \in Ages
    OBVIOUS
  <2>2. n - d[1] <= n - k[1]
    BY <1>2, <1>3, <2>1
  <2> QED
    BY <1>1, <2>2
<1> DEFINE Latest == {k \in S : k[1] = d[1]}
           Rests == {c - stamp[k] : k \in Latest}
<1>5. \A k \in S : stamp[k] \in Nat /\ c - stamp[k] \in Nat
  OBVIOUS
<1>6. Rests # {} /\ Rests \subseteq Nat
  BY <1>3, <1>5
<1>7. PICK rest \in Rests : \A other \in Rests : rest <= other
  BY <1>6, Smallest
<1>8. PICK k \in Latest : rest = c - stamp[k]
  BY <1>7
<1>9. \A l \in Latest : stamp[l] <= stamp[k]
  <2> SUFFICES ASSUME NEW l \in Latest PROVE stamp[l] <= stamp[k]
    OBVIOUS
  <2>1. c - stamp[l] \in Rests
    OBVIOUS
  <2>2. c - stamp[k] <= c - stamp[l]
    BY <1>7, <1>8, <2>1
  <2> QED
    BY <1>5, <1>8, <2>2
<1>10. Newest(k, S, stamp)
  BY <1>1, <1>4, <1>8, <1>9 DEF Newest
<1> QED
  BY <1>8, <1>10

Published == {k \in Builds : manifests[k] # NULL}

\* The dates of the published builds and the stamps are bounded.
Bounded ==
  /\ \E n \in Nat : \A k \in Published : k[1] <= n
  /\ \A k \in Builds : modified[k] <= clock

LEMMA BoundedKept == IInv /\ Bounded /\ [Next]_vars => Bounded'
<1> SUFFICES ASSUME IInv, Bounded, [Next]_vars PROVE Bounded'
  OBVIOUS
<1>1. CASE UNCHANGED <<manifests, modified, clock>>
  BY <1>1 DEF Bounded, Published
<1>2. ASSUME NEW a \in Running, WriteManifest(a) PROVE Bounded'
  <2> DEFINE K == KeyOf(runs[a].request)
  <2>1. K \in Builds /\ K[1] \in Nat
    BY RunTyped, KeyTyped, BuildTyped DEF IInv
  <2>2. /\ modified' = [modified EXCEPT ![K] = clock] /\ clock' = clock + 1
        /\ \A k \in Builds : k # K => manifests'[k] = manifests[k]
    BY <1>2 DEF WriteManifest, IInv, TypeOK
  <2>3. modified \in [Builds -> Nat] /\ clock \in Nat
    BY DEF IInv, TypeOK
  <2>4. PICK n \in Nat : \A k \in Published : k[1] <= n
    BY DEF Bounded
  <2>5. \A k \in Published' : k = K \/ k \in Published
    BY <2>2 DEF Published
  <2>6. \A k \in Published' : k[1] <= n + K[1]
    <3> SUFFICES ASSUME NEW k \in Published' PROVE k[1] <= n + K[1]
      OBVIOUS
    <3>1. k[1] \in Nat
      BY BuildTyped DEF Published
    <3> QED
      BY <2>1, <2>4, <2>5, <3>1
  <2>7. n + K[1] \in Nat
    BY <2>1
  <2>8. \A k \in Builds : modified'[k] <= clock'
    BY <2>2, <2>3 DEF Bounded
  <2> QED
    BY <2>6, <2>7, <2>8 DEF Bounded
<1>3. UNCHANGED <<manifests, modified, clock>> \/ \E a \in Running : WriteManifest(a)
  BY DEF Next, Start, Upload, Activate, Die, vars
<1> QED
  BY <1>1, <1>2, <1>3

\* The builds a month chooses among.
Eligible(month) ==
  LET same == {k \in Candidates(month) : MonthOf(k[1]) = month}
  IN IF same # {} THEN same ELSE Candidates(month)

\* A month with candidates gets a newest one of those it chooses among.
LEMMA ResolvedIsNewest ==
  ASSUME IInv, Bounded, NEW month
  PROVE  /\ Eligible(month) # {} => /\ Resolved(month) \in Eligible(month)
                                    /\ Newest(Resolved(month), Eligible(month), modified)
         /\ Eligible(month) = {} => Resolved(month) = NULL
<1>1. Eligible(month) \subseteq Published
  BY DEF Eligible, Candidates, Published
<1>2. Published \subseteq Builds /\ modified \in [Builds -> Nat] /\ clock \in Nat
  BY DEF Published, IInv, TypeOK
<1>3. PICK n \in Nat : \A k \in Published : k[1] <= n
  BY DEF Bounded
<1>4. Eligible(month) # {} => \E k \in Eligible(month) : Newest(k, Eligible(month), modified)
  BY <1>1, <1>2, <1>3, NewestExists DEF Bounded
<1>5. Resolved(month) = IF Eligible(month) = {} THEN NULL
                        ELSE CHOOSE k \in Eligible(month) : Newest(k, Eligible(month), modified)
  BY DEF Resolved, Eligible, Newest
<1> QED
  BY <1>4, <1>5

LEMMA InitBounded == Init => Bounded
<1> SUFFICES ASSUME Init PROVE Bounded
  OBVIOUS
<1>1. Published = {} /\ \A k \in Builds : modified[k] = 0 /\ clock = 0
  BY DEF Init, Published
<1> QED
  BY <1>1 DEF Bounded

LEMMA BoundedInvariance == Spec => [](IInv /\ Bounded)
<1>1. IInv /\ [Next]_vars => IInv'
  BY StartKeeps, UploadKeeps, WriteManifestKeeps, EndKeeps, StutterKeeps DEF Next
<1> QED
  BY <1>1, InitHolds, InitBounded, BoundedKept, PTL DEF Spec

\* Always, a month is processed with a newest build of those it chooses among.
Chosen ==
  \A month \in {MonthOf(d) : d \in References} :
    /\ Eligible(month) # {} => /\ Resolved(month) \in Eligible(month)
                               /\ Newest(Resolved(month), Eligible(month), modified)
    /\ Eligible(month) = {} => Resolved(month) = NULL

LEMMA ChosenAlways == Spec => []Chosen
<1>1. IInv /\ Bounded => Chosen
  BY ResolvedIsNewest DEF Chosen
<1> QED
  BY <1>1, BoundedInvariance, PTL

LEMMA MonthsInOrder ==
  ASSUME NEW d \in Nat, NEW e \in Nat, MonthOf(d) < MonthOf(e)
  PROVE  d < e
BY DEF MonthOf

LEMMA MonthTyped == ASSUME NEW d \in Nat PROVE MonthOf(d) \in Nat
BY DEF MonthOf

\* No step replaces what a month is processed with by an older build or by one
\* of a later month: only a manifest adds a build to those a month chooses
\* among, and it was not published before.
THEOREM RoadsOfTheirTime == Spec => PastMonthsKeepTheirRoads
<1>1. ASSUME IInv, Chosen, Chosen', [Next]_vars
      PROVE  [\A month \in {MonthOf(d) : d \in References} :
                LET before == Resolved(month)
                    after == Resolved(month)'
                IN before # NULL =>
                     /\ after # NULL
                     /\ \/ after = before /\ manifests'[after] = manifests[before]
                        \/ MonthOf(after[1]) <= month /\ after[1] >= before[1]]_vars
  <2> SUFFICES ASSUME NEW d \in References, Resolved(MonthOf(d)) # NULL
      PROVE  /\ Resolved(MonthOf(d))' # NULL
             /\ MonthOf(Resolved(MonthOf(d))'[1]) <= MonthOf(d)
             /\ Resolved(MonthOf(d))'[1] >= Resolved(MonthOf(d))[1]
    OBVIOUS
  <2> DEFINE month == MonthOf(d)
             before == Resolved(month)
             after == Resolved(month)'
  <2>0. d \in Nat /\ month \in Nat
    BY RequestsAssumption, MonthTyped DEF References
  <2>1. before \in Eligible(month) /\ before \in Builds /\ manifests[before] # NULL
        /\ MonthOf(before[1]) <= month
    <3>1. before \in Eligible(month)
      BY <1>1 DEF Chosen
    <3> QED
      BY <3>1 DEF Eligible, Candidates
  <2>2. \A k \in Builds : manifests[k] # NULL => manifests'[k] # NULL
    <3>1. ASSUME NEW a \in Running, WriteManifest(a)
          PROVE  \A k \in Builds : manifests[k] # NULL => manifests'[k] # NULL
      <4> DEFINE q == runs[a].request
      <4>1. a \in Attempts /\ q \in Requests
        BY <1>1, RunTyped DEF IInv
      <4>2. [attempt |-> a, source |-> q.source, snapshot |-> q.snapshot] # NULL
        BY <4>1, NullAssumption
      <4> QED
        BY <1>1, <3>1, <4>2 DEF WriteManifest, IInv, TypeOK
    <3>2. manifests' = manifests \/ \E a \in Running : WriteManifest(a)
      BY <1>1 DEF Next, Start, Upload, Activate, Die, vars
    <3> QED
      BY <3>1, <3>2
  <2>3. PICK l \in Eligible(month)' : l[1] >= before[1] /\ l \in Builds
    <3>1. before \in Candidates(month)'
      BY <2>1, <2>2 DEF Candidates
    <3>2. before[1] \in Nat
      BY <2>1, BuildTyped
    <3>3. CASE before \in Eligible(month)'
      BY <2>1, <3>2, <3>3
    <3>4. CASE before \notin Eligible(month)'
      <4>1. PICK l \in Eligible(month)' : l \in Builds /\ MonthOf(l[1]) = month
        BY <3>1, <3>4 DEF Eligible, Candidates
      <4>2. MonthOf(before[1]) # month
        BY <3>1, <3>4 DEF Eligible
      <4>3. l[1] \in Nat /\ MonthOf(before[1]) \in Nat
        BY <3>2, <4>1, BuildTyped, MonthTyped
      <4>4. before[1] < l[1]
        BY <2>0, <2>1, <3>2, <4>1, <4>2, <4>3, MonthsInOrder
      <4> QED
        BY <3>2, <4>1, <4>3, <4>4
    <3> QED
      BY <3>3, <3>4
  <2>4. after \in Eligible(month)' /\ Newest(after, Eligible(month)', modified')
    BY <1>1, <2>3 DEF Chosen
  <2>5. after \in Builds /\ MonthOf(after[1]) <= month
    BY <2>4 DEF Eligible, Candidates
  <2>6. after[1] \in Nat /\ before[1] \in Nat /\ l[1] \in Nat
    BY <2>1, <2>3, <2>5, BuildTyped
  <2>7. after[1] >= before[1]
    BY <2>3, <2>4, <2>6 DEF Newest
  <2> QED
    BY <2>5, <2>7, NullAssumption
<1> QED
  BY <1>1, BoundedInvariance, ChosenAlways, PTL DEF Spec, PastMonthsKeepTheirRoads

-----------------------------------------------------------------------------
(***************************************************************************)
(* Elements numbered by a strict order, as Ordered and Kept number them.   *)
(***************************************************************************)
LEMMA Numbered ==
  ASSUME NEW D, IsFiniteSet(D), NEW below \in [D -> SUBSET D],
         \A i \in D : i \notin below[i],
         \A i, k \in D : i # k => i \in below[k] \/ k \in below[i],
         \A i, k \in D : i \in below[k] => below[i] \subseteq below[k]
  PROVE  /\ Cardinality(D) \in Nat
         /\ \A i \in D : 1 + Cardinality(below[i]) \in 1..Cardinality(D)
         /\ \A i, k \in D : i \in below[k] => Cardinality(below[i]) < Cardinality(below[k])
         /\ \A n \in 1..Cardinality(D) : \E i \in D : 1 + Cardinality(below[i]) = n
<1> DEFINE number == [i \in D |-> 1 + Cardinality(below[i])]
           N == 1..Cardinality(D)
<1>1. Cardinality(D) \in Nat
  BY FS_CardinalityType
<1>2. ASSUME NEW i \in D
      PROVE  IsFiniteSet(below[i]) /\ Cardinality(below[i]) \in 0..(Cardinality(D) - 1)
  <2>1. below[i] \subseteq D \ {i}
    OBVIOUS
  <2>2. IsFiniteSet(D \ {i}) /\ Cardinality(D \ {i}) = Cardinality(D) - 1
    BY FS_RemoveElement
  <2>3. IsFiniteSet(below[i]) /\ Cardinality(below[i]) <= Cardinality(D \ {i})
    BY <2>1, <2>2, FS_Subset
  <2>4. Cardinality(below[i]) \in Nat
    BY <2>3, FS_CardinalityType
  <2> QED
    BY <1>1, <2>2, <2>3, <2>4
<1>3. ASSUME NEW i \in D, NEW k \in D, i \in below[k]
      PROVE  Cardinality(below[i]) < Cardinality(below[k])
  <2>1. below[i] \subseteq below[k] /\ i \notin below[i]
    BY <1>3
  <2>2. /\ Cardinality(below[i]) <= Cardinality(below[k])
        /\ Cardinality(below[i]) # Cardinality(below[k])
    BY <1>2, <1>3, <2>1, FS_Subset
  <2>3. Cardinality(below[i]) \in Nat /\ Cardinality(below[k]) \in Nat
    BY <1>2, FS_CardinalityType
  <2> QED
    BY <2>2, <2>3
<1>4. ASSUME NEW i \in D PROVE number[i] \in N /\ number[i] = 1 + Cardinality(below[i])
  <2>1. PICK c \in 0..(Cardinality(D) - 1) : c = Cardinality(below[i])
    BY <1>2
  <2>2. number[i] = 1 + c
    BY <2>1
  <2> QED
    BY <1>1, <2>1, <2>2
<1>5. \A i, k \in D : number[i] = number[k] => i = k
  <2> SUFFICES ASSUME NEW i \in D, NEW k \in D, number[i] = number[k], i # k PROVE FALSE
    OBVIOUS
  <2>1. Cardinality(below[i]) \in Int /\ Cardinality(below[k]) \in Int
    BY <1>2
  <2>2. \/ Cardinality(below[i]) < Cardinality(below[k])
        \/ Cardinality(below[k]) < Cardinality(below[i])
    BY <1>3
  <2> HIDE DEF number
  <2>3. 1 + Cardinality(below[i]) = 1 + Cardinality(below[k])
    BY <1>4
  <2> QED
    BY <2>1, <2>2, <2>3
<1>6. number \in Injection(D, N)
  <2>1. number \in [D -> N]
    BY <1>4
  <2> HIDE DEF number
  <2> QED
    BY <1>5, <2>1 DEF Injection, IsInjective
<1>7. IsFiniteSet(N) /\ Cardinality(N) = Cardinality(D)
  BY <1>1, FS_Interval
<1> HIDE DEF number
<1>8. number \in Surjection(D, N)
  BY <1>6, <1>7, FS_Injection
<1>9. \A n \in N : \E i \in D : number[i] = n
  BY <1>8 DEF Surjection
<1> QED
  BY <1>1, <1>3, <1>4, <1>9

\* A strict order of the elements of a set.
Strict(D, before) ==
  /\ \A x \in D : <<x, x>> \notin before
  /\ \A x, y \in D : x # y => <<x, y>> \in before \/ <<y, x>> \in before
  /\ \A x, y, z \in D : <<x, y>> \in before /\ <<y, z>> \in before => <<x, z>> \in before

LEMMA StrictNumbers ==
  ASSUME NEW D, IsFiniteSet(D), NEW before, Strict(D, before)
  PROVE  /\ Cardinality(D) \in Nat
         /\ \A x \in D : 1 + Cardinality({w \in D : <<w, x>> \in before}) \in 1..Cardinality(D)
         /\ \A x \in D : Cardinality({w \in D : <<w, x>> \in before}) \in Nat
         /\ \A x, y \in D : <<x, y>> \in before =>
              Cardinality({w \in D : <<w, x>> \in before})
                < Cardinality({w \in D : <<w, y>> \in before})
         /\ \A n \in 1..Cardinality(D) :
              \E x \in D : 1 + Cardinality({w \in D : <<w, x>> \in before}) = n
<1> DEFINE below == [x \in D |-> {w \in D : <<w, x>> \in before}]
<1>1. below \in [D -> SUBSET D] /\ \A x, w \in D : w \in below[x] <=> <<w, x>> \in before
  OBVIOUS
<1>2. \A x \in D : below[x] = {w \in D : <<w, x>> \in before}
  OBVIOUS
<1> HIDE DEF below
<1>3. /\ \A x \in D : x \notin below[x]
      /\ \A x, y \in D : x # y => x \in below[y] \/ y \in below[x]
  BY <1>1 DEF Strict
<1>4. \A x, y \in D : x \in below[y] => below[x] \subseteq below[y]
  <2> SUFFICES ASSUME NEW x \in D, NEW y \in D, x \in below[y], NEW w \in below[x]
               PROVE  w \in below[y]
    OBVIOUS
  <2>1. w \in D /\ <<w, x>> \in before /\ <<x, y>> \in before
    BY <1>1
  <2> QED
    BY <1>1, <2>1 DEF Strict
<1>5. /\ Cardinality(D) \in Nat
      /\ \A x \in D : 1 + Cardinality(below[x]) \in 1..Cardinality(D)
      /\ \A x, y \in D : x \in below[y] => Cardinality(below[x]) < Cardinality(below[y])
      /\ \A n \in 1..Cardinality(D) : \E x \in D : 1 + Cardinality(below[x]) = n
  BY <1>1, <1>3, <1>4, Numbered
<1>6. \A x \in D : Cardinality(below[x]) \in Nat
  <2> SUFFICES ASSUME NEW x \in D PROVE Cardinality(below[x]) \in Nat
    OBVIOUS
  <2>1. IsFiniteSet(below[x])
    BY <1>1, FS_Subset
  <2> QED
    BY <2>1, FS_CardinalityType
<1> QED
  BY <1>1, <1>2, <1>5, <1>6

\* Ordered lists the elements of the set, each once, in the order.
LEMMA OrderedIs ==
  ASSUME NEW D, IsFiniteSet(D), NEW before, Strict(D, before)
  PROVE  /\ Cardinality(D) \in Nat
         /\ Ordered(D, before) \in [1..Cardinality(D) -> D]
         /\ \A x \in D : \E n \in 1..Cardinality(D) : Ordered(D, before)[n] = x
         /\ \A m, n \in 1..Cardinality(D) : m < n =>
              <<Ordered(D, before)[m], Ordered(D, before)[n]>> \in before
         /\ \A m, n \in 1..Cardinality(D) : Ordered(D, before)[m] = Ordered(D, before)[n] => m = n
<1> DEFINE below(x) == Cardinality({w \in D : <<w, x>> \in before})
           N == 1..Cardinality(D)
           o == [n \in N |-> CHOOSE x \in D : below(x) = n - 1]
<1>1. Ordered(D, before) = o
  BY DEF Ordered
<1>2. /\ Cardinality(D) \in Nat
      /\ \A x \in D : 1 + below(x) \in N /\ below(x) \in Nat
      /\ \A x, y \in D : <<x, y>> \in before => below(x) < below(y)
      /\ \A n \in N : \E x \in D : 1 + below(x) = n
  <2>1. Cardinality(D) \in Nat /\ \A x \in D : 1 + below(x) \in N
    BY StrictNumbers
  <2>2. \A x \in D : below(x) \in Nat
    BY StrictNumbers
  <2>3. \A x, y \in D : <<x, y>> \in before => below(x) < below(y)
    BY StrictNumbers
  <2>4. \A n \in N : \E x \in D : 1 + below(x) = n
    BY StrictNumbers
  <2> QED
    BY <2>1, <2>2, <2>3, <2>4
<1> HIDE DEF below
<1>3. \A n \in N : o[n] \in D /\ below(o[n]) = n - 1
  <2> SUFFICES ASSUME NEW n \in N PROVE o[n] \in D /\ below(o[n]) = n - 1
    OBVIOUS
  <2>1. PICK x \in D : 1 + below(x) = n
    BY <1>2
  <2>2. below(x) = n - 1
    BY <1>2, <2>1
  <2>3. o[n] = CHOOSE y \in D : below(y) = n - 1
    OBVIOUS
  <2> QED
    BY <2>2, <2>3
<1>4. o \in [N -> D]
  <2>1. o = [n \in N |-> o[n]]
    OBVIOUS
  <2> QED
    BY <1>3, <2>1
<1> HIDE DEF o
<1>5. \A x, y \in D : below(x) = below(y) => x = y
  <2> SUFFICES ASSUME NEW x \in D, NEW y \in D, below(x) = below(y), x # y PROVE FALSE
    OBVIOUS
  <2>1. <<x, y>> \in before \/ <<y, x>> \in before
    BY DEF Strict
  <2>2. below(x) < below(y) \/ below(y) < below(x)
    BY <1>2, <2>1
  <2>3. below(x) \in Nat /\ below(y) \in Nat
    BY <1>2
  <2> QED
    BY <2>2, <2>3
<1>6. ASSUME NEW x \in D PROVE \E n \in N : o[n] = x
  <2> DEFINE n == 1 + below(x)
  <2>1. n \in N /\ below(x) \in Nat
    BY <1>2
  <2>2. o[n] \in D /\ below(o[n]) = n - 1
    BY <1>3, <2>1
  <2>3. n - 1 = below(x)
    BY <2>1
  <2>4. o[n] = x
    BY <1>5, <2>2, <2>3
  <2> QED
    BY <2>1, <2>4
<1>7. ASSUME NEW m \in N, NEW n \in N, m < n PROVE <<o[m], o[n]>> \in before
  <2>1. o[m] \in D /\ o[n] \in D /\ below(o[m]) = m - 1 /\ below(o[n]) = n - 1
    BY <1>3
  <2>2. m - 1 < n - 1 /\ m - 1 \in Nat /\ n - 1 \in Nat
    BY <1>2, <1>7
  <2>3. ~(below(o[n]) < below(o[m])) /\ below(o[m]) # below(o[n])
    BY <2>1, <2>2
  <2>4. <<o[n], o[m]>> \notin before /\ o[m] # o[n]
    BY <1>2, <2>1, <2>3
  <2> QED
    BY <2>1, <2>4 DEF Strict
<1>8. \A m, n \in N : o[m] = o[n] => m = n
  <2> SUFFICES ASSUME NEW m \in N, NEW n \in N, o[m] = o[n], m # n PROVE FALSE
    OBVIOUS
  <2>1. m < n \/ n < m
    BY <1>2
  <2>2. <<o[m], o[n]>> \in before \/ <<o[n], o[m]>> \in before
    BY <1>7, <2>1
  <2> QED
    BY <1>4, <2>2 DEF Strict
<1> QED
  BY <1>1, <1>2, <1>4, <1>6, <1>7, <1>8

\* A set that is not empty has a first element.
LEMMA FirstIs ==
  ASSUME NEW D, IsFiniteSet(D), D # {}, NEW before, Strict(D, before)
  PROVE  \E x \in D : /\ \A y \in D \ {x} : <<x, y>> \in before
                      /\ \A z \in D : (\A y \in D \ {z} : <<z, y>> \in before) => z = x
<1> DEFINE o == Ordered(D, before)
<1>1. /\ Cardinality(D) \in Nat /\ o \in [1..Cardinality(D) -> D]
      /\ \A x \in D : \E n \in 1..Cardinality(D) : o[n] = x
      /\ \A m, n \in 1..Cardinality(D) : m < n => <<o[m], o[n]>> \in before
  BY OrderedIs
<1> HIDE DEF o
<1>2. Cardinality(D) # 0
  BY FS_EmptySet
<1>3. 1 \in 1..Cardinality(D) /\ \A n \in 1..Cardinality(D) : n = 1 \/ 1 < n
  BY <1>1, <1>2
<1>4. o[1] \in D
  BY <1>1, <1>3
<1>5. ASSUME NEW y \in D \ {o[1]} PROVE <<o[1], y>> \in before
  <2>1. PICK n \in 1..Cardinality(D) : o[n] = y
    BY <1>1
  <2>2. 1 < n
    BY <1>3, <2>1
  <2> QED
    BY <1>1, <1>3, <2>1, <2>2
<1>6. ASSUME NEW z \in D, \A y \in D \ {z} : <<z, y>> \in before PROVE z = o[1]
  <2> SUFFICES ASSUME z # o[1] PROVE FALSE
    OBVIOUS
  <2>1. <<z, o[1]>> \in before /\ <<o[1], z>> \in before
    BY <1>4, <1>5, <1>6
  <2> QED
    BY <1>4, <2>1 DEF Strict
<1> QED
  BY <1>4, <1>5, <1>6

\* The order of numbers.
Smaller(P) == {p \in P \X P : p[1] < p[2]}

LEMMA SmallerStrict == ASSUME NEW P, P \subseteq Int PROVE Strict(P, Smaller(P))
<1>1. \A x, y \in P : <<x, y>> \in Smaller(P) <=> x < y
  BY DEF Smaller
<1>2. \A x \in P : x \in Int
  OBVIOUS
<1> QED
  BY <1>1, <1>2 DEF Strict

\* The places Kept takes, by number.
Place(P, n) == CHOOSE i \in P : Cardinality({j \in P : j <= i}) = n

LEMMA PlaceIs ==
  ASSUME NEW len \in Nat, NEW P, P \subseteq 1..len
  PROVE  /\ IsFiniteSet(P) /\ Cardinality(P) \in Nat
         /\ \A n \in 1..Cardinality(P) : Place(P, n) \in P
         /\ \A i \in P : \E n \in 1..Cardinality(P) : Place(P, n) = i
         /\ \A m, n \in 1..Cardinality(P) : m < n => Place(P, m) < Place(P, n)
         /\ \A m, n \in 1..Cardinality(P) : Place(P, m) = Place(P, n) => m = n
<1> DEFINE c == Cardinality(P)
           upto(i) == Cardinality({j \in P : j <= i})
<1>0. IsFiniteSet(1..len)
  BY FS_Interval
<1>1. IsFiniteSet(P) /\ c \in Nat /\ P \subseteq Int
  <2>1. IsFiniteSet(P)
    BY <1>0, FS_Subset
  <2>2. c \in Nat
    BY <2>1, FS_CardinalityType
  <2>3. P \subseteq Int
    OBVIOUS
  <2> QED
    BY <2>1, <2>2, <2>3
<1>2. Strict(P, Smaller(P))
  BY <1>1, SmallerStrict
<1>3. ASSUME NEW i \in P
      PROVE  upto(i) = 1 + Cardinality({j \in P : <<j, i>> \in Smaller(P)})
  <2>0. PICK U : U = {j \in P : <<j, i>> \in Smaller(P)}
    OBVIOUS
  <2>1. {j \in P : j <= i} = U \cup {i}
    <3>1. \A j \in P : j <= i <=> j < i \/ j = i
      BY <1>1
    <3>2. \A j \in P : <<j, i>> \in Smaller(P) <=> j < i
      BY DEF Smaller
    <3> QED
      BY <2>0, <3>1, <3>2
  <2>2. i \notin U
    BY <1>2, <2>0 DEF Strict
  <2>3. IsFiniteSet(U)
    BY <1>1, <2>0, FS_Subset
  <2>4. Cardinality(U \cup {i}) = Cardinality(U) + 1
    BY <2>2, <2>3, FS_AddElement
  <2>5. Cardinality(U) \in Nat
    BY <2>3, FS_CardinalityType
  <2>6. upto(i) = Cardinality(U) + 1
    BY <2>1, <2>4
  <2> HIDE DEF upto
  <2>7. upto(i) = 1 + Cardinality(U)
    BY <2>5, <2>6
  <2> QED
    BY <2>0, <2>7
<1> DEFINE o == Ordered(P, Smaller(P))
<1>4. \A n \in 1..c : Place(P, n) = o[n]
  <2> SUFFICES ASSUME NEW n \in 1..c PROVE Place(P, n) = o[n]
    OBVIOUS
  <2>1. \A i \in P : upto(i) = n <=> Cardinality({j \in P : <<j, i>> \in Smaller(P)}) = n - 1
    <3>1. \A i \in P : Cardinality({j \in P : <<j, i>> \in Smaller(P)}) \in Nat
      BY <1>1, <1>2, StrictNumbers
    <3> QED
      BY <1>1, <1>3, <3>1
  <2>2. o[n] = CHOOSE i \in P : Cardinality({j \in P : <<j, i>> \in Smaller(P)}) = n - 1
    BY DEF Ordered
  <2>3. Place(P, n) = CHOOSE i \in P : upto(i) = n
    BY DEF Place
  <2>4. (CHOOSE i \in P : upto(i) = n)
          = CHOOSE i \in P : Cardinality({j \in P : <<j, i>> \in Smaller(P)}) = n - 1
    BY <2>1
  <2> QED
    BY <2>2, <2>3, <2>4
<1>5. /\ o \in [1..c -> P]
      /\ \A x \in P : \E n \in 1..c : o[n] = x
      /\ \A m, n \in 1..c : m < n => <<o[m], o[n]>> \in Smaller(P)
      /\ \A m, n \in 1..c : o[m] = o[n] => m = n
  BY <1>1, <1>2, OrderedIs
<1> HIDE DEF o, c
<1>6. \A n \in 1..c : o[n] \in P
  BY <1>5
<1>7. \A m, n \in 1..c : m < n => o[m] < o[n]
  BY <1>5 DEF Smaller
<1>8. \A i \in P : \E n \in 1..c : Place(P, n) = i
  BY <1>4, <1>5
<1>9. \A m, n \in 1..c : Place(P, m) = Place(P, n) => m = n
  BY <1>4, <1>5
<1> QED
  BY <1>1, <1>4, <1>6, <1>7, <1>8, <1>9 DEF c

LEMMA KeptBy ==
  ASSUME NEW s, NEW P
  PROVE  Kept(s, P) = [n \in 1..Cardinality(P) |-> s[Place(P, n)]]
BY DEF Kept, Place

-----------------------------------------------------------------------------
(***************************************************************************)
(* The road segments of a LION file.                                       *)
(***************************************************************************)
\* Rows numbered from 1 whose object ids are numbers.
Lines(rows, len) == DOMAIN rows = 1..len /\ \A i \in 1..len : rows[i].object \in Int
Same(rows, i) == {j \in DOMAIN rows : rows[j].segment = rows[i].segment}
Lowest(rows, S, j) ==
  \A k \in S : \/ rows[j].object < rows[k].object
               \/ rows[j].object = rows[k].object /\ j <= k

LEMMA LowestExists ==
  ASSUME NEW len \in Nat, NEW rows, Lines(rows, len), NEW S, S \subseteq 1..len, S # {}
  PROVE  \E j \in S : Lowest(rows, S, j)
<1> DEFINE before == {p \in S \X S : \/ rows[p[1]].object < rows[p[2]].object
                                     \/ rows[p[1]].object = rows[p[2]].object /\ p[1] < p[2]}
<1>1. PICK object : object = [i \in 1..len |-> rows[i].object]
  OBVIOUS
<1>2. \A i \in S : object[i] = rows[i].object /\ object[i] \in Int /\ i \in Int
  BY <1>1 DEF Lines
<1>3. \A x, y \in S : <<x, y>> \in before
        <=> object[x] < object[y] \/ (object[x] = object[y] /\ x < y)
  BY <1>2
<1> HIDE DEF before
<1>4. \A i \in S : object[i] \in Int /\ i \in Int
  BY <1>2
<1>5. Strict(S, before)
  BY <1>3, <1>4 DEF Strict
<1>6. IsFiniteSet(S)
  BY PlaceIs
<1>7. PICK j \in S : \A k \in S \ {j} : <<j, k>> \in before
  BY <1>5, <1>6, FirstIs
<1>8. \A k \in S : object[j] < object[k] \/ (object[j] = object[k] /\ j <= k)
  <2> SUFFICES ASSUME NEW k \in S PROVE object[j] < object[k] \/ (object[j] = object[k] /\ j <= k)
    OBVIOUS
  <2>1. CASE k = j
    BY <1>4, <2>1
  <2>2. CASE k # j
    <3>1. object[j] < object[k] \/ (object[j] = object[k] /\ j < k)
      BY <1>3, <1>7, <2>2
    <3> QED
      BY <1>4, <3>1
  <2> QED
    BY <2>1, <2>2
<1> QED
  BY <1>2, <1>8 DEF Lowest

\* One row for each identifier, the one with the lowest object id.
Represents(rows, S, N, from) ==
  /\ \A n \in 1..N : /\ rows[from[n]].segment # NULL
                     /\ \A j \in S : rows[j].segment = rows[from[n]].segment =>
                                       rows[from[n]].object <= rows[j].object
  /\ \A m, n \in 1..N : rows[from[m]].segment = rows[from[n]].segment => m = n
  /\ \A i \in S : rows[i].segment # NULL =>
       \E n \in 1..N : rows[from[n]].segment = rows[i].segment

LEMMA RepresentativesAre ==
  ASSUME NEW len \in Nat, NEW rows, Lines(rows, len)
  PROVE  \E N \in Nat : \E from \in [1..N -> 1..len] :
           /\ Representatives(rows) = [n \in 1..N |-> rows[from[n]]]
           /\ Represents(rows, 1..len, N, from)
<1> DEFINE Best(i) == CHOOSE j \in Same(rows, i) : Lowest(rows, Same(rows, i), j)
           Firsts == {i \in 1..len : rows[i].segment # NULL /\ \A j \in Same(rows, i) : i <= j}
           N == Cardinality(Firsts)
           first == [n \in 1..N |-> Place(Firsts, n)]
           from == [n \in 1..N |-> Best(first[n])]
<1>0. DOMAIN rows = 1..len
  BY DEF Lines
<1>1. \A i \in 1..len : Same(rows, i) = {j \in 1..len : rows[j].segment = rows[i].segment}
  BY <1>0 DEF Same
<1>2. ASSUME NEW i \in 1..len
      PROVE  Best(i) \in Same(rows, i) /\ Lowest(rows, Same(rows, i), Best(i))
  <2>1. Same(rows, i) \subseteq 1..len /\ Same(rows, i) # {}
    BY <1>1
  <2>2. \E j \in Same(rows, i) : Lowest(rows, Same(rows, i), j)
    BY <2>1, LowestExists
  <2> QED
    BY <2>2
<1>3. Representatives(rows) = Kept([i \in 1..len |-> rows[Best(i)]], Firsts)
  BY <1>0 DEF Representatives, Same, Lowest
<1> HIDE DEF Best
<1>4. /\ N \in Nat
      /\ \A n \in 1..N : Place(Firsts, n) \in Firsts
      /\ \A i \in Firsts : \E n \in 1..N : Place(Firsts, n) = i
      /\ \A m, n \in 1..N : Place(Firsts, m) = Place(Firsts, n) => m = n
  <2>1. Firsts \subseteq 1..len
    OBVIOUS
  <2> HIDE DEF Firsts
  <2> QED
    BY <2>1, PlaceIs
<1>5. \A i \in Firsts : i \in 1..len /\ rows[i].segment # NULL /\ \A j \in Same(rows, i) : i <= j
  OBVIOUS
<1>5a. \A i \in 1..len : rows[i].segment # NULL /\ (\A j \in Same(rows, i) : i <= j) => i \in Firsts
  OBVIOUS
<1> HIDE DEF Firsts
<1>6. \A n \in 1..N : first[n] = Place(Firsts, n) /\ from[n] = Best(first[n])
  OBVIOUS
<1>7. Representatives(rows) = [n \in 1..N |-> rows[from[n]]]
  <2>1. Representatives(rows) = [n \in 1..N |-> [i \in 1..len |-> rows[Best(i)]][Place(Firsts, n)]]
    BY <1>3, KeptBy
  <2>2. \A n \in 1..N : [i \in 1..len |-> rows[Best(i)]][Place(Firsts, n)] = rows[from[n]]
    BY <1>4, <1>5, <1>6
  <2> QED
    BY <2>1, <2>2
<1>8. \A n \in 1..N : /\ first[n] \in Firsts /\ first[n] \in 1..len
                      /\ from[n] \in 1..len
                      /\ rows[from[n]].segment = rows[first[n]].segment
  <2> SUFFICES ASSUME NEW n \in 1..N
      PROVE  /\ first[n] \in Firsts /\ first[n] \in 1..len
             /\ from[n] \in 1..len
             /\ rows[from[n]].segment = rows[first[n]].segment
    OBVIOUS
  <2>1. first[n] \in Firsts /\ first[n] \in 1..len
    BY <1>4, <1>5, <1>6
  <2>2. from[n] \in Same(rows, first[n])
    BY <1>2, <1>6, <2>1
  <2> QED
    BY <1>1, <2>1, <2>2
<1>9. from \in [1..N -> 1..len]
  <2>1. from = [n \in 1..N |-> from[n]]
    OBVIOUS
  <2> QED
    BY <1>8, <2>1
<1>10. \A n \in 1..N : \A j \in 1..len : rows[j].segment = rows[from[n]].segment =>
                                           rows[from[n]].object <= rows[j].object
  <2> SUFFICES ASSUME NEW n \in 1..N, NEW j \in 1..len, rows[j].segment = rows[from[n]].segment
               PROVE  rows[from[n]].object <= rows[j].object
    OBVIOUS
  <2>1. first[n] \in 1..len /\ j \in Same(rows, first[n])
    BY <1>1, <1>8
  <2>2. Lowest(rows, Same(rows, first[n]), from[n])
    BY <1>2, <1>6, <2>1
  <2>3. rows[from[n]].object < rows[j].object \/ rows[from[n]].object = rows[j].object
    BY <2>1, <2>2 DEF Lowest
  <2>4. rows[from[n]].object \in Int /\ rows[j].object \in Int
    BY <1>8 DEF Lines
  <2> QED
    BY <2>3, <2>4
<1>11. ASSUME NEW m \in 1..N, NEW n \in 1..N, rows[from[m]].segment = rows[from[n]].segment
       PROVE  m = n
  <2>1. /\ first[m] \in Firsts /\ first[n] \in Firsts
        /\ first[m] \in Same(rows, first[n]) /\ first[n] \in Same(rows, first[m])
    BY <1>1, <1>8, <1>11
  <2>2. first[m] <= first[n] /\ first[n] <= first[m]
    BY <1>5, <2>1
  <2>3. first[m] = first[n]
    BY <1>5, <2>1, <2>2
  <2> QED
    BY <1>4, <1>6, <2>3
<1>12. ASSUME NEW i \in 1..len, rows[i].segment # NULL
       PROVE  \E n \in 1..N : rows[from[n]].segment = rows[i].segment
  <2>1. Same(rows, i) \subseteq Nat /\ Same(rows, i) # {}
    BY <1>1
  <2>2. PICK k \in Same(rows, i) : \A j \in Same(rows, i) : k <= j
    BY <2>1, Smallest
  <2>3. k \in 1..len /\ rows[k].segment = rows[i].segment /\ Same(rows, k) = Same(rows, i)
    BY <1>1, <2>2
  <2>4. k \in Firsts
    BY <1>5a, <1>12, <2>2, <2>3
  <2>5. PICK n \in 1..N : Place(Firsts, n) = k
    BY <1>4, <2>4
  <2> QED
    BY <1>6, <1>8, <2>3, <2>5
<1>13. \A n \in 1..N : rows[from[n]].segment # NULL
  BY <1>5, <1>8
<1>14. Represents(rows, 1..len, N, from)
  BY <1>10, <1>11, <1>12, <1>13 DEF Represents
<1> QED
  BY <1>4, <1>7, <1>9, <1>14

Vehicles(lion) == {i \in DOMAIN lion : IsVehicleSegment(lion[i])}

LEMMA VehicleRowsAre ==
  ASSUME NEW len \in Nat, NEW lion, Lines(lion, len)
  PROVE  \E N \in Nat : \E from \in [1..N -> Vehicles(lion)] :
           /\ VehicleRows(lion) = [n \in 1..N |-> lion[from[n]]]
           /\ Represents(lion, Vehicles(lion), N, from)
<1>1. PICK V : V = Vehicles(lion)
  OBVIOUS
<1>2. V \subseteq 1..len
  BY <1>1 DEF Vehicles, Lines
<1>3. PICK c : c = Cardinality(V)
  OBVIOUS
<1>4. /\ c \in Nat
      /\ \A n \in 1..c : Place(V, n) \in V
      /\ \A i \in V : \E n \in 1..c : Place(V, n) = i
      /\ \A m, n \in 1..c : Place(V, m) = Place(V, n) => m = n
  BY <1>2, <1>3, PlaceIs
<1>5. PICK kept : kept = Kept(lion, V)
  OBVIOUS
<1>6. kept = [n \in 1..c |-> lion[Place(V, n)]]
  BY <1>3, <1>5, KeptBy
<1>7. Lines(kept, c)
  <2>1. ASSUME NEW n \in 1..c PROVE kept[n].object \in Int
    <3>1. kept[n] = lion[Place(V, n)] /\ Place(V, n) \in 1..len
      BY <1>2, <1>4, <1>6
    <3> QED
      BY <3>1 DEF Lines
  <2> QED
    BY <1>6, <2>1 DEF Lines
<1>8a. PICK N \in Nat : \E of \in [1..N -> 1..c] :
        /\ Representatives(kept) = [n \in 1..N |-> kept[of[n]]]
        /\ Represents(kept, 1..c, N, of)
  BY <1>4, <1>7, RepresentativesAre
<1>8. PICK of \in [1..N -> 1..c] :
        /\ Representatives(kept) = [n \in 1..N |-> kept[of[n]]]
        /\ Represents(kept, 1..c, N, of)
  BY <1>8a
<1> DEFINE from == [n \in 1..N |-> Place(V, of[n])]
<1>9. \A n \in 1..N : from[n] \in V /\ kept[of[n]] = lion[from[n]]
  BY <1>4, <1>6
<1>10. from \in [1..N -> V]
  BY <1>4
<1> HIDE DEF from
<1>11. VehicleRows(lion) = [n \in 1..N |-> lion[from[n]]]
  <2>1. VehicleRows(lion) = Representatives(kept)
    BY <1>1, <1>5 DEF VehicleRows, Vehicles
  <2> QED
    BY <1>8, <1>9, <2>1
<1>12. Represents(lion, V, N, from)
  <2>1. ASSUME NEW i \in V PROVE \E p \in 1..c : kept[p] = lion[i]
    BY <1>4, <1>6
  <2>2. ASSUME NEW n \in 1..N
        PROVE  /\ lion[from[n]].segment # NULL
               /\ \A j \in V : lion[j].segment = lion[from[n]].segment =>
                                 lion[from[n]].object <= lion[j].object
    <3>1. kept[of[n]] = lion[from[n]] /\ kept[of[n]].segment # NULL
      BY <1>8, <1>9 DEF Represents
    <3>2. ASSUME NEW j \in V, lion[j].segment = lion[from[n]].segment
          PROVE  lion[from[n]].object <= lion[j].object
      <4>1. PICK p \in 1..c : kept[p] = lion[j]
        BY <2>1
      <4> QED
        BY <1>8, <3>1, <3>2, <4>1 DEF Represents
    <3> QED
      BY <3>1, <3>2
  <2>3. \A m, n \in 1..N : lion[from[m]].segment = lion[from[n]].segment => m = n
    BY <1>8, <1>9 DEF Represents
  <2>4. ASSUME NEW i \in V, lion[i].segment # NULL
        PROVE  \E n \in 1..N : lion[from[n]].segment = lion[i].segment
    <3>1. PICK p \in 1..c : kept[p] = lion[i]
      BY <2>1
    <3>2. PICK n \in 1..N : kept[of[n]].segment = kept[p].segment
      BY <1>8, <2>4, <3>1 DEF Represents
    <3> QED
      BY <1>9, <3>1, <3>2
  <2> QED
    BY <2>2, <2>3, <2>4 DEF Represents
<1> QED
  BY <1>1, <1>10, <1>11, <1>12

\* What a road says of the line it comes from, which has the lowest object id.
RoadFrom(lion, road, i) ==
  /\ road.segment = Strip[lion[i].segment] /\ road.segment # NULL
  /\ road.street = lion[i].street /\ road.length = lion[i].length
  /\ lion[i].shape # NULL /\ road.place = lion[i].shape.place
  /\ \A j \in Vehicles(lion) : Strip[lion[j].segment] = road.segment =>
                                 lion[i].object <= lion[j].object

LEMMA OnlyGeometry ==
  ASSUME NEW N \in Nat, NEW rows, DOMAIN rows = 1..N, NEW n \in 1..N,
         \A m \in 1..N \ {n} : Strip[rows[m].segment] # Strip[rows[n].segment],
         GeometryOf(Strip[rows[n].segment], rows) # NULL
  PROVE  /\ GeometryOf(Strip[rows[n].segment], rows) = rows[n].shape
         /\ rows[n].shape # NULL
<1> DEFINE id == Strip[rows[n].segment]
           Own == {m \in DOMAIN rows :
                     Strip[rows[m].segment] = id /\ SingleLine(rows[m].shape) # NULL}
<1>1. GeometryOf(id, rows) = IF id = NULL \/ Own = {} THEN NULL ELSE rows[Max(Own)].shape
  BY DEF GeometryOf
<1>2. Own \subseteq {n} /\ \A m \in Own : SingleLine(rows[m].shape) # NULL
  OBVIOUS
<1> HIDE DEF Own
<1>3. Own = {n}
  BY <1>1, <1>2
<1>4. Max(Own) = n
  <2>1. n >= n
    OBVIOUS
  <2> QED
    BY <1>3, <2>1 DEF Max
<1>5. rows[n].shape # NULL
  BY <1>2, <1>3 DEF SingleLine
<1> QED
  BY <1>1, <1>3, <1>4, <1>5

LEMMA RoadsAre ==
  ASSUME NEW len \in Nat, NEW lion, Lines(lion, len), Strip[NULL] = NULL
  PROVE  \E M \in Nat : \E of \in [1..M -> Vehicles(lion)] :
           /\ DOMAIN RoadSegmentsOf(lion) = 1..M
           /\ \A k \in 1..M : RoadFrom(lion, RoadSegmentsOf(lion)[k], of[k])
           /\ \A k, l \in 1..M :
                RoadSegmentsOf(lion)[k].segment = RoadSegmentsOf(lion)[l].segment => k = l
<1>1. PICK V : V = Vehicles(lion)
  OBVIOUS
<1>2a. PICK N \in Nat : \E from \in [1..N -> V] :
        /\ VehicleRows(lion) = [n \in 1..N |-> lion[from[n]]]
        /\ Represents(lion, V, N, from)
  BY <1>1, VehicleRowsAre
<1>2. PICK from \in [1..N -> V] :
        /\ VehicleRows(lion) = [n \in 1..N |-> lion[from[n]]]
        /\ Represents(lion, V, N, from)
  BY <1>2a
<1>3. PICK rows : rows = VehicleRows(lion)
  OBVIOUS
<1>4. DOMAIN rows = 1..N /\ \A n \in 1..N : rows[n] = lion[from[n]] /\ from[n] \in V
  BY <1>2, <1>3
<1>5. PICK records : records = Combined(rows)
  OBVIOUS
<1>6. DOMAIN records = 1..N
      /\ \A n \in 1..N : /\ records[n].segment = Strip[rows[n].segment]
                         /\ records[n].street = rows[n].street
                         /\ records[n].length = rows[n].length
                         /\ records[n].line = GeometryOf(Strip[rows[n].segment], rows)
  BY <1>4, <1>5 DEF Combined
<1>7. PICK P : P = {n \in 1..N : Passes(records[n]) /\ ~DuplicateKey(records, n)}
  OBVIOUS
<1>8. PICK M : M = Cardinality(P)
  OBVIOUS
<1>9. /\ M \in Nat
      /\ \A k \in 1..M : Place(P, k) \in P
      /\ \A k, l \in 1..M : Place(P, k) = Place(P, l) => k = l
  <2>1. P \subseteq 1..N
    BY <1>7
  <2> QED
    BY <1>8, <2>1, PlaceIs
<1>10. ValidRecords(records) = [k \in 1..M |-> records[Place(P, k)]]
  BY <1>6, <1>7, <1>8, KeptBy DEF ValidRecords
<1>11. PICK roads : roads = RoadSegmentsOf(lion)
  OBVIOUS
<1>12. roads = [k \in 1..M |-> RoadSegment(records[Place(P, k)])]
  <2>1. roads = [k \in DOMAIN ValidRecords(records) |-> RoadSegment(ValidRecords(records)[k])]
    BY <1>3, <1>5, <1>11 DEF RoadSegmentsOf
  <2> QED
    BY <1>10, <2>1
<1>13. ASSUME NEW n \in P
       PROVE  /\ n \in 1..N /\ records[n].segment # NULL /\ records[n].line # NULL
              /\ \A m \in 1..N : records[m].segment = records[n].segment => m = n
  BY <1>6, <1>7 DEF Passes, DuplicateKey
<1>14. ASSUME NEW n \in P
       PROVE  RoadFrom(lion, RoadSegment(records[n]), from[n])
  <2>1. n \in 1..N /\ records[n].segment # NULL /\ records[n].line # NULL
    BY <1>13
  <2>2. \A m \in 1..N \ {n} : Strip[rows[m].segment] # Strip[rows[n].segment]
    BY <1>6, <1>13
  <2>3. records[n].line = rows[n].shape /\ rows[n].shape # NULL
    BY <1>4, <1>6, <2>1, <2>2, OnlyGeometry
  <2>4. PICK road : road = RoadSegment(records[n])
    OBVIOUS
  <2>5. /\ road.segment = records[n].segment /\ road.street = records[n].street
        /\ road.length = records[n].length /\ road.place = records[n].line.place
    BY <2>4 DEF RoadSegment
  <2>6. ASSUME NEW j \in V, Strip[lion[j].segment] = road.segment
        PROVE  lion[from[n]].object <= lion[j].object
    <3>1. lion[j].segment # NULL
      BY <2>1, <2>5, <2>6
    <3>2. PICK m \in 1..N : lion[from[m]].segment = lion[j].segment
      BY <1>2, <3>1 DEF Represents
    <3>3. records[m].segment = records[n].segment
      BY <1>4, <1>6, <2>5, <2>6, <3>2
    <3>4. m = n
      BY <1>13, <3>3
    <3> QED
      BY <1>2, <2>1, <3>2, <3>4 DEF Represents
  <2>7. rows[n] = lion[from[n]]
    BY <1>4, <2>1
  <2>8. /\ road.segment = Strip[lion[from[n]].segment] /\ road.segment # NULL
        /\ road.street = lion[from[n]].street /\ road.length = lion[from[n]].length
        /\ lion[from[n]].shape # NULL /\ road.place = lion[from[n]].shape.place
    BY <1>6, <2>1, <2>3, <2>5, <2>7
  <2> QED
    BY <1>1, <2>4, <2>6, <2>8 DEF RoadFrom
<1> DEFINE of == [k \in 1..M |-> from[Place(P, k)]]
<1>15. \A k \in 1..M : Place(P, k) \in P /\ Place(P, k) \in 1..N
  BY <1>9, <1>13
<1>16. of \in [1..M -> V]
  BY <1>4, <1>15
<1>17. \A k \in 1..M : of[k] = from[Place(P, k)] /\ roads[k] = RoadSegment(records[Place(P, k)])
  BY <1>12
<1> HIDE DEF of
<1>18. \A k \in 1..M : RoadFrom(lion, roads[k], of[k])
  BY <1>14, <1>15, <1>17
<1>19. ASSUME NEW k \in 1..M, NEW l \in 1..M, roads[k].segment = roads[l].segment
       PROVE  k = l
  <2>0. \A record : RoadSegment(record).segment = record.segment
    BY DEF RoadSegment
  <2>1. /\ roads[k].segment = records[Place(P, k)].segment
        /\ roads[l].segment = records[Place(P, l)].segment
    BY <1>17, <2>0
  <2>2. Place(P, k) = Place(P, l)
    BY <1>13, <1>15, <1>19, <2>1
  <2> QED
    BY <1>9, <2>2
<1>20. DOMAIN roads = 1..M
  BY <1>12
<1> QED
  BY <1>1, <1>9, <1>11, <1>16, <1>18, <1>19, <1>20

-----------------------------------------------------------------------------
(***************************************************************************)
(* The inspection a segment is rated by.                                   *)
(***************************************************************************)
\* Records numbered from 1, with a place and a date or NULL.
Dated(items, len) ==
  /\ DOMAIN items = 1..len
  /\ \A i \in 1..len : items[i].place \in Int /\ items[i].date \in (Nat \ {0}) \cup {NULL}

LEMMA GapTyped ==
  ASSUME NEW road, road.place \in Int, NEW item, item.place \in Int
  PROVE  Gap(road, item) \in Nat
<1>1. PICK a \in Int : a = road.place
  OBVIOUS
<1>2. PICK b \in Int : b = item.place
  OBVIOUS
<1>3. Gap(road, item) = IF a > b THEN a - b ELSE b - a
  BY <1>1, <1>2 DEF Gap
<1> QED
  BY <1>3

InFront(a, b, c, d, e, f, g, h) ==
  \/ a < e
  \/ a = e /\ b < f
  \/ a = e /\ b = f /\ c < g
  \/ a = e /\ b = f /\ c = g /\ d < h

LEMMA Lexicographic ==
  ASSUME NEW a \in Int, NEW b \in Int, NEW c \in Int, NEW d \in Int,
         NEW e \in Int, NEW f \in Int, NEW g \in Int, NEW h \in Int
  PROVE  Preferred(<<a, b, c, d>>, <<e, f, g, h>>) <=> InFront(a, b, c, d, e, f, g, h)
<1> DEFINE p == <<a, b, c, d>>
           q == <<e, f, g, h>>
<1>1. /\ p[1] = a /\ p[2] = b /\ p[3] = c /\ p[4] = d
      /\ q[1] = e /\ q[2] = f /\ q[3] = g /\ q[4] = h
  OBVIOUS
<1> HIDE DEF p, q
<1>2. Preferred(p, q) <=> \E k \in 1..4 : p[k] < q[k] /\ \A l \in 1..(k - 1) : p[l] = q[l]
  BY DEF Preferred
<1>3. \A k \in 1..4 : k = 1 \/ k = 2 \/ k = 3 \/ k = 4
  OBVIOUS
<1>4. /\ 1..(1 - 1) = {} /\ 1..(2 - 1) = {1} /\ 1..(3 - 1) = {1, 2} /\ 1..(4 - 1) = {1, 2, 3}
      /\ 1 \in 1..4 /\ 2 \in 1..4 /\ 3 \in 1..4 /\ 4 \in 1..4
  OBVIOUS
<1> DEFINE At(k) == p[k] < q[k] /\ \A l \in 1..(k - 1) : p[l] = q[l]
<1>5. /\ At(1) <=> a < e
      /\ At(2) <=> a = e /\ b < f
      /\ At(3) <=> a = e /\ b = f /\ c < g
      /\ At(4) <=> a = e /\ b = f /\ c = g /\ d < h
  <2>1. At(1) <=> a < e
    BY <1>1, <1>4
  <2>2. At(2) <=> a = e /\ b < f
    BY <1>1, <1>4
  <2>3. At(3) <=> a = e /\ b = f /\ c < g
    BY <1>1, <1>4
  <2>4. At(4) <=> a = e /\ b = f /\ c = g /\ d < h
    BY <1>1, <1>4
  <2> QED
    BY <2>1, <2>2, <2>3, <2>4
<1>6. Preferred(p, q) <=> \E k \in 1..4 : At(k)
  BY <1>2
<1> HIDE DEF At
<1>7. (\E k \in 1..4 : At(k)) <=> At(1) \/ At(2) \/ At(3) \/ At(4)
  BY <1>3, <1>4
<1>8. Preferred(p, q) <=> InFront(a, b, c, d, e, f, g, h)
  BY <1>5, <1>6, <1>7 DEF InFront
<1> QED
  BY <1>8 DEF p, q

\* Nearer, or as near and later, or the same and first by place and position.
Ahead(gap, day, place, i, j) ==
  \/ gap[i] < gap[j]
  \/ gap[i] = gap[j] /\ day[i] > day[j]
  \/ gap[i] = gap[j] /\ day[i] = day[j] /\ place[i] < place[j]
  \/ gap[i] = gap[j] /\ day[i] = day[j] /\ place[i] = place[j] /\ i < j

Weighed(road, ratings, len, gap, day, place) ==
  \A i \in 1..len :
    /\ gap[i] = Gap(road, ratings[i]) /\ day[i] = Day(ratings[i])
    /\ place[i] = ratings[i].place
    /\ \A j \in 1..len :
         Preferred(Preference(road, ratings, i), Preference(road, ratings, j))
           <=> Ahead(gap, day, place, i, j)

LEMMA PreferredIs ==
  ASSUME NEW len \in Nat, NEW ratings, Dated(ratings, len), NEW road, road.place \in Int
  PROVE  \E gap \in [1..len -> Nat], day \in [1..len -> Nat], place \in [1..len -> Int] :
           Weighed(road, ratings, len, gap, day, place)
<1> DEFINE gap == [i \in 1..len |-> Gap(road, ratings[i])]
           day == [i \in 1..len |-> Day(ratings[i])]
           place == [i \in 1..len |-> ratings[i].place]
<1>1. \A i \in 1..len : ratings[i].place \in Int /\ ratings[i].date \in (Nat \ {0}) \cup {NULL}
  BY DEF Dated
<1>2. \A i \in 1..len : Gap(road, ratings[i]) \in Nat
  BY <1>1, GapTyped
<1>3. \A i \in 1..len : Day(ratings[i]) \in Nat
  BY <1>1 DEF Day
<1>4. gap \in [1..len -> Nat] /\ day \in [1..len -> Nat] /\ place \in [1..len -> Int]
  BY <1>1, <1>2, <1>3
<1>5. \A i \in 1..len : /\ gap[i] = Gap(road, ratings[i]) /\ day[i] = Day(ratings[i])
                        /\ place[i] = ratings[i].place
  OBVIOUS
<1> HIDE DEF gap, day, place
<1>6. \A i \in 1..len : Preference(road, ratings, i) = <<gap[i], -day[i], place[i], i>>
  BY <1>5 DEF Preference
<1>7. ASSUME NEW i \in 1..len, NEW j \in 1..len
      PROVE  Preferred(Preference(road, ratings, i), Preference(road, ratings, j))
               <=> Ahead(gap, day, place, i, j)
  <2>1. /\ gap[i] \in Int /\ gap[j] \in Int /\ day[i] \in Int /\ day[j] \in Int
        /\ -day[i] \in Int /\ -day[j] \in Int
        /\ place[i] \in Int /\ place[j] \in Int /\ i \in Int /\ j \in Int
    BY <1>4
  <2>2. Preferred(<<gap[i], -day[i], place[i], i>>, <<gap[j], -day[j], place[j], j>>)
          <=> InFront(gap[i], -day[i], place[i], i, gap[j], -day[j], place[j], j)
    <3>1. PICK a \in Int, b \in Int, c \in Int :
            a = gap[i] /\ b = -day[i] /\ c = place[i]
      BY <2>1
    <3>2. PICK e \in Int, f \in Int, g \in Int :
            e = gap[j] /\ f = -day[j] /\ g = place[j]
      BY <2>1
    <3>3. Preferred(<<a, b, c, i>>, <<e, f, g, j>>) <=> InFront(a, b, c, i, e, f, g, j)
      BY <2>1, Lexicographic
    <3> QED
      BY <3>1, <3>2, <3>3
  <2>3. (-day[i] < -day[j] <=> day[i] > day[j]) /\ (-day[i] = -day[j] <=> day[i] = day[j])
    BY <2>1
  <2>4. InFront(gap[i], -day[i], place[i], i, gap[j], -day[j], place[j], j)
          <=> Ahead(gap, day, place, i, j)
    BY <2>3 DEF InFront, Ahead
  <2> QED
    BY <1>6, <2>2, <2>4
<1> QED
  BY <1>4, <1>5, <1>7 DEF Weighed

\* The best of the applicable inspections, where there is one.
BestOf(road, ratings, C, i) ==
  \A j \in C \ {i} : Preferred(Preference(road, ratings, i), Preference(road, ratings, j))

LEMMA BestIs ==
  ASSUME NEW len \in Nat, NEW ratings, Dated(ratings, len), NEW road, road.place \in Int,
         NEW C, C \subseteq 1..len, C # {}
  PROVE  \E best \in C : /\ BestOf(road, ratings, C, best)
                         /\ \A z \in C : BestOf(road, ratings, C, z) => z = best
<1>1. PICK gap \in [1..len -> Nat], day \in [1..len -> Nat], place \in [1..len -> Int] :
        Weighed(road, ratings, len, gap, day, place)
  BY PreferredIs
<1> DEFINE before == {p \in C \X C : Ahead(gap, day, place, p[1], p[2])}
<1>2. \A x, y \in C : <<x, y>> \in before <=> Ahead(gap, day, place, x, y)
  OBVIOUS
<1> HIDE DEF before
<1>3. \A x \in C : gap[x] \in Int /\ day[x] \in Int /\ place[x] \in Int /\ x \in Int
  OBVIOUS
<1>4. Strict(C, before)
  <2>1. \A x \in C : ~Ahead(gap, day, place, x, x)
    BY <1>3 DEF Ahead
  <2>2. \A x, y \in C : x # y => Ahead(gap, day, place, x, y) \/ Ahead(gap, day, place, y, x)
    BY <1>3 DEF Ahead
  <2>3. \A x, y, z \in C : Ahead(gap, day, place, x, y) /\ Ahead(gap, day, place, y, z)
                             => Ahead(gap, day, place, x, z)
    BY <1>3 DEF Ahead
  <2> QED
    BY <1>2, <2>1, <2>2, <2>3 DEF Strict
<1>5. IsFiniteSet(C)
  BY PlaceIs
<1>6. PICK x \in C : /\ \A y \in C \ {x} : <<x, y>> \in before
                     /\ \A z \in C : (\A y \in C \ {z} : <<z, y>> \in before) => z = x
  BY <1>4, <1>5, FirstIs
<1>7. \A z \in C : BestOf(road, ratings, C, z) <=> \A y \in C \ {z} : <<z, y>> \in before
  BY <1>1, <1>2 DEF BestOf, Weighed
<1> QED
  BY <1>6, <1>7

LEMMA PavementIs ==
  ASSUME NEW len \in Nat, NEW ratings, Dated(ratings, len), NEW road, road.place \in Int,
         NEW reference
  PROVE  LET C == Applicable(road, ratings, reference)
             P == PavementFor(road, ratings, reference)
         IN /\ C \subseteq 1..len
            /\ C = {} => P = NULL
            /\ C # {} => \E best \in C :
                 /\ BestOf(road, ratings, C, best)
                 /\ \A z \in C : BestOf(road, ratings, C, z) => z = best
                 /\ P = IF Gap(road, ratings[best]) > MaxReferenceDistance THEN NULL ELSE best
<1>1. PICK C : C = Applicable(road, ratings, reference)
  OBVIOUS
<1>2. C \subseteq 1..len
  BY <1>1 DEF Applicable, Dated
<1>3. PavementFor(road, ratings, reference)
        = LET best == CHOOSE i \in C : BestOf(road, ratings, C, i)
          IN IF C = {} \/ Gap(road, ratings[best]) > MaxReferenceDistance THEN NULL ELSE best
  BY <1>1 DEF PavementFor, BestOf
<1>4. CASE C = {}
  BY <1>1, <1>2, <1>3, <1>4
<1>5. CASE C # {}
  <2>1. PICK best \in C : /\ BestOf(road, ratings, C, best)
                          /\ \A z \in C : BestOf(road, ratings, C, z) => z = best
    BY <1>2, <1>5, BestIs
  <2>2. best = CHOOSE i \in C : BestOf(road, ratings, C, i)
    BY <2>1
  <2> QED
    BY <1>1, <1>2, <1>3, <1>5, <2>1, <2>2
<1> QED
  BY <1>4, <1>5

\* The rating is that of a usable inspection with none nearer, or as near and
\* more recent.
Usable(road, ratings, reference, i) ==
  /\ ratings[i].located
  /\ Key(ratings[i].street) = Key(road.street)
  /\ Known(ratings[i].date, reference)
  /\ Gap(road, ratings[i]) <= MaxReferenceDistance
Better(road, ratings, j, i) ==
  \/ Gap(road, ratings[j]) < Gap(road, ratings[i])
  \/ /\ Gap(road, ratings[j]) = Gap(road, ratings[i])
     /\ ratings[j].date # NULL
     /\ ratings[i].date = NULL \/ ratings[j].date > ratings[i].date

LEMMA NearestRates ==
  ASSUME NEW len \in Nat, NEW ratings, Dated(ratings, len), NEW road, road.place \in Int,
         NEW reference, NULL \notin Int
  PROVE  LET U == {i \in 1..len : Usable(road, ratings, reference, i)}
             P == PavementFor(road, ratings, reference)
         IN IF U = {} THEN P = NULL
            ELSE P # NULL /\ P \in U /\ \A j \in U : ~Better(road, ratings, j, P)
<1>1. PICK C : C = Applicable(road, ratings, reference)
  OBVIOUS
<1>2. PICK U : U = {i \in 1..len : Usable(road, ratings, reference, i)}
  OBVIOUS
<1>3. PICK P : P = PavementFor(road, ratings, reference)
  OBVIOUS
<1>4. C \subseteq 1..len /\ U = {i \in C : Gap(road, ratings[i]) <= MaxReferenceDistance}
  BY <1>1, <1>2 DEF Applicable, Usable, Dated
<1>5. PICK gap \in [1..len -> Nat], day \in [1..len -> Nat], place \in [1..len -> Int] :
        Weighed(road, ratings, len, gap, day, place)
  BY PreferredIs
<1>6. MaxReferenceDistance \in Nat
  BY DEF MaxReferenceDistance
<1>7. CASE C = {}
  <2>1. U = {}
    BY <1>4, <1>7
  <2>2. P = NULL
    BY <1>1, <1>3, <1>7, PavementIs
  <2> QED
    BY <1>2, <1>3, <2>1, <2>2
<1>8. CASE C # {}
  <2>1. PICK best \in C :
          /\ BestOf(road, ratings, C, best)
          /\ P = IF Gap(road, ratings[best]) > MaxReferenceDistance THEN NULL ELSE best
    BY <1>1, <1>3, <1>8, PavementIs
  <2>2. \A j \in C \ {best} : Ahead(gap, day, place, best, j)
    BY <1>4, <1>5, <2>1 DEF BestOf, Weighed
  <2>3. \A j \in C : gap[best] <= gap[j]
    <3> SUFFICES ASSUME NEW j \in C PROVE gap[best] <= gap[j]
      OBVIOUS
    <3>1. best \in 1..len /\ j \in 1..len
      BY <1>4
    <3>2. gap[best] \in Nat /\ gap[j] \in Nat
      BY <3>1
    <3>3. j = best \/ Ahead(gap, day, place, best, j)
      BY <2>2
    <3> QED
      BY <3>2, <3>3 DEF Ahead
  <2>4. best \in 1..len /\ gap[best] \in Nat /\ gap[best] = Gap(road, ratings[best])
    BY <1>4, <1>5 DEF Weighed
  <2>5. CASE gap[best] > MaxReferenceDistance
    <3>1. P = NULL
      BY <2>1, <2>4, <2>5
    <3>2. \A j \in C : ~(Gap(road, ratings[j]) <= MaxReferenceDistance)
      <4> SUFFICES ASSUME NEW j \in C PROVE ~(Gap(road, ratings[j]) <= MaxReferenceDistance)
        OBVIOUS
      <4>1. gap[j] \in Nat /\ gap[j] = Gap(road, ratings[j])
        BY <1>4, <1>5 DEF Weighed
      <4> QED
        BY <1>6, <2>3, <2>4, <2>5, <4>1
    <3>3. U = {}
      BY <1>4, <3>2
    <3> QED
      BY <1>2, <1>3, <3>1, <3>3
  <2>6. CASE ~(gap[best] > MaxReferenceDistance)
    <3>1. P = best
      BY <2>1, <2>4, <2>6
    <3>2. gap[best] <= MaxReferenceDistance
      BY <1>6, <2>4, <2>6
    <3>3. P \in U
      BY <1>4, <2>4, <3>1, <3>2
    <3>4. ASSUME NEW j \in U PROVE ~Better(road, ratings, j, best)
      <4>1. j \in C /\ j \in 1..len /\ gap[j] \in Nat /\ gap[j] = Gap(road, ratings[j])
        BY <1>4, <1>5 DEF Weighed
      <4>2. gap[best] <= gap[j]
        BY <2>3, <4>1
      <4>3. gap[j] = gap[best] => day[j] <= day[best]
        <5>1. day[j] \in Nat /\ day[best] \in Nat
          BY <2>4, <4>1
        <5>2. j = best \/ Ahead(gap, day, place, best, j)
          BY <2>2, <4>1
        <5> QED
          BY <2>4, <4>1, <5>1, <5>2 DEF Ahead
      <4>4. ~(Gap(road, ratings[j]) < Gap(road, ratings[best]))
        BY <2>4, <4>1, <4>2
      <4>5. ASSUME Gap(road, ratings[j]) = Gap(road, ratings[best]), ratings[j].date # NULL,
                   ratings[best].date = NULL \/ ratings[j].date > ratings[best].date
            PROVE  FALSE
        <5>1. day[j] <= day[best]
          BY <2>4, <4>1, <4>3, <4>5
        <5>2. PICK d \in Nat \ {0} : d = ratings[j].date
          BY <4>1, <4>5 DEF Dated
        <5>3. day[j] = d
          BY <1>5, <4>1, <4>5, <5>2 DEF Day, Weighed
        <5>4. CASE ratings[best].date = NULL
          <6>1. day[best] = 0
            BY <1>5, <2>4, <5>4 DEF Day, Weighed
          <6> QED
            BY <5>1, <5>2, <5>3, <6>1
        <5>5. CASE ratings[best].date # NULL
          <6>1. PICK e \in Nat \ {0} : e = ratings[best].date
            BY <2>4, <5>5 DEF Dated
          <6>2. day[best] = e
            BY <1>5, <2>4, <5>5, <6>1 DEF Day, Weighed
          <6>3. d > e
            BY <4>5, <5>2, <5>5, <6>1
          <6> QED
            BY <5>1, <5>3, <6>1, <6>2, <6>3
        <5> QED
          BY <5>4, <5>5
      <4> QED
        BY <4>4, <4>5 DEF Better
    <3>5. P # NULL
      BY <2>4, <3>1
    <3> QED
      BY <1>2, <1>3, <3>1, <3>3, <3>4, <3>5
  <2> QED
    BY <2>5, <2>6
<1> QED
  BY <1>7, <1>8

\* The records that were known by a date.
ThenOf(items, reference) ==
  {i \in DOMAIN items : items[i].date = NULL \/ items[i].date <= reference}

LEMMA KeptDated ==
  ASSUME NEW len \in Nat, NEW items, Dated(items, len), NEW P, P \subseteq 1..len
  PROVE  /\ Dated(Kept(items, P), Cardinality(P))
         /\ Cardinality(P) \in Nat
         /\ \A n \in 1..Cardinality(P) : Kept(items, P)[n] = items[Place(P, n)]
<1>1. PICK c : c = Cardinality(P)
  OBVIOUS
<1>2. PICK kept : kept = Kept(items, P)
  OBVIOUS
<1>3. c \in Nat /\ \A n \in 1..c : Place(P, n) \in P
  BY <1>1, PlaceIs
<1>4. kept = [n \in 1..c |-> items[Place(P, n)]]
  BY <1>1, <1>2, KeptBy
<1>5. \A n \in 1..c : kept[n] = items[Place(P, n)] /\ Place(P, n) \in 1..len
  BY <1>3, <1>4
<1>6. \A n \in 1..c : kept[n].place \in Int /\ kept[n].date \in (Nat \ {0}) \cup {NULL}
  BY <1>5 DEF Dated
<1> QED
  BY <1>1, <1>2, <1>3, <1>4, <1>5, <1>6 DEF Dated

\* What was recorded later does not change the rating.
LEMMA SameRating ==
  ASSUME NEW len \in Nat, NEW ratings, Dated(ratings, len), NEW road, road.place \in Int,
         NEW reference, NULL \notin Int
  PROVE  LET P == ThenOf(ratings, reference)
             kept == Kept(ratings, P)
             old == PavementFor(road, ratings, reference)
             new == PavementFor(road, kept, reference)
         IN /\ old = NULL <=> new = NULL
            /\ old # NULL => kept[new] = ratings[old]
<1>1. PICK P : P = ThenOf(ratings, reference)
  OBVIOUS
<1>2. P \subseteq 1..len
  BY <1>1 DEF ThenOf, Dated
<1>3. PICK c : c = Cardinality(P)
  OBVIOUS
<1>4. /\ c \in Nat
      /\ \A n \in 1..c : Place(P, n) \in P
      /\ \A i \in P : \E n \in 1..c : Place(P, n) = i
      /\ \A m, n \in 1..c : m < n => Place(P, m) < Place(P, n)
      /\ \A m, n \in 1..c : Place(P, m) = Place(P, n) => m = n
  BY <1>2, <1>3, PlaceIs
<1>5. PICK kept : kept = Kept(ratings, P)
  OBVIOUS
<1>6. Dated(kept, c) /\ \A n \in 1..c : kept[n] = ratings[Place(P, n)]
  <2>1. Dated(Kept(ratings, P), Cardinality(P))
    BY <1>2, KeptDated
  <2>2. kept = [n \in 1..c |-> ratings[Place(P, n)]]
    BY <1>3, <1>5, KeptBy
  <2> QED
    BY <1>3, <1>5, <2>1, <2>2
<1>7. PICK C : C = Applicable(road, ratings, reference)
  OBVIOUS
<1>8. PICK D : D = Applicable(road, kept, reference)
  OBVIOUS
<1>9. C \subseteq P
  BY <1>1, <1>7 DEF Applicable, ThenOf, Known
<1>10. D = {n \in 1..c : Place(P, n) \in C}
  <2>1. DOMAIN kept = 1..c
    BY <1>6 DEF Dated
  <2>2. \A n \in 1..c : n \in D <=> Place(P, n) \in C
    <3> SUFFICES ASSUME NEW n \in 1..c PROVE n \in D <=> Place(P, n) \in C
      OBVIOUS
    <3>1. kept[n] = ratings[Place(P, n)] /\ Place(P, n) \in DOMAIN ratings
      BY <1>2, <1>4, <1>6 DEF Dated
    <3> QED
      BY <1>7, <1>8, <2>1, <3>1 DEF Applicable
  <2>3. D \subseteq 1..c
    BY <1>8, <2>1 DEF Applicable
  <2> QED
    BY <2>2, <2>3
<1>11. PICK gap \in [1..len -> Nat], day \in [1..len -> Nat], place \in [1..len -> Int] :
         Weighed(road, ratings, len, gap, day, place)
  BY PreferredIs
<1>12. PICK gapK \in [1..c -> Nat], dayK \in [1..c -> Nat], placeK \in [1..c -> Int] :
         Weighed(road, kept, c, gapK, dayK, placeK)
  BY <1>4, <1>6, PreferredIs
<1>13. \A n \in 1..c : /\ Place(P, n) \in 1..len
                       /\ gapK[n] = gap[Place(P, n)] /\ dayK[n] = day[Place(P, n)]
                       /\ placeK[n] = place[Place(P, n)]
  <2> SUFFICES ASSUME NEW n \in 1..c
      PROVE  /\ Place(P, n) \in 1..len
             /\ gapK[n] = gap[Place(P, n)] /\ dayK[n] = day[Place(P, n)]
             /\ placeK[n] = place[Place(P, n)]
    OBVIOUS
  <2>1. PICK i \in 1..len : i = Place(P, n)
    BY <1>2, <1>4
  <2>2. kept[n] = ratings[i]
    BY <1>6, <2>1
  <2>3. gapK[n] = Gap(road, kept[n]) /\ dayK[n] = Day(kept[n]) /\ placeK[n] = kept[n].place
    BY <1>12 DEF Weighed
  <2>4. gap[i] = Gap(road, ratings[i]) /\ day[i] = Day(ratings[i]) /\ place[i] = ratings[i].place
    BY <1>11 DEF Weighed
  <2> QED
    BY <2>1, <2>2, <2>3, <2>4
<1>14. \A m, n \in 1..c : m < n <=> Place(P, m) < Place(P, n)
  <2> SUFFICES ASSUME NEW m \in 1..c, NEW n \in 1..c, Place(P, m) < Place(P, n) PROVE m < n
    BY <1>4
  <2>1. Place(P, m) \in Int /\ Place(P, n) \in Int /\ m \in Int /\ n \in Int
    BY <1>13
  <2>2. ~(n < m) /\ n # m
    BY <1>4, <2>1
  <2> QED
    BY <2>1, <2>2
<1>15. \A m, n \in 1..c :
         Preferred(Preference(road, kept, m), Preference(road, kept, n))
           <=> Preferred(Preference(road, ratings, Place(P, m)), Preference(road, ratings, Place(P, n)))
  <2> SUFFICES ASSUME NEW m \in 1..c, NEW n \in 1..c
      PROVE  Preferred(Preference(road, kept, m), Preference(road, kept, n))
               <=> Preferred(Preference(road, ratings, Place(P, m)), Preference(road, ratings, Place(P, n)))
    OBVIOUS
  <2>1. Preferred(Preference(road, kept, m), Preference(road, kept, n))
          <=> Ahead(gapK, dayK, placeK, m, n)
    BY <1>12 DEF Weighed
  <2>2. Preferred(Preference(road, ratings, Place(P, m)), Preference(road, ratings, Place(P, n)))
          <=> Ahead(gap, day, place, Place(P, m), Place(P, n))
    BY <1>11, <1>13 DEF Weighed
  <2>3. Ahead(gapK, dayK, placeK, m, n) <=> Ahead(gap, day, place, Place(P, m), Place(P, n))
    BY <1>13, <1>14 DEF Ahead
  <2> QED
    BY <2>1, <2>2, <2>3
<1>16. PICK old : old = PavementFor(road, ratings, reference)
  OBVIOUS
<1>17. PICK new : new = PavementFor(road, kept, reference)
  OBVIOUS
<1>18. CASE C = {}
  <2>1. D = {}
    BY <1>10, <1>18
  <2>2. old = NULL
    BY <1>7, <1>16, <1>18, PavementIs
  <2>3. new = NULL
    BY <1>4, <1>6, <1>8, <1>17, <2>1, PavementIs
  <2> QED
    BY <1>1, <1>5, <1>16, <1>17, <2>2, <2>3
<1>19. CASE C # {}
  <2>1. PICK best \in C :
          /\ BestOf(road, ratings, C, best)
          /\ old = IF Gap(road, ratings[best]) > MaxReferenceDistance THEN NULL ELSE best
    BY <1>7, <1>16, <1>19, PavementIs
  <2>2. PICK n \in 1..c : Place(P, n) = best
    BY <1>4, <1>9, <2>1
  <2>3. n \in D
    BY <1>10, <2>1, <2>2
  <2>4. BestOf(road, kept, D, n)
    <3> SUFFICES ASSUME NEW m \in D \ {n}
                 PROVE  Preferred(Preference(road, kept, n), Preference(road, kept, m))
      BY DEF BestOf
    <3>1. m \in 1..c /\ Place(P, m) \in C /\ Place(P, m) # best
      BY <1>4, <1>10, <2>2
    <3>2. Preferred(Preference(road, ratings, best), Preference(road, ratings, Place(P, m)))
      BY <2>1, <3>1 DEF BestOf
    <3> QED
      BY <1>15, <2>2, <3>1, <3>2
  <2>5. new = IF Gap(road, kept[n]) > MaxReferenceDistance THEN NULL ELSE n
    <3>1. D # {}
      BY <2>3
    <3>2. PICK z \in D :
            /\ \A y \in D : BestOf(road, kept, D, y) => y = z
            /\ new = IF Gap(road, kept[z]) > MaxReferenceDistance THEN NULL ELSE z
      BY <1>4, <1>6, <1>8, <1>17, <3>1, PavementIs
    <3> QED
      BY <2>3, <2>4, <3>2
  <2>6. kept[n] = ratings[best]
    BY <1>6, <2>2
  <2>7. n # NULL /\ best # NULL
    BY <1>2, <1>9, <2>1
  <2> QED
    BY <1>1, <1>5, <1>16, <1>17, <2>1, <2>5, <2>6, <2>7
<1> QED
  BY <1>18, <1>19

-----------------------------------------------------------------------------
(***************************************************************************)
(* The segment a hump record belongs to.                                   *)
(***************************************************************************)
\* Segments numbered from 1, with a place.
Mapped(segments, N) == DOMAIN segments = 1..N /\ \A n \in 1..N : segments[n].place \in Int

Taken(hump, segments, reference, n) ==
  /\ hump.located /\ Known(hump.date, reference)
  /\ Key(segments[n].street) = Key(hump.street)
  /\ Gap(segments[n], hump) <= MaxReferenceDistance

\* It is NULL only if no segment of the street is near.
LEMMA SegmentForIs ==
  ASSUME NEW N \in Nat, NEW segments, Mapped(segments, N), NEW hump, hump.place \in Int,
         NEW reference, NULL \notin Int
  PROVE  LET n == SegmentFor(hump, segments, reference)
         IN /\ n = NULL \/ n \in 1..N
            /\ n # NULL <=> \E m \in 1..N : Taken(hump, segments, reference, m)
<1>1. PICK C : C = {n \in 1..N : Key(segments[n].street) = Key(hump.street)}
  OBVIOUS
<1>2. PICK gap \in [1..N -> Nat] : \A n \in 1..N : gap[n] = Gap(segments[n], hump)
  <2> DEFINE gap == [n \in 1..N |-> Gap(segments[n], hump)]
  <2>1. \A n \in 1..N : Gap(segments[n], hump) \in Nat
    BY GapTyped DEF Mapped
  <2>2. gap \in [1..N -> Nat]
    BY <2>1
  <2> QED
    BY <2>2
<1>3. PICK nearest : nearest = CHOOSE n \in C : \A m \in C \ {n} :
                                 \/ Gap(segments[n], hump) < Gap(segments[m], hump)
                                 \/ Gap(segments[n], hump) = Gap(segments[m], hump) /\ n < m
  OBVIOUS
<1>4. SegmentFor(hump, segments, reference)
        = IF \/ ~hump.located \/ ~Known(hump.date, reference) \/ C = {}
             \/ Gap(segments[nearest], hump) > MaxReferenceDistance
          THEN NULL ELSE nearest
  <2>1. DOMAIN segments = 1..N
    BY DEF Mapped
  <2> QED
    BY <1>1, <1>3, <2>1 DEF SegmentFor
<1>5. MaxReferenceDistance \in Nat
  BY DEF MaxReferenceDistance
<1>6. PICK n : n = SegmentFor(hump, segments, reference)
  OBVIOUS
<1>7. CASE C = {}
  BY <1>1, <1>4, <1>6, <1>7 DEF Taken
<1>8. CASE C # {}
  <2> DEFINE before == {p \in C \X C : \/ gap[p[1]] < gap[p[2]]
                                       \/ gap[p[1]] = gap[p[2]] /\ p[1] < p[2]}
  <2>1. \A x, y \in C : <<x, y>> \in before <=> gap[x] < gap[y] \/ (gap[x] = gap[y] /\ x < y)
    OBVIOUS
  <2> HIDE DEF before
  <2>2. C \subseteq 1..N
    BY <1>1
  <2>3. \A x \in C : gap[x] \in Nat /\ x \in Nat /\ gap[x] = Gap(segments[x], hump)
    BY <1>2, <2>2
  <2>4. Strict(C, before)
    <3>0. \A x \in C : gap[x] \in Int /\ x \in Int
      BY <2>3
    <3>1. \A x \in C : <<x, x>> \notin before
      BY <2>1, <3>0
    <3>2. \A x, y \in C : x # y => <<x, y>> \in before \/ <<y, x>> \in before
      <4> SUFFICES ASSUME NEW x \in C, NEW y \in C, x # y
                   PROVE  <<x, y>> \in before \/ <<y, x>> \in before
        OBVIOUS
      <4>1. \/ gap[x] < gap[y] \/ (gap[x] = gap[y] /\ x < y)
            \/ gap[y] < gap[x] \/ (gap[y] = gap[x] /\ y < x)
        BY <3>0
      <4> QED
        BY <2>1, <4>1
    <3>3. \A x, y, z \in C : <<x, y>> \in before /\ <<y, z>> \in before => <<x, z>> \in before
      BY <2>1, <3>0
    <3> QED
      BY <3>1, <3>2, <3>3 DEF Strict
  <2>5. IsFiniteSet(C)
    BY <2>2, PlaceIs
  <2>6. PICK x \in C : \A y \in C \ {x} : <<x, y>> \in before
    BY <1>8, <2>4, <2>5, FirstIs
  <2>7. \A y \in C \ {x} : \/ Gap(segments[x], hump) < Gap(segments[y], hump)
                           \/ Gap(segments[x], hump) = Gap(segments[y], hump) /\ x < y
    BY <2>1, <2>3, <2>6
  <2>8. /\ nearest \in C
        /\ \A y \in C \ {nearest} : \/ Gap(segments[nearest], hump) < Gap(segments[y], hump)
                                    \/ Gap(segments[nearest], hump) = Gap(segments[y], hump) /\ nearest < y
    BY <1>3, <2>7
  <2>9. \A y \in C : gap[nearest] <= gap[y]
    <3> SUFFICES ASSUME NEW y \in C PROVE gap[nearest] <= gap[y]
      OBVIOUS
    <3>1. y = nearest \/ gap[nearest] < gap[y] \/ gap[nearest] = gap[y]
      BY <2>3, <2>8
    <3> QED
      BY <2>3, <2>8, <3>1
  <2>10. /\ nearest \in 1..N /\ gap[nearest] \in Nat
         /\ gap[nearest] = Gap(segments[nearest], hump)
    BY <2>2, <2>3, <2>8
  <2>11. nearest # NULL
    BY <2>10
  <2>12. CASE hump.located /\ Known(hump.date, reference) /\ gap[nearest] <= MaxReferenceDistance
    <3>1. n = nearest
      BY <1>4, <1>5, <1>6, <1>8, <2>10, <2>12
    <3>2. Taken(hump, segments, reference, nearest)
      BY <1>1, <2>8, <2>10, <2>12 DEF Taken
    <3> QED
      BY <1>6, <2>10, <2>11, <3>1, <3>2
  <2>13. CASE ~(hump.located /\ Known(hump.date, reference) /\ gap[nearest] <= MaxReferenceDistance)
    <3>1. n = NULL
      BY <1>4, <1>5, <1>6, <2>10, <2>13
    <3>2. ASSUME NEW m \in 1..N, Taken(hump, segments, reference, m) PROVE FALSE
      <4>1. m \in C /\ gap[m] <= MaxReferenceDistance /\ hump.located /\ Known(hump.date, reference)
        BY <1>1, <1>2, <3>2 DEF Taken
      <4>2. gap[nearest] <= gap[m] /\ gap[m] \in Nat
        BY <2>3, <2>9, <4>1
      <4>3. gap[nearest] <= MaxReferenceDistance
        BY <1>5, <2>10, <4>1, <4>2
      <4> QED
        BY <2>13, <4>1, <4>3
    <3> QED
      BY <1>6, <3>1, <3>2
  <2> QED
    BY <2>12, <2>13
<1> QED
  BY <1>7, <1>8

-----------------------------------------------------------------------------
(***************************************************************************)
(* Lists in the same order.                                                *)
(***************************************************************************)
LEMMA OrderedAt ==
  ASSUME NEW D, IsFiniteSet(D), NEW before, Strict(D, before),
         NEW x \in D, NEW n \in 1..Cardinality(D),
         Cardinality({w \in D : <<w, x>> \in before}) = n - 1
  PROVE  Ordered(D, before)[n] = x
<1> DEFINE below(y) == Cardinality({w \in D : <<w, y>> \in before})
<1>1. Ordered(D, before)[n] = CHOOSE y \in D : below(y) = n - 1
  BY DEF Ordered
<1>2. \A y \in D : below(y) \in Nat
  BY StrictNumbers
<1>3. \A y, z \in D : <<y, z>> \in before => below(y) < below(z)
  BY StrictNumbers
<1>4. below(x) = n - 1
  OBVIOUS
<1> HIDE DEF below
<1>5. ASSUME NEW y \in D, below(y) = n - 1, y # x PROVE FALSE
  <2>1. <<x, y>> \in before \/ <<y, x>> \in before
    BY <1>5 DEF Strict
  <2>2. below(x) < below(y) \/ below(y) < below(x)
    BY <1>3, <2>1
  <2>3. below(x) \in Nat /\ below(y) \in Nat
    BY <1>2
  <2> QED
    BY <1>4, <1>5, <2>2, <2>3
<1> QED
  BY <1>1, <1>4, <1>5

Below(D, before, x) == Cardinality({w \in D : <<w, x>> \in before})

LEMMA BelowAny ==
  ASSUME NEW D, IsFiniteSet(D), NEW before, Strict(D, before)
  PROVE  \A n \in 1..Cardinality(D) : \E x \in D : 1 + Below(D, before, x) = n
<1>1. \A n \in 1..Cardinality(D) :
        \E x \in D : 1 + Cardinality({w \in D : <<w, x>> \in before}) = n
  BY StrictNumbers
<1> QED
  BY <1>1 DEF Below

\* A one-to-one image in the same order is listed in the same order.
LEMMA OrderedSame ==
  ASSUME NEW D, IsFiniteSet(D), NEW before, Strict(D, before),
         NEW E, NEW after, Strict(E, after),
         NEW f \in Bijection(D, E),
         \A x, y \in D : <<x, y>> \in before <=> <<f[x], f[y]>> \in after
  PROVE  /\ Cardinality(E) = Cardinality(D)
         /\ \A n \in 1..Cardinality(D) : Ordered(E, after)[n] = f[Ordered(D, before)[n]]
<1>1. IsFiniteSet(E) /\ Cardinality(E) = Cardinality(D)
  BY FS_Bijection DEF ExistsBijection
<1>2. /\ \A x \in D : f[x] \in E
      /\ \A x, y \in D : f[x] = f[y] => x = y
      /\ \A v \in E : \E x \in D : f[x] = v
  BY DEF Bijection, Injection, Surjection, IsInjective
<1>3. ASSUME NEW n \in 1..Cardinality(D) PROVE Ordered(E, after)[n] = f[Ordered(D, before)[n]]
  <2>1. Cardinality(D) \in Nat
    BY FS_CardinalityType
  <2>2. PICK x \in D : 1 + Below(D, before, x) = n
    BY BelowAny
  <2>3. PICK U : U = {w \in D : <<w, x>> \in before}
    OBVIOUS
  <2>4. PICK V : V = {v \in E : <<v, f[x]>> \in after}
    OBVIOUS
  <2>5. IsFiniteSet(U)
    BY <2>3, FS_Subset
  <2>6. PICK g : g = [w \in U |-> f[w]]
    OBVIOUS
  <2>7. g \in Bijection(U, V)
    <3>1. g \in [U -> V] /\ \A w, v \in U : g[w] = g[v] => w = v
      BY <1>2, <2>3, <2>4, <2>6
    <3>2. \A v \in V : \E w \in U : g[w] = v
      BY <1>2, <2>3, <2>4, <2>6
    <3> QED
      BY <3>1, <3>2 DEF Bijection, Injection, Surjection, IsInjective
  <2>8. Cardinality(V) = Cardinality(U)
    BY <2>5, <2>7, FS_Bijection DEF ExistsBijection
  <2>9. Cardinality(U) \in Nat /\ Cardinality(U) = n - 1
    <3>1. Cardinality(U) \in Nat
      BY <2>5, FS_CardinalityType
    <3>2. 1 + Cardinality(U) = n
      BY <2>2, <2>3 DEF Below
    <3> QED
      BY <3>1, <3>2
  <2>10. Ordered(D, before)[n] = x
    BY <2>3, <2>9, OrderedAt
  <2>11. Ordered(E, after)[n] = f[x]
    BY <1>1, <1>2, <2>4, <2>8, <2>9, OrderedAt
  <2> QED
    BY <2>10, <2>11
<1> QED
  BY <1>1, <1>3

-----------------------------------------------------------------------------
(***************************************************************************)
(* The points at which humps lie, in the order of their fractions.         *)
(***************************************************************************)
LEMMA TimesOrders ==
  ASSUME NEW a \in Int, NEW b \in Int, NEW k \in Nat \ {0}
  PROVE  /\ a * k \in Int /\ b * k \in Int
         /\ a < b <=> a * k < b * k
         /\ a = b <=> a * k = b * k
<1>1. a * k \in Int /\ b * k \in Int
  OBVIOUS
<1>2. \A x, y \in Int : x < y => x * k < y * k
  <2> SUFFICES ASSUME NEW x \in Int, NEW y \in Int, x < y PROVE x * k < y * k
    OBVIOUS
  <2>1. (y - x) \in Nat \ {0}
    OBVIOUS
  <2>2. (y - x) * k \in Nat \ {0}
    BY <2>1
  <2>3. (y - x) * k = y * k - x * k
    OBVIOUS
  <2> QED
    BY <2>2, <2>3
<1>3. a < b \/ a = b \/ b < a
  OBVIOUS
<1> QED
  BY <1>1, <1>2, <1>3

\* A fraction is not above another.
LEMMA FractionsOrder ==
  ASSUME NEW i \in Int, NEW m \in Nat \ {0}, NEW j \in Int, NEW n \in Nat \ {0},
         NEW l \in Int, NEW k \in Nat \ {0},
         i * n <= j * m, j * k <= l * n
  PROVE  /\ i * k <= l * m
         /\ i * n < j * m \/ j * k < l * n => i * k < l * m
<1>1. /\ i * n \in Int /\ j * m \in Int /\ j * k \in Int /\ l * n \in Int
      /\ i * k \in Int /\ l * m \in Int
  OBVIOUS
<1>2. PICK p \in Int : p = i * n
  OBVIOUS
<1>3. PICK q \in Int : q = j * m
  OBVIOUS
<1>4. PICK r \in Int : r = j * k
  OBVIOUS
<1>5. PICK s \in Int : s = l * n
  OBVIOUS
<1>6. PICK t \in Int : t = i * k
  OBVIOUS
<1>7. PICK u \in Int : u = l * m
  OBVIOUS
<1>8. p * k <= q * k /\ (p < q => p * k < q * k) /\ p * k \in Int /\ q * k \in Int
  BY <1>2, <1>3, TimesOrders
<1>9. r * m <= s * m /\ (r < s => r * m < s * m) /\ r * m \in Int /\ s * m \in Int
  BY <1>4, <1>5, TimesOrders
<1>10. p * k = t * n /\ q * k = r * m /\ s * m = u * n
  <2>1. p * k = t * n
    BY <1>2, <1>6
  <2>2. q * k = r * m
    BY <1>3, <1>4
  <2>3. s * m = u * n
    BY <1>5, <1>7
  <2> QED
    BY <2>1, <2>2, <2>3
<1>11. t * n \in Int /\ u * n \in Int /\ (t < u <=> t * n < u * n) /\ (t = u <=> t * n = u * n)
  BY TimesOrders
<1>12. t * n <= u * n /\ (p < q \/ r < s => t * n < u * n)
  BY <1>8, <1>9, <1>10
<1>13. t <= u /\ (p < q \/ r < s => t < u)
  BY <1>11, <1>12
<1> QED
  BY <1>2, <1>3, <1>4, <1>5, <1>6, <1>7, <1>13

\* Points have a fraction inside their segment and differ by record and number.
Fractional(D) ==
  /\ \A p \in D : p[1] \in Int /\ p[2] \in Nat \ {0} /\ p[3] \in Nat \ {0} /\ p[2] < p[3]
  /\ \A p, q \in D : p[1] = q[1] => p[3] = q[3]
  /\ \A p, q \in D : p[1] = q[1] /\ p[2] = q[2] => p = q

Lowers(D) == {p \in D \X D : Lower(p[1], p[2])}

LEMMA LowerStrict == ASSUME NEW D, Fractional(D) PROVE Strict(D, Lowers(D))
<1>1. \A x, y \in D : <<x, y>> \in Lowers(D)
        <=> x[2] * y[3] < y[2] * x[3] \/ (x[2] * y[3] = y[2] * x[3] /\ x[1] < y[1])
  BY DEF Lowers, Lower
<1>2. \A x \in D : x[1] \in Int /\ x[2] \in Nat \ {0} /\ x[3] \in Nat \ {0}
  BY DEF Fractional
<1>3. \A x, y \in D : x[2] * y[3] \in Int
  BY <1>2
<1>4. \A x \in D : <<x, x>> \notin Lowers(D)
  BY <1>1, <1>2, <1>3
<1>5. ASSUME NEW x \in D, NEW y \in D, <<x, y>> \notin Lowers(D), <<y, x>> \notin Lowers(D)
      PROVE  x = y
  <2>1. x[2] * y[3] = y[2] * x[3] /\ x[1] = y[1]
    BY <1>1, <1>2, <1>3, <1>5
  <2>2. x[3] = y[3]
    BY <2>1 DEF Fractional
  <2>3. x[2] = y[2]
    BY <1>2, <2>1, <2>2, TimesOrders
  <2> QED
    BY <2>1, <2>3 DEF Fractional
<1>6. ASSUME NEW x \in D, NEW y \in D, NEW z \in D,
             <<x, y>> \in Lowers(D), <<y, z>> \in Lowers(D)
      PROVE  <<x, z>> \in Lowers(D)
  <2>1. /\ x[2] * y[3] < y[2] * x[3] \/ (x[2] * y[3] = y[2] * x[3] /\ x[1] < y[1])
        /\ y[2] * z[3] < z[2] * y[3] \/ (y[2] * z[3] = z[2] * y[3] /\ y[1] < z[1])
    BY <1>1, <1>6
  <2>2. x[2] * y[3] <= y[2] * x[3] /\ y[2] * z[3] <= z[2] * y[3]
    BY <1>3, <2>1
  <2>3. /\ x[2] * z[3] <= z[2] * x[3]
        /\ x[2] * y[3] < y[2] * x[3] \/ y[2] * z[3] < z[2] * y[3] => x[2] * z[3] < z[2] * x[3]
    BY <1>2, <2>2, FractionsOrder
  <2>4. x[2] * z[3] \in Int /\ z[2] * x[3] \in Int
    BY <1>3
  <2>5. x[2] * z[3] < z[2] * x[3] \/ (x[2] * z[3] = z[2] * x[3] /\ x[1] < z[1])
    BY <1>2, <2>1, <2>3, <2>4
  <2> QED
    BY <1>1, <2>5
<1> QED
  BY <1>4, <1>5, <1>6 DEF Strict

\* Hump records numbered from 1.
Counted(humps, len) ==
  Dated(humps, len) /\ \A h \in 1..len : humps[h].count \in Int \cup {NULL}

LEMMA CountTyped ==
  ASSUME NEW hump, hump.count \in Int \cup {NULL} PROVE HumpCount(hump) \in Nat
<1>1. CASE hump.count = NULL
  BY <1>1 DEF HumpCount
<1>2. CASE hump.count # NULL
  BY <1>2 DEF HumpCount
<1> QED
  BY <1>1, <1>2

LEMMA PointsFractional ==
  ASSUME NEW len \in Nat, NEW humps, Counted(humps, len), NEW own, own \subseteq 1..len
  PROVE  Fractional(Points(own, humps))
<1>1. \A h \in own : HumpCount(humps[h]) \in Nat /\ h \in Int
  BY CountTyped DEF Counted
<1>2. ASSUME NEW p \in Points(own, humps)
      PROVE  /\ p[1] \in Int /\ p[2] \in Nat \ {0} /\ p[3] \in Nat \ {0} /\ p[2] < p[3]
             /\ p[3] = HumpCount(humps[p[1]]) + 1 /\ p = <<p[1], p[2], p[3]>>
  <2>1. PICK h \in own : \E i \in 1..HumpCount(humps[h]) : p = <<h, i, HumpCount(humps[h]) + 1>>
    BY DEF Points
  <2>2. PICK i \in 1..HumpCount(humps[h]) : p = <<h, i, HumpCount(humps[h]) + 1>>
    BY <2>1
  <2>3. PICK c \in Nat : c = HumpCount(humps[h])
    BY <1>1
  <2>4. p[1] = h /\ p[2] = i /\ p[3] = c + 1 /\ i \in 1..c /\ h \in Int
    BY <1>1, <2>2, <2>3
  <2> QED
    BY <2>2, <2>3, <2>4
<1>3. \A p, q \in Points(own, humps) : p[1] = q[1] => p[3] = q[3]
  <2> SUFFICES ASSUME NEW p \in Points(own, humps), NEW q \in Points(own, humps), p[1] = q[1]
               PROVE  p[3] = q[3]
    OBVIOUS
  <2>1. p[3] = HumpCount(humps[p[1]]) + 1
    BY <1>2
  <2>2. q[3] = HumpCount(humps[q[1]]) + 1
    BY <1>2
  <2> QED
    BY <2>1, <2>2
<1>4. \A p, q \in Points(own, humps) : p[1] = q[1] /\ p[2] = q[2] => p = q
  <2> SUFFICES ASSUME NEW p \in Points(own, humps), NEW q \in Points(own, humps),
                      p[1] = q[1], p[2] = q[2]
               PROVE  p = q
    OBVIOUS
  <2>1. p[3] = q[3]
    BY <1>3
  <2>2. p = <<p[1], p[2], p[3]>>
    BY <1>2
  <2>3. q = <<q[1], q[2], q[3]>>
    BY <1>2
  <2> QED
    BY <2>1, <2>2, <2>3
<1>5. \A p \in Points(own, humps) :
        p[1] \in Int /\ p[2] \in Nat \ {0} /\ p[3] \in Nat \ {0} /\ p[2] < p[3]
  BY <1>2
<1> QED
  BY <1>3, <1>4, <1>5 DEF Fractional

\* A union of finitely many finite sets.
Joined(part) == UNION {part[i] : i \in DOMAIN part}

LEMMA JoinedFinite ==
  ASSUME NEW part, IsFiniteSet(DOMAIN part), \A i \in DOMAIN part : IsFiniteSet(part[i])
  PROVE  IsFiniteSet(Joined(part))
<1> DEFINE I == DOMAIN part
           parts == {part[i] : i \in I}
<1>1. PICK f : f = [i \in I |-> part[i]]
  OBVIOUS
<1>2. f \in Surjection(I, parts)
  BY <1>1 DEF Surjection
<1>3. IsFiniteSet(parts)
  BY <1>2, FS_Surjection
<1>4. \A T \in parts : IsFiniteSet(T)
  OBVIOUS
<1> QED
  BY <1>3, <1>4, FS_UNION DEF Joined

LEMMA PointsFinite ==
  ASSUME NEW len \in Nat, NEW humps, Counted(humps, len), NEW own, own \subseteq 1..len
  PROVE  IsFiniteSet(Points(own, humps))
<1>1. \A h \in own : HumpCount(humps[h]) \in Nat
  BY CountTyped DEF Counted
<1> DEFINE of(h) == {<<h, i, HumpCount(humps[h]) + 1>> : i \in 1..HumpCount(humps[h])}
<1>2. ASSUME NEW h \in own PROVE IsFiniteSet(of(h))
  <2>1. PICK c \in Nat : c = HumpCount(humps[h])
    BY <1>1
  <2>2. IsFiniteSet(1..c)
    BY FS_Interval
  <2>3. PICK f : f = [i \in 1..c |-> <<h, i, c + 1>>]
    OBVIOUS
  <2>4. of(h) = {<<h, i, c + 1>> : i \in 1..c}
    BY <2>1
  <2>5. f \in Surjection(1..c, of(h))
    BY <2>3, <2>4 DEF Surjection
  <2> QED
    BY <2>2, <2>5, FS_Surjection
<1>3. PICK part : part = [h \in own |-> of(h)]
  OBVIOUS
<1>4. DOMAIN part = own /\ \A h \in own : part[h] = of(h)
  BY <1>3
<1>5. IsFiniteSet(own)
  BY PlaceIs
<1>6. \A h \in own : IsFiniteSet(part[h])
  BY <1>2, <1>4
<1> HIDE DEF of
<1>7. IsFiniteSet(Joined(part))
  BY <1>4, <1>5, <1>6, JoinedFinite
<1>8. Joined(part) = UNION {of(h) : h \in own}
  BY <1>4 DEF Joined
<1>9. Points(own, humps) = UNION {of(h) : h \in own}
  BY DEF Points, of
<1> QED
  BY <1>7, <1>8, <1>9

-----------------------------------------------------------------------------
(***************************************************************************)
(* The humps of a segment.                                                 *)
(***************************************************************************)
Own(n, humps, segments, reference) ==
  {h \in DOMAIN humps : SegmentFor(humps[h], segments, reference) = n}
PointsOf(n, humps, segments, reference) == Points(Own(n, humps, segments, reference), humps)

\* Points in order, each a record, a number and the number of parts.
Listed(D, o) ==
  /\ o = Ordered(D, Lowers(D)) /\ Cardinality(D) \in Nat
  /\ o \in [1..Cardinality(D) -> D]
  /\ \A p \in D : \E k \in 1..Cardinality(D) : o[k] = p
  /\ \A k, l \in 1..Cardinality(D) : k < l => Lower(o[k], o[l])
  /\ \A k, l \in 1..Cardinality(D) : o[k] = o[l] => k = l

LEMMA ListedIs ==
  ASSUME NEW D, IsFiniteSet(D), Fractional(D)
  PROVE  \E o : Listed(D, o)
<1>1. Strict(D, Lowers(D))
  BY LowerStrict
<1>2. PICK o : o = Ordered(D, Lowers(D))
  OBVIOUS
<1>3. /\ Cardinality(D) \in Nat
      /\ o \in [1..Cardinality(D) -> D]
      /\ \A x \in D : \E n \in 1..Cardinality(D) : o[n] = x
      /\ \A m, n \in 1..Cardinality(D) : m < n => <<o[m], o[n]>> \in Lowers(D)
      /\ \A m, n \in 1..Cardinality(D) : o[m] = o[n] => m = n
  BY <1>1, <1>2, OrderedIs
<1>4. \A k, l \in 1..Cardinality(D) : k < l => Lower(o[k], o[l])
  BY <1>3 DEF Lowers
<1> QED
  BY <1>2, <1>3, <1>4 DEF Listed

LEMMA FractionsAre ==
  ASSUME NEW n, NEW humps, NEW segments, NEW reference, NEW D,
         D = PointsOf(n, humps, segments, reference), NEW o, Listed(D, o)
  PROVE  Fractions(n, humps, segments, reference)
           = [k \in 1..Cardinality(D) |-> <<o[k][2], o[k][3]>>]
<1>1. o = InOrder(D)
  BY DEF Listed, InOrder, Lowers
<1>2. DOMAIN o = 1..Cardinality(D)
  BY DEF Listed
<1> QED
  BY <1>1, <1>2 DEF Fractions, PointsOf, Own

LEMMA OwnKnown ==
  ASSUME NEW hump, NEW segments, NEW reference, SegmentFor(hump, segments, reference) # NULL
  PROVE  Known(hump.date, reference)
BY DEF SegmentFor

\* What was recorded later does not change where the humps lie.
LEMMA SameFractions ==
  ASSUME NEW len \in Nat, NEW humps, Counted(humps, len), NEW segments, NEW reference,
         NEW n, n # NULL
  PROVE  Fractions(n, Kept(humps, ThenOf(humps, reference)), segments, reference)
           = Fractions(n, humps, segments, reference)
<1>1. PICK P : P = ThenOf(humps, reference)
  OBVIOUS
<1>2. P \subseteq 1..len
  BY <1>1 DEF ThenOf, Counted, Dated
<1>3. PICK c : c = Cardinality(P)
  OBVIOUS
<1>4. /\ c \in Nat
      /\ \A m \in 1..c : Place(P, m) \in P
      /\ \A i \in P : \E m \in 1..c : Place(P, m) = i
      /\ \A l, m \in 1..c : l < m => Place(P, l) < Place(P, m)
      /\ \A l, m \in 1..c : Place(P, l) = Place(P, m) => l = m
  BY <1>2, <1>3, PlaceIs
<1>5. PICK kept : kept = Kept(humps, P)
  OBVIOUS
<1>6. Counted(kept, c) /\ \A m \in 1..c : kept[m] = humps[Place(P, m)]
  <2>1. Dated(Kept(humps, P), Cardinality(P))
    BY <1>2, KeptDated DEF Counted
  <2>2. kept = [m \in 1..c |-> humps[Place(P, m)]]
    BY <1>3, <1>5, KeptBy
  <2>3. \A m \in 1..c : kept[m] = humps[Place(P, m)] /\ Place(P, m) \in 1..len
    BY <1>2, <1>4, <2>2
  <2>4. \A m \in 1..c : kept[m].count \in Int \cup {NULL}
    BY <2>3 DEF Counted
  <2> QED
    BY <1>3, <1>5, <2>1, <2>3, <2>4 DEF Counted
<1>7. PICK own : own = Own(n, humps, segments, reference)
  OBVIOUS
<1>8. PICK ownK : ownK = Own(n, kept, segments, reference)
  OBVIOUS
<1>9. own \subseteq P
  BY <1>1, <1>7, OwnKnown DEF Own, ThenOf, Known
<1>10. ownK = {m \in 1..c : Place(P, m) \in own}
  <2>1. DOMAIN kept = 1..c /\ DOMAIN humps = 1..len
    BY <1>6 DEF Counted, Dated
  <2> QED
    BY <1>2, <1>4, <1>6, <1>7, <1>8, <2>1 DEF Own
<1>11. own \subseteq 1..len /\ ownK \subseteq 1..c
  BY <1>2, <1>9, <1>10
<1>12. PICK D : D = Points(own, humps)
  OBVIOUS
<1>13. PICK E : E = Points(ownK, kept)
  OBVIOUS
<1>14. IsFiniteSet(D) /\ Fractional(D)
  BY <1>11, <1>12, PointsFinite, PointsFractional
<1>15. IsFiniteSet(E) /\ Fractional(E)
  BY <1>4, <1>6, <1>11, <1>13, PointsFinite, PointsFractional
<1>16. PICK f : f = [p \in E |-> <<Place(P, p[1]), p[2], p[3]>>]
  OBVIOUS
<1>17. ASSUME NEW p \in E
       PROVE  /\ p[1] \in ownK /\ f[p] \in D /\ p = <<p[1], p[2], p[3]>>
              /\ f[p][1] = Place(P, p[1]) /\ f[p][2] = p[2] /\ f[p][3] = p[3]
  <2>1. PICK m \in ownK : \E i \in 1..HumpCount(kept[m]) : p = <<m, i, HumpCount(kept[m]) + 1>>
    BY <1>13 DEF Points
  <2>2. PICK i \in 1..HumpCount(kept[m]) : p = <<m, i, HumpCount(kept[m]) + 1>>
    BY <2>1
  <2>3. kept[m] = humps[Place(P, m)] /\ Place(P, m) \in own
    BY <1>6, <1>10
  <2>4. f[p] = <<Place(P, m), i, HumpCount(kept[m]) + 1>>
    BY <1>16, <2>2
  <2>5. f[p] \in D
    BY <1>12, <2>2, <2>3, <2>4 DEF Points
  <2> QED
    BY <2>2, <2>4, <2>5
<1>18. ASSUME NEW q \in D PROVE \E p \in E : f[p] = q
  <2>1. PICK h \in own : \E i \in 1..HumpCount(humps[h]) : q = <<h, i, HumpCount(humps[h]) + 1>>
    BY <1>12 DEF Points
  <2>2. PICK i \in 1..HumpCount(humps[h]) : q = <<h, i, HumpCount(humps[h]) + 1>>
    BY <2>1
  <2>3. PICK m \in 1..c : Place(P, m) = h
    BY <1>4, <1>9
  <2>4. m \in ownK /\ kept[m] = humps[h]
    BY <1>6, <1>10, <2>3
  <2>5. PICK p : p = <<m, i, HumpCount(kept[m]) + 1>>
    OBVIOUS
  <2>6. p \in E
    BY <1>13, <2>2, <2>4, <2>5 DEF Points
  <2>7. f[p] = q
    BY <1>16, <2>2, <2>3, <2>4, <2>5, <2>6
  <2> QED
    BY <2>6, <2>7
<1>19. \A p, q \in E : f[p] = f[q] => p = q
  <2> SUFFICES ASSUME NEW p \in E, NEW q \in E, f[p] = f[q] PROVE p = q
    OBVIOUS
  <2>1. Place(P, p[1]) = Place(P, q[1]) /\ p[2] = q[2]
    BY <1>17
  <2>2. p[1] \in 1..c /\ q[1] \in 1..c
    BY <1>11, <1>17
  <2>3. p[1] = q[1]
    BY <1>4, <2>1, <2>2
  <2> QED
    BY <1>15, <2>1, <2>3 DEF Fractional
<1>20. f \in Bijection(E, D)
  <2>1. f \in [E -> D]
    BY <1>16, <1>17
  <2> QED
    BY <1>18, <1>19, <2>1 DEF Bijection, Injection, Surjection, IsInjective
<1>21. \A p, q \in E : <<p, q>> \in Lowers(E) <=> <<f[p], f[q]>> \in Lowers(D)
  <2> SUFFICES ASSUME NEW p \in E, NEW q \in E
               PROVE  <<p, q>> \in Lowers(E) <=> <<f[p], f[q]>> \in Lowers(D)
    OBVIOUS
  <2>1. f[p] \in D /\ f[q] \in D
    BY <1>17
  <2>2. p[1] \in 1..c /\ q[1] \in 1..c
    BY <1>11, <1>17
  <2>3. p[1] < q[1] <=> Place(P, p[1]) < Place(P, q[1])
    <3>1. p[1] < q[1] \/ p[1] = q[1] \/ q[1] < p[1]
      BY <2>2
    <3>2. Place(P, p[1]) \in Int /\ Place(P, q[1]) \in Int
      <4>1. \A i \in P : i \in Int
        BY <1>2
      <4>2. Place(P, p[1]) \in P /\ Place(P, q[1]) \in P
        BY <1>4, <2>2
      <4> QED
        BY <4>1, <4>2
    <3> QED
      BY <1>4, <2>2, <3>1, <3>2
  <2>4. Lower(p, q) <=> Lower(f[p], f[q])
    <3>1. f[p][1] = Place(P, p[1]) /\ f[p][2] = p[2] /\ f[p][3] = p[3]
      BY <1>17
    <3>2. f[q][1] = Place(P, q[1]) /\ f[q][2] = q[2] /\ f[q][3] = q[3]
      BY <1>17
    <3> QED
      BY <2>3, <3>1, <3>2 DEF Lower
  <2> QED
    BY <2>1, <2>4 DEF Lowers
<1>22. Strict(D, Lowers(D)) /\ Strict(E, Lowers(E))
  BY <1>14, <1>15, LowerStrict
<1>23. PICK o : Listed(D, o)
  BY <1>14, ListedIs
<1>24. PICK oK : Listed(E, oK)
  BY <1>15, ListedIs
<1>25. Cardinality(D) = Cardinality(E) /\ \A k \in 1..Cardinality(E) : o[k] = f[oK[k]]
  BY <1>15, <1>20, <1>21, <1>22, <1>23, <1>24, OrderedSame DEF Listed
<1>26. \A k \in 1..Cardinality(E) : o[k][2] = oK[k][2] /\ o[k][3] = oK[k][3]
  <2> SUFFICES ASSUME NEW k \in 1..Cardinality(E) PROVE o[k][2] = oK[k][2] /\ o[k][3] = oK[k][3]
    OBVIOUS
  <2>1. oK[k] \in E
    BY <1>24 DEF Listed
  <2> QED
    BY <1>17, <1>25, <2>1
<1>27. Fractions(n, humps, segments, reference)
         = [k \in 1..Cardinality(D) |-> <<o[k][2], o[k][3]>>]
  BY <1>7, <1>12, <1>23, FractionsAre DEF PointsOf
<1>28. Fractions(n, kept, segments, reference)
         = [k \in 1..Cardinality(E) |-> <<oK[k][2], oK[k][3]>>]
  BY <1>8, <1>13, <1>24, FractionsAre DEF PointsOf
<1> QED
  BY <1>1, <1>5, <1>25, <1>26, <1>27, <1>28

\* The rows of the table say of each segment where its humps lie.
HumpRows(rows, segments, N, humps, reference) ==
  DOMAIN rows = 1..N /\ \A n \in 1..N : /\ rows[n].road = segments[n]
                                        /\ rows[n].humps = Fractions(n, humps, segments, reference)

LEMMA HumpsAreOnce ==
  ASSUME NEW N \in Nat, NEW segments, Mapped(segments, N), NULL \notin Int,
         NEW data, NEW len \in Nat, Counted(data.humps, len), NEW reference,
         NEW rows, HumpRows(rows, segments, N, data.humps, reference)
  PROVE  /\ HumpsOnce(data, reference, rows)
         /\ \A n \in 1..N : \A k \in DOMAIN rows[n].humps :
              rows[n].humps[k][1] \in Int /\ rows[n].humps[k][2] \in Int
<1>1. PICK humps : humps = data.humps
  OBVIOUS
<1>2. DOMAIN humps = 1..len /\ Counted(humps, len)
  BY <1>1 DEF Counted, Dated
<1>3. PICK D : D = [n \in 1..N |-> PointsOf(n, humps, segments, reference)]
  OBVIOUS
<1>4. \A n \in 1..N : Own(n, humps, segments, reference) \subseteq 1..len
  BY <1>2 DEF Own
<1>5. \A n \in 1..N : IsFiniteSet(D[n]) /\ Fractional(D[n])
  <2> SUFFICES ASSUME NEW n \in 1..N PROVE IsFiniteSet(D[n]) /\ Fractional(D[n])
    OBVIOUS
  <2>1. D[n] = Points(Own(n, humps, segments, reference), humps)
    BY <1>3 DEF PointsOf
  <2> QED
    BY <1>2, <1>4, <2>1, PointsFinite, PointsFractional
<1>6. PICK o : o = [n \in 1..N |-> Ordered(D[n], Lowers(D[n]))]
  OBVIOUS
<1>7. \A n \in 1..N : Listed(D[n], o[n])
  <2> SUFFICES ASSUME NEW n \in 1..N PROVE Listed(D[n], o[n])
    OBVIOUS
  <2>1. PICK l : Listed(D[n], l)
    BY <1>5, ListedIs
  <2>2. l = o[n]
    BY <1>6, <2>1 DEF Listed
  <2> QED
    BY <2>1, <2>2
<1>8. PICK c : c = [n \in 1..N |-> Cardinality(D[n])]
  OBVIOUS
<1>9. ASSUME NEW n \in 1..N
      PROVE  /\ c[n] \in Nat /\ DOMAIN rows[n].humps = 1..c[n]
             /\ \A k \in 1..c[n] : rows[n].humps[k] = <<o[n][k][2], o[n][k][3]>>
  <2>1. rows[n].humps = Fractions(n, humps, segments, reference)
    BY <1>1 DEF HumpRows
  <2>2. D[n] = PointsOf(n, humps, segments, reference)
    BY <1>3
  <2>3. Fractions(n, humps, segments, reference)
          = [k \in 1..Cardinality(D[n]) |-> <<o[n][k][2], o[n][k][3]>>]
    BY <1>7, <2>2, FractionsAre
  <2>4. c[n] \in Nat /\ c[n] = Cardinality(D[n])
    BY <1>7, <1>8 DEF Listed
  <2> QED
    BY <2>1, <2>3, <2>4
<1>10. ASSUME NEW n \in 1..N, NEW k \in 1..c[n]
       PROVE  /\ o[n][k] \in D[n]
              /\ o[n][k][2] \in Nat \ {0} /\ o[n][k][3] \in Nat \ {0} /\ o[n][k][2] < o[n][k][3]
  <2>1. o[n][k] \in D[n]
    BY <1>7, <1>8 DEF Listed
  <2> QED
    BY <1>5, <2>1 DEF Fractional
<1>11. ASSUME NEW n \in 1..N, NEW k \in 1..c[n]
       PROVE  LET at == rows[n].humps[k]
              IN /\ 0 < at[1] /\ at[1] < at[2]
                 /\ k > 1 => rows[n].humps[k - 1][1] * at[2] <= at[1] * rows[n].humps[k - 1][2]
  <2>1. rows[n].humps[k] = <<o[n][k][2], o[n][k][3]>>
    BY <1>9
  <2>2. 0 < o[n][k][2] /\ o[n][k][2] < o[n][k][3]
    BY <1>10
  <2>3. ASSUME k > 1
        PROVE  rows[n].humps[k - 1][1] * o[n][k][3] <= o[n][k][2] * rows[n].humps[k - 1][2]
    <3>1. k - 1 \in 1..c[n] /\ k - 1 < k
      BY <1>9, <2>3
    <3>2. Lower(o[n][k - 1], o[n][k])
      BY <1>7, <1>8, <3>1 DEF Listed
    <3>3. rows[n].humps[k - 1] = <<o[n][k - 1][2], o[n][k - 1][3]>>
      BY <1>9, <3>1
    <3>4. o[n][k - 1][2] * o[n][k][3] \in Int /\ o[n][k][2] * o[n][k - 1][3] \in Int
      <4>1. o[n][k - 1][2] \in Int /\ o[n][k - 1][3] \in Int
        BY <1>10, <3>1
      <4>2. o[n][k][2] \in Int /\ o[n][k][3] \in Int
        BY <1>10
      <4> QED
        BY <4>1, <4>2
    <3>5. o[n][k - 1][2] * o[n][k][3] <= o[n][k][2] * o[n][k - 1][3]
      BY <3>2, <3>4 DEF Lower
    <3> QED
      BY <3>3, <3>5
  <2> QED
    BY <2>1, <2>2, <2>3
<1>12. PICK near : near = {h \in 1..len : SegmentFor(humps[h], segments, reference) # NULL}
  OBVIOUS
<1>13. \A h \in near : SegmentFor(humps[h], segments, reference) \in 1..N
  <2> SUFFICES ASSUME NEW h \in near PROVE SegmentFor(humps[h], segments, reference) \in 1..N
    OBVIOUS
  <2>1. humps[h].place \in Int /\ SegmentFor(humps[h], segments, reference) # NULL
    BY <1>2, <1>12 DEF Counted, Dated
  <2> QED
    BY <2>1, SegmentForIs
<1>14. near = {g \in DOMAIN humps : \E n \in DOMAIN rows :
                 /\ humps[g].located /\ Known(humps[g].date, reference)
                 /\ Key(humps[g].street) = Key(rows[n].road.street)
                 /\ Gap(rows[n].road, humps[g]) <= MaxReferenceDistance}
  <2> SUFFICES ASSUME NEW g \in 1..len
      PROVE  g \in near <=> \E n \in DOMAIN rows :
               /\ humps[g].located /\ Known(humps[g].date, reference)
               /\ Key(humps[g].street) = Key(rows[n].road.street)
               /\ Gap(rows[n].road, humps[g]) <= MaxReferenceDistance
    BY <1>2, <1>12
  <2>1. humps[g].place \in Int
    BY <1>2 DEF Counted, Dated
  <2>2. g \in near <=> \E n \in 1..N : Taken(humps[g], segments, reference, n)
    BY <1>12, <2>1, SegmentForIs
  <2>3. \A n \in 1..N : Taken(humps[g], segments, reference, n) <=>
               /\ humps[g].located /\ Known(humps[g].date, reference)
               /\ Key(humps[g].street) = Key(rows[n].road.street)
               /\ Gap(rows[n].road, humps[g]) <= MaxReferenceDistance
    BY DEF Taken, HumpRows
  <2>4. DOMAIN rows = 1..N
    BY DEF HumpRows
  <2> QED
    BY <2>2, <2>3, <2>4
<1>15. PICK Placed : Placed = UNION {{n} \X DOMAIN rows[n].humps : n \in DOMAIN rows}
  OBVIOUS
<1>16. PICK Recorded : Recorded = UNION {{h} \X (1..HumpCount(humps[h])) : h \in near}
  OBVIOUS
<1>17. Placed = UNION {{n} \X (1..c[n]) : n \in 1..N}
  <2>1. DOMAIN rows = 1..N
    BY DEF HumpRows
  <2> QED
    BY <1>9, <1>15, <2>1
<1>18. /\ \A z \in Placed : z[1] \in 1..N /\ z[2] \in 1..c[z[1]] /\ z = <<z[1], z[2]>>
       /\ \A n \in 1..N : \A k \in 1..c[n] : <<n, k>> \in Placed
  BY <1>17
<1>19. IsFiniteSet(Placed)
  <2>1. PICK part : part = [n \in 1..N |-> {n} \X (1..c[n])]
    OBVIOUS
  <2>2. DOMAIN part = 1..N /\ \A n \in 1..N : part[n] = {n} \X (1..c[n])
    BY <2>1
  <2>3. \A n \in 1..N : IsFiniteSet(part[n])
    <3> SUFFICES ASSUME NEW n \in 1..N PROVE IsFiniteSet(part[n])
      OBVIOUS
    <3>0. c[n] \in Nat
      BY <1>9
    <3>1. IsFiniteSet({n})
      BY FS_Singleton
    <3>3. IsFiniteSet(1..c[n])
      BY <3>0, FS_Interval
    <3>2. IsFiniteSet({n} \X (1..c[n]))
      BY <3>1, <3>3, FS_Product
    <3> QED
      BY <2>2, <3>2
  <2>4. IsFiniteSet(1..N)
    BY FS_Interval
  <2>5. IsFiniteSet(Joined(part))
    BY <2>2, <2>3, <2>4, JoinedFinite
  <2>6. Joined(part) = Placed
    BY <1>17, <2>2 DEF Joined
  <2> QED
    BY <2>5, <2>6
<1>20. PICK f : f = [z \in Placed |-> <<o[z[1]][z[2]][1], o[z[1]][z[2]][2]>>]
  OBVIOUS
<1>21. ASSUME NEW n \in 1..N, NEW p \in D[n]
       PROVE  /\ p[1] \in near /\ SegmentFor(humps[p[1]], segments, reference) = n
              /\ p[2] \in 1..HumpCount(humps[p[1]])
  <2>1. D[n] = Points(Own(n, humps, segments, reference), humps)
    BY <1>3 DEF PointsOf
  <2>2. PICK h \in Own(n, humps, segments, reference) :
          \E i \in 1..HumpCount(humps[h]) : p = <<h, i, HumpCount(humps[h]) + 1>>
    BY <2>1 DEF Points
  <2>3. PICK i \in 1..HumpCount(humps[h]) : p = <<h, i, HumpCount(humps[h]) + 1>>
    BY <2>2
  <2>4. h \in 1..len /\ SegmentFor(humps[h], segments, reference) = n
    BY <1>2, <2>2 DEF Own
  <2>5. p[1] = h /\ p[2] = i
    BY <2>3
  <2>6. n # NULL
    OBVIOUS
  <2> QED
    BY <1>12, <2>3, <2>4, <2>5, <2>6
<1>22. f \in [Placed -> Recorded]
  <2> SUFFICES ASSUME NEW z \in Placed
               PROVE  <<o[z[1]][z[2]][1], o[z[1]][z[2]][2]>> \in Recorded
    BY <1>20
  <2>1. z[1] \in 1..N /\ z[2] \in 1..c[z[1]]
    BY <1>18
  <2>2. o[z[1]][z[2]] \in D[z[1]]
    BY <1>10, <2>1
  <2> QED
    BY <1>16, <1>21, <2>1, <2>2
<1>23. \A y, z \in Placed : f[y] = f[z] => y = z
  <2> SUFFICES ASSUME NEW y \in Placed, NEW z \in Placed, f[y] = f[z] PROVE y = z
    OBVIOUS
  <2>1. y[1] \in 1..N /\ y[2] \in 1..c[y[1]] /\ y = <<y[1], y[2]>>
    BY <1>18
  <2>2. z[1] \in 1..N /\ z[2] \in 1..c[z[1]] /\ z = <<z[1], z[2]>>
    BY <1>18
  <2>3. PICK p : p = o[y[1]][y[2]]
    OBVIOUS
  <2>4. PICK q : q = o[z[1]][z[2]]
    OBVIOUS
  <2>5. p \in D[y[1]]
    BY <1>10, <2>1, <2>3
  <2>6. q \in D[z[1]]
    BY <1>10, <2>2, <2>4
  <2>7. p[1] = q[1] /\ p[2] = q[2]
    BY <1>20, <2>3, <2>4
  <2>8. y[1] = z[1]
    BY <1>21, <2>1, <2>2, <2>5, <2>6, <2>7
  <2>9. p = q
    BY <1>5, <2>1, <2>5, <2>6, <2>7, <2>8 DEF Fractional
  <2>10. c[y[1]] = Cardinality(D[y[1]])
    BY <1>8, <2>1
  <2>11. y[2] = z[2]
    BY <1>7, <2>1, <2>2, <2>3, <2>4, <2>8, <2>9, <2>10 DEF Listed
  <2> QED
    BY <2>1, <2>2, <2>8, <2>11
<1>24. \A r \in Recorded : \E z \in Placed : f[z] = r
  <2> SUFFICES ASSUME NEW r \in Recorded PROVE \E z \in Placed : f[z] = r
    OBVIOUS
  <2>1. PICK h \in near : r \in {h} \X (1..HumpCount(humps[h]))
    BY <1>16
  <2>2. PICK i \in 1..HumpCount(humps[h]) : r = <<h, i>>
    BY <2>1
  <2>3. PICK n \in 1..N : n = SegmentFor(humps[h], segments, reference)
    BY <1>13
  <2>4. PICK p : p = <<h, i, HumpCount(humps[h]) + 1>>
    OBVIOUS
  <2>5. h \in Own(n, humps, segments, reference)
    BY <1>2, <1>12, <2>3 DEF Own
  <2>6. p \in D[n]
    BY <1>3, <2>4, <2>5 DEF PointsOf, Points
  <2>7. PICK k \in 1..c[n] : o[n][k] = p
    BY <1>7, <1>8, <2>6 DEF Listed
  <2>8. <<n, k>> \in Placed
    BY <1>18
  <2>9. f[<<n, k>>] = r
    BY <1>20, <2>2, <2>4, <2>7, <2>8
  <2> QED
    BY <2>8, <2>9
<1>25. f \in Bijection(Placed, Recorded)
  BY <1>22, <1>23, <1>24 DEF Bijection, Injection, Surjection, IsInjective
<1>26. Cardinality(Placed) = Cardinality(Recorded)
  BY <1>19, <1>25, FS_Bijection DEF ExistsBijection
<1>27. \A n \in DOMAIN rows : \A k \in DOMAIN rows[n].humps :
         LET at == rows[n].humps[k]
         IN /\ 0 < at[1] /\ at[1] < at[2]
            /\ k > 1 => rows[n].humps[k - 1][1] * at[2] <= at[1] * rows[n].humps[k - 1][2]
  <2>1. DOMAIN rows = 1..N
    BY DEF HumpRows
  <2> QED
    BY <1>9, <1>11, <2>1
<1>28. Recorded = UNION {{h} \X (1..HumpCount(data.humps[h])) :
                    h \in {g \in DOMAIN data.humps : \E n \in DOMAIN rows :
                             /\ data.humps[g].located /\ Known(data.humps[g].date, reference)
                             /\ Key(data.humps[g].street) = Key(rows[n].road.street)
                             /\ Gap(rows[n].road, data.humps[g]) <= MaxReferenceDistance}}
  BY <1>1, <1>14, <1>16
<1>29. HumpsOnce(data, reference, rows)
  BY <1>15, <1>26, <1>27, <1>28 DEF HumpsOnce
<1>30. \A n \in 1..N : \A k \in 1..c[n] :
         rows[n].humps[k][1] \in Int /\ rows[n].humps[k][2] \in Int
  <2> SUFFICES ASSUME NEW n \in 1..N, NEW k \in 1..c[n]
               PROVE  rows[n].humps[k][1] \in Int /\ rows[n].humps[k][2] \in Int
    OBVIOUS
  <2>1. rows[n].humps[k] = <<o[n][k][2], o[n][k][3]>>
    BY <1>9
  <2>2. o[n][k][2] \in Int /\ o[n][k][3] \in Int
    BY <1>10
  <2> QED
    BY <2>1, <2>2
<1> QED
  BY <1>9, <1>29, <1>30

-----------------------------------------------------------------------------
(***************************************************************************)
(* What an accepted build says of its source.                              *)
(***************************************************************************)
\* The datasets of a source, with their lengths.
Read(data, lines, inspections, humps) ==
  /\ Lines(data.lion, lines) /\ Dated(data.pavement, inspections) /\ Counted(data.humps, humps)
  /\ \A i \in 1..lines : data.lion[i].shape # NULL => data.lion[i].shape.place \in Int

LEMMA SourceRead ==
  ASSUME NEW s \in Sources
  PROVE  \E lines, inspections, humps \in Nat : Read(DataOf[s], lines, inspections, humps)
<1>1. PICK data : data = DataOf[s]
  OBVIOUS
<1>2. Readable(data)
  BY <1>1, DatasetsAssumption
<1>3. \A list : list \in Seq(Range(list)) => Len(list) \in Nat /\ DOMAIN list = 1..Len(list)
  OBVIOUS
<1>4. PICK lines \in Nat : DOMAIN data.lion = 1..lines
  BY <1>2, <1>3 DEF Readable
<1>5. PICK inspections \in Nat : DOMAIN data.pavement = 1..inspections
  BY <1>2, <1>3 DEF Readable
<1>6. PICK humps \in Nat : DOMAIN data.humps = 1..humps
  BY <1>2, <1>3 DEF Readable
<1>7. /\ Lines(data.lion, lines)
      /\ \A i \in 1..lines : data.lion[i].shape # NULL => data.lion[i].shape.place \in Int
  BY <1>2, <1>4 DEF Readable, Lines
<1>8. Dated(data.pavement, inspections)
  BY <1>2, <1>5 DEF Readable, Dated
<1>9. Counted(data.humps, humps)
  BY <1>2, <1>6 DEF Readable, Counted, Dated
<1> QED
  BY <1>1, <1>7, <1>8, <1>9 DEF Read

RowOf(row, n, segments, source, reference) ==
  LET best == PavementFor(segments[n], source.pavement, reference)
  IN /\ row.road = segments[n]
     /\ row.rating = IF best = NULL THEN NULL ELSE Rating(source.pavement[best])
     /\ row.matched = (best # NULL)
     /\ row.humps = Fractions(n, source.humps, segments, reference)

LEMMA EnrichedIs ==
  ASSUME NEW source, NEW reference, NEW segments, segments = RoadSegmentsOf(source.lion),
         NEW M, DOMAIN segments = 1..M
  PROVE  /\ DOMAIN Enriched(source, reference) = 1..M
         /\ \A n \in 1..M : RowOf(Enriched(source, reference)[n], n, segments, source, reference)
<1>1. PICK rows : rows = Enriched(source, reference)
  OBVIOUS
<1>2. rows = [n \in 1..M |->
         LET best == PavementFor(segments[n], source.pavement, reference)
         IN [road |-> segments[n],
             rating |-> IF best = NULL THEN NULL ELSE Rating(source.pavement[best]),
             matched |-> best # NULL,
             humps |-> Fractions(n, source.humps, segments, reference)]]
  BY <1>1 DEF Enriched, EnrichedRows
<1>3. ASSUME NEW n \in 1..M PROVE RowOf(rows[n], n, segments, source, reference)
  <2>1. PICK best : best = PavementFor(segments[n], source.pavement, reference)
    OBVIOUS
  <2>2. rows[n] = [road |-> segments[n],
                   rating |-> IF best = NULL THEN NULL ELSE Rating(source.pavement[best]),
                   matched |-> best # NULL,
                   humps |-> Fractions(n, source.humps, segments, reference)]
    BY <1>2, <2>1
  <2> QED
    BY <2>1, <2>2 DEF RowOf
<1> QED
  BY <1>1, <1>2, <1>3

\* The segments of a source, each from its lowest line.
Drawn(lion, segments, M, of) ==
  /\ DOMAIN segments = 1..M /\ of \in [1..M -> Vehicles(lion)]
  /\ \A k \in 1..M : RoadFrom(lion, segments[k], of[k])
  /\ \A k, l \in 1..M : segments[k].segment = segments[l].segment => k = l

LEMMA SegmentsDrawn ==
  ASSUME NEW data, NEW lines \in Nat, NEW inspections, NEW humps,
         Read(data, lines, inspections, humps)
  PROVE  \E M \in Nat : \E of : /\ Drawn(data.lion, RoadSegmentsOf(data.lion), M, of)
                                /\ Mapped(RoadSegmentsOf(data.lion), M)
<1>1. PICK lion : lion = data.lion
  OBVIOUS
<1>2. Lines(lion, lines)
  BY <1>1 DEF Read
<1>3. Strip[NULL] = NULL
  BY DatasetsAssumption
<1>4. PICK M \in Nat : \E of \in [1..M -> Vehicles(lion)] :
        /\ DOMAIN RoadSegmentsOf(lion) = 1..M
        /\ \A k \in 1..M : RoadFrom(lion, RoadSegmentsOf(lion)[k], of[k])
        /\ \A k, l \in 1..M :
             RoadSegmentsOf(lion)[k].segment = RoadSegmentsOf(lion)[l].segment => k = l
  BY <1>2, <1>3, RoadsAre
<1>5. PICK of : Drawn(lion, RoadSegmentsOf(lion), M, of)
  BY <1>4 DEF Drawn
<1>6. \A k \in 1..M : RoadSegmentsOf(lion)[k].place \in Int
  <2> SUFFICES ASSUME NEW k \in 1..M PROVE RoadSegmentsOf(lion)[k].place \in Int
    OBVIOUS
  <2>1. of[k] \in 1..lines
    BY <1>2, <1>5 DEF Drawn, Vehicles, Lines
  <2>2. /\ lion[of[k]].shape # NULL
        /\ RoadSegmentsOf(lion)[k].place = lion[of[k]].shape.place
    BY <1>5 DEF Drawn, RoadFrom
  <2> QED
    BY <1>1, <2>1, <2>2 DEF Read
<1>7. Mapped(RoadSegmentsOf(lion), M)
  BY <1>5, <1>6 DEF Mapped, Drawn
<1> QED
  BY <1>1, <1>5, <1>7

LEMMA LowestObject ==
  ASSUME NEW data, NEW rows, NEW segments, NEW M, NEW of, Drawn(data.lion, segments, M, of),
         DOMAIN rows = 1..M, \A n \in 1..M : rows[n].road = segments[n]
  PROVE  FromLowestObject(data, rows)
<1> SUFFICES ASSUME NEW n \in 1..M
    PROVE  LET L == {i \in DOMAIN data.lion : /\ Strip[data.lion[i].segment] = rows[n].road.segment
                                              /\ IsVehicleSegment(data.lion[i])}
           IN \E i \in L : /\ \A j \in L : data.lion[i].object <= data.lion[j].object
                           /\ data.lion[i].street = rows[n].road.street
                           /\ data.lion[i].length = rows[n].road.length
                           /\ data.lion[i].shape.place = rows[n].road.place
  BY DEF FromLowestObject
<1>1. PICK lion : lion = data.lion
  OBVIOUS
<1>2. PICK road : road = rows[n].road
  OBVIOUS
<1>3. RoadFrom(lion, road, of[n]) /\ of[n] \in Vehicles(lion)
  BY <1>1, <1>2 DEF Drawn
<1>4. PICK L : L = {i \in DOMAIN lion : /\ Strip[lion[i].segment] = road.segment
                                        /\ IsVehicleSegment(lion[i])}
  OBVIOUS
<1>5. of[n] \in L /\ \A j \in L : j \in Vehicles(lion) /\ Strip[lion[j].segment] = road.segment
  BY <1>3, <1>4 DEF RoadFrom, Vehicles
<1>6. \A j \in L : lion[of[n]].object <= lion[j].object
  BY <1>3, <1>5 DEF RoadFrom
<1>7. /\ lion[of[n]].street = road.street /\ lion[of[n]].length = road.length
      /\ lion[of[n]].shape.place = road.place
  BY <1>3 DEF RoadFrom
<1> QED
  BY <1>1, <1>2, <1>4, <1>5, <1>6, <1>7

LEMMA NearestInspection ==
  ASSUME NEW data, NEW len \in Nat, Dated(data.pavement, len), NEW reference, NULL \notin Int,
         NEW M \in Nat, NEW segments, Mapped(segments, M), NEW rows, DOMAIN rows = 1..M,
         \A n \in 1..M : RowOf(rows[n], n, segments, data, reference)
  PROVE  RatedByNearest(data, reference, rows)
<1>1. PICK ratings : ratings = data.pavement
  OBVIOUS
<1>2. ASSUME NEW n \in 1..M
      PROVE  LET U == {i \in DOMAIN ratings : Usable(rows[n].road, ratings, reference, i)}
             IN IF U = {} THEN rows[n].rating = NULL /\ ~rows[n].matched
                ELSE \E i \in U : /\ \A j \in U : ~Better(rows[n].road, ratings, j, i)
                                  /\ rows[n].rating = Rating(ratings[i])
  <2>1. PICK road : road = segments[n]
    OBVIOUS
  <2>2. rows[n].road = road /\ road.place \in Int
    BY <2>1 DEF RowOf, Mapped
  <2>3. PICK P : P = PavementFor(road, ratings, reference)
    OBVIOUS
  <2>4. PICK U : U = {i \in 1..len : Usable(road, ratings, reference, i)}
    OBVIOUS
  <2>5. IF U = {} THEN P = NULL
        ELSE P # NULL /\ P \in U /\ \A j \in U : ~Better(road, ratings, j, P)
    BY <1>1, <2>2, <2>3, <2>4, NearestRates
  <2>6. /\ rows[n].rating = IF P = NULL THEN NULL ELSE Rating(ratings[P])
        /\ rows[n].matched = (P # NULL)
    BY <1>1, <2>1, <2>3 DEF RowOf
  <2>7. DOMAIN ratings = 1..len
    BY <1>1 DEF Dated
  <2> QED
    BY <2>2, <2>4, <2>5, <2>6, <2>7
<1>3. ASSUME NEW n \in 1..M
      PROVE  LET road == rows[n].road
                 U == {i \in DOMAIN ratings :
                         /\ ratings[i].located
                         /\ Key(ratings[i].street) = Key(road.street)
                         /\ Known(ratings[i].date, reference)
                         /\ Gap(road, ratings[i]) <= MaxReferenceDistance}
                 B(j, i) ==
                   \/ Gap(road, ratings[j]) < Gap(road, ratings[i])
                   \/ /\ Gap(road, ratings[j]) = Gap(road, ratings[i])
                      /\ ratings[j].date # NULL
                      /\ ratings[i].date = NULL \/ ratings[j].date > ratings[i].date
             IN IF U = {} THEN rows[n].rating = NULL /\ ~rows[n].matched
                ELSE \E i \in U : /\ \A j \in U : ~B(j, i)
                                  /\ rows[n].rating = Rating(ratings[i])
  BY <1>2 DEF Usable, Better
<1> QED
  BY <1>1, <1>3 DEF RatedByNearest

\* What was recorded after the reference date changes nothing.
LEMMA SameAsOf ==
  ASSUME NEW data, NEW lines \in Nat, NEW inspections \in Nat, NEW humps \in Nat,
         Read(data, lines, inspections, humps), NEW reference
  PROVE  Enriched(data, reference) = Enriched(AsOf(data, reference), reference)
<1>0. NULL \notin Int
  BY DatasetsAssumption
<1>1. PICK then : then = AsOf(data, reference)
  OBVIOUS
<1>2. /\ then.lion = data.lion
      /\ then.pavement = Kept(data.pavement, ThenOf(data.pavement, reference))
      /\ then.humps = Kept(data.humps, ThenOf(data.humps, reference))
  BY <1>1 DEF AsOf, ThenOf
<1>3. PICK segments : segments = RoadSegmentsOf(data.lion)
  OBVIOUS
<1>4. PICK M \in Nat : Mapped(segments, M)
  BY <1>3, SegmentsDrawn
<1>5. ASSUME NEW n \in 1..M
      PROVE  /\ Fractions(n, then.humps, segments, reference)
                  = Fractions(n, data.humps, segments, reference)
             /\ PavementFor(segments[n], data.pavement, reference) = NULL
                  <=> PavementFor(segments[n], then.pavement, reference) = NULL
             /\ PavementFor(segments[n], data.pavement, reference) # NULL =>
                  then.pavement[PavementFor(segments[n], then.pavement, reference)]
                    = data.pavement[PavementFor(segments[n], data.pavement, reference)]
  <2>1. n # NULL /\ segments[n].place \in Int
    BY <1>0, <1>4 DEF Mapped
  <2>2. Fractions(n, then.humps, segments, reference)
          = Fractions(n, data.humps, segments, reference)
    BY <1>2, <2>1, SameFractions DEF Read
  <2>3. Dated(data.pavement, inspections)
    BY DEF Read
  <2>4. /\ PavementFor(segments[n], data.pavement, reference) = NULL
             <=> PavementFor(segments[n], then.pavement, reference) = NULL
        /\ PavementFor(segments[n], data.pavement, reference) # NULL =>
             then.pavement[PavementFor(segments[n], then.pavement, reference)]
               = data.pavement[PavementFor(segments[n], data.pavement, reference)]
    BY <1>0, <1>2, <2>1, <2>3, SameRating
  <2> QED
    BY <2>2, <2>4
<1>6. PICK before : before = EnrichedRows(segments, data, reference)
  OBVIOUS
<1>7. PICK after : after = EnrichedRows(segments, then, reference)
  OBVIOUS
<1>8. DOMAIN segments = 1..M
  BY <1>4 DEF Mapped
<1>9. ASSUME NEW n \in 1..M PROVE before[n] = after[n]
  <2>1. PICK p : p = PavementFor(segments[n], data.pavement, reference)
    OBVIOUS
  <2>2. PICK q : q = PavementFor(segments[n], then.pavement, reference)
    OBVIOUS
  <2>3. before[n] = [road |-> segments[n],
                     rating |-> IF p = NULL THEN NULL ELSE Rating(data.pavement[p]),
                     matched |-> p # NULL,
                     humps |-> Fractions(n, data.humps, segments, reference)]
    BY <1>6, <1>8, <2>1 DEF EnrichedRows
  <2>4. after[n] = [road |-> segments[n],
                    rating |-> IF q = NULL THEN NULL ELSE Rating(then.pavement[q]),
                    matched |-> q # NULL,
                    humps |-> Fractions(n, then.humps, segments, reference)]
    BY <1>7, <1>8, <2>2 DEF EnrichedRows
  <2>5. p = NULL <=> q = NULL
    BY <1>5, <2>1, <2>2
  <2>6. p # NULL => then.pavement[q] = data.pavement[p]
    BY <1>5, <2>1, <2>2
  <2>7. Fractions(n, then.humps, segments, reference)
          = Fractions(n, data.humps, segments, reference)
    BY <1>5
  <2> QED
    BY <2>3, <2>4, <2>5, <2>6, <2>7
<1>10. before = after
  <2>1. before = [n \in 1..M |-> before[n]]
    BY <1>6, <1>8 DEF EnrichedRows
  <2>2. after = [n \in 1..M |-> after[n]]
    BY <1>7, <1>8 DEF EnrichedRows
  <2> QED
    BY <1>9, <2>1, <2>2
<1>11. Enriched(data, reference) = before
  BY <1>3, <1>6 DEF Enriched
<1>12. Enriched(then, reference) = after
  BY <1>2, <1>3, <1>7 DEF Enriched
<1> QED
  BY <1>1, <1>10, <1>11, <1>12

LEMMA HumpsInside ==
  ASSUME NEW data, NEW reference, NEW rows, HumpsOnce(data, reference, rows)
  PROVE  \A n \in DOMAIN rows : \A k \in DOMAIN rows[n].humps :
           0 < rows[n].humps[k][1] /\ rows[n].humps[k][1] < rows[n].humps[k][2]
BY DEF HumpsOnce

\* The producer can load an accepted environment.
LEMMA RowsLoadable ==
  ASSUME NEW data, NEW reference, NEW M \in Nat, NEW segments, NEW of,
         Drawn(data.lion, segments, M, of), NEW rows, rows # << >>,
         HumpRows(rows, segments, M, data.humps, reference),
         HumpsOnce(data, reference, rows),
         \A n \in 1..M : \A k \in DOMAIN rows[n].humps :
           rows[n].humps[k][1] \in Int /\ rows[n].humps[k][2] \in Int
  PROVE  Loadable(rows)
<1>1. DOMAIN rows = 1..M /\ \A n \in 1..M : rows[n].road = segments[n]
  BY DEF HumpRows
<1>2. \A m, n \in 1..M : rows[m].road.segment = rows[n].road.segment => m = n
  BY <1>1 DEF Drawn
<1>3. \A n \in 1..M : \A k \in DOMAIN rows[n].humps :
        0 <= rows[n].humps[k][1] /\ rows[n].humps[k][1] <= rows[n].humps[k][2]
  BY <1>1, HumpsInside
<1> QED
  BY <1>1, <1>2, <1>3 DEF Loadable

LEMMA AcceptedSound ==
  ASSUME NEW s \in Sources, NEW d \in References,
         Acceptable(DataOf[s], d, MinPavement, MinHumps)
  PROVE  SoundBy[s][d]
<1>1. PICK data : data = DataOf[s]
  OBVIOUS
<1>2. PICK rows : rows = Enriched(data, d)
  OBVIOUS
<1>3. EnrichedBy[s][d] = rows
  BY <1>1, <1>2 DEF EnrichedBy
<1>4. SoundBy[s][d] = (/\ rows = Enriched(AsOf(data, d), d)
                       /\ Loadable(rows)
                       /\ FromLowestObject(data, rows)
                       /\ RatedByNearest(data, d, rows)
                       /\ HumpsOnce(data, d, rows))
  BY <1>1, <1>3 DEF SoundBy
<1>5. rows # << >>
  BY <1>1, <1>2 DEF Acceptable, ValidEnvironment
<1>6. PICK lines \in Nat, inspections \in Nat, humps \in Nat : Read(data, lines, inspections, humps)
  BY <1>1, SourceRead
<1>7. NULL \notin Int
  BY DatasetsAssumption
<1>8. PICK segments : segments = RoadSegmentsOf(data.lion)
  OBVIOUS
<1>9. PICK M \in Nat : \E of : Drawn(data.lion, segments, M, of) /\ Mapped(segments, M)
  BY <1>6, <1>8, SegmentsDrawn
<1>10. PICK of : Drawn(data.lion, segments, M, of) /\ Mapped(segments, M)
  BY <1>9
<1>11. DOMAIN rows = 1..M /\ \A n \in 1..M : RowOf(rows[n], n, segments, data, d)
  <2>1. DOMAIN segments = 1..M
    BY <1>10 DEF Mapped
  <2> QED
    BY <1>2, <1>8, <2>1, EnrichedIs
<1>12. rows = Enriched(AsOf(data, d), d)
  BY <1>2, <1>6, SameAsOf
<1>13. \A n \in 1..M : rows[n].road = segments[n]
  BY <1>11 DEF RowOf
<1>14. FromLowestObject(data, rows)
  BY <1>10, <1>11, <1>13, LowestObject
<1>15. RatedByNearest(data, d, rows)
  BY <1>6, <1>7, <1>10, <1>11, NearestInspection DEF Read
<1>16. HumpRows(rows, segments, M, data.humps, d)
  BY <1>11 DEF RowOf, HumpRows
<1>17. Counted(data.humps, humps)
  BY <1>6 DEF Read
<1>18. /\ HumpsOnce(data, d, rows)
       /\ \A n \in 1..M : \A k \in DOMAIN rows[n].humps :
            rows[n].humps[k][1] \in Int /\ rows[n].humps[k][2] \in Int
  BY <1>7, <1>10, <1>16, <1>17, HumpsAreOnce
<1>19. Loadable(rows)
  BY <1>5, <1>10, <1>16, <1>18, RowsLoadable
<1> QED
  BY <1>4, <1>12, <1>14, <1>15, <1>18, <1>19

-----------------------------------------------------------------------------
(***************************************************************************)
(* What is published comes from an accepted command line.                  *)
(***************************************************************************)
Sourced ==
  /\ \A a \in Running : runs[a].request \in AcceptedRequests
  /\ \A k \in Builds : manifests[k] # NULL =>
       \E q \in AcceptedRequests : /\ KeyOf(q) = k /\ manifests[k].source = q.source
                                   /\ manifests[k].snapshot = q.snapshot

LEMMA InitSourced == Init => Sourced
BY DEF Init, Sourced, Running

LEMMA SourcedKept == IInv /\ Sourced /\ [Next]_vars => Sourced'
<1> SUFFICES ASSUME IInv, Sourced, [Next]_vars PROVE Sourced'
  OBVIOUS
<1>1. CASE UNCHANGED vars
  BY <1>1 DEF vars, Sourced, Running
<1>2. ASSUME NEW q \in Requests, Start(q) PROVE Sourced'
  <2>1. /\ q \in AcceptedRequests /\ manifests' = manifests
        /\ runs' = [runs EXCEPT ![started + 1] = [request |-> q, uploaded |-> 0]]
    BY <1>2 DEF Start
  <2>2. \A a \in Running' : runs'[a].request = q \/ (a \in Running /\ runs'[a] = runs[a])
    BY <2>1 DEF Running, IInv, TypeOK
  <2> QED
    BY <2>1, <2>2 DEF Sourced
<1>3. ASSUME NEW a \in Running, Upload(a) PROVE Sourced'
  <2>1. \A b \in Running' : b \in Running /\ runs'[b].request = runs[b].request
    <3>1. runs' = [runs EXCEPT ![a] = [runs[a] EXCEPT !.uploaded = runs[a].uploaded + 1]]
      BY <1>3 DEF Upload
    <3>2. [runs[a] EXCEPT !.uploaded = runs[a].uploaded + 1].request = runs[a].request
      BY RunTyped DEF IInv
    <3> QED
      BY <3>1, <3>2 DEF Running, IInv, TypeOK
  <2>2. manifests' = manifests
    BY <1>3 DEF Upload
  <2> QED
    BY <2>1, <2>2 DEF Sourced
<1>4. ASSUME NEW a \in Running, WriteManifest(a) PROVE Sourced'
  <2> DEFINE q == runs[a].request
             m == [attempt |-> a, source |-> q.source, snapshot |-> q.snapshot]
  <2>1. q \in AcceptedRequests /\ q \in Requests /\ a \in Attempts /\ KeyOf(q) \in Builds
    BY RunTyped, KeyTyped DEF Sourced, IInv
  <2>2. \A b \in Running' : b \in Running /\ runs'[b].request = runs[b].request
    <3>1. [runs[a] EXCEPT !.uploaded = 9].request = runs[a].request
      BY RunTyped DEF IInv
    <3>2. runs' = [runs EXCEPT ![a] = IF q.activate THEN [runs[a] EXCEPT !.uploaded = 9] ELSE NULL]
      BY <1>4 DEF WriteManifest
    <3> QED
      BY <3>1, <3>2 DEF Running, IInv, TypeOK
  <2>3. \A k \in Builds : manifests'[k] = IF k = KeyOf(q) THEN m ELSE manifests[k]
    BY <1>4 DEF WriteManifest, IInv, TypeOK
  <2>4. m.source = q.source /\ m.snapshot = q.snapshot
    OBVIOUS
  <2> HIDE DEF m
  <2>5. ASSUME NEW k \in Builds, manifests'[k] # NULL
        PROVE  \E r \in AcceptedRequests : /\ KeyOf(r) = k /\ manifests'[k].source = r.source
                                           /\ manifests'[k].snapshot = r.snapshot
    <3>1. CASE k = KeyOf(q)
      BY <2>1, <2>3, <2>4, <3>1
    <3>2. CASE k # KeyOf(q)
      BY <2>3, <2>5, <3>2 DEF Sourced
    <3> QED
      BY <3>1, <3>2
  <2>6. \A b \in Running' : runs'[b].request \in AcceptedRequests
    BY <2>2 DEF Sourced
  <2> QED
    BY <2>5, <2>6 DEF Sourced
<1>5. ASSUME NEW a \in Running, Activate(a) \/ Die(a) PROVE Sourced'
  <2>1. runs' = [runs EXCEPT ![a] = NULL] /\ manifests' = manifests
    BY <1>5 DEF Activate, Die
  <2>2. \A b \in Running' : b \in Running /\ runs'[b] = runs[b]
    BY <2>1 DEF Running, IInv, TypeOK
  <2> QED
    BY <2>1, <2>2 DEF Sourced
<1> QED
  BY <1>1, <1>2, <1>3, <1>4, <1>5 DEF Next

\* A road of the active environment that lies in a zone has one in the map.
LEMMA ActiveMapped ==
  ASSUME IInv, Sourced, active # NULL, NEW road \in ActiveRoads, road.location # NULL
  PROVE  road.segment \in DOMAIN SegmentZones(ActiveSnapshot)
<1>1. active \in Builds /\ manifests[active] # NULL
  BY DEF IInv, TypeOK, PublishedIsWhole
<1>2. PICK q \in AcceptedRequests : /\ KeyOf(q) = active /\ manifests[active].source = q.source
                                    /\ manifests[active].snapshot = q.snapshot
  BY <1>1 DEF Sourced
<1>3. q \in Requests /\ q.source \in Sources
  BY RequestsAssumption DEF AcceptedRequests
<1>4. PICK p : p = PathOf("road_segment", q)
  OBVIOUS
<1>5. "road_segment" \in Roles
  BY DEF Roles, Uploads
<1>6. p \in Paths /\ p.role = "road_segment" /\ p.date = q.snapshot
  BY <1>3, <1>4, <1>5 DEF Paths, PathOf
<1>7. store[p] # NULL /\ store[p].source = q.source
  <2>1. store[p] = BytesOf("road_segment", q.source, manifests[active].attempt)
    BY <1>1, <1>2, <1>3, <1>4, <1>5 DEF IInv, PublishedIsWhole
  <2>2. manifests[active].attempt \in Attempts
    BY <1>1 DEF IInv, TypeOK
  <2>3. "road_segment" \notin SourceRoles
    BY DEF SourceRoles, Uploads
  <2>4. store[p] = [source |-> q.source, attempt |-> manifests[active].attempt]
    BY <2>1, <2>3 DEF BytesOf
  <2>5. manifests[active].attempt \in 0..MaxAttempts
    BY <2>2, RequestsAssumption DEF Attempts
  <2> QED
    BY <1>3, <2>4, <2>5, NullAssumption
<1>8. <<road.segment, road.location>> \in ZoneRows(p)
  <2>1. PICK n \in DOMAIN RoadsOf[q.source] : road = RoadsOf[q.source][n]
    BY <1>2 DEF ActiveRoads
  <2> QED
    BY <1>7, <2>1 DEF ZoneRows
<1> DEFINE snapshot == ActiveSnapshot
           tables == {t \in Paths : store[t] # NULL /\ t.role = "road_segment" /\ t.date = snapshot}
           Names(t) == {row[1] : row \in {r \in ZoneRows(t) : r[2] # NULL}}
<1>9. p \in tables
  BY <1>2, <1>6, <1>7 DEF ActiveSnapshot
<1>10. road.segment \in Names(p)
  <2>1. <<road.segment, road.location>> \in {r \in ZoneRows(p) : r[2] # NULL}
    BY <1>8
  <2> QED
    BY <2>1
<1>11. DOMAIN SegmentZones(snapshot) = UNION {Names(t) : t \in tables}
  BY DEF SegmentZones
<1> QED
  BY <1>9, <1>10, <1>11

\* A published environment says of every road what the datasets said on its
\* reference date, once and for all readers: an attempt only starts with a
\* command line whose rows were accepted, and accepted rows are sound.
THEOREM EnvironmentsSound == Spec => []EnvironmentSound
<1>1. ASSUME IInv, Sourced PROVE EnvironmentSound
  <2>1. ASSUME NEW q \in Requests, manifests[KeyOf(q)] # NULL
        PROVE  SoundBy[manifests[KeyOf(q)].source][q.reference]
    <3>1. PICK r \in AcceptedRequests : /\ KeyOf(r) = KeyOf(q)
                                        /\ manifests[KeyOf(q)].source = r.source
      BY <1>1, <2>1, KeyTyped DEF Sourced
    <3>2. r.reference = q.reference
      BY <3>1 DEF KeyOf
    <3>3. /\ r.source \in Sources /\ q.reference \in References
          /\ Acceptable(DataOf[r.source], q.reference, MinPavement, MinHumps)
      BY <3>2, RequestsAssumption DEF AcceptedRequests, References
    <3> QED
      BY <3>1, <3>3, AcceptedSound
  <2> QED
    BY <1>1, <2>1, ActiveMapped DEF EnvironmentSound
<1>2. IInv /\ [Next]_vars => IInv'
  BY StartKeeps, UploadKeeps, WriteManifestKeeps, EndKeeps, StutterKeeps DEF Next
<1> QED
  BY <1>1, <1>2, InitHolds, InitSourced, SourcedKept, PTL DEF Spec
=============================================================================
