-------------------------- MODULE BronzeCompaction --------------------------
(***************************************************************************)
(* The daily compaction of Bronze sensor events                            *)
(* (orchestration/jobs/sensor_events_compaction.py) beside the stream sink *)
(* that keeps adding files: list the hour partitions, merge the files of   *)
(* each closed one into new compacted- objects, check the footers' row     *)
(* counts, delete the merged files.                                        *)
(*                                                                         *)
(* A source is one part- file and stands for its rows.  One merge writes   *)
(* one object per chunk, and a chunk holds a share of the rows of every    *)
(* source it was made from; an output is [group, batch, chunk, rows] with  *)
(* rows the sources whose share is in it.                                  *)
(***************************************************************************)
EXTENDS Naturals, FiniteSets

CONSTANTS
  Groups,         \* the hour partitions, in the order of their keys
  Sources,        \* the part files the stream may write to a partition
  Chunks,         \* the output objects of one merge
  Mixed,          \* partitions whose files do not share one schema
  MaxGroups,      \* max_groups_per_run, 0 for no limit
  PartialDeletes, \* BOOLEAN: a multi-object delete may fail on some keys only
  MaxMishaps      \* bound: failures and crashes in one behaviour

ASSUME GroupsAssumption == Groups \subseteq Nat
ASSUME SourcesAssumption == IsFiniteSet(Sources)
ASSUME ChunksAssumption == Chunks # {}
ASSUME MixedAssumption == Mixed \subseteq Groups
ASSUME LimitsAssumption == MaxGroups \in Nat /\ MaxMishaps \in Nat
ASSUME PartialDeletesAssumption == PartialDeletes \in BOOLEAN

VARIABLES
  landed,   \* [Groups -> SUBSET Sources]: the files the stream ever wrote
  files,    \* [Groups -> SUBSET Sources]: the part files still there
  outputs,  \* the compacted- objects
  recent,   \* partitions modified inside the safety margin
  pc,       \* what the job does next; "idle" between runs
  listed,   \* the closed partitions' files as this run's listing saw them
  todo,     \* groups this run has not come to yet
  group,    \* the group being merged
  batch,    \* number of merges that named their outputs: the uuid in the names
  done,     \* groups compacted by this run
  mishaps   \* failures and crashes so far

vars == <<landed, files, outputs, recent, pc, listed, todo, group, batch, done, mishaps>>
stream == <<landed, files, recent>>
run == <<listed, todo, group, batch, done>>

Output == [group : Groups, batch : Nat, chunk : Chunks, rows : SUBSET Sources]

TypeOK ==
  /\ landed \in [Groups -> SUBSET Sources]
  /\ files \in [Groups -> SUBSET Sources]
  /\ outputs \in SUBSET Output
  /\ recent \in SUBSET Groups
  /\ pc \in {"idle", "pick", "read", "upload", "check", "delete", "cleanup"}
  /\ listed \in [Groups -> SUBSET Sources]
  /\ todo \in SUBSET Groups
  /\ group \in Groups \cup {0}
  /\ batch \in Nat /\ done \in Nat /\ mishaps \in Nat

Init ==
  /\ landed = [g \in Groups |-> {}] /\ files = landed
  /\ outputs = {} /\ recent = {}
  /\ pc = "idle"
  /\ listed = [g \in Groups |-> {}]
  /\ todo = {} /\ group = 0 /\ batch = 0 /\ done = 0 /\ mishaps = 0

-----------------------------------------------------------------------------
\* The stream appends a file to a partition, an old one for late events.
Land(g, s) ==
  /\ s \notin landed[g]
  /\ landed' = [landed EXCEPT ![g] = @ \cup {s}]
  /\ files' = [files EXCEPT ![g] = @ \cup {s}]
  /\ recent' = recent \cup {g}
  /\ UNCHANGED <<outputs, pc, run, mishaps>>

\* Two hours pass without a new file.
Settle(g) ==
  /\ g \in recent
  /\ recent' = recent \ {g}
  /\ UNCHANGED <<landed, files, outputs, pc, run, mishaps>>

-----------------------------------------------------------------------------
\* The run lists the prefix once; compacted- objects are not candidates, and a
\* partition modified inside the margin is left for another day.
StartRun ==
  /\ pc = "idle"
  /\ listed' = [g \in Groups |-> IF g \in recent THEN {} ELSE files[g]]
  /\ todo' = Groups
  /\ done' = 0
  /\ pc' = "pick"
  /\ UNCHANGED <<stream, outputs, group, batch, mishaps>>

\* Mutated form of Skips: a partition with a merged object counts as compacted.
MutantSkipsMerged(g) ==
  \/ Cardinality(listed[g]) < 2
  \/ \E o \in outputs : o.group = g

Skips(g) ==
  \/ Cardinality(listed[g]) < 2
  \/ MaxGroups > 0 /\ done >= MaxGroups

Pick(g) ==
  /\ pc = "pick"
  /\ g \in todo /\ \A h \in todo : g <= h
  /\ todo' = todo \ {g}
  /\ IF Skips(g)
     THEN UNCHANGED <<pc, group>>
     ELSE pc' = "read" /\ group' = g
  /\ UNCHANGED <<stream, outputs, listed, batch, done, mishaps>>

EndRun ==
  /\ pc = "pick" /\ todo = {}
  /\ pc' = "idle"
  /\ UNCHANGED <<stream, outputs, run, mishaps>>

\* The sources are merged into local files and the outputs get their names.  A
\* schema that differs from the first one ends the run before that.
Read ==
  /\ pc = "read"
  /\ IF group \in Mixed
     THEN pc' = "idle" /\ UNCHANGED batch
     ELSE pc' = "upload" /\ batch' = batch + 1
  /\ UNCHANGED <<stream, outputs, listed, todo, group, done, mishaps>>

Mine == {o \in outputs : o.group = group /\ o.batch = batch}
Uploaded == {o.chunk : o \in Mine}

Upload(k) ==
  /\ pc = "upload" /\ k \notin Uploaded
  /\ outputs' = outputs \cup
       {[group |-> group, batch |-> batch, chunk |-> k, rows |-> listed[group]]}
  /\ pc' = IF Uploaded \cup {k} = Chunks THEN "check" ELSE pc
  /\ UNCHANGED <<stream, run, mishaps>>

\* Mutated form of CountsMatch: the outputs are there, whatever they hold.
MutantOutputsExist == Uploaded = Chunks

\* The footers' counts add up to the rows read from the sources.
CountsMatch == \A k \in Chunks : \E o \in Mine : o.chunk = k /\ o.rows = listed[group]

Check ==
  /\ pc = "check"
  /\ pc' = IF CountsMatch THEN "delete" ELSE "cleanup"
  /\ UNCHANGED <<stream, outputs, run, mishaps>>

\* Mutated form of DeleteSources: a partition touched meanwhile keeps its files.
MutantDeletesUnlessTouched ==
  /\ pc = "delete"
  /\ files' = [files EXCEPT ![group] = IF group \in recent THEN @ ELSE @ \ listed[group]]
  /\ done' = done + 1
  /\ pc' = "pick"
  /\ UNCHANGED <<landed, recent, outputs, listed, todo, group, batch, mishaps>>

DeleteSources ==
  /\ pc = "delete"
  /\ files' = [files EXCEPT ![group] = @ \ listed[group]]
  /\ done' = done + 1
  /\ pc' = "pick"
  /\ UNCHANGED <<landed, recent, outputs, listed, todo, group, batch, mishaps>>

\* The except branch: the outputs of this merge go, and the run with it.
Cleanup ==
  /\ pc = "cleanup"
  /\ outputs' = outputs \ Mine
  /\ pc' = "idle"
  /\ UNCHANGED <<stream, run, mishaps>>

-----------------------------------------------------------------------------
\* What a delete request that raises may have removed of the keys it was given.
PartOf(keys) == IF PartialDeletes THEN (SUBSET keys) \ {keys} ELSE {{}}

Mishap == mishaps < MaxMishaps /\ mishaps' = mishaps + 1

\* A short local file: the footer will count fewer rows than were read.
UploadShort(k) ==
  /\ Mishap
  /\ pc = "upload" /\ k \notin Uploaded
  /\ \E rows \in (SUBSET listed[group]) \ {listed[group]} :
       outputs' = outputs \cup
         {[group |-> group, batch |-> batch, chunk |-> k, rows |-> rows]}
  /\ pc' = IF Uploaded \cup {k} = Chunks THEN "check" ELSE pc
  /\ UNCHANGED <<stream, run>>

\* An upload or a footer read raises: the uploaded outputs are cleaned up.
StoreFails ==
  /\ Mishap
  /\ pc \in {"upload", "check"}
  /\ pc' = "cleanup"
  /\ UNCHANGED <<stream, outputs, run>>

\* delete_objects removes some of the keys, reports the others and raises; it
\* is called inside the try block.
DeleteFails ==
  /\ Mishap
  /\ pc = "delete"
  /\ \E gone \in PartOf(files[group] \cap listed[group]) :
       files' = [files EXCEPT ![group] = @ \ gone]
  /\ pc' = "cleanup"
  /\ UNCHANGED <<landed, recent, outputs, run>>

\* The clean-up fails too; that is logged and swallowed.
CleanupFails ==
  /\ Mishap
  /\ pc = "cleanup"
  /\ \E gone \in PartOf(Mine) : outputs' = outputs \ gone
  /\ pc' = "idle"
  /\ UNCHANGED <<stream, run>>

\* The worker dies: the task is marked failed and its pool slot is free again.
Crash ==
  /\ Mishap
  /\ pc # "idle"
  /\ pc' = "idle"
  /\ UNCHANGED <<stream, outputs, run>>

-----------------------------------------------------------------------------
Job ==
  \/ StartRun \/ EndRun \/ Read \/ Check \/ DeleteSources \/ Cleanup
  \/ \E g \in Groups : Pick(g)
  \/ \E k \in Chunks : Upload(k)

Stream == \E g \in Groups : Settle(g) \/ \E s \in Sources : Land(g, s)

Failure ==
  \/ \E k \in Chunks : UploadShort(k)
  \/ StoreFails \/ DeleteFails \/ CleanupFails \/ Crash

Next == Job \/ Stream \/ Failure

Spec == Init /\ [][Next]_vars

\* The DAG runs every day and a running task goes on; time passes.
FairSpec == Spec /\ WF_vars(Job) /\ \A g \in Groups : WF_vars(Settle(g))

-----------------------------------------------------------------------------
Copies(g, s, k) == {o \in outputs : o.group = g /\ o.chunk = k /\ s \in o.rows}

\* Merge b of g left every share of the rows of s.
Merged(g, b, s) == \A k \in Chunks : \E o \in Copies(g, s, k) : o.batch = b

\* The job "merges closed partitions and deletes only sources whose merge was
\* verified": every row the stream ever wrote is still in Bronze, through any
\* failures, crashes and retries and however the runs interleave the stream.
NoRowLost ==
  \A g \in Groups : \A s \in landed[g] \ files[g] : \E b \in 1..batch : Merged(g, b, s)

\* Behaviours without a mishap store every row exactly once between runs.
StoredOnceWithoutMishap ==
  pc = "idle" /\ mishaps = 0 =>
    \A g \in Groups : \A s \in landed[g], k \in Chunks :
      Cardinality(Copies(g, s, k)) = IF s \in files[g] THEN 0 ELSE 1

\* Once the stream and the failures stop, every partition the runs come to
\* before one they choke on (Read raises on a mixed schema and takes the run
\* with it) ends up compacted, whatever partial state was left behind.
Backlog(g) == Cardinality(files[g]) >= 2
EventuallyCompacted ==
  \A g \in Groups : (\A m \in Mixed : g < m) => <>[](g \in recent \/ ~Backlog(g))
=============================================================================
