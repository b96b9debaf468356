---------------------------- MODULE EngineHandle ----------------------------
(***************************************************************************)
(* The in-process graph handle (memory/engine_handle.rs): an ingest call   *)
(* in the background registers a run, spawns a task for it and returns its *)
(* id; an inline call ingests before it returns.  A caller who has the id  *)
(* may cancel the run while its task ends by itself, and either must enter *)
(* the run's end in two maps that are polled: ingest_runs by run and       *)
(* batch_status by batch.                                                  *)
(*                                                                         *)
(* Every operation on a map is atomic (DashMap locks the shard) and two    *)
(* are not: tasks, cancels and callers are threads of a multi-threaded     *)
(* runtime and interleave between them.  What ingest does is left out:     *)
(* here it returns Ok or Err.                                              *)
(***************************************************************************)
EXTENDS Integers, FiniteSets

CONSTANTS
  Background,       \* calls with run_in_background
  Inline,           \* calls without
  Skipping,         \* the inline ones with enrich_per_episode = false
  Batches, BatchOf, \* the batch of a call, or NoBatch
  NoBatch

Calls == Background \cup Inline

ASSUME HandleAssumption ==
  /\ IsFiniteSet(Background)
  /\ Background \cap Inline = {} /\ Skipping \subseteq Inline
  /\ NoBatch \notin Batches /\ BatchOf \in [Calls -> Batches \cup {NoBatch}]

VARIABLES
  caller,        \* where each call of graph_ingest_episode is
  task,          \* where the spawned task of a run is
  result,        \* what its ingest returned
  canceller,     \* where the cancel that claimed the run is
  aborted,       \* runs whose AbortHandle was used
  ingest_runs, ingest_claim, ingest_abort, batch_status,
  column         \* episode_processing_status of an inline call's episode

vars == <<caller, task, result, canceller, aborted, ingest_runs, ingest_claim,
          ingest_abort, batch_status, column>>

Ended == {"Complete", "Failed"}
Counters == {"total", "completed", "skipped", "failed"}
Empty == [n \in Counters |-> 0]

\* A batch without an entry reads as Empty, so it is one here.
Init ==
  /\ caller = [c \in Calls |-> "new"]
  /\ task = [c \in Background |-> "none"] /\ result = [c \in Background |-> "none"]
  /\ canceller = [c \in Background |-> "none"] /\ aborted = {}
  /\ ingest_runs = [c \in Background |-> "none"]
  /\ ingest_claim = {} /\ ingest_abort = {}
  /\ batch_status = [b \in Batches |-> Empty]
  /\ column = [c \in Inline |-> "none"]

\* batch_status with one more in the counters `names` of c's batch.
Bumped(c, names) ==
  [b \in Batches |->
     IF b # BatchOf[c] THEN batch_status[b]
     ELSE [n \in Counters |-> batch_status[b][n] + (IF n \in names THEN 1 ELSE 0)]]

At(pc, c, from, to) == /\ pc[c] = from
                       /\ pc' = [pc EXCEPT ![c] = to]

-----------------------------------------------------------------------------
\* graph_ingest_episode in the background.  There is no await in it, and nobody else
\* can name the run before its task exists.

Register(c) ==
  /\ At(caller, c, "new", "registered")
  /\ ingest_runs' = [ingest_runs EXCEPT ![c] = "Pending"]
  /\ ingest_claim' = ingest_claim \cup {c}
  /\ batch_status' = Bumped(c, {"total"})
  /\ UNCHANGED <<task, result, canceller, aborted, ingest_abort, column>>

Spawn(c) ==
  /\ At(caller, c, "registered", "spawned")
  /\ task' = [task EXCEPT ![c] = "spawned"]
  /\ UNCHANGED <<result, canceller, aborted, ingest_runs, ingest_claim, ingest_abort,
                 batch_status, column>>

\* The handle exists after the spawn only, when the task may be anywhere.
KeepAbortHandle(c) ==
  /\ At(caller, c, "spawned", "returned")
  /\ ingest_abort' = ingest_abort \cup {c}
  /\ UNCHANGED <<task, result, canceller, aborted, ingest_runs, ingest_claim,
                 batch_status, column>>

-----------------------------------------------------------------------------
\* The task

\* Mutation: the status is inserted whatever it was.
StartBlind(c) ==
  /\ At(task, c, "spawned", "running")
  /\ ingest_runs' = [ingest_runs EXCEPT ![c] = "Extracting"]
  /\ UNCHANGED <<caller, result, canceller, aborted, ingest_claim, ingest_abort,
                 batch_status, column>>

\* Pending to Extracting, and from nothing else.
Start(c) ==
  /\ At(task, c, "spawned", "running")
  /\ ingest_runs' = [ingest_runs EXCEPT ![c] = IF @ = "Pending" THEN "Extracting" ELSE @]
  /\ UNCHANGED <<caller, result, canceller, aborted, ingest_claim, ingest_abort,
                 batch_status, column>>

IngestReturns(c, res) ==
  /\ At(task, c, "running", "returned")
  /\ result' = [result EXCEPT ![c] = res]
  /\ UNCHANGED <<caller, canceller, aborted, ingest_runs, ingest_claim, ingest_abort,
                 batch_status, column>>

\* An aborted task ends before its first poll or at the await, and nowhere after it.
Dropped(c) ==
  /\ c \in aborted
  /\ \/ At(task, c, "spawned", "dropped")
     \/ At(task, c, "running", "dropped")
  /\ UNCHANGED <<caller, result, canceller, aborted, ingest_runs, ingest_claim,
                 ingest_abort, batch_status, column>>

\* Mutation: the task records whether or not the claim is there.
ClaimIgnored(c) ==
  /\ At(task, c, "returned", "claimed")
  /\ ingest_claim' = ingest_claim \ {c}
  /\ UNCHANGED <<caller, result, canceller, aborted, ingest_runs, ingest_abort,
                 batch_status, column>>

\* Whoever takes the claim records; a task that comes second goes to its cleanup.
Claim(c) ==
  /\ At(task, c, "returned", IF c \in ingest_claim THEN "claimed" ELSE "counted")
  /\ ingest_claim' = ingest_claim \ {c}
  /\ UNCHANGED <<caller, result, canceller, aborted, ingest_runs, ingest_abort,
                 batch_status, column>>

Record(c) ==
  /\ At(task, c, "claimed", "recorded")
  /\ ingest_runs' = [ingest_runs EXCEPT ![c] = IF result[c] = "ok" THEN "Complete" ELSE "Failed"]
  /\ UNCHANGED <<caller, result, canceller, aborted, ingest_claim, ingest_abort,
                 batch_status, column>>

Count(c) ==
  /\ At(task, c, "recorded", "counted")
  /\ batch_status' = Bumped(c, {IF result[c] = "ok" THEN "completed" ELSE "failed"})
  /\ UNCHANGED <<caller, result, canceller, aborted, ingest_runs, ingest_claim,
                 ingest_abort, column>>

Cleanup(c) ==
  /\ At(task, c, "counted", "ended")
  /\ ingest_abort' = ingest_abort \ {c}
  /\ UNCHANGED <<caller, result, canceller, aborted, ingest_runs, ingest_claim,
                 batch_status, column>>

-----------------------------------------------------------------------------
\* graph_cancel by a caller the id was returned to.  Without the claim it changes
\* nothing (dream_abort is always empty).

Cancel(c) ==
  /\ caller[c] = "returned" /\ c \in ingest_claim
  /\ At(canceller, c, "none", "claimed")
  /\ ingest_claim' = ingest_claim \ {c}
  /\ UNCHANGED <<caller, task, result, aborted, ingest_runs, ingest_abort, batch_status,
                 column>>

\* The handle may be gone: the task had finished and was told the claim was taken.
CancelAborts(c) ==
  /\ At(canceller, c, "claimed", "aborted")
  /\ aborted' = aborted \cup ({c} \cap ingest_abort)
  /\ ingest_abort' = ingest_abort \ {c}
  /\ UNCHANGED <<caller, task, result, ingest_runs, ingest_claim, batch_status, column>>

\* Mutation: only a task that was aborted is recorded as cancelled.
CancelRecordsAborted(c) ==
  /\ At(canceller, c, "aborted", "recorded")
  /\ ingest_runs' = [ingest_runs EXCEPT ![c] = IF c \in aborted THEN "Failed" ELSE @]
  /\ UNCHANGED <<caller, task, result, aborted, ingest_claim, ingest_abort, batch_status,
                 column>>

CancelRecords(c) ==
  /\ At(canceller, c, "aborted", "recorded")
  /\ ingest_runs' = [ingest_runs EXCEPT ![c] = "Failed"]
  /\ UNCHANGED <<caller, task, result, aborted, ingest_claim, ingest_abort, batch_status,
                 column>>

\* Mutation: the batch is not told of a cancelled run.
CancelUncounted(c) ==
  /\ At(canceller, c, "recorded", "counted")
  /\ UNCHANGED <<caller, task, result, aborted, ingest_runs, ingest_claim, ingest_abort,
                 batch_status, column>>

CancelCounts(c) ==
  /\ At(canceller, c, "recorded", "counted")
  /\ batch_status' = Bumped(c, {"failed"})
  /\ UNCHANGED <<caller, task, result, aborted, ingest_runs, ingest_claim, ingest_abort,
                 column>>

-----------------------------------------------------------------------------
\* graph_ingest_episode inline

\* A call that fails, or whose future is dropped, leaves the batch as it was; an
\* episode may have been inserted or not.
InlineIngests(c, ok) ==
  /\ At(caller, c, "new", IF ok THEN "ingested" ELSE "failed")
  /\ \E s \in IF ok THEN {"Pending"} ELSE {"none", "Pending", "Failed"} :
       column' = [column EXCEPT ![c] = s]
  /\ UNCHANGED <<task, result, canceller, aborted, ingest_runs, ingest_claim, ingest_abort,
                 batch_status>>

InlineCounts(c) ==
  /\ At(caller, c, "ingested", "counted")
  /\ batch_status' = Bumped(c, {"total", IF c \in Skipping THEN "skipped" ELSE "completed"})
  /\ UNCHANGED <<task, result, canceller, aborted, ingest_runs, ingest_claim, ingest_abort,
                 column>>

\* Best effort: an UPDATE that fails is logged.
InlineReturns(c, written) ==
  /\ At(caller, c, "counted", "returned")
  /\ column' = IF written
                 THEN [column EXCEPT ![c] = IF c \in Skipping THEN "Skipped" ELSE "Verified"]
                 ELSE column
  /\ UNCHANGED <<task, result, canceller, aborted, ingest_runs, ingest_claim, ingest_abort,
                 batch_status>>

-----------------------------------------------------------------------------
Submit(c) == Register(c) \/ Spawn(c) \/ KeepAbortHandle(c)
Task(c)   == \/ Start(c) \/ (\E res \in {"ok", "err"} : IngestReturns(c, res)) \/ Dropped(c)
             \/ Claim(c) \/ Record(c) \/ Count(c) \/ Cleanup(c)
Cancelling(c) == CancelAborts(c) \/ CancelRecords(c) \/ CancelCounts(c)
InlineCall(c) == \E ok \in BOOLEAN : InlineIngests(c, ok) \/ InlineReturns(c, ok)

Next ==
  \/ \E c \in Background : Submit(c) \/ Task(c) \/ Cancel(c) \/ Cancelling(c)
  \/ \E c \in Inline : InlineCall(c) \/ InlineCounts(c)

Spec == Init /\ [][Next]_vars

\* The runtime polls every task, ingest returns (its LLM calls have timeouts), and
\* neither a submission that has begun nor a cancel that has the claim awaits anything.
FairSpec ==
  Spec /\ \A c \in Background :
            /\ WF_vars(Spawn(c) \/ KeepAbortHandle(c))
            /\ WF_vars(Task(c)) /\ WF_vars(Cancelling(c))

-----------------------------------------------------------------------------
TypeOK ==
  /\ caller \in [Calls -> {"new", "registered", "spawned", "returned", "ingested",
                           "failed", "counted"}]
  /\ task \in [Background -> {"none", "spawned", "running", "returned", "claimed",
                              "recorded", "counted", "ended", "dropped"}]
  /\ result \in [Background -> {"none", "ok", "err"}]
  /\ canceller \in [Background -> {"none", "claimed", "aborted", "recorded", "counted"}]
  /\ aborted \subseteq Background /\ ingest_claim \subseteq Background
  /\ ingest_abort \subseteq Background
  /\ ingest_runs \in [Background -> {"none", "Pending", "Extracting"} \cup Ended]
  /\ batch_status \in [Batches -> [Counters -> Nat]]
  /\ column \in [Inline -> {"none", "Pending", "Failed", "Verified", "Skipped"}]

Done(s) == s.completed + s.skipped + s.failed
IsDone(b) == Done(batch_status[b]) >= batch_status[b].total

\* Registered, and its end not in batch_status yet: unclaimed, or claimed by one who
\* has not counted it.
Uncounted(c) ==
  \/ c \in ingest_claim
  \/ task[c] \in {"claimed", "recorded"}
  \/ canceller[c] \in {"claimed", "aborted", "recorded"}

Outstanding(b) == {c \in Background : BatchOf[c] = b /\ Uncounted(c)}

\* TD-251: a run's end is counted once, by its task or by its cancel, so that
\* completed + skipped + failed never gets past total and never stays short of it.
CountedOnce ==
  \A b \in Batches :
    batch_status[b].total = Done(batch_status[b]) + Cardinality(Outstanding(b))

\* await_batch: when the batch reads as done, every run registered for it reads
\* Complete or Failed.
DoneMeansEnded ==
  \A b \in Batches : IsDone(b) =>
    \A c \in Background : BatchOf[c] = b /\ caller[c] # "new" => ingest_runs[c] \in Ended

\* The end await_enrichment has told one caller is what any later poll is told.
VerdictStands ==
  [][\A c \in Background : ingest_runs[c] \in Ended => ingest_runs'[c] = ingest_runs[c]]_vars

\* A batch that has been told of a run gets done, cancels or not; with DoneMeansEnded,
\* every poll for one of its runs gets an answer.
BatchesEnd == \A b \in Batches : batch_status[b].total > 0 ~> IsDone(b)
=============================================================================
