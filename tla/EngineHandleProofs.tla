------------------------- MODULE EngineHandleProofs -------------------------
(***************************************************************************)
(* The end of a run is counted once and stands, for every set of calls and *)
(* batches.                                                                *)
(***************************************************************************)
EXTENDS EngineHandle, FiniteSetTheorems, TLAPS

\* What each step leaves alone, by the names its UNCHANGED gives.
USE DEF At

-----------------------------------------------------------------------------
\* The inductive invariant

\* A run nobody has registered: nothing of it is anywhere.
Untouched(c) ==
  /\ c \notin ingest_claim
  /\ task[c] = "none" /\ canceller[c] = "none" /\ ingest_runs[c] = "none"

\* The claim is there until one of the two takes it, and the run reads as not ended.
Unclaimed(c) ==
  /\ caller[c] # "new"
  /\ task[c] \in {"none", "spawned", "running", "returned"}
  /\ canceller[c] = "none"
  /\ ingest_runs[c] \notin Ended

\* At most one of the two has it.
OneRecorder(c) ==
  canceller[c] # "none" => c \notin ingest_claim /\ task[c] \notin {"claimed", "recorded"}

\* Who has the claim writes the status first, and nobody writes it after.
StatusFirst(c) ==
  IF task[c] = "claimed" \/ canceller[c] \in {"claimed", "aborted"}
    THEN ingest_runs[c] \notin Ended
    ELSE caller[c] # "new" /\ c \notin ingest_claim => ingest_runs[c] \in Ended

RunInv(c) ==
  /\ caller[c] = "new" => Untouched(c)
  /\ caller[c] = "registered" => task[c] = "none"
  /\ c \in ingest_claim => Unclaimed(c)
  /\ c \in aborted => canceller[c] \in {"aborted", "recorded", "counted"}
  /\ OneRecorder(c)
  /\ StatusFirst(c)

IInv == TypeOK /\ (\A c \in Background : RunInv(c)) /\ CountedOnce

-----------------------------------------------------------------------------
\* Counters

LEMMA BumpedType ==
  ASSUME HandleAssumption, TypeOK, NEW c \in Calls, NEW names
  PROVE  Bumped(c, names) \in [Batches -> [Counters -> Nat]]
<1>1. ASSUME NEW b \in Batches
      PROVE  Bumped(c, names)[b] \in [Counters -> Nat]
  <2>1. batch_status[b] \in [Counters -> Nat]
    BY DEF TypeOK
  <2>2. \A n \in Counters : batch_status[b][n] + (IF n \in names THEN 1 ELSE 0) \in Nat
    BY <2>1
  <2> QED BY <2>1, <2>2 DEF Bumped
<1> QED BY <1>1 DEF Bumped

\* No run more and none less is outstanding.
LEMMA SameOutstanding ==
  ASSUME CountedOnce, \A d \in Background : Uncounted(d)' <=> Uncounted(d),
         batch_status' = batch_status
  PROVE  CountedOnce'
<1>1. \A b \in Batches : Outstanding(b)' = Outstanding(b)
  BY DEF Outstanding
<1> QED BY <1>1 DEF CountedOnce, Done

\* A run is registered: its batch expects one more.
LEMMA OneMore ==
  ASSUME HandleAssumption, TypeOK, CountedOnce, NEW c \in Background,
         ~Uncounted(c), Uncounted(c)',
         \A d \in Background \ {c} : Uncounted(d)' <=> Uncounted(d),
         batch_status' = Bumped(c, {"total"})
  PROVE  CountedOnce'
<1> SUFFICES ASSUME NEW b \in Batches
             PROVE  batch_status'[b].total = Done(batch_status'[b]) + Cardinality(Outstanding(b)')
  BY DEF CountedOnce
<1>1. batch_status[b] \in [Counters -> Nat] /\ IsFiniteSet(Outstanding(b))
  BY FS_Subset DEF TypeOK, HandleAssumption, Outstanding
<1>2. batch_status[b].total = Done(batch_status[b]) + Cardinality(Outstanding(b))
  BY DEF CountedOnce
<1>3. CASE b # BatchOf[c]
  <2>1. Outstanding(b)' = Outstanding(b)
    BY <1>3 DEF Outstanding
  <2> QED BY <1>2, <1>3, <2>1 DEF Bumped
<1>4. CASE b = BatchOf[c]
  <2>1. Outstanding(b)' = Outstanding(b) \cup {c} /\ c \notin Outstanding(b)
    BY <1>4 DEF Outstanding
  <2>2. Cardinality(Outstanding(b)') = Cardinality(Outstanding(b)) + 1
    BY <1>1, <2>1, FS_AddElement
  <2>3. Cardinality(Outstanding(b)) \in Nat
    BY <1>1, FS_CardinalityType
  <2>4. \A n \in Counters :
          batch_status'[b][n] = batch_status[b][n] + (IF n \in {"total"} THEN 1 ELSE 0)
    BY <1>4 DEF Bumped
  <2>5. /\ batch_status'[b].total = batch_status[b].total + 1
        /\ batch_status'[b].completed = batch_status[b].completed
        /\ batch_status'[b].skipped = batch_status[b].skipped
        /\ batch_status'[b].failed = batch_status[b].failed
    BY <1>1, <2>4 DEF Counters
  <2> QED BY <1>1, <1>2, <2>2, <2>3, <2>5 DEF Done, Counters
<1> QED BY <1>3, <1>4

\* Its end is counted: one outstanding less, one completed or failed more.
LEMMA OneLess ==
  ASSUME HandleAssumption, TypeOK, CountedOnce, NEW c \in Background,
         Uncounted(c), ~Uncounted(c)',
         \A d \in Background \ {c} : Uncounted(d)' <=> Uncounted(d),
         NEW m \in {"completed", "failed"}, batch_status' = Bumped(c, {m})
  PROVE  CountedOnce'
<1> SUFFICES ASSUME NEW b \in Batches
             PROVE  batch_status'[b].total = Done(batch_status'[b]) + Cardinality(Outstanding(b)')
  BY DEF CountedOnce
<1>1. batch_status[b] \in [Counters -> Nat] /\ IsFiniteSet(Outstanding(b))
  BY FS_Subset DEF TypeOK, HandleAssumption, Outstanding
<1>2. batch_status[b].total = Done(batch_status[b]) + Cardinality(Outstanding(b))
  BY DEF CountedOnce
<1>3. CASE b # BatchOf[c]
  <2>1. Outstanding(b)' = Outstanding(b)
    BY <1>3 DEF Outstanding
  <2> QED BY <1>2, <1>3, <2>1 DEF Bumped
<1>4. CASE b = BatchOf[c]
  <2>1. Outstanding(b)' = Outstanding(b) \ {c} /\ c \in Outstanding(b)
    BY <1>4 DEF Outstanding
  <2>2. Cardinality(Outstanding(b)') = Cardinality(Outstanding(b)) - 1
    BY <1>1, <2>1, FS_RemoveElement
  <2>3. Cardinality(Outstanding(b)) \in Nat
    BY <1>1, FS_CardinalityType
  <2>4. \A n \in Counters :
          batch_status'[b][n] = batch_status[b][n] + (IF n \in {m} THEN 1 ELSE 0)
    BY <1>4 DEF Bumped
  <2>5. /\ batch_status'[b].total = batch_status[b].total
        /\ Done(batch_status'[b]) = Done(batch_status[b]) + 1
    BY <1>1, <2>4 DEF Done, Counters
  <2>6. batch_status[b].total \in Nat /\ Done(batch_status[b]) \in Nat
    BY <1>1 DEF Done, Counters
  <2> QED BY <1>2, <2>2, <2>3, <2>5, <2>6
<1> QED BY <1>3, <1>4

\* An inline call is expected and counted in one operation.
LEMMA InlineCounted ==
  ASSUME HandleAssumption, TypeOK, CountedOnce, NEW c \in Inline,
         \A d \in Background : Uncounted(d)' <=> Uncounted(d),
         NEW m \in {"completed", "skipped"}, batch_status' = Bumped(c, {"total", m})
  PROVE  CountedOnce'
<1> SUFFICES ASSUME NEW b \in Batches
             PROVE  batch_status'[b].total = Done(batch_status'[b]) + Cardinality(Outstanding(b)')
  BY DEF CountedOnce
<1>1. batch_status[b] \in [Counters -> Nat] /\ IsFiniteSet(Outstanding(b))
  BY FS_Subset DEF TypeOK, HandleAssumption, Outstanding
<1>2. batch_status[b].total = Done(batch_status[b]) + Cardinality(Outstanding(b))
  BY DEF CountedOnce
<1>3. Outstanding(b)' = Outstanding(b) /\ Cardinality(Outstanding(b)) \in Nat
  BY <1>1, FS_CardinalityType DEF Outstanding
<1>4. CASE b # BatchOf[c]
  BY <1>2, <1>3, <1>4 DEF Bumped
<1>5. CASE b = BatchOf[c]
  <2>1. \A n \in Counters :
          batch_status'[b][n] = batch_status[b][n] + (IF n \in {"total", m} THEN 1 ELSE 0)
    BY <1>5 DEF Bumped
  <2>2. /\ batch_status'[b].total = batch_status[b].total + 1
        /\ Done(batch_status'[b]) = Done(batch_status[b]) + 1
    BY <1>1, <2>1 DEF Done, Counters
  <2>3. batch_status[b].total \in Nat /\ Done(batch_status[b]) \in Nat
    BY <1>1 DEF Done, Counters
  <2> QED BY <1>2, <1>3, <2>2, <2>3
<1> QED BY <1>4, <1>5
-----------------------------------------------------------------------------
\* A step of a background call keeps what is known of every run: the claim, the task,
\* the cancel and the status move together.
LEMMA RunStep ==
  ASSUME TypeOK, NEW c \in Background, NEW d \in Background, RunInv(c), RunInv(d),
         Submit(c) \/ Task(c) \/ Cancel(c) \/ Cancelling(c)
  PROVE  RunInv(d)'
<1> USE DEF RunInv, Untouched, Unclaimed, OneRecorder, StatusFirst, Ended, TypeOK, Calls
<1>1. CASE Register(c)
  BY <1>1 DEF Register
<1>2. CASE Spawn(c)
  BY <1>2 DEF Spawn
<1>3. CASE KeepAbortHandle(c)
  BY <1>3 DEF KeepAbortHandle
<1>4. CASE Start(c)
  BY <1>4 DEF Start
<1>5. ASSUME NEW res \in {"ok", "err"}, IngestReturns(c, res)
     PROVE  RunInv(d)'
  BY <1>5 DEF IngestReturns
<1>6. CASE Dropped(c)
  BY <1>6 DEF Dropped
<1>7. CASE Claim(c)
  BY <1>7 DEF Claim
<1>8. CASE Record(c)
  BY <1>8 DEF Record
<1>9. CASE Count(c)
  BY <1>9 DEF Count
<1>10. CASE Cleanup(c)
  BY <1>10 DEF Cleanup
<1>11. CASE Cancel(c)
  BY <1>11 DEF Cancel
<1>12. CASE CancelAborts(c)
  BY <1>12 DEF CancelAborts
<1>13. CASE CancelRecords(c)
  BY <1>13 DEF CancelRecords
<1>14. CASE CancelCounts(c)
  BY <1>14 DEF CancelCounts
<1> QED
  BY <1>1, <1>2, <1>3, <1>4, <1>5, <1>6, <1>7, <1>8, <1>9, <1>10, <1>11, <1>12, <1>13, <1>14
     DEF Submit, Task, Cancelling
\* Every step of a background call keeps the types.
LEMMA TypeStep ==
  ASSUME HandleAssumption, TypeOK, NEW c \in Background,
         Submit(c) \/ Task(c) \/ Cancel(c) \/ Cancelling(c)
  PROVE  TypeOK'
<1>0. /\ c \in Calls
      /\ \A names : Bumped(c, names) \in [Batches -> [Counters -> Nat]]
  BY BumpedType DEF Calls
<1> USE DEF TypeOK, Ended
<1>1. CASE Register(c)
  BY <1>0, <1>1 DEF Register
<1>2. CASE Spawn(c)
  BY <1>0, <1>2 DEF Spawn
<1>3. CASE KeepAbortHandle(c)
  BY <1>0, <1>3 DEF KeepAbortHandle
<1>4. CASE Start(c)
  BY <1>0, <1>4 DEF Start
<1>5. ASSUME NEW res \in {"ok", "err"}, IngestReturns(c, res)
     PROVE  TypeOK'
  BY <1>0, <1>5 DEF IngestReturns
<1>6. CASE Dropped(c)
  BY <1>0, <1>6 DEF Dropped
<1>7. CASE Claim(c)
  BY <1>0, <1>7 DEF Claim
<1>8. CASE Record(c)
  BY <1>0, <1>8 DEF Record
<1>9. CASE Count(c)
  BY <1>0, <1>9 DEF Count
<1>10. CASE Cleanup(c)
  BY <1>0, <1>10 DEF Cleanup
<1>11. CASE Cancel(c)
  BY <1>0, <1>11 DEF Cancel
<1>12. CASE CancelAborts(c)
  BY <1>0, <1>12 DEF CancelAborts
<1>13. CASE CancelRecords(c)
  BY <1>0, <1>13 DEF CancelRecords
<1>14. CASE CancelCounts(c)
  BY <1>0, <1>14 DEF CancelCounts
<1> QED
  BY <1>1, <1>2, <1>3, <1>4, <1>5, <1>6, <1>7, <1>8, <1>9, <1>10, <1>11, <1>12, <1>13, <1>14
     DEF Submit, Task, Cancelling

\* Every step of a background call keeps the batches' accounts: only a registration
\* and the two ways of counting an end change who is outstanding.
LEMMA CountStep ==
  ASSUME HandleAssumption, TypeOK, CountedOnce, NEW c \in Background, RunInv(c),
         Submit(c) \/ Task(c) \/ Cancel(c) \/ Cancelling(c)
  PROVE  CountedOnce'
<1> USE DEF TypeOK, RunInv, Untouched, Unclaimed, OneRecorder, Uncounted
<1>1. CASE Register(c)
  <2>1. ~Uncounted(c) /\ Uncounted(c)'
    BY <1>1 DEF Register
  <2>2. \A d \in Background \ {c} : Uncounted(d)' <=> Uncounted(d)
    BY <1>1 DEF Register
  <2> QED BY ONLY HandleAssumption, TypeOK, CountedOnce, c \in Background, <1>1, <2>1, <2>2, OneMore
          DEF Register
<1>2. CASE Spawn(c)
  <2>1. \A d \in Background : Uncounted(d)' <=> Uncounted(d)
    BY <1>2 DEF Spawn
  <2> QED BY <1>2, <2>1, SameOutstanding DEF Spawn
<1>3. CASE KeepAbortHandle(c)
  <2>1. \A d \in Background : Uncounted(d)' <=> Uncounted(d)
    BY <1>3 DEF KeepAbortHandle
  <2> QED BY <1>3, <2>1, SameOutstanding DEF KeepAbortHandle
<1>4. CASE Start(c)
  <2>1. \A d \in Background : Uncounted(d)' <=> Uncounted(d)
    BY <1>4 DEF Start
  <2> QED BY <1>4, <2>1, SameOutstanding DEF Start
<1>5. ASSUME NEW res \in {"ok", "err"}, IngestReturns(c, res)
     PROVE  CountedOnce'
  <2>1. \A d \in Background : Uncounted(d)' <=> Uncounted(d)
    BY <1>5 DEF IngestReturns
  <2> QED BY <1>5, <2>1, SameOutstanding DEF IngestReturns
<1>6. CASE Dropped(c)
  <2>1. \A d \in Background : Uncounted(d)' <=> Uncounted(d)
    BY <1>6 DEF Dropped
  <2> QED BY <1>6, <2>1, SameOutstanding DEF Dropped
<1>7. CASE Claim(c)
  <2>1. \A d \in Background : Uncounted(d)' <=> Uncounted(d)
    BY <1>7 DEF Claim
  <2> QED BY <1>7, <2>1, SameOutstanding DEF Claim
<1>8. CASE Record(c)
  <2>1. \A d \in Background : Uncounted(d)' <=> Uncounted(d)
    BY <1>8 DEF Record
  <2> QED BY <1>8, <2>1, SameOutstanding DEF Record
<1>9. CASE Count(c)
  <2>1. Uncounted(c) /\ ~Uncounted(c)'
    BY <1>9 DEF Count
  <2>2. \A d \in Background \ {c} : Uncounted(d)' <=> Uncounted(d)
    BY <1>9 DEF Count
  <2>3. PICK m \in {"completed", "failed"} : batch_status' = Bumped(c, {m})
    BY <1>9 DEF Count
  <2> QED BY ONLY HandleAssumption, TypeOK, CountedOnce, c \in Background, <2>1, <2>2, <2>3, OneLess
<1>10. CASE Cleanup(c)
  <2>1. \A d \in Background : Uncounted(d)' <=> Uncounted(d)
    BY <1>10 DEF Cleanup
  <2> QED BY <1>10, <2>1, SameOutstanding DEF Cleanup
<1>11. CASE Cancel(c)
  <2>1. \A d \in Background : Uncounted(d)' <=> Uncounted(d)
    BY <1>11 DEF Cancel
  <2> QED BY <1>11, <2>1, SameOutstanding DEF Cancel
<1>12. CASE CancelAborts(c)
  <2>1. \A d \in Background : Uncounted(d)' <=> Uncounted(d)
    BY <1>12 DEF CancelAborts
  <2> QED BY <1>12, <2>1, SameOutstanding DEF CancelAborts
<1>13. CASE CancelRecords(c)
  <2>1. \A d \in Background : Uncounted(d)' <=> Uncounted(d)
    BY <1>13 DEF CancelRecords
  <2> QED BY <1>13, <2>1, SameOutstanding DEF CancelRecords
<1>14. CASE CancelCounts(c)
  <2>1. Uncounted(c) /\ ~Uncounted(c)'
    BY <1>14 DEF CancelCounts
  <2>2. \A d \in Background \ {c} : Uncounted(d)' <=> Uncounted(d)
    BY <1>14 DEF CancelCounts
  <2>3. PICK m \in {"completed", "failed"} : batch_status' = Bumped(c, {m})
    BY <1>14 DEF CancelCounts
  <2> QED BY ONLY HandleAssumption, TypeOK, CountedOnce, c \in Background, <2>1, <2>2, <2>3, OneLess
<1> QED
  BY <1>1, <1>2, <1>3, <1>4, <1>5, <1>6, <1>7, <1>8, <1>9, <1>10, <1>11, <1>12, <1>13, <1>14
     DEF Submit, Task, Cancelling

\* An inline call touches no run.
LEMMA InlineStep ==
  ASSUME HandleAssumption, IInv, NEW c \in Inline, InlineCall(c) \/ InlineCounts(c)
  PROVE  IInv'
<1>0. c \in Calls /\ c \notin Background
  BY DEF Calls, HandleAssumption
<1>1. \A d \in Background : (Uncounted(d)' <=> Uncounted(d)) /\ caller'[d] = caller[d]
  BY <1>0 DEF InlineCall, InlineIngests, InlineReturns, InlineCounts, Uncounted, IInv, TypeOK, Calls
<1>2. UNCHANGED <<task, result, canceller, aborted, ingest_runs, ingest_claim, ingest_abort>>
  BY DEF InlineCall, InlineIngests, InlineReturns, InlineCounts
<1>3. \A d \in Background : RunInv(d)'
  BY <1>1, <1>2 DEF IInv, RunInv, Untouched, Unclaimed, OneRecorder, StatusFirst
<1>4. TypeOK'
  <2>1. \A names : Bumped(c, names) \in [Batches -> [Counters -> Nat]]
    BY <1>0, BumpedType DEF IInv
  <2> QED BY <1>0, <1>2, <2>1 DEF InlineCall, InlineIngests, InlineReturns, InlineCounts, IInv, TypeOK
<1>5. CountedOnce'
  <2>1. CASE InlineCall(c)
    BY <1>1, <2>1, SameOutstanding DEF InlineCall, InlineIngests, InlineReturns, IInv
  <2>2. CASE InlineCounts(c)
    <3>1. PICK m \in {"completed", "skipped"} : batch_status' = Bumped(c, {"total", m})
      BY <2>2 DEF InlineCounts
    <3> QED BY <1>1, <3>1, InlineCounted DEF IInv
  <2> QED BY <2>1, <2>2
<1> QED BY <1>3, <1>4, <1>5 DEF IInv

-----------------------------------------------------------------------------
\* The theorems

LEMMA InitIInv == HandleAssumption /\ Init => IInv
<1> SUFFICES ASSUME HandleAssumption, Init PROVE IInv
  OBVIOUS
<1>1. TypeOK
  BY DEF Init, TypeOK, Empty, Counters, Calls
<1>2. \A c \in Background : RunInv(c)
  BY DEF Init, RunInv, Untouched, Unclaimed, OneRecorder, StatusFirst, Calls
<1>3. \A b \in Batches : Outstanding(b) = {}
  BY DEF Init, Outstanding, Uncounted
<1>4. CountedOnce
  <2>1. ASSUME NEW b \in Batches
        PROVE  batch_status[b].total = 0 /\ Done(batch_status[b]) = 0
    BY DEF Init, Empty, Counters, Done
  <2>2. Cardinality({}) = 0
    BY FS_EmptySet
  <2> QED BY <1>3, <2>1, <2>2 DEF CountedOnce
<1> QED BY <1>1, <1>2, <1>4 DEF IInv

LEMMA NextIInv == HandleAssumption /\ IInv /\ [Next]_vars => IInv'
<1> SUFFICES ASSUME HandleAssumption, IInv, [Next]_vars PROVE IInv'
  OBVIOUS
<1>1. CASE UNCHANGED vars
  BY <1>1 DEF vars, IInv, TypeOK, RunInv, Untouched, Unclaimed, OneRecorder, StatusFirst,
              CountedOnce, Outstanding, Uncounted, Done
<1>2. ASSUME NEW c \in Background, Submit(c) \/ Task(c) \/ Cancel(c) \/ Cancelling(c)
      PROVE  IInv'
  <2>1. TypeOK'
    BY <1>2, TypeStep DEF IInv
  <2>2. \A d \in Background : RunInv(d)'
    BY <1>2, RunStep DEF IInv
  <2>3. CountedOnce'
    BY <1>2, CountStep DEF IInv
  <2> QED BY <2>1, <2>2, <2>3 DEF IInv
<1>3. ASSUME NEW c \in Inline, InlineCall(c) \/ InlineCounts(c)
      PROVE  IInv'
  BY <1>3, InlineStep
<1> QED BY <1>1, <1>2, <1>3 DEF Next

LEMMA AlwaysIInv == Spec => []IInv
BY HandleAssumption, InitIInv, NextIInv, PTL DEF Spec

\* The registries stay well typed (EngineGraphHandle's DashMaps).
THEOREM TypeCorrect == Spec => []TypeOK
<1>1. IInv => TypeOK
  BY DEF IInv
<1> QED BY AlwaysIInv, <1>1, PTL

\* A batch's total is what has been counted for it and what still will be, once each
\* (TD-251, graph_cancel and the task's tail).
THEOREM EndsCountedOnce == Spec => []CountedOnce
<1>1. IInv => CountedOnce
  BY DEF IInv
<1> QED BY AlwaysIInv, <1>1, PTL

\* BatchStatus::is_done cannot fire early: every run of the batch reads as ended.
THEOREM DoneIsFinal == Spec => []DoneMeansEnded
<1>1. HandleAssumption /\ IInv => DoneMeansEnded
  <2> SUFFICES ASSUME HandleAssumption, IInv, NEW b \in Batches, IsDone(b),
                      NEW c \in Background, BatchOf[c] = b, caller[c] # "new"
               PROVE  ingest_runs[c] \in Ended
    BY DEF DoneMeansEnded
  <2>1. batch_status[b] \in [Counters -> Nat] /\ IsFiniteSet(Outstanding(b))
    BY FS_Subset DEF IInv, TypeOK, HandleAssumption, Outstanding
  <2>2. Cardinality(Outstanding(b)) \in Nat
    BY <2>1, FS_CardinalityType
  <2>3. Done(batch_status[b]) \in Nat /\ batch_status[b].total \in Nat
    BY <2>1 DEF Done, Counters
  <2>4. Cardinality(Outstanding(b)) = 0
    BY <2>2, <2>3 DEF IInv, CountedOnce, IsDone
  <2>5. ~Uncounted(c)
    BY <2>1, <2>4, FS_EmptySet DEF Outstanding
  <2> QED BY <2>5 DEF IInv, RunInv, StatusFirst, Uncounted
<1> QED BY HandleAssumption, AlwaysIInv, <1>1, PTL

\* A run's end, once it can be polled, is never replaced (the claim protocol).
THEOREM EndStands == Spec => VerdictStands
<1>1. ASSUME IInv, [Next]_vars
      PROVE  [\A c \in Background : ingest_runs[c] \in Ended => ingest_runs'[c] = ingest_runs[c]]_vars
  <2> SUFFICES ASSUME Next, NEW d \in Background, ingest_runs[d] \in Ended
               PROVE  ingest_runs'[d] = ingest_runs[d]
    BY <1>1
  <2>1. TypeOK /\ \A c \in Background : RunInv(c)
    BY <1>1 DEF IInv
  <2>2. ASSUME NEW c \in Background, Submit(c) \/ Task(c) \/ Cancel(c) \/ Cancelling(c)
        PROVE  ingest_runs'[d] = ingest_runs[d]
    <3>1. CASE Register(c) \/ Start(c)
      BY <2>1, <3>1 DEF Register, Start, RunInv, Untouched, TypeOK, Ended, Calls
    <3>2. CASE Record(c) \/ CancelRecords(c)
      BY <2>1, <3>2 DEF Record, CancelRecords, RunInv, StatusFirst, TypeOK, Ended
    <3> QED BY <2>2, <3>1, <3>2
            DEF Submit, Task, Cancelling, Spawn, KeepAbortHandle, IngestReturns, Dropped, Claim,
                Count, Cleanup, Cancel, CancelAborts, CancelCounts
  <2>3. ASSUME NEW c \in Inline, InlineCall(c) \/ InlineCounts(c)
        PROVE  ingest_runs'[d] = ingest_runs[d]
    BY <2>3 DEF InlineCall, InlineIngests, InlineReturns, InlineCounts
  <2> QED BY <2>2, <2>3 DEF Next
<1> QED BY AlwaysIInv, <1>1, PTL DEF Spec, VerdictStands
=============================================================================
