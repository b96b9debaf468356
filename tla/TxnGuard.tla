------------------------------ MODULE TxnGuard ------------------------------
(***************************************************************************)
(* The write serialiser of one `TemporalGraph` handle                      *)
(* (core/schema.rs: begin_immediate_if_needed, BeginGuard::commit,         *)
(* ::rollback and ::drop).  Every task of the process shares ONE libsql    *)
(* connection; a transaction belongs to the writer that holds the tokio    *)
(* mutex `write_lock` for its whole life.  A call by the task that already *)
(* owns the open transaction gets a nested guard whose commit and rollback *)
(* do nothing.                                                             *)
(*                                                                         *)
(* Data is abstracted to the identity of a statement: who issued it and    *)
(* its number.  The control is kept: the owner check made before the lock, *)
(* the FIFO mutex, BEGIN that fails on a connection that is already inside *)
(* a transaction, COMMIT that fails and returns early, the guard dropped   *)
(* by cancellation and its deferred ROLLBACK, statements issued on the     *)
(* shared connection without a guard, and a crash of the process.          *)
(***************************************************************************)
EXTENDS Naturals, Sequences, FiniteSets

CONSTANTS
  Writers,         \* futures that open a guard
  Bare,            \* tasks that execute statements with no guard
  Tasks,           \* tokio tasks (or block_on threads): the WriterId values
  TaskOf,          \* [Writers -> Tasks], the task a writer is polled in
  MaxStmts,        \* bound: statements one actor ever issues
  MaxDepth,        \* bound: nested guards of one writer
  MaxCrashes,      \* bound: restarts of the process
  CommitMayFail,   \* BOOLEAN: COMMIT may return an error
  NoRuntimeDrop,   \* BOOLEAN: a guard may be dropped outside a tokio runtime
  None, Free, Cleanup   \* model values: no owner, free lock, the spawned ROLLBACK

Actors == Writers \cup Bare
Stmts  == Actors \X (1..MaxStmts)

ASSUME TxnAssumption ==
  /\ TaskOf \in [Writers -> Tasks]
  /\ MaxStmts \in Nat /\ MaxDepth \in Nat /\ MaxCrashes \in Nat
  /\ CommitMayFail \in BOOLEAN /\ NoRuntimeDrop \in BOOLEAN
  /\ None \notin Writers \cup Tasks
  /\ Free \notin Writers /\ Cleanup \notin Writers /\ Free # Cleanup
  /\ Writers \cap Bare = {}

VARIABLES
  pc,        \* what each writer is doing
  depth,     \* nested guards each writer holds inside its own transaction
  queue,     \* writers waiting for write_lock, in arrival order
  lock,      \* holder of write_lock
  owner,     \* transaction_owner
  outer,     \* has_outer_transaction
  sqlTxn,    \* the writer whose BEGIN the engine still has open
  pending,   \* statements inside the engine's open transaction
  durable,   \* statements committed by the engine
  batch,     \* statements each writer issued under its current guard
  issued,    \* how many statements each actor has issued
  acked,     \* statements whose caller was told Ok
  aborted,   \* statements whose caller was told Err, rolled back or was dropped
  crashes

vars == <<pc, depth, queue, lock, owner, outer, sqlTxn, pending, durable,
          batch, issued, acked, aborted, crashes>>
engine == <<sqlTxn, pending, durable>>
client == <<issued, acked, aborted>>

Init ==
  /\ pc = [w \in Writers |-> "idle"]
  /\ depth = [w \in Writers |-> 0]
  /\ queue = <<>>
  /\ lock = Free /\ owner = None /\ outer = FALSE
  /\ sqlTxn = None /\ pending = {} /\ durable = {}
  /\ batch = [w \in Writers |-> {}]
  /\ issued = [a \in Actors |-> 0]
  /\ acked = {} /\ aborted = {}
  /\ crashes = 0

-----------------------------------------------------------------------------
\* begin_immediate_if_needed

\* Mutation: the boolean flag that was consulted before write_lock and the owner
\* were introduced.
AnyOpenTransaction(w) == outer

\* The re-entrancy check comes first and does not touch the lock.
OwnsOpenTransaction(w) == owner = TaskOf[w]

\* A different writer holds the transaction, or nobody does: wait for write_lock.
Request(w) ==
  /\ pc[w] = "idle" /\ ~OwnsOpenTransaction(w)
  /\ issued[w] < MaxStmts
  /\ pc' = [pc EXCEPT ![w] = "waiting"]
  /\ queue' = Append(queue, w)
  /\ UNCHANGED <<depth, lock, owner, outer, engine, batch, client, crashes>>

\* The same future calls again inside its own transaction.
Nest(w) ==
  /\ pc[w] = "open" /\ OwnsOpenTransaction(w) /\ depth[w] < MaxDepth
  /\ depth' = [depth EXCEPT ![w] = @ + 1]
  /\ UNCHANGED <<pc, queue, lock, owner, outer, engine, batch, client, crashes>>

\* commit() or rollback() of a nested guard: neither does anything.
EndNested(w) ==
  /\ depth[w] > 0
  /\ depth' = [depth EXCEPT ![w] = @ - 1]
  /\ UNCHANGED <<pc, queue, lock, owner, outer, engine, batch, client, crashes>>

\* A sibling future polled by the task that owns the transaction (join!) is
\* taken for re-entrancy and gets a nested guard.
Join(w) ==
  /\ pc[w] = "idle" /\ OwnsOpenTransaction(w)
  /\ issued[w] < MaxStmts
  /\ pc' = [pc EXCEPT ![w] = "joined"]
  /\ UNCHANGED <<depth, queue, lock, owner, outer, engine, batch, client, crashes>>

\* Mutation: an error of BEGIN taken for "already inside a transaction".
AcquireAnyway(w) ==
  /\ lock = Free /\ queue # <<>> /\ Head(queue) = w
  /\ queue' = Tail(queue)
  /\ lock' = w /\ owner' = TaskOf[w] /\ outer' = TRUE
  /\ sqlTxn' = IF sqlTxn = None THEN w ELSE sqlTxn
  /\ pc' = [pc EXCEPT ![w] = "open"]
  /\ UNCHANGED <<depth, pending, durable, batch, client, crashes>>

\* The mutex is fair: the longest waiter gets it, and issues BEGIN IMMEDIATE.
\* No await separates the two, so no cancellation falls between them.
Acquire(w) ==
  /\ lock = Free /\ queue # <<>> /\ Head(queue) = w
  /\ sqlTxn = None
  /\ queue' = Tail(queue)
  /\ lock' = w /\ owner' = TaskOf[w] /\ outer' = TRUE
  /\ sqlTxn' = w
  /\ pc' = [pc EXCEPT ![w] = "open"]
  /\ UNCHANGED <<depth, pending, durable, batch, client, crashes>>

\* "cannot start a transaction within a transaction": the `?` returns, and the
\* lock is dropped with the stack frame.
AcquireBeginFails(w) ==
  /\ lock = Free /\ queue # <<>> /\ Head(queue) = w
  /\ sqlTxn # None
  /\ queue' = Tail(queue)
  /\ pc' = [pc EXCEPT ![w] = "idle"]
  /\ UNCHANGED <<depth, lock, owner, outer, engine, batch, client, crashes>>

\* The waiting future is dropped.
CancelWaiting(w) ==
  /\ pc[w] = "waiting"
  /\ \E i \in 1..Len(queue) :
       /\ queue[i] = w
       /\ queue' = SubSeq(queue, 1, i - 1) \o SubSeq(queue, i + 1, Len(queue))
  /\ pc' = [pc EXCEPT ![w] = "idle"]
  /\ UNCHANGED <<depth, lock, owner, outer, engine, batch, client, crashes>>

-----------------------------------------------------------------------------
\* Statements on the shared connection

\* SQLite runs a statement inside the open transaction whoever issued it, and
\* in autocommit mode when there is none.
Execute(a, s) ==
  IF sqlTxn = None
    THEN durable' = durable \cup {s} /\ UNCHANGED pending
    ELSE pending' = pending \cup {s} /\ UNCHANGED durable

Write(w) ==
  /\ pc[w] \in {"open", "joined"} /\ issued[w] < MaxStmts
  /\ LET s == <<w, issued[w] + 1>> IN
       /\ Execute(w, s)
       /\ batch' = [batch EXCEPT ![w] = @ \cup {s}]
  /\ issued' = [issued EXCEPT ![w] = @ + 1]
  /\ UNCHANGED <<pc, depth, queue, lock, owner, outer, sqlTxn, acked, aborted, crashes>>

\* graph.conn.execute(...) with no guard: the caller is told Ok at once.
BareWrite(b) ==
  /\ issued[b] < MaxStmts
  /\ LET s == <<b, issued[b] + 1>> IN
       /\ Execute(b, s)
       /\ acked' = acked \cup {s}
  /\ issued' = [issued EXCEPT ![b] = @ + 1]
  /\ UNCHANGED <<pc, depth, queue, lock, owner, outer, sqlTxn, batch, aborted, crashes>>

-----------------------------------------------------------------------------
\* The end of a guard

Finished(w) ==
  /\ pc' = [pc EXCEPT ![w] = "idle"]
  /\ depth' = [depth EXCEPT ![w] = 0]
  /\ batch' = [batch EXCEPT ![w] = {}]

ReleaseOwnership == owner' = None /\ outer' = FALSE

AcknowledgeBatch(w) == acked' = acked \cup batch[w] /\ UNCHANGED aborted
AbortBatch(w) == aborted' = aborted \cup batch[w] /\ UNCHANGED acked

\* ROLLBACK ends whatever transaction the engine has open.
EngineRollback == sqlTxn' = None /\ pending' = {} /\ UNCHANGED durable

\* Mutation: a guard marked as dispatched whose COMMIT is never issued.
CommitSkipped(w) ==
  /\ pc[w] = "open" /\ depth[w] = 0
  /\ EngineRollback
  /\ ReleaseOwnership /\ lock' = Free
  /\ AcknowledgeBatch(w) /\ Finished(w)
  /\ UNCHANGED <<queue, issued, crashes>>

\* commit(): COMMIT makes everything in the engine's transaction durable, then
\* ownership and lock are released.
CommitOk(w) ==
  /\ pc[w] = "open" /\ depth[w] = 0
  /\ durable' = durable \cup pending /\ pending' = {} /\ sqlTxn' = None
  /\ ReleaseOwnership /\ lock' = Free
  /\ AcknowledgeBatch(w) /\ Finished(w)
  /\ UNCHANGED <<queue, issued, crashes>>

\* Mutation: the error of COMMIT is swallowed.
CommitErrorSwallowed(w) ==
  /\ CommitMayFail
  /\ pc[w] = "open" /\ depth[w] = 0
  /\ UNCHANGED engine \/ EngineRollback
  /\ ReleaseOwnership /\ lock' = Free
  /\ AcknowledgeBatch(w) /\ Finished(w)
  /\ UNCHANGED <<queue, issued, crashes>>

\* COMMIT returns an error (a deferred constraint, a busy database): `dispatched`
\* is already TRUE, so Drop only releases ownership and the lock.  The engine
\* keeps the transaction open, or has rolled it back itself.
CommitFails(w) ==
  /\ CommitMayFail
  /\ pc[w] = "open" /\ depth[w] = 0
  /\ UNCHANGED engine \/ EngineRollback
  /\ ReleaseOwnership /\ lock' = Free
  /\ AbortBatch(w) /\ Finished(w)
  /\ UNCHANGED <<queue, issued, crashes>>

Rollback(w) ==
  /\ pc[w] = "open" /\ depth[w] = 0
  /\ EngineRollback
  /\ ReleaseOwnership /\ lock' = Free
  /\ AbortBatch(w) /\ Finished(w)
  /\ UNCHANGED <<queue, issued, crashes>>

\* Mutation: Drop lets the lock go with the guard and spawns nothing.
DropGuardForgets(w) ==
  /\ pc[w] = "open"
  /\ lock' = Free
  /\ ReleaseOwnership
  /\ AbortBatch(w) /\ Finished(w)
  /\ UNCHANGED <<queue, engine, issued, crashes>>

\* The future is cancelled inside its transaction.  Drop clears the owner at
\* once and moves the lock into a spawned task that will issue the ROLLBACK.
DropGuard(w) ==
  /\ pc[w] = "open"
  /\ lock' = Cleanup
  /\ ReleaseOwnership
  /\ AbortBatch(w) /\ Finished(w)
  /\ UNCHANGED <<queue, engine, issued, crashes>>

\* Dropped where no tokio runtime is current: no ROLLBACK is issued.
DropGuardNoRuntime(w) ==
  /\ NoRuntimeDrop
  /\ pc[w] = "open"
  /\ lock' = Free
  /\ ReleaseOwnership
  /\ AbortBatch(w) /\ Finished(w)
  /\ UNCHANGED <<queue, engine, issued, crashes>>

\* Mutation: the spawned task leaks the lock it was given.
DeferredRollbackLeaksLock ==
  /\ lock = Cleanup
  /\ EngineRollback
  /\ outer' = FALSE
  /\ UNCHANGED <<pc, depth, queue, lock, owner, batch, client, crashes>>

\* The spawned task: ROLLBACK, clear the flag, and only then release the lock.
DeferredRollback ==
  /\ lock = Cleanup
  /\ EngineRollback
  /\ outer' = FALSE /\ lock' = Free
  /\ UNCHANGED <<pc, depth, queue, owner, batch, client, crashes>>

\* commit() of a joined sibling returns Ok without a COMMIT ...
JoinedCommit(w) ==
  /\ pc[w] = "joined"
  /\ AcknowledgeBatch(w) /\ Finished(w)
  /\ UNCHANGED <<queue, lock, owner, outer, engine, issued, crashes>>

\* ... and its rollback() or drop leaves its statements where they are.
JoinedRollback(w) ==
  /\ pc[w] = "joined"
  /\ AbortBatch(w) /\ Finished(w)
  /\ UNCHANGED <<queue, lock, owner, outer, engine, issued, crashes>>

\* The process dies and the database is reopened.
Crash ==
  /\ crashes < MaxCrashes
  /\ pc' = [w \in Writers |-> "idle"]
  /\ depth' = [w \in Writers |-> 0]
  /\ queue' = <<>>
  /\ lock' = Free /\ ReleaseOwnership
  /\ EngineRollback
  /\ aborted' = aborted \cup UNION {batch[w] : w \in Writers}
  /\ batch' = [w \in Writers |-> {}]
  /\ crashes' = crashes + 1
  /\ UNCHANGED <<issued, acked>>

-----------------------------------------------------------------------------
Finish(w) == CommitOk(w) \/ CommitFails(w) \/ Rollback(w) \/ DropGuard(w)
               \/ DropGuardNoRuntime(w)

Next ==
  \/ \E w \in Writers :
       \/ Request(w) \/ Nest(w) \/ EndNested(w) \/ Join(w)
       \/ Acquire(w) \/ AcquireBeginFails(w) \/ CancelWaiting(w)
       \/ Write(w)
       \/ CommitOk(w) \/ CommitFails(w) \/ Rollback(w)
       \/ DropGuard(w) \/ DropGuardNoRuntime(w)
       \/ JoinedCommit(w) \/ JoinedRollback(w)
  \/ \E b \in Bare : BareWrite(b)
  \/ DeferredRollback
  \/ Crash

Spec == Init /\ [][Next]_vars

\* A future that holds a guard is polled until it finishes or is dropped; the
\* mutex wakes its first waiter; the runtime runs the task it was given.
Fairness ==
  /\ \A w \in Writers : WF_vars(Acquire(w) \/ AcquireBeginFails(w))
  /\ \A w \in Writers : WF_vars(Finish(w))
  /\ WF_vars(DeferredRollback)

FairSpec == Spec /\ Fairness

-----------------------------------------------------------------------------
TypeOK ==
  /\ pc \in [Writers -> {"idle", "waiting", "open", "joined"}]
  /\ depth \in [Writers -> Nat]
  /\ queue \in Seq(Writers)
  /\ lock \in Writers \cup {Free, Cleanup}
  /\ owner \in Tasks \cup {None}
  /\ outer \in BOOLEAN
  /\ sqlTxn \in Writers \cup {None}
  /\ pending \subseteq Stmts /\ durable \subseteq Stmts
  /\ acked \subseteq Stmts /\ aborted \subseteq Stmts
  /\ batch \in [Writers -> SUBSET Stmts]
  /\ issued \in [Actors -> Nat]
  /\ crashes \in Nat

\* Two writers are never inside a transaction together, and the one that is
\* inside holds the lock, owns the transaction and is the one whose BEGIN the
\* engine has open (begin_immediate_if_needed, BeginGuard::_lock).
Exclusion ==
  \A w \in Writers : pc[w] = "open" =>
    lock = w /\ owner = TaskOf[w] /\ sqlTxn = w

\* The engine's transaction holds the statements of the writer that opened it
\* and nobody else's (the defect the write_lock was introduced to end).
WritesIsolated ==
  \A w \in Writers : pc[w] = "open" => pending = batch[w]

\* What commit() acknowledged survives any later rollback, drop or crash.
AckedDurable == acked \subseteq durable

\* What was rolled back, dropped or refused never becomes durable.
AbortedNeverDurable == aborted \cap durable = {}

\* The conditions under which one transaction is one writer's: no statement is
\* issued without a guard, and no two writers are polled by one task.
SeparateTasks ==
  /\ Bare = {}
  /\ \A v, w \in Writers : TaskOf[v] = TaskOf[w] => v = w

\* An owner is recorded only while a writer of that task is inside.
OwnerIsInside ==
  owner # None => \E w \in Writers : pc[w] = "open" /\ owner = TaskOf[w]

\* A writer outside a transaction has no statements under way, and outside a
\* transaction of the engine there are none at all.
NothingLeftBehind ==
  /\ \A w \in Writers : pc[w] # "open" => batch[w] = {}
  /\ sqlTxn = None => pending = {}

\* A statement that has not been issued yet is nowhere.
Numbered ==
  /\ \A w \in Writers : \A s \in batch[w] : s[1] = w /\ s[2] <= issued[w]
  /\ \A s \in durable \cup acked \cup aborted : s[2] <= issued[s[1]]

\* A statement under way is neither durable nor already answered for.
UnderWay == \A w \in Writers : batch[w] \cap (durable \cup aborted) = {}

\* The inductive invariant behind WritesIsolated, AckedDurable and
\* AbortedNeverDurable when SeparateTasks holds.
IInv ==
  /\ TypeOK /\ Exclusion /\ OwnerIsInside
  /\ \A w \in Writers : pc[w] # "joined"
  /\ NothingLeftBehind /\ Numbered /\ UnderWay
  /\ WritesIsolated /\ AckedDurable /\ AbortedNeverDurable

\* A transaction left open in the engine always has somebody who will close it:
\* the guard's holder or the deferred ROLLBACK.  Otherwise every later BEGIN
\* fails until the process restarts.
ConnectionUsable ==
  sqlTxn # None => \/ lock = Cleanup
                   \/ \E w \in Writers : pc[w] = "open" /\ sqlTxn = w

\* The engine's durable set grows by one writer's whole batch or not at all.
AllOrNothing ==
  [][durable' # durable =>
       \E w \in Writers : durable' = durable \cup batch[w] /\ acked' = acked \cup batch[w]]_vars

\* Every writer waiting for write_lock stops waiting.
WaitersServed == \A w \in Writers : pc[w] = "waiting" ~> pc[w] # "waiting"

\* The promise of the write path, on the statements of guarded writers.
Serial == INSTANCE SerialStore WITH durable <- durable, acked <- acked,
                                   Writers <- Writers, MaxStmts <- MaxStmts
Implements == Serial!Spec
=============================================================================
