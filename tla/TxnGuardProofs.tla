--------------------------- MODULE TxnGuardProofs ---------------------------
(***************************************************************************)
(* Proofs about the write serialiser, for any number of writers, tasks,    *)
(* statements and crashes.                                                 *)
(***************************************************************************)
EXTENDS TxnGuard, SequenceTheorems, TLAPS

LEMMA InitType == Init => TypeOK
<1> SUFFICES ASSUME Init PROVE TypeOK
  OBVIOUS
<1>1. queue \in Seq(Writers)
  BY EmptySeq DEF Init
<1> QED
  BY <1>1 DEF Init, TypeOK

\* Taking one waiter out of the queue leaves a queue of waiters.
LEMMA RemoveOne ==
  ASSUME NEW S, NEW q \in Seq(S), NEW i \in 1..Len(q)
  PROVE  SubSeq(q, 1, i - 1) \o SubSeq(q, i + 1, Len(q)) \in Seq(S)
<1>1. SubSeq(q, 1, i - 1) \in Seq(S)
  BY SubSeqProperties
<1>2. SubSeq(q, i + 1, Len(q)) \in Seq(S)
  BY SubSeqProperties
<1> QED
  BY <1>1, <1>2, ConcatProperties

LEMMA NextType == TypeOK /\ [Next]_vars => TypeOK'
<1> SUFFICES ASSUME TypeOK, [Next]_vars PROVE TypeOK'
  OBVIOUS
<1> USE TxnAssumption DEF TxnAssumption
<1>1. ASSUME NEW w \in Writers, Request(w) PROVE TypeOK'
  BY <1>1 DEF TypeOK, Request, engine, client
<1>2. ASSUME NEW w \in Writers, Nest(w) PROVE TypeOK'
  BY <1>2 DEF TypeOK, Nest, engine, client
<1>3. ASSUME NEW w \in Writers, EndNested(w) PROVE TypeOK'
  BY <1>3 DEF TypeOK, EndNested, engine, client
<1>4. ASSUME NEW w \in Writers, Join(w) PROVE TypeOK'
  BY <1>4 DEF TypeOK, Join, engine, client
<1>5. ASSUME NEW w \in Writers, Acquire(w) PROVE TypeOK'
  <2>1. queue' \in Seq(Writers)
    BY <1>5, HeadTailProperties DEF TypeOK, Acquire
  <2> QED
    BY <1>5, <2>1 DEF TypeOK, Acquire, client
<1>6. ASSUME NEW w \in Writers, AcquireBeginFails(w) PROVE TypeOK'
  <2>1. queue' \in Seq(Writers)
    BY <1>6, HeadTailProperties DEF TypeOK, AcquireBeginFails
  <2> QED
    BY <1>6, <2>1 DEF TypeOK, AcquireBeginFails, engine, client
<1>7. ASSUME NEW w \in Writers, CancelWaiting(w) PROVE TypeOK'
  <2>1. queue' \in Seq(Writers)
    BY <1>7, RemoveOne DEF TypeOK, CancelWaiting
  <2> QED
    BY <1>7, <2>1 DEF TypeOK, CancelWaiting, engine, client
<1>8. ASSUME NEW w \in Writers, Write(w) PROVE TypeOK'
  <2>1. <<w, issued[w] + 1>> \in Stmts
    BY <1>8 DEF TypeOK, Write, Stmts, Actors
  <2>2. pending' \subseteq Stmts /\ durable' \subseteq Stmts
    BY <1>8, <2>1 DEF TypeOK, Write, Execute
  <2>3. issued' \in [Actors -> Nat]
    BY <1>8 DEF TypeOK, Write, Actors
  <2>4. batch' \in [Writers -> SUBSET Stmts]
    BY <1>8, <2>1 DEF TypeOK, Write
  <2> QED
    BY <1>8, <2>2, <2>3, <2>4 DEF TypeOK, Write
<1>9. ASSUME NEW b \in Bare, BareWrite(b) PROVE TypeOK'
  <2>1. <<b, issued[b] + 1>> \in Stmts
    BY <1>9 DEF TypeOK, BareWrite, Stmts, Actors
  <2>2. pending' \subseteq Stmts /\ durable' \subseteq Stmts
    BY <1>9, <2>1 DEF TypeOK, BareWrite, Execute
  <2>3. issued' \in [Actors -> Nat]
    BY <1>9 DEF TypeOK, BareWrite, Actors
  <2> QED
    BY <1>9, <2>1, <2>2, <2>3 DEF TypeOK, BareWrite
<1>10. ASSUME NEW w \in Writers, CommitOk(w) PROVE TypeOK'
  BY <1>10 DEF TypeOK, CommitOk, ReleaseOwnership, AcknowledgeBatch, Finished
<1>11. ASSUME NEW w \in Writers, CommitFails(w) PROVE TypeOK'
  BY <1>11 DEF TypeOK, CommitFails, ReleaseOwnership, AbortBatch, Finished, engine,
               EngineRollback
<1>12. ASSUME NEW w \in Writers, Rollback(w) PROVE TypeOK'
  BY <1>12 DEF TypeOK, Rollback, ReleaseOwnership, AbortBatch, Finished, EngineRollback
<1>13. ASSUME NEW w \in Writers, DropGuard(w) PROVE TypeOK'
  BY <1>13 DEF TypeOK, DropGuard, ReleaseOwnership, AbortBatch, Finished, engine
<1>14. ASSUME NEW w \in Writers, DropGuardNoRuntime(w) PROVE TypeOK'
  BY <1>14 DEF TypeOK, DropGuardNoRuntime, ReleaseOwnership, AbortBatch, Finished, engine
<1>15. ASSUME NEW w \in Writers, JoinedCommit(w) PROVE TypeOK'
  BY <1>15 DEF TypeOK, JoinedCommit, AcknowledgeBatch, Finished, engine
<1>16. ASSUME NEW w \in Writers, JoinedRollback(w) PROVE TypeOK'
  BY <1>16 DEF TypeOK, JoinedRollback, AbortBatch, Finished, engine
<1>17. CASE DeferredRollback
  BY <1>17 DEF TypeOK, DeferredRollback, EngineRollback, client
<1>18. CASE Crash
  <2>1. queue' \in Seq(Writers)
    BY <1>18, EmptySeq DEF Crash
  <2>2. aborted' \subseteq Stmts
    BY <1>18 DEF TypeOK, Crash
  <2>3. /\ pc' \in [Writers -> {"idle", "waiting", "open", "joined"}]
        /\ depth' \in [Writers -> Nat]
        /\ batch' \in [Writers -> SUBSET Stmts]
    BY <1>18 DEF Crash
  <2>4. /\ lock' = Free /\ owner' = None /\ outer' = FALSE /\ sqlTxn' = None
        /\ pending' = {} /\ durable' = durable /\ acked' = acked
        /\ issued' = issued /\ crashes' \in Nat
    BY <1>18 DEF TypeOK, Crash, ReleaseOwnership, EngineRollback
  <2> QED
    BY <2>1, <2>2, <2>3, <2>4 DEF TypeOK
<1>19. CASE UNCHANGED vars
  BY <1>19 DEF TypeOK, vars
<1> QED
  BY <1>1, <1>2, <1>3, <1>4, <1>5, <1>6, <1>7, <1>8, <1>9, <1>10, <1>11, <1>12,
     <1>13, <1>14, <1>15, <1>16, <1>17, <1>18, <1>19 DEF Next

\* Every reachable state of the write path has the declared types, whatever
\* tasks the writers run in and whatever fails.
THEOREM TypeCorrect == Spec => []TypeOK
<1>1. Init => TypeOK
  BY InitType
<1>2. TypeOK /\ [Next]_vars => TypeOK'
  BY NextType
<1> QED
  BY <1>1, <1>2, PTL DEF Spec

-----------------------------------------------------------------------------
(***************************************************************************)
(* Exclusion is inductive by itself: Acquire needs a free lock, and        *)
(* whoever is inside holds it.                                             *)
(***************************************************************************)
LEMMA ExclusionStep == TypeOK /\ Exclusion /\ [Next]_vars => Exclusion'
<1> SUFFICES ASSUME TypeOK, Exclusion, [Next]_vars PROVE Exclusion'
  OBVIOUS
<1> USE TxnAssumption DEF TxnAssumption, TypeOK, Exclusion
<1>1. ASSUME NEW w \in Writers, Request(w) PROVE Exclusion'
  BY <1>1 DEF Request, engine
<1>2. ASSUME NEW w \in Writers, Nest(w) \/ EndNested(w) PROVE Exclusion'
  BY <1>2 DEF Nest, EndNested, engine
<1>3. ASSUME NEW w \in Writers, Join(w) PROVE Exclusion'
  BY <1>3 DEF Join, engine
<1>4. ASSUME NEW w \in Writers, Acquire(w) PROVE Exclusion'
  BY <1>4 DEF Acquire
<1>5. ASSUME NEW w \in Writers, AcquireBeginFails(w) \/ CancelWaiting(w)
      PROVE Exclusion'
  BY <1>5 DEF AcquireBeginFails, CancelWaiting, engine
<1>6. ASSUME NEW w \in Writers, Write(w) PROVE Exclusion'
  BY <1>6 DEF Write
<1>7. ASSUME NEW b \in Bare, BareWrite(b) PROVE Exclusion'
  BY <1>7 DEF BareWrite
<1>8. ASSUME NEW w \in Writers, CommitOk(w) \/ Rollback(w) PROVE Exclusion'
  BY <1>8 DEF CommitOk, Rollback, Finished
<1>9. ASSUME NEW w \in Writers, CommitFails(w) PROVE Exclusion'
  BY <1>9 DEF CommitFails, Finished
<1>10. ASSUME NEW w \in Writers, DropGuard(w) \/ DropGuardNoRuntime(w)
       PROVE Exclusion'
  BY <1>10 DEF DropGuard, DropGuardNoRuntime, Finished
<1>11. ASSUME NEW w \in Writers, JoinedCommit(w) \/ JoinedRollback(w)
       PROVE Exclusion'
  BY <1>11 DEF JoinedCommit, JoinedRollback, Finished, engine
<1>12. CASE DeferredRollback
  BY <1>12 DEF DeferredRollback
<1>13. CASE Crash
  BY <1>13 DEF Crash
<1>14. CASE UNCHANGED vars
  BY <1>14 DEF vars
<1> QED
  BY <1>1, <1>2, <1>3, <1>4, <1>5, <1>6, <1>7, <1>8, <1>9, <1>10, <1>11, <1>12,
     <1>13, <1>14 DEF Next

\* No two writers are ever inside a transaction together, for any assignment of
\* writers to tasks and with every failure of COMMIT, Drop and the process.
THEOREM MutualExclusion == Spec => []Exclusion
<1>1. Init => TypeOK /\ Exclusion
  BY InitType DEF Init, Exclusion
<1>2. TypeOK /\ Exclusion /\ [Next]_vars => TypeOK' /\ Exclusion'
  BY NextType, ExclusionStep
<1> QED
  BY <1>1, <1>2, PTL DEF Spec
-----------------------------------------------------------------------------
(***************************************************************************)
(* The connection stays usable where COMMIT succeeds and a runtime is      *)
(* there when a guard is dropped.                                          *)
(***************************************************************************)
LEMMA UsableStep ==
  ASSUME ~CommitMayFail, ~NoRuntimeDrop
  PROVE  TypeOK /\ Exclusion /\ ConnectionUsable /\ [Next]_vars => ConnectionUsable'
<1> SUFFICES ASSUME TypeOK, Exclusion, ConnectionUsable, [Next]_vars
             PROVE  ConnectionUsable'
  OBVIOUS
<1>1. ASSUME NEW w \in Writers,
             Request(w) \/ Nest(w) \/ EndNested(w) \/ Join(w) \/ AcquireBeginFails(w)
               \/ CancelWaiting(w) \/ Write(w) \/ JoinedCommit(w) \/ JoinedRollback(w)
      PROVE  ConnectionUsable'
  <2>1. UNCHANGED <<lock, sqlTxn>>
    BY <1>1 DEF Request, Nest, EndNested, Join, AcquireBeginFails, CancelWaiting, Write,
                JoinedCommit, JoinedRollback, engine
  <2>2. CASE pc' = pc
    BY <2>1, <2>2 DEF ConnectionUsable
  <2>3. CASE AcquireBeginFails(w)
    <3>1. pc' = [pc EXCEPT ![w] = "idle"] /\ lock = Free
      BY <2>3 DEF AcquireBeginFails
    <3>2. pc[w] # "open"
      BY <3>1, TxnAssumption DEF Exclusion, TxnAssumption
    <3> QED BY <2>1, <3>1, <3>2 DEF ConnectionUsable, TypeOK
  <2>4. CASE Request(w) \/ Join(w) \/ CancelWaiting(w) \/ JoinedCommit(w) \/ JoinedRollback(w)
    <3>1. /\ pc[w] # "open"
          /\ \A v \in Writers \ {w} : pc'[v] = pc[v]
      BY <2>4 DEF TypeOK, Request, Join, CancelWaiting, JoinedCommit, JoinedRollback, Finished
    <3> QED BY <2>1, <3>1 DEF ConnectionUsable
  <2> QED
    BY <1>1, <2>2, <2>3, <2>4 DEF Nest, EndNested, Write
<1>2. ASSUME NEW w \in Writers, Acquire(w) PROVE ConnectionUsable'
  BY <1>2 DEF Acquire, ConnectionUsable, TypeOK
<1>3. ASSUME NEW w \in Writers, CommitOk(w) \/ Rollback(w) PROVE ConnectionUsable'
  BY <1>3 DEF CommitOk, Rollback, EngineRollback, ConnectionUsable
<1>4. ASSUME NEW w \in Writers, CommitFails(w) \/ DropGuardNoRuntime(w) PROVE FALSE
  BY <1>4 DEF CommitFails, DropGuardNoRuntime
<1>5. ASSUME NEW w \in Writers, DropGuard(w) PROVE ConnectionUsable'
  BY <1>5 DEF DropGuard, ConnectionUsable
<1>6. ASSUME NEW b \in Bare, BareWrite(b) PROVE ConnectionUsable'
  BY <1>6 DEF BareWrite, ConnectionUsable
<1>7. CASE DeferredRollback \/ Crash
  BY <1>7 DEF DeferredRollback, Crash, EngineRollback, ConnectionUsable
<1>8. CASE UNCHANGED vars
  BY <1>8 DEF vars, ConnectionUsable
<1> QED BY <1>1, <1>2, <1>3, <1>4, <1>5, <1>6, <1>7, <1>8 DEF Next

\* A transaction the engine has open always has somebody who will end it: with
\* un-guarded statements, writers that share a task, cancelled futures and restarts.
THEOREM EngineNeverStuck ==
  ASSUME ~CommitMayFail, ~NoRuntimeDrop PROVE Spec => []ConnectionUsable
<1>1. Init => TypeOK /\ Exclusion /\ ConnectionUsable
  BY InitType DEF Init, Exclusion, ConnectionUsable
<1>2. TypeOK /\ Exclusion /\ ConnectionUsable /\ [Next]_vars
        => TypeOK' /\ Exclusion' /\ ConnectionUsable'
  BY NextType, ExclusionStep, UsableStep
<1> QED BY <1>1, <1>2, PTL DEF Spec

-----------------------------------------------------------------------------
(***************************************************************************)
(* Isolation and durability when every writer runs in a task of its own    *)
(* and no statement is issued outside a guard.                             *)
(***************************************************************************)
LEMMA InitIInv == Init => IInv
  BY InitType DEF Init, IInv, Exclusion, OwnerIsInside, NothingLeftBehind, Numbered,
     UnderWay, WritesIsolated, AckedDurable, AbortedNeverDurable

\* With a task of its own, a writer outside a transaction is never taken for
\* the writer inside.
LEMMA NoJoin ==
  ASSUME SeparateTasks, TypeOK, OwnerIsInside, NEW w \in Writers
  PROVE  ~Join(w)
<1> SUFFICES ASSUME Join(w) PROVE FALSE
  OBVIOUS
<1>1. pc[w] = "idle" /\ owner = TaskOf[w] /\ owner # None
  BY TxnAssumption DEF TxnAssumption, Join, OwnsOpenTransaction
<1>2. PICK v \in Writers : pc[v] = "open" /\ owner = TaskOf[v]
  BY <1>1 DEF OwnerIsInside
<1>3. v = w
  BY <1>1, <1>2 DEF SeparateTasks
<1> QED
  BY <1>1, <1>2, <1>3

LEMMA StepIInv == ASSUME SeparateTasks PROVE IInv /\ [Next]_vars => IInv'
<1> SUFFICES ASSUME IInv, [Next]_vars PROVE IInv'
  OBVIOUS
<1>0. TypeOK' /\ Exclusion'
  BY NextType, ExclusionStep DEF IInv
<1> USE <1>0, TxnAssumption DEF TxnAssumption, SeparateTasks, IInv, TypeOK, Exclusion,
      OwnerIsInside, NothingLeftBehind, Numbered, UnderWay, WritesIsolated,
      AckedDurable, AbortedNeverDurable
<1>1. ASSUME NEW w \in Writers, Request(w) PROVE IInv'
  BY <1>1 DEF Request, engine, client
<1>2. ASSUME NEW w \in Writers, Nest(w) PROVE IInv'
  BY <1>2 DEF Nest, engine, client
<1>3. ASSUME NEW w \in Writers, EndNested(w) PROVE IInv'
  BY <1>3 DEF EndNested, engine, client
<1>4. ASSUME NEW w \in Writers, Join(w) PROVE IInv'
  BY <1>4, NoJoin
<1>5. ASSUME NEW w \in Writers, Acquire(w) PROVE IInv'
  <2>1. /\ UNCHANGED <<durable, batch, pending, issued, acked, aborted>>
        /\ lock' = w /\ owner' = TaskOf[w] /\ sqlTxn = None /\ sqlTxn' = w
        /\ pc' = [pc EXCEPT ![w] = "open"]
    BY <1>5 DEF Acquire, client
  <2>2. Numbered' /\ UnderWay' /\ AckedDurable' /\ AbortedNeverDurable'
    BY <2>1, SMTT(60)
  <2>3. OwnerIsInside'
    BY <2>1, SMTT(60)
  <2>4. pending' = {} /\ NothingLeftBehind'
    BY <2>1, SMTT(60)
  <2>5. WritesIsolated'
    BY <2>1, <2>4, SMTT(60)
  <2>6. \A v \in Writers : pc'[v] # "joined"
    BY <2>1
  <2> QED
    BY <2>2, <2>3, <2>4, <2>5, <2>6
<1>6. ASSUME NEW w \in Writers, AcquireBeginFails(w) PROVE IInv'
  BY <1>6 DEF AcquireBeginFails, engine, client
<1>7. ASSUME NEW w \in Writers, CancelWaiting(w) PROVE IInv'
  BY <1>7 DEF CancelWaiting, engine, client
<1>8. ASSUME NEW w \in Writers, Write(w) PROVE IInv'
  <2> DEFINE s == <<w, issued[w] + 1>>
  <2>1. pc[w] = "open" /\ sqlTxn = w /\ pending = batch[w] /\ issued[w] \in Nat
    BY <1>8 DEF Write, Actors
  <2>2. /\ pending' = pending \cup {s} /\ durable' = durable
        /\ batch' = [batch EXCEPT ![w] = @ \cup {s}]
        /\ issued' = [issued EXCEPT ![w] = @ + 1]
        /\ UNCHANGED <<pc, owner, lock, sqlTxn, acked, aborted>>
    BY <1>8, <2>1 DEF Write, Execute
  <2>3. s \notin durable \cup acked \cup aborted
    BY <2>1
  <2>4. OwnerIsInside' /\ NothingLeftBehind' /\ AckedDurable' /\ AbortedNeverDurable'
    BY <2>1, <2>2
  <2>5. \A v \in Writers : pc'[v] # "joined"
    BY <2>2
  <2>6. \A v \in Writers : v # w => pc[v] # "open"
    BY <2>1
  <2>7. WritesIsolated'
    BY <2>1, <2>2, <2>6
  <2>8. UnderWay'
    BY <2>2, <2>3
  <2>9. Numbered'
    <3>1. \A a \in Actors : issued'[a] \in Nat /\ issued[a] <= issued'[a]
      BY <2>2 DEF Actors
    <3>2. \A x \in durable \cup acked \cup aborted : x[1] \in Actors /\ x[2] \in Nat
      BY DEF Stmts
    <3>3. \A v \in Writers : \A x \in batch[v] : x[2] \in Nat
      BY DEF Stmts
    <3>4. \A v \in Writers : \A x \in batch'[v] : x \in batch[v] \/ (v = w /\ x = s)
      BY <2>2
    <3>5. issued'[w] = issued[w] + 1
      BY <2>2 DEF Actors
    <3> HIDE DEF s
    <3>6. s[1] = w /\ s[2] = issued[w] + 1
      BY DEF s
    <3>7. ASSUME NEW v \in Writers, NEW x \in batch'[v]
          PROVE  x[1] = v /\ x[2] <= issued'[v]
      <4>1. CASE x \in batch[v]
        <5>1. x[1] = v /\ x[2] <= issued[v] /\ x[2] \in Nat
          BY <4>1, <3>3
        <5>2. v \in Actors /\ issued[v] \in Nat
          BY DEF Actors
        <5> QED
          BY <5>1, <5>2, <3>1
      <4>2. CASE v = w /\ x = s
        BY <4>2, <2>1, <3>5, <3>6
      <4> QED
        BY <3>4, <4>1, <4>2
    <3>8. \A x \in durable' \cup acked' \cup aborted' : x[2] <= issued'[x[1]]
      <4> TAKE x \in durable' \cup acked' \cup aborted'
      <4>1. x \in durable \cup acked \cup aborted
        BY <2>2
      <4>2. x[1] \in Actors /\ x[2] \in Nat /\ x[2] <= issued[x[1]]
        BY <3>2, <4>1
      <4>3. issued[x[1]] \in Nat /\ issued'[x[1]] \in Nat /\ issued[x[1]] <= issued'[x[1]]
        BY <3>1, <4>2
      <4> QED
        BY <4>2, <4>3
    <3> QED
      BY <3>7, <3>8
  <2> QED
    BY <2>4, <2>5, <2>7, <2>8, <2>9
<1>9. ASSUME NEW w \in Writers, CommitOk(w) PROVE IInv'
  BY <1>9 DEF CommitOk, ReleaseOwnership, AcknowledgeBatch, Finished
<1>10. ASSUME NEW w \in Writers, CommitFails(w) PROVE IInv'
  BY <1>10 DEF CommitFails, ReleaseOwnership, AbortBatch, Finished, engine, EngineRollback
<1>11. ASSUME NEW w \in Writers, Rollback(w) PROVE IInv'
  BY <1>11 DEF Rollback, ReleaseOwnership, AbortBatch, Finished, EngineRollback
<1>12. ASSUME NEW w \in Writers, DropGuard(w) PROVE IInv'
  BY <1>12 DEF DropGuard, ReleaseOwnership, AbortBatch, Finished, engine
<1>13. ASSUME NEW w \in Writers, DropGuardNoRuntime(w) PROVE IInv'
  BY <1>13 DEF DropGuardNoRuntime, ReleaseOwnership, AbortBatch, Finished, engine
<1>14. ASSUME NEW w \in Writers, JoinedCommit(w) PROVE IInv'
  BY <1>14 DEF JoinedCommit, AcknowledgeBatch, Finished, engine
<1>15. ASSUME NEW w \in Writers, JoinedRollback(w) PROVE IInv'
  BY <1>15 DEF JoinedRollback, AbortBatch, Finished, engine
<1>16. CASE \E b \in Bare : BareWrite(b)
  BY <1>16
<1>17. CASE DeferredRollback
  BY <1>17 DEF DeferredRollback, EngineRollback, client
<1>18. CASE Crash
  BY <1>18 DEF Crash, EngineRollback, ReleaseOwnership
<1>19. CASE UNCHANGED vars
  BY <1>19 DEF vars
<1> QED
  BY <1>1, <1>2, <1>3, <1>4, <1>5, <1>6, <1>7, <1>8, <1>9, <1>10, <1>11, <1>12, <1>13,
     <1>14, <1>15, <1>16, <1>17, <1>18, <1>19 DEF Next

\* IInv is an invariant of the write path for any number of separate tasks.
THEOREM Invariance == ASSUME SeparateTasks PROVE Spec => []IInv
<1>1. Init => IInv
  BY InitIInv
<1>2. IInv /\ [Next]_vars => IInv'
  BY StepIInv
<1> QED
  BY <1>1, <1>2, PTL DEF Spec

\* The engine's open transaction never holds a statement of another writer, so
\* a rollback undoes the caller's own work and nothing else.
THEOREM Isolation == ASSUME SeparateTasks PROVE Spec => []WritesIsolated
<1>1. IInv => WritesIsolated
  BY DEF IInv
<1> QED
  BY <1>1, Invariance, PTL

\* Nothing that commit() acknowledged is undone later: not by another writer's
\* rollback, not by a deferred ROLLBACK, not by a restart.
THEOREM Durability == ASSUME SeparateTasks PROVE Spec => []AckedDurable
<1>1. IInv => AckedDurable
  BY DEF IInv
<1> QED
  BY <1>1, Invariance, PTL

\* What a caller was told had failed is never made durable by somebody else's
\* COMMIT.
THEOREM NoStowaway == ASSUME SeparateTasks PROVE Spec => []AbortedNeverDurable
<1>1. IInv => AbortedNeverDurable
  BY DEF IInv
<1> QED
  BY <1>1, Invariance, PTL

-----------------------------------------------------------------------------
(***************************************************************************)
(* Atomicity and the refinement of SerialStore.  One lemma carries both:   *)
(* the only step that touches the durable or the acknowledged statements   *)
(* is a COMMIT, and it adds the committing writer's batch to both.         *)
(***************************************************************************)
LEMMA OnlyCommits ==
  ASSUME SeparateTasks, IInv, [Next]_vars
  PROVE  \/ UNCHANGED <<durable, acked>>
         \/ \E w \in Writers : /\ durable' = durable \cup batch[w]
                               /\ acked' = acked \cup batch[w]
<1> DEFINE Quiet == UNCHANGED <<durable, acked>>
<1>0. TypeOK /\ Exclusion /\ WritesIsolated /\ OwnerIsInside /\ Bare = {}
      /\ None \notin Writers
  BY TxnAssumption DEF TxnAssumption, IInv, SeparateTasks
<1>1. ASSUME NEW w \in Writers,
             Request(w) \/ Nest(w) \/ EndNested(w) \/ AcquireBeginFails(w)
               \/ CancelWaiting(w)
      PROVE  Quiet
  BY <1>1 DEF Request, Nest, EndNested, AcquireBeginFails, CancelWaiting, engine, client
<1>2. ASSUME NEW w \in Writers, Acquire(w) \/ Join(w) PROVE Quiet
  BY <1>2 DEF Acquire, Join, engine, client
<1>3. ASSUME NEW w \in Writers, Write(w) PROVE Quiet
  <2>1. pc[w] = "open"
    BY <1>3 DEF Write, IInv
  <2>2. sqlTxn # None
    BY <1>0, <2>1 DEF Exclusion
  <2> QED
    BY <1>3, <2>2 DEF Write, Execute
<1>4. ASSUME NEW w \in Writers, CommitOk(w)
      PROVE  durable' = durable \cup batch[w] /\ acked' = acked \cup batch[w]
  BY <1>0, <1>4 DEF CommitOk, WritesIsolated, AcknowledgeBatch
<1>5. ASSUME NEW w \in Writers, CommitFails(w) \/ Rollback(w) PROVE Quiet
  BY <1>5 DEF CommitFails, Rollback, AbortBatch, engine, EngineRollback
<1>6. ASSUME NEW w \in Writers, DropGuard(w) \/ DropGuardNoRuntime(w) PROVE Quiet
  BY <1>6 DEF DropGuard, DropGuardNoRuntime, AbortBatch, engine
<1>7. ASSUME NEW w \in Writers, JoinedCommit(w) \/ JoinedRollback(w) PROVE FALSE
  BY <1>7 DEF JoinedCommit, JoinedRollback, IInv
<1>8. CASE DeferredRollback
  BY <1>8 DEF DeferredRollback, EngineRollback, client
<1>9. CASE Crash
  BY <1>9 DEF Crash, EngineRollback
<1>10. CASE UNCHANGED vars
  BY <1>10 DEF vars
<1>11. ~ \E b \in Bare : BareWrite(b)
  BY <1>0
<1> QED
  BY <1>1, <1>2, <1>3, <1>4, <1>5, <1>6, <1>7, <1>8, <1>9, <1>10, <1>11 DEF Next

\* A transaction becomes durable as a whole, when its own caller is told so.
THEOREM Atomicity == ASSUME SeparateTasks PROVE Spec => AllOrNothing
<1>1. IInv /\ [Next]_vars =>
        [durable' # durable =>
           \E w \in Writers : durable' = durable \cup batch[w] /\ acked' = acked \cup batch[w]]_vars
  BY OnlyCommits
<1> QED
  BY <1>1, Invariance, PTL DEF Spec, AllOrNothing

\* The lock, the shared connection and the guards implement SerialStore.
THEOREM Refinement == ASSUME SeparateTasks PROVE Spec => Implements
<1>1. Init => Serial!Init
  BY DEF Init, Serial!Init
<1>2. IInv /\ [Next]_vars => [Serial!Next]_<<durable, acked>>
  <2> SUFFICES ASSUME IInv, [Next]_vars, ~ UNCHANGED <<durable, acked>>
               PROVE  Serial!Next
    OBVIOUS
  <2>1. PICK w \in Writers : durable' = durable \cup batch[w] /\ acked' = acked \cup batch[w]
    BY OnlyCommits
  <2>2. batch[w] \subseteq Serial!StmtsOf(w)
    BY DEF IInv, TypeOK, Numbered, Stmts, Serial!StmtsOf
  <2>3. batch[w] \cap durable = {}
    BY DEF IInv, UnderWay
  <2>4. Serial!Commit(w)
    BY <2>1, <2>2, <2>3 DEF Serial!Commit
  <2> QED
    BY <2>4 DEF Serial!Next
<1> QED
  BY <1>1, <1>2, Invariance, PTL DEF Spec, Implements, Serial!Spec
=============================================================================
