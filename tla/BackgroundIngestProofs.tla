----------------------- MODULE BackgroundIngestProofs -----------------------
(***************************************************************************)
(* The types of the background ingestor, the bound on its depth counter,   *)
(* its closing drain and what its batches are told, for every set of       *)
(* requests and batches and every capacity.                                *)
(***************************************************************************)
EXTENDS BackgroundIngest, FiniteSetTheorems, TLAPS

USE DEF Progress, Go, worker, sink

-----------------------------------------------------------------------------
\* Typing

\* What a further request makes of its batch is a BatchProgress, and the entry is
\* under a batch id (enqueue_req, under the tracker's mutex).
LEMMA RegisteredType ==
  ASSUME TrackerTypes, NEW b \in Batches, tracker' = Registered(b), UNCHANGED sink
  PROVE  TrackerTypes'
<1>1. ASSUME NEW x \in DOMAIN tracker \cup {b}
      PROVE  x \in Batches /\ Registered(b)[x] \in BatchProgress
  <2>1. \A y \in DOMAIN tracker : y \in Batches /\ tracker[y] \in BatchProgress
    BY DEF TrackerTypes
  <2>2. CASE x \in DOMAIN tracker
    BY <2>1, <2>2 DEF Registered, BatchProgress
  <2>3. CASE x \notin DOMAIN tracker
    BY <2>3, x \in {b} DEF Registered, BatchProgress
  <2> QED BY <2>2, <2>3
<1>2. DOMAIN tracker' = DOMAIN tracker \cup {b}
  BY DEF Registered
<1> QED BY <1>1, <1>2 DEF TrackerTypes

\* Reporting a batch, or putting its counter back, keeps the tracker and the
\* sink's history well typed.
LEMMA SettleType ==
  ASSUME TrackerTypes, NEW b \in DOMAIN tracker, NEW p \in BatchProgress, Settle(b, p)
  PROVE  TrackerTypes'
<1>1. b \in Batches
  BY DEF TrackerTypes
<1>2. CASE IsTerminal(p)
  <2>1. Done(p) \in Nat
    BY DEF Done, BatchProgress
  <2>2. /\ tracker' = Restrict(tracker, DOMAIN tracker \ {b})
        /\ fired' = [fired EXCEPT ![b] = @ + 1]
        /\ reported' = [reported EXCEPT ![b] = @ + Done(p)]
    BY <1>2 DEF Settle
  <2>3. fired' \in [Batches -> Nat] /\ reported' \in [Batches -> Nat]
    BY <1>1, <2>1, <2>2 DEF TrackerTypes
  <2> QED BY <2>2, <2>3 DEF TrackerTypes, Restrict
<1>3. CASE ~IsTerminal(p)
  BY <1>3 DEF Settle, TrackerTypes
<1> QED BY <1>2, <1>3

\* One more outcome counted for a request's batch.
LEMMA CountOutcomeType ==
  ASSUME TrackerTypes, NEW r \in Requests, NEW ok \in BOOLEAN, CountOutcome(r, ok)
  PROVE  TrackerTypes'
<1> DEFINE b == BatchOf[r]
<1>1. CASE b \notin DOMAIN tracker
  BY <1>1 DEF CountOutcome, TrackerTypes
<1>2. CASE b \in DOMAIN tracker
  <2>1. tracker[b] \in BatchProgress
    BY <1>2 DEF TrackerTypes
  <2>2. /\ [tracker[b] EXCEPT !.succeeded = @ + 1] \in BatchProgress
        /\ [tracker[b] EXCEPT !.failed = @ + 1] \in BatchProgress
    BY <2>1 DEF BatchProgress
  <2>3. Settle(b, IF ok THEN [tracker[b] EXCEPT !.succeeded = @ + 1]
                        ELSE [tracker[b] EXCEPT !.failed = @ + 1])
    BY <1>2 DEF CountOutcome
  <2> QED BY <1>2, <2>2, <2>3, SettleType
<1> QED BY <1>1, <1>2

\* The interrupted report for every batch that is still open.
LEMMA InterruptType ==
  ASSUME TrackerTypes, InterruptBatches
  PROVE  TrackerTypes'
<1> DEFINE open == {b \in DOMAIN tracker : ~IsTerminal(tracker[b])}
<1>1. \A b \in open : b \in DOMAIN tracker /\ Done(tracker[b]) \in Nat
  BY DEF TrackerTypes, Done, BatchProgress
<1>2. /\ tracker' = Restrict(tracker, DOMAIN tracker \ open)
      /\ fired' = [b \in Batches |-> IF b \in open THEN fired[b] + 1 ELSE fired[b]]
      /\ reported' = [b \in Batches |->
                        IF b \in open THEN reported[b] + Done(tracker[b]) ELSE reported[b]]
  BY DEF InterruptBatches
<1> HIDE DEF open
<1>3. fired' \in [Batches -> Nat] /\ reported' \in [Batches -> Nat]
  BY <1>1, <1>2 DEF TrackerTypes
<1> QED BY <1>2, <1>3 DEF TrackerTypes, Restrict

-----------------------------------------------------------------------------
\* Every action keeps where the requests and the worker are well typed.
LEMMA PipelineStep == PipelineTypes /\ [Next]_vars => PipelineTypes'
<1> SUFFICES ASSUME PipelineTypes, [Next]_vars PROVE PipelineTypes'
  OBVIOUS
<1> USE DEF PipelineTypes
<1>1. ASSUME NEW r \in Requests, Register(r) \/ Count(r) \/ Refuse(r) \/ Accept(r)
      PROVE  PipelineTypes'
  <2>1. CASE Register(r)
    BY <2>1 DEF Register
  <2>2. CASE Count(r)
    BY <2>2 DEF Count
  <2>3. CASE Refuse(r)
    BY <2>3 DEF Refuse
  <2>4. CASE Accept(r)
    BY <2>4 DEF Accept
  <2> QED BY <1>1, <2>1, <2>2, <2>3, <2>4
<1>17. ASSUME NEW r \in Requests, SendAgain(r) PROVE PipelineTypes'
  BY <1>17 DEF SendAgain
<1>2. CASE DropHandles
  BY <1>2 DEF DropHandles
<1>3. CASE DropGuard
  BY <1>3 DEF DropGuard
<1>4. CASE CheckStop
  BY <1>4 DEF CheckStop
<1>5. CASE Take
  <2>1. Head(chan) \in Requests /\ Tail(chan) \in Seq(Requests)
    BY <1>5 DEF Take
  <2> QED BY <1>5, <2>1 DEF Take
<1>6. CASE Subtract
  BY <1>6 DEF Subtract
<1>7. CASE Phase1Ok
  <2>1. cur \in Requests /\ at = "phase1" /\ cur' = Nothing /\ Go(mode, "top")
    BY <1>7 DEF Phase1Ok
  <2>2. deferred' \in Seq(Requests)
    BY <1>7, <2>1 DEF Phase1Ok
  <2>3. outcome' \in [Requests -> {"pending", "episode_only", "phase1_failed", "succeeded",
                                   "failed"}]
    BY <1>7, <2>1 DEF Phase1Ok
  <2>4. UNCHANGED <<sender, handles, stop, chan, queued>>
    BY <1>7 DEF Phase1Ok
  <2> QED
    BY <2>1, <2>2, <2>3, <2>4 DEF Go
<1>8. CASE Phase1Fails
  BY <1>8, SMTT(30) DEF Phase1Fails
<1>9. CASE Idle
  BY <1>9 DEF Idle
<1>10. CASE TakeDeferred
  <2>1. Head(deferred) \in Requests /\ Tail(deferred) \in Seq(Requests)
    BY <1>10 DEF TakeDeferred
  <2> QED BY <1>10, <2>1 DEF TakeDeferred
<1>11. CASE Disconnected
  BY <1>11 DEF Disconnected
<1>12. ASSUME NEW ok \in BOOLEAN, Phase2(ok) PROVE PipelineTypes'
  BY <1>12 DEF Phase2
<1>13. CASE Interrupt
  BY <1>13 DEF Interrupt
<1>14. CASE Closed
  BY <1>14 DEF Closed
<1>15. CASE Exit
  BY <1>15 DEF Exit
<1>16. CASE UNCHANGED vars
  BY <1>16 DEF vars
<1> QED
  BY <1>1, <1>2, <1>3, <1>4, <1>5, <1>6, <1>7, <1>8, <1>9, <1>10, <1>11, <1>12, <1>13,
     <1>14, <1>15, <1>16, <1>17 DEF Next, Worker

\* Three actions touch the tracker; the others leave it and the sink alone.
LEMMA TrackerStep == TypeOK /\ [Next]_vars => TrackerTypes'
<1> SUFFICES ASSUME PipelineTypes, TrackerTypes, [Next]_vars PROVE TrackerTypes'
  BY DEF TypeOK
<1>1. ASSUME UNCHANGED <<tracker, fired, reported>> PROVE TrackerTypes'
  BY <1>1 DEF TrackerTypes
<1>2. ASSUME NEW r \in Requests, Register(r) PROVE TrackerTypes'
  <2>1. CASE BatchOf[r] = NoBatch
    BY <1>1, <1>2, <2>1 DEF Register
  <2>2. CASE BatchOf[r] # NoBatch
    <3>1. BatchOf[r] \in Batches
      BY <2>2, IngestAssumption
    <3>2. tracker' = Registered(BatchOf[r]) /\ UNCHANGED sink
      BY <1>2, <2>2 DEF Register
    <3> QED BY <3>1, <3>2, RegisteredType
  <2> QED BY <2>1, <2>2
<1>3. ASSUME NEW ok \in BOOLEAN, Phase2(ok) PROVE TrackerTypes'
  <2>1. cur \in Requests /\ CountOutcome(cur, ok)
    BY <1>3 DEF Phase2, PipelineTypes
  <2> QED BY <2>1, CountOutcomeType
<1>4. CASE Interrupt
  BY <1>4, InterruptType DEF Interrupt
<1>5. ASSUME NEW r \in Requests, Count(r) \/ Refuse(r) \/ Accept(r) \/ SendAgain(r)
      PROVE  TrackerTypes'
  BY <1>1, <1>5 DEF Count, Refuse, Accept, SendAgain
<1>6. CASE DropHandles \/ DropGuard \/ UNCHANGED vars
  BY <1>1, <1>6 DEF DropHandles, DropGuard, vars
<1>7. CASE CheckStop \/ Take \/ Subtract \/ Idle \/ TakeDeferred \/ Disconnected
  BY <1>1, <1>7 DEF CheckStop, Take, Subtract, Idle, TakeDeferred, Disconnected
<1>8. CASE Phase1Ok \/ Phase1Fails \/ Closed \/ Exit
  BY <1>1, <1>8 DEF Phase1Ok, Phase1Fails, Closed, Exit
<1> QED BY <1>2, <1>3, <1>4, <1>5, <1>6, <1>7, <1>8 DEF Next, Worker

LEMMA TypeInit == Init => TypeOK
<1> SUFFICES ASSUME Init PROVE TypeOK
  OBVIOUS
<1>1. chan \in Seq(Requests) /\ deferred \in Seq(Requests)
  BY DEF Init
<1>2. PipelineTypes
  <2>1. /\ sender \in [Requests -> {"new", "registered", "counted", "accepted", "refused"}]
        /\ outcome \in [Requests -> {"pending", "episode_only", "phase1_failed", "succeeded",
                                     "failed"}]
    BY DEF Init
  <2>2. handles = TRUE /\ stop = FALSE /\ queued = 0
    BY DEF Init
  <2>3. mode = "serve" /\ at = "top" /\ cur = Nothing
    BY DEF Init
  <2>4. handles \in BOOLEAN /\ stop \in BOOLEAN
    BY <2>2, Zenon
  <2>5. queued \in Int
    BY <2>2
  <2>6. /\ mode \in {"serve", "stopping", "closing"}
        /\ at \in {"top", "recv", "took", "phase1", "phase2", "leaving", "exited"}
        /\ ~ at \in {"took", "phase1", "phase2"}
    BY <2>3
  <2>7. cur \in Requests \cup {Nothing}
    BY <2>3
  <2> QED BY <1>1, <2>1, <2>4, <2>5, <2>6, <2>7, Zenon DEF PipelineTypes
<1>3. DOMAIN tracker = {}
  BY DEF Init
<1>4. TrackerTypes
  BY <1>3 DEF Init, TrackerTypes
<1> QED BY <1>2, <1>4 DEF TypeOK

\* Every state of the ingestor is well typed: the tracker is only ever keyed by
\* batches and holds BatchProgress records, and a worker inside a phase has a
\* request (worker_loop, enqueue_req).
THEOREM TypeCorrect == Spec => []TypeOK
<1>1. TypeOK /\ [Next]_vars => TypeOK'
  BY PipelineStep, TrackerStep DEF TypeOK
<1> QED BY <1>1, TypeInit, PTL DEF Spec

-----------------------------------------------------------------------------
\* The depth counter

\* Only the senders between their increment and their try_send are counted, so
\* the sum is a number.
LEMMA CountedFinite == IsFiniteSet(Counted) /\ Cardinality(Counted) \in Nat
BY IngestAssumption, FS_Subset, FS_CardinalityType DEF Counted

\* A sender that counts itself in, and one that leaves enqueue_req.
LEMMA CountedGrows ==
  ASSUME PipelineTypes, NEW r \in Requests, sender[r] # "counted",
         sender' = [sender EXCEPT ![r] = "counted"]
  PROVE  Cardinality(Counted)' = Cardinality(Counted) + 1
<1>1. Counted' = Counted \cup {r} /\ r \notin Counted
  BY DEF Counted, PipelineTypes
<1> QED BY <1>1, CountedFinite, FS_AddElement

LEMMA CountedShrinks ==
  ASSUME PipelineTypes, NEW r \in Requests, sender[r] = "counted",
         NEW v \in {"accepted", "refused"}, sender' = [sender EXCEPT ![r] = v]
  PROVE  Cardinality(Counted)' = Cardinality(Counted) - 1
<1>1. Counted' = Counted \ {r} /\ r \in Counted
  BY DEF Counted, PipelineTypes
<1> QED BY <1>1, CountedFinite, FS_RemoveElement

Took == IF at = "took" THEN 1 ELSE 0

\* A step that moves neither a sender nor a request keeps the bound.
LEMMA DepthSame ==
  ASSUME PipelineTypes, DepthAccounted, UNCHANGED <<queued, chan>>, Counted' = Counted,
         at # "took", at' # "took"
  PROVE  DepthAccounted'
BY DEF DepthAccounted

LEMMA DepthStep == PipelineTypes /\ DepthAccounted /\ [Next]_vars => DepthAccounted'
<1> SUFFICES ASSUME PipelineTypes, DepthAccounted, [Next]_vars PROVE DepthAccounted'
  OBVIOUS
<1>0. /\ queued \in Int /\ chan \in Seq(Requests) /\ Len(chan) \in Nat
      /\ Cardinality(Counted) \in Nat /\ Took \in {0, 1}
      /\ queued >= Len(chan) + Took + Cardinality(Counted)
  BY CountedFinite DEF PipelineTypes, DepthAccounted, Took
<1>1. ASSUME NEW r \in Requests, Register(r) PROVE DepthAccounted'
  <2>1. Counted' = Counted /\ UNCHANGED <<queued, chan, at>>
    BY <1>1 DEF Register, Counted, PipelineTypes
  <2> QED BY <2>1 DEF DepthAccounted
<1>2. ASSUME NEW r \in Requests, Count(r) PROVE DepthAccounted'
  <2>1. Cardinality(Counted)' = Cardinality(Counted) + 1
    BY <1>2, CountedGrows DEF Count
  <2>2. queued' = queued + 1 /\ UNCHANGED <<chan, at>>
    BY <1>2 DEF Count
  <2> QED BY <1>0, <2>1, <2>2 DEF DepthAccounted, Took
<1>3. ASSUME NEW r \in Requests, Refuse(r) PROVE DepthAccounted'
  <2>1. Cardinality(Counted)' = Cardinality(Counted) - 1
    BY <1>3, CountedShrinks DEF Refuse
  <2>2. queued' = queued - 1 /\ UNCHANGED <<chan, at>>
    BY <1>3 DEF Refuse
  <2> QED BY <1>0, <2>1, <2>2 DEF DepthAccounted, Took
<1>4. ASSUME NEW r \in Requests, Accept(r) PROVE DepthAccounted'
  <2>1. Cardinality(Counted)' = Cardinality(Counted) - 1
    BY <1>4, CountedShrinks DEF Accept
  <2>2. Len(chan') = Len(chan) + 1
    BY <1>0, <1>4 DEF Accept
  <2>3. UNCHANGED <<queued, at>>
    BY <1>4 DEF Accept
  <2> QED BY <1>0, <2>1, <2>2, <2>3 DEF DepthAccounted, Took
<1>10. ASSUME NEW r \in Requests, SendAgain(r) PROVE DepthAccounted'
  <2>1. Counted' = Counted /\ UNCHANGED <<queued, chan, at>>
    BY <1>10 DEF SendAgain, Counted, PipelineTypes
  <2> QED BY <2>1 DEF DepthAccounted
<1>5. CASE Take
  <2>1. Len(chan') = Len(chan) - 1
    BY <1>0, <1>5 DEF Take
  <2>2. at # "took" /\ at' = "took" /\ UNCHANGED <<queued, sender>>
    BY <1>5 DEF Take
  <2>3. Counted' = Counted
    BY <2>2 DEF Counted
  <2> QED BY <1>0, <2>1, <2>2, <2>3 DEF DepthAccounted, Took
<1>6. CASE Subtract
  <2>1. at = "took" /\ at' = "phase1" /\ queued' = queued - 1 /\ UNCHANGED <<chan, sender>>
    BY <1>6 DEF Subtract
  <2>2. Counted' = Counted
    BY <2>1 DEF Counted
  <2> QED BY <1>0, <2>1, <2>2 DEF DepthAccounted, Took
<1>7. CASE Exit
  <2>1. at = "leaving" /\ at' = "exited" /\ chan' = <<>> /\ UNCHANGED <<queued, sender>>
    BY <1>7 DEF Exit
  <2>2. Counted' = Counted /\ Len(chan') = 0
    BY <2>1 DEF Counted
  <2> QED BY <1>0, <2>1, <2>2 DEF DepthAccounted, Took
<1>8. CASE DropHandles \/ DropGuard \/ UNCHANGED vars
  <2>1. UNCHANGED <<queued, chan, at, sender>>
    BY <1>8 DEF DropHandles, DropGuard, vars
  <2> QED BY <2>1 DEF DepthAccounted, Counted
<1>9. CASE CheckStop \/ Phase1Ok \/ Phase1Fails \/ Idle \/ TakeDeferred \/ Disconnected
             \/ (\E ok \in BOOLEAN : Phase2(ok)) \/ Interrupt \/ Closed
  <2>1. UNCHANGED <<queued, chan, sender>> /\ at # "took" /\ at' # "took"
    BY <1>9 DEF CheckStop, Phase1Ok, Phase1Fails, Idle, TakeDeferred, Disconnected, Phase2,
                Interrupt, Closed
  <2>2. Counted' = Counted
    BY <2>1 DEF Counted
  <2> QED BY <2>1, <2>2, DepthSame
<1> QED
  BY <1>1, <1>2, <1>3, <1>4, <1>5, <1>6, <1>7, <1>8, <1>9, <1>10 DEF Next, Worker

\* The worker's fetch_sub never meets a zero counter, however many senders race
\* with it and whichever way the ingestor is shut down: "the worker thread can
\* never decrement below zero" (enqueue_req).
THEOREM DepthSound == Spec => []DepthNeverWraps
<1>1. Init => DepthAccounted
  <2> SUFFICES ASSUME Init PROVE DepthAccounted
    OBVIOUS
  <2>1. Counted = {}
    BY DEF Init, Counted
  <2>2. queued = 0 /\ Len(chan) = 0 /\ at = "top"
    BY DEF Init
  <2> QED BY <2>1, <2>2, FS_EmptySet DEF DepthAccounted
<1>2. Init => PipelineTypes
  BY TypeInit DEF TypeOK
<1>3. PipelineTypes /\ DepthAccounted => DepthNeverWraps
  <2> SUFFICES ASSUME PipelineTypes, DepthAccounted PROVE DepthNeverWraps
    OBVIOUS
  <2>1. queued \in Int /\ Len(chan) \in Nat /\ Cardinality(Counted) \in Nat
    BY CountedFinite DEF PipelineTypes
  <2> QED BY <2>1 DEF DepthAccounted, DepthNeverWraps
<1> QED BY <1>1, <1>2, <1>3, PipelineStep, DepthStep, PTL DEF Spec
-----------------------------------------------------------------------------
\* Where a request is, and what its batch waits for

In(s, r)    == \E i \in DOMAIN s : s[i] = r
Distinct(s) == \A i, j \in DOMAIN s : s[i] = s[j] => i = j

\* A request under way is in one place: on the channel, deferred, or with the worker.
Place(r) ==
  /\ In(chan, r) => ~In(deferred, r) /\ cur # r
  /\ In(deferred, r) => cur # r
  /\ In(chan, r) \/ In(deferred, r) \/ cur = r => sender[r] = "accepted" /\ outcome[r] = "pending"
  /\ sender[r] # "accepted" => outcome[r] = "pending"
  /\ sender[r] = "accepted" /\ outcome[r] = "pending" /\ at \notin {"leaving", "exited"}
       => In(chan, r) \/ In(deferred, r) \/ cur = r

Lines ==
  /\ Distinct(chan) /\ Distinct(deferred)
  /\ cur = Nothing <=> at \notin {"took", "phase1", "phase2"}

\* The ways out: the stop flag, or the last handle and everything accepted done.
AllServed == \A r \in Requests : sender[r] = "accepted" => outcome[r] # "pending"

WaysOut ==
  /\ mode = "stopping" => stop
  /\ ~handles => \A r \in Requests : sender[r] \in {"new", "accepted", "refused"}
  /\ mode = "closing" => ~handles /\ chan = <<>>
  /\ at \in {"leaving", "exited"} /\ ~stop => ~handles /\ AllServed

Located == Lines /\ (\A r \in Requests : Place(r)) /\ WaysOut

\* What enqueueing and taking do to what is in a queue.
LEMMA AppendIn ==
  ASSUME NEW s \in Seq(Requests), NEW x \in Requests
  PROVE  /\ \A y : In(Append(s, x), y) <=> In(s, y) \/ y = x
         /\ Distinct(s) /\ ~In(s, x) => Distinct(Append(s, x))
<1>1. /\ DOMAIN s = 1..Len(s) /\ Len(s) \in Nat
      /\ DOMAIN Append(s, x) = 1..(Len(s) + 1)
      /\ \A i \in 1..Len(s) : Append(s, x)[i] = s[i]
      /\ Append(s, x)[Len(s) + 1] = x
  OBVIOUS
<1>2. \A i \in 1..(Len(s) + 1) : i \in 1..Len(s) \/ i = Len(s) + 1
  BY <1>1
<1>3. 1..Len(s) \subseteq 1..(Len(s) + 1) /\ Len(s) + 1 \in 1..(Len(s) + 1)
  BY <1>1
<1>4. ASSUME NEW y PROVE In(Append(s, x), y) <=> In(s, y) \/ y = x
  <2>1. ASSUME In(Append(s, x), y) PROVE In(s, y) \/ y = x
    <3>1. PICK i \in 1..(Len(s) + 1) : Append(s, x)[i] = y
      BY <1>1, <2>1 DEF In
    <3> QED BY <1>1, <1>2, <3>1 DEF In
  <2>2. ASSUME In(s, y) PROVE In(Append(s, x), y)
    BY <1>1, <1>3, <2>2 DEF In
  <2>3. In(Append(s, x), x)
    BY <1>1, <1>3 DEF In
  <2> QED BY <2>1, <2>2, <2>3
<1>5. ASSUME Distinct(s), ~In(s, x) PROVE Distinct(Append(s, x))
  <2>1. \A i \in 1..Len(s) : s[i] # x
    BY <1>1, <1>5 DEF In
  <2>2. \A i, j \in 1..Len(s) : s[i] = s[j] => i = j
    BY <1>1, <1>5 DEF Distinct
  <2>3. \A i, j \in 1..(Len(s) + 1) : Append(s, x)[i] = Append(s, x)[j] => i = j
    BY <1>1, <1>2, <2>1, <2>2
  <2> QED BY <1>1, <2>3 DEF Distinct
<1> QED BY <1>4, <1>5

LEMMA TailIn ==
  ASSUME NEW s \in Seq(Requests), s # <<>>, Distinct(s)
  PROVE  /\ In(s, Head(s)) /\ Distinct(Tail(s))
         /\ \A y : In(Tail(s), y) <=> In(s, y) /\ y # Head(s)
<1>1. /\ DOMAIN s = 1..Len(s) /\ Len(s) \in Nat \ {0}
      /\ Head(s) = s[1] /\ DOMAIN Tail(s) = 1..(Len(s) - 1)
      /\ \A i \in 1..(Len(s) - 1) : Tail(s)[i] = s[i + 1]
  OBVIOUS
<1>2. \A i, j \in 1..Len(s) : s[i] = s[j] => i = j
  BY <1>1 DEF Distinct
<1>3. In(s, Head(s))
  <2>1. 1 \in 1..Len(s)
    BY <1>1
  <2> QED BY <1>1, <2>1 DEF In
<1>4. \A i \in 1..(Len(s) - 1) : i + 1 \in 1..Len(s) /\ i + 1 # 1
  BY <1>1
<1>5. Distinct(Tail(s))
  <2>1. \A i, j \in 1..(Len(s) - 1) : Tail(s)[i] = Tail(s)[j] => i = j
    BY <1>1, <1>2, <1>4
  <2> QED BY <1>1, <2>1 DEF Distinct
<1>6. ASSUME NEW y PROVE In(Tail(s), y) <=> In(s, y) /\ y # Head(s)
  <2>1. ASSUME In(Tail(s), y) PROVE In(s, y) /\ y # Head(s)
    <3>1. PICK i \in 1..(Len(s) - 1) : Tail(s)[i] = y
      BY <1>1, <2>1 DEF In
    <3>2. s[i + 1] = y /\ i + 1 \in 1..Len(s) /\ i + 1 # 1 /\ 1 \in 1..Len(s)
      BY <1>1, <1>4, <3>1
    <3>3. s[i + 1] # s[1]
      BY <1>2, <3>2
    <3> QED BY <1>1, <3>2, <3>3 DEF In
  <2>2. ASSUME In(s, y), y # Head(s) PROVE In(Tail(s), y)
    <3>1. PICK i \in 1..Len(s) : s[i] = y
      BY <1>1, <2>2 DEF In
    <3>2. i # 1
      BY <1>1, <2>2, <3>1
    <3>3. i - 1 \in 1..(Len(s) - 1) /\ (i - 1) + 1 = i
      BY <1>1, <3>2
    <3>4. Tail(s)[i - 1] = y
      BY <1>1, <3>1, <3>3
    <3> QED BY <1>1, <3>3, <3>4 DEF In
  <2> QED BY <2>1, <2>2
<1> QED BY <1>3, <1>5, <1>6

\* A step that moves no request.
LEMMA NothingMoves ==
  ASSUME Lines, \A r \in Requests : Place(r), UNCHANGED <<chan, deferred, cur, sender, outcome>>,
         at \in {"leaving", "exited"} => at' \in {"leaving", "exited"},
         at \notin {"took", "phase1", "phase2"} <=> at' \notin {"took", "phase1", "phase2"}
  PROVE  Lines' /\ \A r \in Requests : Place(r)'
<1>1. Lines'
  BY DEF Lines
<1>2. ASSUME NEW r \in Requests PROVE Place(r)'
  <2>1. Place(r)
    OBVIOUS
  <2>2. UNCHANGED <<In(chan, r), In(deferred, r)>>
    OBVIOUS
  <2> QED BY <2>1, <2>2 DEF Place
<1> QED BY <1>1, <1>2

LEMMA PlaceStep ==
  PipelineTypes /\ Lines /\ (\A r \in Requests : Place(r)) /\ [Next]_vars
    => Lines' /\ \A r \in Requests : Place(r)'
<1> SUFFICES ASSUME PipelineTypes, Lines, \A r \in Requests : Place(r), [Next]_vars
             PROVE  Lines' /\ \A r \in Requests : Place(r)'
  OBVIOUS
<1>0. /\ chan \in Seq(Requests) /\ deferred \in Seq(Requests)
      /\ Distinct(chan) /\ Distinct(deferred)
      /\ Nothing \notin Requests
      /\ cur = Nothing <=> at \notin {"took", "phase1", "phase2"}
      /\ cur \in Requests \cup {Nothing}
  BY IngestAssumption DEF PipelineTypes, Lines
<1>1. ASSUME NEW q \in Requests, Register(q) \/ Count(q) \/ Refuse(q)
      PROVE  Lines' /\ \A r \in Requests : Place(r)'
  <2>1. /\ UNCHANGED <<chan, deferred, cur, at, outcome>>
        /\ sender[q] # "accepted" /\ sender'[q] # "accepted"
        /\ \A r \in Requests \ {q} : sender'[r] = sender[r]
    BY <1>1 DEF Register, Count, Refuse, PipelineTypes
  <2>2. Lines'
    BY <2>1 DEF Lines
  <2>3. ASSUME NEW r \in Requests PROVE Place(r)'
    <3>1. Place(r) /\ UNCHANGED <<In(chan, r), In(deferred, r), cur, at>>
          /\ outcome'[r] = outcome[r]
      BY <2>1
    <3>2. (sender'[r] = "accepted") <=> (sender[r] = "accepted")
      BY <2>1
    <3> QED BY <3>1, <3>2 DEF Place
  <2> QED BY <2>2, <2>3
<1>2. ASSUME NEW q \in Requests, Accept(q)
      PROVE  Lines' /\ \A r \in Requests : Place(r)'
  <2>1. /\ UNCHANGED <<deferred, cur, at, outcome>> /\ chan' = Append(chan, q)
        /\ sender[q] = "counted" /\ sender'[q] = "accepted"
        /\ \A r \in Requests \ {q} : sender'[r] = sender[r]
    BY <1>2 DEF Accept, PipelineTypes
  <2>2. ~In(chan, q) /\ ~In(deferred, q) /\ cur # q /\ outcome[q] = "pending"
    BY <2>1 DEF Place
  <2>3. /\ Distinct(chan') /\ \A y : In(chan', y) <=> In(chan, y) \/ y = q
    BY <1>0, <2>1, <2>2, AppendIn
  <2>4. Lines'
    BY <2>1, <2>3 DEF Lines
  <2>5. ASSUME NEW r \in Requests PROVE Place(r)'
    <3>1. Place(r) /\ UNCHANGED <<In(deferred, r), cur, at>>
          /\ outcome'[r] = outcome[r]
      BY <2>1
    <3>2. In(chan', r) <=> In(chan, r) \/ r = q
      BY <2>3
    <3>3. CASE r = q
      BY <2>1, <2>2, <3>1, <3>2, <3>3 DEF Place
    <3>4. CASE r # q
      BY <2>1, <3>1, <3>2, <3>4 DEF Place
    <3> QED BY <3>3, <3>4
  <2> QED BY <2>4, <2>5
<1>13. ASSUME NEW q \in Requests, SendAgain(q)
       PROVE  Lines' /\ \A r \in Requests : Place(r)'
  <2>1. /\ UNCHANGED <<chan, deferred, cur, at>>
        /\ sender'[q] = "new" /\ outcome'[q] = "pending"
        /\ sender[q] # "accepted" \/ outcome[q] # "pending"
        /\ \A r \in Requests \ {q} : sender'[r] = sender[r] /\ outcome'[r] = outcome[r]
    BY <1>13 DEF SendAgain, PipelineTypes
  <2>2. ~In(chan, q) /\ ~In(deferred, q) /\ cur # q
    BY <2>1 DEF Place
  <2>3. Lines'
    BY <2>1 DEF Lines
  <2>4. ASSUME NEW r \in Requests PROVE Place(r)'
    <3>1. Place(r) /\ UNCHANGED <<In(chan, r), In(deferred, r), cur, at>>
      BY <2>1
    <3>2. CASE r = q
      BY <2>1, <2>2, <3>1, <3>2 DEF Place
    <3>3. CASE r # q
      BY <2>1, <3>1, <3>3 DEF Place
    <3> QED BY <3>2, <3>3
  <2> QED BY <2>3, <2>4
<1>3. CASE Take
  <2>1. /\ UNCHANGED <<deferred, sender, outcome>> /\ chan # <<>> /\ chan' = Tail(chan)
        /\ cur' = Head(chan) /\ at \in {"recv", "top"} /\ at' = "took"
    BY <1>3 DEF Take
  <2>2. /\ In(chan, cur') /\ Distinct(chan') /\ cur' \in Requests /\ cur = Nothing
        /\ \A y : In(chan', y) <=> In(chan, y) /\ y # cur'
    BY <1>0, <2>1, TailIn
  <2>3. Lines'
    BY <1>0, <2>1, <2>2 DEF Lines
  <2>4. ASSUME NEW r \in Requests PROVE Place(r)'
    <3>1. Place(r) /\ UNCHANGED <<In(deferred, r), sender, outcome>> /\ cur # r
      BY <1>0, <2>1, <2>2
    <3>2. In(chan', r) <=> In(chan, r) /\ r # cur'
      BY <2>2
    <3> QED BY <2>1, <2>2, <3>1, <3>2 DEF Place
  <2> QED BY <2>3, <2>4
<1>4. CASE TakeDeferred
  <2>1. /\ UNCHANGED <<chan, sender, outcome>> /\ deferred # <<>> /\ deferred' = Tail(deferred)
        /\ cur' = Head(deferred) /\ at \in {"recv", "top"} /\ at' = "phase2"
    BY <1>4 DEF TakeDeferred
  <2>2. /\ In(deferred, cur') /\ Distinct(deferred') /\ cur' \in Requests /\ cur = Nothing
        /\ \A y : In(deferred', y) <=> In(deferred, y) /\ y # cur'
    BY <1>0, <2>1, TailIn
  <2>3. Lines'
    BY <1>0, <2>1, <2>2 DEF Lines
  <2>4. ASSUME NEW r \in Requests PROVE Place(r)'
    <3>1. Place(r) /\ UNCHANGED <<In(chan, r), sender, outcome>> /\ cur # r
      BY <1>0, <2>1, <2>2
    <3>2. In(deferred', r) <=> In(deferred, r) /\ r # cur'
      BY <2>2
    <3> QED BY <2>1, <2>2, <3>1, <3>2 DEF Place
  <2> QED BY <2>3, <2>4
<1>5. CASE Phase1Ok /\ DeferredEnabled
  <2>1. /\ UNCHANGED <<chan, sender, outcome>> /\ deferred' = Append(deferred, cur)
        /\ cur' = Nothing /\ at = "phase1" /\ at' = "top" /\ cur \in Requests
    BY <1>5 DEF Phase1Ok, PipelineTypes
  <2>2. ~In(deferred, cur) /\ ~In(chan, cur)
    BY <2>1 DEF Place
  <2>3. Distinct(deferred') /\ \A y : In(deferred', y) <=> In(deferred, y) \/ y = cur
    BY <1>0, <2>1, <2>2, AppendIn
  <2>4. Lines'
    BY <1>0, <2>1, <2>3 DEF Lines
  <2>5. ASSUME NEW r \in Requests PROVE Place(r)'
    <3>1. Place(r) /\ UNCHANGED <<In(chan, r), sender, outcome>> /\ cur' # r
      BY <1>0, <2>1
    <3>2. In(deferred', r) <=> In(deferred, r) \/ r = cur
      BY <2>3
    <3> QED BY <2>1, <2>2, <3>1, <3>2 DEF Place
  <2> QED BY <2>4, <2>5
<1>6. ASSUME NEW v, v # "pending", cur \in Requests, cur' = Nothing, at' = "top",
             at \in {"phase1", "phase2"},
             outcome' = [outcome EXCEPT ![cur] = v], UNCHANGED <<chan, deferred, sender>>
      PROVE  Lines' /\ \A r \in Requests : Place(r)'
  <2>1. Lines'
    BY <1>0, <1>6 DEF Lines
  <2>2. ~In(deferred, cur) /\ ~In(chan, cur) /\ sender[cur] = "accepted"
    BY <1>6 DEF Place
  <2>3. ASSUME NEW r \in Requests PROVE Place(r)'
    <3>1. Place(r) /\ UNCHANGED <<In(chan, r), In(deferred, r), sender>> /\ cur' # r
      BY <1>0, <1>6
    <3>2. outcome'[r] = IF r = cur THEN v ELSE outcome[r]
      BY <1>6 DEF PipelineTypes
    <3>3. CASE r = cur
      BY <1>6, <2>2, <3>1, <3>2, <3>3 DEF Place
    <3>4. CASE r # cur
      BY <1>6, <3>1, <3>2, <3>4 DEF Place
    <3> QED BY <3>3, <3>4
  <2> QED BY <2>1, <2>3
<1>7. CASE Phase1Ok /\ ~DeferredEnabled
  BY <1>6, <1>7 DEF Phase1Ok, PipelineTypes
<1>8. CASE Phase1Fails
  BY <1>6, <1>8 DEF Phase1Fails, PipelineTypes
<1>9. ASSUME NEW ok \in BOOLEAN, Phase2(ok)
      PROVE  Lines' /\ \A r \in Requests : Place(r)'
  <2>1. (IF ok THEN "succeeded" ELSE "failed") # "pending"
    OBVIOUS
  <2> QED BY <1>6, <1>9, <2>1 DEF Phase2, PipelineTypes
<1>10. CASE Exit
  <2>1. /\ UNCHANGED <<deferred, cur, sender, outcome>> /\ chan' = <<>>
        /\ at = "leaving" /\ at' = "exited"
    BY <1>10 DEF Exit
  <2>2. Distinct(chan') /\ \A y : ~In(chan', y)
    BY <2>1 DEF Distinct, In
  <2>3. Lines'
    BY <1>0, <2>1, <2>2 DEF Lines
  <2>4. ASSUME NEW r \in Requests PROVE Place(r)'
    <3>1. Place(r) /\ UNCHANGED <<In(deferred, r), cur, sender, outcome>> /\ ~In(chan', r)
      BY <2>1, <2>2
    <3> QED BY <2>1, <3>1 DEF Place
  <2> QED BY <2>3, <2>4
<1>11. CASE DropHandles \/ DropGuard \/ UNCHANGED vars
  <2>1. UNCHANGED <<chan, deferred, cur, sender, outcome, at>>
    BY <1>11 DEF DropHandles, DropGuard, vars
  <2> QED BY <2>1, NothingMoves
<1>12. CASE CheckStop \/ Subtract \/ Idle \/ Disconnected \/ Interrupt \/ Closed
  <2>1. /\ UNCHANGED <<chan, deferred, cur, sender, outcome>>
        /\ at \notin {"leaving", "exited"}
        /\ at \notin {"took", "phase1", "phase2"} <=> at' \notin {"took", "phase1", "phase2"}
    BY <1>12 DEF CheckStop, Subtract, Idle, Disconnected, Interrupt, Closed
  <2> QED BY <2>1, NothingMoves
<1> QED
  BY <1>1, <1>2, <1>3, <1>4, <1>5, <1>7, <1>8, <1>9, <1>10, <1>11, <1>12, <1>13
  DEF Next, Worker

\* Nobody is inside enqueue_req once the handles are gone, so the closing drain ends
\* with nothing accepted left.
LEMMA WaysOutStep == PipelineTypes /\ Located /\ [Next]_vars => WaysOut'
<1> SUFFICES ASSUME PipelineTypes, Lines, \A r \in Requests : Place(r), WaysOut, [Next]_vars
             PROVE  WaysOut'
  BY DEF Located
<1>1. ASSUME NEW r \in Requests,
             Register(r) \/ Count(r) \/ Refuse(r) \/ Accept(r) \/ SendAgain(r)
      PROVE  WaysOut'
  <2>1. handles /\ UNCHANGED <<handles, stop, mode, at>>
    BY <1>1 DEF Register, Count, Refuse, Accept, SendAgain, WaysOut
  <2> QED BY <2>1 DEF WaysOut
<1>2. CASE DropHandles \/ DropGuard \/ UNCHANGED vars
  BY <1>2 DEF DropHandles, DropGuard, vars, WaysOut, AllServed
<1>3. CASE CheckStop \/ Take \/ Subtract \/ Idle \/ TakeDeferred
  BY <1>3 DEF CheckStop, Take, Subtract, Idle, TakeDeferred, WaysOut
<1>4. CASE Disconnected \/ Interrupt
  BY <1>4 DEF Disconnected, Interrupt, WaysOut
<1>5. CASE Phase1Ok \/ Phase1Fails \/ \E ok \in BOOLEAN : Phase2(ok)
  BY <1>5 DEF Phase1Ok, Phase1Fails, Phase2, WaysOut
<1>6. CASE Closed
  <2>1. /\ mode = "closing" /\ at = "top" /\ deferred = <<>> /\ chan = <<>> /\ ~handles
        /\ mode' = "closing" /\ at' = "leaving"
        /\ UNCHANGED <<sender, handles, stop, chan, outcome>>
    BY <1>6 DEF Closed, WaysOut
  <2>2. cur = Nothing /\ \A r \in Requests : ~In(chan, r) /\ ~In(deferred, r)
    BY <2>1 DEF Lines, In
  <2>3. AllServed'
    BY <2>1, <2>2, IngestAssumption DEF Place, AllServed
  <2> QED BY <2>1, <2>3 DEF WaysOut
<1>7. CASE Exit
  BY <1>7 DEF Exit, WaysOut, AllServed
<1> QED BY <1>1, <1>2, <1>3, <1>4, <1>5, <1>6, <1>7 DEF Next, Worker

LEMMA LocatedStep == PipelineTypes /\ Located /\ [Next]_vars => Located'
BY PlaceStep, WaysOutStep DEF Located

LEMMA LocatedInit == Init => Located
<1> SUFFICES ASSUME Init PROVE Located
  OBVIOUS
<1>1. /\ chan = <<>> /\ deferred = <<>> /\ cur = Nothing /\ at = "top" /\ mode = "serve"
      /\ handles = TRUE
      /\ \A r \in Requests : sender[r] = "new" /\ outcome[r] = "pending"
  BY DEF Init
<1>2. \A y : ~In(chan, y) /\ ~In(deferred, y)
  BY <1>1 DEF In
<1>3. Lines
  BY <1>1 DEF Lines, Distinct
<1>4. \A r \in Requests : Place(r)
  BY <1>1, <1>2, IngestAssumption DEF Place
<1>5. WaysOut
  BY <1>1 DEF WaysOut
<1> QED BY <1>3, <1>4, <1>5 DEF Located

\* A worker that leaves unasked, because every handle is gone, leaves nothing that was
\* accepted undone (worker_loop's closing drain).
THEOREM ClosingDrainCompletes == Spec => []GracefulExit
<1>1. Init => PipelineTypes /\ Located
  BY TypeInit, LocatedInit DEF TypeOK
<1>2. PipelineTypes /\ Located /\ [Next]_vars => PipelineTypes' /\ Located'
  BY PipelineStep, LocatedStep
<1>3. Located => GracefulExit
  BY DEF Located, WaysOut, AllServed, GracefulExit
<1> QED BY <1>1, <1>2, <1>3, PTL DEF Spec

-----------------------------------------------------------------------------
\* What a batch waits for, and what it has been told

Left(b)  == IF b \in DOMAIN tracker THEN tracker[b].total - Done(tracker[b]) ELSE 0
Held(b)  == IF b \in DOMAIN tracker THEN Done(tracker[b]) ELSE 0
Ended(b) == {r \in RequestsOf(b) : outcome[r] \in {"succeeded", "failed"}}

LEMMA CountsTyped ==
  ASSUME TrackerTypes, NEW b \in Batches
  PROVE  /\ Left(b) \in Int /\ Held(b) \in Nat /\ reported[b] \in Nat
         /\ IsFiniteSet(Outstanding(b)) /\ Cardinality(Outstanding(b)) \in Nat
         /\ IsFiniteSet(Ended(b)) /\ Cardinality(Ended(b)) \in Nat
<1>1. /\ IsFiniteSet(Outstanding(b)) /\ Cardinality(Outstanding(b)) \in Nat
      /\ IsFiniteSet(Ended(b)) /\ Cardinality(Ended(b)) \in Nat
  BY IngestAssumption, FS_Subset, FS_CardinalityType DEF Outstanding, Ended, RequestsOf
<1>2. reported[b] \in Nat
  BY DEF TrackerTypes
<1>3. ASSUME b \in DOMAIN tracker PROVE Left(b) \in Int /\ Held(b) \in Nat
  <2>1. tracker[b].total \in Nat /\ tracker[b].succeeded \in Nat /\ tracker[b].failed \in Nat
    BY <1>3 DEF TrackerTypes, BatchProgress
  <2> QED BY <1>3, <2>1 DEF Left, Held, Done
<1>4. ASSUME b \notin DOMAIN tracker PROVE Left(b) \in Int /\ Held(b) \in Nat
  BY <1>4 DEF Left, Held
<1> QED BY <1>1, <1>2, <1>3, <1>4

\* One request more for its batch, and none for the others.
LEMMA RegisteredCounts ==
  ASSUME TrackerTypes, NEW b \in Batches, NEW c \in Batches, tracker' = Registered(b)
  PROVE  /\ Left(c)' = Left(c) + (IF c = b THEN 1 ELSE 0)
         /\ Held(c)' = Held(c)
<1>1. DOMAIN tracker' = DOMAIN tracker \cup {b}
  BY DEF Registered
<1>2. CASE c # b
  <2>1. c \in DOMAIN tracker => tracker'[c] = tracker[c]
    BY <1>2 DEF Registered
  <2> QED BY <1>1, <1>2, <2>1, CountsTyped DEF Left, Held
<1>3. CASE c = b /\ b \in DOMAIN tracker
  <2>1. /\ tracker[b].total \in Nat /\ tracker[b].succeeded \in Nat /\ tracker[b].failed \in Nat
        /\ tracker[b] \in BatchProgress
    BY <1>3 DEF TrackerTypes, BatchProgress
  <2>2. tracker'[b] = [tracker[b] EXCEPT !.total = @ + 1]
    BY <1>3 DEF Registered
  <2>3. /\ tracker'[b].total = tracker[b].total + 1
        /\ tracker'[b].succeeded = tracker[b].succeeded /\ tracker'[b].failed = tracker[b].failed
    BY <2>1, <2>2 DEF BatchProgress
  <2> QED BY <1>1, <1>3, <2>1, <2>3 DEF Left, Held, Done
<1>4. CASE c = b /\ b \notin DOMAIN tracker
  <2>1. tracker'[b] = Progress(1, 0, 0)
    BY <1>4 DEF Registered
  <2>2. tracker'[b].total = 1 /\ tracker'[b].succeeded = 0 /\ tracker'[b].failed = 0
    BY <2>1
  <2> QED BY <1>1, <1>4, <2>2 DEF Left, Held, Done
<1> QED BY <1>2, <1>3, <1>4

\* Reporting a batch or putting its entry back: its outcomes are in the report or in
\* the entry, and a batch that waits for nothing is forgotten.
LEMMA SettleCounts ==
  ASSUME TrackerTypes, NEW b \in DOMAIN tracker, NEW p \in BatchProgress, Settle(b, p),
         NEW c \in Batches
  PROVE  /\ c # b => Left(c)' = Left(c) /\ Held(c)' = Held(c) /\ reported'[c] = reported[c]
         /\ c = b => /\ Left(c)' >= p.total - Done(p)
                     /\ reported'[c] + Held(c)' = reported[c] + Done(p)
<1>0. b \in Batches /\ p.total \in Nat /\ Done(p) \in Nat /\ reported \in [Batches -> Nat]
  BY DEF TrackerTypes, BatchProgress, Done
<1>1. CASE IsTerminal(p)
  <2>1. /\ tracker' = Restrict(tracker, DOMAIN tracker \ {b})
        /\ reported' = [reported EXCEPT ![b] = @ + Done(p)]
    BY <1>1 DEF Settle
  <2>2. /\ DOMAIN tracker' = DOMAIN tracker \ {b}
        /\ \A x \in DOMAIN tracker \ {b} : tracker'[x] = tracker[x]
    BY <2>1 DEF Restrict
  <2>3. CASE c # b
    BY <1>0, <2>1, <2>2, <2>3 DEF Left, Held
  <2>4. CASE c = b
    <3>1. Left(c)' = 0 /\ Held(c)' = 0
      BY <2>2, <2>4 DEF Left, Held
    <3>2. reported'[c] = reported[c] + Done(p)
      BY <1>0, <2>1, <2>4
    <3>3. reported[c] \in Nat
      BY <1>0
    <3> QED BY <1>0, <1>1, <2>4, <3>1, <3>2, <3>3 DEF IsTerminal
  <2> QED BY <2>3, <2>4
<1>2. CASE ~IsTerminal(p)
  <2>1. tracker' = [tracker EXCEPT ![b] = p] /\ reported' = reported
    BY <1>2 DEF Settle
  <2>2. DOMAIN tracker' = DOMAIN tracker /\ tracker'[b] = p
    BY <2>1
  <2>3. \A x \in DOMAIN tracker \ {b} : tracker'[x] = tracker[x]
    BY <2>1
  <2>4. CASE c # b
    BY <2>1, <2>2, <2>3, <2>4 DEF Left, Held
  <2>5. CASE c = b
    <3>1. Left(c)' = p.total - Done(p) /\ Held(c)' = Done(p)
      BY <2>2, <2>5 DEF Left, Held
    <3>2. reported[c] \in Nat
      BY <1>0
    <3> QED BY <1>0, <2>1, <2>5, <3>1, <3>2
  <2> QED BY <2>4, <2>5
<1> QED BY <1>1, <1>2

\* One more outcome of a request whose batch is known.
LEMMA OutcomeCounts ==
  ASSUME TrackerTypes, NEW r \in Requests, NEW ok \in BOOLEAN, BatchOf[r] \in DOMAIN tracker,
         CountOutcome(r, ok), NEW c \in Batches
  PROVE  LET one == IF c = BatchOf[r] THEN 1 ELSE 0 IN
           /\ Left(c)' >= Left(c) - one
           /\ reported'[c] + Held(c)' = reported[c] + Held(c) + one
<1> DEFINE b == BatchOf[r]
           p == IF ok THEN [tracker[b] EXCEPT !.succeeded = @ + 1]
                      ELSE [tracker[b] EXCEPT !.failed = @ + 1]
<1>1. tracker[b] \in BatchProgress
  BY DEF TrackerTypes
<1>2. p \in BatchProgress /\ p.total = tracker[b].total /\ Done(p) = Done(tracker[b]) + 1
  BY <1>1 DEF BatchProgress, Done
<1>3. Settle(b, p)
  BY DEF CountOutcome
<1>4. tracker[b].total \in Nat /\ Done(tracker[b]) \in Nat
  BY <1>1 DEF BatchProgress, Done
<1>5. Left(c) \in Int /\ Held(c) \in Nat /\ reported[c] \in Nat
  BY CountsTyped
<1> HIDE DEF p
<1>6. /\ c # b => Left(c)' = Left(c) /\ Held(c)' = Held(c) /\ reported'[c] = reported[c]
      /\ c = b => /\ Left(c)' >= p.total - Done(p)
                  /\ reported'[c] + Held(c)' = reported[c] + Done(p)
  BY <1>2, <1>3, SettleCounts
<1>7. CASE c = b
  <2>1. Left(c) = tracker[b].total - Done(tracker[b]) /\ Held(c) = Done(tracker[b])
    BY <1>7 DEF Left, Held
  <2> QED BY <1>2, <1>4, <1>5, <1>6, <1>7, <2>1
<1>8. CASE c # b
  BY <1>5, <1>6, <1>8
<1> QED BY <1>7, <1>8

\* The interrupted report carries what the batch was told.
LEMMA InterruptCounts ==
  ASSUME TrackerTypes, InterruptBatches, NEW c \in Batches
  PROVE  reported'[c] + Held(c)' = reported[c] + Held(c)
<1> DEFINE open == {b \in DOMAIN tracker : ~IsTerminal(tracker[b])}
<1>1. /\ tracker' = Restrict(tracker, DOMAIN tracker \ open)
      /\ reported' = [b \in Batches |->
                        IF b \in open THEN reported[b] + Done(tracker[b]) ELSE reported[b]]
  BY DEF InterruptBatches
<1>2. reported[c] \in Nat /\ Held(c) \in Nat /\ open \subseteq DOMAIN tracker
  BY CountsTyped
<1> HIDE DEF open
<1>3. /\ DOMAIN tracker' = DOMAIN tracker \ open
      /\ \A x \in DOMAIN tracker \ open : tracker'[x] = tracker[x]
  BY <1>1, <1>2 DEF Restrict
<1>4. CASE c \in open
  <2>1. Held(c)' = 0 /\ Held(c) = Done(tracker[c]) /\ reported'[c] = reported[c] + Done(tracker[c])
    BY <1>1, <1>2, <1>3, <1>4 DEF Held
  <2> QED BY <1>2, <2>1
<1>5. CASE c \notin open
  BY <1>1, <1>2, <1>3, <1>5 DEF Held
<1> QED BY <1>4, <1>5

\* Another batch's outcome, or that of a request in no batch.
LEMMA OthersUncounted ==
  ASSUME TrackerTypes, NEW r \in Requests, NEW ok \in BOOLEAN, CountOutcome(r, ok),
         NEW c \in Batches, c # BatchOf[r]
  PROVE  Left(c)' = Left(c) /\ Held(c)' = Held(c) /\ reported'[c] = reported[c]
<1> DEFINE b == BatchOf[r]
           p == IF ok THEN [tracker[b] EXCEPT !.succeeded = @ + 1]
                      ELSE [tracker[b] EXCEPT !.failed = @ + 1]
<1>1. CASE b \notin DOMAIN tracker
  BY <1>1 DEF CountOutcome, Left, Held
<1>2. CASE b \in DOMAIN tracker
  <2>1. tracker[b] \in BatchProgress
    BY <1>2 DEF TrackerTypes
  <2>2. p \in BatchProgress
    BY <2>1 DEF BatchProgress
  <2>3. Settle(b, p)
    BY <1>2 DEF CountOutcome
  <2> HIDE DEF p
  <2> QED BY <1>2, <2>2, <2>3, SettleCounts
<1> QED BY <1>1, <1>2

LEMMA LeftTyped ==
  ASSUME TrackerTypes', NEW b \in Batches
  PROVE  Left(b)' \in Int
<1>1. CASE b \in DOMAIN tracker'
  <2>1. /\ tracker'[b].total \in Nat /\ tracker'[b].succeeded \in Nat
        /\ tracker'[b].failed \in Nat
    BY <1>1 DEF TrackerTypes, BatchProgress
  <2> QED BY <1>1, <2>1 DEF Left, Done
<1>2. CASE b \notin DOMAIN tracker'
  BY <1>2 DEF Left
<1> QED BY <1>1, <1>2

Gone == {"leaving", "exited"}

\* The two invariants, for one batch.
Waits(b)  == at \notin Gone => Cardinality(Outstanding(b)) <= Left(b)
Counts(b) == reported[b] + Held(b) = Cardinality(Ended(b))

Accounts == \A b \in Batches : Waits(b) /\ Counts(b)

\* A step that ends no request in Phase 2 and tells no batch anything: what is still
\* awaited may only get less.
LEMMA BatchesUntouched ==
  ASSUME TrackerTypes, Accounts, UNCHANGED <<tracker, reported>>, at' \notin Gone => at \notin Gone,
         \A r \in Requests : outcome'[r] \in {"succeeded", "failed"}
                               <=> outcome[r] \in {"succeeded", "failed"},
         \A b \in Batches : Outstanding(b)' \subseteq Outstanding(b)
  PROVE  Accounts'
<1> SUFFICES ASSUME NEW b \in Batches PROVE Waits(b)' /\ Counts(b)'
  BY DEF Accounts
<1>1. Waits(b) /\ Counts(b)
  BY DEF Accounts
<1>2. Left(b)' = Left(b) /\ Held(b)' = Held(b) /\ reported'[b] = reported[b]
  BY DEF Left, Held
<1>3. Ended(b)' = Ended(b)
  BY DEF Ended, RequestsOf
<1>4. /\ Left(b) \in Int /\ IsFiniteSet(Outstanding(b))
      /\ Cardinality(Outstanding(b)) \in Nat
  BY CountsTyped
<1>5. /\ Cardinality(Outstanding(b)') <= Cardinality(Outstanding(b))
      /\ Cardinality(Outstanding(b)') \in Nat
  BY <1>4, FS_Subset, FS_CardinalityType
<1>6. Waits(b)'
  BY <1>1, <1>2, <1>4, <1>5 DEF Waits
<1>7. Counts(b)'
  BY <1>1, <1>2, <1>3 DEF Counts
<1> QED BY <1>6, <1>7

LEMMA AccountsStep == TypeOK /\ Located /\ Accounts /\ [Next]_vars => Accounts'
<1> SUFFICES ASSUME PipelineTypes, TrackerTypes, Lines, \A r \in Requests : Place(r), Accounts,
                    [Next]_vars
             PROVE  Accounts'
  BY DEF TypeOK, Located
<1> USE DEF Gone
<1>1. ASSUME NEW q \in Requests, Register(q) PROVE Accounts'
  <2>1. /\ sender[q] = "new" /\ sender'[q] = "registered" /\ outcome[q] = "pending"
        /\ UNCHANGED <<at, outcome, reported>>
        /\ \A r \in Requests \ {q} : sender'[r] = sender[r]
        /\ tracker' = IF BatchOf[q] = NoBatch THEN tracker ELSE Registered(BatchOf[q])
    BY <1>1 DEF Register, PipelineTypes, Place
  <2> SUFFICES ASSUME NEW b \in Batches PROVE Waits(b)' /\ Counts(b)'
    BY DEF Accounts
  <2>2. /\ Waits(b) /\ Counts(b) /\ Left(b) \in Int /\ IsFiniteSet(Outstanding(b))
        /\ Cardinality(Outstanding(b)) \in Nat /\ Ended(b)' = Ended(b)
    BY <2>1, CountsTyped DEF Accounts, Ended, RequestsOf
  <2>3. CASE BatchOf[q] = b
    <3>1. Left(b)' = Left(b) + 1 /\ Held(b)' = Held(b)
      BY <2>1, <2>3, RegisteredCounts, IngestAssumption
    <3>2. Outstanding(b)' = Outstanding(b) \cup {q} /\ q \notin Outstanding(b)
      BY <2>1, <2>3 DEF Outstanding, RequestsOf
    <3>3. Cardinality(Outstanding(b)') = Cardinality(Outstanding(b)) + 1
      BY <2>2, <3>2, FS_AddElement
    <3>4. Waits(b)'
      BY <2>1, <2>2, <3>1, <3>3 DEF Waits
    <3>5. Counts(b)'
      BY <2>1, <2>2, <3>1 DEF Counts
    <3> QED BY <3>4, <3>5
  <2>4. CASE BatchOf[q] # b
    <3>1. Left(b)' = Left(b) /\ Held(b)' = Held(b)
      <4>1. CASE BatchOf[q] = NoBatch
        BY <2>1, <4>1 DEF Left, Held
      <4>2. CASE BatchOf[q] # NoBatch
        <5>1. BatchOf[q] \in Batches /\ tracker' = Registered(BatchOf[q])
          BY <2>1, <4>2, IngestAssumption
        <5> QED BY <2>2, <2>4, <5>1, RegisteredCounts
      <4> QED BY <4>1, <4>2
    <3>2. Outstanding(b)' = Outstanding(b)
      BY <2>1, <2>4 DEF Outstanding, RequestsOf
    <3>3. Waits(b)'
      BY <2>1, <2>2, <3>1, <3>2 DEF Waits
    <3>4. Counts(b)'
      BY <2>1, <2>2, <3>1 DEF Counts
    <3> QED BY <3>3, <3>4
  <2> QED BY <2>3, <2>4
<1>2. ASSUME NEW q \in Requests, Count(q) \/ Refuse(q) \/ Accept(q) PROVE Accounts'
  <2>1. /\ sender[q] \in {"registered", "counted"}
        /\ \A r \in Requests \ {q} : sender'[r] = sender[r]
        /\ UNCHANGED <<tracker, reported, outcome, at>>
    BY <1>2 DEF Count, Refuse, Accept, PipelineTypes
  <2>2. \A b \in Batches : Outstanding(b)' \subseteq Outstanding(b)
    BY <2>1 DEF Outstanding, RequestsOf
  <2> QED BY <2>1, <2>2, BatchesUntouched
<1>7. ASSUME NEW q \in Requests, SendAgain(q) PROVE Accounts'
  <2>1. /\ UNCHANGED <<tracker, reported, at>>
        /\ \A r \in Requests \ {q} : sender'[r] = sender[r] /\ outcome'[r] = outcome[r]
        /\ \A b \in Batches : q \notin RequestsOf(b)
    BY <1>7, IngestAssumption DEF SendAgain, PipelineTypes, RequestsOf
  <2> SUFFICES ASSUME NEW b \in Batches PROVE Waits(b)' /\ Counts(b)'
    BY DEF Accounts
  <2>2. Outstanding(b)' = Outstanding(b) /\ Ended(b)' = Ended(b)
    BY <2>1 DEF Outstanding, Ended, RequestsOf
  <2>3. Left(b)' = Left(b) /\ Held(b)' = Held(b)
    BY <2>1 DEF Left, Held
  <2>4. Waits(b) /\ Counts(b)
    BY DEF Accounts
  <2> QED BY <2>1, <2>2, <2>3, <2>4 DEF Waits, Counts
<1>3. CASE DropHandles \/ DropGuard \/ CheckStop \/ Take \/ Subtract \/ Idle \/ TakeDeferred
           \/ Disconnected \/ Closed \/ Exit \/ UNCHANGED vars
  <2>1. UNCHANGED <<sender, tracker, reported, outcome>> /\ (at' \notin Gone => at \notin Gone)
    BY <1>3 DEF DropHandles, DropGuard, CheckStop, Take, Subtract, Idle, TakeDeferred,
                Disconnected, Closed, Exit, vars
  <2>2. \A b \in Batches : Outstanding(b)' \subseteq Outstanding(b)
    BY <2>1 DEF Outstanding, RequestsOf
  <2> QED BY <2>1, <2>2, BatchesUntouched
<1>4. CASE Phase1Ok \/ Phase1Fails
  <2>1. /\ cur \in Requests /\ outcome[cur] = "pending" /\ at = "phase1"
        /\ UNCHANGED <<sender, tracker, reported>>
        /\ \A r \in Requests \ {cur} : outcome'[r] = outcome[r]
        /\ outcome'[cur] \in {"pending", "episode_only", "phase1_failed"}
    BY <1>4 DEF Phase1Ok, Phase1Fails, PipelineTypes, Place
  <2>2. \A r \in Requests : outcome'[r] \in {"succeeded", "failed"}
                              <=> outcome[r] \in {"succeeded", "failed"}
    BY <2>1
  <2>3. \A b \in Batches : Outstanding(b)' \subseteq Outstanding(b)
    BY <2>1 DEF Outstanding, RequestsOf
  <2> QED BY <2>1, <2>2, <2>3, BatchesUntouched
<1>5. ASSUME NEW ok \in BOOLEAN, Phase2(ok) PROVE Accounts'
  <2>1. /\ cur \in Requests /\ at = "phase2" /\ at' = "top"
        /\ sender[cur] = "accepted" /\ outcome[cur] = "pending"
        /\ UNCHANGED sender /\ outcome'[cur] \in {"succeeded", "failed"}
        /\ \A r \in Requests \ {cur} : outcome'[r] = outcome[r]
        /\ CountOutcome(cur, ok)
    BY <1>5 DEF Phase2, PipelineTypes, Place
  <2> SUFFICES ASSUME NEW c \in Batches PROVE Waits(c)' /\ Counts(c)'
    BY DEF Accounts
  <2>2. /\ Waits(c) /\ Counts(c) /\ Left(c) \in Int /\ Held(c) \in Nat /\ reported[c] \in Nat
        /\ IsFiniteSet(Outstanding(c)) /\ Cardinality(Outstanding(c)) \in Nat
        /\ IsFiniteSet(Ended(c)) /\ Cardinality(Ended(c)) \in Nat
    BY CountsTyped DEF Accounts
  <2>3. CASE BatchOf[cur] = c
    <3>1. cur \in Outstanding(c) /\ Outstanding(c)' = Outstanding(c) \ {cur}
      BY <2>1, <2>3 DEF Outstanding, RequestsOf
    <3>2. cur \notin Ended(c) /\ Ended(c)' = Ended(c) \cup {cur}
      BY <2>1, <2>3 DEF Ended, RequestsOf
    <3>3. Cardinality(Outstanding(c)') = Cardinality(Outstanding(c)) - 1
      BY <2>2, <3>1, FS_RemoveElement
    <3>4. Cardinality(Ended(c)') = Cardinality(Ended(c)) + 1
      BY <2>2, <3>2, FS_AddElement
    <3>5. c \in DOMAIN tracker
      <4>1. Cardinality(Outstanding(c)) # 0
        BY <2>2, <3>1, FS_EmptySet
      <4>2. Left(c) # 0
        BY <2>1, <2>2, <4>1 DEF Waits
      <4> QED BY <4>2 DEF Left
    <3>6. /\ Left(c)' >= Left(c) - 1
          /\ reported'[c] + Held(c)' = reported[c] + Held(c) + 1
      BY <2>1, <2>3, <3>5, OutcomeCounts
    <3>7. Left(c)' \in Int
      <4>1. TrackerTypes'
        BY <2>1, CountOutcomeType
      <4> QED BY <4>1, LeftTyped
    <3>8. Waits(c)'
      BY <2>1, <2>2, <3>3, <3>6, <3>7 DEF Waits
    <3>9. Counts(c)'
      BY <2>2, <3>4, <3>6 DEF Counts
    <3> QED BY <3>8, <3>9
  <2>4. CASE BatchOf[cur] # c
    <3>1. Outstanding(c)' = Outstanding(c) /\ Ended(c)' = Ended(c)
      BY <2>1, <2>4 DEF Outstanding, Ended, RequestsOf
    <3>2. Left(c)' = Left(c) /\ Held(c)' = Held(c) /\ reported'[c] = reported[c]
      BY <2>1, <2>4, OthersUncounted
    <3> QED BY <2>1, <2>2, <3>1, <3>2 DEF Waits, Counts
  <2> QED BY <2>3, <2>4
<1>6. CASE Interrupt
  <2>1. InterruptBatches /\ at' = "leaving" /\ UNCHANGED outcome
    BY <1>6 DEF Interrupt
  <2> SUFFICES ASSUME NEW c \in Batches PROVE Waits(c)' /\ Counts(c)'
    BY DEF Accounts
  <2>2. reported'[c] + Held(c)' = reported[c] + Held(c)
    BY <2>1, InterruptCounts
  <2>3. Ended(c)' = Ended(c) /\ Counts(c)
    BY <2>1 DEF Ended, RequestsOf, Accounts
  <2> QED BY <2>1, <2>2, <2>3 DEF Waits, Counts
<1> QED BY <1>1, <1>2, <1>3, <1>4, <1>5, <1>6, <1>7 DEF Next, Worker

LEMMA AccountsInit == Init => Accounts
<1> SUFFICES ASSUME Init, NEW b \in Batches PROVE Waits(b) /\ Counts(b)
  BY DEF Accounts
<1>1. DOMAIN tracker = {} /\ reported[b] = 0
  BY DEF Init
<1>2. Outstanding(b) = {} /\ Ended(b) = {}
  BY DEF Init, Outstanding, Ended, RequestsOf
<1>3. Left(b) = 0 /\ Held(b) = 0
  BY <1>1 DEF Left, Held
<1> QED BY <1>1, <1>2, <1>3, FS_EmptySet DEF Waits, Counts

LEMMA AccountsAlways == Spec => []Accounts
<1>1. Init => TypeOK /\ Located /\ Accounts
  BY TypeInit, LocatedInit, AccountsInit
<1>2. TypeOK /\ Located /\ Accounts /\ [Next]_vars => TypeOK' /\ Located' /\ Accounts'
  BY PipelineStep, TrackerStep, LocatedStep, AccountsStep DEF TypeOK
<1> QED BY <1>1, <1>2, PTL DEF Spec

\* While the worker serves, no batch is reported before a request that is registered
\* for it and under way (enqueue_req registers first).
THEOREM NeverReportedEarly == Spec => []NeverEarly
<1>1. Accounts => NeverEarly
  BY DEF Accounts, Waits, Gone, Left, NeverEarly
<1> QED BY <1>1, AccountsAlways, PTL

\* Every Phase 2 outcome is in one report of its batch or in its entry, through
\* batches that are reported and begun again, and through the interrupted report.
THEOREM NoOutcomeLost == Spec => []OutcomesAccounted
<1>1. Accounts => OutcomesAccounted
  BY DEF Accounts, Counts, Held, Ended, OutcomesAccounted
<1> QED BY <1>1, AccountsAlways, PTL

=============================================================================
