-------------------------- MODULE BackgroundIngest --------------------------
(***************************************************************************)
(* The background ingestor (core/background): callers put requests on a    *)
(* bounded channel, one worker thread runs Phase 1 (episode and entity     *)
(* candidates) as they arrive and Phase 2 (LLM fact extraction, from an    *)
(* in-memory deferred queue) when the channel is idle, and a batch is      *)
(* reported to the sink when every request registered for it has been      *)
(* through Phase 2.                                                        *)
(*                                                                         *)
(* The caller's three steps (register under the tracker's mutex, count,    *)
(* try_send) interleave with the worker and with the two ways of shutting  *)
(* down: dropping the IngestGuard (stop flag) and dropping every handle    *)
(* (the channel closes).  What a phase does to the graph is left out: here *)
(* it succeeds or fails.                                                   *)
(***************************************************************************)
EXTENDS Integers, Sequences, FiniteSets, Functions, TLC

CONSTANTS
  Requests,         \* texts sent for ingestion; those of no batch are one caller's each
  Batches,          \* caller-chosen batch ids
  BatchOf,          \* [Requests -> Batches \cup {NoBatch}]
  Capacity,         \* channel_capacity
  DeferredEnabled,  \* deferred_extraction_enabled
  Phase1MayFail,    \* BOOLEAN: ingest_phase1_ner may return an error
  NoBatch, Nothing  \* model values

ASSUME IngestAssumption ==
  /\ IsFiniteSet(Requests)
  /\ BatchOf \in [Requests -> Batches \cup {NoBatch}]
  /\ NoBatch \notin Batches /\ Nothing \notin Requests
  /\ Capacity \in Nat \ {0}
  /\ DeferredEnabled \in BOOLEAN /\ Phase1MayFail \in BOOLEAN

VARIABLES
  sender,    \* where each request is in enqueue_req
  handles,   \* some BackgroundIngestor clone is alive
  stop,      \* IngestGuard was dropped
  chan,      \* the work channel
  queued,    \* the atomic depth counter
  tracker,   \* batch_tracker: batch -> BatchProgress
  mode,      \* which loop of worker_loop: "serve", "stopping", "closing"
  at,        \* where in that loop the worker is
  cur,       \* the request it is processing
  deferred,  \* deferred_queue
  outcome,   \* history: what became of each request
  fired,     \* history: on_batch_phase2_complete calls per batch
  reported   \* history: Phase 2 outcomes those calls carried

vars == <<sender, handles, stop, chan, queued, tracker, mode, at, cur, deferred,
          outcome, fired, reported>>
worker == <<mode, at, cur, deferred, outcome>>
sink == <<fired, reported>>

Init ==
  /\ sender = [r \in Requests |-> "new"]
  /\ handles = TRUE /\ stop = FALSE
  /\ chan = <<>> /\ queued = 0 /\ tracker = <<>>
  /\ mode = "serve" /\ at = "top" /\ cur = Nothing /\ deferred = <<>>
  /\ outcome = [r \in Requests |-> "pending"]
  /\ fired = [b \in Batches |-> 0] /\ reported = [b \in Batches |-> 0]

-----------------------------------------------------------------------------
\* BackgroundIngestor::enqueue_req, and the two ways to shut down

\* `skipped` stays 0: no code path increments it.
BatchProgress == [total : Nat, succeeded : Nat, failed : Nat]
Progress(t, s, f) == [total |-> t, succeeded |-> s, failed |-> f]
Done(p) == p.succeeded + p.failed
IsTerminal(p) == Done(p) >= p.total

\* Mutation: a batch that is already there is not told of a further request.
RegisteredOnce(b) == tracker @@ (b :> Progress(1, 0, 0))

\* Entry of the batch, made or with one more request expected.
Registered(b) ==
  [x \in DOMAIN tracker \cup {b} |->
     IF x # b THEN tracker[x]
     ELSE IF b \in DOMAIN tracker THEN [tracker[b] EXCEPT !.total = @ + 1]
     ELSE Progress(1, 0, 0)]

\* `total` is incremented under the mutex, before anything else.
Register(r) ==
  /\ handles /\ sender[r] = "new"
  /\ sender' = [sender EXCEPT ![r] = "registered"]
  /\ tracker' = IF BatchOf[r] = NoBatch THEN tracker ELSE Registered(BatchOf[r])
  /\ UNCHANGED <<handles, stop, chan, queued, worker, sink>>

\* Mutation: the depth is left to be counted after try_send.
CountLater(r) ==
  /\ sender[r] = "registered"
  /\ sender' = [sender EXCEPT ![r] = "counted"]
  /\ UNCHANGED <<handles, stop, chan, queued, tracker, worker, sink>>

\* queued.fetch_add, before the request can be seen by the worker.
Count(r) ==
  /\ sender[r] = "registered"
  /\ sender' = [sender EXCEPT ![r] = "counted"]
  /\ queued' = queued + 1
  /\ UNCHANGED <<handles, stop, chan, tracker, worker, sink>>

\* Full, or disconnected because the worker's receiver is gone: the depth counter
\* is put back, the batch's total is not.
Refuse(r) ==
  /\ sender[r] = "counted"
  /\ at = "exited" \/ Len(chan) = Capacity
  /\ sender' = [sender EXCEPT ![r] = "refused"]
  /\ queued' = queued - 1
  /\ UNCHANGED <<handles, stop, chan, tracker, worker, sink>>

Accept(r) ==
  /\ sender[r] = "counted"
  /\ at # "exited" /\ Len(chan) < Capacity
  /\ sender' = [sender EXCEPT ![r] = "accepted"]
  /\ chan' = Append(chan, r)
  /\ UNCHANGED <<handles, stop, queued, tracker, worker, sink>>

\* A caller outside any batch, whose text is done with or was refused, sends another.
\* There is no end to such calls.
SendAgain(r) ==
  /\ handles /\ BatchOf[r] = NoBatch
  /\ sender[r] = "refused" \/ (sender[r] = "accepted" /\ outcome[r] # "pending")
  /\ sender' = [sender EXCEPT ![r] = "new"]
  /\ outcome' = [outcome EXCEPT ![r] = "pending"]
  /\ UNCHANGED <<handles, stop, chan, queued, tracker, mode, at, cur, deferred, sink>>

\* The last clone goes away: nobody is inside enqueue_req.
DropHandles ==
  /\ handles /\ \A r \in Requests : sender[r] \in {"new", "accepted", "refused"}
  /\ handles' = FALSE
  /\ UNCHANGED <<sender, stop, chan, queued, tracker, worker, sink>>

\* IngestGuard::drop; the join is `at = "exited"`.
DropGuard ==
  /\ ~stop /\ stop' = TRUE
  /\ UNCHANGED <<sender, handles, chan, queued, tracker, worker, sink>>

-----------------------------------------------------------------------------
\* worker_loop

Go(m, a) == mode' = m /\ at' = a

\* Mutation: the stop flag is not looked at.
CheckStopIgnored ==
  /\ mode = "serve" /\ at = "top"
  /\ Go("serve", "recv")
  /\ UNCHANGED <<sender, handles, stop, chan, queued, tracker, cur, deferred, outcome, sink>>

\* The head of the loop: the stop flag is looked at first.
CheckStop ==
  /\ mode = "serve" /\ at = "top"
  /\ IF stop THEN Go("stopping", "top") ELSE Go("serve", "recv")
  /\ UNCHANGED <<sender, handles, stop, chan, queued, tracker, cur, deferred, outcome, sink>>

\* recv_timeout, or try_recv when stopping: take the oldest request ...
Take ==
  /\ <<mode, at>> \in {<<"serve", "recv">>, <<"stopping", "top">>}
  /\ chan # <<>>
  /\ cur' = Head(chan) /\ chan' = Tail(chan)
  /\ Go(mode, "took")
  /\ UNCHANGED <<sender, handles, stop, queued, tracker, deferred, outcome, sink>>

\* ... and count it out.
Subtract ==
  /\ at = "took"
  /\ queued' = queued - 1
  /\ Go(mode, "phase1")
  /\ UNCHANGED <<sender, handles, stop, chan, tracker, cur, deferred, outcome, sink>>

\* process_item
Phase1Ok ==
  /\ at = "phase1"
  /\ IF DeferredEnabled
       THEN deferred' = Append(deferred, cur) /\ UNCHANGED outcome
       ELSE outcome' = [outcome EXCEPT ![cur] = "episode_only"] /\ UNCHANGED deferred
  /\ cur' = Nothing
  /\ Go(mode, "top")
  /\ UNCHANGED <<sender, handles, stop, chan, queued, tracker, sink>>

\* The error goes to the error channel and the sink; the batch is not told.
Phase1Fails ==
  /\ Phase1MayFail
  /\ at = "phase1"
  /\ outcome' = [outcome EXCEPT ![cur] = "phase1_failed"]
  /\ cur' = Nothing
  /\ Go(mode, "top")
  /\ UNCHANGED <<sender, handles, stop, chan, queued, tracker, deferred, sink>>

\* The channel stayed empty for 100 ms: nothing is deferred ...
Idle ==
  /\ mode = "serve" /\ at = "recv" /\ chan = <<>> /\ handles /\ deferred = <<>>
  /\ Go("serve", "top")
  /\ UNCHANGED <<sender, handles, stop, chan, queued, tracker, cur, deferred, outcome, sink>>

\* Mutation: deferred requests wait for the closing drain.
TakeDeferredClosing ==
  /\ mode = "closing" /\ at = "top" /\ ~stop
  /\ deferred # <<>>
  /\ cur' = Head(deferred) /\ deferred' = Tail(deferred)
  /\ Go(mode, "phase2")
  /\ UNCHANGED <<sender, handles, stop, chan, queued, tracker, outcome, sink>>

\* ... or one deferred request is processed.
TakeDeferred ==
  /\ \/ mode = "serve" /\ at = "recv" /\ chan = <<>> /\ handles
     \/ mode = "closing" /\ at = "top" /\ ~stop
  /\ deferred # <<>>
  /\ cur' = Head(deferred) /\ deferred' = Tail(deferred)
  /\ Go(mode, "phase2")
  /\ UNCHANGED <<sender, handles, stop, chan, queued, tracker, outcome, sink>>

\* Every sender is gone and the channel is empty.
Disconnected ==
  /\ mode = "serve" /\ at = "recv" /\ chan = <<>> /\ ~handles
  /\ Go("closing", "top")
  /\ UNCHANGED <<sender, handles, stop, chan, queued, tracker, cur, deferred, outcome, sink>>

\* Mutation: a reported batch stays in the tracker.
SettleKeeps(b, p) ==
  /\ tracker' = [tracker EXCEPT ![b] = p]
  /\ IF IsTerminal(p)
       THEN /\ fired' = [fired EXCEPT ![b] = @ + 1]
            /\ reported' = [reported EXCEPT ![b] = @ + Done(p)]
       ELSE UNCHANGED sink

\* Put `p` back for batch b, or report it and forget the batch.
Settle(b, p) ==
  IF IsTerminal(p)
    THEN /\ tracker' = Restrict(tracker, DOMAIN tracker \ {b})
         /\ fired' = [fired EXCEPT ![b] = @ + 1]
         /\ reported' = [reported EXCEPT ![b] = @ + Done(p)]
    ELSE /\ tracker' = [tracker EXCEPT ![b] = p]
         /\ UNCHANGED sink

\* fire_batch_complete_if_terminal; no entry, no report.
CountOutcome(r, ok) ==
  LET b == BatchOf[r] IN
    IF b \notin DOMAIN tracker
      THEN UNCHANGED <<tracker, sink>>
      ELSE Settle(b, IF ok THEN [tracker[b] EXCEPT !.succeeded = @ + 1]
                           ELSE [tracker[b] EXCEPT !.failed = @ + 1])

\* process_deferred, and the batch's counter after it.
Phase2(ok) ==
  /\ at = "phase2"
  /\ outcome' = [outcome EXCEPT ![cur] = IF ok THEN "succeeded" ELSE "failed"]
  /\ CountOutcome(cur, ok)
  /\ cur' = Nothing
  /\ Go(mode, "top")
  /\ UNCHANGED <<sender, handles, stop, chan, queued, deferred>>

\* fire_interrupted_batches: every batch that is not terminal.
InterruptBatches ==
  LET open == {b \in DOMAIN tracker : ~IsTerminal(tracker[b])} IN
    /\ tracker' = Restrict(tracker, DOMAIN tracker \ open)
    /\ fired' = [b \in Batches |-> IF b \in open THEN fired[b] + 1 ELSE fired[b]]
    /\ reported' = [b \in Batches |->
                      IF b \in open THEN reported[b] + Done(tracker[b]) ELSE reported[b]]

\* The stop flag was seen and the channel is drained, or it was seen between two
\* deferred requests of the closing drain: what is deferred is abandoned.
Interrupt ==
  /\ \/ mode = "stopping" /\ at = "top" /\ chan = <<>>
     \/ mode = "closing" /\ at = "top" /\ stop /\ deferred # <<>>
  /\ InterruptBatches
  /\ Go(mode, "leaving")
  /\ UNCHANGED <<sender, handles, stop, chan, queued, cur, deferred, outcome>>

\* Mutation: the worker leaves as soon as the channel is closed.
ClosedAtOnce ==
  /\ mode = "closing" /\ at = "top"
  /\ Go(mode, "leaving")
  /\ UNCHANGED <<sender, handles, stop, chan, queued, tracker, cur, deferred, outcome, sink>>

\* The closing drain is over: no batch is interrupted.
Closed ==
  /\ mode = "closing" /\ at = "top" /\ deferred = <<>>
  /\ Go(mode, "leaving")
  /\ UNCHANGED <<sender, handles, stop, chan, queued, tracker, cur, deferred, outcome, sink>>

\* worker_loop returns and drops the receiver with whatever is still in it.
Exit ==
  /\ at = "leaving"
  /\ Go(mode, "exited")
  /\ chan' = <<>>
  /\ UNCHANGED <<sender, handles, stop, queued, tracker, cur, deferred, outcome, sink>>

-----------------------------------------------------------------------------
Worker ==
  \/ CheckStop \/ Take \/ Subtract \/ Phase1Ok \/ Phase1Fails \/ Idle \/ TakeDeferred
  \/ Disconnected \/ (\E ok \in BOOLEAN : Phase2(ok)) \/ Interrupt \/ Closed \/ Exit

Next ==
  \/ \E r \in Requests : Register(r) \/ Count(r) \/ Refuse(r) \/ Accept(r) \/ SendAgain(r)
  \/ DropHandles \/ DropGuard
  \/ Worker

Spec == Init /\ [][Next]_vars

\* The worker is a thread of its own, and both phases return (their LLM calls
\* have timeouts).
FairSpec == Spec /\ WF_vars(Worker)

-----------------------------------------------------------------------------
PipelineTypes ==
  /\ sender \in [Requests -> {"new", "registered", "counted", "accepted", "refused"}]
  /\ handles \in BOOLEAN /\ stop \in BOOLEAN
  /\ chan \in Seq(Requests) /\ deferred \in Seq(Requests)
  /\ queued \in Int
  /\ mode \in {"serve", "stopping", "closing"}
  /\ at \in {"top", "recv", "took", "phase1", "phase2", "leaving", "exited"}
  /\ cur \in Requests \cup {Nothing}
  /\ at \in {"took", "phase1", "phase2"} => cur \in Requests
  /\ outcome \in [Requests -> {"pending", "episode_only", "phase1_failed", "succeeded", "failed"}]

TrackerTypes ==
  /\ DOMAIN tracker \subseteq Batches
  /\ \A b \in DOMAIN tracker : tracker[b] \in BatchProgress
  /\ fired \in [Batches -> Nat] /\ reported \in [Batches -> Nat]

TypeOK == PipelineTypes /\ TrackerTypes

\* The worker never counts a request out before its sender has counted it in: the
\* unsigned depth counter cannot wrap (enqueue_req's "increment BEFORE enqueue").
DepthNeverWraps == queued >= Len(chan) + (IF at = "took" THEN 1 ELSE 0)

\* The stronger fact behind it: the depth also covers every sender between its
\* increment and its try_send.
Counted == {r \in Requests : sender[r] = "counted"}

DepthAccounted ==
  queued >= Len(chan) + (IF at = "took" THEN 1 ELSE 0) + Cardinality(Counted)

RequestsOf(b) == {r \in Requests : BatchOf[r] = b}

\* Registered for the batch, and not yet refused, failed or through Phase 2.
Outstanding(b) ==
  {r \in RequestsOf(b) : /\ sender[r] \in {"registered", "counted", "accepted"}
                         /\ outcome[r] = "pending"}

\* While the worker serves, a batch still waits for every request registered for
\* it: the report cannot come before one that is under way.
NeverEarly ==
  at \notin {"leaving", "exited"} =>
    \A b \in Batches :
      Cardinality(Outstanding(b)) <=
        IF b \in DOMAIN tracker THEN tracker[b].total - Done(tracker[b]) ELSE 0

\* Every Phase 2 outcome of a batch is in exactly one report or still counted.
OutcomesAccounted ==
  \A b \in Batches :
    reported[b] + (IF b \in DOMAIN tracker THEN Done(tracker[b]) ELSE 0)
      = Cardinality({r \in RequestsOf(b) : outcome[r] \in {"succeeded", "failed"}})

\* A worker that leaves because the last handle is gone, and is not told to stop,
\* leaves nothing it accepted undone.
GracefulExit ==
  at = "exited" /\ ~stop =>
    \A r \in Requests : sender[r] = "accepted" => outcome[r] # "pending"

\* Texts come in for ever, and never again with the pause of 100 ms after which the
\* worker turns to what is deferred: it takes texts from the channel and nothing else.
Overrun == []<><<Take>>_vars /\ <>[][~(Idle \/ TakeDeferred)]_vars

\* Dropping the guard returns: the worker always gets to its end, unless callers that
\* still have a handle keep its channel filled for ever.
JoinReturns == Overrun \/ (stop ~> at = "exited")

\* An accepted request is dealt with, or the worker was shut down, as long as pauses in
\* the traffic keep coming or the traffic ends.
AcceptedServed ==
  Overrun \/ \A r \in Requests :
               sender[r] = "accepted" ~> outcome[r] # "pending" \/ at = "exited"
=============================================================================
