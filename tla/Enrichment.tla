---------------------------- MODULE Enrichment ----------------------------
(***************************************************************************)
(* What happens to an episode after it is enqueued: Phase 1 stores it, the *)
(* verify stage extracts its entities, has them checked by an LLM and      *)
(* writes them one statement at a time, and fact extraction follows.  Every *)
(* statement is durable by itself (no transaction spans the stage), any of *)
(* them may fail, the process may die between two of them, and a caller may *)
(* pin or remove an entity in between.  One namespace, and one spelling per *)
(* name: the id is the label.                                              *)
(***************************************************************************)
EXTENDS Integers, Sequences, FiniteSets

CONSTANTS
  Episodes,     \* the requests
  Names,        \* entity ids
  Mentions,     \* Mentions[e]: the names extraction finds in e, in order
  Types,        \* registered type ids; 0 is the catch-all and always exists
  VerifyLlm,    \* TRUE: decisions by LLM; FALSE: all confirmed
  Interval,     \* CHECKPOINT_INTERVAL
  MaxStops,     \* bound: ends of the process
  MaxEdits,     \* bound: what callers do to entities
  Edits,        \* which edits they make
  Faults        \* the steps that may fail

FaultKinds == {"phase1", "status", "extract", "entity", "edge", "key", "facts"}

ASSUME EnrichmentAssumption ==
  /\ Mentions \in [Episodes -> Seq(Names)]
  /\ Types \subseteq Nat /\ 0 \in Types
  /\ VerifyLlm \in BOOLEAN
  /\ Interval \in Nat \ {0} /\ MaxStops \in Nat /\ MaxEdits \in Nat
  /\ Edits \subseteq {"pin", "remove"}
  /\ Faults \subseteq FaultKinds

VARIABLES
  \* the database
  status,    \* episodes.episode_processing_status, or "none": no such row
  ent,       \* entities: a function from the ids present to their rows
  keys,      \* dream_idempotency_keys: rowid, and the name and type hashed
  edges,     \* episodic_edges with the role "mention"
  cursor,    \* op_checkpoints, the row updated last
  \* the worker
  at,        \* its program counter
  queue,     \* deferred_queue
  cur,       \* the episode in process_deferred
  rows,      \* the rowid looked up for each candidate, -1 if it had none
  decisions, \* a type for each candidate
  next,      \* the candidate stage3_write is at
  row,       \* entity_rowid, as the guard read it
  count,     \* deferred_episodes_processed
  \* what is seen outside
  told,      \* told[e]: the on_stage_change events of e, in order
  announced, \* keys whose entity on_entity_extracted was called for
  repeats,   \* calls of it for a key announced before
  indexed,   \* entities whose row, since it was inserted, has been through Link
  skipped,   \* what Guard #1 skipped: its episode and name, and if it was indexed
  removed,   \* names removed by a caller at some time
  crashes,   \* ends of the process that were crashes
  stops, edits

db      == <<status, ent, keys, edges, cursor>>
cand    == <<rows, decisions, next, row>>
seen    == <<announced, repeats, indexed, skipped>>
outside == <<told, seen, removed, crashes>>
bounds  == <<stops, edits>>
vars    == <<db, at, queue, cur, cand, count, outside, bounds>>

None == "none"
Statuses == {"Pending", "Extracting", "Verified", "Failed"}
Terminal == {"Verified", "Failed"}
Events   == {"Pending", "Extracting", "EntitiesReady", "Complete", "Failed"}
Steps    == {"down", "idle", "start", "extract", "verify", "insert", "guard",
             "link", "key", "facts"}
Sources  == {"Phase1Ner", "DreamPass4", "ConsumerPinned"}
Rowids   == Nat \ {0}
EntityRows == [row : Rowids, ty : Types, src : Sources]
Keys     == Rowids \X Names \X Types

MayFail(f) == f \in Faults
Present    == DOMAIN ent
Candidates == Mentions[cur]
Name       == Candidates[next]
Done       == next > Len(decisions)
KeyOf(r)   == <<r, Name, decisions[next]>>
Tell(e, what) == told' = [told EXCEPT ![e] = Append(@, what)]
Set(s)     == status' = [status EXCEPT ![cur] = s]

\* SQLite gives a new row the rowid after the largest in the table.
NewRow == 1 + (CHOOSE m \in {0} \cup {ent[n].row : n \in Present} :
                 \A n \in Present : ent[n].row <= m)

Init ==
  /\ status = [e \in Episodes |-> None]
  /\ ent = <<>> /\ keys = {} /\ edges = {} /\ cursor = None
  /\ at = "idle" /\ queue = <<>> /\ cur = None
  /\ rows = <<>> /\ decisions = <<>> /\ next = 1 /\ row = 0 /\ count = 0
  /\ told = [e \in Episodes |-> <<>>]
  /\ announced = {} /\ repeats = 0 /\ indexed = {} /\ skipped = {} /\ removed = {}
  /\ crashes = 0
  /\ stops = 0 /\ edits = 0
-----------------------------------------------------------------------------
(* Phase 1 *)

\* process_item: the episode row is committed, Pending by the column's default,
\* before the NER that may still fail; only after it is the episode queued.
Phase1(e) ==
  /\ at = "idle" /\ told[e] = <<>>
  /\ Tell(e, "Pending")
  /\ \/ status' = [status EXCEPT ![e] = "Pending"] /\ queue' = Append(queue, e)
     \/ /\ MayFail("phase1") /\ UNCHANGED queue
        /\ status' \in {status, [status EXCEPT ![e] = "Pending"]}
  /\ UNCHANGED <<ent, keys, edges, cursor, at, cur, cand, count, seen, removed,
                 crashes, bounds>>

(* The verify stage *)

\* The worker takes the oldest deferred episode.
Begin ==
  /\ at = "idle" /\ queue # <<>>
  /\ cur' = Head(queue) /\ queue' = Tail(queue) /\ at' = "start"
  /\ UNCHANGED <<db, cand, count, outside, bounds>>

\* Mutation: the error is noted and the stage goes on.
FailGoesOn ==
  /\ Set("Failed") /\ Tell(cur, "Failed") /\ at' = "insert"
  /\ UNCHANGED <<ent, keys, edges, cursor, queue, cur, cand, count, seen, removed,
                 crashes, bounds>>

\* Every way run_verify_stage returns an error: Failed is written, if that write
\* succeeds, and told; fact extraction goes on regardless.
Fail ==
  /\ Set("Failed") \/ (MayFail("status") /\ UNCHANGED status)
  /\ Tell(cur, "Failed")
  /\ at' = "facts"
  /\ UNCHANGED <<ent, keys, edges, cursor, queue, cur, cand, count, seen, removed,
                 crashes, bounds>>

\* Pending to Extracting.
MarkExtracting ==
  /\ at = "start"
  /\ \/ /\ Set("Extracting") /\ Tell(cur, "Extracting")
        /\ at' = "extract"
        /\ UNCHANGED <<ent, keys, edges, cursor, queue, cur, cand, count, seen, removed,
                       crashes, bounds>>
     \/ MayFail("status") /\ Fail

\* The candidates, all of type 0 (extraction_result_to_candidates); the rows some
\* of them have are looked up for the LLM.  Without an LLM all are confirmed.
Extract ==
  /\ at = "extract"
  /\ \/ /\ IF VerifyLlm
           THEN /\ at' = "verify"
                /\ rows' = [i \in DOMAIN Candidates |->
                              IF Candidates[i] \in Present THEN ent[Candidates[i]].row ELSE -1]
                /\ UNCHANGED <<decisions, next, row>>
           ELSE /\ at' = "insert" /\ next' = 1
                /\ decisions' = [i \in DOMAIN Candidates |-> 0]
                /\ UNCHANGED <<rows, row>>
        /\ UNCHANGED <<db, queue, cur, count, outside, bounds>>
     \/ MayFail("extract") /\ Fail

\* What the LLM says of one candidate: confirmed (or corrected with too little
\* confidence), given another type, uncertain, or nothing that counts (left out,
\* malformed, or a type that is not registered).
Answers == [kind : {"confirm", "uncertain", "missing"}, ty : {0}]
     \cup [kind : {"correct"}, ty : Types \ {0}]

\* The answer with the largest index in S counts.
LastOf(ans, S) == ans[CHOOSE i \in S : \A k \in S : k <= i].ty

\* rowid_to_idx: an answer names its candidate by rowid, and of candidates with
\* the same rowid the last one gets it.
SlotOf(i) == CHOOSE j \in DOMAIN rows :
               rows[j] = rows[i] /\ \A k \in DOMAIN rows : rows[k] = rows[i] => k <= j

\* The decisions start as demotions and an answer overwrites that of its slot.
Resolve(ans) ==
  [j \in DOMAIN ans |->
     LET mine == {i \in DOMAIN ans : SlotOf(i) = j /\ ans[i].kind # "missing"}
     IN  IF mine = {} THEN 0 ELSE LastOf(ans, mine)]

\* apply_correction: a type given to a candidate that had a row is written to
\* that row at once, whatever its source.
Corrected(ans) ==
  [n \in Present |->
     LET mine == {i \in DOMAIN ans : ans[i].kind = "correct" /\ rows[i] = ent[n].row}
     IN  IF mine = {} THEN ent[n]
         ELSE [ent[n] EXCEPT !.ty = LastOf(ans, mine), !.src = "DreamPass4"]]

\* The rows were read before the LLM was asked, and are written after.
Verify ==
  /\ at = "verify"
  /\ \E ans \in [DOMAIN Candidates -> Answers] :
       /\ ent' = Corrected(ans)
       /\ decisions' = Resolve(ans)
  /\ at' = "insert" /\ next' = 1
  /\ UNCHANGED <<status, keys, edges, cursor, queue, cur, rows, row, count, told, seen, removed,
                 crashes, bounds>>

(* stage3_write, a statement at a time *)

\* INSERT OR IGNORE INTO entities.
InsertEntity ==
  /\ at = "insert" /\ ~Done
  /\ \/ /\ ent' = IF Name \in Present THEN ent
                  ELSE [n \in Present \cup {Name} |->
                          IF n = Name
                            THEN [row |-> NewRow, ty |-> decisions[next], src |-> "Phase1Ner"]
                            ELSE ent[n]]
        /\ at' = "guard"
        /\ UNCHANGED <<status, keys, edges, cursor, queue, cur, cand, count, outside, bounds>>
     \/ MayFail("entity") /\ Fail

\* Mutation: a hit goes round again without going on to the next candidate.
CheckKeyStays ==
  /\ at = "guard" /\ Name \in Present /\ row' = ent[Name].row
  /\ IF KeyOf(row') \in keys
       THEN at' = "insert" /\ UNCHANGED <<announced, repeats, skipped>>
       ELSE /\ announced' = announced \cup {KeyOf(row')} /\ at' = "link"
            /\ UNCHANGED <<repeats, skipped>>
  /\ UNCHANGED <<db, queue, cur, rows, decisions, next, count, told, indexed, removed,
                 crashes, bounds>>

\* Mutation: the key is recorded by the statement that checks it.
CheckKeyRecords ==
  /\ at = "guard" /\ Name \in Present /\ row' = ent[Name].row
  /\ keys' = keys \cup {KeyOf(row')}
  /\ IF KeyOf(row') \in keys
       THEN /\ skipped' = skipped \cup {<<cur, Name, Name \in indexed>>}
            /\ at' = "insert" /\ next' = next + 1
       ELSE at' = "link" /\ UNCHANGED <<next, skipped>>
  /\ UNCHANGED <<status, ent, edges, cursor, queue, cur, rows, decisions, count, told, announced,
                 repeats, indexed, removed, crashes, bounds>>

\* Guard #1: SELECT the rowid, then the key.  A row that is gone again is an error.
CheckKey ==
  /\ at = "guard"
  /\ \/ Name \notin Present /\ Fail
     \/ /\ Name \in Present /\ row' = ent[Name].row
        /\ IF KeyOf(row') \in keys
             THEN /\ skipped' = skipped \cup {<<cur, Name, Name \in indexed>>}
                  /\ at' = "insert" /\ next' = next + 1
                  /\ UNCHANGED <<announced, repeats>>
             ELSE /\ announced' = announced \cup {KeyOf(row')}
                  /\ repeats' = IF KeyOf(row') \in announced THEN repeats + 1 ELSE repeats
                  /\ at' = "link"
                  /\ UNCHANGED <<next, skipped>>
        /\ UNCHANGED <<db, queue, cur, rows, decisions, count, told, indexed, removed,
                       crashes, bounds>>

\* The full-text row and the episodic edge.  An edge that fails is passed over, as
\* is one whose entity is gone; the full-text row has no foreign key.
Link ==
  /\ at = "link"
  /\ \/ /\ \/ Name \in Present /\ edges' = edges \cup {<<cur, Name>>}
           \/ (Name \notin Present \/ MayFail("edge")) /\ UNCHANGED edges
        /\ indexed' = indexed \cup (Present \cap {Name})
        /\ at' = "key"
        /\ UNCHANGED <<status, ent, keys, cursor, queue, cur, cand, count, told, announced,
                       repeats, skipped, removed, crashes, bounds>>
     \/ MayFail("entity") /\ Fail

\* Mutation: no key is recorded.
RecordNoKey ==
  /\ at = "key" /\ at' = "insert" /\ next' = next + 1
  /\ UNCHANGED <<db, queue, cur, rows, decisions, row, count, outside, bounds>>

\* The key is recorded for the rowid the guard read, if that statement succeeds.
RecordKey ==
  /\ at = "key"
  /\ keys' = keys \cup {KeyOf(row)} \/ (MayFail("key") /\ UNCHANGED keys)
  /\ at' = "insert" /\ next' = next + 1
  /\ UNCHANGED <<status, ent, edges, cursor, queue, cur, rows, decisions, row, count, outside,
                 bounds>>

\* Mutation: the column is written before the entities are.
MarkVerifiedEarly ==
  /\ at = "insert"
  /\ Set("Verified") /\ Tell(cur, "EntitiesReady") /\ at' = "facts"
  /\ UNCHANGED <<ent, keys, edges, cursor, queue, cur, cand, count, seen, removed,
                 crashes, bounds>>

\* Mutation: the sink is told, and the column is not written.
MarkVerifiedUnwritten ==
  /\ at = "insert" /\ Done
  /\ Tell(cur, "EntitiesReady") /\ at' = "facts"
  /\ UNCHANGED <<db, queue, cur, cand, count, seen, removed, crashes, bounds>>

\* Extracting to Verified.  If the write fails the stage still succeeds, and the
\* sink is told Failed.
MarkVerified ==
  /\ at = "insert" /\ Done
  /\ \/ Set("Verified") /\ Tell(cur, "EntitiesReady")
     \/ MayFail("status") /\ UNCHANGED status /\ Tell(cur, "Failed")
  /\ at' = "facts"
  /\ UNCHANGED <<ent, keys, edges, cursor, queue, cur, cand, count, seen, removed,
                 crashes, bounds>>

(* Fact extraction, and the checkpoint *)

\* ingest_deferred ends in success or failure, with no write to the column;
\* every Interval-th episode its id is written as the cursor.
Facts ==
  /\ at = "facts"
  /\ Tell(cur, "Complete") \/ (MayFail("facts") /\ Tell(cur, "Failed"))
  /\ count' = count + 1
  /\ cursor' = IF (count + 1) % Interval = 0 THEN cur ELSE cursor
  /\ at' = "idle" /\ cur' = None
  /\ rows' = <<>> /\ decisions' = <<>> /\ next' = 1 /\ row' = 0
  /\ UNCHANGED <<status, ent, keys, edges, queue, seen, removed, crashes, bounds>>

(* The process ends and starts again: the queue was in memory *)

\* It crashes at any time, or the worker is done and its handles are dropped.
End ==
  /\ at # "down" /\ stops < MaxStops
  /\ stops' = stops + 1
  /\ \/ crashes' = crashes + 1
     \/ at = "idle" /\ queue = <<>> /\ UNCHANGED crashes
  /\ at' = "down" /\ queue' = <<>> /\ cur' = None
  /\ rows' = <<>> /\ decisions' = <<>> /\ next' = 1 /\ row' = 0 /\ count' = 0
  /\ UNCHANGED <<db, told, seen, removed, edits>>

\* worker_loop reads the last cursor and reports it.  It queues nothing.
Restart ==
  /\ at = "down"
  /\ at' = "idle"
  /\ UNCHANGED <<db, queue, cur, cand, count, told, seen, removed, crashes, bounds>>

(* What callers do to an entity meanwhile *)

\* retype_txn: the type is pinned, and the keys of the rowid are dropped.
Pin(n) ==
  /\ "pin" \in Edits /\ edits < MaxEdits /\ n \in Present
  /\ \E t \in Types \ {0} : ent' = [ent EXCEPT ![n].ty = t, ![n].src = "ConsumerPinned"]
  /\ keys' = {k \in keys : k[1] # ent[n].row}
  /\ announced' = {k \in announced : k[1] # ent[n].row}
  /\ edits' = edits + 1
  /\ UNCHANGED <<status, edges, cursor, at, queue, cur, cand, count, told, repeats, indexed,
                 skipped, removed, crashes, stops>>

\* batch_forget of one entity: its row, full-text row and edges go, its keys stay.
Remove(n) ==
  /\ "remove" \in Edits /\ edits < MaxEdits /\ n \in Present
  /\ ent' = [m \in Present \ {n} |-> ent[m]]
  /\ edges' = {p \in edges : p[2] # n}
  /\ indexed' = indexed \ {n} /\ removed' = removed \cup {n}
  /\ edits' = edits + 1
  /\ UNCHANGED <<status, keys, cursor, at, queue, cur, cand, count, told, announced, repeats,
                 skipped, crashes, stops>>

Stage == Begin \/ MarkExtracting \/ Extract \/ Verify \/ InsertEntity \/ CheckKey \/ Link
           \/ RecordKey \/ MarkVerified \/ Facts

Next ==
  \/ \E e \in Episodes : Phase1(e)
  \/ Stage \/ End \/ Restart
  \/ \E n \in Names : Pin(n) \/ Remove(n)

Spec == Init /\ [][Next]_vars

\* The worker is a thread of its own, and its LLM calls return or time out.
FairSpec == Spec /\ WF_vars(Stage)
-----------------------------------------------------------------------------
TypeOK ==
  /\ status \in [Episodes -> Statuses \cup {None}]
  /\ Present \subseteq Names /\ ent \in [Present -> EntityRows]
  /\ keys \subseteq Keys /\ edges \subseteq Episodes \X Names
  /\ cursor \in Episodes \cup {None}
  /\ at \in Steps /\ queue \in Seq(Episodes) /\ cur \in Episodes \cup {None}
  /\ next \in Nat \ {0} /\ row \in Nat /\ count \in Nat
  /\ decisions \in Seq(Types)
  /\ told \in [Episodes -> Seq(Events)]
  /\ announced \subseteq Keys /\ repeats \in Nat
  /\ indexed \subseteq Present /\ removed \subseteq Names
  /\ skipped \subseteq Episodes \X Names \X BOOLEAN

Told(e, what) == \E i \in DOMAIN told[e] : told[e][i] = what
Ended(e)      == told[e] # <<>> /\ told[e][Len(told[e])] \in {"Complete", "Failed"}

\* "entities are written and queryable": once EntitiesReady is told of an episode
\* its column says Verified, and each entity it mentions has its full-text row or
\* was removed by a caller.
ReadyMeansIndexed ==
  \A e \in Episodes : Told(e, "EntitiesReady") =>
    /\ status[e] = "Verified"
    /\ \A i \in DOMAIN Mentions[e] : Mentions[e][i] \in indexed \cup removed

\* What Guard #1 skips had been written in full: a crash between the insertion of
\* an entity and its key makes the next mention do the work again, not skip it.
\* Excepted is a name a caller removed, whose keys outlive the row.
SkippedWasIndexed == \A s \in skipped : s[3] \/ s[2] \in removed

\* Nothing queued or under way has been told ready, and nothing is queued twice.
Busy == at \notin {"down", "idle"}

Lined ==
  /\ \A i \in DOMAIN queue :
       /\ status[queue[i]] = "Pending" /\ ~Told(queue[i], "EntitiesReady")
       /\ told[queue[i]] # <<>>
       /\ Busy => queue[i] # cur
       /\ \A j \in DOMAIN queue : queue[i] = queue[j] => i = j
  /\ \A e \in Episodes : told[e] = <<>> => status[e] = None
  /\ Busy => told[cur] # <<>>
  /\ Busy /\ at # "facts" => /\ ~Told(cur, "EntitiesReady")
                            /\ status[cur] = IF at = "start" THEN "Pending" ELSE "Extracting"

\* A name that was written in full, or taken out again by a caller.
DealtWith == indexed \cup removed

\* How far stage3_write has got: the candidates before the next one are dealt with,
\* and so is the next one, as far as its step says.
Written ==
  /\ at \in {"insert", "guard", "link", "key"} =>
       /\ Len(decisions) = Len(Mentions[cur])
       /\ next \in 1..(Len(Mentions[cur]) + 1)
       /\ \A i \in 1..(next - 1) : Mentions[cur][i] \in DealtWith
  /\ at \in {"guard", "link", "key"} =>
       /\ next <= Len(Mentions[cur])
       /\ Name \in IF at = "key" THEN DealtWith ELSE Present \cup removed
  /\ \A k \in keys : k[2] \in DealtWith
  /\ SkippedWasIndexed

\* The inductive invariant behind ReadyMeansIndexed, SkippedWasIndexed and
\* StatusForward.
IInv ==
  /\ status \in [Episodes -> Statuses \cup {None}] /\ told \in [Episodes -> Seq(Events)]
  /\ at \in Steps /\ queue \in Seq(Episodes) /\ (Busy => cur \in Episodes)
  /\ Lined /\ Written /\ ReadyMeansIndexed

\* While statements on entities and keys succeed, an entity is announced again with
\* the same name and type at most once a crash, or when a caller reopened it.
AnnouncedOnce == {"entity", "key"} \cap Faults = {} => repeats <= crashes

\* The column only moves forward, and never away from Verified or Failed.
StatusForward ==
  [][\A e \in Episodes : status'[e] # status[e] =>
       <<status[e], status'[e]>> \in
         {<<None, "Pending">>, <<"Pending", "Extracting">>, <<"Pending", "Failed">>,
          <<"Extracting", "Verified">>, <<"Extracting", "Failed">>}]_vars

Queued(e) == \E i \in DOMAIN queue : queue[i] = e

\* The sink hears of the end of fact extraction for every episode that was queued,
\* unless the process ends first.
Reported == \A e \in Episodes : Queued(e) ~> (at = "idle" /\ Ended(e)) \/ at = "down"

\* An episode that was queued gets to Verified or Failed, unless the process ends
\* first; after a crash nobody queues it again.
Settles == \A e \in Episodes : Queued(e) ~> status[e] \in Terminal \/ at = "down"
=============================================================================
