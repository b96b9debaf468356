--------------------------- MODULE FactLifecycle ---------------------------
(***************************************************************************)
(* How a fact leaves the graph and comes back.  A caller bounds its        *)
(* validity (supersede); the dream pass expires it when the bound is past  *)
(* (window_closeout, unless too many would go at once) and moves it to the *)
(* archive after a grace period (archive); ingest expires what new facts   *)
(* contradict; each of these can be undone, by the log or by the fact.     *)
(* Nothing keeps two of them off one fact: supersede reads before its      *)
(* transaction, the archive sweep selects before its own, and undoing by   *)
(* the log is three or four statements with no transaction at all.         *)
(***************************************************************************)
EXTENDS Integers, Sequences, FiniteSets

CONSTANTS
  Facts,       \* fact ids of one namespace
  Initial,     \* those stored at first
  Dreamed,     \* those with is_dream_generated
  HashOf,      \* content_hash
  EndsOf,      \* the entities a fact is about
  ValidFrom,
  Grace,       \* archive_grace_days
  Floor,       \* BULK_INVALIDATION_FLOOR
  Callers,
  Worked,      \* bound: the facts that callers and ingest act on
  Bounds,      \* bound: the times they supersede at
  MaxTime,     \* bound: the clock
  MaxLog,      \* bound: rows of graph_mutation_log
  MaxCrashes,  \* bound
  None

Times == 0..MaxTime

ASSUME LifecycleAssumption ==
  /\ IsFiniteSet(Facts) /\ Initial \subseteq Facts /\ Worked \subseteq Facts
  /\ Bounds \subseteq Times
  /\ ValidFrom \in [Facts -> Times] /\ None \notin Int
  /\ Grace \in Nat /\ Floor \in Nat /\ MaxTime \in Nat /\ MaxLog \in Nat
  /\ MaxCrashes \in Nat
  /\ \A f, g \in Initial : HashOf[f] = HashOf[g] => f = g

VARIABLES
  facts,      \* the rows of facts, by id
  archived,   \* the rows of facts_archive, by id
  now,
  log,        \* graph_mutation_log
  call,       \* what each caller is in the middle of
  sweep,      \* the archive pass: the candidates left, and the one it let through
  doubted,    \* facts some ingest read as unexpired and asks the detector about
  crashes,
  overlapped, \* facts with calls that overlapped or were cut off
  rewritten   \* facts whose expiry was written while a sweep had them as candidates

vars == <<facts, archived, now, log, call, sweep, doubted, crashes, overlapped, rewritten>>

MaybeTime == Times \cup {None}
Row       == [valid_to : MaybeTime, expired_at : MaybeTime, invalid_at : BOOLEAN]
NewRow    == [valid_to |-> None, expired_at |-> None, invalid_at |-> FALSE]

\* A row of the log: the bound a supersede set and what was there before it.
Entry == [kind : {"fact_supersede", "fact_archive"}, fact : Facts, valid_to : MaybeTime,
          prior_valid_to : MaybeTime, prior_expired_at : MaybeTime, undone : BOOLEAN]

Idle == [at |-> "idle"]
Call == {Idle}
  \cup [at : {"supersede"}, fact : Facts, to : Times, prior_valid_to : MaybeTime,
        prior_expired_at : MaybeTime]
  \cup [at : {"undo", "write", "stamp"}, fact : Facts, entry : Nat]

Rest == [todo |-> {}, next |-> None]

Without(rows, f)    == [h \in DOMAIN rows \ {f} |-> rows[h]]
With(rows, f, r)    == [h \in DOMAIN rows \cup {f} |-> IF h = f THEN r ELSE rows[h]]
Unexpired(f)        == f \in DOMAIN facts /\ facts[f].expired_at = None

\* idx_facts_content_hash_unique refuses a second unexpired fact with the hash.
Clash(f) == \E h \in DOMAIN facts \ {f} : Unexpired(h) /\ HashOf[h] = HashOf[f]

Init ==
  /\ facts = [f \in Initial |-> NewRow] /\ archived = [f \in {} |-> NewRow]
  /\ now = 0 /\ log = <<>> /\ call = [c \in Callers |-> Idle] /\ sweep = Rest
  /\ doubted = {} /\ crashes = 0 /\ overlapped = {} /\ rewritten = {}

Tick ==
  /\ now < MaxTime
  /\ now' = now + 1
  /\ UNCHANGED <<facts, archived, log, call, sweep, doubted, crashes, overlapped, rewritten>>

\* What the properties need to know of the past.
Calling(f, others) == \E c \in others : call[c] # Idle /\ call[c].fact = f
MarkOverlap(f, others) ==
  overlapped' = IF Calling(f, others) THEN overlapped \cup {f} ELSE overlapped
MarkRewritten(fs) == rewritten' = rewritten \cup (fs \cap sweep.todo)
-----------------------------------------------------------------------------
(* Ingest *)

\* insert_fact_with_group: the statement is stored unless it stands already.
InsertFact(f) ==
  /\ f \in Facts \ (DOMAIN facts \cup DOMAIN archived)
  /\ ~Clash(f)
  /\ facts' = With(facts, f, NewRow)
  /\ UNCHANGED <<archived, now, log, call, sweep, doubted, crashes, overlapped, rewritten>>

\* The pools of ingest_deferred, and the question to the detector.
Doubt(f) ==
  /\ f \in Worked \ doubted /\ Unexpired(f)
  /\ doubted' = doubted \cup {f}
  /\ UNCHANGED <<facts, archived, now, log, call, sweep, crashes, overlapped, rewritten>>

\* Its answer, and invalidate_fact_with_reason by id.
Contradict(f) ==
  /\ f \in doubted
  /\ doubted' = doubted \ {f}
  /\ facts' = IF f \in DOMAIN facts
                THEN [facts EXCEPT ![f].expired_at = now, ![f].invalid_at = TRUE] ELSE facts
  /\ MarkRewritten({f})
  /\ UNCHANGED <<archived, now, log, call, sweep, crashes, overlapped>>
-----------------------------------------------------------------------------
(* The dream pass *)

Lapsed(f) ==
  /\ Unexpired(f) /\ ~facts[f].invalid_at /\ f \notin Dreamed
  /\ facts[f].valid_to # None /\ facts[f].valid_to < now

\* bulk_invalidation_guard::decide: a quarter of the unexpired facts at most, unless
\* they are few.
Allowed(n) ==
  LET live == Cardinality({f \in DOMAIN facts : Unexpired(f)})
  IN  n = 0 \/ live < Floor \/ 4 * n <= live

\* Mutation: the transaction is not committed.
WindowCloseoutUncommitted ==
  /\ \E f \in DOMAIN facts : Lapsed(f)
  /\ UNCHANGED vars

\* window_closeout: all of them in one transaction, or none.
WindowCloseout ==
  LET lapsed == {f \in DOMAIN facts : Lapsed(f)}
  IN  /\ lapsed # {} /\ Allowed(Cardinality(lapsed))
      /\ facts' = [f \in DOMAIN facts |->
           IF f \in lapsed THEN [facts[f] EXCEPT !.expired_at = facts[f].valid_to] ELSE facts[f]]
      /\ MarkRewritten(lapsed)
      /\ UNCHANGED <<archived, now, log, call, sweep, doubted, crashes, overlapped>>

PastGrace(r) == r.expired_at # None /\ r.expired_at < now - Grace

\* Mutation: the grace period is left out.
SelectExpired ==
  /\ sweep = Rest
  /\ sweep' = [todo |-> {f \in DOMAIN facts : ~Unexpired(f)}, next |-> None]
  /\ sweep' # Rest
  /\ rewritten' = rewritten \cap DOMAIN archived
  /\ UNCHANGED <<facts, archived, now, log, call, doubted, crashes, overlapped>>

\* archive: the candidates are selected before any transaction.
SelectCandidates ==
  /\ sweep = Rest
  /\ sweep' = [todo |-> {f \in DOMAIN facts : PastGrace(facts[f])}, next |-> None]
  /\ sweep' # Rest
  /\ rewritten' = rewritten \cap DOMAIN archived
  /\ UNCHANGED <<facts, archived, now, log, call, doubted, crashes, overlapped>>

\* would_strand_endpoint
Stranded(e) == ~\E f \in DOMAIN facts :
                 e \in EndsOf[f] /\ Unexpired(f) /\ ~facts[f].invalid_at

CheckCandidate(f) ==
  /\ sweep.next = None /\ f \in sweep.todo
  /\ sweep' = IF \E e \in EndsOf[f] : Stranded(e)
                THEN [sweep EXCEPT !.todo = @ \ {f}] ELSE [sweep EXCEPT !.next = f]
  /\ UNCHANGED <<facts, archived, now, log, call, doubted, crashes, overlapped, rewritten>>

Logged(kind, f, to, prior, expired) ==
  /\ Len(log) < MaxLog
  /\ log' = Append(log, [kind |-> kind, fact |-> f, valid_to |-> to, undone |-> FALSE,
                         prior_valid_to |-> prior, prior_expired_at |-> expired])

\* move_fact: the row is moved as it is now, unless it has gone.
MoveFact ==
  /\ sweep.next # None
  /\ LET f == sweep.next
     IN  /\ sweep' = [todo |-> sweep.todo \ {f}, next |-> None]
         /\ IF f \in DOMAIN facts
              THEN /\ archived' = With(archived, f, facts[f])
                   /\ facts' = Without(facts, f)
                   /\ Logged("fact_archive", f, None, None, None)
              ELSE UNCHANGED <<facts, archived, log>>
         /\ MarkOverlap(f, Callers)
  /\ UNCHANGED <<now, call, doubted, crashes, rewritten>>
-----------------------------------------------------------------------------
(* Callers *)

\* SupersedeRequest::execute reads the fact, and refuses a bound before valid_from.
ReadFact(c, f, t) ==
  /\ call[c] = Idle /\ f \in Worked \cap DOMAIN facts /\ t >= ValidFrom[f]
  /\ call' = [call EXCEPT ![c] = [at |-> "supersede", fact |-> f, to |-> t,
                                  prior_valid_to |-> facts[f].valid_to,
                                  prior_expired_at |-> facts[f].expired_at]]
  /\ MarkOverlap(f, Callers)
  /\ UNCHANGED <<facts, archived, now, log, sweep, doubted, crashes, rewritten>>

\* In one transaction bound_valid_to, and the log with what was read.
Supersede(c) ==
  /\ call[c].at = "supersede"
  /\ LET f == call[c].fact
     IN  /\ facts' = IF f \in DOMAIN facts
                       THEN [facts EXCEPT ![f].valid_to = call[c].to] ELSE facts
         /\ Logged("fact_supersede", f, call[c].to,
                   call[c].prior_valid_to, call[c].prior_expired_at)
  /\ call' = [call EXCEPT ![c] = Idle]
  /\ UNCHANGED <<archived, now, sweep, doubted, crashes, overlapped, rewritten>>

\* undo_fact_supersede and undo_fact_archive read the log first.
ReadEntry(c, i) ==
  /\ call[c] = Idle /\ i \in DOMAIN log /\ ~log[i].undone
  /\ call' = [call EXCEPT ![c] = [at |-> "undo", fact |-> log[i].fact, entry |-> i]]
  /\ MarkOverlap(log[i].fact, Callers)
  /\ UNCHANGED <<facts, archived, now, log, sweep, doubted, crashes, rewritten>>

Undoing(c, at, kind) == call[c].at = at /\ log[call[c].entry].kind = kind
Then(c, at)          == call' = [call EXCEPT ![c].at = at]
Leave(c)             == call' = [call EXCEPT ![c] = Idle]

\* Mutation: an older bound may be undone under a newer one.
CheckLatestNot(c) ==
  /\ Undoing(c, "undo", "fact_supersede")
  /\ Then(c, "write")
  /\ UNCHANGED <<facts, archived, now, log, sweep, doubted, crashes, overlapped, rewritten>>

\* The fact is there, and its bound is still the one this entry set; else an error.
CheckLatest(c) ==
  /\ Undoing(c, "undo", "fact_supersede")
  /\ LET f == call[c].fact
     IN  IF f \in DOMAIN facts /\ facts[f].valid_to = log[call[c].entry].valid_to
           THEN Then(c, "write") ELSE Leave(c)
  /\ UNCHANGED <<facts, archived, now, log, sweep, doubted, crashes, overlapped, rewritten>>

\* Both columns as they were; the statement fails if the same has been stated again.
WriteBack(c) ==
  /\ Undoing(c, "write", "fact_supersede")
  /\ LET f == call[c].fact
         e == log[call[c].entry]
     IN  IF f \in DOMAIN facts /\ e.prior_expired_at = None /\ Clash(f)
           THEN Leave(c) /\ UNCHANGED <<facts, rewritten>>
           ELSE /\ Then(c, "stamp")
                /\ facts' = IF f \notin DOMAIN facts THEN facts
                            ELSE [facts EXCEPT ![f].valid_to = e.prior_valid_to,
                                               ![f].expired_at = e.prior_expired_at]
                /\ MarkRewritten({f})
  /\ UNCHANGED <<archived, now, log, sweep, doubted, crashes, overlapped>>

\* restore_archived_txn, which writes nothing if the fact is live or the row is gone.
Restore(f) ==
  IF f \in DOMAIN archived
    THEN /\ facts' = With(facts, f, archived[f])
         /\ archived' = Without(archived, f)
         /\ MarkRewritten({f})
    ELSE UNCHANGED <<facts, archived, rewritten>>

Refused(f) == f \in DOMAIN archived /\ archived[f].expired_at = None /\ Clash(f)

\* Mutation: the entry is marked without the fact being restored.
RestoreEntryNot(c) ==
  /\ Undoing(c, "undo", "fact_archive")
  /\ Then(c, "stamp")
  /\ UNCHANGED <<facts, archived, now, log, sweep, doubted, crashes, overlapped, rewritten>>

RestoreEntry(c) ==
  /\ Undoing(c, "undo", "fact_archive")
  /\ LET f == call[c].fact
     IN  IF Refused(f) THEN Leave(c) /\ UNCHANGED <<facts, archived, rewritten>>
                       ELSE Then(c, "stamp") /\ Restore(f)
  /\ UNCHANGED <<now, log, sweep, doubted, crashes, overlapped>>

\* The last statement of both: undone_at.
Stamp(c) ==
  /\ call[c].at = "stamp"
  /\ log' = [log EXCEPT ![call[c].entry].undone = TRUE]
  /\ Leave(c)
  /\ UNCHANGED <<facts, archived, now, sweep, doubted, crashes, overlapped, rewritten>>

\* restore_archived_fact, by the id of the fact.
RestoreArchived(f) ==
  /\ f \in Worked \cap DOMAIN archived /\ ~Refused(f)
  /\ Restore(f) /\ MarkOverlap(f, Callers)
  /\ UNCHANGED <<now, log, call, sweep, doubted, crashes>>

\* unsupersede_txn: everything that retires the fact is cleared.
Unsupersede(f) ==
  /\ f \in Worked \cap DOMAIN facts /\ facts[f] # NewRow /\ ~Clash(f)
  /\ facts' = [facts EXCEPT ![f] = NewRow]
  /\ MarkRewritten({f}) /\ MarkOverlap(f, Callers)
  /\ UNCHANGED <<archived, now, log, call, sweep, doubted, crashes>>

\* The process ends: what is stored stays.
Crash ==
  /\ crashes < MaxCrashes
  /\ crashes' = crashes + 1
  /\ call' = [c \in Callers |-> Idle] /\ sweep' = Rest /\ doubted' = {}
  /\ overlapped' = overlapped \cup {call[c].fact : c \in {d \in Callers : call[d] # Idle}}
  /\ UNCHANGED <<facts, archived, now, log, rewritten>>

Ingest == \E f \in Facts : InsertFact(f) \/ Doubt(f) \/ Contradict(f)

Dream == \/ WindowCloseout \/ SelectCandidates \/ MoveFact
         \/ \E f \in Facts : CheckCandidate(f)

Edit == \/ \E c \in Callers :
             \/ \E f \in Facts, t \in Bounds : ReadFact(c, f, t)
             \/ Supersede(c)
             \/ \E i \in DOMAIN log : ReadEntry(c, i)
             \/ CheckLatest(c) \/ WriteBack(c) \/ RestoreEntry(c) \/ Stamp(c)
        \/ \E f \in Facts : RestoreArchived(f) \/ Unsupersede(f)

Next == Tick \/ Ingest \/ Dream \/ Edit \/ Crash

Spec == Init /\ [][Next]_vars

\* The owner of the store runs the consolidation again and again.
FairSpec == Spec /\ WF_vars(WindowCloseout)
-----------------------------------------------------------------------------
RowsOf(t) == {t[f] : f \in DOMAIN t}

\* Every stored fact is in one of the two tables, and no statement stands twice.
Stored ==
  /\ DOMAIN facts \subseteq Facts /\ RowsOf(facts) \subseteq Row
  /\ DOMAIN archived \subseteq Facts /\ RowsOf(archived) \subseteq Row
  /\ DOMAIN facts \cap DOMAIN archived = {}
  /\ Initial \subseteq DOMAIN facts \cup DOMAIN archived
  /\ \A f, h \in DOMAIN facts :
       Unexpired(f) /\ Unexpired(h) /\ HashOf[f] = HashOf[h] => f = h

\* The tables, and the form of what is logged, called and swept.
TypeOK ==
  /\ Stored
  /\ log \in Seq(Entry) /\ call \in [Callers -> Call]
  /\ sweep.todo \subseteq Facts /\ sweep.next \in sweep.todo \cup {None}
  /\ now \in Times

Standing(i) == ~log[i].undone

\* "a move committed without the log row is exactly the unreachable state this fixes":
\* whatever is in the archive can be found and restored from the log, through sweeps,
\* restores and ends of the process in any order.
ArchivedIsListed ==
  \A f \in DOMAIN archived :
    \E i \in DOMAIN log : log[i].kind = "fact_archive" /\ log[i].fact = f /\ Standing(i)

\* "MOVE a long-expired fact": a fact in the archive expired more than the grace
\* period ago, unless its expiry was written under a sweep that had selected it.
ArchivedLapsed ==
  \A f \in DOMAIN archived : f \in rewritten \/ PastGrace(archived[f])

\* A bound is accounted for: unless calls on a fact overlapped or were cut off, its
\* valid_to is what a supersede set that has not been undone, so that it can be found
\* and undone, and undoing them all, in whatever order they let it, leaves none.
BoundIsListed ==
  \A f \in DOMAIN facts \ overlapped :
    facts[f].valid_to # None =>
      \E i \in DOMAIN log :
        /\ log[i].kind = "fact_supersede" /\ log[i].fact = f
        /\ log[i].valid_to = facts[f].valid_to /\ Standing(i)

\* A fact whose window has closed is expired in the end, or re-opened, unless the
\* interlock holds the sweep back.
WindowsClose ==
  \A f \in Facts :
    f \in DOMAIN facts /\ Lapsed(f)
      ~> \/ ~(f \in DOMAIN facts /\ Lapsed(f))
         \/ ~Allowed(Cardinality({h \in DOMAIN facts : Lapsed(h)}))
=============================================================================
