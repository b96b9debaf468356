--------------------------- MODULE GraphMutations ---------------------------
(***************************************************************************)
(* Logged, reversible mutations of the knowledge graph: every one writes a *)
(* row of graph_mutation_log with a snapshot in the same transaction, and  *)
(* `undo(id)` reverses any row that is still standing, in any order.  One  *)
(* step is one committed transaction (TxnGuard says why that is sound for  *)
(* guarded writers); a transaction that fails leaves everything as it was  *)
(* and is not a step.                                                      *)
(*                                                                         *)
(* Two things are read in one transaction and used in another: the nogood  *)
(* pairs, loaded once per dream pass, and the facts the contradiction or   *)
(* alias check has found unexpired and expires later by id.                *)
(***************************************************************************)
EXTENDS GraphOps, Sequences

CONSTANTS
  InitialGraphs,   \* the graphs an earlier ingest may have left
  Ops,             \* names of the operations the callers use
  MaxLog           \* bound: mutations ever logged

OpNames == {"fact", "entity", "expire", "communities", "merge", "rename", "retype",
            "entity_delete", "fact_delete"}

\* What ingest leaves behind: rows of their types, no two unexpired facts with
\* one hash, and no fact both live and archived.
ASSUME MutationAssumption ==
  /\ Ops \subseteq OpNames /\ MaxLog \in Nat
  /\ \A h \in InitialGraphs :
       IsGraph(h) /\ HashUnique(h) /\ DOMAIN h.live \cap DOMAIN h.arch = {}

VARIABLES
  g,       \* the graph
  log,     \* graph_mutation_log, by id
  known,   \* the nogood pairs the running dream pass has loaded
  seen,    \* facts somebody has read as unexpired and is about to expire
  base     \* history: the graph that additions alone would have produced

vars == <<g, log, known, seen, base>>

Init ==
  /\ g \in InitialGraphs /\ base = g
  /\ log = <<>> /\ known = {} /\ seen = {}

Standing(i, kind) == log[i].kind = kind /\ ~log[i].undone

\* A mutation: the snapshot row and the new graph, in one transaction.
Mutate(op, entry, new) ==
  /\ op \in Ops /\ Len(log) < MaxLog
  /\ log' = Append(log, entry)
  /\ g' = new
  /\ UNCHANGED <<known, seen, base>>

\* Its reversal: undone_at is stamped in the same transaction.
Reverse(i, new) ==
  /\ log' = [log EXCEPT ![i].undone = TRUE]
  /\ g' = new
  /\ UNCHANGED <<known, seen, base>>

-----------------------------------------------------------------------------
\* Ingest and the passes that do not log

\* insert_fact_with_group: a self-loop is refused, and so is a statement whose
\* hash an unexpired fact already has.  A row id is never used twice.
AddFact(f, s, o) ==
  /\ "fact" \in Ops
  /\ f \notin DOMAIN g.live \cup DOMAIN g.arch
  /\ {s, o} \ {Literal} \subseteq DOMAIN g.ent /\ s # o
  /\ LET row == [s |-> s, o |-> o, hash |-> <<s, o>>, exp |-> "no", inert |-> FALSE]
         new == [g EXCEPT !.live = Over(One(f, row), @)] IN
       /\ HashUnique(new)
       /\ g' = new
       /\ base' = [base EXCEPT !.live = Over(One(f, row), @)]
  /\ UNCHANGED <<log, known, seen>>

\* Ingest finds a name that no row has: insert_entity_with_group, then
\* insert_episodic_edge (INSERT OR IGNORE), inside the ingest's transaction.
AddEntity(i, ep, t) ==
  /\ "entity" \in Ops
  /\ i \notin DOMAIN g.ent
  /\ LET Adding(h) == [h EXCEPT !.ent = Over(One(i, [props |-> i, ac |-> 0, ty |-> t]), @),
                                !.edges = @ \cup {<<ep, i>>}] IN
       /\ g' = Adding(g)
       /\ base' = IF i \in DOMAIN base.ent THEN base ELSE Adding(base)
  /\ UNCHANGED <<log, known, seen>>

\* The deferred contradiction check and the alias resolver read facts WHERE
\* expired_at IS NULL, await (an LLM, another query) ...
ReadUnexpired(f) ==
  /\ "expire" \in Ops
  /\ f \in DOMAIN g.live \ seen /\ g.live[f].exp = "no"
  /\ seen' = seen \cup {f}
  /\ UNCHANGED <<g, log, known, base>>

\* ... and stamp them by id and nothing else, with no guard around the two.
InvalidateFact(f) ==
  /\ f \in seen
  /\ g' = IF f \in DOMAIN g.live THEN [g EXCEPT !.live[f].exp = "other"] ELSE g
  /\ seen' = seen \ {f}
  /\ UNCHANGED <<log, known, base>>

\* Community detection wipes the partition and writes a fresh one over the
\* entities there are.  Each statement commits by itself: a pass that dies leaves
\* a part of the new partition.
DetectCommunities(members, c) ==
  /\ "communities" \in Ops
  /\ members \subseteq DOMAIN g.ent
  /\ g' = [g EXCEPT !.comm = [i \in members |-> c]]
  /\ UNCHANGED <<log, known, seen, base>>

\* load_merge_nogoods, once per pass.
StartPass ==
  /\ known # g.nogood
  /\ known' = g.nogood
  /\ UNCHANGED <<g, log, seen, base>>

-----------------------------------------------------------------------------
\* Logged mutations

Merge(l, k) ==
  /\ {l, k} \notin known
  /\ Mergeable(g, l, k)
  /\ Mutate("merge", MergeSnapshot(g, l, k), MergeOf(g, l, k))

Rename(a, b) ==
  /\ Renameable(g, a, b)
  /\ Mutate("rename", RenameSnapshot(g, a, b), RenameOf(g, a, b))

Retype(e, t) ==
  /\ e \in DOMAIN g.ent
  /\ Mutate("retype", RetypeSnapshot(g, e, t), RetypeOf(g, e, t))

DeleteEntity(e) ==
  /\ e \in DOMAIN g.ent /\ Archivable(g, FactsOf(g, e))
  /\ Mutate("entity_delete", DeleteEntitySnapshot(g, e), DeleteEntityOf(g, e))

DeleteFact(f) ==
  /\ f \in DOMAIN g.live /\ Archivable(g, {f})
  /\ Mutate("fact_delete", DeleteFactSnapshot(g, f), DeleteFactOf(g, f))

-----------------------------------------------------------------------------
\* Reversals.  One already undone returns without a write.

\* Mutation: a chain is only looked for through the keeper merged away.
LaterAwayOnly(i) ==
  \E j \in (i + 1)..Len(log) : Standing(j, "merge") /\ log[j].loser = log[i].keeper

PairOf(m) == {m.loser, m.keeper}

\* later_chained_merge: only merges chain, and only merges are checked.
LaterChained(i) ==
  \E j \in (i + 1)..Len(log) :
    Standing(j, "merge") /\ PairOf(log[j]) \cap PairOf(log[i]) # {}

Unmerge(i) ==
  /\ Standing(i, "merge") /\ ~LaterChained(i)
  /\ Unmergeable(g, log[i])
  /\ Reverse(i, UnmergeOf(g, log[i]))

UndoRename(i) ==
  /\ Standing(i, "rename") /\ RenameUndoable(g, log[i])
  /\ Reverse(i, UndoRenameOf(g, log[i]))

UndoRetype(i) ==
  /\ Standing(i, "retype")
  /\ Reverse(i, UndoRetypeOf(g, log[i]))

UndoDeleteEntity(i) ==
  /\ Standing(i, "entity_delete") /\ EntityDeleteUndoable(g, log[i])
  /\ Reverse(i, UndoDeleteEntityOf(g, log[i]))

UndoDeleteFact(i) ==
  /\ Standing(i, "fact_delete") /\ Restorable(g, {log[i].fact})
  /\ Reverse(i, UndoDeleteFactOf(g, log[i]))

Next ==
  \/ \E f \in Facts : ReadUnexpired(f) \/ InvalidateFact(f) \/ DeleteFact(f)
  \/ \E f \in Facts, s \in Ids, o \in Ids \cup {Literal} : AddFact(f, s, o)
  \/ \E i \in Ids, ep \in Episodes, t \in Types : AddEntity(i, ep, t)
  \/ \E members \in SUBSET Ids, c \in Communities : DetectCommunities(members, c)
  \/ StartPass
  \/ \E a, b \in Ids : Merge(a, b) \/ Rename(a, b)
  \/ \E e \in Ids, t \in Types : Retype(e, t)
  \/ \E e \in Ids : DeleteEntity(e)
  \/ \E i \in DOMAIN log : \/ Unmerge(i) \/ UndoRename(i) \/ UndoRetype(i)
                           \/ UndoDeleteEntity(i) \/ UndoDeleteFact(i)

Spec == Init /\ [][Next]_vars

-----------------------------------------------------------------------------
LogRows == MergeRows \cup RenameRows \cup RetypeRows \cup EntityDeleteRows \cup FactDeleteRows

\* Types, the unique index of the facts, and distinct keys in every merge row.
TypeOK ==
  /\ IsGraph(g) /\ IsGraph(base)
  /\ HashUnique(g)
  /\ log \in Seq(LogRows) /\ Len(log) <= MaxLog
  /\ \A i \in DOMAIN log : log[i].kind = "merge" => log[i].loser # log[i].keeper
  /\ seen \subseteq Facts
  /\ known \subseteq g.nogood

\* A fact row is in facts or in facts_archive, never in both: a restore that
\* finds the fact live would otherwise throw the archived row away.
OneHome == DOMAIN g.live \cap DOMAIN g.arch = {}

\* No operation and no reversal ever loses a fact row.
FactsNeverLost ==
  [][DOMAIN g.live \cup DOMAIN g.arch \subseteq DOMAIN g'.live \cup DOMAIN g'.arch]_vars

\* In every graph the system can reach, reversing a merge that was just made
\* gives that graph back, whatever else the graph has been through; only the
\* nogood is new.
MergeUndoExact ==
  \A l, k \in Ids : Mergeable(g, l, k) =>
    LET m == MergeSnapshot(g, l, k)  merged == MergeOf(g, l, k) IN
      /\ Unmergeable(merged, m)
      /\ UnmergeOf(merged, m) = [g EXCEPT !.nogood = @ \cup {{l, k}}]

\* The same for an edit, when nothing in any table still names the new id.
Unused(b) ==
  /\ FactsOf(g, b) = {} /\ ArchivedOf(g, b) = {} /\ EpisodesOf(g, b) = {}
  /\ b \notin DOMAIN g.comm

EditUndoExact ==
  /\ \A a, b \in Ids : Renameable(g, a, b) /\ Unused(b) =>
       LET m == RenameSnapshot(g, a, b)  edited == RenameOf(g, a, b) IN
         RenameUndoable(edited, m) /\ UndoRenameOf(edited, m) = g
  /\ \A e \in DOMAIN g.ent, t \in Types :
       UndoRetypeOf(RetypeOf(g, e, t), RetypeSnapshot(g, e, t)) = g

\* The same for a deletion, up to corroboration_inert, which the archive drops.
Restored(F) ==
  [g EXCEPT !.live = [f \in DOMAIN @ |-> IF f \in F THEN [@[f] EXCEPT !.inert = FALSE]
                                                   ELSE @[f]]]

DeleteUndoExact ==
  /\ \A e \in DOMAIN g.ent : Archivable(g, FactsOf(g, e)) =>
       LET m == DeleteEntitySnapshot(g, e)  deleted == DeleteEntityOf(g, e) IN
         /\ EntityDeleteUndoable(deleted, m)
         /\ UndoDeleteEntityOf(deleted, m) = Restored(FactsOf(g, e))
  /\ \A f \in DOMAIN g.live : Archivable(g, {f}) =>
       LET m == DeleteFactSnapshot(g, f)  deleted == DeleteFactOf(g, f) IN
         /\ Restorable(deleted, {f})
         /\ UndoDeleteFactOf(deleted, m) = Restored({f})

\* Two merges without an entity in common have both re-pointed f, one at each end.
\* They do not chain, so they may be undone in either order.
Repointed(m) == DOMAIN m.subjects \cup DOMAIN m.objects

Crossed(f) ==
  \E i, j \in {x \in DOMAIN log : log[x].kind = "merge"} :
    /\ PairOf(log[i]) \cap PairOf(log[j]) = {}
    /\ f \in Repointed(log[i]) \cap Repointed(log[j])

\* With merges as the only mutations, undoing all of them in any order the LIFO
\* guard admits gives the graph that additions alone would have produced, but for
\* corroboration_inert of the facts that merges cross on: each undo writes back the
\* flag its own merge has read, and the later merge may have read the earlier's.
AllUndoneRestores ==
  (\A i \in DOMAIN log : log[i].undone) =>
    g = [base EXCEPT
           !.nogood = g.nogood,
           !.live = [f \in DOMAIN @ |->
                       IF Crossed(f) THEN [@[f] EXCEPT !.inert = g.live[f].inert] ELSE @[f]]]

\* No fact and no edge of h names an entity that is not there, and no unexpired fact
\* relates an entity to itself ...
Anchored(h) ==
  /\ \A f \in DOMAIN h.live :
       /\ Endpoints(h.live[f]) \subseteq DOMAIN h.ent
       /\ h.live[f].exp = "no" => h.live[f].s # h.live[f].o
  /\ \A e \in h.edges : e[2] \in DOMAIN h.ent

\* ... whatever merges have re-pointed and unmerges have put back.
EndpointsSound == Anchored(g)
=============================================================================
