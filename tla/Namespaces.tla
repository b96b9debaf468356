----------------------------- MODULE Namespaces -----------------------------
(***************************************************************************)
(* Namespaces, their policies and what erases them: `ensure`, `register`   *)
(* and `upgrade` of a policy (facade/namespaces.rs, core/graph/            *)
(* namespace.rs), the cache of policies in front of the table              *)
(* (core/schema.rs), the gate of `forget`, and the erasure itself by       *)
(* source or of a whole namespace (facade/forget.rs, core/graph/           *)
(* queries.rs) beside the ingests it races with.                           *)
(*                                                                         *)
(* All calls share one connection. A transaction has a single owner        *)
(* (module TxnGuard); statements outside one - the reads of the gate and   *)
(* of the candidates, the insertion of an episode - see and join whatever  *)
(* transaction is open.                                                    *)
(***************************************************************************)
EXTENDS Integers

CONSTANTS
  Groups, Names, Facts,
  Sources,
  Episodes, Forgets, Registers, Upgrades,  \* calls, each made once
  In,           \* the namespace of a call
  SourceOf,     \* the source of an episode, None for one stored before sources were
  Scope,        \* the source a forget erases, All for the whole namespace
  Policy,       \* the policy a registration declares
  Extracted,    \* the entities an episode's text yields
  Stated,       \* the facts it yields
  SubjectOf, ObjectsOf,  \* a fact's subject, and its object unless that is a literal
  Default, AppendOnly, OtherPolicies,
  None, All,
  MaxCrashes

Calls    == Episodes \cup Forgets \cup Registers \cup Upgrades
Policies == {Default, AppendOnly} \cup OtherPolicies

ASSUME NamespaceAssumption ==
  /\ In \in [Calls -> Groups] /\ SourceOf \in [Episodes -> Sources \cup {None}]
  /\ Scope \in [Forgets -> Sources \cup {All}] /\ Policy \in [Registers -> Policies]
  /\ Extracted \in [Episodes -> SUBSET Names] /\ Stated \in [Episodes -> SUBSET Facts]
  /\ SubjectOf \in [Facts -> Names] /\ ObjectsOf \in [Facts -> SUBSET Names]
  /\ None \notin Calls \cup Policies \cup Sources /\ All \notin Sources /\ Default # AppendOnly
  /\ Episodes \cap (Forgets \cup Registers \cup Upgrades) = {}
  /\ Forgets \cap (Registers \cup Upgrades) = {} /\ Registers \cap Upgrades = {}
  /\ MaxCrashes \in Nat

VARIABLES
  pc,        \* where each call is
  db,        \* the rows a statement sees
  durable,   \* the rows a rollback or a crash goes back to
  txn,       \* the owner of the open transaction
  cache,     \* the policy cache of the process
  read,      \* the policy a forget has read and not yet put in the cache
  cand,      \* the candidates a forget has still to count
  doomed,    \* the names a forget will delete
  crashes,
  \* What the properties remember:
  promised,  \* the policy a namespace was last registered with or upgraded to
  early,     \* namespaces promised AppendOnly before its upgrade dropped the cache entry
  late,      \* forgets of this process that began when AppendOnly was promised
  overtaken, \* namespaces in which an upgrade overtook a reader of the row
  kept,      \* what a forget by source found of others and no other call removed
  erased     \* episodes of committed forgets

rows   == <<db, durable, txn>>
policy == <<cache, read>>
plan   == <<cand, doomed>>
ghosts == <<promised, early, late, overtaken, kept, erased>>
vars   == <<pc, rows, policy, plan, crashes, ghosts>>

-----------------------------------------------------------------------------
\* Statements on the rows.

Endpoints(x) == {SubjectOf[x]} \cup ObjectsOf[x]

\* A forward reference gets a stub, and an edge only when it is an object.
Mentioned(e) == {n \in Names : n \in Extracted[e] \/ \E x \in Stated[e] : n \in ObjectsOf[x]}
Known(e)     == Mentioned(e) \cup {SubjectOf[x] : x \in Stated[e]}

Matches(f, e) == In[e] = In[f] /\ Scope[f] \in {All, SourceOf[e]}

\* The rows a fact or an edge refers to exist.
Referential(d) ==
  /\ \A e \in Episodes, n \in Names :
       <<e, n>> \in d.edges => e \in d.eps /\ <<In[e], n>> \in d.ents
  /\ \A x \in Facts, e \in Episodes :
       <<x, e>> \in d.facts =>
         e \in d.eps /\ \A n \in Endpoints(x) : <<In[e], n>> \in d.ents

\* The outer transaction of ingest: entities and stubs, edges and facts. A fact
\* that is live in any namespace is not stored again; edges and facts of an
\* episode that is gone fail their foreign key and are skipped.
PersistOf(d, e) ==
  LET there == e \in d.eps IN
  [d EXCEPT
     !.ents  = @ \cup {In[e]} \X Known(e),
     !.edges = @ \cup {p \in {e} \X Mentioned(e) : there},
     !.facts = @ \cup {p \in Stated[e] \X {e} : there /\ \A o \in Episodes : <<p[1], o>> \notin @}]

\* batch_forget: by name, in whatever namespace.
BatchForget(d, N) ==
  [d EXCEPT
     !.edges = {p \in @ : p[2] \notin N},
     !.facts = {p \in @ : Endpoints(p[1]) \cap N = {}},
     !.ents  = {p \in @ : p[2] \notin N}]

\* Mutation: the facts of the episodes are left.
CascadeByName(d, f) ==
  [BatchForget(d, doomed[f]) EXCEPT
     !.edges = {p \in @ : ~Matches(f, p[1])}, !.eps = {e \in @ : ~Matches(f, e)}]

\* The cascade of forget: its names, then the facts and edges of its episodes,
\* then the episodes.
Cascade(d, f) ==
  LET rest == BatchForget(d, doomed[f]) IN
  [rest EXCEPT
     !.facts = {p \in @ : ~Matches(f, p[2])},
     !.edges = {p \in @ : ~Matches(f, p[1])},
     !.eps   = {e \in @ : ~Matches(f, e)}]

\* What is left of what a forget found, after a step of another call.
KeptIn(d) == [f \in Forgets |-> [edges |-> kept[f].edges \cap d.edges,
                                 facts |-> kept[f].facts \cap d.facts]]
-----------------------------------------------------------------------------
Go(call, to) == pc' = [pc EXCEPT ![call] = to]

\* The body of a transaction: BEGIN IMMEDIATE waits for the owner to finish.
Transact(call, d) == txn = None /\ txn' = call /\ db' = d /\ UNCHANGED durable

\* remember and forget first ensure the row, in a transaction of its own.
Ensure(call) ==
  /\ pc[call] = "idle" /\ call \in Episodes \cup Forgets /\ txn = None
  /\ db' = [db EXCEPT !.row[In[call]] = IF @ = None THEN Default ELSE @]
  /\ durable' = db'
  /\ Go(call, IF call \in Forgets THEN "gate" ELSE "insert")
  /\ late' = late \cup {f \in {call} \cap Forgets : promised[In[f]] = AppendOnly
                                                   /\ In[f] \notin early}
  /\ UNCHANGED <<txn, policy, plan, crashes, promised, early, overtaken, kept, erased>>

Verdict(p) == IF p = AppendOnly THEN "refused" ELSE "list"

\* get_namespace_policy_cached: a hit decides at once; a miss reads the row, and
\* puts in the cache what it read.
Hit(f) ==
  /\ pc[f] = "gate" /\ cache[In[f]] # None
  /\ Go(f, Verdict(cache[In[f]]))
  /\ UNCHANGED <<rows, policy, plan, crashes, ghosts>>

Miss(f) ==
  /\ pc[f] = "gate" /\ cache[In[f]] = None
  /\ read' = [read EXCEPT ![f] = db.row[In[f]]]
  /\ Go(f, "put")
  /\ UNCHANGED <<rows, cache, plan, crashes, ghosts>>

Put(f) ==
  /\ pc[f] = "put"
  /\ cache' = [cache EXCEPT ![In[f]] = read[f]]
  /\ read' = [read EXCEPT ![f] = None]
  /\ Go(f, Verdict(read[f]))
  /\ UNCHANGED <<rows, plan, crashes, ghosts>>

\* The candidates of a forget by source: the names its episodes mention.
ListSource(f) ==
  /\ pc[f] = "list" /\ Scope[f] # All
  /\ cand' = [cand EXCEPT ![f] = {n \in Names : \E e \in db.eps :
                                    Matches(f, e) /\ <<e, n>> \in db.edges}]
  /\ kept' = [kept EXCEPT ![f] =
                [edges |-> {p \in db.edges : ~Matches(f, p[1])},
                 facts |-> {p \in db.facts : ~Matches(f, p[2])
                                             /\ SubjectOf[p[1]] \in Mentioned(p[2])}]]
  /\ Go(f, "count")
  /\ UNCHANGED <<rows, policy, doomed, crashes, promised, early, late, overtaken, erased>>

\* Of a whole namespace, every name in it is deleted.
ListNamespace(f) ==
  /\ pc[f] = "list" /\ Scope[f] = All
  /\ doomed' = [doomed EXCEPT ![f] = {n \in Names : <<In[f], n>> \in db.ents}]
  /\ Go(f, "count")
  /\ UNCHANGED <<rows, policy, cand, crashes, ghosts>>

\* Mutation: without the guard for episodes that have no source.
PinnedBySource(f, n) ==
  \E e \in db.eps : SourceOf[e] # None /\ ~Matches(f, e) /\ <<e, n>> \in db.edges

\* An episode outside the source, in any namespace or with no source, pins a name.
Pinned(f, n) == \E e \in db.eps : ~Matches(f, e) /\ <<e, n>> \in db.edges

Count(f, n) ==
  /\ pc[f] = "count" /\ n \in cand[f]
  /\ cand' = [cand EXCEPT ![f] = @ \ {n}]
  /\ doomed' = [doomed EXCEPT ![f] = @ \cup {m \in {n} : ~Pinned(f, m)}]
  /\ UNCHANGED <<pc, rows, policy, crashes, ghosts>>

Delete(f) ==
  /\ pc[f] = "count" /\ cand[f] = {}
  /\ Transact(f, Cascade(db, f))
  /\ kept' = [KeptIn(db') EXCEPT ![f] = kept[f]]
  /\ Go(f, "open")
  /\ UNCHANGED <<policy, plan, crashes, promised, early, late, overtaken, erased>>

\* The episode is stored before extraction, by a statement outside a transaction.
Insert(e) ==
  /\ pc[e] = "insert"
  /\ db' = [db EXCEPT !.eps = @ \cup {e}]
  /\ durable' = IF txn = None THEN db' ELSE durable
  /\ Go(e, "extract")
  /\ UNCHANGED <<txn, policy, plan, crashes, ghosts>>

Persist(e) ==
  /\ pc[e] = "extract"
  /\ Transact(e, PersistOf(db, e))
  /\ Go(e, "open")
  /\ UNCHANGED <<policy, plan, crashes, ghosts>>

\* register_namespace writes a policy once; the same again is accepted, another refused.
Register(r) ==
  /\ pc[r] = "idle" /\ db.row[In[r]] \in {None, Policy[r]}
  /\ Transact(r, [db EXCEPT !.row[In[r]] = Policy[r]])
  /\ Go(r, "open")
  /\ UNCHANGED <<policy, plan, crashes, ghosts>>

RegisterRefused(r) ==
  /\ pc[r] = "idle" /\ txn = None /\ db.row[In[r]] \notin {None, Policy[r]}
  /\ Go(r, "refused")
  /\ UNCHANGED <<rows, policy, plan, crashes, ghosts>>

Upgrade(u) ==
  /\ pc[u] = "idle"
  /\ Transact(u, [db EXCEPT !.row[In[u]] = AppendOnly])
  /\ Go(u, "open")
  /\ UNCHANGED <<policy, plan, crashes, ghosts>>

\* An upgrade of the namespace has committed, and its entry is still in the cache.
Closing(g) == \E u \in Upgrades : In[u] = g /\ pc[u] = "invalidate"

Commit(call) ==
  /\ txn = call /\ txn' = None
  /\ durable' = db /\ UNCHANGED db
  /\ Go(call, IF call \in Upgrades THEN "invalidate" ELSE "done")
  /\ promised' = [g \in Groups |-> IF call \in Registers /\ In[call] = g
                                   THEN Policy[call] ELSE promised[g]]
  /\ early' = early \cup {g \in Groups : promised'[g] = AppendOnly /\ promised[g] # AppendOnly
                                         /\ Closing(g)}
  /\ erased' = erased \cup {e \in durable.eps : call \in Forgets /\ Matches(call, e)}
  /\ UNCHANGED <<policy, plan, crashes, late, overtaken, kept>>

\* A statement or the COMMIT failed: the call returns its error.
Rollback(call) ==
  /\ txn = call /\ txn' = None
  /\ db' = durable /\ UNCHANGED durable
  /\ kept' = KeptIn(durable)
  /\ Go(call, "failed")
  /\ UNCHANGED <<policy, plan, crashes, promised, early, late, overtaken, erased>>

\* Mutation: the entry stays in the cache.
InvalidateNot(u) ==
  /\ pc[u] = "invalidate"
  /\ promised' = [promised EXCEPT ![In[u]] = AppendOnly] /\ early' = early \ {In[u]}
  /\ Go(u, "done")
  /\ UNCHANGED <<rows, policy, plan, crashes, late, overtaken, kept, erased>>

\* upgrade_namespace_policy drops the entry after COMMIT, and only then returns.
Invalidate(u) ==
  /\ pc[u] = "invalidate"
  /\ cache' = [cache EXCEPT ![In[u]] = None]
  /\ promised' = [promised EXCEPT ![In[u]] = AppendOnly] /\ early' = early \ {In[u]}
  /\ overtaken' = overtaken \cup {g \in {In[u]} : \E f \in Forgets :
                     pc[f] = "put" /\ In[f] = g /\ read[f] # AppendOnly}
  /\ Go(u, "done")
  /\ UNCHANGED <<rows, read, plan, crashes, late, kept, erased>>

\* The cache holds 256 namespaces; any entry may be the one that makes room.
Evict(g) ==
  /\ cache[g] # None /\ cache' = [cache EXCEPT ![g] = None]
  /\ UNCHANGED <<pc, rows, read, plan, crashes, ghosts>>

Running == {"gate", "put", "list", "count", "insert", "extract", "open", "invalidate"}

\* The process ends and is started again: SQLite rolls back, the cache is empty.
Crash ==
  /\ crashes < MaxCrashes /\ crashes' = crashes + 1
  /\ db' = durable /\ txn' = None /\ UNCHANGED durable
  /\ cache' = [g \in Groups |-> None] /\ read' = [f \in Forgets |-> None]
  /\ pc' = [c \in Calls |-> IF pc[c] \in Running THEN "gone" ELSE pc[c]]
  /\ overtaken' = {} /\ early' = {} /\ late' = {} /\ kept' = KeptIn(durable)
  /\ UNCHANGED <<plan, promised, erased>>
-----------------------------------------------------------------------------
Init ==
  /\ pc = [c \in Calls |-> "idle"]
  /\ db = [row |-> [g \in Groups |-> None], eps |-> {}, ents |-> {}, edges |-> {}, facts |-> {}]
  /\ durable = db /\ txn = None
  /\ cache = [g \in Groups |-> None] /\ read = [f \in Forgets |-> None]
  /\ cand = [f \in Forgets |-> {}] /\ doomed = [f \in Forgets |-> {}] /\ crashes = 0
  /\ promised = [g \in Groups |-> None] /\ early = {} /\ late = {} /\ overtaken = {} /\ erased = {}
  /\ kept = [f \in Forgets |-> [edges |-> {}, facts |-> {}]]

Next ==
  \/ \E c \in Calls : Ensure(c) \/ Commit(c) \/ Rollback(c)
  \/ \E f \in Forgets :
       \/ Hit(f) \/ Miss(f) \/ Put(f) \/ ListSource(f) \/ ListNamespace(f) \/ Delete(f)
       \/ \E n \in Names : Count(f, n)
  \/ \E e \in Episodes : Insert(e) \/ Persist(e)
  \/ \E r \in Registers : Register(r) \/ RegisterRefused(r)
  \/ \E u \in Upgrades : Upgrade(u) \/ Invalidate(u)
  \/ \E g \in Groups : Evict(g)
  \/ Crash

Spec == Init /\ [][Next]_vars
-----------------------------------------------------------------------------
Stores == [row : [Groups -> Policies \cup {None}], eps : SUBSET Episodes,
           ents : SUBSET (Groups \X Names), edges : SUBSET (Episodes \X Names),
           facts : SUBSET (Facts \X Episodes)]

TypeOK ==
  /\ pc \in [Calls -> Running \cup {"idle", "refused", "done", "failed", "gone"}]
  /\ db \in Stores /\ durable \in Stores /\ txn \in Calls \cup {None}
  /\ cache \in [Groups -> Policies \cup {None}] /\ read \in [Forgets -> Policies \cup {None}]
  /\ cand \in [Forgets -> SUBSET Names] /\ doomed \in [Forgets -> SUBSET Names]
  /\ crashes \in Nat
  /\ promised \in [Groups -> Policies \cup {None}] /\ early \subseteq Groups
  /\ late \subseteq Forgets
  /\ overtaken \subseteq Groups /\ erased \subseteq Episodes
  /\ kept \in [Forgets -> [edges : SUBSET (Episodes \X Names),
                           facts : SUBSET (Facts \X Episodes)]]

Admitted == {"list", "count", "open", "done", "failed"}

\* A policy that an Ok of a registration or an upgrade has answered for stays, or becomes
\* AppendOnly, whatever is rolled back or crashes; and no forget that begins after
\* AppendOnly was promised gets past the gate, unless the upgrade overtook a reader that
\* then put the old policy back, or the promise is a registration's that found the row of
\* an upgrade which has still to drop the cache entry, until it does.
AppendOnlyStands ==
  /\ \A g \in Groups : promised[g] # None => durable.row[g] \in {promised[g], AppendOnly}
  /\ \A f \in late : In[f] \notin overtaken => pc[f] \notin Admitted

\* What other episodes mention when a forget by source lists its candidates, the
\* entities and the facts about them that these episodes state, is still there unless
\* another call removed it.
SharedKept ==
  \A f \in Forgets :
    /\ kept[f].facts \subseteq db.facts
    /\ \A p \in kept[f].edges : p \in db.edges /\ <<In[p[1]], p[2]>> \in db.ents

\* An episode that was erased does not come back, and nothing refers to a row that is
\* gone: the cascade never meets a foreign key, nor does an ingest under way.
ErasureStands == erased \cap db.eps = {} /\ Referential(db)
=============================================================================
