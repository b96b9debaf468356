------------------------------ MODULE GraphOps ------------------------------
(***************************************************************************)
(* The knowledge graph of one namespace as a value, and what each logged   *)
(* mutation and its reversal do to it: the merge executor                  *)
(* (canonicalization/mod.rs), unmerge and restore (dream/provenance/       *)
(* reversal.rs), rename and retype (edit.rs), deletion (delete.rs).        *)
(*                                                                         *)
(* A mutation comes as three operators: what its `pre_state` snapshot      *)
(* holds, the graph it produces, and when the statements are accepted (a   *)
(* missing row, an occupied primary key or a unique index aborts the       *)
(* transaction and leaves the graph alone).  Foreign keys are taken as not *)
(* enforced, the larger behaviour: enforcement only refuses more.          *)
(*                                                                         *)
(* A graph is a record                                                     *)
(*   ent    entities: id -> row                                            *)
(*   live   facts: fact id -> row            arch  facts_archive, likewise *)
(*   edges  episodic_edges: <<episode, id>>                                *)
(*   comm   entity_communities: id -> community (no foreign key)           *)
(*   nogood merge_nogood: unordered pairs of ids                           *)
(***************************************************************************)
EXTENDS Naturals, Functions

CONSTANTS
  Ids,           \* entity names: the primary key inside one namespace
  Facts,         \* fact row ids (AUTOINCREMENT: never used twice)
  Episodes,
  Types,         \* the registered entity types
  Communities,
  Literal        \* model value: the object of a fact that is not an entity

ASSUME GraphAssumption == Literal \notin Ids

\* `props` stands for everything a row carries that no mutation interprets.
EntityRows == [props : Ids, ac : Nat, ty : Types]

\* `hash` is content_hash, computed from the endpoints at insertion and never
\* again; `exp` is expired_at with who stamped it.  An archived row has no
\* corroboration_inert: FALSE there stands for the column's default.
FactRows == [s : Ids, o : Ids \cup {Literal}, hash : Ids \X (Ids \cup {Literal}),
             exp : {"no", "merge", "other"}, inert : BOOLEAN]

\* A table: rows of T under keys of S.  (The set, for the small ones, that a
\* snapshot holds.)
IsTable(f, S, T) == DOMAIN f \subseteq S /\ f \in [DOMAIN f -> T]
Tables(S, T) == UNION {[D -> T] : D \in SUBSET S}

Pairs == {p \in SUBSET Ids : \E i, j \in p : i # j /\ p = {i, j}}

IsGraph(g) ==
  /\ g = [ent |-> g.ent, live |-> g.live, arch |-> g.arch,
          edges |-> g.edges, comm |-> g.comm, nogood |-> g.nogood]
  /\ IsTable(g.ent, Ids, EntityRows)
  /\ IsTable(g.live, Facts, FactRows) /\ IsTable(g.arch, Facts, FactRows)
  /\ g.edges \subseteq Episodes \X Ids
  /\ IsTable(g.comm, Ids, Communities)
  /\ g.nogood \subseteq Pairs

-----------------------------------------------------------------------------
\* A table of one row; and f, with the rows of h under the keys that f has not.
One(x, v) == [y \in {x} |-> v]
Over(f, h) == [x \in DOMAIN f \cup DOMAIN h |-> IF x \in DOMAIN f THEN f[x] ELSE h[x]]

\* Rows

\* Mutation: only the subject column is looked at.
TouchesSubject(r, e) == r.s = e

Touches(r, e) == r.s = e \/ r.o = e

\* Mutation: only the subject column is re-pointed.
MoveSubject(r, from, to) == [r EXCEPT !.s = IF @ = from THEN to ELSE @]

\* Re-point both endpoints of a fact row.
Move(r, from, to) ==
  [r EXCEPT !.s = IF @ = from THEN to ELSE @, !.o = IF @ = from THEN to ELSE @]

\* UPDATE ... SET key = to WHERE key = from, on a table keyed by entity id.
MoveKey(f, from, to) ==
  IF from \in DOMAIN f
    THEN Over(One(to, f[from]), Restrict(f, DOMAIN f \ {from}))
    ELSE f

\* Mutations: a snapshot that leaves out the archive, or the community.
NoArchivedOf(g, e) == {}
NoCommunityOf(g, e) == {}

FactsOf(g, e) == {f \in DOMAIN g.live : Touches(g.live[f], e)}
ArchivedOf(g, e) == {f \in DOMAIN g.arch : Touches(g.arch[f], e)}
EpisodesOf(g, e) == {ep \in Episodes : <<ep, e>> \in g.edges}
CommunityOf(g, e) == {g.comm[x] : x \in {e} \cap DOMAIN g.comm}

\* idx_facts_content_hash_unique: among the facts that are not expired.
HashUnique(g) ==
  \A f, h \in DOMAIN g.live :
    f # h /\ g.live[f].exp = "no" /\ g.live[h].exp = "no"
      => g.live[f].hash # g.live[h].hash

-----------------------------------------------------------------------------
\* entity_merge: apply_merge_with_audit and unmerge

\* Mutation: a self-loop is looked for in one direction only.
SelfLoopsOneWay(g, l, k) ==
  {f \in DOMAIN g.live : g.live[f].exp = "no" /\ g.live[f].s = l /\ g.live[f].o = k}

\* SELF_LOOP_FACT_IDS_SQL: the live facts the merge collapses onto the keeper.
SelfLoops(g, l, k) ==
  {f \in DOMAIN g.live : /\ g.live[f].exp = "no"
                         /\ <<g.live[f].s, g.live[f].o>> \in {<<l, k>>, <<k, l>>, <<l, l>>}}

MergeSnapshot(g, l, k) ==
  [kind |-> "merge", loser |-> l, keeper |-> k,
   row |-> g.ent[l], ac |-> g.ent[k].ac,
   subjects |-> [f \in {h \in FactsOf(g, l) : g.live[h].s = l} |-> g.live[f].inert],
   objects |-> [f \in {h \in FactsOf(g, l) : g.live[h].o = l} |-> g.live[f].inert],
   collided |-> EpisodesOf(g, l) \cap EpisodesOf(g, k),
   moved |-> EpisodesOf(g, l) \ EpisodesOf(g, k),
   loops |-> SelfLoops(g, l, k),
   undone |-> FALSE]

\* facts_archive and entity_communities are not touched.
MergeOf(g, l, k) ==
  [g EXCEPT
    !.live = [f \in DOMAIN g.live |->
                [Move(g.live[f], l, k) EXCEPT
                   !.inert = @ \/ Touches(g.live[f], l),
                   !.exp = IF f \in SelfLoops(g, l, k) THEN "merge" ELSE @]],
    !.edges = {e \in @ : e[2] # l} \cup {<<ep, k>> : ep \in EpisodesOf(g, l)},
    !.ent = [i \in DOMAIN g.ent \ {l} |->
               IF i = k THEN [g.ent[k] EXCEPT !.ac = @ + g.ent[l].ac] ELSE g.ent[i]]]

\* INSERT OR IGNORE INTO merge_nogood, the pair sorted.
Forbid(nogood, m) == nogood \cup {{m.loser, m.keeper}}

MergeRows ==
  [kind : {"merge"}, loser : Ids, keeper : Ids, row : EntityRows, ac : Nat,
   subjects : Tables(Facts, BOOLEAN), objects : Tables(Facts, BOOLEAN),
   collided : SUBSET Episodes, moved : SUBSET Episodes, loops : SUBSET Facts,
   undone : BOOLEAN]

Mergeable(g, l, k) == l # k /\ {l, k} \subseteq DOMAIN g.ent

UnmergeOf(g, m) ==
  LET back == {ep \in m.moved : <<ep, m.keeper>> \in g.edges} IN
  [g EXCEPT
    !.ent = Over(One(m.loser, m.row), [g.ent EXCEPT ![m.keeper].ac = m.ac]),
    !.live = [f \in DOMAIN g.live |->
                [g.live[f] EXCEPT
                   !.s = IF f \in DOMAIN m.subjects THEN m.loser ELSE @,
                   !.o = IF f \in DOMAIN m.objects THEN m.loser ELSE @,
                   !.inert = CASE f \in DOMAIN m.objects -> m.objects[f]
                               [] f \in DOMAIN m.subjects -> m.subjects[f]
                               [] OTHER -> @,
                   !.exp = IF f \in m.loops THEN "no" ELSE @]],
    !.edges = (@ \ (back \X {m.keeper})) \cup ((back \cup m.collided) \X {m.loser}),
    !.nogood = Forbid(@, m)]

\* The loser's INSERT finds its key free, the keeper is still there (UndoStale
\* otherwise), and no unique index refuses a row.
Unmergeable(g, m) ==
  /\ m.loser \notin DOMAIN g.ent /\ m.keeper \in DOMAIN g.ent
  /\ \A ep \in m.collided : <<ep, m.loser>> \notin g.edges
  /\ \A ep \in m.moved : ~ {<<ep, m.loser>>, <<ep, m.keeper>>} \subseteq g.edges
  /\ HashUnique(UnmergeOf(g, m))

-----------------------------------------------------------------------------
\* entity_edit: rename (rekey) and retype

RenameRows ==
  [kind : {"rename"}, old : Ids, new : Ids, facts : SUBSET Facts,
   archived : SUBSET Facts, episodes : SUBSET Episodes, undone : BOOLEAN]

RenameSnapshot(g, a, b) ==
  [kind |-> "rename", old |-> a, new |-> b,
   facts |-> FactsOf(g, a), archived |-> ArchivedOf(g, a), episodes |-> EpisodesOf(g, a),
   undone |-> FALSE]

\* rekey_all_fks and the in-place UPDATE of the entity row; merge_nogood keeps
\* the old name.
RenameOf(g, a, b) ==
  [g EXCEPT
    !.live = [f \in DOMAIN @ |-> Move(@[f], a, b)],
    !.arch = [f \in DOMAIN @ |-> Move(@[f], a, b)],
    !.edges = {<<e[1], IF e[2] = a THEN b ELSE e[2]>> : e \in @},
    !.comm = MoveKey(@, a, b),
    !.ent = MoveKey(@, a, b)]

\* EntityEditConflict, or a primary key that the re-pointed row would share.
Rekeyable(g, a, b) ==
  /\ ~ {a, b} \subseteq DOMAIN g.comm
  /\ EpisodesOf(g, a) \cap EpisodesOf(g, b) = {}

Renameable(g, a, b) ==
  a # b /\ a \in DOMAIN g.ent /\ b \notin DOMAIN g.ent /\ Rekeyable(g, a, b)

\* Only the snapshotted rows are re-pointed, wherever they now name `new`; the
\* community row and the entity row are moved whatever they are, if there.
UndoRenameOf(g, m) ==
  LET back == {ep \in m.episodes : <<ep, m.new>> \in g.edges} IN
  [g EXCEPT
    !.live = [f \in DOMAIN @ |-> IF f \in m.facts THEN Move(@[f], m.new, m.old) ELSE @[f]],
    !.arch = [f \in DOMAIN @ |-> IF f \in m.archived THEN Move(@[f], m.new, m.old) ELSE @[f]],
    !.edges = (@ \ (back \X {m.new})) \cup (back \X {m.old}),
    !.comm = MoveKey(@, m.new, m.old),
    !.ent = MoveKey(@, m.new, m.old)]

RenameUndoable(g, m) ==
  /\ ~ {m.old, m.new} \subseteq DOMAIN g.ent
  /\ ~ {m.old, m.new} \subseteq DOMAIN g.comm
  /\ \A ep \in m.episodes : ~ {<<ep, m.old>>, <<ep, m.new>>} \subseteq g.edges

RetypeRows ==
  [kind : {"retype"}, old : Ids, ty : Types, comm : SUBSET Communities, undone : BOOLEAN]

RetypeSnapshot(g, e, t) ==
  [kind |-> "retype", old |-> e, ty |-> g.ent[e].ty, comm |-> CommunityOf(g, e),
   undone |-> FALSE]

RetypeOf(g, e, t) ==
  [g EXCEPT !.ent[e].ty = t, !.comm = Restrict(@, DOMAIN @ \ {e})]

\* The UPDATE may find no row; the community is put back all the same.
UndoRetypeOf(g, m) ==
  [g EXCEPT
    !.ent = [i \in DOMAIN @ |-> IF i = m.old THEN [@[i] EXCEPT !.ty = m.ty] ELSE @[i]],
    !.comm = IF m.comm = {} THEN @ ELSE Over(One(m.old, CHOOSE c \in m.comm : TRUE), @)]

-----------------------------------------------------------------------------
\* entity_delete and fact_delete

\* Mutation: the DELETE without the INSERT INTO facts_archive.
ArchiveDeletesOnly(g, F) == [g EXCEPT !.live = Restrict(@, DOMAIN @ \ F)]

\* archive_fact for each fact of F, in the caller's transaction.
ArchiveFacts(g, F) ==
  [g EXCEPT
    !.live = Restrict(@, DOMAIN @ \ F),
    !.arch = Over([f \in F |-> [g.live[f] EXCEPT !.inert = FALSE]], @)]

\* Mutation: the INSERT INTO facts without the DELETE FROM facts_archive.
RestoreKeepsArchive(g, F) ==
  [g EXCEPT !.live = Over(@, Restrict(g.arch, F \cap DOMAIN g.arch))]

\* restore_archived_txn for each fact of F: a fact already live only loses its
\* archive row.
RestoreFacts(g, F) ==
  [g EXCEPT !.live = Over(@, Restrict(g.arch, F \cap DOMAIN g.arch)),
            !.arch = Restrict(@, DOMAIN @ \ F)]

Archivable(g, F) == F \cap DOMAIN g.arch = {}
Restorable(g, F) ==
  F \subseteq DOMAIN g.live \cup DOMAIN g.arch /\ HashUnique(RestoreFacts(g, F))

\* retract-on-zero: the memberships of the candidates left without a fact when F
\* goes.
Retracted(g, candidates, F) ==
  Restrict(g.comm, {c \in candidates \cap DOMAIN g.comm : FactsOf(g, c) \subseteq F})

\* reachable_dependents goes further than one hop, but whoever is reached through
\* another entity keeps the fact it was reached by.
Neighbours(g, e) ==
  {c \in Ids \ {e} : FactsOf(g, c) \cap FactsOf(g, e) # {}}

EntityDeleteRows ==
  [kind : {"entity_delete"}, old : Ids, row : EntityRows, facts : SUBSET Facts,
   episodes : SUBSET Episodes, comm : SUBSET Communities,
   retracted : Tables(Ids, Communities), undone : BOOLEAN]

DeleteEntitySnapshot(g, e) ==
  [kind |-> "entity_delete", old |-> e, row |-> g.ent[e],
   facts |-> FactsOf(g, e), episodes |-> EpisodesOf(g, e), comm |-> CommunityOf(g, e),
   retracted |-> Retracted(g, Neighbours(g, e), FactsOf(g, e)),
   undone |-> FALSE]

DeleteEntityOf(g, e) ==
  LET gone == {e} \cup DOMAIN Retracted(g, Neighbours(g, e), FactsOf(g, e)) IN
  [ArchiveFacts(g, FactsOf(g, e)) EXCEPT
    !.edges = {x \in @ : x[2] # e},
    !.comm = Restrict(@, DOMAIN @ \ gone),
    !.ent = Restrict(@, DOMAIN @ \ {e})]

UndoDeleteEntityOf(g, m) ==
  [RestoreFacts(g, m.facts) EXCEPT
    !.ent = Over(One(m.old, m.row), @),
    !.edges = @ \cup (m.episodes \X {m.old}),
    !.comm = Over(m.retracted,
                  Over([x \in {m.old : c \in m.comm} |-> CHOOSE c \in m.comm : TRUE], @))]

EntityDeleteUndoable(g, m) ==
  /\ m.old \notin DOMAIN g.ent
  /\ Restorable(g, m.facts)
  /\ EpisodesOf(g, m.old) \cap m.episodes = {}

Endpoints(r) == {r.s, r.o} \ {Literal}

FactDeleteRows ==
  [kind : {"fact_delete"}, fact : Facts, retracted : Tables(Ids, Communities),
   undone : BOOLEAN]

DeleteFactSnapshot(g, f) ==
  [kind |-> "fact_delete", fact |-> f,
   retracted |-> Retracted(g, Endpoints(g.live[f]), {f}),
   undone |-> FALSE]

DeleteFactOf(g, f) ==
  [ArchiveFacts(g, {f}) EXCEPT
    !.comm = Restrict(@, DOMAIN @ \ DOMAIN Retracted(g, Endpoints(g.live[f]), {f}))]

UndoDeleteFactOf(g, m) ==
  [RestoreFacts(g, {m.fact}) EXCEPT !.comm = Over(m.retracted, @)]
=============================================================================
