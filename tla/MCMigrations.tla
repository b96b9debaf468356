--------------------------- MODULE MCMigrations ---------------------------
EXTENDS Migrations, TLC

CONSTANTS a, b, c, d, f, g, x

MCSubjectOf == f :> a @@ g :> b
MCMentionOf == x :> a

\* A store as a release left it: its tables by name, the others absent.
Store(tabs, fill) ==
  [db |-> [t \in Tables |-> IF t \in DOMAIN tabs THEN tabs[t] ELSE Absent], filled |-> fill]

Plain(has) == Table({a, b}, has)
FactRows(has) == Table({f, g}, has)
EdgeRows(has) == Table({x}, has)

Fulltext == "entities_fts" :> Plain({}) @@ "facts_fts" :> FactRows({})

Fresh == Store(<<>>, {})

\* The first release, with the prefix, and the one that dropped it.
Prefixed == Store("rql_entities" :> Plain({"label", "f32"}) @@ "facts" :> FactRows({"f32"})
                  @@ "episodic_edges" :> EdgeRows({}) @@ "episodes" :> Table({}, {})
                  @@ "rql_entities_fts" :> Plain({}) @@ "facts_fts" :> FactRows({}), {})
Labelled == Store("entities" :> Plain({"label", "f32"}) @@ "facts" :> FactRows({"f32"})
                  @@ "episodic_edges" :> EdgeRows({}) @@ "episodes" :> Table({}, {})
                  @@ Fulltext, {})

\* A release with migrations up to 012.  bak is what 004 copied at the time, and 008
\* after it.
Until012(bak) ==
  Store("entities" :> Plain({"composite_pk", "entity_type_id", "entity_type_source"})
        @@ "entities_bak_004" :> bak
        @@ "entities_bak_008" :>
             (IF bak.there THEN Table(bak.rows, {"label", "composite_pk"}) ELSE Absent)
        @@ "facts" :> FactRows(NewShape("006f"))
        @@ "facts_bak_006" :> FactRows({"f32", "group_ids"})
        @@ "episodic_edges" :> EdgeRows(NewShape("006e"))
        @@ "episodic_edges_bak_006" :> EdgeRows({"group_ids"})
        @@ "episodes" :> Table({}, {"content_hash"}) @@ Fulltext,
        {"entity_type_id", "entity_type_source", "content_hash"})

\* Entities were added since; others were removed; the snapshots were dropped by hand.
Grown   == Until012(Table({a}, {"label", "f32"}))
Shrunk  == Until012(Table({a, c, d}, {"label", "f32"}))
Cleaned == Until012(Absent)

\* A release with migrations up to 022.
Until022 ==
  Store("entities" :> Plain(NewShape("013"))
        @@ "entities_bak_004" :> Table({a}, {"label", "f32"})
        @@ "facts" :> FactRows(NewShape("006f"))
        @@ "episodic_edges" :> EdgeRows(NewShape("006e"))
        @@ "episodes" :> Table({}, {"content_hash", "episode_processing_status"}) @@ Fulltext,
        Backfilled)

MCInitialDbs == {Fresh, Prefixed, Labelled, Grown, Shrunk, Cleaned, Until022}
=============================================================================
