---------------------------- MODULE Migrations ----------------------------
(***************************************************************************)
(* Opening a store: every open runs the whole list of migrations, each of  *)
(* which looks at the shape of the tables to see if it has been applied.   *)
(* No transaction spans them: each statement is durable by itself, the     *)
(* process may end before any of them, and the next open starts at the top *)
(* with whatever tables it finds.  A statement that fails ends the open    *)
(* with an error, which for what is stored is an end before it.            *)
(*                                                                         *)
(* Kept are the migrations that move rows (004, 006, 013, 023), those that *)
(* fill a column from other data (008, 011, 012, 015a), the full-text      *)
(* tables and what the gates of all of these read.                         *)
(***************************************************************************)
EXTENDS Integers, Sequences, FiniteSets

CONSTANTS
  Entities, Facts, Edges,  \* row ids
  SubjectOf,               \* the entity a fact is about
  MentionOf,               \* the entity an edge points to
  InitialDbs,              \* what earlier versions left: records of tables and of
                           \* the columns filled
  MaxStops                 \* bound: ends of the process in the middle of an open

EntityTables == {"entities", "rql_entities", "entities_new", "entities_bak_004",
                 "entities_bak_008", "entities_new_023", "entities_bak_023"}
FactTables   == {"facts", "facts_new", "facts_bak_006"}
EdgeTables   == {"episodic_edges", "episodic_edges_new", "episodic_edges_bak_006"}
OtherTables  == {"episodes", "entities_fts", "rql_entities_fts", "facts_fts"}
Tables       == EntityTables \cup FactTables \cup EdgeTables \cup OtherTables
Rows         == Entities \cup Facts \cup Edges
KindOf(t)    == CASE t \in EntityTables \cup {"entities_fts", "rql_entities_fts"} -> Entities
                  [] t \in FactTables \cup {"facts_fts"} -> Facts
                  [] t \in EdgeTables -> Edges
                  [] t = "episodes" -> {}

\* What of a table's shape some gate or statement depends on: a column of that
\* name; the composite key or foreign keys; the CHECK with DreamPass4; an
\* embedding the vector index accepts; the porter tokenizer.
Features == {"label", "entity_type_id", "entity_type_source", "group_ids", "content_hash",
             "episode_processing_status", "composite_pk", "composite_fk", "DreamPass4",
             "f32", "porter"}
Backfilled == {"entity_type_id", "entity_type_source", "content_hash",
               "episode_processing_status"}
Objects    == {"entities_vec_idx", "facts_vec_idx", "cascade_trigger"}

Absent        == [there |-> FALSE, rows |-> {}, has |-> {}]
Table(r, has) == [there |-> TRUE, rows |-> r, has |-> has]
TableStates   == [there : BOOLEAN, rows : SUBSET Rows, has : SUBSET Features]

VARIABLES
  db,       \* the tables
  filled,   \* the columns whose backfill has run
  objects,  \* the vector indexes and the trigger that exist
  at,       \* the next statement: its migration and its name there
  edgesPartial, \* edges_partial, as migration 006 read it
  start,    \* the rows that were in the store at first
  settled,  \* an open has succeeded
  gaps,     \* the gaps the process ended in
  stops

vars == <<db, filled, objects, at, edgesPartial, start, settled, gaps, stops>>

Closed == <<"closed", "none">>
Opened == <<"open", "none">>

\* The rebuilds (004, 006f, 006e, 013, 023): the table that is replaced, what it is
\* replaced from, its snapshot and its new shape.
Live(m) == CASE m \in {"004", "013", "023"} -> "entities"
             [] m = "006f"                  -> "facts"
             [] m = "006e"                  -> "episodic_edges"

Scratch(m) == CASE m \in {"004", "013"} -> "entities_new"
                [] m = "006f"           -> "facts_new"
                [] m = "006e"           -> "episodic_edges_new"
                [] m = "023"            -> "entities_new_023"

Bak(m) == CASE m = "004"  -> "entities_bak_004"
            [] m = "006f" -> "facts_bak_006"
            [] m = "006e" -> "episodic_edges_bak_006"
            [] m = "008"  -> "entities_bak_008"
            [] m = "023"  -> "entities_bak_023"

NewShape(m) ==
  CASE m = "004"  -> {"label", "composite_pk"}
    [] m = "006f" -> {"group_ids", "composite_fk", "f32"}
    [] m = "006e" -> {"group_ids", "composite_fk"}
    [] m = "013"  -> {"composite_pk", "entity_type_id", "entity_type_source", "DreamPass4"}
    [] m = "023"  -> {"composite_pk", "entity_type_id", "entity_type_source", "DreamPass4",
                      "f32"}

\* The columns a rebuild selects that not every older shape has.
Selects(m) == CASE m = "004" -> {"label"}
                [] m \in {"006f", "006e"} -> {"group_ids"}
                [] m \in {"013", "023"} -> {"entity_type_id", "entity_type_source"}

\* The migrations that add a column and fill it.
Fillers == {"008", "011", "012", "015a"}
Column(m) == CASE m = "008"  -> "entity_type_id"
               [] m = "011"  -> "content_hash"
               [] m = "012"  -> "entity_type_source"
               [] m = "015a" -> "episode_processing_status"
Extended(m) == IF m \in {"008", "012"} THEN "entities" ELSE "episodes"

\* The full-text table a migration makes anew, of which table.
Fts(m)     == IF m = "027e" THEN "entities_fts" ELSE "facts_fts"
Indexed(m) == IF m = "027e" THEN "entities" ELSE "facts"

\* What a release left whose list of migrations had run to its end: no scratch table; a
\* snapshot only of what has been replaced; columns that were filled when they were added,
\* the types from the labels; full-text tables with every row.
Unfinished == {"entities_new", "entities_new_023", "entities_bak_023", "facts_new",
               "episodic_edges_new"}

Released(d, done) ==
  /\ d \in [Tables -> TableStates] /\ done \subseteq Backfilled
  /\ \A t \in Tables : d[t].rows \subseteq KindOf(t) /\ (~d[t].there => d[t] = Absent)
  /\ \A t \in Unfinished : ~d[t].there
  /\ d["rql_entities"].there => ~d["entities"].there
  /\ d["rql_entities"].has \subseteq {"label", "f32"}
  /\ "composite_pk" \notin d["entities"].has => ~d["entities_bak_004"].there
  /\ "composite_pk" \in d["entities"].has => "group_ids" \in d["facts"].has
  /\ "composite_fk" \notin d["facts"].has =>
       ~d["facts_bak_006"].there /\ ~d["episodic_edges_bak_006"].there
  /\ "composite_fk" \in d["facts"].has =>
       NewShape("006f") \subseteq d["facts"].has /\ NewShape("006e") \subseteq d["episodic_edges"].has
  /\ \A m \in Fillers : Column(m) \in d[Extended(m)].has => Column(m) \in done
  /\ "entity_type_id" \in done \/
       \A t \in EntityTables : d[t].there => "label" \in d[t].has
  /\ "porter" \in d["entities_fts"].has =>
       d["entities"].there /\ d["entities_fts"].rows = d["entities"].rows
  /\ "porter" \in d["facts_fts"].has => d["facts_fts"].rows = d["facts"].rows
  /\ "porter" \notin d["rql_entities_fts"].has

ASSUME MigrationAssumption ==
  /\ IsFiniteSet(Rows) /\ MaxStops \in Nat
  /\ SubjectOf \in [Facts -> Entities] /\ MentionOf \in [Edges -> Entities]
  /\ \A s \in InitialDbs : Released(s.db, s.filled)

Order == <<"legacy", "002", "base", "004", "006", "006f", "006t", "006e", "006z", "008", "009",
           "011", "012", "013", "015a", "017", "023", "027e", "027f", "check">>
After(m) == Order[1 + CHOOSE i \in DOMAIN Order : Order[i] = m]

There(t)  == db[t].there
Has(t, f) == f \in db[t].has
Count(t)  == Cardinality(db[t].rows)
HeldIn(ts) == UNION {db[t].rows : t \in ts}
Mig       == at[1]
Step      == at[2]

Goto(s)  == at' = <<Mig, s>>
Enter(m) == at' = <<m, "gate">>
Done     == Enter(After(Mig))
Fail     == at' = Closed

\* Indexes and triggers go with the table they are on.
On(t) == CASE t = "entities" -> {"entities_vec_idx", "cascade_trigger"}
           [] t = "facts"    -> {"facts_vec_idx"}
           [] OTHER          -> {}
ObjectsWithout(t) == objects \ On(t)

Moved(from, to)   == [db EXCEPT ![to] = db[from], ![from] = Absent]
CreatedIn(t, tab) == [db EXCEPT ![t] = IF There(t) THEN @ ELSE tab]

InitStart(d) == [entities |-> d["entities"].rows \cup d["rql_entities"].rows,
                 facts |-> d["facts"].rows, edges |-> d["episodic_edges"].rows]

Init ==
  /\ \E s \in InitialDbs : db = s.db /\ filled = s.filled /\ start = InitStart(s.db)
  /\ objects = IF Has("facts", "f32") THEN {"facts_vec_idx"} ELSE {}
  /\ at = Closed /\ edgesPartial = FALSE
  /\ settled = FALSE /\ gaps = {} /\ stops = 0
-----------------------------------------------------------------------------
(* Opening, and the statements before the first rebuild *)

\* open_with_dim.
OpenStore ==
  /\ at = Closed
  /\ Enter("legacy")
  /\ UNCHANGED <<db, filled, objects, edgesPartial, start, settled, gaps, stops>>

\* migrate_legacy_rql_entities_table: a table entities with a label is renamed, and
\* its full-text table after it, if that works.
LegacyRename ==
  /\ at = <<"legacy", "gate">>
  /\ IF There("entities") /\ Has("entities", "label") /\ ~There("rql_entities")
       THEN /\ db' = Moved("entities", "rql_entities")
            /\ objects' = objects \ {"entities_vec_idx"} /\ Goto("fts")
       ELSE UNCHANGED <<db, objects>> /\ Done
  /\ UNCHANGED <<filled, edgesPartial, start, settled, gaps, stops>>

\* migrate_002_drop_rql_prefix: and back.
PrefixDrop ==
  /\ at = <<"002", "gate">>
  /\ IF There("rql_entities") /\ ~There("entities")
       THEN db' = Moved("rql_entities", "entities") /\ Goto("fts")
       ELSE UNCHANGED db /\ Done
  /\ UNCHANGED <<filled, objects, edgesPartial, start, settled, gaps, stops>>

RenameFts ==
  /\ Mig \in {"legacy", "002"} /\ Step = "fts"
  /\ LET from == IF Mig = "legacy" THEN "entities_fts" ELSE "rql_entities_fts"
         to   == IF Mig = "legacy" THEN "rql_entities_fts" ELSE "entities_fts"
     IN  db' = IF There(from) /\ ~There(to) THEN Moved(from, to) ELSE db
  /\ Done
  /\ UNCHANGED <<filled, objects, edgesPartial, start, settled, gaps, stops>>

\* run_migrations: CREATE TABLE IF NOT EXISTS in the oldest shape, and the vector
\* indexes on the columns that take one.  Ending between two of these statements is
\* the same as ending before them.
BaseDdl ==
  /\ at = <<"base", "gate">>
  /\ LET shapeOf == [t \in {"entities", "facts", "episodic_edges", "episodes", "entities_fts",
                            "facts_fts"} |->
                       CASE t = "entities" -> {"label", "f32"} [] t = "facts" -> {"f32"}
                         [] OTHER -> {}]
     IN  db' = [t \in Tables |-> IF t \in DOMAIN shapeOf /\ ~There(t)
                                   THEN Table({}, shapeOf[t]) ELSE db[t]]
  /\ objects' = objects
       \cup (IF "f32" \in db'["entities"].has THEN {"entities_vec_idx"} ELSE {})
       \cup (IF "f32" \in db'["facts"].has THEN {"facts_vec_idx"} ELSE {})
  /\ Done
  /\ UNCHANGED <<filled, edgesPartial, start, settled, gaps, stops>>
-----------------------------------------------------------------------------
(* The gates of the rebuilds *)

\* migrate_004_composite_pk_entities: the shape of the key says if it was applied, a
\* scratch table that it was begun.
Gate004 ==
  /\ at = <<"004", "gate">>
  /\ CASE Has("entities", "composite_pk") -> Done
       [] There("entities_new") /\ ~Has("entities", "composite_pk") -> Goto("count")
       [] OTHER -> Goto("backup")
  /\ UNCHANGED <<db, filled, objects, edgesPartial, start, settled, gaps, stops>>

\* Mutation: the first gate of 006 does not ask for a scratch table of the edges.
Gate006FactsOnly ==
  /\ at = <<"006", "gate">>
  /\ edgesPartial' = There("episodic_edges_new")
  /\ CASE Has("facts", "composite_fk") -> Enter("008")
       [] OTHER -> at' = <<"006f", IF There("facts_new") THEN "drop" ELSE "backup">>
  /\ UNCHANGED <<db, filled, objects, start, settled, gaps, stops>>

\* migrate_006: two rebuilds behind one gate.  Of facts_new it asks only whether it
\* exists.
Gate006 ==
  /\ at = <<"006", "gate">>
  /\ edgesPartial' = There("episodic_edges_new")
  /\ CASE Has("facts", "composite_fk") /\ ~edgesPartial' -> Enter("008")
       [] Has("facts", "composite_fk") /\ edgesPartial' -> at' = <<"006e", "count">>
       [] OTHER -> at' = <<"006f", IF There("facts_new") THEN "drop" ELSE "backup">>
  /\ UNCHANGED <<db, filled, objects, start, settled, gaps, stops>>

\* migrate_013_pass4_source_tier: applied if the table's DDL names DreamPass4, and
\* then the trigger is put back; else a scratch table left by another run goes first.
Gate013 ==
  /\ at = <<"013", "gate">>
  /\ Goto(IF Has("entities", "DreamPass4") THEN "trigger" ELSE "discard")
  /\ UNCHANGED <<db, filled, objects, edgesPartial, start, settled, gaps, stops>>

Discard013 ==
  /\ at = <<"013", "discard">>
  /\ db' = [db EXCEPT !["entities_new"] = Absent]
  /\ Goto("create")
  /\ UNCHANGED <<filled, objects, edgesPartial, start, settled, gaps, stops>>

\* migrate_023_vector_index_column_type, the half for entities.
Gate023 ==
  /\ at = <<"023", "gate">>
  /\ CASE There("entities_new_023") -> Goto("count")
       [] ~There("entities_new_023") /\ ~Has("entities", "f32") -> Goto("backup")
       [] OTHER -> Done
  /\ UNCHANGED <<db, filled, objects, edgesPartial, start, settled, gaps, stops>>
-----------------------------------------------------------------------------
(* The statements of a rebuild *)

\* CREATE TABLE IF NOT EXISTS ... AS SELECT: a snapshot that exists is kept.
Backup ==
  /\ Step = "backup"
  /\ db' = CreatedIn(Bak(Mig), db[IF Mig = "008" THEN "entities" ELSE Live(Mig)])
  /\ Goto(IF Mig = "008" THEN "add" ELSE "create")
  /\ UNCHANGED <<filled, objects, edgesPartial, start, settled, gaps, stops>>

\* Mutation: the rows are not copied.
CreateScratchEmpty ==
  /\ Step = "create"
  /\ db' = CreatedIn(Scratch(Mig), Table({}, NewShape(Mig)))
  /\ Goto("drop")
  /\ UNCHANGED <<filled, objects, edgesPartial, start, settled, gaps, stops>>

CreateScratch ==
  /\ Step = "create"
  /\ db' = CreatedIn(Scratch(Mig), Table({}, NewShape(Mig)))
  /\ Goto("copy")
  /\ UNCHANGED <<filled, objects, edgesPartial, start, settled, gaps, stops>>

\* INSERT ... SELECT, an error if a column is not there.
CopyRows ==
  /\ Step = "copy"
  /\ IF Selects(Mig) \subseteq db[Live(Mig)].has
       THEN db' = [db EXCEPT ![Scratch(Mig)].rows = @ \cup db[Live(Mig)].rows] /\ Goto("drop")
       ELSE Fail /\ UNCHANGED db
  /\ UNCHANGED <<filled, objects, edgesPartial, start, settled, gaps, stops>>

\* Mutation: a scratch table that exists is taken for complete.
CompleteIfThere(m) == TRUE

\* Whether a scratch table found is as long as the snapshot.
Complete(m) == IF m = "023" THEN Count(Scratch(m)) = Count(Bak(m))
                            ELSE Count(Scratch(m)) >= Count(Bak(m))

\* A run that was begun goes on from the scratch table, if there is a snapshot to
\* compare it with.  Without one 023 would take it from the live table, late: it never
\* comes to that in a store that is Released, since the snapshot precedes the scratch table.
CheckScratch ==
  /\ Step = "count"
  /\ CASE ~There(Bak(Mig)) -> Fail
       [] There(Bak(Mig)) /\ Complete(Mig) -> Goto("drop")
       [] OTHER -> Goto("clear")
  /\ UNCHANGED <<db, filled, objects, edgesPartial, start, settled, gaps, stops>>

ClearScratch ==
  /\ Step = "clear"
  /\ db' = [db EXCEPT ![Scratch(Mig)].rows = {}]
  /\ Goto("recopy")
  /\ UNCHANGED <<filled, objects, edgesPartial, start, settled, gaps, stops>>

\* Both tables have to have the columns that are copied.
Recopy ==
  /\ Step = "recopy"
  /\ IF Selects(Mig) \subseteq db[Bak(Mig)].has \cap db[Scratch(Mig)].has
       THEN db' = [db EXCEPT ![Scratch(Mig)].rows = db[Bak(Mig)].rows] /\ Goto("drop")
       ELSE Fail /\ UNCHANGED db
  /\ UNCHANGED <<filled, objects, edgesPartial, start, settled, gaps, stops>>

DropLive ==
  /\ Step = "drop"
  /\ db' = [db EXCEPT ![Live(Mig)] = Absent]
  /\ objects' = ObjectsWithout(Live(Mig))
  /\ Goto("rename")
  /\ UNCHANGED <<filled, edgesPartial, start, settled, gaps, stops>>

\* What follows the rename differs.
RenameScratch ==
  /\ Step = "rename"
  /\ db' = Moved(Scratch(Mig), Live(Mig))
  /\ CASE Mig = "004"  -> Goto("facts")
       [] Mig = "006f" -> at' = <<"006t", "drop_fts">>
       [] Mig = "006e" -> Enter("006z")
       [] Mig = "013"  -> Goto("trigger")
       [] Mig = "023"  -> Goto("index")
  /\ UNCHANGED <<filled, objects, edgesPartial, start, settled, gaps, stops>>
-----------------------------------------------------------------------------
(* What comes after a rename *)

\* 004: the group columns of facts and of edges; an error is ignored.  The UPDATEs that
\* fill the new columns belong to the step: the values are not modelled.
AddGroupIds ==
  /\ Mig = "004" /\ Step \in {"facts", "edges"}
  /\ LET t == IF Step = "facts" THEN "facts" ELSE "episodic_edges"
     IN  db' = [db EXCEPT ![t].has = @ \cup {"group_ids"}]
  /\ IF Step = "facts" THEN Goto("edges") ELSE Done
  /\ UNCHANGED <<filled, objects, edgesPartial, start, settled, gaps, stops>>

\* 006 and 023: PRAGMA foreign_key_check.
ForeignKeysHold ==
  /\ \A f \in db["facts"].rows : SubjectOf[f] \in db["entities"].rows
  /\ \A e \in db["episodic_edges"].rows : MentionOf[e] \in db["entities"].rows

CheckForeignKeys ==
  /\ at \in {<<"006z", "gate">>, <<"023", "check">>}
  /\ IF ~ForeignKeysHold THEN Fail ELSE IF Mig = "023" THEN Goto("drop_bak") ELSE Done
  /\ UNCHANGED <<db, filled, objects, edgesPartial, start, settled, gaps, stops>>

\* 013: the audit table and its trigger.
CreateTrigger ==
  /\ at = <<"013", "trigger">>
  /\ objects' = objects \cup {"cascade_trigger"}
  /\ Done
  /\ UNCHANGED <<db, filled, edgesPartial, start, settled, gaps, stops>>

\* 023: the vector index, and at the end the snapshot goes.
CreateVecIndex ==
  /\ at = <<"023", "index">>
  /\ objects' = objects \cup {"entities_vec_idx"}
  /\ Goto("check")
  /\ UNCHANGED <<db, filled, edgesPartial, start, settled, gaps, stops>>

DropBak023 ==
  /\ at = <<"023", "drop_bak">>
  /\ db' = [db EXCEPT !["entities_bak_023"] = Absent]
  /\ Done
  /\ UNCHANGED <<filled, objects, edgesPartial, start, settled, gaps, stops>>
-----------------------------------------------------------------------------
(* Columns with a backfill, and the label *)

\* 012 fills whatever is NULL, each time; the others only with the column.
GateColumn ==
  /\ Mig \in Fillers /\ Step = "gate"
  /\ CASE ~Has(Extended(Mig), Column(Mig)) -> Goto(IF Mig = "008" THEN "backup" ELSE "add")
       [] Has(Extended(Mig), Column(Mig)) /\ Mig = "012" -> Goto("fill")
       [] OTHER -> Done
  /\ UNCHANGED <<db, filled, objects, edgesPartial, start, settled, gaps, stops>>

AddColumn ==
  /\ Step = "add"
  /\ db' = [db EXCEPT ![Extended(Mig)].has = @ \cup {Column(Mig)}]
  /\ Goto("fill")
  /\ UNCHANGED <<filled, objects, edgesPartial, start, settled, gaps, stops>>

Backfill ==
  /\ Step = "fill"
  /\ filled' = filled \cup {Column(Mig)}
  /\ Done
  /\ UNCHANGED <<db, objects, edgesPartial, start, settled, gaps, stops>>

\* migrate_009_drop_label_column.
DropLabel ==
  /\ at = <<"009", "gate">>
  /\ db' = [db EXCEPT !["entities"].has = @ \ {"label"}]
  /\ Done
  /\ UNCHANGED <<filled, objects, edgesPartial, start, settled, gaps, stops>>

\* migrate_017: an error if the edges have no group column.
UniqueEdges ==
  /\ at = <<"017", "gate">>
  /\ IF Has("episodic_edges", "group_ids") THEN Done ELSE Fail
  /\ UNCHANGED <<db, filled, objects, edgesPartial, start, settled, gaps, stops>>
-----------------------------------------------------------------------------
(* Full-text tables, of 006 and of 027 *)

\* Mutation: the tokenizer is not looked at.
GateFtsEvery ==
  /\ Mig \in {"027e", "027f"} /\ Step = "gate"
  /\ Goto("drop_fts")
  /\ UNCHANGED <<db, filled, objects, edgesPartial, start, settled, gaps, stops>>

GateFts ==
  /\ Mig \in {"027e", "027f"} /\ Step = "gate"
  /\ IF Has(Fts(Mig), "porter") THEN Done ELSE Goto("drop_fts")
  /\ UNCHANGED <<db, filled, objects, edgesPartial, start, settled, gaps, stops>>

DropFts ==
  /\ Step = "drop_fts"
  /\ db' = [db EXCEPT ![Fts(Mig)] = Absent]
  /\ Goto("create_fts")
  /\ UNCHANGED <<filled, objects, edgesPartial, start, settled, gaps, stops>>

CreateFts ==
  /\ Step = "create_fts"
  /\ db' = [db EXCEPT ![Fts(Mig)] = Table({}, IF Mig = "006t" THEN {} ELSE {"porter"})]
  /\ Goto("fill_fts")
  /\ UNCHANGED <<filled, objects, edgesPartial, start, settled, gaps, stops>>

\* 006 makes the vector index next, and goes on to the edges.
FillFts ==
  /\ Step = "fill_fts"
  /\ db' = [db EXCEPT ![Fts(Mig)].rows = @ \cup db[Indexed(Mig)].rows]
  /\ IF Mig = "006t"
       THEN /\ objects' = objects \cup {"facts_vec_idx"}
            /\ at' = <<"006e", IF edgesPartial THEN "count" ELSE "backup">>
       ELSE UNCHANGED objects /\ Done
  /\ UNCHANGED <<filled, edgesPartial, start, settled, gaps, stops>>
-----------------------------------------------------------------------------
(* The end of an open, and ends of the process *)

\* check_integrity.
CheckIntegrity ==
  /\ at = <<"check", "gate">>
  /\ LET ok == \A t \in {"episodes", "entities", "facts", "episodic_edges"} : There(t)
     IN  at' = (IF ok THEN Opened ELSE Closed) /\ settled' = (settled \/ ok)
  /\ UNCHANGED <<db, filled, objects, edgesPartial, start, gaps, stops>>

Close ==
  /\ at = Opened
  /\ at' = Closed
  /\ UNCHANGED <<db, filled, objects, edgesPartial, start, settled, gaps, stops>>

\* The places no later open makes up for: after a rename or an ALTER that satisfies
\* the gate, before the statements that belong to it; and between CREATE and INSERT
\* of facts_new, of which the gate asks only whether it exists.
GapSteps == {<<"004", "facts">>, <<"004", "edges">>, <<"006f", "copy">>,
             <<"006t", "drop_fts">>, <<"006t", "create_fts">>, <<"006t", "fill_fts">>,
             <<"006e", "backup">>, <<"006e", "create">>,
             <<"008", "fill">>, <<"011", "fill">>, <<"015a", "fill">>,
             <<"027e", "fill_fts">>, <<"027f", "fill_fts">>}

\* Between DROP and RENAME of 013 the scratch table is the only copy.  The next open
\* gives it to 004, which compares it with a snapshot of another time.
Lossy013 == at = <<"013", "rename">> /\ ~(There("entities_bak_004") /\ Complete("004"))

Stop ==
  /\ at \notin {Closed, Opened} /\ stops < MaxStops
  /\ at' = Closed
  /\ gaps' = IF at \in GapSteps \/ Lossy013 THEN gaps \cup {at} ELSE gaps
  /\ stops' = stops + 1
  /\ UNCHANGED <<db, filled, objects, edgesPartial, start, settled>>

Rebuild == \/ Gate004 \/ Gate006 \/ Gate013 \/ Discard013 \/ Gate023
           \/ Backup \/ CreateScratch \/ CopyRows \/ CheckScratch \/ ClearScratch \/ Recopy
           \/ DropLive \/ RenameScratch
           \/ AddGroupIds \/ CheckForeignKeys \/ CreateTrigger \/ CreateVecIndex \/ DropBak023

Statement == \/ LegacyRename \/ PrefixDrop \/ RenameFts \/ BaseDdl
             \/ Rebuild
             \/ GateColumn \/ AddColumn \/ Backfill \/ DropLabel \/ UniqueEdges
             \/ GateFts \/ DropFts \/ CreateFts \/ FillFts
             \/ CheckIntegrity

Next == OpenStore \/ Statement \/ Close \/ Stop

Spec == Init /\ [][Next]_vars

\* An open that has begun goes on, and the owner of the store opens it again.
FairSpec == Spec /\ WF_vars(Statement) /\ WF_vars(OpenStore)
-----------------------------------------------------------------------------
\* Each table holds rows of its kind, and a table that is not there has none.
TypeOK ==
  /\ db \in [Tables -> TableStates]
  /\ \A t \in Tables : db[t].rows \subseteq KindOf(t) /\ (~There(t) => db[t] = Absent)
  /\ filled \subseteq Backfilled /\ objects \subseteq Objects
  /\ settled \in BOOLEAN /\ edgesPartial \in BOOLEAN /\ stops \in Nat

\* "must not brick the database": whatever was stored is in some table, and so are
\* the labels as long as no type has been made of them.
Recoverable ==
  <<"013", "rename">> \notin gaps =>
    /\ start.entities \subseteq HeldIn(EntityTables)
    /\ start.facts \subseteq HeldIn(FactTables)
    /\ start.edges \subseteq HeldIn(EdgeTables)
    /\ "entity_type_id" \in filled \/ start.entities = {}
         \/ \E t \in EntityTables : There(t) /\ Has(t, "label")

\* An open that succeeds has all rows where readers look for them, in their final
\* shape, with their columns filled and their indexes full, however often the process
\* ended on the way, unless it did so in a gap.
Whole(t, rows, has) == db[t].rows = rows /\ has \subseteq db[t].has

Kept ==
  at = Opened /\ gaps = {} =>
    /\ Whole("entities", start.entities, NewShape("023"))
    /\ Whole("facts", start.facts, NewShape("006f"))
    /\ Whole("episodic_edges", start.edges, NewShape("006e"))
    /\ Whole("entities_fts", start.entities, {"porter"})
    /\ Whole("facts_fts", start.facts, {"porter"})
    /\ filled = Backfilled
    /\ {"entities_vec_idx", "facts_vec_idx"} \subseteq objects

\* A run on an already-applied migration set "is a no-op with no errors": once an open
\* has succeeded, no later one changes a table, wherever it ends.
NoOp == [][settled => UNCHANGED <<db, filled>>]_vars

\* Opening again after any end outside the gaps gets to an open store.
Opens == []<>(at = Opened \/ gaps # {})

\* "each resume compares the scratch against its immutable _bak_006 snapshot and
\* repopulates from that snapshot before the swap": a store that opens has its facts.
FactsKept == at = Opened => start.facts \subseteq db["facts"].rows
=============================================================================
