-------------------------- MODULE MigrationsProofs --------------------------
(***************************************************************************)
(* What an open leaves of the rows that were stored, for any rows, any     *)
(* stores that releases left and any number of ends of the process.        *)
(***************************************************************************)
EXTENDS Migrations, FiniteSetTheorems, TLAPS

-----------------------------------------------------------------------------
\* Where an open can be, and what the migrations call their tables

Migs == {"closed", "open", "legacy", "002", "base", "004", "006", "006f", "006t", "006e",
         "006z", "008", "009", "011", "012", "013", "015a", "017", "023", "027e", "027f",
         "check"}

StepsOf(m) ==
  CASE m \in {"closed", "open"} -> {"none"}
    [] m \in {"legacy", "002"} -> {"gate", "fts"}
    [] m \in {"base", "006", "006z", "009", "017", "check"} -> {"gate"}
    [] m = "004" -> {"gate", "backup", "create", "copy", "count", "clear", "recopy", "drop",
                     "rename", "facts", "edges"}
    [] m = "006f" -> {"backup", "create", "copy", "drop", "rename"}
    [] m = "006t" -> {"drop_fts", "create_fts", "fill_fts"}
    [] m = "006e" -> {"backup", "create", "copy", "count", "clear", "recopy", "drop", "rename"}
    [] m = "008" -> {"gate", "backup", "add", "fill"}
    [] m \in {"011", "012", "015a"} -> {"gate", "add", "fill"}
    [] m = "013" -> {"gate", "discard", "create", "copy", "drop", "rename", "trigger"}
    [] m = "023" -> {"gate", "backup", "create", "copy", "count", "clear", "recopy", "drop",
                     "rename", "index", "check", "drop_bak"}
    [] m \in {"027e", "027f"} -> {"gate", "drop_fts", "create_fts", "fill_fts"}

AtStatement == at = <<Mig, Step>> /\ Mig \in Migs /\ Step \in StepsOf(Mig)

Rebuilds == {"004", "006f", "006e", "013", "023"}

LEMMA StepsMigs ==
  ASSUME NEW m \in Migs, NEW s \in StepsOf(m)
  PROVE  /\ s = "backup" => m \in {"004", "006f", "006e", "008", "023"}
         /\ s = "create" => m \in Rebuilds
         /\ s = "copy" => m \in Rebuilds
         /\ s \in {"count", "clear", "recopy"} => m \in {"004", "006e", "023"}
         /\ s = "drop" => m \in Rebuilds
         /\ s = "rename" => m \in Rebuilds
         /\ s = "add" => m \in Fillers
         /\ s = "fill" => m \in Fillers
         /\ s \in {"drop_fts", "create_fts", "fill_fts"} => m \in {"006t", "027e", "027f"}
  BY DEF Migs, StepsOf, Rebuilds, Fillers

LEMMA AfterIs ==
  /\ After("legacy") = "002" /\ After("002") = "base" /\ After("base") = "004"
  /\ After("004") = "006" /\ After("006z") = "008" /\ After("008") = "009"
  /\ After("009") = "011" /\ After("011") = "012" /\ After("012") = "013"
  /\ After("013") = "015a" /\ After("015a") = "017" /\ After("017") = "023"
  /\ After("023") = "027e" /\ After("027e") = "027f" /\ After("027f") = "check"
  BY DEF After, Order
\* What each table is in each migration.
LEMMA TablesOf ==
  /\ Live("004") = "entities" /\ Live("013") = "entities" /\ Live("023") = "entities"
  /\ Live("006f") = "facts" /\ Live("006e") = "episodic_edges"
  /\ Scratch("004") = "entities_new" /\ Scratch("013") = "entities_new"
  /\ Scratch("023") = "entities_new_023"
  /\ Scratch("006f") = "facts_new" /\ Scratch("006e") = "episodic_edges_new"
  /\ Bak("004") = "entities_bak_004" /\ Bak("008") = "entities_bak_008"
  /\ Bak("023") = "entities_bak_023"
  /\ Bak("006f") = "facts_bak_006" /\ Bak("006e") = "episodic_edges_bak_006"
  BY DEF Live, Scratch, Bak

LEMMA Named ==
  /\ "entities" \in Tables /\ "rql_entities" \in Tables /\ "entities_new" \in Tables
  /\ "entities_bak_004" \in Tables /\ "entities_bak_008" \in Tables
  /\ "entities_new_023" \in Tables /\ "entities_bak_023" \in Tables
  /\ "facts" \in Tables /\ "facts_new" \in Tables /\ "facts_bak_006" \in Tables
  /\ "episodic_edges" \in Tables /\ "episodic_edges_new" \in Tables
  /\ "episodic_edges_bak_006" \in Tables
  /\ "episodes" \in Tables /\ "entities_fts" \in Tables /\ "rql_entities_fts" \in Tables
  /\ "facts_fts" \in Tables
  BY DEF Tables, EntityTables, FactTables, EdgeTables, OtherTables

LEMMA Kinds ==
  /\ \A t \in Tables : KindOf(t) \subseteq Rows
  /\ \A m \in Rebuilds : /\ Live(m) \in Tables /\ Scratch(m) \in Tables
                         /\ KindOf(Live(m)) = KindOf(Scratch(m))
                         /\ NewShape(m) \subseteq Features
  /\ \A m \in {"004", "006f", "006e", "023"} :
       Bak(m) \in Tables /\ KindOf(Bak(m)) = KindOf(Live(m))
  /\ KindOf("entities") = Entities /\ KindOf("rql_entities") = Entities
  /\ KindOf("entities_bak_008") = Entities
  /\ KindOf("entities_fts") = Entities /\ KindOf("rql_entities_fts") = Entities
  /\ KindOf("facts") = Facts /\ KindOf("facts_fts") = Facts
  /\ KindOf("episodic_edges") = Edges /\ KindOf("episodes") = {}
<1>2. \A m \in Rebuilds : NewShape(m) \subseteq Features
  <2>1. /\ NewShape("004") \subseteq Features /\ NewShape("006f") \subseteq Features
        /\ NewShape("006e") \subseteq Features /\ NewShape("013") \subseteq Features
        /\ NewShape("023") \subseteq Features
    BY DEF NewShape, Features
  <2> QED
    BY <2>1 DEF Rebuilds
<1>3. \A t \in EntityTables : KindOf(t) = Entities
  <2>1. ASSUME NEW t \in EntityTables
        PROVE  /\ t \in EntityTables \cup {"entities_fts", "rql_entities_fts"}
               /\ t \notin FactTables \cup {"facts_fts"} /\ t \notin EdgeTables /\ t # "episodes"
    BY <2>1 DEF EntityTables, FactTables, EdgeTables
  <2> QED
    BY <2>1 DEF KindOf
<1>4. \A t \in FactTables : KindOf(t) = Facts
  <2>1. ASSUME NEW t \in FactTables
        PROVE  /\ t \notin EntityTables \cup {"entities_fts", "rql_entities_fts"}
               /\ t \in FactTables \cup {"facts_fts"} /\ t \notin EdgeTables /\ t # "episodes"
    BY <2>1 DEF EntityTables, FactTables, EdgeTables
  <2> QED
    BY <2>1 DEF KindOf
<1>5. \A t \in EdgeTables : KindOf(t) = Edges
  <2>1. ASSUME NEW t \in EdgeTables
        PROVE  /\ t \notin EntityTables \cup {"entities_fts", "rql_entities_fts"}
               /\ t \notin FactTables \cup {"facts_fts"} /\ t \in EdgeTables /\ t # "episodes"
    BY <2>1 DEF EntityTables, FactTables, EdgeTables
  <2> QED
    BY <2>1 DEF KindOf
<1>6. /\ KindOf("entities_fts") = Entities /\ KindOf("rql_entities_fts") = Entities
      /\ KindOf("facts_fts") = Facts /\ KindOf("episodes") = {}
  BY DEF KindOf, EntityTables, FactTables, EdgeTables
<1>1. \A t \in Tables : KindOf(t) \subseteq Rows
  BY <1>3, <1>4, <1>5, <1>6 DEF Rows, Tables, OtherTables
<1>7. /\ {Live("004"), Live("013"), Live("023"), Scratch("004"), Scratch("013"), Scratch("023"),
          Bak("004"), Bak("023")} \subseteq EntityTables
      /\ {Live("006f"), Scratch("006f"), Bak("006f")} \subseteq FactTables
      /\ {Live("006e"), Scratch("006e"), Bak("006e")} \subseteq EdgeTables
  BY TablesOf DEF EntityTables, FactTables, EdgeTables
<1>8. EntityTables \cup FactTables \cup EdgeTables \subseteq Tables
  BY DEF Tables
<1>9. {"entities", "rql_entities", "entities_bak_008"} \subseteq EntityTables
      /\ "facts" \in FactTables /\ "episodic_edges" \in EdgeTables
  BY DEF EntityTables, FactTables, EdgeTables
<1>10. \A m \in Rebuilds : /\ Live(m) \in Tables /\ Scratch(m) \in Tables
                           /\ KindOf(Live(m)) = KindOf(Scratch(m))
  BY <1>3, <1>4, <1>5, <1>7, <1>8 DEF Rebuilds
<1>11. \A m \in {"004", "006f", "006e", "023"} :
         Bak(m) \in Tables /\ KindOf(Bak(m)) = KindOf(Live(m))
  BY <1>3, <1>4, <1>5, <1>7, <1>8
<1> QED
  BY <1>1, <1>2, <1>3, <1>4, <1>5, <1>6, <1>9, <1>10, <1>11

-----------------------------------------------------------------------------
\* Types

IsDb(d) ==
  /\ d \in [Tables -> TableStates]
  /\ \A t \in Tables : d[t].rows \subseteq KindOf(t) /\ (~d[t].there => d[t] = Absent)

IsTable(t, x) ==
  x \in TableStates /\ x.rows \subseteq KindOf(t) /\ (~x.there => x = Absent)

LEMMA NewTable ==
  ASSUME NEW t \in Tables, NEW r, r \subseteq KindOf(t), NEW h \in SUBSET Features
  PROVE  IsTable(t, Table(r, h)) /\ IsTable(t, Absent)
  BY Kinds DEF IsTable, Table, Absent, TableStates

LEMMA NewRows ==
  ASSUME NEW x \in TableStates, NEW r \in SUBSET Rows, NEW h \in SUBSET Features
  PROVE  /\ [x EXCEPT !.rows = r] \in TableStates /\ [x EXCEPT !.rows = r].there = x.there
         /\ [x EXCEPT !.rows = r].rows = r /\ [x EXCEPT !.rows = r].has = x.has
         /\ [x EXCEPT !.has = h] \in TableStates /\ [x EXCEPT !.has = h].there = x.there
         /\ [x EXCEPT !.has = h].rows = x.rows /\ [x EXCEPT !.has = h].has = h
  BY DEF TableStates

LEMMA TableIs ==
  ASSUME NEW d, IsDb(d), NEW t \in Tables
  PROVE  /\ d[t] = [there |-> d[t].there, rows |-> d[t].rows, has |-> d[t].has]
         /\ IsTable(t, d[t]) /\ d[t].there \in BOOLEAN
         /\ d[t].rows \subseteq KindOf(t) /\ d[t].has \subseteq Features
         /\ d[t].there \/ (d[t].rows = {} /\ d[t].has = {})
  BY DEF IsDb, IsTable, TableStates, Absent

-----------------------------------------------------------------------------
\* What the steps change, and where they go

\* Past the old names and the base tables.
Early == Mig \in {"closed", "open", "legacy", "002", "base"}

\* Tables stand from there on, but for the one that is being replaced; and a scratch
\* table, from its creation to its rename.
Swapping == Step = "rename"

Standing ==
  Early \/ /\ (Swapping /\ Mig \in {"004", "013", "023"}) \/ There("entities")
           /\ (Swapping /\ Mig = "006f") \/ There("facts")
           /\ (Swapping /\ Mig = "006e") \/ There("episodic_edges")
           /\ There("episodes")

ScratchThere ==
  /\ Step \in {"copy", "count", "clear", "recopy", "drop", "rename"} => There(Scratch(Mig))
  /\ Mig \in {"006f", "006t"} /\ edgesPartial => There("episodic_edges_new")

FtsThere == Step = "fill_fts" => There(Fts(Mig))

\* One of the two names; and the old one is gone once 002 has run.
Before == Mig \in {"closed", "legacy"} \/ (Mig = "002" /\ Step = "gate")

OldName ==
  /\ ~There("rql_entities") \/ ~There("entities")
  /\ Before \/ ~There("rql_entities")

Sound == TypeOK /\ AtStatement /\ Standing /\ ScratchThere /\ FtsThere /\ OldName

Puts(t, x) ==
  IsDb(db') /\ db'[t] = x /\ \A u \in Tables \ {t} : db'[u] = db[u]

Shifts(from, to) ==
  /\ IsDb(db') /\ db'[to] = db[from] /\ db'[from] = Absent
  /\ \A u \in Tables \ {from, to} : db'[u] = db[u]

LEMMA PutEffect ==
  ASSUME Sound, NEW t \in Tables, NEW x, IsTable(t, x), db' = [db EXCEPT ![t] = x]
  PROVE  Puts(t, x)
<1>1. IsDb(db)
  BY DEF Sound, TypeOK, IsDb, There
<1> QED
  BY <1>1 DEF Puts, IsDb, IsTable

LEMMA ShiftEffect ==
  ASSUME Sound, NEW from \in Tables, NEW to \in Tables, from # to,
         KindOf(from) = KindOf(to), db' = Moved(from, to)
  PROVE  Shifts(from, to)
<1>1. IsDb(db) /\ IsTable(to, db[from]) /\ IsTable(from, Absent)
  BY DEF Sound, TypeOK, IsDb, There, IsTable, Absent, TableStates
<1> DEFINE d == [db EXCEPT ![to] = db[from]]
<1>2. IsDb(d) /\ d[to] = db[from] /\ \A u \in Tables \ {to} : d[u] = db[u]
  BY <1>1 DEF IsDb, IsTable
<1>3. db' = [d EXCEPT ![from] = Absent]
  BY DEF Moved
<1> HIDE DEF d
<1>4. IsDb(db') /\ db'[from] = Absent /\ \A u \in Tables \ {from} : db'[u] = d[u]
  BY <1>1, <1>2, <1>3 DEF IsDb, IsTable
<1> QED
  BY <1>2, <1>3, <1>4 DEF Shifts

LEMMA SoundTables ==
  ASSUME Sound, NEW t \in Tables
  PROVE  /\ db[t] = [there |-> There(t), rows |-> db[t].rows, has |-> db[t].has]
         /\ IsTable(t, db[t]) /\ There(t) \in BOOLEAN
         /\ db[t].rows \subseteq KindOf(t) /\ db[t].has \subseteq Features
         /\ There(t) \/ (db[t].rows = {} /\ db[t].has = {})
<1>1. IsDb(db)
  BY DEF Sound, TypeOK, IsDb, There
<1> QED
  BY <1>1, TableIs DEF There

LEMMA AtIs ==
  ASSUME Sound
  PROVE  /\ at = <<Mig, Step>> /\ Mig \in Migs /\ Step \in StepsOf(Mig)
         /\ \A m, s : at = <<m, s>> <=> Mig = m /\ Step = s
  BY DEF Sound, AtStatement, Mig, Step

LEMMA BackupEffect ==
  ASSUME Sound, Backup
  PROVE  /\ Step = "backup" /\ Mig \in {"004", "006f", "006e", "008", "023"}
         /\ LET t == IF Mig = "008" THEN "entities" ELSE Live(Mig)
            IN  Puts(Bak(Mig), IF There(Bak(Mig)) THEN db[Bak(Mig)] ELSE db[t])
         /\ at' = <<Mig, IF Mig = "008" THEN "add" ELSE "create">>
         /\ UNCHANGED <<filled, objects, edgesPartial, start, settled, gaps, stops>>
<1> DEFINE t == IF Mig = "008" THEN "entities" ELSE Live(Mig)
           x == IF There(Bak(Mig)) THEN db[Bak(Mig)] ELSE db[t]
<1>1. Step = "backup" /\ Mig \in {"004", "006f", "006e", "008", "023"}
  BY AtIs, StepsMigs DEF Backup
<1>2. Bak(Mig) \in Tables /\ t \in Tables /\ KindOf(Bak(Mig)) = KindOf(t)
  BY <1>1, Kinds, Named, TablesOf DEF Rebuilds
<1>3. IsTable(Bak(Mig), x)
  BY <1>2, SoundTables DEF IsTable
<1>4. db' = [db EXCEPT ![Bak(Mig)] = x]
  BY DEF Backup, CreatedIn
<1>5. Puts(Bak(Mig), x)
  BY <1>2, <1>3, <1>4, PutEffect
<1> QED
  BY <1>1, <1>5 DEF Backup, Goto

LEMMA CreateEffect ==
  ASSUME Sound, CreateScratch
  PROVE  /\ Step = "create" /\ Mig \in Rebuilds
         /\ Puts(Scratch(Mig), IF There(Scratch(Mig)) THEN db[Scratch(Mig)]
                                                      ELSE Table({}, NewShape(Mig)))
         /\ at' = <<Mig, "copy">>
         /\ UNCHANGED <<filled, objects, edgesPartial, start, settled, gaps, stops>>
<1> DEFINE x == IF There(Scratch(Mig)) THEN db[Scratch(Mig)] ELSE Table({}, NewShape(Mig))
<1>1. Step = "create" /\ Mig \in Rebuilds
  BY AtIs, StepsMigs DEF CreateScratch
<1>2. Scratch(Mig) \in Tables /\ NewShape(Mig) \in SUBSET Features
  BY <1>1, Kinds
<1>3. IsTable(Scratch(Mig), x)
  BY <1>2, SoundTables, NewTable
<1>4. db' = [db EXCEPT ![Scratch(Mig)] = x]
  BY DEF CreateScratch, CreatedIn
<1> QED
  BY <1>1, <1>2, <1>3, <1>4, PutEffect DEF CreateScratch, Goto

\* A statement that fails ends the open.
Stays == UNCHANGED <<db, filled, objects, edgesPartial, start, settled, gaps, stops>>
Fails == at' = Closed /\ Stays

\* Rows put into a table that is there, and columns added or taken away.
Refills(t, r) ==
  /\ IsDb(db') /\ db'[t].there /\ db'[t].rows = r /\ db'[t].has = db[t].has
  /\ \A u \in Tables \ {t} : db'[u] = db[u]

Alters(t, h) ==
  /\ IsDb(db') /\ db'[t].there = db[t].there /\ db'[t].rows = db[t].rows /\ db'[t].has = h
  /\ \A u \in Tables \ {t} : db'[u] = db[u]

LEMMA RefillEffect ==
  ASSUME Sound, NEW t \in Tables, There(t), NEW r, r \subseteq KindOf(t),
         db' = [db EXCEPT ![t].rows = r]
  PROVE  Refills(t, r)
<1> DEFINE x == [db[t] EXCEPT !.rows = r]
<1>1. db[t] \in TableStates /\ r \in SUBSET Rows
  BY SoundTables, Kinds DEF IsTable
<1>2. x \in TableStates /\ x.there = There(t) /\ x.rows = r /\ x.has = db[t].has
  BY <1>1, NewRows DEF There
<1>3. db' = [db EXCEPT ![t] = x]
  OBVIOUS
<1> HIDE DEF x
<1>4. IsTable(t, x)
  BY <1>2 DEF IsTable
<1>5. Puts(t, x)
  BY <1>3, <1>4, PutEffect
<1> QED
  BY <1>2, <1>5 DEF Puts, Refills, There

LEMMA AlterEffect ==
  ASSUME Sound, NEW t \in Tables, NEW h \in SUBSET Features, There(t) \/ h = {},
         db' = [db EXCEPT ![t].has = h]
  PROVE  Alters(t, h)
<1> DEFINE x == [db[t] EXCEPT !.has = h]
<1>1. db[t] \in TableStates /\ db[t].rows \subseteq KindOf(t) /\ (There(t) \/ db[t] = Absent)
  BY SoundTables DEF IsTable, There
<1>2. x \in TableStates /\ x.there = There(t) /\ x.rows = db[t].rows /\ x.has = h
  BY <1>1, NewRows DEF There, TableStates
<1>3. db' = [db EXCEPT ![t] = x]
  OBVIOUS
<1> HIDE DEF x
<1>4. IsTable(t, x)
  BY <1>1, <1>2 DEF IsTable, Absent, There, TableStates
<1>5. Puts(t, x)
  BY <1>3, <1>4, PutEffect
<1> QED
  BY <1>2, <1>5 DEF Puts, Alters, There

LEMMA CopyEffect ==
  ASSUME Sound, CopyRows
  PROVE  /\ Step = "copy" /\ Mig \in Rebuilds
         /\ \/ Fails /\ ~(Selects(Mig) \subseteq db[Live(Mig)].has)
            \/ /\ Selects(Mig) \subseteq db[Live(Mig)].has
               /\ Refills(Scratch(Mig), db[Scratch(Mig)].rows \cup db[Live(Mig)].rows)
               /\ at' = <<Mig, "drop">>
               /\ UNCHANGED <<filled, objects, edgesPartial, start, settled, gaps, stops>>
<1>1. Step = "copy" /\ Mig \in Rebuilds
  BY AtIs, StepsMigs DEF CopyRows
<1>2. Scratch(Mig) \in Tables /\ Live(Mig) \in Tables /\ KindOf(Live(Mig)) = KindOf(Scratch(Mig))
  BY <1>1, Kinds
<1>3. CASE Selects(Mig) \subseteq db[Live(Mig)].has
  <2> DEFINE r == db[Scratch(Mig)].rows \cup db[Live(Mig)].rows
  <2>1. r \subseteq KindOf(Scratch(Mig)) /\ There(Scratch(Mig))
    BY <1>1, <1>2, SoundTables DEF Sound, ScratchThere
  <2>2. db' = [db EXCEPT ![Scratch(Mig)].rows = r]
    BY <1>3 DEF CopyRows
  <2> HIDE DEF r
  <2>3. Refills(Scratch(Mig), r)
    BY <1>2, <2>1, <2>2, RefillEffect
  <2> QED
    BY <1>1, <1>3, <2>3 DEF CopyRows, Goto, r
<1>4. CASE ~(Selects(Mig) \subseteq db[Live(Mig)].has)
  BY <1>1, <1>4 DEF CopyRows, Fail, Fails, Stays
<1> QED
  BY <1>3, <1>4

LEMMA CheckEffect ==
  ASSUME Sound, CheckScratch
  PROVE  /\ Step = "count" /\ Mig \in {"004", "006e", "023"}
         /\ Stays
         /\ \/ ~There(Bak(Mig)) /\ at' = Closed
            \/ There(Bak(Mig)) /\ Complete(Mig) /\ at' = <<Mig, "drop">>
            \/ There(Bak(Mig)) /\ ~Complete(Mig) /\ at' = <<Mig, "clear">>
<1>1. Step = "count" /\ Mig \in {"004", "006e", "023"}
  BY AtIs, StepsMigs DEF CheckScratch
<1> QED
  BY <1>1 DEF CheckScratch, Fail, Goto, Stays

LEMMA ClearEffect ==
  ASSUME Sound, ClearScratch
  PROVE  /\ Step = "clear" /\ Mig \in {"004", "006e", "023"}
         /\ Refills(Scratch(Mig), {})
         /\ at' = <<Mig, "recopy">>
         /\ UNCHANGED <<filled, objects, edgesPartial, start, settled, gaps, stops>>
<1>1. Step = "clear" /\ Mig \in {"004", "006e", "023"}
  BY AtIs, StepsMigs DEF ClearScratch
<1>2. Scratch(Mig) \in Tables /\ There(Scratch(Mig))
  BY <1>1, Kinds DEF Rebuilds, Sound, ScratchThere
<1>3. db' = [db EXCEPT ![Scratch(Mig)].rows = {}]
  BY DEF ClearScratch
<1> DEFINE r == {}
<1>4. r \subseteq KindOf(Scratch(Mig)) /\ db' = [db EXCEPT ![Scratch(Mig)].rows = r]
  BY <1>3
<1> HIDE DEF r
<1>5. Refills(Scratch(Mig), r)
  BY <1>2, <1>4, RefillEffect
<1> QED
  BY <1>1, <1>5 DEF ClearScratch, Goto, r

LEMMA RecopyEffect ==
  ASSUME Sound, Recopy
  PROVE  /\ Step = "recopy" /\ Mig \in {"004", "006e", "023"}
         /\ \/ Fails
            \/ /\ Refills(Scratch(Mig), db[Bak(Mig)].rows)
               /\ at' = <<Mig, "drop">>
               /\ UNCHANGED <<filled, objects, edgesPartial, start, settled, gaps, stops>>
<1>1. Step = "recopy" /\ Mig \in {"004", "006e", "023"}
  BY AtIs, StepsMigs DEF Recopy
<1>2. /\ Scratch(Mig) \in Tables /\ There(Scratch(Mig)) /\ Bak(Mig) \in Tables
      /\ db[Bak(Mig)].rows \subseteq KindOf(Scratch(Mig))
  BY <1>1, Kinds, SoundTables DEF Rebuilds, Sound, ScratchThere
<1>3. CASE Selects(Mig) \subseteq db[Bak(Mig)].has \cap db[Scratch(Mig)].has
  <2>1. db' = [db EXCEPT ![Scratch(Mig)].rows = db[Bak(Mig)].rows]
    BY <1>3 DEF Recopy
  <2>2. Refills(Scratch(Mig), db[Bak(Mig)].rows)
    BY <1>2, <2>1, RefillEffect
  <2> QED
    BY <1>1, <1>3, <2>2 DEF Recopy, Goto
<1>4. CASE ~(Selects(Mig) \subseteq db[Bak(Mig)].has \cap db[Scratch(Mig)].has)
  BY <1>1, <1>4 DEF Recopy, Fail, Fails, Stays
<1> QED
  BY <1>3, <1>4

LEMMA DropEffect ==
  ASSUME Sound, DropLive
  PROVE  /\ Step = "drop" /\ Mig \in Rebuilds
         /\ Puts(Live(Mig), Absent)
         /\ at' = <<Mig, "rename">> /\ objects' = objects \ On(Live(Mig))
         /\ UNCHANGED <<filled, edgesPartial, start, settled, gaps, stops>>
<1>1. Step = "drop" /\ Mig \in Rebuilds
  BY AtIs, StepsMigs DEF DropLive
<1>2. Live(Mig) \in Tables /\ IsTable(Live(Mig), Absent)
  BY <1>1, Kinds, NewTable
<1>3. Puts(Live(Mig), Absent)
  BY <1>2, PutEffect DEF DropLive
<1> QED
  BY <1>1, <1>3 DEF DropLive, Goto, ObjectsWithout

LEMMA RenameEffect ==
  ASSUME Sound, RenameScratch
  PROVE  /\ Step = "rename" /\ Mig \in Rebuilds
         /\ Shifts(Scratch(Mig), Live(Mig))
         /\ Mig = "004" => at' = <<"004", "facts">>
         /\ Mig = "006f" => at' = <<"006t", "drop_fts">>
         /\ Mig = "006e" => at' = <<"006z", "gate">>
         /\ Mig = "013" => at' = <<"013", "trigger">>
         /\ Mig = "023" => at' = <<"023", "index">>
         /\ UNCHANGED <<filled, objects, edgesPartial, start, settled, gaps, stops>>
<1>1. Step = "rename" /\ Mig \in Rebuilds
  BY AtIs, StepsMigs DEF RenameScratch
<1>2. /\ Scratch(Mig) \in Tables /\ Live(Mig) \in Tables /\ Scratch(Mig) # Live(Mig)
      /\ KindOf(Live(Mig)) = KindOf(Scratch(Mig))
  BY <1>1, Kinds, TablesOf DEF Rebuilds
<1>3. Shifts(Scratch(Mig), Live(Mig))
  BY <1>2, ShiftEffect DEF RenameScratch
<1> QED
  BY <1>1, <1>3 DEF RenameScratch, Goto, Enter, Rebuilds

\* The names.
LEMMA LegacyEffect ==
  ASSUME Sound, LegacyRename
  PROVE  /\ Mig = "legacy" /\ Step = "gate"
         /\ \/ /\ Has("entities", "label") /\ ~There("rql_entities")
               /\ Shifts("entities", "rql_entities") /\ at' = <<"legacy", "fts">>
               /\ objects' = objects \ {"entities_vec_idx"}
            \/ /\ ~Has("entities", "label") \/ There("rql_entities")
               /\ UNCHANGED <<db, objects>> /\ at' = <<"002", "gate">>
         /\ UNCHANGED <<filled, edgesPartial, start, settled, gaps, stops>>
<1>1. Mig = "legacy" /\ Step = "gate"
  BY AtIs DEF LegacyRename
<1>2. Has("entities", "label") => There("entities")
  BY SoundTables, Named DEF Has
<1>3. db' = Moved("entities", "rql_entities") => Shifts("entities", "rql_entities")
  BY ShiftEffect, Named, Kinds
<1> QED
  BY <1>1, <1>2, <1>3, AfterIs DEF LegacyRename, Goto, Done, Enter

LEMMA PrefixEffect ==
  ASSUME Sound, PrefixDrop
  PROVE  /\ Mig = "002" /\ Step = "gate"
         /\ \/ /\ There("rql_entities") /\ ~There("entities")
               /\ Shifts("rql_entities", "entities") /\ at' = <<"002", "fts">>
            \/ /\ ~There("rql_entities") \/ There("entities")
               /\ UNCHANGED db /\ at' = <<"base", "gate">>
         /\ UNCHANGED <<filled, objects, edgesPartial, start, settled, gaps, stops>>
<1>1. Mig = "002" /\ Step = "gate"
  BY AtIs DEF PrefixDrop
<1>2. db' = Moved("rql_entities", "entities") => Shifts("rql_entities", "entities")
  BY ShiftEffect, Named, Kinds
<1> QED
  BY <1>1, <1>2, AfterIs DEF PrefixDrop, Goto, Done, Enter

LEMMA RenameFtsEffect ==
  ASSUME Sound, RenameFts
  PROVE  /\ Step = "fts"
         /\ \/ /\ Mig = "legacy" /\ at' = <<"002", "gate">>
               /\ UNCHANGED db \/ Shifts("entities_fts", "rql_entities_fts")
            \/ /\ Mig = "002" /\ at' = <<"base", "gate">>
               /\ UNCHANGED db \/ Shifts("rql_entities_fts", "entities_fts")
         /\ UNCHANGED <<filled, objects, edgesPartial, start, settled, gaps, stops>>
<1>1. Step = "fts" /\ Mig \in {"legacy", "002"}
  BY AtIs DEF RenameFts
<1>2. /\ db' = Moved("entities_fts", "rql_entities_fts") =>
           Shifts("entities_fts", "rql_entities_fts")
      /\ db' = Moved("rql_entities_fts", "entities_fts") =>
           Shifts("rql_entities_fts", "entities_fts")
  BY ShiftEffect, Named, Kinds
<1> QED
  BY <1>1, <1>2, AfterIs DEF RenameFts, Done, Enter

\* The base tables, where they are not there.
BaseShape(t) == CASE t = "entities" -> {"label", "f32"} [] t = "facts" -> {"f32"} [] OTHER -> {}
BaseTables == {"entities", "facts", "episodic_edges", "episodes", "entities_fts", "facts_fts"}

Bases ==
  /\ IsDb(db')
  /\ \A t \in Tables : db'[t] = IF t \in BaseTables /\ ~There(t) THEN Table({}, BaseShape(t))
                                                                ELSE db[t]

LEMMA BaseEffect ==
  ASSUME Sound, BaseDdl
  PROVE  /\ Mig = "base" /\ Step = "gate" /\ at' = <<"004", "gate">>
         /\ Bases
         /\ objects' = objects \cup (IF Has("entities", "f32")' THEN {"entities_vec_idx"} ELSE {})
                               \cup (IF Has("facts", "f32")' THEN {"facts_vec_idx"} ELSE {})
         /\ UNCHANGED <<filled, edgesPartial, start, settled, gaps, stops>>
<1>1. Mig = "base" /\ Step = "gate"
  BY AtIs DEF BaseDdl
<1>2. /\ db' = [t \in Tables |-> IF t \in BaseTables /\ ~There(t) THEN Table({}, BaseShape(t))
                                                                 ELSE db[t]]
  BY DEF BaseDdl, BaseTables, BaseShape
<1>3. ASSUME NEW t \in Tables
      PROVE  IsTable(t, db'[t])
  <2>1. BaseShape(t) \in SUBSET Features /\ {} \subseteq KindOf(t)
    BY DEF BaseShape, Features
  <2>2. IsTable(t, Table({}, BaseShape(t))) /\ IsTable(t, db[t])
    BY <2>1, NewTable, SoundTables
  <2> QED
    BY <1>2, <2>2
<1>4. Bases
  BY <1>2, <1>3 DEF Bases, IsDb, IsTable
<1> QED
  BY <1>1, <1>4, AfterIs DEF BaseDdl, Done, Enter, Has

\* The gates, and what else leaves the tables alone.
LEMMA Gate004Effect ==
  ASSUME Sound, Gate004
  PROVE  /\ Mig = "004" /\ Step = "gate" /\ Stays
         /\ \/ Has("entities", "composite_pk") /\ at' = <<"006", "gate">>
            \/ /\ ~Has("entities", "composite_pk") /\ There("entities_new")
               /\ at' = <<"004", "count">>
            \/ /\ ~Has("entities", "composite_pk") /\ ~There("entities_new")
               /\ at' = <<"004", "backup">>
  BY AtIs, AfterIs DEF Gate004, Goto, Done, Enter, Stays

LEMMA Gate006Effect ==
  ASSUME Sound, Gate006
  PROVE  /\ Mig = "006" /\ Step = "gate" /\ edgesPartial' = There("episodic_edges_new")
         /\ \/ Has("facts", "composite_fk") /\ ~edgesPartial' /\ at' = <<"008", "gate">>
            \/ Has("facts", "composite_fk") /\ edgesPartial' /\ at' = <<"006e", "count">>
            \/ ~Has("facts", "composite_fk") /\ There("facts_new") /\ at' = <<"006f", "drop">>
            \/ ~Has("facts", "composite_fk") /\ ~There("facts_new") /\ at' = <<"006f", "backup">>
         /\ UNCHANGED <<db, filled, objects, start, settled, gaps, stops>>
  BY AtIs DEF Gate006, Enter

LEMMA Gate013Effect ==
  ASSUME Sound, Gate013
  PROVE  /\ Mig = "013" /\ Step = "gate" /\ Stays
         /\ \/ Has("entities", "DreamPass4") /\ at' = <<"013", "trigger">>
            \/ ~Has("entities", "DreamPass4") /\ at' = <<"013", "discard">>
  BY AtIs DEF Gate013, Goto, Stays

LEMMA DiscardEffect ==
  ASSUME Sound, Discard013
  PROVE  /\ Mig = "013" /\ Step = "discard" /\ at' = <<"013", "create">>
         /\ Puts("entities_new", Absent)
         /\ UNCHANGED <<filled, objects, edgesPartial, start, settled, gaps, stops>>
<1>1. IsTable("entities_new", Absent)
  BY NewTable, Named
<1>2. Puts("entities_new", Absent)
  BY <1>1, Named, PutEffect DEF Discard013
<1> QED
  BY <1>2, AtIs DEF Discard013, Goto

LEMMA Gate023Effect ==
  ASSUME Sound, Gate023
  PROVE  /\ Mig = "023" /\ Step = "gate" /\ Stays
         /\ \/ There("entities_new_023") /\ at' = <<"023", "count">>
            \/ /\ ~There("entities_new_023") /\ ~Has("entities", "f32")
               /\ at' = <<"023", "backup">>
            \/ /\ ~There("entities_new_023") /\ Has("entities", "f32")
               /\ at' = <<"027e", "gate">>
  BY AtIs, AfterIs DEF Gate023, Goto, Done, Enter, Stays

LEMMA GroupEffect ==
  ASSUME Sound, AddGroupIds
  PROVE  /\ Mig = "004"
         /\ \/ /\ Step = "facts" /\ at' = <<"004", "edges">>
               /\ Alters("facts", db["facts"].has \cup {"group_ids"})
            \/ /\ Step = "edges" /\ at' = <<"006", "gate">>
               /\ Alters("episodic_edges", db["episodic_edges"].has \cup {"group_ids"})
         /\ UNCHANGED <<filled, objects, edgesPartial, start, settled, gaps, stops>>
<1>1. There("facts") /\ There("episodic_edges") /\ Mig = "004" /\ Step \in {"facts", "edges"}
  BY DEF AddGroupIds, Sound, Standing, Early, Swapping
<1>2. /\ db["facts"].has \cup {"group_ids"} \in SUBSET Features
      /\ db["episodic_edges"].has \cup {"group_ids"} \in SUBSET Features
  BY SoundTables, Named DEF Features
<1>3. CASE Step = "facts"
  <2> DEFINE h == db["facts"].has \cup {"group_ids"}
  <2>1. db' = [db EXCEPT !["facts"].has = h] /\ h \in SUBSET Features
    BY <1>2, <1>3 DEF AddGroupIds
  <2> HIDE DEF h
  <2>2. Alters("facts", h)
    BY <1>1, <2>1, Named, AlterEffect
  <2> QED
    BY <1>1, <1>3, <2>2 DEF AddGroupIds, Goto, h
<1>4. CASE Step = "edges"
  <2> DEFINE h == db["episodic_edges"].has \cup {"group_ids"}
  <2>1. db' = [db EXCEPT !["episodic_edges"].has = h] /\ h \in SUBSET Features
    BY <1>2, <1>4 DEF AddGroupIds
  <2> HIDE DEF h
  <2>2. Alters("episodic_edges", h)
    BY <1>1, <2>1, Named, AlterEffect
  <2> QED
    BY <1>1, <1>4, <2>2, AfterIs DEF AddGroupIds, Done, Enter, h
<1> QED
  BY <1>1, <1>3, <1>4

LEMMA ForeignEffect ==
  ASSUME Sound, CheckForeignKeys
  PROVE  /\ Stays
         /\ \/ Mig = "006z" /\ Step = "gate" /\ at' \in {Closed, <<"008", "gate">>}
            \/ Mig = "023" /\ Step = "check" /\ at' \in {Closed, <<"023", "drop_bak">>}
  BY AtIs, AfterIs DEF CheckForeignKeys, Fail, Goto, Done, Enter, Stays

LEMMA TriggerEffect ==
  ASSUME Sound, CreateTrigger
  PROVE  /\ Mig = "013" /\ Step = "trigger" /\ at' = <<"015a", "gate">>
         /\ objects' = objects \cup {"cascade_trigger"}
         /\ UNCHANGED <<db, filled, edgesPartial, start, settled, gaps, stops>>
  BY AtIs, AfterIs DEF CreateTrigger, Done, Enter

LEMMA VecIndexEffect ==
  ASSUME Sound, CreateVecIndex
  PROVE  /\ Mig = "023" /\ Step = "index" /\ at' = <<"023", "check">>
         /\ objects' = objects \cup {"entities_vec_idx"}
         /\ UNCHANGED <<db, filled, edgesPartial, start, settled, gaps, stops>>
  BY AtIs DEF CreateVecIndex, Goto

LEMMA DropBakEffect ==
  ASSUME Sound, DropBak023
  PROVE  /\ Mig = "023" /\ Step = "drop_bak" /\ at' = <<"027e", "gate">>
         /\ Puts("entities_bak_023", Absent)
         /\ UNCHANGED <<filled, objects, edgesPartial, start, settled, gaps, stops>>
<1>1. IsTable("entities_bak_023", Absent)
  BY NewTable, Named
<1>2. Puts("entities_bak_023", Absent)
  BY <1>1, Named, PutEffect DEF DropBak023
<1> QED
  BY <1>2, AtIs, AfterIs DEF DropBak023, Done, Enter

\* The columns.
LEMMA GateColumnEffect ==
  ASSUME Sound, GateColumn
  PROVE  /\ Mig \in Fillers /\ Step = "gate" /\ Stays
         /\ \/ ~Has(Extended(Mig), Column(Mig)) /\ Mig = "008" /\ at' = <<"008", "backup">>
            \/ ~Has(Extended(Mig), Column(Mig)) /\ Mig # "008" /\ at' = <<Mig, "add">>
            \/ Has(Extended(Mig), Column(Mig)) /\ Mig = "012" /\ at' = <<"012", "fill">>
            \/ Has(Extended(Mig), Column(Mig)) /\ Mig # "012" /\ at' = <<After(Mig), "gate">>
  BY DEF GateColumn, Goto, Done, Enter, Stays

LEMMA AddColumnEffect ==
  ASSUME Sound, AddColumn
  PROVE  /\ Mig \in Fillers /\ Step = "add" /\ at' = <<Mig, "fill">>
         /\ Alters(Extended(Mig), db[Extended(Mig)].has \cup {Column(Mig)})
         /\ UNCHANGED <<filled, objects, edgesPartial, start, settled, gaps, stops>>
<1> DEFINE h == db[Extended(Mig)].has \cup {Column(Mig)}
<1>1. Mig \in Fillers /\ Step = "add"
  BY AtIs, StepsMigs DEF AddColumn
<1>2. Extended(Mig) \in {"entities", "episodes"} /\ Column(Mig) \in Features
  BY <1>1 DEF Fillers, Extended, Column, Features
<1>3. Extended(Mig) \in Tables /\ There(Extended(Mig))
  BY <1>1, <1>2, Named DEF Sound, Standing, Early, Swapping, Fillers
<1>4. h \in SUBSET Features /\ db' = [db EXCEPT ![Extended(Mig)].has = h]
  BY <1>2, <1>3, SoundTables DEF AddColumn
<1> HIDE DEF h
<1>5. Alters(Extended(Mig), h)
  BY <1>3, <1>4, AlterEffect
<1> QED
  BY <1>1, <1>5 DEF AddColumn, Goto, h

LEMMA BackfillEffect ==
  ASSUME Sound, Backfill
  PROVE  /\ Mig \in Fillers /\ Step = "fill" /\ at' = <<After(Mig), "gate">>
         /\ filled' = filled \cup {Column(Mig)} /\ Column(Mig) \in Backfilled
         /\ UNCHANGED <<db, objects, edgesPartial, start, settled, gaps, stops>>
  BY AtIs, StepsMigs DEF Backfill, Done, Enter, Fillers, Column, Backfilled

LEMMA DropLabelEffect ==
  ASSUME Sound, DropLabel
  PROVE  /\ Mig = "009" /\ Step = "gate" /\ at' = <<"011", "gate">>
         /\ Alters("entities", db["entities"].has \ {"label"})
         /\ UNCHANGED <<filled, objects, edgesPartial, start, settled, gaps, stops>>
<1> DEFINE h == db["entities"].has \ {"label"}
<1>1. Mig = "009" /\ Step = "gate"
  BY AtIs DEF DropLabel
<1>2. There("entities") /\ h \in SUBSET Features
  BY <1>1, SoundTables, Named DEF Sound, Standing, Early, Swapping
<1>3. db' = [db EXCEPT !["entities"].has = h]
  BY DEF DropLabel
<1> HIDE DEF h
<1>4. Alters("entities", h)
  BY <1>2, <1>3, Named, AlterEffect
<1> QED
  BY <1>1, <1>4, AfterIs DEF DropLabel, Done, Enter, h

LEMMA UniqueEffect ==
  ASSUME Sound, UniqueEdges
  PROVE  /\ Mig = "017" /\ Step = "gate" /\ Stays
         /\ \/ Has("episodic_edges", "group_ids") /\ at' = <<"023", "gate">>
            \/ at' = Closed
  BY AtIs, AfterIs DEF UniqueEdges, Fail, Done, Enter, Stays

\* The full-text tables.
FtsMigs == {"006t", "027e", "027f"}

LEMMA FtsTables ==
  /\ Fts("027e") = "entities_fts" /\ Fts("027f") = "facts_fts" /\ Fts("006t") = "facts_fts"
  /\ Indexed("027e") = "entities" /\ Indexed("027f") = "facts" /\ Indexed("006t") = "facts"
  BY DEF Fts, Indexed

LEMMA GateFtsEffect ==
  ASSUME Sound, GateFts
  PROVE  /\ Mig \in {"027e", "027f"} /\ Step = "gate" /\ Stays
         /\ \/ Has(Fts(Mig), "porter") /\ at' = <<After(Mig), "gate">>
            \/ ~Has(Fts(Mig), "porter") /\ at' = <<Mig, "drop_fts">>
  BY DEF GateFts, Goto, Done, Enter, Stays

LEMMA DropFtsEffect ==
  ASSUME Sound, DropFts
  PROVE  /\ Mig \in FtsMigs /\ Step = "drop_fts" /\ at' = <<Mig, "create_fts">>
         /\ Puts(Fts(Mig), Absent)
         /\ UNCHANGED <<filled, objects, edgesPartial, start, settled, gaps, stops>>
<1>1. Mig \in FtsMigs /\ Step = "drop_fts"
  BY AtIs, StepsMigs DEF DropFts, FtsMigs
<1>2. Fts(Mig) \in Tables /\ IsTable(Fts(Mig), Absent)
  BY <1>1, FtsTables, Named, NewTable DEF FtsMigs
<1>3. Puts(Fts(Mig), Absent)
  BY <1>2, PutEffect DEF DropFts
<1> QED
  BY <1>1, <1>3 DEF DropFts, Goto

LEMMA CreateFtsEffect ==
  ASSUME Sound, CreateFts
  PROVE  /\ Mig \in FtsMigs /\ Step = "create_fts" /\ at' = <<Mig, "fill_fts">>
         /\ Puts(Fts(Mig), Table({}, IF Mig = "006t" THEN {} ELSE {"porter"}))
         /\ UNCHANGED <<filled, objects, edgesPartial, start, settled, gaps, stops>>
<1> DEFINE h == IF Mig = "006t" THEN {} ELSE {"porter"}
           x == Table({}, h)
<1>1. Mig \in FtsMigs /\ Step = "create_fts"
  BY AtIs, StepsMigs DEF CreateFts, FtsMigs
<1>2. Fts(Mig) \in Tables /\ {} \subseteq KindOf(Fts(Mig)) /\ h \in SUBSET Features
  BY <1>1, FtsTables, Named DEF FtsMigs, Features
<1>3. IsTable(Fts(Mig), x)
  BY <1>2, NewTable
<1>4. Puts(Fts(Mig), x)
  BY <1>2, <1>3, PutEffect DEF CreateFts
<1> QED
  BY <1>1, <1>4 DEF CreateFts, Goto

LEMMA FillFtsEffect ==
  ASSUME Sound, FillFts
  PROVE  /\ Mig \in FtsMigs /\ Step = "fill_fts"
         /\ Refills(Fts(Mig), db[Fts(Mig)].rows \cup db[Indexed(Mig)].rows)
         /\ \/ /\ Mig = "006t" /\ objects' = objects \cup {"facts_vec_idx"}
               /\ at' = <<"006e", IF edgesPartial THEN "count" ELSE "backup">>
            \/ Mig # "006t" /\ objects' = objects /\ at' = <<After(Mig), "gate">>
         /\ UNCHANGED <<filled, edgesPartial, start, settled, gaps, stops>>
<1> DEFINE r == db[Fts(Mig)].rows \cup db[Indexed(Mig)].rows
<1>1. Mig \in FtsMigs /\ Step = "fill_fts"
  BY AtIs, StepsMigs DEF FillFts, FtsMigs
<1>2. /\ Fts(Mig) \in Tables /\ Indexed(Mig) \in Tables
      /\ KindOf(Fts(Mig)) = KindOf(Indexed(Mig))
  BY <1>1, FtsTables, Named, Kinds DEF FtsMigs
<1>3. There(Fts(Mig)) /\ r \subseteq KindOf(Fts(Mig))
  BY <1>1, <1>2, SoundTables DEF Sound, FtsThere
<1>4. db' = [db EXCEPT ![Fts(Mig)].rows = r]
  BY DEF FillFts
<1> HIDE DEF r
<1>5. Refills(Fts(Mig), r)
  BY <1>2, <1>3, <1>4, RefillEffect
<1> QED
  BY <1>1, <1>5 DEF FillFts, Done, Enter, r

\* Opens and ends.
LEMMA EndsEffect ==
  ASSUME Sound
  PROVE  /\ OpenStore => /\ Mig = "closed" /\ at' = <<"legacy", "gate">> /\ Stays
         /\ CheckIntegrity =>
              /\ Mig = "check" /\ at' \in {Opened, Closed} /\ settled' \in BOOLEAN
              /\ UNCHANGED <<db, filled, objects, edgesPartial, start, gaps, stops>>
         /\ Close => Mig = "open" /\ at' = Closed /\ Stays
         /\ Stop => /\ at' = Closed /\ gaps \subseteq gaps' /\ stops' = stops + 1
                    /\ UNCHANGED <<db, filled, objects, edgesPartial, start, settled>>
<1>1. OpenStore => /\ Mig = "closed" /\ at' = <<"legacy", "gate">> /\ Stays
  BY AtIs DEF OpenStore, Closed, Enter, Stays
<1>2. CheckIntegrity =>
              /\ Mig = "check" /\ at' \in {Opened, Closed} /\ settled' \in BOOLEAN
              /\ UNCHANGED <<db, filled, objects, edgesPartial, start, gaps, stops>>
  BY AtIs DEF CheckIntegrity, Sound, TypeOK
<1>3. Close => Mig = "open" /\ at' = Closed /\ Stays
  BY AtIs DEF Close, Opened, Stays
<1>4. Stop => /\ at' = Closed /\ gaps \subseteq gaps' /\ stops' = stops + 1
                    /\ UNCHANGED <<db, filled, objects, edgesPartial, start, settled>>
  BY DEF Stop
<1> QED
  BY <1>1, <1>2, <1>3, <1>4

-----------------------------------------------------------------------------
\* Types, and the tables that stand

LEMMA StartSound == MigrationAssumption /\ Init => Sound
<1> SUFFICES ASSUME MigrationAssumption, Init PROVE Sound
  OBVIOUS
<1>1. PICK s \in InitialDbs : db = s.db /\ filled = s.filled
  BY DEF Init
<1>2. Released(db, filled)
  BY <1>1 DEF MigrationAssumption
<1>3. at = <<"closed", "none">> /\ Mig = "closed" /\ Step = "none"
  BY DEF Init, Closed, Mig, Step
<1>4. TypeOK
  BY <1>2 DEF TypeOK, Released, There, Init, Objects
<1>5. AtStatement
  BY <1>3 DEF AtStatement, Migs, StepsOf
<1>6. OldName
  BY <1>2, <1>3 DEF OldName, Before, Released, There
<1> QED
  BY <1>3, <1>4, <1>5, <1>6 DEF Sound, Standing, Early, ScratchThere, FtsThere

LEMMA TypeStep ==
  ASSUME Sound, Next
  PROVE  TypeOK'
<1>1. /\ TypeOK /\ filled \subseteq Backfilled /\ objects \subseteq Objects /\ stops \in Nat
      /\ settled \in BOOLEAN /\ edgesPartial \in BOOLEAN
  BY DEF Sound, TypeOK
<1>2. IsDb(db)
  BY <1>1 DEF TypeOK, IsDb, There
<1>3. CASE Rebuild
  BY <1>1, <1>2, <1>3, Gate004Effect, Gate006Effect, Gate013Effect, DiscardEffect,
     Gate023Effect, BackupEffect, CreateEffect, CopyEffect, CheckEffect, ClearEffect,
     RecopyEffect, DropEffect, RenameEffect, GroupEffect, ForeignEffect, TriggerEffect,
     VecIndexEffect, DropBakEffect, SoundTables, Named
     DEF Rebuild, TypeOK, Stays, Fails, Puts, Shifts, Refills, Alters, IsDb, Objects, There
<1>4. CASE LegacyRename \/ PrefixDrop \/ RenameFts \/ BaseDdl \/ GateColumn \/ AddColumn
             \/ Backfill \/ DropLabel \/ UniqueEdges
  BY <1>1, <1>2, <1>4, LegacyEffect, PrefixEffect, RenameFtsEffect, BaseEffect,
     GateColumnEffect, AddColumnEffect, BackfillEffect, DropLabelEffect, UniqueEffect
     DEF TypeOK, Stays, Shifts, Bases, Alters, IsDb, Objects, There
<1>5. CASE GateFts \/ DropFts \/ CreateFts \/ FillFts
  BY <1>1, <1>2, <1>5, GateFtsEffect, DropFtsEffect, CreateFtsEffect, FillFtsEffect
     DEF TypeOK, Stays, Puts, Refills, IsDb, Objects, There
<1>6. CASE OpenStore \/ CheckIntegrity \/ Close \/ Stop
  <2>1. db' = db /\ filled' = filled /\ objects' = objects /\ edgesPartial' = edgesPartial
    BY <1>6, EndsEffect DEF Stays
  <2>2. stops' \in Nat /\ settled' \in BOOLEAN
    BY <1>1, <1>6, EndsEffect DEF Stays
  <2> QED
    BY <1>1, <2>1, <2>2 DEF TypeOK, There
<1> QED
  BY <1>3, <1>4, <1>5, <1>6 DEF Next, Statement

LEMMA Arrives ==
  ASSUME NEW m \in Migs, NEW s \in StepsOf(m), at' = <<m, s>>
  PROVE  AtStatement' /\ Mig' = m /\ Step' = s
  BY DEF AtStatement, Mig, Step

LEMMA Ends ==
  /\ at' = Closed => AtStatement' /\ Mig' = "closed" /\ Step' = "none"
  /\ at' = Opened => AtStatement' /\ Mig' = "open" /\ Step' = "none"
  BY Arrives DEF Closed, Opened, Migs, StepsOf

LEMMA AtStep ==
  ASSUME Sound, Next
  PROVE  AtStatement'
<1>1. CASE Rebuild
  BY <1>1, Gate004Effect, Gate006Effect, Gate013Effect, DiscardEffect, Gate023Effect,
     BackupEffect, CreateEffect, CopyEffect, CheckEffect, ClearEffect, RecopyEffect, DropEffect,
     RenameEffect, GroupEffect, ForeignEffect, TriggerEffect, VecIndexEffect, DropBakEffect,
     Ends, Arrives DEF Rebuild, Rebuilds, Fails, Migs, StepsOf
<1>2. CASE LegacyRename \/ PrefixDrop \/ RenameFts \/ BaseDdl \/ GateColumn \/ AddColumn
             \/ Backfill \/ DropLabel \/ UniqueEdges
  BY <1>2, LegacyEffect, PrefixEffect, RenameFtsEffect, BaseEffect, GateColumnEffect,
     AddColumnEffect, BackfillEffect, DropLabelEffect, UniqueEffect, AfterIs, Ends, Arrives
     DEF Fillers, Migs, StepsOf
<1>3. CASE GateFts \/ DropFts \/ CreateFts \/ FillFts \/ OpenStore \/ CheckIntegrity \/ Close
             \/ Stop
  BY <1>3, GateFtsEffect, DropFtsEffect, CreateFtsEffect, FillFtsEffect, EndsEffect, AfterIs,
     Ends, Arrives DEF FtsMigs, Migs, StepsOf
<1> QED
  BY <1>1, <1>2, <1>3 DEF Next, Statement

LEMMA TablesStep ==
  ASSUME Sound, Next
  PROVE  Standing' /\ ScratchThere' /\ FtsThere' /\ OldName'
<1>1. Standing /\ ScratchThere /\ FtsThere /\ OldName
  BY DEF Sound
<1>2. CASE Rebuild
  <2>1. CASE Gate004 \/ Gate006 \/ Gate013 \/ Discard013 \/ Gate023 \/ AddGroupIds
                \/ CheckForeignKeys \/ CreateTrigger \/ CreateVecIndex \/ DropBak023
    BY <1>1, <2>1, Gate004Effect, Gate006Effect, Gate013Effect, DiscardEffect, Gate023Effect,
       GroupEffect, ForeignEffect, TriggerEffect, VecIndexEffect, DropBakEffect, TablesOf,
       Named, Ends, Arrives
       DEF Standing, ScratchThere, FtsThere, OldName, Early, Before, Swapping, There, Stays,
           Puts, Alters, Mig, Step
  <2>2. CASE Backup \/ CreateScratch \/ CopyRows \/ CheckScratch \/ ClearScratch \/ Recopy
    BY <1>1, <2>2, BackupEffect, CreateEffect, CopyEffect, CheckEffect, ClearEffect,
       RecopyEffect, TablesOf, Named, Ends
       DEF Standing, ScratchThere, FtsThere, OldName, Early, Before, Swapping, There, Stays,
           Fails, Puts, Refills, Mig, Step, Rebuilds, Table
  <2>3. CASE DropLive \/ RenameScratch
    BY <1>1, <2>3, DropEffect, RenameEffect, TablesOf, Named, Ends
       DEF Standing, ScratchThere, FtsThere, OldName, Early, Before, Swapping, There, Puts,
           Shifts, Mig, Step, Rebuilds, Absent
  <2> QED
    BY <1>2, <2>1, <2>2, <2>3 DEF Rebuild
<1>3. CASE LegacyRename \/ PrefixDrop \/ RenameFts
  BY <1>1, <1>3, LegacyEffect, PrefixEffect, RenameFtsEffect, Named
     DEF Standing, ScratchThere, FtsThere, OldName, Early, Before, Swapping, There, Stays,
         Shifts, Mig, Step, Absent
<1>8. CASE BaseDdl
  <2>1. /\ Mig = "base" /\ Step = "gate" /\ Mig' = "004" /\ Step' = "gate" /\ Bases
    BY <1>8, BaseEffect DEF Mig, Step
  <2>2. \A t \in BaseTables : There(t)'
    <3> TAKE t \in BaseTables
    <3>1. t \in Tables
      BY Named DEF BaseTables
    <3>2. CASE There(t)
      BY <2>1, <3>1, <3>2 DEF Bases, There
    <3>3. CASE ~There(t)
      <4>1. db'[t] = Table({}, BaseShape(t))
        BY <2>1, <3>1, <3>3 DEF Bases
      <4> QED
        BY <4>1 DEF There, Table
    <3> QED
      BY <3>2, <3>3
  <2>3. There("rql_entities")' = There("rql_entities")
    BY <2>1, Named DEF Bases, BaseTables, There
  <2> QED
    BY <1>1, <2>1, <2>2, <2>3
       DEF Standing, ScratchThere, FtsThere, OldName, Before, Swapping, BaseTables
<1>4. CASE GateColumn \/ AddColumn \/ Backfill \/ DropLabel \/ UniqueEdges
  BY <1>1, <1>4, GateColumnEffect, AddColumnEffect, BackfillEffect, DropLabelEffect,
     UniqueEffect, AfterIs, Ends, Named
     DEF Standing, ScratchThere, FtsThere, OldName, Early, Before, Swapping, There, Stays,
         Alters, Mig, Step, Fillers, Extended
<1>6. CASE GateFts \/ DropFts \/ CreateFts
  BY <1>1, <1>6, GateFtsEffect, DropFtsEffect, CreateFtsEffect, AfterIs, FtsTables, Named
     DEF Standing, ScratchThere, FtsThere, OldName, Early, Before, Swapping, There, Stays, Puts,
         Mig, Step, FtsMigs, Absent, Table
<1>7. CASE FillFts
  <2>1. /\ Mig \in FtsMigs /\ Step = "fill_fts"
        /\ \/ /\ Mig = "006t" /\ Mig' = "006e"
              /\ Step' = (IF edgesPartial THEN "count" ELSE "backup")
           \/ Mig \in {"027e", "027f"} /\ Mig' \in {"027f", "check"} /\ Step' = "gate"
    BY <1>7, FillFtsEffect, AfterIs DEF Mig, Step, FtsMigs
  <2>2. \A t \in Tables : There(t) => There(t)'
    BY <1>7, FillFtsEffect DEF Refills, There
  <2>3. There("rql_entities")' = There("rql_entities")
    BY <1>7, <2>1, FillFtsEffect, FtsTables, Named DEF Refills, There, FtsMigs
  <2> QED
    BY <1>1, <2>1, <2>2, <2>3, Named, TablesOf
       DEF Standing, ScratchThere, FtsThere, OldName, Early, Before, Swapping, FtsMigs
<1>5. CASE OpenStore \/ CheckIntegrity \/ Close \/ Stop
  BY <1>1, <1>5, EndsEffect, Ends
     DEF Standing, ScratchThere, FtsThere, OldName, Early, Before, Swapping, There, Stays, Mig,
         Step
<1> QED
  BY <1>2, <1>3, <1>4, <1>5, <1>6, <1>7, <1>8 DEF Next, Statement

LEMMA SoundStep == Sound /\ [Next]_vars => Sound'
<1>1. CASE Next
  BY <1>1, TypeStep, AtStep, TablesStep DEF Sound
<1>2. CASE UNCHANGED vars
  BY <1>2
     DEF vars, Sound, TypeOK, AtStatement, Standing, ScratchThere, FtsThere, OldName, Early,
         Before, Swapping, There, Mig, Step
<1> QED
  BY <1>1, <1>2

-----------------------------------------------------------------------------
\* How far the shapes have come

Past023 == {"027e", "027f", "check", "open"}
Past017 == Past023 \cup {"023"}
Past015 == Past017 \cup {"017"}
Past013 == Past015 \cup {"015a"}
Past012 == Past013 \cup {"013"}
Past011 == Past012 \cup {"012"}
Past009 == Past011 \cup {"011"}
Past008 == Past009 \cup {"009"}
Past006 == Past008 \cup {"008"}
Past004 == Past006 \cup {"006", "006f", "006t", "006e", "006z"}

LEMMA PastsAre ==
  /\ Past004 = {"006", "006f", "006t", "006e", "006z", "008", "009", "011", "012", "013",
                "015a", "017", "023", "027e", "027f", "check", "open"}
  /\ Past006 = {"008", "009", "011", "012", "013", "015a", "017", "023", "027e", "027f",
                "check", "open"}
  /\ Past008 = {"009", "011", "012", "013", "015a", "017", "023", "027e", "027f", "check",
                "open"}
  /\ Past009 = {"011", "012", "013", "015a", "017", "023", "027e", "027f", "check", "open"}
  /\ Past011 = {"012", "013", "015a", "017", "023", "027e", "027f", "check", "open"}
  /\ Past012 = {"013", "015a", "017", "023", "027e", "027f", "check", "open"}
  /\ Past013 = {"015a", "017", "023", "027e", "027f", "check", "open"}
  /\ Past015 = {"017", "023", "027e", "027f", "check", "open"}
  /\ Past017 = {"023", "027e", "027f", "check", "open"}
  /\ Past023 = {"027e", "027f", "check", "open"}
  BY DEF Past004, Past006, Past008, Past009, Past011, Past012, Past013, Past015, Past017,
         Past023

\* The scratch tables have their new shape.
ScratchShapes ==
  /\ There("entities_new") => Has("entities_new", "composite_pk")
  /\ There("entities_new_023") => db["entities_new_023"].has = NewShape("023")
  /\ There("facts_new") => NewShape("006f") \subseteq db["facts_new"].has
  /\ There("episodic_edges_new") => NewShape("006e") \subseteq db["episodic_edges_new"].has
  /\ Mig = "013" /\ Step = "create" => ~There("entities_new")
  /\ Mig = "013" /\ Step \in {"copy", "drop", "rename"} =>
       db["entities_new"].has = NewShape("013")

\* What each migration leaves, from its last statement on; the columns of entities are
\* back when the table is.
OnEntities(f) == Has("entities", f) \/ (Swapping /\ Mig \in {"013", "023"})

EntityShapes ==
  /\ Mig \in Past004 \/ (Mig = "004" /\ Step \in {"facts", "edges"}) => OnEntities("composite_pk")
  /\ Mig \in Past008 \/ (Mig = "008" /\ Step = "fill") => OnEntities("entity_type_id")
  /\ Mig \in Past009 => ~Has("entities", "label")
  /\ Mig \in Past012 \/ (Mig = "012" /\ Step = "fill") => OnEntities("entity_type_source")
  /\ Mig \in Past013 \/ (Mig = "013" /\ Step = "trigger") => OnEntities("DreamPass4")
  /\ Mig \in Past023 \/ (Mig = "023" /\ Step \in {"index", "check", "drop_bak"}) =>
       Has("entities", "f32") /\ ~There("entities_new_023")

OtherShapes ==
  /\ Mig = "006f" /\ Step # "rename" => ~Has("facts", "composite_fk")
  /\ Mig \in Past006 \cup {"006t", "006e", "006z"} => Has("facts", "composite_fk")
  /\ Mig \in Past006 \cup {"006z"} => ~There("episodic_edges_new")
  /\ Mig \in Past011 \/ (Mig = "011" /\ Step = "fill") => Has("episodes", "content_hash")
  /\ Mig \in Past012 => "entity_type_source" \in filled
  /\ Mig \in Past015 \/ (Mig = "015a" /\ Step = "fill") =>
       Has("episodes", "episode_processing_status")
  /\ Mig \in Past017 => Has("episodic_edges", "group_ids")
  /\ Mig \in {"027f", "check", "open"} => Has("entities_fts", "porter")
  /\ Mig \in {"check", "open"} => Has("facts_fts", "porter")
  /\ Mig = "027e" /\ Step = "fill_fts" => Has("entities_fts", "porter")
  /\ Mig = "027f" /\ Step = "fill_fts" => Has("facts_fts", "porter")

Shaped == Sound /\ ScratchShapes /\ EntityShapes /\ OtherShapes

LEMMA StartShaped == MigrationAssumption /\ Init => Shaped
<1> SUFFICES ASSUME MigrationAssumption, Init PROVE Shaped
  OBVIOUS
<1>1. PICK s \in InitialDbs : db = s.db /\ filled = s.filled
  BY DEF Init
<1>2. Released(db, filled)
  BY <1>1 DEF MigrationAssumption
<1>3. Mig = "closed" /\ Step = "none"
  BY DEF Init, Closed, Mig, Step
<1>4. ScratchShapes
  BY <1>2, <1>3 DEF ScratchShapes, Released, Unfinished, There
<1>5. EntityShapes /\ OtherShapes
  BY <1>3, PastsAre DEF EntityShapes, OtherShapes
<1> QED
  BY <1>4, <1>5, StartSound DEF Shaped

LEMMA ScratchShapesStep ==
  ASSUME Shaped, Next
  PROVE  ScratchShapes'
<1>1. Sound /\ ScratchShapes
  BY DEF Shaped
<1>2. CASE Backup \/ CreateScratch
  BY <1>1, <1>2, BackupEffect, CreateEffect, TablesOf, Named
     DEF ScratchShapes, There, Has, Puts, Mig, Step, Rebuilds, Table, NewShape
<1>3. CASE CopyRows \/ CheckScratch \/ ClearScratch \/ Recopy
  BY <1>1, <1>3, CopyEffect, CheckEffect, ClearEffect, RecopyEffect, TablesOf, Named, Ends
     DEF ScratchShapes, There, Has, Stays, Fails, Refills, Mig, Step, Rebuilds, Sound,
         ScratchThere
<1>4. CASE DropLive \/ RenameScratch \/ Discard013 \/ DropBak023
  BY <1>1, <1>4, DropEffect, RenameEffect, DiscardEffect, DropBakEffect, TablesOf, Named
     DEF ScratchShapes, There, Has, Puts, Shifts, Mig, Step, Rebuilds, Absent
<1>5. CASE Gate004 \/ Gate006 \/ Gate013 \/ Gate023 \/ AddGroupIds
                \/ CheckForeignKeys \/ CreateTrigger \/ CreateVecIndex
  BY <1>1, <1>5, Gate004Effect, Gate006Effect, Gate013Effect, Gate023Effect, GroupEffect,
     ForeignEffect, TriggerEffect, VecIndexEffect, Named, Ends
     DEF ScratchShapes, There, Has, Stays, Alters, Mig, Step
<1>6. CASE LegacyRename \/ PrefixDrop \/ RenameFts \/ BaseDdl
  BY <1>1, <1>6, LegacyEffect, PrefixEffect, RenameFtsEffect, BaseEffect, Named
     DEF ScratchShapes, There, Has, Stays, Bases, BaseTables, Shifts, Mig, Step
<1>7. CASE GateColumn \/ AddColumn \/ Backfill \/ DropLabel \/ UniqueEdges
  BY <1>1, <1>7, GateColumnEffect, AddColumnEffect, BackfillEffect, DropLabelEffect,
     UniqueEffect, AfterIs, Ends, Named
     DEF ScratchShapes, There, Has, Stays, Alters, Mig, Step, Fillers, Extended
<1>8. CASE GateFts \/ DropFts \/ CreateFts \/ FillFts
  BY <1>1, <1>8, GateFtsEffect, DropFtsEffect, CreateFtsEffect, FillFtsEffect, AfterIs,
     FtsTables, Named DEF ScratchShapes, There, Has, Stays, Puts, Refills, Mig, Step, FtsMigs
<1>9. CASE OpenStore \/ CheckIntegrity \/ Close \/ Stop
  BY <1>1, <1>9, EndsEffect, Ends DEF ScratchShapes, There, Has, Stays, Mig, Step
<1> QED
  BY <1>2, <1>3, <1>4, <1>5, <1>6, <1>7, <1>8, <1>9 DEF Next, Statement, Rebuild

LEMMA EntityShapesStep ==
  ASSUME Shaped, Next
  PROVE  EntityShapes'
<1>1. Sound /\ ScratchShapes /\ EntityShapes
  BY DEF Shaped
<1>2. CASE Backup \/ CreateScratch
  BY <1>1, <1>2, BackupEffect, CreateEffect, TablesOf, Named, PastsAre
     DEF EntityShapes, OnEntities, Swapping, There, Has, Mig, Step, Puts, Rebuilds, Table,
         NewShape
<1>3. CASE CopyRows \/ CheckScratch \/ ClearScratch \/ Recopy
  BY <1>1, <1>3, CopyEffect, CheckEffect, ClearEffect, RecopyEffect, TablesOf, Named, Ends,
     PastsAre
     DEF EntityShapes, OnEntities, Swapping, There, Has, Mig, Step, Stays, Fails, Refills,
         Rebuilds, Sound, ScratchThere
<1>4. CASE DropLive \/ Discard013 \/ DropBak023
  BY <1>1, <1>4, DropEffect, DiscardEffect, DropBakEffect, TablesOf, Named, PastsAre
     DEF EntityShapes, OnEntities, Swapping, There, Has, Mig, Step, Puts, Rebuilds, Absent
<1>5. CASE RenameScratch
  BY <1>1, <1>5, RenameEffect, TablesOf, Named, PastsAre
     DEF EntityShapes, OnEntities, Swapping, There, Has, Mig, Step, Shifts, Rebuilds, Absent,
         NewShape, ScratchShapes, Sound, ScratchThere
<1>6. CASE Gate004 \/ Gate006 \/ Gate013 \/ Gate023
  BY <1>1, <1>6, Gate004Effect, Gate006Effect, Gate013Effect, Gate023Effect, Named, PastsAre
     DEF EntityShapes, OnEntities, Swapping, There, Has, Mig, Step, Stays
<1>7. CASE AddGroupIds \/ CheckForeignKeys \/ CreateTrigger \/ CreateVecIndex
  BY <1>1, <1>7, GroupEffect, ForeignEffect, TriggerEffect, VecIndexEffect, Named, Ends,
     PastsAre DEF EntityShapes, OnEntities, Swapping, There, Has, Mig, Step, Stays, Alters
<1>8. CASE LegacyRename \/ PrefixDrop \/ RenameFts \/ BaseDdl
  BY <1>1, <1>8, LegacyEffect, PrefixEffect, RenameFtsEffect, BaseEffect, Named, PastsAre
     DEF EntityShapes, OnEntities, Swapping, There, Has, Mig, Step, Stays, Bases, BaseTables,
         Shifts
<1>9. CASE GateColumn \/ AddColumn \/ Backfill \/ DropLabel \/ UniqueEdges
  BY <1>1, <1>9, GateColumnEffect, AddColumnEffect, BackfillEffect, DropLabelEffect,
     UniqueEffect, AfterIs, Ends, Named, PastsAre
     DEF EntityShapes, OnEntities, Swapping, There, Has, Mig, Step, Stays, Alters, Fillers,
         Extended, Column
<1>10. CASE GateFts \/ DropFts \/ CreateFts \/ FillFts
  BY <1>1, <1>10, GateFtsEffect, DropFtsEffect, CreateFtsEffect, FillFtsEffect, AfterIs,
     FtsTables, Named, PastsAre
     DEF EntityShapes, OnEntities, Swapping, There, Has, Mig, Step, Stays, Puts, Refills,
         FtsMigs, Table
<1>11. CASE OpenStore \/ CheckIntegrity \/ Close \/ Stop
  BY <1>1, <1>11, EndsEffect, Ends, PastsAre
     DEF EntityShapes, OnEntities, Swapping, There, Has, Mig, Step, Stays
<1> QED
  BY <1>2, <1>3, <1>4, <1>5, <1>6, <1>7, <1>8, <1>9, <1>10, <1>11 DEF Next, Statement, Rebuild

LEMMA OtherShapesStep ==
  ASSUME Shaped, Next
  PROVE  OtherShapes'
<1>1. Sound /\ ScratchShapes /\ OtherShapes
  BY DEF Shaped
<1>2. CASE Backup \/ CreateScratch
  BY <1>1, <1>2, BackupEffect, CreateEffect, TablesOf, Named, PastsAre
     DEF OtherShapes, OnEntities, Swapping, There, Has, Mig, Step, Puts, Rebuilds, Table,
         NewShape
<1>3. CASE CopyRows \/ CheckScratch \/ ClearScratch \/ Recopy
  BY <1>1, <1>3, CopyEffect, CheckEffect, ClearEffect, RecopyEffect, TablesOf, Named, Ends,
     PastsAre
     DEF OtherShapes, OnEntities, Swapping, There, Has, Mig, Step, Stays, Fails, Refills,
         Rebuilds, Sound, ScratchThere
<1>4. CASE DropLive \/ Discard013 \/ DropBak023
  BY <1>1, <1>4, DropEffect, DiscardEffect, DropBakEffect, TablesOf, Named, PastsAre
     DEF OtherShapes, OnEntities, Swapping, There, Has, Mig, Step, Puts, Rebuilds, Absent
<1>5. CASE RenameScratch
  BY <1>1, <1>5, RenameEffect, TablesOf, Named, PastsAre
     DEF OtherShapes, OnEntities, Swapping, There, Has, Mig, Step, Shifts, Rebuilds, Absent,
         NewShape, ScratchShapes, Sound, ScratchThere
<1>6. CASE Gate004 \/ Gate006 \/ Gate013 \/ Gate023
  BY <1>1, <1>6, Gate004Effect, Gate006Effect, Gate013Effect, Gate023Effect, Named, PastsAre
     DEF OtherShapes, OnEntities, Swapping, There, Has, Mig, Step, Stays
<1>7. CASE AddGroupIds \/ CheckForeignKeys \/ CreateTrigger \/ CreateVecIndex
  BY <1>1, <1>7, GroupEffect, ForeignEffect, TriggerEffect, VecIndexEffect, Named, Ends,
     PastsAre DEF OtherShapes, OnEntities, Swapping, There, Has, Mig, Step, Stays, Alters
<1>8. CASE LegacyRename \/ PrefixDrop \/ RenameFts \/ BaseDdl
  BY <1>1, <1>8, LegacyEffect, PrefixEffect, RenameFtsEffect, BaseEffect, Named, PastsAre
     DEF OtherShapes, OnEntities, Swapping, There, Has, Mig, Step, Stays, Bases, BaseTables,
         Shifts
<1>9. CASE GateColumn \/ AddColumn \/ Backfill \/ DropLabel \/ UniqueEdges
  BY <1>1, <1>9, GateColumnEffect, AddColumnEffect, BackfillEffect, DropLabelEffect,
     UniqueEffect, AfterIs, Ends, Named, PastsAre
     DEF OtherShapes, OnEntities, Swapping, There, Has, Mig, Step, Stays, Alters, Fillers,
         Extended, Column
<1>10. CASE GateFts \/ DropFts \/ CreateFts \/ FillFts
  BY <1>1, <1>10, GateFtsEffect, DropFtsEffect, CreateFtsEffect, FillFtsEffect, AfterIs,
     FtsTables, Named, PastsAre
     DEF OtherShapes, OnEntities, Swapping, There, Has, Mig, Step, Stays, Puts, Refills,
         FtsMigs, Table
<1>11. CASE OpenStore \/ CheckIntegrity \/ Close \/ Stop
  BY <1>1, <1>11, EndsEffect, Ends, PastsAre
     DEF OtherShapes, OnEntities, Swapping, There, Has, Mig, Step, Stays
<1> QED
  BY <1>2, <1>3, <1>4, <1>5, <1>6, <1>7, <1>8, <1>9, <1>10, <1>11 DEF Next, Statement, Rebuild

-----------------------------------------------------------------------------
\* Where the entities are

\* The snapshot of 004, which no statement replaces or drops.
Kept004 == start.entities \subseteq db["entities_bak_004"].rows

\* A table they can be left in: one that no rebuild begun before would replace by less.
HomeIn(t) ==
  /\ start.entities \subseteq db[t].rows
  /\ There("entities_bak_004") \/ There("entities_new") => Has(t, "composite_pk")
  /\ ~There("entities_new_023")
  /\ There("entities_bak_023") =>
       /\ {"composite_pk", "DreamPass4"} \subseteq db[t].has
       /\ start.entities \subseteq db["entities_bak_023"].rows

OldHome == HomeIn("rql_entities") /\ Before /\ ~There("entities")

Home ==
  /\ HomeIn("entities")
  /\ Mig = "004" => Step \in {"gate", "backup", "facts", "edges"}
  /\ Mig = "004" /\ Step = "backup" => ~Has("entities", "composite_pk")
  /\ Mig = "013" => Step # "rename"
  /\ Mig = "013" /\ Step \in {"discard", "create", "copy", "drop"} =>
       ~There("entities_bak_023")
  /\ Mig = "013" /\ Step = "drop" => start.entities \subseteq db["entities_new"].rows
  /\ Mig = "023" => Step \in {"gate", "backup", "create", "index", "check", "drop_bak"}
  /\ Mig = "023" /\ Step = "create" =>
       There("entities_bak_023") /\ start.entities \subseteq db["entities_bak_023"].rows

\* Between DROP and RENAME of 013, the scratch table; and after an end there, if 004 takes
\* the scratch table for its own and for complete.
In013 ==
  /\ start.entities \subseteq db["entities_new"].rows
  /\ ~There("entities_bak_023") /\ ~There("entities_new_023")

Only013 == In013 /\ Mig = "013" /\ Step = "rename" /\ ~There("entities")

Resumed004 ==
  /\ In013 /\ There("entities_bak_004") /\ Complete("004")
  /\ ~Has("entities", "composite_pk") /\ ~Has("rql_entities", "composite_pk")
  /\ Early \/ (Mig = "004" /\ Step \in {"gate", "count", "drop", "rename"})

\* The snapshot of 023, from the creation of its scratch table to the rename.
In023 ==
  /\ There("entities_bak_023") /\ start.entities \subseteq db["entities_bak_023"].rows
  /\ There("entities_new_023")
  /\ db["entities_new_023"].rows = {} \/ start.entities \subseteq db["entities_new_023"].rows
  /\ Mig = "023" => Step \in {"gate", "copy", "count", "clear", "recopy", "drop", "rename"}
  /\ Mig = "023" /\ Step = "copy" =>
       start.entities \subseteq db["entities"].rows /\ db["entities_new_023"].rows = {}
  /\ Mig = "023" /\ Step \in {"drop", "rename"} =>
       start.entities \subseteq db["entities_new_023"].rows

EntitiesSafe == Kept004 \/ OldHome \/ Home \/ Only013 \/ Resumed004 \/ In023

LEMMA StartKept ==
  ASSUME Sound, Next
  PROVE  start' = start /\ gaps \subseteq gaps' /\ filled \subseteq filled'
<1>1. CASE Rebuild
  BY <1>1
     DEF Rebuild, Gate004, Gate006, Gate013, Discard013, Gate023, Backup, CreateScratch,
         CopyRows, CheckScratch, ClearScratch, Recopy, DropLive, RenameScratch, AddGroupIds,
         CheckForeignKeys, CreateTrigger, CreateVecIndex, DropBak023
<1>2. CASE Statement /\ ~Rebuild
  BY <1>2
     DEF Statement, LegacyRename, PrefixDrop, RenameFts, BaseDdl, GateColumn, AddColumn,
         Backfill, DropLabel, UniqueEdges, GateFts, DropFts, CreateFts, FillFts, CheckIntegrity
<1>3. CASE OpenStore \/ Close \/ Stop
  BY <1>3 DEF OpenStore, Close, Stop
<1> QED
  BY <1>1, <1>2, <1>3 DEF Next

\* Rows only disappear with their table.
LEMMA NotThere ==
  ASSUME Sound, NEW t \in Tables
  PROVE  /\ ~There(t) => db[t].rows = {} /\ db[t].has = {}
         /\ There(t) <=> db[t].there
  BY SoundTables DEF There

LEMMA Kept004Step ==
  ASSUME Shaped, Next, start' = start, Kept004
  PROVE  Kept004'
<1>1. Sound /\ ScratchShapes /\ EntityShapes /\ OtherShapes
  BY DEF Shaped
<1>2. CASE Backup \/ CreateScratch
  BY <1>1, <1>2, BackupEffect, CreateEffect, TablesOf, Named, NotThere
     DEF Kept004, There, Mig, Step, Puts, Rebuilds, Table, NewShape
<1>3. CASE CopyRows \/ CheckScratch \/ ClearScratch \/ Recopy
  BY <1>1, <1>3, CopyEffect, CheckEffect, ClearEffect, RecopyEffect, TablesOf, Named, Ends,
     NotThere DEF Kept004, There, Mig, Step, Stays, Fails, Refills, Rebuilds
<1>4. CASE DropLive \/ Discard013 \/ DropBak023
  BY <1>1, <1>4, DropEffect, DiscardEffect, DropBakEffect, TablesOf, Named, NotThere
     DEF Kept004, There, Mig, Step, Puts, Rebuilds, Absent
<1>5. CASE RenameScratch
  BY <1>1, <1>5, RenameEffect, TablesOf, Named, NotThere
     DEF Kept004, There, Mig, Step, Shifts, Rebuilds, Absent, NewShape
<1>6. CASE Gate004 \/ Gate006 \/ Gate013 \/ Gate023
  BY <1>1, <1>6, Gate004Effect, Gate006Effect, Gate013Effect, Gate023Effect, Named, NotThere
     DEF Kept004, There, Mig, Step, Stays
<1>7. CASE AddGroupIds \/ CheckForeignKeys \/ CreateTrigger \/ CreateVecIndex
  BY <1>1, <1>7, GroupEffect, ForeignEffect, TriggerEffect, VecIndexEffect, Named, Ends,
     NotThere DEF Kept004, There, Mig, Step, Stays, Alters
<1>8. CASE LegacyRename \/ PrefixDrop \/ RenameFts \/ BaseDdl
  BY <1>1, <1>8, LegacyEffect, PrefixEffect, RenameFtsEffect, BaseEffect, Named, NotThere
     DEF Kept004, There, Mig, Step, Stays, Bases, BaseTables, Shifts, Absent
<1>9. CASE GateColumn \/ AddColumn \/ Backfill \/ DropLabel \/ UniqueEdges
  BY <1>1, <1>9, GateColumnEffect, AddColumnEffect, BackfillEffect, DropLabelEffect,
     UniqueEffect, AfterIs, Ends, Named, NotThere
     DEF Kept004, There, Mig, Step, Stays, Alters, Fillers, Extended, Column
<1>10. CASE GateFts \/ DropFts \/ CreateFts \/ FillFts
  BY <1>1, <1>10, GateFtsEffect, DropFtsEffect, CreateFtsEffect, FillFtsEffect, AfterIs,
     FtsTables, Named, NotThere DEF Kept004, There, Mig, Step, Stays, Puts, Refills, FtsMigs
<1>11. CASE OpenStore \/ CheckIntegrity \/ Close \/ Stop
  BY <1>1, <1>11, EndsEffect, Ends, NotThere DEF Kept004, There, Mig, Step, Stays
<1> QED
  BY <1>2, <1>3, <1>4, <1>5, <1>6, <1>7, <1>8, <1>9, <1>10, <1>11 DEF Next, Statement, Rebuild

LEMMA OldHomeStep ==
  ASSUME Shaped, Next, start' = start, OldHome
  PROVE  OldHome' \/ Home'
<1>1. Sound /\ ScratchShapes /\ EntityShapes /\ OtherShapes
  BY DEF Shaped
<1>2. CASE Backup \/ CreateScratch
  BY <1>1, <1>2, BackupEffect, CreateEffect, TablesOf, Named, NotThere
     DEF OldHome, Home, HomeIn, Before, There, Has, Mig, Step, Puts, Rebuilds, Table, NewShape
<1>3. CASE CopyRows \/ CheckScratch \/ ClearScratch \/ Recopy
  BY <1>1, <1>3, CopyEffect, CheckEffect, ClearEffect, RecopyEffect, TablesOf, Named, Ends,
     NotThere
     DEF OldHome, Home, HomeIn, Before, There, Has, Mig, Step, Stays, Fails, Refills, Rebuilds
<1>4. CASE DropLive \/ Discard013 \/ DropBak023
  BY <1>1, <1>4, DropEffect, DiscardEffect, DropBakEffect, TablesOf, Named, NotThere
     DEF OldHome, Home, HomeIn, Before, There, Has, Mig, Step, Puts, Rebuilds, Absent
<1>5. CASE RenameScratch
  BY <1>1, <1>5, RenameEffect, TablesOf, Named, NotThere
     DEF OldHome, Home, HomeIn, Before, There, Has, Mig, Step, Shifts, Rebuilds, Absent,
         NewShape
<1>6. CASE Gate004 \/ Gate006 \/ Gate013 \/ Gate023
  BY <1>1, <1>6, Gate004Effect, Gate006Effect, Gate013Effect, Gate023Effect, Named, NotThere
     DEF OldHome, Home, HomeIn, Before, There, Has, Mig, Step, Stays
<1>7. CASE AddGroupIds \/ CheckForeignKeys \/ CreateTrigger \/ CreateVecIndex
  BY <1>1, <1>7, GroupEffect, ForeignEffect, TriggerEffect, VecIndexEffect, Named, Ends,
     NotThere DEF OldHome, Home, HomeIn, Before, There, Has, Mig, Step, Stays, Alters
<1>8. CASE LegacyRename \/ PrefixDrop \/ RenameFts \/ BaseDdl
  BY <1>1, <1>8, LegacyEffect, PrefixEffect, RenameFtsEffect, BaseEffect, Named, NotThere
     DEF OldHome, Home, HomeIn, Before, There, Has, Mig, Step, Stays, Bases, BaseTables, Shifts,
         Absent
<1>9. CASE GateColumn \/ AddColumn \/ Backfill \/ DropLabel \/ UniqueEdges
  BY <1>1, <1>9, GateColumnEffect, AddColumnEffect, BackfillEffect, DropLabelEffect,
     UniqueEffect, AfterIs, Ends, Named, NotThere
     DEF OldHome, Home, HomeIn, Before, There, Has, Mig, Step, Stays, Alters, Fillers, Extended,
         Column
<1>10. CASE GateFts \/ DropFts \/ CreateFts \/ FillFts
  BY <1>1, <1>10, GateFtsEffect, DropFtsEffect, CreateFtsEffect, FillFtsEffect, AfterIs,
     FtsTables, Named, NotThere
     DEF OldHome, Home, HomeIn, Before, There, Has, Mig, Step, Stays, Puts, Refills, FtsMigs
<1>11. CASE OpenStore \/ CheckIntegrity \/ Close \/ Stop
  BY <1>1, <1>11, EndsEffect, Ends, NotThere
     DEF OldHome, Home, HomeIn, Before, There, Has, Mig, Step, Stays
<1> QED
  BY <1>2, <1>3, <1>4, <1>5, <1>6, <1>7, <1>8, <1>9, <1>10, <1>11 DEF Next, Statement, Rebuild

LEMMA HomeStep ==
  ASSUME Shaped, Next, start' = start, Home, start.entities # {}
  PROVE  Kept004' \/ OldHome' \/ Home' \/ Only013' \/ In023'
<1>1. Sound /\ ScratchShapes /\ EntityShapes /\ OtherShapes
  BY DEF Shaped
<1>2. CASE Backup \/ CreateScratch
  <2>1. CASE Backup
    BY <1>1, <2>1, BackupEffect, TablesOf, Named, NotThere, PastsAre
       DEF Kept004, OldHome, Home, HomeIn, Only013, In013, In023, Before, There, Has, Mig, Step,
           Puts, EntityShapes, OnEntities, Swapping
  <2>2. CASE CreateScratch /\ Mig \in {"013", "023"}
    BY <1>1, <2>2, CreateEffect, TablesOf, Named, NotThere, PastsAre
       DEF Kept004, OldHome, Home, HomeIn, Only013, In013, In023, Before, There, Has, Mig, Step,
           Puts, Table, EntityShapes, OnEntities, Swapping
  <2>3. CASE CreateScratch /\ Mig \notin {"013", "023"}
    BY <1>1, <2>3, CreateEffect, TablesOf, Named, NotThere
       DEF Kept004, OldHome, Home, HomeIn, Only013, In013, In023, Before, There, Has, Mig, Step,
           Puts, Rebuilds
  <2> QED
    BY <1>2, <2>1, <2>2, <2>3
<1>3. CASE CopyRows \/ CheckScratch \/ ClearScratch \/ Recopy
  <2>1. CASE CopyRows
    BY <1>1, <2>1, CopyEffect, TablesOf, Named, NotThere, Ends
       DEF Kept004, OldHome, Home, HomeIn, Only013, In013, In023, Before, There, Has, Mig, Step,
           Stays, Fails, Refills, Rebuilds, Sound, ScratchThere
  <2>2. CASE CheckScratch \/ ClearScratch \/ Recopy
    BY <1>1, <2>2, CheckEffect, ClearEffect, RecopyEffect, TablesOf, Named, NotThere, Ends
       DEF Kept004, OldHome, Home, HomeIn, Only013, In013, In023, Before, There, Has, Mig, Step,
           Stays, Fails, Refills
  <2> QED
    BY <1>3, <2>1, <2>2
<1>4. CASE DropLive \/ Discard013 \/ DropBak023
  BY <1>1, <1>4, DropEffect, DiscardEffect, DropBakEffect, TablesOf, Named, NotThere
     DEF Kept004, OldHome, Home, HomeIn, Only013, In013, In023, Before, There, Has, Mig, Step,
         Puts, Rebuilds, Absent
<1>5. CASE RenameScratch
  BY <1>1, <1>5, RenameEffect, TablesOf, Named, NotThere
     DEF Kept004, OldHome, Home, HomeIn, Only013, In013, In023, Before, There, Has, Mig, Step,
         Shifts, Rebuilds, Absent, NewShape
<1>6. CASE Gate004 \/ Gate006 \/ Gate013 \/ Gate023
  BY <1>1, <1>6, Gate004Effect, Gate006Effect, Gate013Effect, Gate023Effect, Named, NotThere
     DEF Kept004, OldHome, Home, HomeIn, Only013, In013, In023, Before, There, Has, Mig, Step,
         Stays
<1>7. CASE AddGroupIds \/ CheckForeignKeys \/ CreateTrigger \/ CreateVecIndex
  BY <1>1, <1>7, GroupEffect, ForeignEffect, TriggerEffect, VecIndexEffect, Named, Ends,
     NotThere
     DEF Kept004, OldHome, Home, HomeIn, Only013, In013, In023, Before, There, Has, Mig, Step,
         Stays, Alters
<1>8. CASE LegacyRename \/ PrefixDrop \/ RenameFts \/ BaseDdl
  BY <1>1, <1>8, LegacyEffect, PrefixEffect, RenameFtsEffect, BaseEffect, Named, NotThere
     DEF Kept004, OldHome, Home, HomeIn, Only013, In013, In023, Before, There, Has, Mig, Step,
         Stays, Bases, BaseTables, Shifts, Absent
<1>9. CASE GateColumn \/ AddColumn \/ Backfill \/ DropLabel \/ UniqueEdges
  BY <1>1, <1>9, GateColumnEffect, AddColumnEffect, BackfillEffect, DropLabelEffect,
     UniqueEffect, AfterIs, Ends, Named, NotThere
     DEF Kept004, OldHome, Home, HomeIn, Only013, In013, In023, Before, There, Has, Mig, Step,
         Stays, Alters, Fillers, Extended, Column
<1>10. CASE GateFts \/ DropFts \/ CreateFts \/ FillFts
  BY <1>1, <1>10, GateFtsEffect, DropFtsEffect, CreateFtsEffect, FillFtsEffect, AfterIs,
     FtsTables, Named, NotThere
     DEF Kept004, OldHome, Home, HomeIn, Only013, In013, In023, Before, There, Has, Mig, Step,
         Stays, Puts, Refills, FtsMigs
<1>11. CASE OpenStore \/ CheckIntegrity \/ Close \/ Stop
  BY <1>1, <1>11, EndsEffect, Ends, NotThere
     DEF Kept004, OldHome, Home, HomeIn, Only013, In013, In023, Before, There, Has, Mig, Step,
         Stays
<1> QED
  BY <1>2, <1>3, <1>4, <1>5, <1>6, <1>7, <1>8, <1>9, <1>10, <1>11 DEF Next, Statement, Rebuild

\* A snapshot as long as an empty table is empty.
LEMMA AsLong ==
  ASSUME MigrationAssumption, Sound, Complete("023"), db["entities_new_023"].rows = {}
  PROVE  db["entities_bak_023"].rows = {}
<1> DEFINE r == db["entities_bak_023"].rows
<1>1. r \subseteq Rows /\ IsFiniteSet(Rows)
  BY SoundTables, Named, Kinds DEF MigrationAssumption
<1>2. IsFiniteSet(r)
  BY <1>1, FS_Subset
<1>3. Cardinality(r) = Cardinality({})
  BY TablesOf DEF Complete, Count
<1>4. Cardinality(r) = 0
  BY <1>3, FS_EmptySet
<1> QED
  BY <1>2, <1>4, FS_EmptySet

LEMMA Resumed004Step ==
  ASSUME Shaped, Next, start' = start, Resumed004, start.entities # {}
  PROVE  Home' \/ Resumed004'
<1>1. Sound /\ ScratchShapes /\ EntityShapes /\ OtherShapes
  BY DEF Shaped
<1>2. CASE Backup \/ CreateScratch
  BY <1>1, <1>2, BackupEffect, CreateEffect, TablesOf, Named, NotThere
     DEF Home, HomeIn, Only013, In013, Resumed004, Early, There, Has, Mig, Step, Complete,
         Count, Puts, Rebuilds, Table, NewShape
<1>3. CASE CopyRows \/ CheckScratch \/ ClearScratch \/ Recopy
  BY <1>1, <1>3, CopyEffect, CheckEffect, ClearEffect, RecopyEffect, TablesOf, Named, Ends,
     NotThere
     DEF Home, HomeIn, Only013, In013, Resumed004, Early, There, Has, Mig, Step, Complete,
         Count, Stays, Fails, Refills, Rebuilds
<1>4. CASE DropLive \/ Discard013 \/ DropBak023
  BY <1>1, <1>4, DropEffect, DiscardEffect, DropBakEffect, TablesOf, Named, NotThere
     DEF Home, HomeIn, Only013, In013, Resumed004, Early, There, Has, Mig, Step, Complete,
         Count, Puts, Rebuilds, Absent
<1>5. CASE RenameScratch
  BY <1>1, <1>5, RenameEffect, TablesOf, Named, NotThere
     DEF Home, HomeIn, Only013, In013, Resumed004, Early, There, Has, Mig, Step, Complete,
         Count, Shifts, Rebuilds, Absent, NewShape, ScratchShapes
<1>6. CASE Gate004 \/ Gate006 \/ Gate013 \/ Gate023
  BY <1>1, <1>6, Gate004Effect, Gate006Effect, Gate013Effect, Gate023Effect, Named, NotThere
     DEF Home, HomeIn, Only013, In013, Resumed004, Early, There, Has, Mig, Step, Complete,
         Count, Stays
<1>7. CASE AddGroupIds \/ CheckForeignKeys \/ CreateTrigger \/ CreateVecIndex
  BY <1>1, <1>7, GroupEffect, ForeignEffect, TriggerEffect, VecIndexEffect, Named, Ends,
     NotThere
     DEF Home, HomeIn, Only013, In013, Resumed004, Early, There, Has, Mig, Step, Complete,
         Count, Stays, Alters
<1>8. CASE LegacyRename \/ PrefixDrop \/ RenameFts \/ BaseDdl
  <2>1. CASE LegacyRename \/ PrefixDrop \/ RenameFts
    BY <1>1, <2>1, LegacyEffect, PrefixEffect, RenameFtsEffect, TablesOf, Named, NotThere
       DEF In013, Resumed004, Early, There, Has, Mig, Step, Complete, Count, Stays, Shifts,
           Absent
  <2>2. CASE BaseDdl
    <3>1. /\ Mig = "base" /\ Mig' = "004" /\ Step' = "gate" /\ Bases
      BY <1>1, <2>2, BaseEffect DEF Mig, Step
    <3>2. db'["entities"] = db["entities"] \/ db'["entities"].has = {"label", "f32"}
      <4>1. BaseShape("entities") = {"label", "f32"}
        BY DEF BaseShape
      <4>2. db'["entities"] = db["entities"] \/ db'["entities"] = Table({}, BaseShape("entities"))
        BY <3>1, Named DEF Bases
      <4> QED
        BY <4>1, <4>2 DEF Table
    <3>3. \A t \in {"rql_entities", "entities_new", "entities_new_023", "entities_bak_004",
                    "entities_bak_023"} : db'[t] = db[t]
      BY <3>1, Named DEF Bases, BaseTables
    <3> QED
      BY <3>1, <3>2, <3>3, TablesOf DEF In013, Resumed004, Early, There, Has, Complete, Count
  <2> QED
    BY <1>8, <2>1, <2>2
<1>9. CASE GateColumn \/ AddColumn \/ Backfill \/ DropLabel \/ UniqueEdges
  BY <1>1, <1>9, GateColumnEffect, AddColumnEffect, BackfillEffect, DropLabelEffect,
     UniqueEffect, AfterIs, Ends, Named, NotThere
     DEF Home, HomeIn, Only013, In013, Resumed004, Early, There, Has, Mig, Step, Complete,
         Count, Stays, Alters, Fillers, Extended, Column
<1>10. CASE GateFts \/ DropFts \/ CreateFts \/ FillFts
  BY <1>1, <1>10, GateFtsEffect, DropFtsEffect, CreateFtsEffect, FillFtsEffect, AfterIs,
     FtsTables, Named, NotThere
     DEF Home, HomeIn, Only013, In013, Resumed004, Early, There, Has, Mig, Step, Complete,
         Count, Stays, Puts, Refills, FtsMigs
<1>11. CASE OpenStore \/ CheckIntegrity \/ Close \/ Stop
  BY <1>1, <1>11, EndsEffect, Ends, NotThere
     DEF Home, HomeIn, Only013, In013, Resumed004, Early, There, Has, Mig, Step, Complete,
         Count, Stays
<1> QED
  BY <1>2, <1>3, <1>4, <1>5, <1>6, <1>7, <1>8, <1>9, <1>10, <1>11 DEF Next, Statement, Rebuild

LEMMA In023Step ==
  ASSUME MigrationAssumption, Shaped, Next, start' = start, In023, start.entities # {}
  PROVE  Home' \/ In023'
<1>1. Sound /\ ScratchShapes /\ EntityShapes /\ OtherShapes
  BY DEF Shaped
<1>2. CASE Backup \/ CreateScratch
  BY <1>1, <1>2, BackupEffect, CreateEffect, TablesOf, Named, NotThere
     DEF Home, HomeIn, In023, There, Has, Mig, Step, Puts, Rebuilds, Table, NewShape
<1>3. CASE CopyRows \/ CheckScratch \/ ClearScratch \/ Recopy
  <2>1. CASE CheckScratch
    BY <1>1, <2>1, CheckEffect, AsLong, TablesOf, Named, Ends
       DEF Home, HomeIn, In023, There, Has, Mig, Step, Stays
  <2>2. CASE CopyRows \/ ClearScratch \/ Recopy
    BY <1>1, <2>2, CopyEffect, ClearEffect, RecopyEffect, TablesOf, Named, Ends
       DEF Home, HomeIn, In023, There, Has, Mig, Step, Stays, Fails, Refills, Rebuilds
  <2> QED
    BY <1>3, <2>1, <2>2
<1>4. CASE DropLive \/ Discard013 \/ DropBak023
  BY <1>1, <1>4, DropEffect, DiscardEffect, DropBakEffect, TablesOf, Named, NotThere
     DEF Home, HomeIn, In023, There, Has, Mig, Step, Puts, Rebuilds, Absent
<1>5. CASE RenameScratch
  BY <1>1, <1>5, RenameEffect, TablesOf, Named, NotThere
     DEF Home, HomeIn, In023, There, Has, Mig, Step, Shifts, Rebuilds, Absent, NewShape,
         ScratchShapes
<1>6. CASE Gate004 \/ Gate006 \/ Gate013 \/ Gate023
  BY <1>1, <1>6, Gate004Effect, Gate006Effect, Gate013Effect, Gate023Effect, Named, NotThere
     DEF Home, HomeIn, In023, There, Has, Mig, Step, Stays
<1>7. CASE AddGroupIds \/ CheckForeignKeys \/ CreateTrigger \/ CreateVecIndex
  BY <1>1, <1>7, GroupEffect, ForeignEffect, TriggerEffect, VecIndexEffect, Named, Ends,
     NotThere DEF Home, HomeIn, In023, There, Has, Mig, Step, Stays, Alters
<1>8. CASE LegacyRename \/ PrefixDrop \/ RenameFts \/ BaseDdl
  BY <1>1, <1>8, LegacyEffect, PrefixEffect, RenameFtsEffect, BaseEffect, Named, NotThere
     DEF Home, HomeIn, In023, There, Has, Mig, Step, Stays, Bases, BaseTables, Shifts, Absent
<1>9. CASE GateColumn \/ AddColumn \/ Backfill \/ DropLabel \/ UniqueEdges
  BY <1>1, <1>9, GateColumnEffect, AddColumnEffect, BackfillEffect, DropLabelEffect,
     UniqueEffect, AfterIs, Ends, Named, NotThere
     DEF Home, HomeIn, In023, There, Has, Mig, Step, Stays, Alters, Fillers, Extended, Column
<1>10. CASE GateFts \/ DropFts \/ CreateFts \/ FillFts
  BY <1>1, <1>10, GateFtsEffect, DropFtsEffect, CreateFtsEffect, FillFtsEffect, AfterIs,
     FtsTables, Named, NotThere
     DEF Home, HomeIn, In023, There, Has, Mig, Step, Stays, Puts, Refills, FtsMigs
<1>11. CASE OpenStore \/ CheckIntegrity \/ Close \/ Stop
  BY <1>1, <1>11, EndsEffect, Ends, NotThere
     DEF Home, HomeIn, In023, There, Has, Mig, Step, Stays
<1> QED
  BY <1>2, <1>3, <1>4, <1>5, <1>6, <1>7, <1>8, <1>9, <1>10, <1>11 DEF Next, Statement, Rebuild

LEMMA Only013Step ==
  ASSUME Shaped, Next, start' = start, Only013
  PROVE  Home' \/ Resumed004' \/ <<"013", "rename">> \in gaps'
<1>1. Sound /\ ScratchShapes /\ EntityShapes /\ Mig = "013" /\ Step = "rename"
  BY DEF Shaped, Only013
<1>2. CASE RenameScratch
  BY <1>1, <1>2, RenameEffect, TablesOf, Named, NotThere
     DEF Home, HomeIn, Only013, In013, There, Has, Mig, Step, Shifts, ScratchShapes, NewShape
<1>3. CASE Stop
  <2>1. at = <<"013", "rename">>
    BY <1>1, AtIs
  <2>2. at' = Closed /\ db' = db
    BY <1>3 DEF Stop
  <2>3. CASE ~(There("entities_bak_004") /\ Complete("004"))
    BY <1>3, <2>1, <2>3 DEF Stop, Lossy013
  <2>4. CASE There("entities_bak_004") /\ Complete("004")
    <3>1. ~Has("entities", "composite_pk") /\ ~Has("rql_entities", "composite_pk")
      BY <1>1, Named, NotThere DEF Only013, Has, Sound, OldName, Before
    <3> QED
      BY <2>2, <2>4, <3>1, Ends
         DEF Only013, In013, Resumed004, Early, There, Has, Complete, Count
  <2> QED
    BY <2>3, <2>4
<1>4. RenameScratch \/ Stop
  BY <1>1, AtIs, Gate004Effect, Gate006Effect, Gate013Effect, DiscardEffect, Gate023Effect,
     BackupEffect, CreateEffect, CopyEffect, CheckEffect, ClearEffect, RecopyEffect, DropEffect,
     GroupEffect, ForeignEffect, TriggerEffect, VecIndexEffect, DropBakEffect, LegacyEffect,
     PrefixEffect, RenameFtsEffect, BaseEffect, GateColumnEffect, AddColumnEffect,
     BackfillEffect, DropLabelEffect, UniqueEffect, GateFtsEffect, DropFtsEffect,
     CreateFtsEffect, FillFtsEffect, EndsEffect DEF Next, Statement, Rebuild
<1> QED
  BY <1>2, <1>3, <1>4

\* An end of 013 between DROP and RENAME, where 004 has nothing to go by, is the one place
\* they can get lost in.
EntitiesHeld == <<"013", "rename">> \in gaps \/ EntitiesSafe

LEMMA EntitiesStep ==
  ASSUME MigrationAssumption, Shaped, Next, EntitiesHeld
  PROVE  EntitiesHeld'
<1>1. start' = start /\ gaps \subseteq gaps'
  BY StartKept DEF Shaped
<1>2. CASE start.entities = {}
  BY <1>1, <1>2 DEF EntitiesHeld, EntitiesSafe, Kept004
<1>3. CASE start.entities # {} /\ EntitiesSafe
  BY <1>1, <1>3, Kept004Step, OldHomeStep, HomeStep, Only013Step, Resumed004Step, In023Step
     DEF EntitiesHeld, EntitiesSafe
<1> QED
  BY <1>1, <1>2, <1>3 DEF EntitiesHeld

-----------------------------------------------------------------------------
\* Where the facts, the edges and the labels are

FactsSafe ==
  \/ start.facts \subseteq db["facts_bak_006"].rows
  \/ /\ start.facts \subseteq db["facts"].rows
     /\ Has("facts", "composite_fk") \/ (~There("facts_bak_006") /\ ~There("facts_new"))
     /\ Mig = "006f" => Step = "backup"

EdgesSafe ==
  \/ start.edges \subseteq db["episodic_edges_bak_006"].rows
  \/ /\ start.edges \subseteq db["episodic_edges"].rows
     /\ ~There("episodic_edges_new")
     /\ There("episodic_edges_bak_006") =>
          Has("facts", "composite_fk") /\ Mig \notin {"006f", "006t", "006e"}
     /\ Mig \in {"006f", "006t"} => ~edgesPartial
     /\ Mig = "006e" => Step = "backup"

\* The labels: made into types, or in a snapshot that stays, or not yet copied anywhere.
LabelledIn(t) == Has(t, "label") /\ ~Has(t, "entity_type_id")

LabelSafe ==
  \/ "entity_type_id" \in filled \/ start.entities = {}
  \/ Has("entities_bak_004", "label") \/ Has("entities_bak_008", "label")
  \/ /\ ~There("entities_bak_004") /\ ~There("entities_bak_008")
     /\ \/ LabelledIn("rql_entities") /\ Before
        \/ /\ LabelledIn("entities")
           /\ Early \/ (Mig = "004" /\ Step \in {"gate", "backup", "count"})
                    \/ Mig \in {"006", "006f", "006t", "006e", "006z"}
                    \/ (Mig = "008" /\ Step \in {"gate", "backup"})

LEMMA FactsStep ==
  ASSUME Shaped, Next, start' = start, FactsSafe
  PROVE  FactsSafe'
<1>1. Sound /\ ScratchShapes /\ EntityShapes /\ OtherShapes
  BY DEF Shaped
<1>2. CASE Backup \/ CreateScratch
  BY <1>1, <1>2, BackupEffect, CreateEffect, TablesOf, Named, NotThere
     DEF FactsSafe, OtherShapes, There, Has, Mig, Step, Puts, Rebuilds, Table, NewShape
<1>3. CASE CopyRows \/ CheckScratch \/ ClearScratch \/ Recopy
  BY <1>1, <1>3, CopyEffect, CheckEffect, ClearEffect, RecopyEffect, TablesOf, Named, Ends,
     NotThere DEF FactsSafe, OtherShapes, There, Has, Mig, Step, Stays, Fails, Refills, Rebuilds
<1>4. CASE DropLive \/ Discard013 \/ DropBak023
  BY <1>1, <1>4, DropEffect, DiscardEffect, DropBakEffect, TablesOf, Named, NotThere
     DEF FactsSafe, OtherShapes, There, Has, Mig, Step, Puts, Rebuilds, Absent
<1>5. CASE RenameScratch
  BY <1>1, <1>5, RenameEffect, TablesOf, Named, NotThere
     DEF FactsSafe, OtherShapes, There, Has, Mig, Step, Shifts, Rebuilds, Absent, NewShape
<1>6. CASE Gate004 \/ Gate006 \/ Gate013 \/ Gate023
  BY <1>1, <1>6, Gate004Effect, Gate006Effect, Gate013Effect, Gate023Effect, Named, NotThere
     DEF FactsSafe, OtherShapes, There, Has, Mig, Step, Stays
<1>7. CASE AddGroupIds \/ CheckForeignKeys \/ CreateTrigger \/ CreateVecIndex
  BY <1>1, <1>7, GroupEffect, ForeignEffect, TriggerEffect, VecIndexEffect, Named, Ends,
     NotThere DEF FactsSafe, OtherShapes, There, Has, Mig, Step, Stays, Alters
<1>8. CASE LegacyRename \/ PrefixDrop \/ RenameFts \/ BaseDdl
  BY <1>1, <1>8, LegacyEffect, PrefixEffect, RenameFtsEffect, BaseEffect, Named, NotThere
     DEF FactsSafe, OtherShapes, There, Has, Mig, Step, Stays, Bases, BaseTables, Shifts, Absent
<1>9. CASE GateColumn \/ AddColumn \/ Backfill \/ DropLabel \/ UniqueEdges
  BY <1>1, <1>9, GateColumnEffect, AddColumnEffect, BackfillEffect, DropLabelEffect,
     UniqueEffect, AfterIs, Ends, Named, NotThere
     DEF FactsSafe, OtherShapes, There, Has, Mig, Step, Stays, Alters, Fillers, Extended, Column
<1>10. CASE GateFts \/ DropFts \/ CreateFts \/ FillFts
  BY <1>1, <1>10, GateFtsEffect, DropFtsEffect, CreateFtsEffect, FillFtsEffect, AfterIs,
     FtsTables, Named, NotThere
     DEF FactsSafe, OtherShapes, There, Has, Mig, Step, Stays, Puts, Refills, FtsMigs
<1>11. CASE OpenStore \/ CheckIntegrity \/ Close \/ Stop
  BY <1>1, <1>11, EndsEffect, Ends, NotThere
     DEF FactsSafe, OtherShapes, There, Has, Mig, Step, Stays
<1> QED
  BY <1>2, <1>3, <1>4, <1>5, <1>6, <1>7, <1>8, <1>9, <1>10, <1>11 DEF Next, Statement, Rebuild

LEMMA EdgesStep ==
  ASSUME Shaped, Next, start' = start, EdgesSafe
  PROVE  EdgesSafe'
<1>1. Sound /\ ScratchShapes /\ EntityShapes /\ OtherShapes
  BY DEF Shaped
<1>2. CASE Backup \/ CreateScratch
  BY <1>1, <1>2, BackupEffect, CreateEffect, TablesOf, Named, NotThere
     DEF EdgesSafe, OtherShapes, There, Has, Mig, Step, Puts, Rebuilds, Table, NewShape
<1>3. CASE CopyRows \/ CheckScratch \/ ClearScratch \/ Recopy
  BY <1>1, <1>3, CopyEffect, CheckEffect, ClearEffect, RecopyEffect, TablesOf, Named, Ends,
     NotThere DEF EdgesSafe, OtherShapes, There, Has, Mig, Step, Stays, Fails, Refills, Rebuilds
<1>4. CASE DropLive \/ Discard013 \/ DropBak023
  BY <1>1, <1>4, DropEffect, DiscardEffect, DropBakEffect, TablesOf, Named, NotThere
     DEF EdgesSafe, OtherShapes, There, Has, Mig, Step, Puts, Rebuilds, Absent
<1>5. CASE RenameScratch
  BY <1>1, <1>5, RenameEffect, TablesOf, Named, NotThere
     DEF EdgesSafe, OtherShapes, There, Has, Mig, Step, Shifts, Rebuilds, Absent, NewShape
<1>6. CASE Gate004 \/ Gate006 \/ Gate013 \/ Gate023
  BY <1>1, <1>6, Gate004Effect, Gate006Effect, Gate013Effect, Gate023Effect, Named, NotThere
     DEF EdgesSafe, OtherShapes, There, Has, Mig, Step, Stays
<1>7. CASE AddGroupIds \/ CheckForeignKeys \/ CreateTrigger \/ CreateVecIndex
  BY <1>1, <1>7, GroupEffect, ForeignEffect, TriggerEffect, VecIndexEffect, Named, Ends,
     NotThere DEF EdgesSafe, OtherShapes, There, Has, Mig, Step, Stays, Alters
<1>8. CASE LegacyRename \/ PrefixDrop \/ RenameFts \/ BaseDdl
  BY <1>1, <1>8, LegacyEffect, PrefixEffect, RenameFtsEffect, BaseEffect, Named, NotThere
     DEF EdgesSafe, OtherShapes, There, Has, Mig, Step, Stays, Bases, BaseTables, Shifts, Absent
<1>9. CASE GateColumn \/ AddColumn \/ Backfill \/ DropLabel \/ UniqueEdges
  BY <1>1, <1>9, GateColumnEffect, AddColumnEffect, BackfillEffect, DropLabelEffect,
     UniqueEffect, AfterIs, Ends, Named, NotThere
     DEF EdgesSafe, OtherShapes, There, Has, Mig, Step, Stays, Alters, Fillers, Extended, Column
<1>10. CASE GateFts \/ DropFts \/ CreateFts \/ FillFts
  BY <1>1, <1>10, GateFtsEffect, DropFtsEffect, CreateFtsEffect, FillFtsEffect, AfterIs,
     FtsTables, Named, NotThere
     DEF EdgesSafe, OtherShapes, There, Has, Mig, Step, Stays, Puts, Refills, FtsMigs
<1>11. CASE OpenStore \/ CheckIntegrity \/ Close \/ Stop
  BY <1>1, <1>11, EndsEffect, Ends, NotThere
     DEF EdgesSafe, OtherShapes, There, Has, Mig, Step, Stays
<1> QED
  BY <1>2, <1>3, <1>4, <1>5, <1>6, <1>7, <1>8, <1>9, <1>10, <1>11 DEF Next, Statement, Rebuild

LEMMA LabelStep ==
  ASSUME Shaped, Next, start' = start, filled \subseteq filled', LabelSafe
  PROVE  LabelSafe'
<1>1. Sound /\ ScratchShapes /\ EntityShapes /\ OtherShapes
  BY DEF Shaped
<1>2. CASE Backup \/ CreateScratch
  BY <1>1, <1>2, BackupEffect, CreateEffect, TablesOf, Named, NotThere
     DEF LabelSafe, LabelledIn, Early, Before, Sound, OldName, There, Has, Mig, Step, Puts,
         Rebuilds, Table, NewShape
<1>3. CASE CopyRows \/ CheckScratch \/ ClearScratch \/ Recopy
  BY <1>1, <1>3, CopyEffect, CheckEffect, ClearEffect, RecopyEffect, TablesOf, Named, Ends,
     NotThere
     DEF LabelSafe, LabelledIn, Early, Before, Sound, OldName, There, Has, Mig, Step, Stays,
         Fails, Refills, Rebuilds
<1>4. CASE DropLive \/ Discard013 \/ DropBak023
  BY <1>1, <1>4, DropEffect, DiscardEffect, DropBakEffect, TablesOf, Named, NotThere
     DEF LabelSafe, LabelledIn, Early, Before, Sound, OldName, There, Has, Mig, Step, Puts,
         Rebuilds, Absent
<1>5. CASE RenameScratch
  BY <1>1, <1>5, RenameEffect, TablesOf, Named, NotThere
     DEF LabelSafe, LabelledIn, Early, Before, Sound, OldName, There, Has, Mig, Step, Shifts,
         Rebuilds, Absent, NewShape
<1>6. CASE Gate004 \/ Gate006 \/ Gate013 \/ Gate023
  BY <1>1, <1>6, Gate004Effect, Gate006Effect, Gate013Effect, Gate023Effect, Named, NotThere
     DEF LabelSafe, LabelledIn, Early, Before, Sound, OldName, There, Has, Mig, Step, Stays
<1>7. CASE AddGroupIds \/ CheckForeignKeys \/ CreateTrigger \/ CreateVecIndex
  BY <1>1, <1>7, GroupEffect, ForeignEffect, TriggerEffect, VecIndexEffect, Named, Ends,
     NotThere
     DEF LabelSafe, LabelledIn, Early, Before, Sound, OldName, There, Has, Mig, Step, Stays,
         Alters
<1>8. CASE LegacyRename \/ PrefixDrop \/ RenameFts \/ BaseDdl
  BY <1>1, <1>8, LegacyEffect, PrefixEffect, RenameFtsEffect, BaseEffect, Named, NotThere
     DEF LabelSafe, LabelledIn, Early, Before, Sound, OldName, There, Has, Mig, Step, Stays,
         Bases, BaseTables, Shifts, Absent
<1>9. CASE GateColumn \/ AddColumn \/ Backfill \/ DropLabel \/ UniqueEdges
  BY <1>1, <1>9, GateColumnEffect, AddColumnEffect, BackfillEffect, DropLabelEffect,
     UniqueEffect, AfterIs, Ends, Named, NotThere
     DEF LabelSafe, LabelledIn, Early, Before, Sound, OldName, There, Has, Mig, Step, Stays,
         Alters, Fillers, Extended, Column
<1>10. CASE GateFts \/ DropFts \/ CreateFts \/ FillFts
  BY <1>1, <1>10, GateFtsEffect, DropFtsEffect, CreateFtsEffect, FillFtsEffect, AfterIs,
     FtsTables, Named, NotThere
     DEF LabelSafe, LabelledIn, Early, Before, Sound, OldName, There, Has, Mig, Step, Stays,
         Puts, Refills, FtsMigs
<1>11. CASE OpenStore \/ CheckIntegrity \/ Close \/ Stop
  BY <1>1, <1>11, EndsEffect, Ends, NotThere
     DEF LabelSafe, LabelledIn, Early, Before, Sound, OldName, There, Has, Mig, Step, Stays
<1> QED
  BY <1>2, <1>3, <1>4, <1>5, <1>6, <1>7, <1>8, <1>9, <1>10, <1>11 DEF Next, Statement, Rebuild

-----------------------------------------------------------------------------
\* Nothing stored is lost

RecInv == Shaped /\ EntitiesHeld /\ FactsSafe /\ EdgesSafe /\ LabelSafe

LEMMA StartRec == MigrationAssumption /\ Init => RecInv
<1> SUFFICES ASSUME MigrationAssumption, Init PROVE RecInv
  OBVIOUS
<1>1. PICK s \in InitialDbs : db = s.db /\ filled = s.filled /\ start = InitStart(s.db)
  BY DEF Init
<1>2. Released(db, filled)
  BY <1>1 DEF MigrationAssumption
<1>3. Mig = "closed" /\ Step = "none" /\ Shaped /\ Sound
  BY StartShaped DEF Init, Closed, Mig, Step, Shaped
<1>4. /\ start.entities = db["entities"].rows \cup db["rql_entities"].rows
      /\ start.facts = db["facts"].rows /\ start.edges = db["episodic_edges"].rows
  BY <1>1 DEF InitStart
<1>5. EntitiesSafe
  <2>1. CASE There("rql_entities")
    <3>1. ~There("entities") /\ start.entities = db["rql_entities"].rows
      BY <1>2, <1>3, <1>4, <2>1, Named, NotThere DEF Released, There
    <3>2. ~There("entities_bak_004")
      BY <1>2, <1>3, <3>1, Named, NotThere DEF Released, There
    <3> QED
      BY <1>2, <1>3, <3>1, <3>2
         DEF EntitiesSafe, OldHome, HomeIn, Before, Released, Unfinished, There
  <2>2. CASE ~There("rql_entities")
    <3>1. start.entities = db["entities"].rows
      BY <1>3, <1>4, <2>2, Named, NotThere
    <3> QED
      BY <1>2, <1>3, <3>1 DEF EntitiesSafe, Home, HomeIn, Released, Unfinished, There, Has
  <2> QED
    BY <2>1, <2>2
<1>6. FactsSafe /\ EdgesSafe
  BY <1>2, <1>3, <1>4 DEF FactsSafe, EdgesSafe, Released, Unfinished, There, Has
<1>7. LabelSafe
  <2> SUFFICES ASSUME "entity_type_id" \notin filled, start.entities # {} PROVE LabelSafe
    BY DEF LabelSafe
  <2>1. \A t \in EntityTables : There(t) => Has(t, "label")
    BY <1>2 DEF Released, There, Has
  <2>2. ~Has("entities", "entity_type_id") /\ ~Has("rql_entities", "entity_type_id")
    BY <1>2 DEF Released, Fillers, Column, Extended, Has
  <2>3. There("entities") \/ There("rql_entities")
    BY <1>3, <1>4, Named, NotThere
  <2> QED
    BY <1>3, <2>1, <2>2, <2>3 DEF EntityTables, LabelSafe, LabelledIn, Before, Early
<1> QED
  BY <1>3, <1>5, <1>6, <1>7 DEF RecInv, EntitiesHeld

LEMMA ShapedStep == Shaped /\ [Next]_vars => Shaped'
<1>1. CASE Next
  BY <1>1, SoundStep, ScratchShapesStep, EntityShapesStep, OtherShapesStep DEF Shaped
<1>2. CASE UNCHANGED vars
  <2>1. Shaped => Sound'
    BY <1>2, SoundStep DEF Shaped
  <2> QED
    BY <1>2, <2>1
       DEF vars, Shaped, ScratchShapes, EntityShapes, OtherShapes, OnEntities, Swapping, There,
           Has, Mig, Step
<1> QED
  BY <1>1, <1>2

LEMMA RecStep == MigrationAssumption /\ RecInv /\ [Next]_vars => RecInv'
<1> SUFFICES ASSUME MigrationAssumption, RecInv, [Next]_vars PROVE RecInv'
  OBVIOUS
<1>1. Shaped'
  BY ShapedStep DEF RecInv
<1>2. CASE Next
  <2>1. start' = start /\ filled \subseteq filled'
    BY <1>2, StartKept DEF RecInv, Shaped
  <2> QED
    BY <1>1, <1>2, <2>1, EntitiesStep, FactsStep, EdgesStep, LabelStep DEF RecInv
<1>3. CASE UNCHANGED vars
  BY <1>1, <1>3
     DEF vars, RecInv, EntitiesHeld, EntitiesSafe, Kept004, OldHome, Home, HomeIn, Only013,
         In013, Resumed004, In023, FactsSafe, EdgesSafe, LabelSafe, LabelledIn, Before, Early,
         Complete, Count, There, Has, Mig, Step
<1> QED
  BY <1>2, <1>3

LEMMA RecMeans == RecInv => Recoverable
<1> SUFFICES ASSUME RecInv, <<"013", "rename">> \notin gaps
             PROVE  /\ start.entities \subseteq HeldIn(EntityTables)
                    /\ start.facts \subseteq HeldIn(FactTables)
                    /\ start.edges \subseteq HeldIn(EdgeTables)
                    /\ "entity_type_id" \in filled \/ start.entities = {}
                         \/ \E t \in EntityTables : There(t) /\ Has(t, "label")
  BY DEF Recoverable
<1>1. \E t \in EntityTables : start.entities \subseteq db[t].rows
  BY DEF RecInv, EntitiesHeld, EntitiesSafe, Kept004, OldHome, Home, HomeIn, Only013, In013,
         Resumed004, In023, EntityTables
<1>2. \E t \in FactTables : start.facts \subseteq db[t].rows
  BY DEF RecInv, FactsSafe, FactTables
<1>3. \E t \in EdgeTables : start.edges \subseteq db[t].rows
  BY DEF RecInv, EdgesSafe, EdgeTables
<1>4. \A t \in EntityTables : Has(t, "label") => There(t)
  BY NotThere DEF RecInv, Shaped, Tables, Has
<1>5. "entity_type_id" \in filled \/ start.entities = {}
        \/ \E t \in EntityTables : Has(t, "label")
  BY DEF RecInv, LabelSafe, LabelledIn, EntityTables
<1> QED
  BY <1>1, <1>2, <1>3, <1>4, <1>5 DEF HeldIn

\* What was stored is in some table after any step of any open, however often the process
\* ended in the middle of one, but for an end between DROP and RENAME of 013 that 004 has
\* nothing to go by for: so are the labels, until types have been made of them.
THEOREM NothingLost == Spec => []Recoverable
<1>1. Init => RecInv
  BY StartRec, MigrationAssumption
<1>2. RecInv /\ [Next]_vars => RecInv'
  BY RecStep, MigrationAssumption
<1>3. RecInv => Recoverable
  BY RecMeans
<1> QED
  BY <1>1, <1>2, <1>3, PTL DEF Spec

\* Every table only ever has rows of its kind, and one that is not there has none.
THEOREM MigrationTypes == Spec => []TypeOK
<1>1. Init => Sound
  BY StartSound, MigrationAssumption
<1>2. Sound => TypeOK
  BY DEF Sound
<1> QED
  BY <1>1, SoundStep, <1>2, PTL DEF Spec

-----------------------------------------------------------------------------
\* Once an open has succeeded

\* What the gates look for is there, and an open goes from gate to gate.
Final ==
  /\ There("entities") /\ NewShape("023") \subseteq db["entities"].has
  /\ ~Has("entities", "label") /\ ~There("rql_entities")
  /\ There("facts") /\ Has("facts", "composite_fk")
  /\ There("episodic_edges") /\ Has("episodic_edges", "group_ids")
  /\ ~There("entities_new_023") /\ ~There("episodic_edges_new")
  /\ There("episodes") /\ Has("episodes", "content_hash")
  /\ Has("episodes", "episode_processing_status")
  /\ There("entities_fts") /\ Has("entities_fts", "porter")
  /\ There("facts_fts") /\ Has("facts_fts", "porter")
  /\ "entity_type_source" \in filled
  /\ Mig \notin {"006f", "006t", "006e", "006z"}
  /\ \/ Step \in {"gate", "none"} \/ (Mig = "012" /\ Step = "fill")
     \/ (Mig = "013" /\ Step = "trigger")

SettledInv == Shaped /\ (settled => Final)

LEMMA SameDb ==
  ASSUME NEW d, NEW e, IsDb(d), IsDb(e), \A t \in Tables : d[t] = e[t]
  PROVE  d = e
  BY DEF IsDb

\* From one gate to the next.
LEMMA FinalStep ==
  ASSUME Shaped, Next, Final
  PROVE  /\ db' = db /\ filled' = filled
         /\ Mig' \notin {"006f", "006t", "006e", "006z"}
         /\ \/ Step' \in {"gate", "none"} \/ (Mig' = "012" /\ Step' = "fill")
            \/ (Mig' = "013" /\ Step' = "trigger")
<1>1. Sound /\ IsDb(db)
  BY DEF Shaped, Sound, TypeOK, IsDb, There
<1>2. {"composite_pk", "entity_type_id", "entity_type_source", "DreamPass4", "f32"}
        \subseteq db["entities"].has
  BY DEF Final, NewShape
<1>3. CASE LegacyRename \/ PrefixDrop \/ RenameFts
  BY <1>1, <1>3, LegacyEffect, PrefixEffect, RenameFtsEffect DEF Final, Mig, Step
<1>4. CASE BaseDdl
  <2>1. Bases /\ at' = <<"004", "gate">> /\ filled' = filled
    BY <1>1, <1>4, BaseEffect
  <2>2. \A t \in BaseTables : There(t)
    BY DEF Final, BaseTables
  <2>3. IsDb(db') /\ \A t \in Tables : db'[t] = db[t]
    BY <2>1, <2>2 DEF Bases
  <2>4. db' = db
    BY <1>1, <2>3, SameDb
  <2> QED
    BY <2>1, <2>4 DEF Mig, Step
<1>5. CASE Gate004 \/ Gate006 \/ Gate013 \/ Gate023 \/ CreateTrigger
  BY <1>1, <1>2, <1>5, Gate004Effect, Gate006Effect, Gate013Effect, Gate023Effect, TriggerEffect
     DEF Final, Has, Stays, Mig, Step
<1>6. CASE GateColumn
  BY <1>1, <1>2, <1>6, GateColumnEffect, AfterIs
     DEF Final, Has, Stays, Fillers, Extended, Column, Mig, Step
<1>7. CASE Backfill
  BY <1>1, <1>7, BackfillEffect, AfterIs DEF Final, Fillers, Column, Mig, Step
<1>8. CASE DropLabel
  <2>1. /\ Alters("entities", db["entities"].has \ {"label"})
        /\ at' = <<"011", "gate">> /\ filled' = filled
    BY <1>1, <1>8, DropLabelEffect
  <2>2. db["entities"].has \ {"label"} = db["entities"].has
    BY DEF Final, Has
  <2>3. IsDb(db') /\ db'["entities"] = db["entities"]
    <3>1. IsDb(db')
      BY <2>1 DEF Alters
    <3>2. /\ db'["entities"].there = db["entities"].there
          /\ db'["entities"].rows = db["entities"].rows
          /\ db'["entities"].has = db["entities"].has
      BY <2>1, <2>2 DEF Alters
    <3>3. db["entities"] = [there |-> db["entities"].there, rows |-> db["entities"].rows,
                            has |-> db["entities"].has]
      BY <1>1, TableIs, Named
    <3>4. db'["entities"] = [there |-> db'["entities"].there, rows |-> db'["entities"].rows,
                             has |-> db'["entities"].has]
      BY <3>1, TableIs, Named
    <3> QED
      BY <3>1, <3>2, <3>3, <3>4
  <2>4. \A t \in Tables : db'[t] = db[t]
    BY <2>1, <2>3 DEF Alters
  <2>5. db' = db
    BY <1>1, <2>3, <2>4, SameDb
  <2> QED
    BY <2>1, <2>5 DEF Mig, Step
<1>9. CASE UniqueEdges \/ GateFts
  BY <1>1, <1>9, UniqueEffect, GateFtsEffect, FtsTables, AfterIs, Ends
     DEF Final, Has, Stays, Mig, Step
<1>10. CASE OpenStore \/ CheckIntegrity \/ Close \/ Stop
  BY <1>1, <1>10, EndsEffect, Ends DEF Stays, Mig, Step
<1>11. ~(CheckForeignKeys \/ AddGroupIds \/ Backup \/ CreateScratch \/ CopyRows \/ CheckScratch
          \/ ClearScratch \/ Recopy \/ DropLive \/ RenameScratch \/ Discard013 \/ CreateVecIndex
          \/ DropBak023 \/ AddColumn \/ DropFts \/ CreateFts \/ FillFts)
  BY <1>1, ForeignEffect, GroupEffect, BackupEffect, CreateEffect, CopyEffect, CheckEffect,
     ClearEffect, RecopyEffect, DropEffect, RenameEffect, DiscardEffect, VecIndexEffect,
     DropBakEffect, AddColumnEffect, DropFtsEffect, CreateFtsEffect, FillFtsEffect DEF Final
<1> QED
  BY <1>3, <1>4, <1>5, <1>6, <1>7, <1>8, <1>9, <1>10, <1>11 DEF Next, Statement, Rebuild

\* The open that succeeds first.
LEMMA FirstSettled ==
  ASSUME Shaped, CheckIntegrity, ~settled, settled'
  PROVE  Final'
<1>1. Sound /\ Mig = "check" /\ Step = "gate"
  BY AtIs DEF Shaped, CheckIntegrity
<1>2. db' = db /\ filled' = filled /\ Mig' = "open" /\ Step' = "none"
  BY <1>1, Ends DEF CheckIntegrity
<1>3. /\ There("entities") /\ There("facts") /\ There("episodic_edges") /\ There("episodes")
      /\ ~There("rql_entities")
  BY <1>1 DEF Sound, Standing, OldName, Early, Before, Swapping
<1>4. /\ {"composite_pk", "entity_type_id", "entity_type_source", "DreamPass4", "f32"}
           \subseteq db["entities"].has
      /\ ~Has("entities", "label") /\ ~There("entities_new_023")
  BY <1>1, PastsAre DEF Shaped, EntityShapes, OnEntities, Swapping, Has
<1>5. /\ Has("facts", "composite_fk") /\ ~There("episodic_edges_new")
      /\ Has("episodes", "content_hash") /\ Has("episodes", "episode_processing_status")
      /\ "entity_type_source" \in filled /\ Has("episodic_edges", "group_ids")
      /\ Has("entities_fts", "porter") /\ Has("facts_fts", "porter")
  BY <1>1, PastsAre DEF Shaped, OtherShapes
<1>6. There("entities_fts") /\ There("facts_fts")
  BY <1>1, <1>5, NotThere, Named DEF Has
<1> QED
  BY <1>2, <1>3, <1>4, <1>5, <1>6 DEF Final, There, Has, NewShape

LEMMA SettledOnce ==
  ASSUME Sound, Next
  PROVE  settled' = settled \/ CheckIntegrity
<1>1. CASE Rebuild
  BY <1>1
     DEF Rebuild, Gate004, Gate006, Gate013, Discard013, Gate023, Backup, CreateScratch,
         CopyRows, CheckScratch, ClearScratch, Recopy, DropLive, RenameScratch, AddGroupIds,
         CheckForeignKeys, CreateTrigger, CreateVecIndex, DropBak023
<1>2. CASE Statement /\ ~Rebuild
  BY <1>2
     DEF Statement, LegacyRename, PrefixDrop, RenameFts, BaseDdl, GateColumn, AddColumn,
         Backfill, DropLabel, UniqueEdges, GateFts, DropFts, CreateFts, FillFts
<1>3. CASE OpenStore \/ Close \/ Stop
  BY <1>3 DEF OpenStore, Close, Stop
<1> QED
  BY <1>1, <1>2, <1>3 DEF Next

LEMMA SettledStep ==
  ASSUME SettledInv, [Next]_vars
  PROVE  SettledInv' /\ (settled => UNCHANGED <<db, filled>>)
<1>1. Shaped'
  BY ShapedStep DEF SettledInv
<1>2. CASE Next /\ settled
  <2>1. Shaped /\ Final
    BY <1>2 DEF SettledInv
  <2>2. /\ db' = db /\ filled' = filled
        /\ Mig' \notin {"006f", "006t", "006e", "006z"}
        /\ \/ Step' \in {"gate", "none"} \/ (Mig' = "012" /\ Step' = "fill")
           \/ (Mig' = "013" /\ Step' = "trigger")
    BY <1>2, <2>1, FinalStep
  <2>3. Final'
    BY <2>1, <2>2 DEF Final, There, Has
  <2> QED
    BY <1>1, <2>2, <2>3 DEF SettledInv
<1>3. CASE Next /\ ~settled
  <2>1. settled' => CheckIntegrity
    BY <1>3, SettledOnce DEF SettledInv, Shaped, Sound, TypeOK
  <2>2. settled' => Final'
    BY <1>3, <2>1, FirstSettled DEF SettledInv
  <2> QED
    BY <1>1, <1>3, <2>2 DEF SettledInv
<1>4. CASE UNCHANGED vars
  BY <1>1, <1>4 DEF vars, SettledInv, Final, There, Has, Mig, Step
<1> QED
  BY <1>2, <1>3, <1>4

\* Once an open has succeeded, no later one changes a table or fills a column again,
\* wherever it ends: each gate finds what it looks for.
THEOREM AppliedIsNoOp == Spec => NoOp
<1>1. Init => SettledInv
  BY StartShaped, MigrationAssumption DEF Init, SettledInv
<1>2. SettledInv /\ [Next]_vars => SettledInv'
  BY SettledStep
<1>3. SettledInv /\ [Next]_vars => [settled => UNCHANGED <<db, filled>>]_vars
  BY SettledStep
<1> QED
  BY <1>1, <1>2, <1>3, PTL DEF Spec, NoOp

-----------------------------------------------------------------------------
\* Where exactly the rows are, as long as the process has not ended in a gap

\* The entities are in one table; an older rebuild could still take its snapshot for it.
KeptIn(t) ==
  /\ db[t].rows = start.entities
  /\ ~Has(t, "composite_pk") =>
       /\ ~There("entities_new")
       /\ There("entities_bak_004") => db["entities_bak_004"].rows = start.entities
  /\ ~There("entities_new_023")
  /\ There("entities_bak_023") =>
       /\ {"composite_pk", "DreamPass4"} \subseteq db[t].has
       /\ db["entities_bak_023"].rows = start.entities

KeptOld == KeptIn("rql_entities") /\ Before /\ ~There("entities")

KeptNow ==
  /\ KeptIn("entities") /\ ~There("rql_entities")
  /\ Mig = "004" => Step \in {"gate", "backup", "create", "facts", "edges"}
  /\ Mig = "004" /\ Step \in {"backup", "create"} => ~Has("entities", "composite_pk")
  /\ Mig = "004" /\ Step = "create" => There("entities_bak_004")
  /\ Mig = "013" => Step # "rename"
  /\ Mig = "013" /\ Step \in {"discard", "create", "copy", "drop"} =>
       ~There("entities_bak_023")
  /\ Mig = "013" /\ Step = "copy" => db["entities_new"].rows = {}
  /\ Mig = "013" /\ Step = "drop" => db["entities_new"].rows = start.entities
  /\ Mig = "023" => Step \in {"gate", "backup", "create", "index", "check", "drop_bak"}
  /\ Mig = "023" /\ Step = "create" => There("entities_bak_023")

\* The scratch table of 004: empty or complete, and it is known which.
KeptBy004 ==
  /\ There("entities_bak_004") /\ There("entities_new")
  /\ ~There("entities_new_023") /\ ~There("entities_bak_023")
  /\ ~Has("entities", "composite_pk") /\ ~Has("rql_entities", "composite_pk")
  /\ \/ db["entities_new"].rows = start.entities /\ Complete("004")
     \/ /\ db["entities_new"].rows \in {{}, start.entities}
        /\ db["entities_bak_004"].rows = start.entities
  /\ Early \/ (Mig = "004" /\ Step \in {"gate", "copy", "count", "clear", "recopy", "drop",
                                        "rename"})
  /\ Mig = "004" /\ Step = "copy" =>
       /\ db["entities"].rows = start.entities /\ db["entities_new"].rows = {}
       /\ db["entities_bak_004"].rows = start.entities
  /\ Mig = "004" /\ Step \in {"clear", "recopy"} =>
       db["entities_bak_004"].rows = start.entities
  /\ Mig = "004" /\ Step \in {"drop", "rename"} => db["entities_new"].rows = start.entities

KeptBy013 ==
  /\ db["entities_new"].rows = start.entities
  /\ ~There("entities_bak_023") /\ ~There("entities_new_023")
  /\ Mig = "013" /\ Step = "rename" /\ ~There("entities")

KeptBy023 ==
  /\ There("entities_bak_023") /\ db["entities_bak_023"].rows = start.entities
  /\ There("entities_new_023") /\ db["entities_new_023"].rows \in {{}, start.entities}
  /\ Mig = "023" => Step \in {"gate", "copy", "count", "clear", "recopy", "drop", "rename"}
  /\ Mig = "023" /\ Step = "copy" =>
       db["entities"].rows = start.entities /\ db["entities_new_023"].rows = {}
  /\ Mig = "023" /\ Step \in {"drop", "rename"} => db["entities_new_023"].rows = start.entities

EntitiesKept == KeptOld \/ KeptNow \/ KeptBy004 \/ KeptBy013 \/ KeptBy023

\* The facts; of facts_new the gate asks only whether it exists, so it is complete.
GroupsFor(t) == Has(t, "composite_pk") /\ ~(Mig = "004" /\ Step = "facts")

FactsNow ==
  /\ db["facts"].rows = start.facts
  /\ GroupsFor("entities") \/ GroupsFor("rql_entities") \/ Mig \in Past004
       \/ (Mig = "004" /\ Step = "edges") => Has("facts", "group_ids")
  /\ \/ Has("facts", "composite_fk") \/ ~There("facts_new")
     \/ Mig = "006f" /\ Step = "copy" /\ db["facts_new"].rows = {}
  /\ Mig = "006f" => Step \in {"backup", "create", "copy"}

FactsBy006 ==
  /\ There("facts_new") /\ db["facts_new"].rows = start.facts
  /\ ~Has("facts", "composite_fk")
  /\ Mig = "006f" => Step \in {"drop", "rename"}

FactsKeptBy == FactsNow \/ FactsBy006

EdgesNow ==
  /\ db["episodic_edges"].rows = start.edges
  /\ ~There("episodic_edges_new")
  /\ Has("facts", "composite_fk") /\ Mig \notin {"006t", "006e"} =>
       NewShape("006e") \subseteq db["episodic_edges"].has
  /\ There("episodic_edges_bak_006") =>
       /\ Has("facts", "composite_fk") /\ Mig \notin {"006f", "006t"}
       /\ Mig = "006e" => Step = "create" /\ db["episodic_edges_bak_006"].rows = start.edges
  /\ Mig \in {"006f", "006t"} => ~edgesPartial
  /\ Mig = "006e" => Step \in {"backup", "create"}
  /\ Mig = "006e" /\ Step = "create" => There("episodic_edges_bak_006")

EdgesBy006 ==
  /\ There("episodic_edges_bak_006") /\ db["episodic_edges_bak_006"].rows = start.edges
  /\ There("episodic_edges_new") /\ db["episodic_edges_new"].rows \in {{}, start.edges}
  /\ Has("facts", "composite_fk") /\ Mig \notin {"006f", "006t"}
  /\ Mig = "006e" => Step \in {"copy", "count", "clear", "recopy", "drop", "rename"}
  /\ Mig = "006e" /\ Step = "copy" =>
       db["episodic_edges"].rows = start.edges /\ db["episodic_edges_new"].rows = {}
  /\ Mig = "006e" /\ Step \in {"drop", "rename"} =>
       db["episodic_edges_new"].rows = start.edges

EdgesKept == EdgesNow \/ EdgesBy006

\* A full-text table that stems has all rows, but while it is filled.
FtsKept ==
  /\ Has("rql_entities_fts", "porter") => db["rql_entities_fts"].rows = start.entities
  /\ Has("entities_fts", "porter") =>
       db["entities_fts"].rows = IF Mig = "027e" /\ Step = "fill_fts" THEN {} ELSE start.entities
  /\ Has("facts_fts", "porter") =>
       db["facts_fts"].rows = IF Mig = "027f" /\ Step = "fill_fts" THEN {} ELSE start.facts

\* A column that is there is filled, but while it is filled.
ColumnsKept ==
  /\ \A t \in {"entities", "rql_entities", "entities_new", "entities_new_023"} :
       Has(t, "entity_type_id") => "entity_type_id" \in filled \/ (Mig = "008" /\ Step = "fill")
  /\ Has("episodes", "content_hash") =>
       "content_hash" \in filled \/ (Mig = "011" /\ Step = "fill")
  /\ Has("episodes", "episode_processing_status") =>
       "episode_processing_status" \in filled \/ (Mig = "015a" /\ Step = "fill")

\* The facts have all of their new shape if they have its keys; and columns that a vector
\* index takes have it once the base statements have run, but while the table is replaced.
Unindexed == Mig \in {"closed", "legacy", "002", "base"}

IndexKept ==
  /\ Has("facts", "composite_fk") => NewShape("006f") \subseteq db["facts"].has
  /\ ~Has("entities_new", "f32")
  /\ Unindexed \/ ~Has("entities", "f32") \/ (Mig = "023" /\ Step = "index")
       \/ "entities_vec_idx" \in objects
  /\ Unindexed \/ ~Has("facts", "f32") \/ Mig = "006t" \/ "facts_vec_idx" \in objects

\* What the base tables change: a table that was not there has no rows, a label or what a
\* vector index takes.
LEMMA BaseKeeps ==
  ASSUME Sound, BaseDdl
  PROVE  /\ Mig = "base" /\ Step = "gate" /\ Mig' = "004" /\ Step' = "gate"
         /\ \A t \in Tables : There(t) \/ t \notin BaseTables => db'[t] = db[t]
         /\ \A t \in Tables : db'[t].rows = db[t].rows
         /\ \A t \in Tables, f \in Features \ {"label", "f32"} :
              f \in db'[t].has <=> f \in db[t].has
         /\ UNCHANGED <<filled, edgesPartial, start, settled, gaps, stops>>
<1>1. Sound /\ Bases /\ Mig = "base" /\ Step = "gate" /\ Mig' = "004" /\ Step' = "gate"
  BY BaseEffect DEF Mig, Step
<1>2. \A t \in Tables : There(t) \/ t \notin BaseTables => db'[t] = db[t]
  BY <1>1 DEF Bases
<1>3. ASSUME NEW t \in Tables, ~There(t), t \in BaseTables
      PROVE  /\ db'[t].rows = db[t].rows
             /\ \A f \in Features \ {"label", "f32"} : f \in db'[t].has <=> f \in db[t].has
  <2>1. db'[t] = Table({}, BaseShape(t))
    BY <1>1, <1>3 DEF Bases
  <2>2. BaseShape(t) \subseteq {"label", "f32"}
    BY DEF BaseShape
  <2>3. db[t].rows = {} /\ db[t].has = {}
    BY <1>3, NotThere
  <2> QED
    BY <2>1, <2>2, <2>3 DEF Table
<1> QED
  BY <1>1, <1>2, <1>3, BaseEffect

LEMMA Names ==
  /\ {"entities", "rql_entities", "facts", "episodic_edges"} \subseteq Tables
  /\ {"composite_pk", "composite_fk", "group_ids", "DreamPass4", "entity_type_id", "porter",
      "entity_type_source", "content_hash", "episode_processing_status"}
       \subseteq Features \ {"label", "f32"}
  BY Named DEF Features

\* The copy of a table into an empty one.
LEMMA CopiesAll ==
  ASSUME Sound, CopyRows, NEW s \in Tables, NEW t \in Tables, Scratch(Mig) = s, Live(Mig) = t,
         db[s].rows = {}
  PROVE  \/ Fails /\ ~(Selects(Mig) \subseteq db[t].has)
         \/ /\ db'[s].rows = db[t].rows /\ db'[s].there /\ db'[s].has = db[s].has
            /\ \A u \in Tables \ {s} : db'[u] = db[u]
            /\ Selects(Mig) \subseteq db[t].has
            /\ at' = <<Mig, "drop">>
            /\ UNCHANGED <<filled, objects, edgesPartial, start, settled, gaps, stops>>
<1>1. CASE Fails /\ ~(Selects(Mig) \subseteq db[t].has)
  BY <1>1
<1>2. CASE ~(Fails /\ ~(Selects(Mig) \subseteq db[t].has))
  <2>1. /\ Refills(s, db[s].rows \cup db[t].rows) /\ Selects(Mig) \subseteq db[t].has
        /\ at' = <<Mig, "drop">>
        /\ UNCHANGED <<filled, objects, edgesPartial, start, settled, gaps, stops>>
    BY <1>2, CopyEffect
  <2>2. db[s].rows \cup db[t].rows = db[t].rows
    OBVIOUS
  <2> QED
    BY <2>1, <2>2 DEF Refills
<1> QED
  BY <1>1, <1>2

LEMMA OnEntitiesIs == On("entities") = {"entities_vec_idx", "cascade_trigger"}
  BY DEF On

LEMMA SelectsIs == Selects("006f") = {"group_ids"}
  BY DEF Selects

LEMMA NoGap ==
  ASSUME Sound, Stop, gaps' = {}
  PROVE  /\ Mig = "004" => Step \notin {"facts", "edges"}
         /\ Mig = "006f" => Step # "copy"
         /\ Mig # "006t"
         /\ Mig = "006e" => Step \notin {"backup", "create"}
         /\ Mig \in {"008", "011", "015a"} => Step # "fill"
         /\ Mig \in {"027e", "027f"} => Step # "fill_fts"
         /\ Mig = "013" /\ Step = "rename" => There("entities_bak_004") /\ Complete("004")
<1>1. at = <<Mig, Step>> /\ Mig \in Migs /\ Step \in StepsOf(Mig)
  BY AtIs
<1>2. at \notin GapSteps /\ ~Lossy013
  BY DEF Stop
<1>3. ASSUME NEW m, NEW s, <<m, s>> \in GapSteps
      PROVE  ~(Mig = m /\ Step = s)
  BY <1>1, <1>2, <1>3
<1>4. Mig = "006t" => Step \in {"drop_fts", "create_fts", "fill_fts"}
  BY <1>1 DEF StepsOf
<1>5. /\ <<"004", "facts">> \in GapSteps /\ <<"004", "edges">> \in GapSteps
      /\ <<"006f", "copy">> \in GapSteps /\ <<"006t", "drop_fts">> \in GapSteps
      /\ <<"006t", "create_fts">> \in GapSteps /\ <<"006t", "fill_fts">> \in GapSteps
      /\ <<"006e", "backup">> \in GapSteps /\ <<"006e", "create">> \in GapSteps
      /\ <<"008", "fill">> \in GapSteps /\ <<"011", "fill">> \in GapSteps
      /\ <<"015a", "fill">> \in GapSteps /\ <<"027e", "fill_fts">> \in GapSteps
      /\ <<"027f", "fill_fts">> \in GapSteps
  BY DEF GapSteps
<1>6. Mig = "013" /\ Step = "rename" => There("entities_bak_004") /\ Complete("004")
  BY <1>1, <1>2 DEF Lossy013
<1> QED
  BY <1>3, <1>4, <1>5, <1>6

\* Of two tables of which one is empty, the one as long as it, or no longer, is too.
LEMMA NoLonger ==
  ASSUME MigrationAssumption, Sound
  PROVE  /\ Complete("004") /\ db["entities_new"].rows = {} => db["entities_bak_004"].rows = {}
         /\ Complete("006e") /\ db["episodic_edges_new"].rows = {} =>
              db["episodic_edges_bak_006"].rows = {}
<1>1. ASSUME NEW r, r \subseteq Rows, 0 >= Cardinality(r)
      PROVE  r = {}
  <2>1. IsFiniteSet(r)
    BY <1>1, FS_Subset DEF MigrationAssumption
  <2>2. Cardinality(r) \in Nat
    BY <2>1, FS_CardinalityType
  <2> QED
    BY <1>1, <2>1, <2>2, FS_EmptySet
<1>2. /\ db["entities_bak_004"].rows \subseteq Rows
      /\ db["episodic_edges_bak_006"].rows \subseteq Rows
  BY SoundTables, Named, Kinds
<1>3. Cardinality({}) = 0
  BY FS_EmptySet
<1>4. Complete("004") /\ db["entities_new"].rows = {} => db["entities_bak_004"].rows = {}
  <2>1. Complete("004") <=> Count("entities_new") >= Count("entities_bak_004")
    BY TablesOf DEF Complete
  <2> QED
    BY <1>1, <1>2, <1>3, <2>1 DEF Count
<1>5. Complete("006e") /\ db["episodic_edges_new"].rows = {} =>
              db["episodic_edges_bak_006"].rows = {}
  <2>1. Complete("006e") <=> Count("episodic_edges_new") >= Count("episodic_edges_bak_006")
    BY TablesOf DEF Complete
  <2> QED
    BY <1>1, <1>2, <1>3, <2>1 DEF Count
<1> QED
  BY <1>4, <1>5

LEMMA KeptOldStep ==
  ASSUME MigrationAssumption, Shaped, Next, start' = start, gaps' = {}, KeptOld
  PROVE  KeptOld' \/ KeptNow'
<1>1. Sound /\ ScratchShapes /\ EntityShapes /\ OtherShapes
  BY DEF Shaped
<1>2. CASE Backup \/ CreateScratch
  BY <1>1, <1>2, BackupEffect, CreateEffect, TablesOf, Named, NotThere
     DEF KeptOld, KeptNow, KeptIn, Before, There, Has, Mig, Step, Puts, Rebuilds, Table,
         NewShape
<1>3. CASE CopyRows \/ CheckScratch \/ ClearScratch \/ Recopy
  BY <1>1, <1>3, CopyEffect, CheckEffect, ClearEffect, RecopyEffect, TablesOf, Named, Ends,
     NotThere
     DEF KeptOld, KeptNow, KeptIn, Before, There, Has, Mig, Step, Stays, Fails, Refills,
         Rebuilds
<1>4. CASE DropLive \/ Discard013 \/ DropBak023
  BY <1>1, <1>4, DropEffect, DiscardEffect, DropBakEffect, TablesOf, Named, NotThere
     DEF KeptOld, KeptNow, KeptIn, Before, There, Has, Mig, Step, Puts, Rebuilds, Absent
<1>5. CASE RenameScratch
  BY <1>1, <1>5, RenameEffect, TablesOf, Named, NotThere
     DEF KeptOld, KeptNow, KeptIn, Before, There, Has, Mig, Step, Shifts, Rebuilds, Absent,
         NewShape
<1>6. CASE Gate004 \/ Gate006 \/ Gate013 \/ Gate023
  BY <1>1, <1>6, Gate004Effect, Gate006Effect, Gate013Effect, Gate023Effect, Named, NotThere
     DEF KeptOld, KeptNow, KeptIn, Before, There, Has, Mig, Step, Stays
<1>7. CASE AddGroupIds \/ CheckForeignKeys \/ CreateTrigger \/ CreateVecIndex
  BY <1>1, <1>7, GroupEffect, ForeignEffect, TriggerEffect, VecIndexEffect, Named, Ends,
     NotThere DEF KeptOld, KeptNow, KeptIn, Before, There, Has, Mig, Step, Stays, Alters
<1>8. CASE LegacyRename \/ PrefixDrop \/ RenameFts \/ BaseDdl
  <2>1. CASE LegacyRename
    BY <1>1, <2>1, LegacyEffect, TablesOf, Named, NotThere
       DEF KeptOld, KeptNow, KeptIn, Before, There, Has, Mig, Step, Stays, Shifts, Absent
  <2>2. CASE PrefixDrop
    <3>1. CASE There("rql_entities")
      BY <1>1, <2>2, <3>1, PrefixEffect, TablesOf, Named
         DEF KeptOld, KeptNow, KeptIn, There, Has, Mig, Step, Shifts, Absent
    <3>2. CASE ~There("rql_entities")
      <4>1. db' = db /\ Mig' = "base" /\ Step' = "gate"
        BY <1>1, <2>2, <3>2, PrefixEffect DEF Mig, Step
      <4>2. db["entities"] = db["rql_entities"]
        BY <1>1, <3>2, Named DEF KeptOld, Sound, TypeOK, There
      <4> QED
        BY <3>2, <4>1, <4>2 DEF KeptOld, KeptNow, KeptIn, There, Has
    <3> QED
      BY <3>1, <3>2
  <2>3. CASE RenameFts
    BY <1>1, <2>3, RenameFtsEffect, TablesOf, Named, NotThere
       DEF KeptOld, KeptNow, KeptIn, Before, There, Has, Mig, Step, Stays, Shifts, Absent
  <2>4. CASE BaseDdl
    BY <1>1, <2>4, BaseKeeps, Names, TablesOf, Named, NotThere
       DEF KeptOld, KeptNow, KeptIn, Before, There, Has, Mig, Step, BaseTables
  <2> QED
    BY <1>8, <2>1, <2>2, <2>3, <2>4
<1>9. CASE GateColumn \/ AddColumn \/ Backfill \/ DropLabel \/ UniqueEdges
  BY <1>1, <1>9, GateColumnEffect, AddColumnEffect, BackfillEffect, DropLabelEffect,
     UniqueEffect, AfterIs, Ends, Named, NotThere
     DEF KeptOld, KeptNow, KeptIn, Before, There, Has, Mig, Step, Stays, Alters, Fillers,
         Extended, Column
<1>10. CASE GateFts \/ DropFts \/ CreateFts \/ FillFts
  BY <1>1, <1>10, GateFtsEffect, DropFtsEffect, CreateFtsEffect, FillFtsEffect, AfterIs,
     FtsTables, Named, NotThere
     DEF KeptOld, KeptNow, KeptIn, Before, There, Has, Mig, Step, Stays, Puts, Refills, FtsMigs
<1>11. CASE OpenStore \/ CheckIntegrity \/ Close \/ Stop
  BY <1>1, <1>11, EndsEffect, Ends, NoGap, NotThere
     DEF KeptOld, KeptNow, KeptIn, Before, There, Has, Mig, Step, Stays
<1> QED
  BY <1>2, <1>3, <1>4, <1>5, <1>6, <1>7, <1>8, <1>9, <1>10, <1>11 DEF Next, Statement, Rebuild

LEMMA KeptNowStep ==
  ASSUME MigrationAssumption, Shaped, Next, start' = start, gaps' = {}, KeptNow
  PROVE  KeptOld' \/ KeptNow' \/ KeptBy004' \/ KeptBy013' \/ KeptBy023'
<1>1. Sound /\ ScratchShapes /\ EntityShapes /\ OtherShapes
  BY DEF Shaped
<1>2. CASE Backup \/ CreateScratch
  <2>1. CASE Backup /\ Mig = "004"
    BY <1>1, <2>1, BackupEffect, TablesOf, Named, NotThere, PastsAre
       DEF KeptOld, KeptBy013, KeptBy023, KeptNow, KeptIn, KeptBy004, Before, There, Has, Mig,
           Step, EntityShapes, OnEntities, Swapping, Puts, Sound, Standing, Early
  <2>2. CASE Backup /\ Mig \in {"006f", "006e", "008"}
    BY <1>1, <2>2, BackupEffect, TablesOf, Named, NotThere, PastsAre
       DEF KeptOld, KeptBy013, KeptBy023, KeptNow, KeptIn, KeptBy004, Before, There, Has, Mig,
           Step, EntityShapes, OnEntities, Swapping, Puts, Sound, Standing, Early
  <2>3. CASE Backup /\ Mig = "023"
    BY <1>1, <2>3, BackupEffect, TablesOf, Named, NotThere, PastsAre
       DEF KeptOld, KeptBy013, KeptBy023, KeptNow, KeptIn, KeptBy004, Before, There, Has, Mig,
           Step, EntityShapes, OnEntities, Swapping, Puts, Sound, Standing, Early
  <2>4. CASE CreateScratch /\ Mig = "004"
    BY <1>1, <2>4, CreateEffect, TablesOf, Named, NotThere, PastsAre
       DEF KeptOld, KeptBy013, KeptBy023, KeptNow, KeptIn, KeptBy004, Before, There, Has, Mig,
           Step, EntityShapes, OnEntities, Swapping, Puts, Table, NewShape, ScratchShapes
  <2>5. CASE CreateScratch /\ Mig \in {"006f", "006e"}
    BY <1>1, <2>5, CreateEffect, TablesOf, Named, NotThere, PastsAre
       DEF KeptOld, KeptBy013, KeptBy023, KeptNow, KeptIn, KeptBy004, Before, There, Has, Mig,
           Step, EntityShapes, OnEntities, Swapping, Puts, Table, NewShape, ScratchShapes
  <2>6. CASE CreateScratch /\ Mig = "013"
    BY <1>1, <2>6, CreateEffect, TablesOf, Named, NotThere, PastsAre
       DEF KeptOld, KeptBy013, KeptBy023, KeptNow, KeptIn, KeptBy004, Before, There, Has, Mig,
           Step, EntityShapes, OnEntities, Swapping, Puts, Table, NewShape, ScratchShapes
  <2>7. CASE CreateScratch /\ Mig = "023"
    BY <1>1, <2>7, CreateEffect, TablesOf, Named, NotThere, PastsAre
       DEF KeptOld, KeptBy013, KeptBy023, KeptNow, KeptIn, KeptBy004, Before, There, Has, Mig,
           Step, EntityShapes, OnEntities, Swapping, Puts, Table, NewShape, ScratchShapes
  <2> QED
    BY <1>1, BackupEffect, CreateEffect, <1>2, <2>1, <2>2, <2>3, <2>4, <2>5, <2>6, <2>7
       DEF Rebuilds
<1>3. CASE CopyRows \/ CheckScratch \/ ClearScratch \/ Recopy
  <2>1. CASE CopyRows /\ Mig = "004"
    BY <1>1, <2>1, CopiesAll, CopyEffect, Ends, TablesOf, Named, NotThere, PastsAre
       DEF KeptOld, KeptBy013, KeptBy023, KeptNow, KeptIn, KeptBy004, Before, There, Has, Mig,
           Step, EntityShapes, OnEntities, Swapping, Fails, Stays, Refills, Sound, ScratchThere
  <2>2. CASE CopyRows /\ Mig \in {"006f", "006e"}
    BY <1>1, <2>2, CopiesAll, CopyEffect, Ends, TablesOf, Named, NotThere, PastsAre
       DEF KeptOld, KeptBy013, KeptBy023, KeptNow, KeptIn, KeptBy004, Before, There, Has, Mig,
           Step, EntityShapes, OnEntities, Swapping, Fails, Stays, Refills, Sound, ScratchThere
  <2>3. CASE CopyRows /\ Mig = "013"
    BY <1>1, <2>3, CopiesAll, CopyEffect, Ends, TablesOf, Named, NotThere, PastsAre
       DEF KeptOld, KeptBy013, KeptBy023, KeptNow, KeptIn, KeptBy004, Before, There, Has, Mig,
           Step, EntityShapes, OnEntities, Swapping, Fails, Stays, Refills, Sound, ScratchThere
  <2>4. CASE CopyRows /\ Mig = "023"
    BY <1>1, <2>4, CopiesAll, CopyEffect, Ends, TablesOf, Named, NotThere, PastsAre
       DEF KeptOld, KeptBy013, KeptBy023, KeptNow, KeptIn, KeptBy004, Before, There, Has, Mig,
           Step, EntityShapes, OnEntities, Swapping, Fails, Stays, Refills, Sound, ScratchThere
  <2>5. CASE CheckScratch /\ Mig = "004"
    BY <1>1, <2>5, CheckEffect, Ends, TablesOf, Named, NotThere, PastsAre
       DEF KeptOld, KeptBy013, KeptBy023, KeptNow, KeptIn, KeptBy004, Before, There, Has, Mig,
           Step, EntityShapes, OnEntities, Swapping, Stays
  <2>6. CASE CheckScratch /\ Mig = "006e"
    BY <1>1, <2>6, CheckEffect, Ends, TablesOf, Named, NotThere, PastsAre
       DEF KeptOld, KeptBy013, KeptBy023, KeptNow, KeptIn, KeptBy004, Before, There, Has, Mig,
           Step, EntityShapes, OnEntities, Swapping, Stays
  <2>7. CASE CheckScratch /\ Mig = "023"
    BY <1>1, <2>7, CheckEffect, Ends, TablesOf, Named, NotThere, PastsAre
       DEF KeptOld, KeptBy013, KeptBy023, KeptNow, KeptIn, KeptBy004, Before, There, Has, Mig,
           Step, EntityShapes, OnEntities, Swapping, Stays
  <2>8. CASE ClearScratch \/ Recopy
    BY <1>1, <2>8, ClearEffect, RecopyEffect, Ends, TablesOf, Named, NotThere, PastsAre
       DEF KeptOld, KeptBy013, KeptBy023, KeptNow, KeptIn, KeptBy004, Before, There, Has, Mig,
           Step, EntityShapes, OnEntities, Swapping, Stays, Fails, Refills
  <2> QED
    BY <1>1, CopyEffect, CheckEffect, <1>3, <2>1, <2>2, <2>3, <2>4, <2>5, <2>6, <2>7, <2>8
       DEF Rebuilds
<1>4. CASE DropLive \/ Discard013 \/ DropBak023
  BY <1>1, <1>4, DropEffect, DiscardEffect, DropBakEffect, TablesOf, Named, NotThere
     DEF KeptOld, KeptBy013, KeptBy023, KeptNow, KeptIn, KeptBy004, Before, There, Has, Mig,
         Step, Puts, Rebuilds, Absent
<1>5. CASE RenameScratch
  BY <1>1, <1>5, RenameEffect, TablesOf, Named, NotThere
     DEF KeptOld, KeptBy013, KeptBy023, KeptNow, KeptIn, KeptBy004, Before, There, Has, Mig,
         Step, Shifts, Rebuilds, Absent, NewShape
<1>6. CASE Gate004 \/ Gate006 \/ Gate013 \/ Gate023
  BY <1>1, <1>6, Gate004Effect, Gate006Effect, Gate013Effect, Gate023Effect, Named, NotThere
     DEF KeptOld, KeptBy013, KeptBy023, KeptNow, KeptIn, KeptBy004, Before, There, Has, Mig,
         Step, Stays
<1>7. CASE AddGroupIds \/ CheckForeignKeys \/ CreateTrigger \/ CreateVecIndex
  BY <1>1, <1>7, GroupEffect, ForeignEffect, TriggerEffect, VecIndexEffect, Named, Ends,
     NotThere
     DEF KeptOld, KeptBy013, KeptBy023, KeptNow, KeptIn, KeptBy004, Before, There, Has, Mig,
         Step, Stays, Alters
<1>8. CASE LegacyRename \/ PrefixDrop \/ RenameFts \/ BaseDdl
  <2>1. CASE LegacyRename
    BY <1>1, <2>1, LegacyEffect, TablesOf, Named, NotThere
       DEF KeptOld, KeptBy013, KeptBy023, KeptNow, KeptIn, KeptBy004, Before, There, Has, Mig,
           Step, Stays, Shifts, Absent
  <2>2. CASE PrefixDrop
    BY <1>1, <2>2, PrefixEffect, TablesOf, Named, NotThere
       DEF KeptOld, KeptBy013, KeptBy023, KeptNow, KeptIn, KeptBy004, Before, There, Has, Mig,
           Step, Stays, Shifts, Absent
  <2>3. CASE RenameFts
    BY <1>1, <2>3, RenameFtsEffect, TablesOf, Named, NotThere
       DEF KeptOld, KeptBy013, KeptBy023, KeptNow, KeptIn, KeptBy004, Before, There, Has, Mig,
           Step, Stays, Shifts, Absent
  <2>4. CASE BaseDdl
    BY <1>1, <2>4, BaseKeeps, Names, TablesOf, Named, NotThere
       DEF KeptOld, KeptBy013, KeptBy023, KeptNow, KeptIn, KeptBy004, Before, There, Has, Mig,
           Step, BaseTables
  <2> QED
    BY <1>8, <2>1, <2>2, <2>3, <2>4
<1>9. CASE GateColumn \/ AddColumn \/ Backfill \/ DropLabel \/ UniqueEdges
  BY <1>1, <1>9, GateColumnEffect, AddColumnEffect, BackfillEffect, DropLabelEffect,
     UniqueEffect, AfterIs, Ends, Named, NotThere
     DEF KeptOld, KeptBy013, KeptBy023, KeptNow, KeptIn, KeptBy004, Before, There, Has, Mig,
         Step, Stays, Alters, Fillers, Extended, Column
<1>10. CASE GateFts \/ DropFts \/ CreateFts \/ FillFts
  BY <1>1, <1>10, GateFtsEffect, DropFtsEffect, CreateFtsEffect, FillFtsEffect, AfterIs,
     FtsTables, Named, NotThere
     DEF KeptOld, KeptBy013, KeptBy023, KeptNow, KeptIn, KeptBy004, Before, There, Has, Mig,
         Step, Stays, Puts, Refills, FtsMigs
<1>11. CASE OpenStore \/ CheckIntegrity \/ Close \/ Stop
  BY <1>1, <1>11, EndsEffect, Ends, NoGap, NotThere
     DEF KeptOld, KeptBy013, KeptBy023, KeptNow, KeptIn, KeptBy004, Before, There, Has, Mig,
         Step, Stays
<1> QED
  BY <1>2, <1>3, <1>4, <1>5, <1>6, <1>7, <1>8, <1>9, <1>10, <1>11 DEF Next, Statement, Rebuild

LEMMA KeptBy004Step ==
  ASSUME MigrationAssumption, Shaped, Next, start' = start, gaps' = {}, KeptBy004
  PROVE  KeptNow' \/ KeptBy004'
<1>1. Sound /\ ScratchShapes /\ EntityShapes /\ OtherShapes
  BY DEF Shaped
<1>2. CASE Backup \/ CreateScratch
  BY <1>1, <1>2, BackupEffect, CreateEffect, TablesOf, Named, NotThere
     DEF KeptNow, KeptIn, KeptBy004, Complete, Count, Early, Before, There, Has, Mig, Step,
         Puts, Rebuilds, Table, NewShape
<1>3. CASE CopyRows \/ CheckScratch \/ ClearScratch \/ Recopy
  <2>1. CASE CopyRows /\ Mig = "004"
    BY <1>1, <2>1, CopiesAll, CopyEffect, Ends, TablesOf, Named, NotThere
       DEF KeptNow, KeptIn, KeptBy004, Complete, Count, Early, Before, There, Has, Mig, Step,
           Fails, Stays, Refills, Sound, ScratchThere
  <2>2. CASE CopyRows /\ Mig \in {"006f", "006e"}
    BY <1>1, <2>2, CopiesAll, CopyEffect, Ends, TablesOf, Named, NotThere
       DEF KeptNow, KeptIn, KeptBy004, Complete, Count, Early, Before, There, Has, Mig, Step,
           Fails, Stays, Refills, Sound, ScratchThere
  <2>3. CASE CopyRows /\ Mig = "013"
    BY <1>1, <2>3, CopiesAll, CopyEffect, Ends, TablesOf, Named, NotThere
       DEF KeptNow, KeptIn, KeptBy004, Complete, Count, Early, Before, There, Has, Mig, Step,
           Fails, Stays, Refills, Sound, ScratchThere
  <2>4. CASE CopyRows /\ Mig = "023"
    BY <1>1, <2>4, CopiesAll, CopyEffect, Ends, TablesOf, Named, NotThere
       DEF KeptNow, KeptIn, KeptBy004, Complete, Count, Early, Before, There, Has, Mig, Step,
           Fails, Stays, Refills, Sound, ScratchThere
  <2>5. CASE CheckScratch /\ Mig = "004"
    <3>1. db' = db /\ (Complete("004")' <=> Complete("004"))
      BY <1>1, <2>5, CheckEffect DEF Stays, Complete, Count
    <3>2. /\ Complete("004") => at' = <<"004", "drop">>
          /\ ~Complete("004") => at' = <<"004", "clear">>
      BY <1>1, <2>5, CheckEffect, TablesOf DEF KeptBy004
    <3>3. Complete("004") => db["entities_new"].rows = start.entities
      BY <1>1, NoLonger DEF KeptBy004
    <3> QED
      BY <1>1, <2>5, <3>1, <3>2, <3>3 DEF KeptBy004, There, Has, Mig, Step
  <2>6. CASE CheckScratch /\ Mig = "006e"
    BY <1>1, <2>6, CheckEffect, Ends, TablesOf, Named, NotThere
       DEF KeptNow, KeptIn, KeptBy004, Complete, Count, Early, Before, There, Has, Mig, Step,
           Stays
  <2>7. CASE CheckScratch /\ Mig = "023"
    BY <1>1, <2>7, CheckEffect, Ends, TablesOf, Named, NotThere
       DEF KeptNow, KeptIn, KeptBy004, Complete, Count, Early, Before, There, Has, Mig, Step,
           Stays
  <2>8. CASE ClearScratch \/ Recopy
    BY <1>1, <2>8, ClearEffect, RecopyEffect, Ends, TablesOf, Named, NotThere
       DEF KeptNow, KeptIn, KeptBy004, Complete, Count, Early, Before, There, Has, Mig, Step,
           Stays, Fails, Refills
  <2> QED
    BY <1>1, CopyEffect, CheckEffect, <1>3, <2>1, <2>2, <2>3, <2>4, <2>5, <2>6, <2>7, <2>8
       DEF Rebuilds
<1>4. CASE DropLive \/ Discard013 \/ DropBak023
  BY <1>1, <1>4, DropEffect, DiscardEffect, DropBakEffect, TablesOf, Named, NotThere
     DEF KeptNow, KeptIn, KeptBy004, Complete, Count, Early, Before, There, Has, Mig, Step,
         Puts, Rebuilds, Absent
<1>5. CASE RenameScratch
  <2>1. CASE RenameScratch /\ Mig = "004"
    BY <1>1, <2>1, RenameEffect, TablesOf, Named, NotThere
       DEF KeptNow, KeptIn, KeptBy004, Complete, Count, Early, Before, There, Has, Mig, Step,
           Shifts, Absent, NewShape, ScratchShapes, Sound, ScratchThere, OldName
  <2>2. CASE RenameScratch /\ Mig = "006f"
    BY <1>1, <2>2, RenameEffect, TablesOf, Named, NotThere
       DEF KeptNow, KeptIn, KeptBy004, Complete, Count, Early, Before, There, Has, Mig, Step,
           Shifts, Absent, NewShape, ScratchShapes, Sound, ScratchThere, OldName
  <2>3. CASE RenameScratch /\ Mig = "006e"
    BY <1>1, <2>3, RenameEffect, TablesOf, Named, NotThere
       DEF KeptNow, KeptIn, KeptBy004, Complete, Count, Early, Before, There, Has, Mig, Step,
           Shifts, Absent, NewShape, ScratchShapes, Sound, ScratchThere, OldName
  <2>4. CASE RenameScratch /\ Mig = "013"
    BY <1>1, <2>4, RenameEffect, TablesOf, Named, NotThere
       DEF KeptNow, KeptIn, KeptBy004, Complete, Count, Early, Before, There, Has, Mig, Step,
           Shifts, Absent, NewShape, ScratchShapes, Sound, ScratchThere, OldName
  <2>5. CASE RenameScratch /\ Mig = "023"
    BY <1>1, <2>5, RenameEffect, TablesOf, Named, NotThere
       DEF KeptNow, KeptIn, KeptBy004, Complete, Count, Early, Before, There, Has, Mig, Step,
           Shifts, Absent, NewShape, ScratchShapes, Sound, ScratchThere, OldName
  <2> QED
    BY <1>1, RenameEffect, <1>5, <2>1, <2>2, <2>3, <2>4, <2>5 DEF Rebuilds
<1>6. CASE Gate004 \/ Gate006 \/ Gate013 \/ Gate023
  BY <1>1, <1>6, Gate004Effect, Gate006Effect, Gate013Effect, Gate023Effect, Named, NotThere
     DEF KeptNow, KeptIn, KeptBy004, Complete, Count, Early, Before, There, Has, Mig, Step,
         Stays
<1>7. CASE AddGroupIds \/ CheckForeignKeys \/ CreateTrigger \/ CreateVecIndex
  BY <1>1, <1>7, GroupEffect, ForeignEffect, TriggerEffect, VecIndexEffect, Named, Ends,
     NotThere
     DEF KeptNow, KeptIn, KeptBy004, Complete, Count, Early, Before, There, Has, Mig, Step,
         Stays, Alters
<1>8. CASE LegacyRename \/ PrefixDrop \/ RenameFts \/ BaseDdl
  <2>1. CASE LegacyRename
    BY <1>1, <2>1, LegacyEffect, TablesOf, Named, NotThere
       DEF KeptNow, KeptIn, KeptBy004, Complete, Count, Early, Before, There, Has, Mig, Step,
           Stays, Shifts, Absent
  <2>2. CASE PrefixDrop
    BY <1>1, <2>2, PrefixEffect, TablesOf, Named, NotThere
       DEF KeptNow, KeptIn, KeptBy004, Complete, Count, Early, Before, There, Has, Mig, Step,
           Stays, Shifts, Absent
  <2>3. CASE RenameFts
    BY <1>1, <2>3, RenameFtsEffect, TablesOf, Named, NotThere
       DEF KeptNow, KeptIn, KeptBy004, Complete, Count, Early, Before, There, Has, Mig, Step,
           Stays, Shifts, Absent
  <2>4. CASE BaseDdl
    BY <1>1, <2>4, BaseKeeps, Names, TablesOf, Named, NotThere
       DEF KeptNow, KeptIn, KeptBy004, Complete, Count, Early, Before, There, Has, Mig, Step,
           BaseTables
  <2> QED
    BY <1>8, <2>1, <2>2, <2>3, <2>4
<1>9. CASE GateColumn \/ AddColumn \/ Backfill \/ DropLabel \/ UniqueEdges
  BY <1>1, <1>9, GateColumnEffect, AddColumnEffect, BackfillEffect, DropLabelEffect,
     UniqueEffect, AfterIs, Ends, Named, NotThere
     DEF KeptNow, KeptIn, KeptBy004, Complete, Count, Early, Before, There, Has, Mig, Step,
         Stays, Alters, Fillers, Extended, Column
<1>10. CASE GateFts \/ DropFts \/ CreateFts \/ FillFts
  BY <1>1, <1>10, GateFtsEffect, DropFtsEffect, CreateFtsEffect, FillFtsEffect, AfterIs,
     FtsTables, Named, NotThere
     DEF KeptNow, KeptIn, KeptBy004, Complete, Count, Early, Before, There, Has, Mig, Step,
         Stays, Puts, Refills, FtsMigs
<1>11. CASE OpenStore \/ CheckIntegrity \/ Close \/ Stop
  BY <1>1, <1>11, EndsEffect, Ends, NoGap, NotThere
     DEF KeptNow, KeptIn, KeptBy004, Complete, Count, Early, Before, There, Has, Mig, Step,
         Stays
<1> QED
  BY <1>2, <1>3, <1>4, <1>5, <1>6, <1>7, <1>8, <1>9, <1>10, <1>11 DEF Next, Statement, Rebuild

LEMMA KeptBy023Step ==
  ASSUME MigrationAssumption, Shaped, Next, start' = start, gaps' = {}, KeptBy023
  PROVE  KeptNow' \/ KeptBy023'
<1>1. Sound /\ ScratchShapes /\ EntityShapes /\ OtherShapes
  BY DEF Shaped
<1>2. CASE Backup \/ CreateScratch
  BY <1>1, <1>2, BackupEffect, CreateEffect, TablesOf, Named, NotThere
     DEF KeptNow, KeptIn, KeptBy023, Before, There, Has, Mig, Step, Puts, Rebuilds, Table,
         NewShape
<1>3. CASE CopyRows \/ CheckScratch \/ ClearScratch \/ Recopy
  <2>1. CASE CopyRows /\ Mig = "004"
    BY <1>1, <2>1, CopiesAll, CopyEffect, Ends, TablesOf, Named, NotThere
       DEF KeptNow, KeptIn, KeptBy023, Before, There, Has, Mig, Step, Fails, Stays, Refills,
           Sound, ScratchThere
  <2>2. CASE CopyRows /\ Mig \in {"006f", "006e"}
    BY <1>1, <2>2, CopiesAll, CopyEffect, Ends, TablesOf, Named, NotThere
       DEF KeptNow, KeptIn, KeptBy023, Before, There, Has, Mig, Step, Fails, Stays, Refills,
           Sound, ScratchThere
  <2>3. CASE CopyRows /\ Mig = "013"
    BY <1>1, <2>3, CopiesAll, CopyEffect, Ends, TablesOf, Named, NotThere
       DEF KeptNow, KeptIn, KeptBy023, Before, There, Has, Mig, Step, Fails, Stays, Refills,
           Sound, ScratchThere
  <2>4. CASE CopyRows /\ Mig = "023"
    BY <1>1, <2>4, CopiesAll, CopyEffect, Ends, TablesOf, Named, NotThere
       DEF KeptNow, KeptIn, KeptBy023, Before, There, Has, Mig, Step, Fails, Stays, Refills,
           Sound, ScratchThere
  <2>5. CASE CheckScratch /\ Mig = "004"
    BY <1>1, <2>5, CheckEffect, Ends, TablesOf, Named, NotThere
       DEF KeptNow, KeptIn, KeptBy023, Before, There, Has, Mig, Step, Stays
  <2>6. CASE CheckScratch /\ Mig = "006e"
    BY <1>1, <2>6, CheckEffect, Ends, TablesOf, Named, NotThere
       DEF KeptNow, KeptIn, KeptBy023, Before, There, Has, Mig, Step, Stays
  <2>7. CASE CheckScratch /\ Mig = "023"
    <3>1. db' = db /\ at' \in {<<"023", "drop">>, <<"023", "clear">>}
      BY <1>1, <2>7, CheckEffect, TablesOf DEF KeptBy023, Stays
    <3>2. Complete("023") <=> at' = <<"023", "drop">>
      BY <1>1, <2>7, CheckEffect, TablesOf DEF KeptBy023
    <3>3. Complete("023") => db["entities_new_023"].rows = start.entities
      BY <1>1, AsLong DEF KeptBy023
    <3> QED
      BY <1>1, <2>7, <3>1, <3>2, <3>3 DEF KeptBy023, There, Has, Mig, Step
  <2>8. CASE ClearScratch \/ Recopy
    BY <1>1, <2>8, ClearEffect, RecopyEffect, Ends, TablesOf, Named, NotThere
       DEF KeptNow, KeptIn, KeptBy023, Before, There, Has, Mig, Step, Stays, Fails, Refills
  <2> QED
    BY <1>1, CopyEffect, CheckEffect, <1>3, <2>1, <2>2, <2>3, <2>4, <2>5, <2>6, <2>7, <2>8
       DEF Rebuilds
<1>4. CASE DropLive \/ Discard013 \/ DropBak023
  BY <1>1, <1>4, DropEffect, DiscardEffect, DropBakEffect, TablesOf, Named, NotThere
     DEF KeptNow, KeptIn, KeptBy023, Before, There, Has, Mig, Step, Puts, Rebuilds, Absent
<1>5. CASE RenameScratch
  <2>1. CASE RenameScratch /\ Mig = "004"
    BY <1>1, <2>1, RenameEffect, TablesOf, Named, NotThere
       DEF KeptNow, KeptIn, KeptBy023, Before, There, Has, Mig, Step, Shifts, Absent, NewShape,
           ScratchShapes, Sound, ScratchThere, OldName
  <2>2. CASE RenameScratch /\ Mig = "006f"
    BY <1>1, <2>2, RenameEffect, TablesOf, Named, NotThere
       DEF KeptNow, KeptIn, KeptBy023, Before, There, Has, Mig, Step, Shifts, Absent, NewShape,
           ScratchShapes, Sound, ScratchThere, OldName
  <2>3. CASE RenameScratch /\ Mig = "006e"
    BY <1>1, <2>3, RenameEffect, TablesOf, Named, NotThere
       DEF KeptNow, KeptIn, KeptBy023, Before, There, Has, Mig, Step, Shifts, Absent, NewShape,
           ScratchShapes, Sound, ScratchThere, OldName
  <2>4. CASE RenameScratch /\ Mig = "013"
    BY <1>1, <2>4, RenameEffect, TablesOf, Named, NotThere
       DEF KeptNow, KeptIn, KeptBy023, Before, There, Has, Mig, Step, Shifts, Absent, NewShape,
           ScratchShapes, Sound, ScratchThere, OldName
  <2>5. CASE RenameScratch /\ Mig = "023"
    BY <1>1, <2>5, RenameEffect, TablesOf, Named, NotThere
       DEF KeptNow, KeptIn, KeptBy023, Before, There, Has, Mig, Step, Shifts, Absent, NewShape,
           ScratchShapes, Sound, ScratchThere, OldName
  <2> QED
    BY <1>1, RenameEffect, <1>5, <2>1, <2>2, <2>3, <2>4, <2>5 DEF Rebuilds
<1>6. CASE Gate004 \/ Gate006 \/ Gate013 \/ Gate023
  BY <1>1, <1>6, Gate004Effect, Gate006Effect, Gate013Effect, Gate023Effect, Named, NotThere
     DEF KeptNow, KeptIn, KeptBy023, Before, There, Has, Mig, Step, Stays
<1>7. CASE AddGroupIds \/ CheckForeignKeys \/ CreateTrigger \/ CreateVecIndex
  BY <1>1, <1>7, GroupEffect, ForeignEffect, TriggerEffect, VecIndexEffect, Named, Ends,
     NotThere DEF KeptNow, KeptIn, KeptBy023, Before, There, Has, Mig, Step, Stays, Alters
<1>8. CASE LegacyRename \/ PrefixDrop \/ RenameFts \/ BaseDdl
  BY <1>1, <1>8, LegacyEffect, PrefixEffect, RenameFtsEffect, BaseEffect, Named, NotThere
     DEF KeptNow, KeptIn, KeptBy023, Before, There, Has, Mig, Step, Stays, Bases, BaseTables,
         Shifts, Absent
<1>9. CASE GateColumn \/ AddColumn \/ Backfill \/ DropLabel \/ UniqueEdges
  BY <1>1, <1>9, GateColumnEffect, AddColumnEffect, BackfillEffect, DropLabelEffect,
     UniqueEffect, AfterIs, Ends, Named, NotThere
     DEF KeptNow, KeptIn, KeptBy023, Before, There, Has, Mig, Step, Stays, Alters, Fillers,
         Extended, Column
<1>10. CASE GateFts \/ DropFts \/ CreateFts \/ FillFts
  BY <1>1, <1>10, GateFtsEffect, DropFtsEffect, CreateFtsEffect, FillFtsEffect, AfterIs,
     FtsTables, Named, NotThere
     DEF KeptNow, KeptIn, KeptBy023, Before, There, Has, Mig, Step, Stays, Puts, Refills,
         FtsMigs
<1>11. CASE OpenStore \/ CheckIntegrity \/ Close \/ Stop
  BY <1>1, <1>11, EndsEffect, Ends, NoGap, NotThere
     DEF KeptNow, KeptIn, KeptBy023, Before, There, Has, Mig, Step, Stays
<1> QED
  BY <1>2, <1>3, <1>4, <1>5, <1>6, <1>7, <1>8, <1>9, <1>10, <1>11 DEF Next, Statement, Rebuild

LEMMA FactsNowStep ==
  ASSUME MigrationAssumption, Shaped, Next, start' = start, gaps' = {}, FactsNow
  PROVE  FactsNow' \/ FactsBy006'
<1>1. Sound /\ ScratchShapes /\ EntityShapes /\ OtherShapes
  BY DEF Shaped
<1>2. CASE Backup \/ CreateScratch
  BY <1>1, <1>2, BackupEffect, CreateEffect, TablesOf, Named, NotThere, PastsAre
     DEF FactsNow, FactsBy006, GroupsFor, OtherShapes, Before, There, Has, Mig, Step, Puts,
         Rebuilds, Table, NewShape
<1>3. CASE CopyRows \/ CheckScratch \/ ClearScratch \/ Recopy
  <2>1. CASE CopyRows /\ Mig = "004"
    BY <1>1, <2>1, CopiesAll, CopyEffect, Ends, TablesOf, Named, NotThere, PastsAre
       DEF FactsNow, FactsBy006, GroupsFor, OtherShapes, Before, There, Has, Mig, Step, Fails,
           Stays, Refills, Sound, ScratchThere
  <2>2. CASE CopyRows /\ Mig = "006f"
    <3>1. db["facts_new"].rows = {} /\ Has("facts", "group_ids")
      BY <1>1, <2>2, CopyEffect, NotThere, Named DEF FactsNow, OtherShapes, Past004
    <3>2. /\ db'["facts_new"].rows = start.facts /\ db'["facts_new"].there
          /\ db'["facts"] = db["facts"] /\ at' = <<"006f", "drop">>
      BY <1>1, <2>2, <3>1, CopiesAll, SelectsIs, TablesOf, Named DEF FactsNow, Has
    <3>3. ~Has("facts", "composite_fk")
      BY <1>1, <2>2, CopyEffect DEF OtherShapes
    <3> QED
      BY <3>2, <3>3 DEF FactsBy006, There, Has, Mig, Step
  <2>3. CASE CopyRows /\ Mig = "013"
    BY <1>1, <2>3, CopiesAll, CopyEffect, Ends, TablesOf, Named, NotThere, PastsAre
       DEF FactsNow, FactsBy006, GroupsFor, OtherShapes, Before, There, Has, Mig, Step, Fails,
           Stays, Refills, Sound, ScratchThere
  <2>4. CASE CopyRows /\ Mig = "023"
    BY <1>1, <2>4, CopiesAll, CopyEffect, Ends, TablesOf, Named, NotThere, PastsAre
       DEF FactsNow, FactsBy006, GroupsFor, OtherShapes, Before, There, Has, Mig, Step, Fails,
           Stays, Refills, Sound, ScratchThere
  <2>5. CASE CopyRows /\ Mig = "006e"
    BY <1>1, <2>5, CopyEffect, TablesOf, Named, NotThere, Ends, PastsAre
       DEF FactsNow, FactsBy006, GroupsFor, OtherShapes, Fails, Stays, Refills, There, Has, Mig,
           Step
  <2>6. CASE CheckScratch
    BY <1>1, <2>6, CheckEffect, Named, Ends, PastsAre
       DEF FactsNow, FactsBy006, GroupsFor, OtherShapes, Stays, There, Has, Mig, Step
  <2>7. CASE CheckScratch /\ Mig = "023"
    BY <1>1, <2>7, CheckEffect, Ends, TablesOf, Named, NotThere, PastsAre
       DEF FactsNow, FactsBy006, GroupsFor, OtherShapes, Before, There, Has, Mig, Step, Stays
  <2>8. CASE ClearScratch \/ Recopy
    BY <1>1, <2>8, ClearEffect, RecopyEffect, Ends, TablesOf, Named, NotThere, PastsAre
       DEF FactsNow, FactsBy006, GroupsFor, OtherShapes, Before, There, Has, Mig, Step, Stays,
           Fails, Refills
  <2> QED
    BY <1>1, CopyEffect, CheckEffect, <1>3, <2>1, <2>2, <2>3, <2>4, <2>5, <2>6, <2>7, <2>8
       DEF Rebuilds
<1>4. CASE DropLive \/ Discard013 \/ DropBak023
  BY <1>1, <1>4, DropEffect, DiscardEffect, DropBakEffect, TablesOf, Named, NotThere, PastsAre
     DEF FactsNow, FactsBy006, GroupsFor, OtherShapes, Before, There, Has, Mig, Step, Puts,
         Rebuilds, Absent
<1>5. CASE RenameScratch
  BY <1>1, <1>5, RenameEffect, TablesOf, Named, NotThere, PastsAre
     DEF FactsNow, FactsBy006, GroupsFor, OtherShapes, Before, There, Has, Mig, Step, Shifts,
         Rebuilds, Absent, NewShape
<1>6. CASE Gate004 \/ Gate006 \/ Gate013 \/ Gate023
  BY <1>1, <1>6, Gate004Effect, Gate006Effect, Gate013Effect, Gate023Effect, Named, NotThere,
     PastsAre
     DEF FactsNow, FactsBy006, GroupsFor, OtherShapes, Before, There, Has, Mig, Step, Stays
<1>7. CASE AddGroupIds \/ CheckForeignKeys \/ CreateTrigger \/ CreateVecIndex
  BY <1>1, <1>7, GroupEffect, ForeignEffect, TriggerEffect, VecIndexEffect, Named, Ends,
     NotThere, PastsAre
     DEF FactsNow, FactsBy006, GroupsFor, OtherShapes, Before, There, Has, Mig, Step, Stays,
         Alters
<1>8. CASE LegacyRename \/ PrefixDrop \/ RenameFts \/ BaseDdl
  <2>1. CASE LegacyRename
    BY <1>1, <2>1, LegacyEffect, TablesOf, Named, NotThere, PastsAre
       DEF FactsNow, FactsBy006, GroupsFor, OtherShapes, Before, There, Has, Mig, Step, Stays,
           Shifts, Absent
  <2>2. CASE PrefixDrop
    BY <1>1, <2>2, PrefixEffect, TablesOf, Named, NotThere, PastsAre
       DEF FactsNow, FactsBy006, GroupsFor, OtherShapes, Before, There, Has, Mig, Step, Stays,
           Shifts, Absent
  <2>3. CASE RenameFts
    BY <1>1, <2>3, RenameFtsEffect, TablesOf, Named, NotThere, PastsAre
       DEF FactsNow, FactsBy006, GroupsFor, OtherShapes, Before, There, Has, Mig, Step, Stays,
           Shifts, Absent
  <2>4. CASE BaseDdl
    BY <1>1, <2>4, BaseKeeps, Names, TablesOf, Named, NotThere, PastsAre
       DEF FactsNow, FactsBy006, GroupsFor, OtherShapes, Before, There, Has, Mig, Step,
           BaseTables
  <2> QED
    BY <1>8, <2>1, <2>2, <2>3, <2>4
<1>9. CASE GateColumn \/ AddColumn \/ Backfill \/ DropLabel \/ UniqueEdges
  BY <1>1, <1>9, GateColumnEffect, AddColumnEffect, BackfillEffect, DropLabelEffect,
     UniqueEffect, AfterIs, Ends, Named, NotThere, PastsAre
     DEF FactsNow, FactsBy006, GroupsFor, OtherShapes, Before, There, Has, Mig, Step, Stays,
         Alters, Fillers, Extended, Column
<1>10. CASE GateFts \/ DropFts \/ CreateFts \/ FillFts
  BY <1>1, <1>10, GateFtsEffect, DropFtsEffect, CreateFtsEffect, FillFtsEffect, AfterIs,
     FtsTables, Named, NotThere, PastsAre
     DEF FactsNow, FactsBy006, GroupsFor, OtherShapes, Before, There, Has, Mig, Step, Stays,
         Puts, Refills, FtsMigs
<1>11. CASE OpenStore \/ CheckIntegrity \/ Close \/ Stop
  BY <1>1, <1>11, EndsEffect, Ends, NoGap, NotThere, PastsAre
     DEF FactsNow, FactsBy006, GroupsFor, OtherShapes, Before, There, Has, Mig, Step, Stays
<1> QED
  BY <1>2, <1>3, <1>4, <1>5, <1>6, <1>7, <1>8, <1>9, <1>10, <1>11 DEF Next, Statement, Rebuild

LEMMA FactsBy006Step ==
  ASSUME MigrationAssumption, Shaped, Next, start' = start, gaps' = {}, FactsBy006
  PROVE  FactsNow' \/ FactsBy006'
<1>1. Sound /\ ScratchShapes /\ EntityShapes /\ OtherShapes
  BY DEF Shaped
<1>2. CASE Backup \/ CreateScratch
  BY <1>1, <1>2, BackupEffect, CreateEffect, TablesOf, Named, NotThere, PastsAre
     DEF FactsNow, FactsBy006, GroupsFor, OtherShapes, Before, There, Has, Mig, Step, Puts,
         Rebuilds, Table, NewShape
<1>3. CASE CopyRows \/ CheckScratch \/ ClearScratch \/ Recopy
  BY <1>1, <1>3, CopyEffect, CheckEffect, ClearEffect, RecopyEffect, TablesOf, Named, Ends,
     NotThere, PastsAre
     DEF FactsNow, FactsBy006, GroupsFor, OtherShapes, Before, There, Has, Mig, Step, Stays,
         Fails, Refills, Rebuilds
<1>4. CASE DropLive \/ Discard013 \/ DropBak023
  BY <1>1, <1>4, DropEffect, DiscardEffect, DropBakEffect, TablesOf, Named, NotThere, PastsAre
     DEF FactsNow, FactsBy006, GroupsFor, OtherShapes, Before, There, Has, Mig, Step, Puts,
         Rebuilds, Absent
<1>5. CASE RenameScratch
  <2>1. CASE RenameScratch /\ Mig = "004"
    BY <1>1, <2>1, RenameEffect, TablesOf, Named, NotThere, PastsAre
       DEF FactsNow, FactsBy006, GroupsFor, OtherShapes, Before, There, Has, Mig, Step, Shifts,
           Absent, NewShape, ScratchShapes, Sound, ScratchThere, OldName
  <2>2. CASE RenameScratch /\ Mig = "006f"
    BY <1>1, <2>2, RenameEffect, TablesOf, Named, NotThere, PastsAre
       DEF FactsNow, FactsBy006, GroupsFor, OtherShapes, Before, There, Has, Mig, Step, Shifts,
           Absent, NewShape, ScratchShapes, Sound, ScratchThere, OldName
  <2>3. CASE RenameScratch /\ Mig = "006e"
    BY <1>1, <2>3, RenameEffect, TablesOf, Named, NotThere, PastsAre
       DEF FactsNow, FactsBy006, GroupsFor, OtherShapes, Before, There, Has, Mig, Step, Shifts,
           Absent, NewShape, ScratchShapes, Sound, ScratchThere, OldName
  <2>4. CASE RenameScratch /\ Mig = "013"
    BY <1>1, <2>4, RenameEffect, TablesOf, Named, NotThere, PastsAre
       DEF FactsNow, FactsBy006, GroupsFor, OtherShapes, Before, There, Has, Mig, Step, Shifts,
           Absent, NewShape, ScratchShapes, Sound, ScratchThere, OldName
  <2>5. CASE RenameScratch /\ Mig = "023"
    BY <1>1, <2>5, RenameEffect, TablesOf, Named, NotThere, PastsAre
       DEF FactsNow, FactsBy006, GroupsFor, OtherShapes, Before, There, Has, Mig, Step, Shifts,
           Absent, NewShape, ScratchShapes, Sound, ScratchThere, OldName
  <2> QED
    BY <1>1, RenameEffect, <1>5, <2>1, <2>2, <2>3, <2>4, <2>5 DEF Rebuilds
<1>6. CASE Gate004 \/ Gate006 \/ Gate013 \/ Gate023
  BY <1>1, <1>6, Gate004Effect, Gate006Effect, Gate013Effect, Gate023Effect, Named, NotThere,
     PastsAre
     DEF FactsNow, FactsBy006, GroupsFor, OtherShapes, Before, There, Has, Mig, Step, Stays
<1>7. CASE AddGroupIds \/ CheckForeignKeys \/ CreateTrigger \/ CreateVecIndex
  BY <1>1, <1>7, GroupEffect, ForeignEffect, TriggerEffect, VecIndexEffect, Named, Ends,
     NotThere, PastsAre
     DEF FactsNow, FactsBy006, GroupsFor, OtherShapes, Before, There, Has, Mig, Step, Stays,
         Alters
<1>8. CASE LegacyRename \/ PrefixDrop \/ RenameFts \/ BaseDdl
  <2>1. CASE LegacyRename
    BY <1>1, <2>1, LegacyEffect, TablesOf, Named, NotThere, PastsAre
       DEF FactsNow, FactsBy006, GroupsFor, OtherShapes, Before, There, Has, Mig, Step, Stays,
           Shifts, Absent
  <2>2. CASE PrefixDrop
    BY <1>1, <2>2, PrefixEffect, TablesOf, Named, NotThere, PastsAre
       DEF FactsNow, FactsBy006, GroupsFor, OtherShapes, Before, There, Has, Mig, Step, Stays,
           Shifts, Absent
  <2>3. CASE RenameFts
    BY <1>1, <2>3, RenameFtsEffect, TablesOf, Named, NotThere, PastsAre
       DEF FactsNow, FactsBy006, GroupsFor, OtherShapes, Before, There, Has, Mig, Step, Stays,
           Shifts, Absent
  <2>4. CASE BaseDdl
    BY <1>1, <2>4, BaseKeeps, Names, TablesOf, Named, NotThere, PastsAre
       DEF FactsNow, FactsBy006, GroupsFor, OtherShapes, Before, There, Has, Mig, Step,
           BaseTables
  <2> QED
    BY <1>8, <2>1, <2>2, <2>3, <2>4
<1>9. CASE GateColumn \/ AddColumn \/ Backfill \/ DropLabel \/ UniqueEdges
  BY <1>1, <1>9, GateColumnEffect, AddColumnEffect, BackfillEffect, DropLabelEffect,
     UniqueEffect, AfterIs, Ends, Named, NotThere, PastsAre
     DEF FactsNow, FactsBy006, GroupsFor, OtherShapes, Before, There, Has, Mig, Step, Stays,
         Alters, Fillers, Extended, Column
<1>10. CASE GateFts \/ DropFts \/ CreateFts \/ FillFts
  BY <1>1, <1>10, GateFtsEffect, DropFtsEffect, CreateFtsEffect, FillFtsEffect, AfterIs,
     FtsTables, Named, NotThere, PastsAre
     DEF FactsNow, FactsBy006, GroupsFor, OtherShapes, Before, There, Has, Mig, Step, Stays,
         Puts, Refills, FtsMigs
<1>11. CASE OpenStore \/ CheckIntegrity \/ Close \/ Stop
  BY <1>1, <1>11, EndsEffect, Ends, NoGap, NotThere, PastsAre
     DEF FactsNow, FactsBy006, GroupsFor, OtherShapes, Before, There, Has, Mig, Step, Stays
<1> QED
  BY <1>2, <1>3, <1>4, <1>5, <1>6, <1>7, <1>8, <1>9, <1>10, <1>11 DEF Next, Statement, Rebuild

LEMMA EdgesNowStep ==
  ASSUME MigrationAssumption, Shaped, Next, start' = start, gaps' = {}, EdgesNow
  PROVE  EdgesNow' \/ EdgesBy006'
<1>1. Sound /\ ScratchShapes /\ EntityShapes /\ OtherShapes
  BY DEF Shaped
<1>2. CASE Backup \/ CreateScratch
  <2>1. CASE Backup /\ Mig = "004"
    BY <1>1, <2>1, BackupEffect, TablesOf, Named, NotThere, PastsAre
       DEF EdgesNow, EdgesBy006, OtherShapes, Before, There, Has, Mig, Step, ScratchShapes,
           Sound, Standing, Early, Puts
  <2>2. CASE Backup /\ Mig \in {"006f", "006e", "008"}
    <3>1. CASE Mig = "006e"
      <4>1. There("episodic_edges") /\ Has("facts", "composite_fk")
        BY <1>1, <2>2, <3>1, BackupEffect DEF Sound, Standing, Early, Swapping, OtherShapes
      <4>2. /\ db'["episodic_edges_bak_006"] = db["episodic_edges"]
            /\ \A u \in Tables \ {"episodic_edges_bak_006"} : db'[u] = db[u]
            /\ at' = <<"006e", "create">>
        BY <1>1, <2>2, <3>1, BackupEffect, TablesOf DEF EdgesNow, Puts
      <4> QED
        BY <4>1, <4>2, Named DEF EdgesNow, There, Has, Mig, Step
    <3>2. CASE Mig \in {"006f", "008"}
      BY <1>1, <2>2, <3>2, BackupEffect, TablesOf, Named
         DEF EdgesNow, Puts, There, Has, Mig, Step
    <3> QED
      BY <2>2, <3>1, <3>2
  <2>3. CASE Backup /\ Mig = "023"
    BY <1>1, <2>3, BackupEffect, TablesOf, Named, NotThere, PastsAre
       DEF EdgesNow, EdgesBy006, OtherShapes, Before, There, Has, Mig, Step, ScratchShapes,
           Sound, Standing, Early, Puts
  <2>4. CASE CreateScratch /\ Mig = "004"
    BY <1>1, <2>4, CreateEffect, TablesOf, Named, NotThere, PastsAre
       DEF EdgesNow, EdgesBy006, OtherShapes, Before, There, Has, Mig, Step, ScratchShapes,
           Sound, Standing, Early, Puts, Table, NewShape
  <2>5. CASE CreateScratch /\ Mig \in {"006f", "006e"}
    BY <1>1, <2>5, CreateEffect, TablesOf, Named, NotThere, PastsAre
       DEF EdgesNow, EdgesBy006, OtherShapes, Before, There, Has, Mig, Step, ScratchShapes,
           Sound, Standing, Early, Puts, Table, NewShape
  <2>6. CASE CreateScratch /\ Mig = "013"
    BY <1>1, <2>6, CreateEffect, TablesOf, Named, NotThere, PastsAre
       DEF EdgesNow, EdgesBy006, OtherShapes, Before, There, Has, Mig, Step, ScratchShapes,
           Sound, Standing, Early, Puts, Table, NewShape
  <2>7. CASE CreateScratch /\ Mig = "023"
    BY <1>1, <2>7, CreateEffect, TablesOf, Named, NotThere, PastsAre
       DEF EdgesNow, EdgesBy006, OtherShapes, Before, There, Has, Mig, Step, ScratchShapes,
           Sound, Standing, Early, Puts, Table, NewShape
  <2> QED
    BY <1>1, BackupEffect, CreateEffect, <1>2, <2>1, <2>2, <2>3, <2>4, <2>5, <2>6, <2>7
       DEF Rebuilds
<1>3. CASE CopyRows \/ CheckScratch \/ ClearScratch \/ Recopy
  <2>1. CASE CopyRows /\ Mig = "004"
    BY <1>1, <2>1, CopiesAll, CopyEffect, Ends, TablesOf, Named, NotThere, PastsAre
       DEF EdgesNow, EdgesBy006, OtherShapes, Before, There, Has, Mig, Step, ScratchShapes,
           Sound, Standing, Early, Fails, Stays, Refills, ScratchThere
  <2>2. CASE CopyRows /\ Mig \in {"006f", "006e"}
    BY <1>1, <2>2, CopiesAll, CopyEffect, Ends, TablesOf, Named, NotThere, PastsAre
       DEF EdgesNow, EdgesBy006, OtherShapes, Before, There, Has, Mig, Step, ScratchShapes,
           Sound, Standing, Early, Fails, Stays, Refills, ScratchThere
  <2>3. CASE CopyRows /\ Mig = "013"
    BY <1>1, <2>3, CopiesAll, CopyEffect, Ends, TablesOf, Named, NotThere, PastsAre
       DEF EdgesNow, EdgesBy006, OtherShapes, Before, There, Has, Mig, Step, ScratchShapes,
           Sound, Standing, Early, Fails, Stays, Refills, ScratchThere
  <2>4. CASE CopyRows /\ Mig = "023"
    BY <1>1, <2>4, CopiesAll, CopyEffect, Ends, TablesOf, Named, NotThere, PastsAre
       DEF EdgesNow, EdgesBy006, OtherShapes, Before, There, Has, Mig, Step, ScratchShapes,
           Sound, Standing, Early, Fails, Stays, Refills, ScratchThere
  <2>5. CASE CheckScratch /\ Mig = "004"
    BY <1>1, <2>5, CheckEffect, Ends, TablesOf, Named, NotThere, PastsAre
       DEF EdgesNow, EdgesBy006, OtherShapes, Before, There, Has, Mig, Step, ScratchShapes,
           Sound, Standing, Early, Stays
  <2>6. CASE CheckScratch /\ Mig = "006e"
    BY <1>1, <2>6, CheckEffect, Ends, TablesOf, Named, NotThere, PastsAre
       DEF EdgesNow, EdgesBy006, OtherShapes, Before, There, Has, Mig, Step, ScratchShapes,
           Sound, Standing, Early, Stays
  <2>7. CASE CheckScratch /\ Mig = "023"
    BY <1>1, <2>7, CheckEffect, Ends, TablesOf, Named, NotThere, PastsAre
       DEF EdgesNow, EdgesBy006, OtherShapes, Before, There, Has, Mig, Step, ScratchShapes,
           Sound, Standing, Early, Stays
  <2>8. CASE ClearScratch \/ Recopy
    BY <1>1, <2>8, ClearEffect, RecopyEffect, Ends, TablesOf, Named, NotThere, PastsAre
       DEF EdgesNow, EdgesBy006, OtherShapes, Before, There, Has, Mig, Step, ScratchShapes,
           Sound, Standing, Early, Stays, Fails, Refills
  <2> QED
    BY <1>1, CopyEffect, CheckEffect, <1>3, <2>1, <2>2, <2>3, <2>4, <2>5, <2>6, <2>7, <2>8
       DEF Rebuilds
<1>4. CASE DropLive \/ Discard013 \/ DropBak023
  BY <1>1, <1>4, DropEffect, DiscardEffect, DropBakEffect, TablesOf, Named, NotThere, PastsAre
     DEF EdgesNow, EdgesBy006, OtherShapes, Before, There, Has, Mig, Step, Puts, Rebuilds,
         Absent
<1>5. CASE RenameScratch
  <2>1. CASE RenameScratch /\ Mig = "004"
    BY <1>1, <2>1, RenameEffect, TablesOf, Named, NotThere, PastsAre
       DEF EdgesNow, EdgesBy006, OtherShapes, Before, There, Has, Mig, Step, ScratchShapes,
           Sound, Standing, Early, Shifts, Absent, NewShape, ScratchThere, OldName
  <2>2. CASE RenameScratch /\ Mig = "006f"
    BY <1>1, <2>2, RenameEffect, TablesOf, Named, NotThere, PastsAre
       DEF EdgesNow, EdgesBy006, OtherShapes, Before, There, Has, Mig, Step, ScratchShapes,
           Sound, Standing, Early, Shifts, Absent, NewShape, ScratchThere, OldName
  <2>3. CASE RenameScratch /\ Mig = "006e"
    BY <1>1, <2>3, RenameEffect, TablesOf, Named, NotThere, PastsAre
       DEF EdgesNow, EdgesBy006, OtherShapes, Before, There, Has, Mig, Step, ScratchShapes,
           Sound, Standing, Early, Shifts, Absent, NewShape, ScratchThere, OldName
  <2>4. CASE RenameScratch /\ Mig = "013"
    BY <1>1, <2>4, RenameEffect, TablesOf, Named, NotThere, PastsAre
       DEF EdgesNow, EdgesBy006, OtherShapes, Before, There, Has, Mig, Step, ScratchShapes,
           Sound, Standing, Early, Shifts, Absent, NewShape, ScratchThere, OldName
  <2>5. CASE RenameScratch /\ Mig = "023"
    BY <1>1, <2>5, RenameEffect, TablesOf, Named, NotThere, PastsAre
       DEF EdgesNow, EdgesBy006, OtherShapes, Before, There, Has, Mig, Step, ScratchShapes,
           Sound, Standing, Early, Shifts, Absent, NewShape, ScratchThere, OldName
  <2> QED
    BY <1>1, RenameEffect, <1>5, <2>1, <2>2, <2>3, <2>4, <2>5 DEF Rebuilds
<1>6. CASE Gate004 \/ Gate006 \/ Gate013 \/ Gate023
  <2>1. CASE Gate006
    BY <1>1, <2>1, Gate006Effect, Named DEF EdgesNow, There, Has, Mig, Step
  <2>2. CASE Gate004 \/ Gate013 \/ Gate023
    BY <1>1, <2>2, Gate004Effect, Gate013Effect, Gate023Effect, Named
       DEF EdgesNow, Stays, There, Has, Mig, Step
  <2> QED
    BY <1>6, <2>1, <2>2
<1>7. CASE AddGroupIds \/ CheckForeignKeys \/ CreateTrigger \/ CreateVecIndex
  BY <1>1, <1>7, GroupEffect, ForeignEffect, TriggerEffect, VecIndexEffect, Named, Ends,
     NotThere, PastsAre
     DEF EdgesNow, EdgesBy006, OtherShapes, Before, There, Has, Mig, Step, Stays, Alters
<1>8. CASE LegacyRename \/ PrefixDrop \/ RenameFts \/ BaseDdl
  <2>1. CASE LegacyRename
    BY <1>1, <2>1, LegacyEffect, TablesOf, Named, NotThere, PastsAre
       DEF EdgesNow, EdgesBy006, OtherShapes, Before, There, Has, Mig, Step, Stays, Shifts,
           Absent
  <2>2. CASE PrefixDrop
    BY <1>1, <2>2, PrefixEffect, TablesOf, Named, NotThere, PastsAre
       DEF EdgesNow, EdgesBy006, OtherShapes, Before, There, Has, Mig, Step, Stays, Shifts,
           Absent
  <2>3. CASE RenameFts
    BY <1>1, <2>3, RenameFtsEffect, TablesOf, Named, NotThere, PastsAre
       DEF EdgesNow, EdgesBy006, OtherShapes, Before, There, Has, Mig, Step, Stays, Shifts,
           Absent
  <2>4. CASE BaseDdl
    BY <1>1, <2>4, BaseKeeps, Names, TablesOf, Named, NotThere, PastsAre
       DEF EdgesNow, EdgesBy006, OtherShapes, Before, There, Has, Mig, Step, BaseTables
  <2> QED
    BY <1>8, <2>1, <2>2, <2>3, <2>4
<1>9. CASE GateColumn \/ AddColumn \/ Backfill \/ DropLabel \/ UniqueEdges
  BY <1>1, <1>9, GateColumnEffect, AddColumnEffect, BackfillEffect, DropLabelEffect,
     UniqueEffect, AfterIs, Ends, Named, NotThere, PastsAre
     DEF EdgesNow, EdgesBy006, OtherShapes, Before, There, Has, Mig, Step, Stays, Alters,
         Fillers, Extended, Column
<1>10. CASE GateFts \/ DropFts \/ CreateFts \/ FillFts
  BY <1>1, <1>10, GateFtsEffect, DropFtsEffect, CreateFtsEffect, FillFtsEffect, AfterIs,
     FtsTables, Named, NotThere, PastsAre
     DEF EdgesNow, EdgesBy006, OtherShapes, Before, There, Has, Mig, Step, Stays, Puts, Refills,
         FtsMigs
<1>11. CASE OpenStore \/ CheckIntegrity \/ Close \/ Stop
  BY <1>1, <1>11, EndsEffect, Ends, NoGap, NotThere, PastsAre
     DEF EdgesNow, EdgesBy006, OtherShapes, Before, There, Has, Mig, Step, Stays
<1> QED
  BY <1>2, <1>3, <1>4, <1>5, <1>6, <1>7, <1>8, <1>9, <1>10, <1>11 DEF Next, Statement, Rebuild

LEMMA EdgesBy006Step ==
  ASSUME MigrationAssumption, Shaped, Next, start' = start, gaps' = {}, EdgesBy006
  PROVE  EdgesNow' \/ EdgesBy006'
<1>1. Sound /\ ScratchShapes /\ EntityShapes /\ OtherShapes
  BY DEF Shaped
<1>2. CASE Backup \/ CreateScratch
  BY <1>1, <1>2, BackupEffect, CreateEffect, TablesOf, Named, NotThere, PastsAre
     DEF EdgesNow, EdgesBy006, OtherShapes, Before, There, Has, Mig, Step, Puts, Rebuilds,
         Table, NewShape
<1>3. CASE CopyRows \/ CheckScratch \/ ClearScratch \/ Recopy
  <2>1. CASE CopyRows /\ Mig = "004"
    BY <1>1, <2>1, CopiesAll, CopyEffect, Ends, TablesOf, Named, NotThere, PastsAre
       DEF EdgesNow, EdgesBy006, OtherShapes, Before, There, Has, Mig, Step, Fails, Stays,
           Refills, Sound, ScratchThere
  <2>2. CASE CopyRows /\ Mig \in {"006f", "006e"}
    BY <1>1, <2>2, CopiesAll, CopyEffect, Ends, TablesOf, Named, NotThere, PastsAre
       DEF EdgesNow, EdgesBy006, OtherShapes, Before, There, Has, Mig, Step, Fails, Stays,
           Refills, Sound, ScratchThere
  <2>3. CASE CopyRows /\ Mig = "013"
    BY <1>1, <2>3, CopiesAll, CopyEffect, Ends, TablesOf, Named, NotThere, PastsAre
       DEF EdgesNow, EdgesBy006, OtherShapes, Before, There, Has, Mig, Step, Fails, Stays,
           Refills, Sound, ScratchThere
  <2>4. CASE CopyRows /\ Mig = "023"
    BY <1>1, <2>4, CopiesAll, CopyEffect, Ends, TablesOf, Named, NotThere, PastsAre
       DEF EdgesNow, EdgesBy006, OtherShapes, Before, There, Has, Mig, Step, Fails, Stays,
           Refills, Sound, ScratchThere
  <2>5. CASE CheckScratch /\ Mig = "004"
    BY <1>1, <2>5, CheckEffect, Ends, TablesOf, Named, NotThere, PastsAre
       DEF EdgesNow, EdgesBy006, OtherShapes, Before, There, Has, Mig, Step, Stays
  <2>6. CASE CheckScratch /\ Mig = "006e"
    <3>1. db' = db /\ at' \in {<<"006e", "drop">>, <<"006e", "clear">>}
      BY <1>1, <2>6, CheckEffect, TablesOf DEF EdgesBy006, Stays
    <3>2. Complete("006e") <=> at' = <<"006e", "drop">>
      BY <1>1, <2>6, CheckEffect, TablesOf DEF EdgesBy006
    <3>3. Complete("006e") => db["episodic_edges_new"].rows = start.edges
      BY <1>1, NoLonger DEF EdgesBy006
    <3> QED
      BY <1>1, <2>6, <3>1, <3>2, <3>3 DEF EdgesBy006, There, Has, Mig, Step
  <2>7. CASE CheckScratch /\ Mig = "023"
    BY <1>1, <2>7, CheckEffect, Ends, TablesOf, Named, NotThere, PastsAre
       DEF EdgesNow, EdgesBy006, OtherShapes, Before, There, Has, Mig, Step, Stays
  <2>8. CASE ClearScratch \/ Recopy
    BY <1>1, <2>8, ClearEffect, RecopyEffect, Ends, TablesOf, Named, NotThere, PastsAre
       DEF EdgesNow, EdgesBy006, OtherShapes, Before, There, Has, Mig, Step, Stays, Fails,
           Refills
  <2> QED
    BY <1>1, CopyEffect, CheckEffect, <1>3, <2>1, <2>2, <2>3, <2>4, <2>5, <2>6, <2>7, <2>8
       DEF Rebuilds
<1>4. CASE DropLive \/ Discard013 \/ DropBak023
  BY <1>1, <1>4, DropEffect, DiscardEffect, DropBakEffect, TablesOf, Named, NotThere, PastsAre
     DEF EdgesNow, EdgesBy006, OtherShapes, Before, There, Has, Mig, Step, Puts, Rebuilds,
         Absent
<1>5. CASE RenameScratch
  <2>1. CASE RenameScratch /\ Mig = "004"
    BY <1>1, <2>1, RenameEffect, TablesOf, Named, NotThere, PastsAre
       DEF EdgesNow, EdgesBy006, OtherShapes, Before, There, Has, Mig, Step, Shifts, Absent,
           NewShape, ScratchShapes, Sound, ScratchThere, OldName
  <2>2. CASE RenameScratch /\ Mig = "006f"
    BY <1>1, <2>2, RenameEffect, TablesOf, Named, NotThere, PastsAre
       DEF EdgesNow, EdgesBy006, OtherShapes, Before, There, Has, Mig, Step, Shifts, Absent,
           NewShape, ScratchShapes, Sound, ScratchThere, OldName
  <2>3. CASE RenameScratch /\ Mig = "006e"
    BY <1>1, <2>3, RenameEffect, TablesOf, Named, NotThere, PastsAre
       DEF EdgesNow, EdgesBy006, OtherShapes, Before, There, Has, Mig, Step, Shifts, Absent,
           NewShape, ScratchShapes, Sound, ScratchThere, OldName
  <2>4. CASE RenameScratch /\ Mig = "013"
    BY <1>1, <2>4, RenameEffect, TablesOf, Named, NotThere, PastsAre
       DEF EdgesNow, EdgesBy006, OtherShapes, Before, There, Has, Mig, Step, Shifts, Absent,
           NewShape, ScratchShapes, Sound, ScratchThere, OldName
  <2>5. CASE RenameScratch /\ Mig = "023"
    BY <1>1, <2>5, RenameEffect, TablesOf, Named, NotThere, PastsAre
       DEF EdgesNow, EdgesBy006, OtherShapes, Before, There, Has, Mig, Step, Shifts, Absent,
           NewShape, ScratchShapes, Sound, ScratchThere, OldName
  <2> QED
    BY <1>1, RenameEffect, <1>5, <2>1, <2>2, <2>3, <2>4, <2>5 DEF Rebuilds
<1>6. CASE Gate004 \/ Gate006 \/ Gate013 \/ Gate023
  <2>1. CASE Gate006
    BY <1>1, <2>1, Gate006Effect, Named DEF EdgesBy006, There, Has, Mig, Step
  <2>2. CASE Gate004 \/ Gate013 \/ Gate023
    BY <1>1, <2>2, Gate004Effect, Gate013Effect, Gate023Effect, Named
       DEF EdgesBy006, Stays, There, Has, Mig, Step
  <2> QED
    BY <1>6, <2>1, <2>2
<1>7. CASE AddGroupIds \/ CheckForeignKeys \/ CreateTrigger \/ CreateVecIndex
  BY <1>1, <1>7, GroupEffect, ForeignEffect, TriggerEffect, VecIndexEffect, Named, Ends,
     NotThere, PastsAre
     DEF EdgesNow, EdgesBy006, OtherShapes, Before, There, Has, Mig, Step, Stays, Alters
<1>8. CASE LegacyRename \/ PrefixDrop \/ RenameFts \/ BaseDdl
  <2>1. CASE LegacyRename
    BY <1>1, <2>1, LegacyEffect, TablesOf, Named, NotThere, PastsAre
       DEF EdgesNow, EdgesBy006, OtherShapes, Before, There, Has, Mig, Step, Stays, Shifts,
           Absent
  <2>2. CASE PrefixDrop
    BY <1>1, <2>2, PrefixEffect, TablesOf, Named, NotThere, PastsAre
       DEF EdgesNow, EdgesBy006, OtherShapes, Before, There, Has, Mig, Step, Stays, Shifts,
           Absent
  <2>3. CASE RenameFts
    BY <1>1, <2>3, RenameFtsEffect, TablesOf, Named, NotThere, PastsAre
       DEF EdgesNow, EdgesBy006, OtherShapes, Before, There, Has, Mig, Step, Stays, Shifts,
           Absent
  <2>4. CASE BaseDdl
    BY <1>1, <2>4, BaseKeeps, Names, TablesOf, Named, NotThere, PastsAre
       DEF EdgesNow, EdgesBy006, OtherShapes, Before, There, Has, Mig, Step, BaseTables
  <2> QED
    BY <1>8, <2>1, <2>2, <2>3, <2>4
<1>9. CASE GateColumn \/ AddColumn \/ Backfill \/ DropLabel \/ UniqueEdges
  BY <1>1, <1>9, GateColumnEffect, AddColumnEffect, BackfillEffect, DropLabelEffect,
     UniqueEffect, AfterIs, Ends, Named, NotThere, PastsAre
     DEF EdgesNow, EdgesBy006, OtherShapes, Before, There, Has, Mig, Step, Stays, Alters,
         Fillers, Extended, Column
<1>10. CASE GateFts \/ DropFts \/ CreateFts \/ FillFts
  BY <1>1, <1>10, GateFtsEffect, DropFtsEffect, CreateFtsEffect, FillFtsEffect, AfterIs,
     FtsTables, Named, NotThere, PastsAre
     DEF EdgesNow, EdgesBy006, OtherShapes, Before, There, Has, Mig, Step, Stays, Puts, Refills,
         FtsMigs
<1>11. CASE OpenStore \/ CheckIntegrity \/ Close \/ Stop
  BY <1>1, <1>11, EndsEffect, Ends, NoGap, NotThere, PastsAre
     DEF EdgesNow, EdgesBy006, OtherShapes, Before, There, Has, Mig, Step, Stays
<1> QED
  BY <1>2, <1>3, <1>4, <1>5, <1>6, <1>7, <1>8, <1>9, <1>10, <1>11 DEF Next, Statement, Rebuild

LEMMA FtsKeptStep ==
  ASSUME MigrationAssumption, Shaped, Next, start' = start, gaps' = {},
         KeptNow \/ Mig # "027e", FactsNow \/ Mig \notin {"006t", "027f"}, FtsKept
  PROVE  FtsKept'
<1>1. Sound /\ ScratchShapes /\ EntityShapes /\ OtherShapes
  BY DEF Shaped
<1>2. CASE Backup \/ CreateScratch
  BY <1>1, <1>2, BackupEffect, CreateEffect, TablesOf, Named, NotThere
     DEF FtsKept, Before, There, Has, Mig, Step, Puts, Rebuilds, Table, NewShape
<1>3. CASE CopyRows \/ CheckScratch \/ ClearScratch \/ Recopy
  BY <1>1, <1>3, CopyEffect, CheckEffect, ClearEffect, RecopyEffect, TablesOf, Named, Ends,
     NotThere DEF FtsKept, Before, There, Has, Mig, Step, Stays, Fails, Refills, Rebuilds
<1>4. CASE DropLive \/ Discard013 \/ DropBak023
  BY <1>1, <1>4, DropEffect, DiscardEffect, DropBakEffect, TablesOf, Named, NotThere
     DEF FtsKept, Before, There, Has, Mig, Step, Puts, Rebuilds, Absent
<1>5. CASE RenameScratch
  BY <1>1, <1>5, RenameEffect, TablesOf, Named, NotThere
     DEF FtsKept, Before, There, Has, Mig, Step, Shifts, Rebuilds, Absent, NewShape
<1>6. CASE Gate004 \/ Gate006 \/ Gate013 \/ Gate023
  BY <1>1, <1>6, Gate004Effect, Gate006Effect, Gate013Effect, Gate023Effect, Named, NotThere
     DEF FtsKept, Before, There, Has, Mig, Step, Stays
<1>7. CASE AddGroupIds \/ CheckForeignKeys \/ CreateTrigger \/ CreateVecIndex
  BY <1>1, <1>7, GroupEffect, ForeignEffect, TriggerEffect, VecIndexEffect, Named, Ends,
     NotThere DEF FtsKept, Before, There, Has, Mig, Step, Stays, Alters
<1>8. CASE LegacyRename \/ PrefixDrop \/ RenameFts \/ BaseDdl
  <2>1. CASE LegacyRename
    BY <1>1, <2>1, LegacyEffect, TablesOf, Named, NotThere
       DEF FtsKept, Before, There, Has, Mig, Step, Stays, Shifts, Absent
  <2>2. CASE PrefixDrop
    BY <1>1, <2>2, PrefixEffect, TablesOf, Named, NotThere
       DEF FtsKept, Before, There, Has, Mig, Step, Stays, Shifts, Absent
  <2>3. CASE RenameFts
    BY <1>1, <2>3, RenameFtsEffect, TablesOf, Named, NotThere
       DEF FtsKept, Before, There, Has, Mig, Step, Stays, Shifts, Absent
  <2>4. CASE BaseDdl
    BY <1>1, <2>4, BaseKeeps, Names, TablesOf, Named, NotThere
       DEF FtsKept, Before, There, Has, Mig, Step, BaseTables
  <2> QED
    BY <1>8, <2>1, <2>2, <2>3, <2>4
<1>9. CASE GateColumn \/ AddColumn \/ Backfill \/ DropLabel \/ UniqueEdges
  BY <1>1, <1>9, GateColumnEffect, AddColumnEffect, BackfillEffect, DropLabelEffect,
     UniqueEffect, AfterIs, Ends, Named, NotThere
     DEF FtsKept, Before, There, Has, Mig, Step, Stays, Alters, Fillers, Extended, Column
<1>10. CASE GateFts \/ DropFts \/ CreateFts \/ FillFts
  <2>1. CASE GateFts
    BY <1>1, <2>1, GateFtsEffect, AfterIs DEF FtsKept, Stays, Has, Mig, Step
  <2>2. CASE DropFts
    BY <1>1, <2>2, DropFtsEffect, FtsTables, Named
       DEF FtsKept, Puts, Has, Mig, Step, FtsMigs, Absent
  <2>3. CASE CreateFts
    <3>1. Mig \in FtsMigs /\ Mig' = Mig /\ Step' = "fill_fts" /\ Step = "create_fts"
      BY <1>1, <2>3, CreateFtsEffect DEF Mig, Step
    <3>2. /\ db'[Fts(Mig)].rows = {}
          /\ Mig = "006t" => db'[Fts(Mig)].has = {}
          /\ \A u \in Tables \ {Fts(Mig)} : db'[u] = db[u]
      BY <1>1, <2>3, CreateFtsEffect DEF Puts, Table
    <3> QED
      BY <1>1, <3>1, <3>2, FtsTables, Named DEF FtsKept, Has, FtsMigs
  <2>4. CASE FillFts /\ Mig = "006t"
    <3>1. /\ db'["facts_fts"].has = db["facts_fts"].has /\ Mig' = "006e"
          /\ db'["facts_fts"].rows = db["facts_fts"].rows \cup db["facts"].rows
          /\ \A u \in Tables \ {"facts_fts"} : db'[u] = db[u]
      BY <1>1, <2>4, FillFtsEffect, FtsTables DEF Refills, Mig
    <3>2. Has("facts_fts", "porter") => db'["facts_fts"].rows = start.facts
      BY <2>4, <3>1 DEF FtsKept, FactsNow
    <3> QED
      BY <1>1, <2>4, <3>1, <3>2, Named DEF FtsKept, Has
  <2>5. CASE FillFts /\ Mig = "027e"
    <3>1. /\ db'["entities_fts"].rows = db["entities_fts"].rows \cup db["entities"].rows
          /\ \A u \in Tables \ {"entities_fts"} : db'[u] = db[u]
          /\ Mig' = "027f" /\ Step' = "gate" /\ Step = "fill_fts"
      BY <1>1, <2>5, FillFtsEffect, FtsTables, AfterIs DEF Refills, Mig, Step
    <3>2. db["entities_fts"].rows = {} /\ db["entities"].rows = start.entities
      BY <1>1, <2>5, <3>1 DEF FtsKept, OtherShapes, KeptNow, KeptIn
    <3>3. db'["entities_fts"].rows = start.entities
      BY <3>1, <3>2
    <3> QED
      BY <1>1, <2>5, <3>1, <3>3, Named DEF FtsKept, Has
  <2>6. CASE FillFts /\ Mig = "027f"
    <3>1. /\ db'["facts_fts"].rows = db["facts_fts"].rows \cup db["facts"].rows
          /\ \A u \in Tables \ {"facts_fts"} : db'[u] = db[u]
          /\ Mig' = "check" /\ Step' = "gate" /\ Step = "fill_fts"
      BY <1>1, <2>6, FillFtsEffect, FtsTables, AfterIs DEF Refills, Mig, Step
    <3>2. db["facts_fts"].rows = {} /\ db["facts"].rows = start.facts
      BY <1>1, <2>6, <3>1 DEF FtsKept, OtherShapes, FactsNow
    <3>3. db'["facts_fts"].rows = start.facts
      BY <3>1, <3>2
    <3> QED
      BY <1>1, <2>6, <3>1, <3>3, Named DEF FtsKept, Has
  <2> QED
    BY <1>1, <1>10, <2>1, <2>2, <2>3, <2>4, <2>5, <2>6, FillFtsEffect DEF FtsMigs
<1>11. CASE OpenStore \/ CheckIntegrity \/ Close \/ Stop
  BY <1>1, <1>11, EndsEffect, Ends, NoGap, NotThere
     DEF FtsKept, Before, There, Has, Mig, Step, Stays
<1> QED
  BY <1>2, <1>3, <1>4, <1>5, <1>6, <1>7, <1>8, <1>9, <1>10, <1>11 DEF Next, Statement, Rebuild

LEMMA ColumnsKeptStep ==
  ASSUME MigrationAssumption, Shaped, Next, start' = start, gaps' = {},
         filled \subseteq filled', ColumnsKept
  PROVE  ColumnsKept'
<1>1. Sound /\ ScratchShapes /\ EntityShapes /\ OtherShapes
  BY DEF Shaped
<1>2. CASE Backup \/ CreateScratch
  <2>1. CASE Backup /\ Mig = "004"
    BY <1>1, <2>1, BackupEffect, TablesOf, Named, NotThere
       DEF ColumnsKept, Before, There, Has, Mig, Step, Puts, Sound, Standing, Early
  <2>2. CASE Backup /\ Mig \in {"006f", "006e", "008"}
    BY <1>1, <2>2, BackupEffect, TablesOf, Named, NotThere
       DEF ColumnsKept, Before, There, Has, Mig, Step, Puts, Sound, Standing, Early
  <2>3. CASE Backup /\ Mig = "023"
    BY <1>1, <2>3, BackupEffect, TablesOf, Named, NotThere
       DEF ColumnsKept, Before, There, Has, Mig, Step, Puts, Sound, Standing, Early
  <2>4. CASE CreateScratch /\ Mig = "004"
    BY <1>1, <2>4, CreateEffect, TablesOf, Named, NotThere
       DEF ColumnsKept, Before, There, Has, Mig, Step, Puts, Table, NewShape, ScratchShapes
  <2>5. CASE CreateScratch /\ Mig \in {"006f", "006e"}
    BY <1>1, <2>5, CreateEffect, TablesOf, Named, NotThere
       DEF ColumnsKept, Before, There, Has, Mig, Step, Puts, Table, NewShape, ScratchShapes
  <2>6. CASE CreateScratch /\ Mig = "013"
    <3>1. "entity_type_id" \in filled
      BY <1>1, <2>6, CreateEffect, PastsAre DEF ColumnsKept, EntityShapes, OnEntities, Swapping
    <3>2. filled' = filled /\ db'["episodes"] = db["episodes"]
      BY <1>1, <2>6, CreateEffect, TablesOf, Named DEF Puts
    <3> QED
      BY <1>1, <2>6, <3>1, <3>2, CreateEffect DEF ColumnsKept, Has, Mig, Step
  <2>7. CASE CreateScratch /\ Mig = "023"
    <3>1. "entity_type_id" \in filled
      BY <1>1, <2>7, CreateEffect, PastsAre DEF ColumnsKept, EntityShapes, OnEntities, Swapping
    <3>2. filled' = filled /\ db'["episodes"] = db["episodes"]
      BY <1>1, <2>7, CreateEffect, TablesOf, Named DEF Puts
    <3> QED
      BY <1>1, <2>7, <3>1, <3>2, CreateEffect DEF ColumnsKept, Has, Mig, Step
  <2> QED
    BY <1>1, BackupEffect, CreateEffect, <1>2, <2>1, <2>2, <2>3, <2>4, <2>5, <2>6, <2>7
       DEF Rebuilds
<1>3. CASE CopyRows \/ CheckScratch \/ ClearScratch \/ Recopy
  BY <1>1, <1>3, CopyEffect, CheckEffect, ClearEffect, RecopyEffect, TablesOf, Named, Ends,
     NotThere DEF ColumnsKept, Before, There, Has, Mig, Step, Stays, Fails, Refills, Rebuilds
<1>4. CASE DropLive \/ Discard013 \/ DropBak023
  BY <1>1, <1>4, DropEffect, DiscardEffect, DropBakEffect, TablesOf, Named, NotThere
     DEF ColumnsKept, Before, There, Has, Mig, Step, Puts, Rebuilds, Absent
<1>5. CASE RenameScratch
  <2>1. CASE RenameScratch /\ Mig = "004"
    BY <1>1, <2>1, RenameEffect, TablesOf, Named, NotThere
       DEF ColumnsKept, Before, There, Has, Mig, Step, Shifts, Absent, NewShape, ScratchShapes,
           Sound, ScratchThere, OldName
  <2>2. CASE RenameScratch /\ Mig = "006f"
    BY <1>1, <2>2, RenameEffect, TablesOf, Named, NotThere
       DEF ColumnsKept, Before, There, Has, Mig, Step, Shifts, Absent, NewShape, ScratchShapes,
           Sound, ScratchThere, OldName
  <2>3. CASE RenameScratch /\ Mig = "006e"
    BY <1>1, <2>3, RenameEffect, TablesOf, Named, NotThere
       DEF ColumnsKept, Before, There, Has, Mig, Step, Shifts, Absent, NewShape, ScratchShapes,
           Sound, ScratchThere, OldName
  <2>4. CASE RenameScratch /\ Mig = "013"
    BY <1>1, <2>4, RenameEffect, TablesOf, Named, NotThere
       DEF ColumnsKept, Before, There, Has, Mig, Step, Shifts, Absent, NewShape, ScratchShapes,
           Sound, ScratchThere, OldName
  <2>5. CASE RenameScratch /\ Mig = "023"
    BY <1>1, <2>5, RenameEffect, TablesOf, Named, NotThere
       DEF ColumnsKept, Before, There, Has, Mig, Step, Shifts, Absent, NewShape, ScratchShapes,
           Sound, ScratchThere, OldName
  <2> QED
    BY <1>1, RenameEffect, <1>5, <2>1, <2>2, <2>3, <2>4, <2>5 DEF Rebuilds
<1>6. CASE Gate004 \/ Gate006 \/ Gate013 \/ Gate023
  BY <1>1, <1>6, Gate004Effect, Gate006Effect, Gate013Effect, Gate023Effect, Named, NotThere
     DEF ColumnsKept, Before, There, Has, Mig, Step, Stays
<1>7. CASE AddGroupIds \/ CheckForeignKeys \/ CreateTrigger \/ CreateVecIndex
  BY <1>1, <1>7, GroupEffect, ForeignEffect, TriggerEffect, VecIndexEffect, Named, Ends,
     NotThere DEF ColumnsKept, Before, There, Has, Mig, Step, Stays, Alters
<1>8. CASE LegacyRename \/ PrefixDrop \/ RenameFts \/ BaseDdl
  <2>1. CASE LegacyRename
    BY <1>1, <2>1, LegacyEffect, TablesOf, Named, NotThere
       DEF ColumnsKept, Before, There, Has, Mig, Step, Stays, Shifts, Absent
  <2>2. CASE PrefixDrop
    BY <1>1, <2>2, PrefixEffect, TablesOf, Named, NotThere
       DEF ColumnsKept, Before, There, Has, Mig, Step, Stays, Shifts, Absent
  <2>3. CASE RenameFts
    BY <1>1, <2>3, RenameFtsEffect, TablesOf, Named, NotThere
       DEF ColumnsKept, Before, There, Has, Mig, Step, Stays, Shifts, Absent
  <2>4. CASE BaseDdl
    BY <1>1, <2>4, BaseKeeps, Names, TablesOf, Named, NotThere
       DEF ColumnsKept, Before, There, Has, Mig, Step, BaseTables
  <2> QED
    BY <1>8, <2>1, <2>2, <2>3, <2>4
<1>9. CASE GateColumn \/ AddColumn \/ Backfill \/ DropLabel \/ UniqueEdges
  BY <1>1, <1>9, GateColumnEffect, AddColumnEffect, BackfillEffect, DropLabelEffect,
     UniqueEffect, AfterIs, Ends, Named, NotThere
     DEF ColumnsKept, Before, There, Has, Mig, Step, Stays, Alters, Fillers, Extended, Column
<1>10. CASE GateFts \/ DropFts \/ CreateFts \/ FillFts
  BY <1>1, <1>10, GateFtsEffect, DropFtsEffect, CreateFtsEffect, FillFtsEffect, AfterIs,
     FtsTables, Named, NotThere
     DEF ColumnsKept, Before, There, Has, Mig, Step, Stays, Puts, Refills, FtsMigs
<1>11. CASE OpenStore \/ CheckIntegrity \/ Close \/ Stop
  BY <1>1, <1>11, EndsEffect, Ends, NoGap, NotThere
     DEF ColumnsKept, Before, There, Has, Mig, Step, Stays
<1> QED
  BY <1>2, <1>3, <1>4, <1>5, <1>6, <1>7, <1>8, <1>9, <1>10, <1>11 DEF Next, Statement, Rebuild

LEMMA IndexKeptStep ==
  ASSUME Shaped, Next, IndexKept
  PROVE  IndexKept'
<1>1. Sound /\ ScratchShapes /\ EntityShapes /\ OtherShapes
  BY DEF Shaped
<1>2. CASE Backup \/ CreateScratch
  <2>1. CASE Backup /\ Mig = "004"
    BY <1>1, <2>1, BackupEffect, TablesOf, Named, NotThere
       DEF IndexKept, Unindexed, Before, There, Has, Mig, Step, Puts, Sound, Standing, Early
  <2>2. CASE Backup /\ Mig \in {"006f", "006e", "008"}
    BY <1>1, <2>2, BackupEffect, TablesOf, Named, NotThere
       DEF IndexKept, Unindexed, Before, There, Has, Mig, Step, Puts, Sound, Standing, Early
  <2>3. CASE Backup /\ Mig = "023"
    BY <1>1, <2>3, BackupEffect, TablesOf, Named, NotThere
       DEF IndexKept, Unindexed, Before, There, Has, Mig, Step, Puts, Sound, Standing, Early
  <2>4. CASE CreateScratch /\ Mig = "004"
    BY <1>1, <2>4, CreateEffect, TablesOf, Named, NotThere
       DEF IndexKept, Unindexed, Before, There, Has, Mig, Step, Puts, Table, NewShape,
           ScratchShapes
  <2>5. CASE CreateScratch /\ Mig \in {"006f", "006e"}
    BY <1>1, <2>5, CreateEffect, TablesOf, Named, NotThere
       DEF IndexKept, Unindexed, Before, There, Has, Mig, Step, Puts, Table, NewShape,
           ScratchShapes
  <2>6. CASE CreateScratch /\ Mig = "013"
    BY <1>1, <2>6, CreateEffect, TablesOf, Named, NotThere
       DEF IndexKept, Unindexed, Before, There, Has, Mig, Step, Puts, Table, NewShape,
           ScratchShapes
  <2>7. CASE CreateScratch /\ Mig = "023"
    BY <1>1, <2>7, CreateEffect, TablesOf, Named, NotThere
       DEF IndexKept, Unindexed, Before, There, Has, Mig, Step, Puts, Table, NewShape,
           ScratchShapes
  <2> QED
    BY <1>1, BackupEffect, CreateEffect, <1>2, <2>1, <2>2, <2>3, <2>4, <2>5, <2>6, <2>7
       DEF Rebuilds
<1>3. CASE CopyRows \/ CheckScratch \/ ClearScratch \/ Recopy
  BY <1>1, <1>3, CopyEffect, CheckEffect, ClearEffect, RecopyEffect, TablesOf, Named, Ends,
     NotThere
     DEF IndexKept, Unindexed, Before, There, Has, Mig, Step, Stays, Fails, Refills, Rebuilds
<1>4. CASE DropLive \/ Discard013 \/ DropBak023
  <2>1. On("facts") = {"facts_vec_idx"} /\ On("episodic_edges") = {}
    BY DEF On
  <2>2. CASE DropLive /\ Mig \in {"004", "013", "023"}
    BY <1>1, <2>2, DropEffect, OnEntitiesIs, TablesOf, Named
       DEF IndexKept, Unindexed, Has, Mig, Step, Puts, Absent
  <2>3. CASE DropLive /\ Mig \in {"006f", "006e"}
    BY <1>1, <2>1, <2>3, DropEffect, TablesOf, Named
       DEF IndexKept, Unindexed, Has, Mig, Step, Puts, Absent
  <2>4. CASE Discard013 \/ DropBak023
    BY <1>1, <2>4, DiscardEffect, DropBakEffect, Named
       DEF IndexKept, Unindexed, Has, Mig, Step, Puts, Absent
  <2> QED
    BY <1>1, <1>4, <2>2, <2>3, <2>4, DropEffect DEF Rebuilds
<1>5. CASE RenameScratch
  <2>1. CASE RenameScratch /\ Mig = "004"
    BY <1>1, <2>1, RenameEffect, TablesOf, Named, NotThere
       DEF IndexKept, Unindexed, Before, There, Has, Mig, Step, Shifts, Absent, NewShape,
           ScratchShapes, Sound, ScratchThere, OldName
  <2>2. CASE RenameScratch /\ Mig = "006f"
    BY <1>1, <2>2, RenameEffect, TablesOf, Named, NotThere
       DEF IndexKept, Unindexed, Before, There, Has, Mig, Step, Shifts, Absent, NewShape,
           ScratchShapes, Sound, ScratchThere, OldName
  <2>3. CASE RenameScratch /\ Mig = "006e"
    BY <1>1, <2>3, RenameEffect, TablesOf, Named, NotThere
       DEF IndexKept, Unindexed, Before, There, Has, Mig, Step, Shifts, Absent, NewShape,
           ScratchShapes, Sound, ScratchThere, OldName
  <2>4. CASE RenameScratch /\ Mig = "013"
    BY <1>1, <2>4, RenameEffect, TablesOf, Named, NotThere
       DEF IndexKept, Unindexed, Before, There, Has, Mig, Step, Shifts, Absent, NewShape,
           ScratchShapes, Sound, ScratchThere, OldName
  <2>5. CASE RenameScratch /\ Mig = "023"
    BY <1>1, <2>5, RenameEffect, TablesOf, Named, NotThere
       DEF IndexKept, Unindexed, Before, There, Has, Mig, Step, Shifts, Absent, NewShape,
           ScratchShapes, Sound, ScratchThere, OldName
  <2> QED
    BY <1>1, RenameEffect, <1>5, <2>1, <2>2, <2>3, <2>4, <2>5 DEF Rebuilds
<1>6. CASE Gate004 \/ Gate006 \/ Gate013 \/ Gate023
  BY <1>1, <1>6, Gate004Effect, Gate006Effect, Gate013Effect, Gate023Effect, Named, NotThere
     DEF IndexKept, Unindexed, Before, There, Has, Mig, Step, Stays
<1>7. CASE AddGroupIds \/ CheckForeignKeys \/ CreateTrigger \/ CreateVecIndex
  BY <1>1, <1>7, GroupEffect, ForeignEffect, TriggerEffect, VecIndexEffect, Named, Ends,
     NotThere DEF IndexKept, Unindexed, Before, There, Has, Mig, Step, Stays, Alters
<1>8. CASE LegacyRename \/ PrefixDrop \/ RenameFts \/ BaseDdl
  <2>1. CASE LegacyRename
    BY <1>1, <2>1, LegacyEffect, TablesOf, Named, NotThere
       DEF IndexKept, Unindexed, Before, There, Has, Mig, Step, Stays, Shifts, Absent
  <2>2. CASE PrefixDrop
    BY <1>1, <2>2, PrefixEffect, TablesOf, Named, NotThere
       DEF IndexKept, Unindexed, Before, There, Has, Mig, Step, Stays, Shifts, Absent
  <2>3. CASE RenameFts
    BY <1>1, <2>3, RenameFtsEffect, TablesOf, Named, NotThere
       DEF IndexKept, Unindexed, Before, There, Has, Mig, Step, Stays, Shifts, Absent
  <2>4. CASE BaseDdl
    <3>1. /\ \A t \in Tables : There(t) \/ t \notin BaseTables => db'[t] = db[t]
          /\ \A t \in Tables, f \in Features \ {"label", "f32"} :
               f \in db'[t].has <=> f \in db[t].has
          /\ Mig' = "004" /\ Step' = "gate"
      BY <1>1, <2>4, BaseKeeps
    <3>2. /\ Has("entities", "f32")' => "entities_vec_idx" \in objects'
          /\ Has("facts", "f32")' => "facts_vec_idx" \in objects'
      BY <1>1, <2>4, BaseEffect
    <3>3. "composite_fk" \in db'["facts"].has => db'["facts"] = db["facts"]
      BY <1>1, <3>1, Names, NotThere
    <3>4. db'["entities_new"] = db["entities_new"]
      BY <3>1, Named DEF BaseTables
    <3> QED
      BY <3>1, <3>2, <3>3, <3>4 DEF IndexKept, Unindexed, Has
  <2> QED
    BY <1>8, <2>1, <2>2, <2>3, <2>4
<1>9. CASE GateColumn \/ AddColumn \/ Backfill \/ DropLabel \/ UniqueEdges
  BY <1>1, <1>9, GateColumnEffect, AddColumnEffect, BackfillEffect, DropLabelEffect,
     UniqueEffect, AfterIs, Ends, Named, NotThere
     DEF IndexKept, Unindexed, Before, There, Has, Mig, Step, Stays, Alters, Fillers, Extended,
         Column
<1>10. CASE GateFts \/ DropFts \/ CreateFts \/ FillFts
  BY <1>1, <1>10, GateFtsEffect, DropFtsEffect, CreateFtsEffect, FillFtsEffect, AfterIs,
     FtsTables, Named, NotThere
     DEF IndexKept, Unindexed, Before, There, Has, Mig, Step, Stays, Puts, Refills, FtsMigs
<1>11. CASE OpenStore \/ CheckIntegrity \/ Close \/ Stop
  BY <1>1, <1>11, EndsEffect, Ends, NoGap, NotThere
     DEF IndexKept, Unindexed, Before, There, Has, Mig, Step, Stays
<1> QED
  BY <1>2, <1>3, <1>4, <1>5, <1>6, <1>7, <1>8, <1>9, <1>10, <1>11 DEF Next, Statement, Rebuild

LEMMA KeptBy013Step ==
  ASSUME MigrationAssumption, Shaped, Next, start' = start, gaps' = {}, KeptBy013
  PROVE  KeptNow' \/ KeptBy004'
<1>1. Sound /\ ScratchShapes /\ EntityShapes /\ Mig = "013" /\ Step = "rename"
  BY DEF Shaped, KeptBy013
<1>2. CASE RenameScratch
  BY <1>1, <1>2, RenameEffect, TablesOf, Named, NotThere
     DEF KeptNow, KeptIn, KeptBy013, There, Has, Mig, Step, Shifts, ScratchShapes, NewShape,
         Sound, OldName, Before, Absent
<1>3. CASE Stop
  <2>1. at' = Closed /\ db' = db /\ There("entities_bak_004") /\ Complete("004")
    BY <1>1, <1>3, NoGap DEF Stop
  <2>2. ~Has("entities", "composite_pk") /\ ~Has("rql_entities", "composite_pk")
    BY <1>1, Named, NotThere DEF KeptBy013, Has, Sound, OldName, Before
  <2>3. There("entities_new")
    BY <1>1, TablesOf DEF Sound, ScratchThere
  <2> QED
    BY <2>1, <2>2, <2>3, Ends DEF KeptBy013, KeptBy004, Early, There, Has, Complete, Count
<1>4. RenameScratch \/ Stop
  BY <1>1, AtIs, Gate004Effect, Gate006Effect, Gate013Effect, DiscardEffect, Gate023Effect,
     BackupEffect, CreateEffect, CopyEffect, CheckEffect, ClearEffect, RecopyEffect, DropEffect,
     GroupEffect, ForeignEffect, TriggerEffect, VecIndexEffect, DropBakEffect, LegacyEffect,
     PrefixEffect, RenameFtsEffect, BaseEffect, GateColumnEffect, AddColumnEffect,
     BackfillEffect, DropLabelEffect, UniqueEffect, GateFtsEffect, DropFtsEffect,
     CreateFtsEffect, FillFtsEffect, EndsEffect DEF Next, Statement, Rebuild
<1> QED
  BY <1>2, <1>3, <1>4

\* What an open finds and leaves as long as the process has not ended in a gap.
KeptRows == EntitiesKept /\ FactsKeptBy /\ EdgesKept /\ FtsKept /\ ColumnsKept

KeptInv == Shaped /\ IndexKept /\ (gaps = {} => KeptRows)

LEMMA StartKeptInv == MigrationAssumption /\ Init => KeptInv
<1> SUFFICES ASSUME MigrationAssumption, Init PROVE KeptInv
  OBVIOUS
<1>1. PICK s \in InitialDbs : db = s.db /\ filled = s.filled /\ start = InitStart(s.db)
  BY DEF Init
<1>2. Released(db, filled)
  BY <1>1 DEF MigrationAssumption
<1>3. Mig = "closed" /\ Step = "none" /\ Shaped /\ Sound
  BY StartShaped DEF Init, Closed, Mig, Step, Shaped
<1>4. /\ start.entities = db["entities"].rows \cup db["rql_entities"].rows
      /\ start.facts = db["facts"].rows /\ start.edges = db["episodic_edges"].rows
  BY <1>1 DEF InitStart
<1>5. /\ ~There("entities_new") /\ ~There("entities_new_023") /\ ~There("entities_bak_023")
      /\ ~There("facts_new") /\ ~There("episodic_edges_new")
      /\ ~Has("entities_new", "f32") /\ ~Has("entities_new", "entity_type_id")
      /\ ~Has("entities_new_023", "entity_type_id")
  BY <1>2, <1>3, Named, NotThere DEF Released, Unfinished, There, Has
<1>6. EntitiesKept
  <2>1. CASE There("rql_entities")
    <3>1. ~There("entities") /\ start.entities = db["rql_entities"].rows
      BY <1>2, <1>3, <1>4, <2>1, Named, NotThere DEF Released, There
    <3>2. ~There("entities_bak_004")
      BY <1>2, <1>3, <3>1, Named, NotThere DEF Released, There
    <3> QED
      BY <1>3, <1>5, <3>1, <3>2 DEF EntitiesKept, KeptOld, KeptIn, Before
  <2>2. CASE ~There("rql_entities")
    <3>1. start.entities = db["entities"].rows
      BY <1>3, <1>4, <2>2, Named, NotThere
    <3> QED
      BY <1>2, <1>3, <1>5, <2>2, <3>1 DEF EntitiesKept, KeptNow, KeptIn, Released, There, Has
  <2> QED
    BY <2>1, <2>2
<1>7. FactsKeptBy /\ EdgesKept
  <2>1. ~Has("rql_entities", "composite_pk")
    BY <1>2 DEF Released, Has
  <2> QED
    BY <1>2, <1>3, <1>4, <1>5, <2>1, PastsAre
       DEF FactsKeptBy, FactsNow, GroupsFor, EdgesKept, EdgesNow, Released, There, Has
<1>8. FtsKept
  <2>1. Has("entities_fts", "porter") => db["entities_fts"].rows = start.entities
    <3>1. Has("entities_fts", "porter") => ~There("rql_entities") /\ There("entities")
      BY <1>2 DEF Released, There, Has
    <3> QED
      BY <1>2, <1>3, <1>4, <3>1, Named, NotThere DEF Released, Has
  <2> QED
    BY <1>2, <1>3, <1>4, <2>1 DEF FtsKept, Released, Has
<1>9. ColumnsKept
  <2>1. ~Has("rql_entities", "entity_type_id")
    BY <1>2 DEF Released, Has
  <2>2. \A m \in Fillers : Has(Extended(m), Column(m)) => Column(m) \in filled
    BY <1>2 DEF Released, Has
  <2> QED
    BY <1>5, <2>1, <2>2 DEF ColumnsKept, Fillers, Extended, Column
<1>10. IndexKept
  BY <1>2, <1>3, <1>5 DEF IndexKept, Unindexed, Released, Has
<1> QED
  BY <1>3, <1>6, <1>7, <1>8, <1>9, <1>10 DEF KeptInv, KeptRows

LEMMA KeptStep == MigrationAssumption /\ KeptInv /\ [Next]_vars => KeptInv'
<1> SUFFICES ASSUME MigrationAssumption, KeptInv, [Next]_vars PROVE KeptInv'
  OBVIOUS
<1>1. Shaped /\ Shaped' /\ IndexKept
  BY ShapedStep DEF KeptInv
<1>2. CASE Next
  <2>1. start' = start /\ gaps \subseteq gaps' /\ filled \subseteq filled'
    BY <1>1, <1>2, StartKept DEF Shaped
  <2>2. IndexKept'
    BY <1>1, <1>2, IndexKeptStep
  <2>3. ASSUME gaps' = {}
        PROVE  KeptRows'
    <3>1. KeptRows /\ gaps = {}
      BY <2>1, <2>3 DEF KeptInv
    <3>2. EntitiesKept'
      BY <1>1, <1>2, <2>1, <2>3, <3>1, KeptOldStep, KeptNowStep, KeptBy004Step, KeptBy013Step,
         KeptBy023Step DEF KeptRows, EntitiesKept
    <3>3. FactsKeptBy'
      BY <1>1, <1>2, <2>1, <2>3, <3>1, FactsNowStep, FactsBy006Step DEF KeptRows, FactsKeptBy
    <3>4. EdgesKept'
      BY <1>1, <1>2, <2>1, <2>3, <3>1, EdgesNowStep, EdgesBy006Step DEF KeptRows, EdgesKept
    <3>5. KeptNow \/ Mig # "027e"
      BY <1>1, <3>1
         DEF KeptRows, EntitiesKept, KeptOld, KeptBy004, KeptBy013, KeptBy023, Early, Before,
             Shaped, EntityShapes, Past023
    <3>6. FactsNow \/ Mig \notin {"006t", "027f"}
      BY <1>1, <3>1, PastsAre DEF KeptRows, FactsKeptBy, FactsBy006, Shaped, OtherShapes
    <3>7. FtsKept'
      BY <1>1, <1>2, <2>1, <2>3, <3>1, <3>5, <3>6, FtsKeptStep DEF KeptRows
    <3>8. ColumnsKept'
      BY <1>1, <1>2, <2>1, <2>3, <3>1, ColumnsKeptStep DEF KeptRows
    <3> QED
      BY <3>2, <3>3, <3>4, <3>7, <3>8 DEF KeptRows
  <2> QED
    BY <1>1, <2>2, <2>3 DEF KeptInv
<1>3. CASE UNCHANGED vars
  BY <1>1, <1>3
     DEF vars, KeptInv, KeptRows, EntitiesKept, KeptOld, KeptNow, KeptIn, KeptBy004, KeptBy013,
         KeptBy023, FactsKeptBy, FactsNow, FactsBy006, GroupsFor, EdgesKept, EdgesNow,
         EdgesBy006, FtsKept, ColumnsKept, IndexKept, Unindexed, Before, Early, Complete, Count,
         There, Has, Mig, Step
<1> QED
  BY <1>2, <1>3

LEMMA KeptMeans == KeptInv => Kept
<1> SUFFICES ASSUME KeptInv, at = Opened, gaps = {} PROVE
      /\ Whole("entities", start.entities, NewShape("023"))
      /\ Whole("facts", start.facts, NewShape("006f"))
      /\ Whole("episodic_edges", start.edges, NewShape("006e"))
      /\ Whole("entities_fts", start.entities, {"porter"})
      /\ Whole("facts_fts", start.facts, {"porter"})
      /\ filled = Backfilled
      /\ {"entities_vec_idx", "facts_vec_idx"} \subseteq objects
  BY DEF Kept
<1>1. Mig = "open" /\ Step = "none"
  BY DEF Opened, Mig, Step
<1>2. KeptRows /\ Shaped /\ IndexKept
  BY DEF KeptInv
<1>3. /\ {"composite_pk", "entity_type_id", "entity_type_source", "DreamPass4", "f32"}
           \subseteq db["entities"].has
      /\ ~There("entities_new_023")
  BY <1>1, <1>2, PastsAre DEF Shaped, EntityShapes, OnEntities, Swapping, Has
<1>4. /\ Has("facts", "composite_fk") /\ Has("episodes", "content_hash")
      /\ Has("episodes", "episode_processing_status") /\ "entity_type_source" \in filled
      /\ Has("entities_fts", "porter") /\ Has("facts_fts", "porter")
      /\ ~There("episodic_edges_new")
  BY <1>1, <1>2, PastsAre DEF Shaped, OtherShapes
<1>5. db["entities"].rows = start.entities
  BY <1>1, <1>2, <1>3
     DEF KeptRows, EntitiesKept, KeptOld, KeptNow, KeptIn, KeptBy004, KeptBy013, KeptBy023,
         Before, Early, Has
<1>6. db["facts"].rows = start.facts /\ NewShape("006f") \subseteq db["facts"].has
  BY <1>2, <1>4 DEF KeptRows, FactsKeptBy, FactsNow, FactsBy006, IndexKept
<1>7. /\ db["episodic_edges"].rows = start.edges
      /\ NewShape("006e") \subseteq db["episodic_edges"].has
  BY <1>1, <1>2, <1>4 DEF KeptRows, EdgesKept, EdgesNow, EdgesBy006
<1>8. db["entities_fts"].rows = start.entities /\ db["facts_fts"].rows = start.facts
  BY <1>1, <1>2, <1>4 DEF KeptRows, FtsKept
<1>9. filled = Backfilled
  BY <1>1, <1>2, <1>3, <1>4 DEF KeptRows, ColumnsKept, Has, Backfilled, Shaped, Sound, TypeOK
<1>10. {"entities_vec_idx", "facts_vec_idx"} \subseteq objects
  <2>1. NewShape("006f") = {"group_ids", "composite_fk", "f32"}
    BY DEF NewShape
  <2>2. Has("facts", "f32") /\ Has("entities", "f32")
    BY <1>3, <1>6, <2>1 DEF Has
  <2> QED
    BY <1>1, <1>2, <2>2 DEF IndexKept, Unindexed
<1>11. NewShape("023") \subseteq db["entities"].has
  BY <1>3 DEF NewShape
<1> QED
  BY <1>4, <1>5, <1>6, <1>7, <1>8, <1>9, <1>10, <1>11 DEF Whole, Has

\* An open that succeeds has every row, and no other, where readers look for it, in the
\* final shape, with the columns filled and the indexes full, however often the process
\* ended on the way, unless it did so in a gap.
THEOREM OpenKeeps == Spec => []Kept
<1>1. Init => KeptInv
  BY StartKeptInv, MigrationAssumption
<1>2. KeptInv /\ [Next]_vars => KeptInv'
  BY KeptStep, MigrationAssumption
<1> QED
  BY <1>1, <1>2, KeptMeans, PTL DEF Spec
=============================================================================
