------------------------ MODULE GraphMutationsProofs ------------------------
(***************************************************************************)
(* What holds of the graph after any history of mutations and reversals,   *)
(* for every value of the constants.  First what each operation makes of a *)
(* graph, then the invariant, the round trips of the operators, histories  *)
(* of merges, and the theorems.                                            *)
(***************************************************************************)
EXTENDS GraphMutations, TLAPS

-----------------------------------------------------------------------------
\* Tables

LEMMA OverTable ==
  ASSUME NEW S, NEW T, NEW f, NEW h, IsTable(f, S, T), IsTable(h, S, T)
  PROVE  IsTable(Over(f, h), S, T)
BY DEF IsTable, Over

LEMMA OneTable ==
  ASSUME NEW S, NEW T, NEW x \in S, NEW v \in T
  PROVE  IsTable(One(x, v), S, T)
BY DEF IsTable, One

LEMMA RestrictTable ==
  ASSUME NEW S, NEW T, NEW f, IsTable(f, S, T), NEW D \in SUBSET DOMAIN f
  PROVE  IsTable(Restrict(f, D), S, T) /\ DOMAIN Restrict(f, D) = D
BY DEF IsTable, Restrict

LEMMA MoveKeyTable ==
  ASSUME NEW S, NEW T, NEW f, IsTable(f, S, T), NEW a \in S, NEW b \in S
  PROVE  IsTable(MoveKey(f, a, b), S, T)
<1>1. CASE a \in DOMAIN f
  <2>1. f[a] \in T
    BY <1>1 DEF IsTable
  <2>2. IsTable(One(b, f[a]), S, T)
    BY <2>1, OneTable
  <2>3. IsTable(Restrict(f, DOMAIN f \ {a}), S, T)
    BY RestrictTable
  <2> QED
    BY <1>1, <2>2, <2>3, OverTable DEF MoveKey
<1>2. CASE a \notin DOMAIN f
  BY <1>2 DEF MoveKey
<1> QED
  BY <1>1, <1>2

LEMMA SmallTable ==
  ASSUME NEW S, NEW T, NEW f
  PROVE  f \in Tables(S, T) <=> IsTable(f, S, T)
BY DEF Tables, IsTable

-----------------------------------------------------------------------------
\* The rows of facts.  Whatever a mutation does to a row, its hash stays.

LEMMA MoveRow ==
  ASSUME NEW r \in FactRows, NEW a \in Ids, NEW b \in Ids
  PROVE  /\ Move(r, a, b) \in FactRows
         /\ Move(r, a, b).hash = r.hash
         /\ Move(r, a, b).exp = r.exp
BY DEF Move, FactRows

\* The live facts of h are those of k or fewer, with the hashes they had, and
\* none is unexpired that was not: what keeps the unique index.
Weaker(h, k) ==
  /\ DOMAIN h.live \subseteq DOMAIN k.live
  /\ \A f \in DOMAIN h.live :
       h.live[f].hash = k.live[f].hash /\ (h.live[f].exp = "no" => k.live[f].exp = "no")

LEMMA WeakerUnique ==
  ASSUME NEW h, NEW k, HashUnique(k), Weaker(h, k)
  PROVE  HashUnique(h)
BY DEF HashUnique, Weaker

\* What every step owes the facts: none is lost, and none comes to be both live
\* and archived.
Kept(g1, g2) ==
  /\ DOMAIN g1.live \cup DOMAIN g1.arch \subseteq DOMAIN g2.live \cup DOMAIN g2.arch
  /\ DOMAIN g1.live \cap DOMAIN g1.arch = {} => DOMAIN g2.live \cap DOMAIN g2.arch = {}

-----------------------------------------------------------------------------
\* A graph as a record, in the form the provers can take fields from

Shaped(h) ==
  h \in [ent : {h.ent}, live : {h.live}, arch : {h.arch},
         edges : {h.edges}, comm : {h.comm}, nogood : {h.nogood}]

LEMMA GraphShaped ==
  ASSUME NEW h, IsGraph(h)
  PROVE  Shaped(h)
BY DEF IsGraph, Shaped

LEMMA ShapedGraph ==
  ASSUME NEW h, Shaped(h),
         IsTable(h.ent, Ids, EntityRows),
         IsTable(h.live, Facts, FactRows), IsTable(h.arch, Facts, FactRows),
         h.edges \subseteq Episodes \X Ids,
         IsTable(h.comm, Ids, Communities), h.nogood \subseteq Pairs
  PROVE  IsGraph(h)
<1>1. h = [ent |-> h.ent, live |-> h.live, arch |-> h.arch,
           edges |-> h.edges, comm |-> h.comm, nogood |-> h.nogood]
  BY DEF Shaped
<1> QED
  BY <1>1 DEF IsGraph

LEMMA SameGraph ==
  ASSUME NEW h, NEW n, Shaped(h), Shaped(n),
         h.ent = n.ent, h.live = n.live, h.arch = n.arch,
         h.edges = n.edges, h.comm = n.comm, h.nogood = n.nogood
  PROVE  h = n
BY DEF Shaped

-----------------------------------------------------------------------------
\* What each mutation makes of a graph

LEMMA MergeGraph ==
  ASSUME NEW h, IsGraph(h), NEW l \in Ids, NEW k \in Ids, Mergeable(h, l, k)
  PROVE  /\ IsGraph(MergeOf(h, l, k))
         /\ Weaker(MergeOf(h, l, k), h)
         /\ Kept(h, MergeOf(h, l, k))
         /\ MergeOf(h, l, k).nogood = h.nogood
<1> DEFINE n == MergeOf(h, l, k)
<1> Shaped(h)
  BY GraphShaped
<1>1. /\ n.arch = h.arch /\ n.comm = h.comm /\ n.nogood = h.nogood
      /\ n.live = [f \in DOMAIN h.live |->
                     [Move(h.live[f], l, k) EXCEPT
                        !.inert = @ \/ Touches(h.live[f], l),
                        !.exp = IF f \in SelfLoops(h, l, k) THEN "merge" ELSE @]]
      /\ n.edges = {e \in h.edges : e[2] # l} \cup {<<ep, k>> : ep \in EpisodesOf(h, l)}
      /\ n.ent = [i \in DOMAIN h.ent \ {l} |->
                    IF i = k THEN [h.ent[k] EXCEPT !.ac = @ + h.ent[l].ac] ELSE h.ent[i]]
      /\ Shaped(n)
  BY DEF Shaped, MergeOf
<1> HIDE DEF n
<1>2. IsTable(n.ent, Ids, EntityRows)
  <2>1. h.ent[l] \in EntityRows /\ h.ent[k] \in EntityRows
    BY DEF IsGraph, IsTable, Mergeable
  <2>2. [h.ent[k] EXCEPT !.ac = @ + h.ent[l].ac] \in EntityRows
    BY <2>1 DEF EntityRows
  <2>3. n.ent = [i \in DOMAIN h.ent \ {l} |->
                    IF i = k THEN [h.ent[k] EXCEPT !.ac = @ + h.ent[l].ac] ELSE h.ent[i]]
    BY <1>1
  <2>4. DOMAIN h.ent \subseteq Ids /\ \A i \in DOMAIN h.ent : h.ent[i] \in EntityRows
    BY DEF IsGraph, IsTable
  <2> QED
    BY <2>2, <2>3, <2>4 DEF IsTable
<1>3. ASSUME NEW f \in DOMAIN h.live
      PROVE  /\ n.live[f] \in FactRows
             /\ n.live[f].hash = h.live[f].hash
             /\ n.live[f].exp = "no" => h.live[f].exp = "no"
  <2>1. h.live[f] \in FactRows
    BY DEF IsGraph, IsTable
  <2>2. /\ Move(h.live[f], l, k) \in FactRows
        /\ Move(h.live[f], l, k).hash = h.live[f].hash
        /\ Move(h.live[f], l, k).exp = h.live[f].exp
    BY <2>1, MoveRow
  <2> DEFINE r == Move(h.live[f], l, k)
             t == Touches(h.live[f], l)
             x == IF f \in SelfLoops(h, l, k) THEN "merge" ELSE r.exp
  <2>3. n.live[f] = [r EXCEPT !.inert = @ \/ t, !.exp = x]
    BY <1>1
  <2>4. x \in {"no", "merge", "other"} /\ (x = "no" => r.exp = "no")
    BY <2>2 DEF FactRows
  <2>5. (r.inert \/ t) \in BOOLEAN
    OBVIOUS
  <2> HIDE DEF t, x, r
  <2>6. /\ [r EXCEPT !.inert = @ \/ t, !.exp = x] \in FactRows
        /\ [r EXCEPT !.inert = @ \/ t, !.exp = x].hash = r.hash
        /\ [r EXCEPT !.inert = @ \/ t, !.exp = x].exp = x
    BY <2>2, <2>4, <2>5 DEF FactRows, r
  <2> QED
    BY <2>2, <2>3, <2>4, <2>6 DEF r
<1>4. IsTable(n.live, Facts, FactRows)
  BY <1>1, <1>3 DEF IsGraph, IsTable
<1>5. n.edges \subseteq Episodes \X Ids
  <2>1. h.edges \subseteq Episodes \X Ids /\ EpisodesOf(h, l) \subseteq Episodes
    BY DEF IsGraph, EpisodesOf
  <2>2. {<<ep, k>> : ep \in EpisodesOf(h, l)} \subseteq Episodes \X Ids
    BY <2>1
  <2> QED
    BY <1>1, <2>1, <2>2
<1>6. IsGraph(n)
  BY <1>1, <1>2, <1>4, <1>5, ShapedGraph DEF IsGraph
<1>7. DOMAIN n.live = DOMAIN h.live
  BY <1>1
<1>8. Weaker(n, h) /\ Kept(h, n)
  BY <1>1, <1>3, <1>7 DEF Weaker, Kept
<1> QED
  BY <1>1, <1>6, <1>8 DEF n

LEMMA UnmergeGraph ==
  ASSUME NEW h, IsGraph(h), NEW m \in MergeRows, m.loser # m.keeper, Unmergeable(h, m)
  PROVE  /\ IsGraph(UnmergeOf(h, m))
         /\ HashUnique(UnmergeOf(h, m))
         /\ Kept(h, UnmergeOf(h, m))
         /\ h.nogood \subseteq UnmergeOf(h, m).nogood
<1> DEFINE n == UnmergeOf(h, m)
           back == {ep \in m.moved : <<ep, m.keeper>> \in h.edges}
<1> Shaped(h)
  BY GraphShaped
<1>1. /\ n.arch = h.arch /\ n.comm = h.comm /\ n.nogood = Forbid(h.nogood, m)
      /\ n.live = [f \in DOMAIN h.live |->
                    [h.live[f] EXCEPT
                       !.s = IF f \in DOMAIN m.subjects THEN m.loser ELSE @,
                       !.o = IF f \in DOMAIN m.objects THEN m.loser ELSE @,
                       !.inert = CASE f \in DOMAIN m.objects -> m.objects[f]
                                   [] f \in DOMAIN m.subjects -> m.subjects[f]
                                   [] OTHER -> @,
                       !.exp = IF f \in m.loops THEN "no" ELSE @]]
      /\ n.edges = (h.edges \ (back \X {m.keeper})) \cup ((back \cup m.collided) \X {m.loser})
      /\ n.ent = Over(One(m.loser, m.row), [h.ent EXCEPT ![m.keeper].ac = m.ac])
      /\ Shaped(n)
  BY DEF Shaped, UnmergeOf
<1>2. HashUnique(n)
  BY DEF Unmergeable
<1> HIDE DEF n
<1>3. /\ m.loser \in Ids /\ m.keeper \in Ids /\ m.row \in EntityRows /\ m.ac \in Nat
      /\ m.moved \subseteq Episodes /\ m.collided \subseteq Episodes
      /\ IsTable(m.subjects, Facts, BOOLEAN) /\ IsTable(m.objects, Facts, BOOLEAN)
  BY SmallTable DEF MergeRows
<1>4. IsTable(n.ent, Ids, EntityRows)
  <2> DEFINE others == [h.ent EXCEPT ![m.keeper].ac = m.ac]
  <2>1. IsTable(others, Ids, EntityRows)
    <3>1. \A i \in DOMAIN h.ent : [h.ent[i] EXCEPT !.ac = m.ac] \in EntityRows
      BY <1>3 DEF IsGraph, IsTable, EntityRows
    <3> QED
      BY <3>1 DEF IsGraph, IsTable
  <2>2. IsTable(One(m.loser, m.row), Ids, EntityRows)
    BY <1>3, OneTable
  <2>3. n.ent = Over(One(m.loser, m.row), others)
    BY <1>1
  <2> HIDE DEF others
  <2> QED
    BY <2>1, <2>2, <2>3, OverTable
<1>5. IsTable(n.live, Facts, FactRows)
  <2>1. ASSUME NEW f \in DOMAIN h.live
        PROVE  n.live[f] \in FactRows
    <3>1. h.live[f] \in FactRows
      BY DEF IsGraph, IsTable
    <3> DEFINE r == h.live[f]
               s == IF f \in DOMAIN m.subjects THEN m.loser ELSE r.s
               o == IF f \in DOMAIN m.objects THEN m.loser ELSE r.o
               i == CASE f \in DOMAIN m.objects -> m.objects[f]
                      [] f \in DOMAIN m.subjects -> m.subjects[f]
                      [] OTHER -> r.inert
               x == IF f \in m.loops THEN "no" ELSE r.exp
    <3>2. n.live[f] = [r EXCEPT !.s = s, !.o = o, !.inert = i, !.exp = x]
      BY <1>1
    <3>3. s \in Ids /\ o \in Ids \cup {Literal} /\ x \in {"no", "merge", "other"}
      BY <1>3, <3>1 DEF FactRows
    <3>4. i \in BOOLEAN
      <4>1. f \in DOMAIN m.objects => m.objects[f] \in BOOLEAN
        BY <1>3 DEF IsTable
      <4>2. f \in DOMAIN m.subjects => m.subjects[f] \in BOOLEAN
        BY <1>3 DEF IsTable
      <4>3. r.inert \in BOOLEAN
        BY <3>1 DEF FactRows
      <4> QED
        BY <4>1, <4>2, <4>3
    <3> HIDE DEF s, o, i, x
    <3> QED
      BY <3>1, <3>2, <3>3, <3>4 DEF FactRows
  <2> QED
    BY <1>1, <2>1 DEF IsGraph, IsTable
<1>6. n.edges \subseteq Episodes \X Ids
  <2>1. h.edges \subseteq Episodes \X Ids
    BY DEF IsGraph
  <2> QED
    BY <1>1, <1>3, <2>1
<1>7. n.nogood \subseteq Pairs /\ h.nogood \subseteq n.nogood
  <2>1. {m.loser, m.keeper} \in Pairs
    BY <1>3 DEF Pairs
  <2> QED
    BY <1>1, <2>1 DEF IsGraph, Forbid
<1>8. IsGraph(n)
  BY <1>1, <1>4, <1>5, <1>6, <1>7, ShapedGraph DEF IsGraph
<1>9. Kept(h, n)
  BY <1>1 DEF Kept
<1> QED
  BY <1>2, <1>7, <1>8, <1>9 DEF n

LEMMA RenameGraph ==
  ASSUME NEW h, IsGraph(h), NEW a \in Ids, NEW b \in Ids
  PROVE  /\ IsGraph(RenameOf(h, a, b))
         /\ Weaker(RenameOf(h, a, b), h)
         /\ Kept(h, RenameOf(h, a, b))
         /\ RenameOf(h, a, b).nogood = h.nogood
<1> DEFINE n == RenameOf(h, a, b)
<1> Shaped(h)
  BY GraphShaped
<1>1. /\ n.live = [f \in DOMAIN h.live |-> Move(h.live[f], a, b)]
      /\ n.arch = [f \in DOMAIN h.arch |-> Move(h.arch[f], a, b)]
      /\ n.edges = {<<e[1], IF e[2] = a THEN b ELSE e[2]>> : e \in h.edges}
      /\ n.comm = MoveKey(h.comm, a, b) /\ n.ent = MoveKey(h.ent, a, b)
      /\ n.nogood = h.nogood /\ Shaped(n)
  BY DEF Shaped, RenameOf
<1> HIDE DEF n
<1>2. IsTable(n.live, Facts, FactRows) /\ IsTable(n.arch, Facts, FactRows)
  BY <1>1, MoveRow DEF IsGraph, IsTable
<1>3. IsTable(n.comm, Ids, Communities) /\ IsTable(n.ent, Ids, EntityRows)
  BY <1>1, MoveKeyTable DEF IsGraph
<1>4. n.edges \subseteq Episodes \X Ids
  <2>1. \A e \in h.edges : e[1] \in Episodes /\ e[2] \in Ids
    BY DEF IsGraph
  <2> QED
    BY <1>1, <2>1
<1>5. IsGraph(n)
  BY <1>1, <1>2, <1>3, <1>4, ShapedGraph DEF IsGraph
<1>6. Weaker(n, h)
  BY <1>1, MoveRow DEF Weaker, IsGraph, IsTable
<1>7. Kept(h, n)
  BY <1>1 DEF Kept
<1> QED
  BY <1>1, <1>5, <1>6, <1>7 DEF n

LEMMA UndoRenameGraph ==
  ASSUME NEW h, IsGraph(h), NEW m \in RenameRows
  PROVE  /\ IsGraph(UndoRenameOf(h, m))
         /\ Weaker(UndoRenameOf(h, m), h)
         /\ Kept(h, UndoRenameOf(h, m))
         /\ UndoRenameOf(h, m).nogood = h.nogood
<1> DEFINE n == UndoRenameOf(h, m)
           back == {ep \in m.episodes : <<ep, m.new>> \in h.edges}
<1> Shaped(h)
  BY GraphShaped
<1>1. /\ n.live = [f \in DOMAIN h.live |->
                     IF f \in m.facts THEN Move(h.live[f], m.new, m.old) ELSE h.live[f]]
      /\ n.arch = [f \in DOMAIN h.arch |->
                     IF f \in m.archived THEN Move(h.arch[f], m.new, m.old) ELSE h.arch[f]]
      /\ n.edges = (h.edges \ (back \X {m.new})) \cup (back \X {m.old})
      /\ n.comm = MoveKey(h.comm, m.new, m.old) /\ n.ent = MoveKey(h.ent, m.new, m.old)
      /\ n.nogood = h.nogood /\ Shaped(n)
  BY DEF Shaped, UndoRenameOf
<1> HIDE DEF n
<1>2. m.old \in Ids /\ m.new \in Ids /\ m.episodes \subseteq Episodes
  BY DEF RenameRows
<1>3. IsTable(n.live, Facts, FactRows) /\ IsTable(n.arch, Facts, FactRows)
  BY <1>1, <1>2, MoveRow DEF IsGraph, IsTable
<1>4. IsTable(n.comm, Ids, Communities) /\ IsTable(n.ent, Ids, EntityRows)
  BY <1>1, <1>2, MoveKeyTable DEF IsGraph
<1>5. n.edges \subseteq Episodes \X Ids
  BY <1>1, <1>2 DEF IsGraph
<1>6. IsGraph(n)
  BY <1>1, <1>3, <1>4, <1>5, ShapedGraph DEF IsGraph
<1>7. Weaker(n, h)
  BY <1>1, <1>2, MoveRow DEF Weaker, IsGraph, IsTable
<1>8. Kept(h, n)
  BY <1>1 DEF Kept
<1> QED
  BY <1>1, <1>6, <1>7, <1>8 DEF n

LEMMA RetypeGraph ==
  ASSUME NEW h, IsGraph(h), NEW e \in DOMAIN h.ent, NEW t \in Types
  PROVE  /\ IsGraph(RetypeOf(h, e, t))
         /\ Weaker(RetypeOf(h, e, t), h)
         /\ Kept(h, RetypeOf(h, e, t))
         /\ RetypeOf(h, e, t).nogood = h.nogood
<1> DEFINE n == RetypeOf(h, e, t)
<1> Shaped(h)
  BY GraphShaped
<1>1. /\ n.live = h.live /\ n.arch = h.arch /\ n.edges = h.edges
      /\ n.comm = Restrict(h.comm, DOMAIN h.comm \ {e})
      /\ n.ent = [h.ent EXCEPT ![e].ty = t]
      /\ n.nogood = h.nogood /\ Shaped(n)
  BY DEF Shaped, RetypeOf
<1> HIDE DEF n
<1>2. IsTable(n.ent, Ids, EntityRows)
  <2>1. [h.ent[e] EXCEPT !.ty = t] \in EntityRows
    BY DEF IsGraph, IsTable, EntityRows
  <2> QED
    BY <1>1, <2>1 DEF IsGraph, IsTable
<1>3. IsTable(n.comm, Ids, Communities)
  BY <1>1, RestrictTable DEF IsGraph
<1>4. IsGraph(n)
  BY <1>1, <1>2, <1>3, ShapedGraph DEF IsGraph
<1>5. Weaker(n, h) /\ Kept(h, n)
  BY <1>1 DEF Weaker, Kept
<1> QED
  BY <1>1, <1>4, <1>5 DEF n

LEMMA UndoRetypeGraph ==
  ASSUME NEW h, IsGraph(h), NEW m \in RetypeRows
  PROVE  /\ IsGraph(UndoRetypeOf(h, m))
         /\ Weaker(UndoRetypeOf(h, m), h)
         /\ Kept(h, UndoRetypeOf(h, m))
         /\ UndoRetypeOf(h, m).nogood = h.nogood
<1> DEFINE n == UndoRetypeOf(h, m)
<1> Shaped(h)
  BY GraphShaped
<1>1. /\ n.live = h.live /\ n.arch = h.arch /\ n.edges = h.edges
      /\ n.comm = IF m.comm = {} THEN h.comm
                                 ELSE Over(One(m.old, CHOOSE c \in m.comm : TRUE), h.comm)
      /\ n.ent = [i \in DOMAIN h.ent |-> IF i = m.old THEN [h.ent[i] EXCEPT !.ty = m.ty]
                                                      ELSE h.ent[i]]
      /\ n.nogood = h.nogood /\ Shaped(n)
  BY DEF Shaped, UndoRetypeOf
<1> HIDE DEF n
<1>2. m.old \in Ids /\ m.ty \in Types /\ m.comm \subseteq Communities
  BY DEF RetypeRows
<1>3. IsTable(n.ent, Ids, EntityRows)
  <2>1. \A i \in DOMAIN h.ent : [h.ent[i] EXCEPT !.ty = m.ty] \in EntityRows
    BY <1>2 DEF IsGraph, IsTable, EntityRows
  <2> QED
    BY <1>1, <2>1 DEF IsGraph, IsTable
<1>4. IsTable(n.comm, Ids, Communities)
  <2>1. IsTable(h.comm, Ids, Communities)
    BY DEF IsGraph
  <2>2. CASE m.comm # {}
    <3> DEFINE c == CHOOSE x \in m.comm : TRUE
    <3>1. c \in Communities
      BY <1>2, <2>2
    <3>2. n.comm = Over(One(m.old, c), h.comm)
      BY <1>1, <2>2
    <3> HIDE DEF c
    <3>3. IsTable(One(m.old, c), Ids, Communities)
      BY <1>2, <3>1, OneTable
    <3> QED
      BY <2>1, <3>2, <3>3, OverTable
  <2> QED
    BY <1>1, <2>1, <2>2
<1>5. IsGraph(n)
  BY <1>1, <1>3, <1>4, ShapedGraph DEF IsGraph
<1>6. Weaker(n, h) /\ Kept(h, n)
  BY <1>1 DEF Weaker, Kept
<1> QED
  BY <1>1, <1>5, <1>6 DEF n

-----------------------------------------------------------------------------
\* Archiving and restoring

LEMMA ArchiveGraph ==
  ASSUME NEW h, IsGraph(h), NEW F \in SUBSET DOMAIN h.live
  PROVE  LET n == ArchiveFacts(h, F) IN
         /\ IsGraph(n) /\ Weaker(n, h) /\ Kept(h, n)
         /\ n.ent = h.ent /\ n.edges = h.edges /\ n.comm = h.comm /\ n.nogood = h.nogood
<1> DEFINE n == ArchiveFacts(h, F)
           copies == [f \in F |-> [h.live[f] EXCEPT !.inert = FALSE]]
<1> Shaped(h)
  BY GraphShaped
<1>1. /\ n.ent = h.ent /\ n.edges = h.edges /\ n.comm = h.comm /\ n.nogood = h.nogood
      /\ n.live = Restrict(h.live, DOMAIN h.live \ F)
      /\ n.arch = Over(copies, h.arch)
      /\ Shaped(n)
  BY DEF Shaped, ArchiveFacts
<1> HIDE DEF n
<1>2. IsTable(copies, Facts, FactRows) /\ DOMAIN copies = F
  <2>1. ASSUME NEW f \in F
        PROVE  f \in Facts /\ [h.live[f] EXCEPT !.inert = FALSE] \in FactRows
    <3>1. f \in Facts /\ h.live[f] \in FactRows
      BY DEF IsGraph, IsTable
    <3> QED
      BY <3>1 DEF FactRows
  <2> QED
    BY <2>1 DEF IsTable
<1> HIDE DEF copies
<1>3. IsTable(n.arch, Facts, FactRows) /\ DOMAIN n.arch = F \cup DOMAIN h.arch
  <2>1. IsTable(h.arch, Facts, FactRows)
    BY DEF IsGraph
  <2>2. IsTable(Over(copies, h.arch), Facts, FactRows)
    BY <1>2, <2>1, OverTable
  <2>3. DOMAIN Over(copies, h.arch) = DOMAIN copies \cup DOMAIN h.arch
    BY DEF Over
  <2> QED
    BY <1>1, <1>2, <2>2, <2>3
<1>4. IsTable(n.live, Facts, FactRows) /\ DOMAIN n.live = DOMAIN h.live \ F
  BY <1>1, RestrictTable DEF IsGraph
<1>5. IsGraph(n)
  BY <1>1, <1>3, <1>4, ShapedGraph DEF IsGraph
<1>6. Weaker(n, h)
  BY <1>1, <1>4 DEF Weaker, Restrict
<1>7. Kept(h, n)
  BY <1>3, <1>4 DEF Kept
<1> QED
  BY <1>1, <1>5, <1>6, <1>7 DEF n

LEMMA RestoreGraph ==
  ASSUME NEW h, IsGraph(h), NEW F
  PROVE  LET n == RestoreFacts(h, F) IN
         /\ IsGraph(n) /\ Kept(h, n)
         /\ n.ent = h.ent /\ n.edges = h.edges /\ n.comm = h.comm /\ n.nogood = h.nogood
<1> DEFINE n == RestoreFacts(h, F)
<1> Shaped(h)
  BY GraphShaped
<1>1. /\ n.ent = h.ent /\ n.edges = h.edges /\ n.comm = h.comm /\ n.nogood = h.nogood
      /\ n.live = Over(h.live, Restrict(h.arch, F \cap DOMAIN h.arch))
      /\ n.arch = Restrict(h.arch, DOMAIN h.arch \ F)
      /\ Shaped(n)
  BY DEF Shaped, RestoreFacts
<1> HIDE DEF n
<1>2. /\ IsTable(Restrict(h.arch, F \cap DOMAIN h.arch), Facts, FactRows)
      /\ DOMAIN Restrict(h.arch, F \cap DOMAIN h.arch) = F \cap DOMAIN h.arch
  BY RestrictTable DEF IsGraph
<1>3. /\ IsTable(n.live, Facts, FactRows)
      /\ DOMAIN n.live = DOMAIN h.live \cup (F \cap DOMAIN h.arch)
  <2> DEFINE back == Restrict(h.arch, F \cap DOMAIN h.arch)
  <2>1. IsTable(h.live, Facts, FactRows)
    BY DEF IsGraph
  <2>2. n.live = Over(h.live, back) /\ IsTable(back, Facts, FactRows)
    BY <1>1, <1>2
  <2>3. DOMAIN back = F \cap DOMAIN h.arch
    BY <1>2
  <2> HIDE DEF back
  <2>4. IsTable(Over(h.live, back), Facts, FactRows)
    BY <2>1, <2>2, OverTable
  <2>5. DOMAIN Over(h.live, back) = DOMAIN h.live \cup DOMAIN back
    BY DEF Over
  <2> QED
    BY <2>2, <2>3, <2>4, <2>5
<1>4. IsTable(n.arch, Facts, FactRows) /\ DOMAIN n.arch = DOMAIN h.arch \ F
  BY <1>1, RestrictTable DEF IsGraph
<1>5. IsGraph(n)
  BY <1>1, <1>3, <1>4, ShapedGraph DEF IsGraph
<1>6. Kept(h, n)
  BY <1>3, <1>4 DEF Kept
<1> QED
  BY <1>1, <1>5, <1>6 DEF n

LEMMA RetractedTable ==
  ASSUME NEW h, IsGraph(h), NEW C, NEW F
  PROVE  IsTable(Retracted(h, C, F), Ids, Communities)
BY RestrictTable DEF Retracted, IsGraph

LEMMA FactsOfGraph ==
  ASSUME NEW h, IsGraph(h), NEW e
  PROVE  /\ FactsOf(h, e) \subseteq DOMAIN h.live /\ DOMAIN h.live \subseteq Facts
         /\ ArchivedOf(h, e) \subseteq Facts
         /\ EpisodesOf(h, e) \subseteq Episodes
         /\ CommunityOf(h, e) \subseteq Communities
BY DEF FactsOf, ArchivedOf, EpisodesOf, CommunityOf, IsGraph, IsTable

LEMMA DeleteEntityGraph ==
  ASSUME NEW h, IsGraph(h), NEW e \in DOMAIN h.ent
  PROVE  /\ IsGraph(DeleteEntityOf(h, e))
         /\ Weaker(DeleteEntityOf(h, e), h)
         /\ Kept(h, DeleteEntityOf(h, e))
         /\ DeleteEntityOf(h, e).nogood = h.nogood
<1> DEFINE n == DeleteEntityOf(h, e)
           k == ArchiveFacts(h, FactsOf(h, e))
           gone == {e} \cup DOMAIN Retracted(h, Neighbours(h, e), FactsOf(h, e))
<1>1. /\ IsGraph(k) /\ Weaker(k, h) /\ Kept(h, k)
      /\ k.ent = h.ent /\ k.edges = h.edges /\ k.comm = h.comm /\ k.nogood = h.nogood
  BY FactsOfGraph, ArchiveGraph
<1>2. Shaped(k)
  BY <1>1, GraphShaped
<1>3. n = [k EXCEPT !.edges = {x \in @ : x[2] # e},
                    !.comm = Restrict(@, DOMAIN @ \ gone),
                    !.ent = Restrict(@, DOMAIN @ \ {e})]
  BY DEF DeleteEntityOf
<1> HIDE DEF n, k, gone
<1>4. /\ n.live = k.live /\ n.arch = k.arch /\ n.nogood = k.nogood
      /\ n.edges = {x \in k.edges : x[2] # e}
      /\ n.comm = Restrict(k.comm, DOMAIN k.comm \ gone)
      /\ n.ent = Restrict(k.ent, DOMAIN k.ent \ {e})
      /\ Shaped(n)
  BY <1>2, <1>3 DEF Shaped
<1>5. /\ IsTable(n.comm, Ids, Communities) /\ IsTable(n.ent, Ids, EntityRows)
      /\ n.edges \subseteq Episodes \X Ids
  BY <1>1, <1>4, RestrictTable DEF IsGraph
<1>6. IsGraph(n)
  BY <1>1, <1>4, <1>5, ShapedGraph DEF IsGraph
<1>7. Weaker(n, h) /\ Kept(h, n)
  BY <1>1, <1>4 DEF Weaker, Kept
<1> QED
  BY <1>1, <1>4, <1>6, <1>7 DEF n

LEMMA UndoDeleteEntityGraph ==
  ASSUME NEW h, IsGraph(h), NEW m \in EntityDeleteRows
  PROVE  /\ IsGraph(UndoDeleteEntityOf(h, m))
         /\ UndoDeleteEntityOf(h, m).live = RestoreFacts(h, m.facts).live
         /\ Kept(h, UndoDeleteEntityOf(h, m))
         /\ UndoDeleteEntityOf(h, m).nogood = h.nogood
<1> DEFINE n == UndoDeleteEntityOf(h, m)
           k == RestoreFacts(h, m.facts)
           own == [x \in {m.old : c \in m.comm} |-> CHOOSE c \in m.comm : TRUE]
<1>1. /\ IsGraph(k) /\ Kept(h, k)
      /\ k.ent = h.ent /\ k.edges = h.edges /\ k.comm = h.comm /\ k.nogood = h.nogood
  BY RestoreGraph
<1>2. Shaped(k)
  BY <1>1, GraphShaped
<1>3. n = [k EXCEPT !.ent = Over(One(m.old, m.row), @),
                    !.edges = @ \cup (m.episodes \X {m.old}),
                    !.comm = Over(m.retracted, Over(own, @))]
  BY DEF UndoDeleteEntityOf
<1>4. /\ m.old \in Ids /\ m.row \in EntityRows /\ m.episodes \subseteq Episodes
      /\ m.comm \subseteq Communities /\ IsTable(m.retracted, Ids, Communities)
  BY SmallTable DEF EntityDeleteRows
<1>5. IsTable(own, Ids, Communities)
  <2>1. m.comm # {} => (CHOOSE c \in m.comm : TRUE) \in Communities
    BY <1>4
  <2> QED
    BY <1>4, <2>1 DEF IsTable
<1> HIDE DEF n, k, own
<1>6. /\ n.live = k.live /\ n.arch = k.arch /\ n.nogood = k.nogood
      /\ n.edges = k.edges \cup (m.episodes \X {m.old})
      /\ n.comm = Over(m.retracted, Over(own, k.comm))
      /\ n.ent = Over(One(m.old, m.row), k.ent)
      /\ Shaped(n)
  BY <1>2, <1>3 DEF Shaped
<1>7. IsTable(n.comm, Ids, Communities)
  <2>1. IsTable(Over(own, k.comm), Ids, Communities)
    BY <1>1, <1>5, OverTable DEF IsGraph
  <2> QED
    BY <1>4, <1>6, <2>1, OverTable
<1>8. IsTable(n.ent, Ids, EntityRows)
  <2>1. IsTable(One(m.old, m.row), Ids, EntityRows)
    BY <1>4, OneTable
  <2> QED
    BY <1>1, <1>6, <2>1, OverTable DEF IsGraph
<1>9. n.edges \subseteq Episodes \X Ids
  BY <1>1, <1>4, <1>6 DEF IsGraph
<1>10. IsGraph(n)
  BY <1>1, <1>6, <1>7, <1>8, <1>9, ShapedGraph DEF IsGraph
<1>11. Kept(h, n)
  BY <1>1, <1>6 DEF Kept
<1> QED
  BY <1>1, <1>6, <1>10, <1>11 DEF n, k

LEMMA DeleteFactGraph ==
  ASSUME NEW h, IsGraph(h), NEW f \in DOMAIN h.live
  PROVE  /\ IsGraph(DeleteFactOf(h, f))
         /\ Weaker(DeleteFactOf(h, f), h)
         /\ Kept(h, DeleteFactOf(h, f))
         /\ DeleteFactOf(h, f).nogood = h.nogood
<1> DEFINE n == DeleteFactOf(h, f)
           k == ArchiveFacts(h, {f})
           gone == DOMAIN Retracted(h, Endpoints(h.live[f]), {f})
<1>1. /\ IsGraph(k) /\ Weaker(k, h) /\ Kept(h, k)
      /\ k.ent = h.ent /\ k.edges = h.edges /\ k.comm = h.comm /\ k.nogood = h.nogood
  BY ArchiveGraph
<1>2. Shaped(k)
  BY <1>1, GraphShaped
<1>3. n = [k EXCEPT !.comm = Restrict(@, DOMAIN @ \ gone)]
  BY DEF DeleteFactOf
<1> HIDE DEF n, k, gone
<1>4. /\ n.live = k.live /\ n.arch = k.arch /\ n.nogood = k.nogood
      /\ n.edges = k.edges /\ n.ent = k.ent
      /\ n.comm = Restrict(k.comm, DOMAIN k.comm \ gone)
      /\ Shaped(n)
  BY <1>2, <1>3 DEF Shaped
<1>5. IsTable(n.comm, Ids, Communities)
  BY <1>1, <1>4, RestrictTable DEF IsGraph
<1>6. IsGraph(n)
  BY <1>1, <1>4, <1>5, ShapedGraph DEF IsGraph
<1>7. Weaker(n, h) /\ Kept(h, n)
  BY <1>1, <1>4 DEF Weaker, Kept
<1> QED
  BY <1>1, <1>4, <1>6, <1>7 DEF n

LEMMA UndoDeleteFactGraph ==
  ASSUME NEW h, IsGraph(h), NEW m \in FactDeleteRows
  PROVE  /\ IsGraph(UndoDeleteFactOf(h, m))
         /\ UndoDeleteFactOf(h, m).live = RestoreFacts(h, {m.fact}).live
         /\ Kept(h, UndoDeleteFactOf(h, m))
         /\ UndoDeleteFactOf(h, m).nogood = h.nogood
<1> DEFINE n == UndoDeleteFactOf(h, m)
           k == RestoreFacts(h, {m.fact})
<1>1. /\ IsGraph(k) /\ Kept(h, k)
      /\ k.ent = h.ent /\ k.edges = h.edges /\ k.comm = h.comm /\ k.nogood = h.nogood
  BY RestoreGraph
<1>2. Shaped(k)
  BY <1>1, GraphShaped
<1>3. n = [k EXCEPT !.comm = Over(m.retracted, @)]
  BY DEF UndoDeleteFactOf
<1>4. IsTable(m.retracted, Ids, Communities)
  BY SmallTable DEF FactDeleteRows
<1> HIDE DEF n, k
<1>5. /\ n.live = k.live /\ n.arch = k.arch /\ n.nogood = k.nogood
      /\ n.edges = k.edges /\ n.ent = k.ent
      /\ n.comm = Over(m.retracted, k.comm)
      /\ Shaped(n)
  BY <1>2, <1>3 DEF Shaped
<1>6. IsTable(n.comm, Ids, Communities)
  BY <1>1, <1>4, <1>5, OverTable DEF IsGraph
<1>7. IsGraph(n)
  BY <1>1, <1>5, <1>6, ShapedGraph DEF IsGraph
<1>8. Kept(h, n)
  BY <1>1, <1>5 DEF Kept
<1> QED
  BY <1>1, <1>5, <1>7, <1>8 DEF n, k

-----------------------------------------------------------------------------
\* What the steps that do not log make of a graph

LEMMA AddedFact ==
  ASSUME NEW h, IsGraph(h), NEW f \in Facts, NEW row \in FactRows
  PROVE  LET n == [h EXCEPT !.live = Over(One(f, row), @)] IN
         /\ IsGraph(n) /\ n.nogood = h.nogood
         /\ f \notin DOMAIN h.arch => Kept(h, n)
<1> DEFINE n == [h EXCEPT !.live = Over(One(f, row), @)]
<1> Shaped(h)
  BY GraphShaped
<1>1. /\ n.live = Over(One(f, row), h.live) /\ n.ent = h.ent /\ n.arch = h.arch
      /\ n.edges = h.edges /\ n.comm = h.comm /\ n.nogood = h.nogood /\ Shaped(n)
  BY DEF Shaped
<1> HIDE DEF n
<1>2. IsTable(n.live, Facts, FactRows)
  <2>1. IsTable(One(f, row), Facts, FactRows)
    BY OneTable
  <2> QED
    BY <1>1, <2>1, OverTable DEF IsGraph
<1>3. IsGraph(n)
  BY <1>1, <1>2, ShapedGraph DEF IsGraph
<1>4. DOMAIN n.live = {f} \cup DOMAIN h.live
  BY <1>1 DEF Over, One
<1>5. f \notin DOMAIN h.arch => Kept(h, n)
  BY <1>1, <1>4 DEF Kept
<1> QED
  BY <1>1, <1>3, <1>5 DEF n

LEMMA AddedEntity ==
  ASSUME NEW h, IsGraph(h), NEW i \in Ids, NEW row \in EntityRows, NEW ep \in Episodes
  PROVE  LET n == [h EXCEPT !.ent = Over(One(i, row), @), !.edges = @ \cup {<<ep, i>>}] IN
         IsGraph(n) /\ Weaker(n, h) /\ Kept(h, n) /\ n.nogood = h.nogood
<1> DEFINE n == [h EXCEPT !.ent = Over(One(i, row), @), !.edges = @ \cup {<<ep, i>>}]
<1> Shaped(h)
  BY GraphShaped
<1>1. /\ n.ent = Over(One(i, row), h.ent) /\ n.live = h.live /\ n.arch = h.arch
      /\ n.edges = h.edges \cup {<<ep, i>>} /\ n.comm = h.comm /\ n.nogood = h.nogood
      /\ Shaped(n)
  BY DEF Shaped
<1> HIDE DEF n
<1>2. IsTable(n.ent, Ids, EntityRows)
  <2>1. IsTable(One(i, row), Ids, EntityRows)
    BY OneTable
  <2> QED
    BY <1>1, <2>1, OverTable DEF IsGraph
<1>3. IsGraph(n)
  BY <1>1, <1>2, ShapedGraph DEF IsGraph
<1> QED
  BY <1>1, <1>3 DEF n, Weaker, Kept

LEMMA ExpiredFact ==
  ASSUME NEW h, IsGraph(h), NEW f \in DOMAIN h.live
  PROVE  LET n == [h EXCEPT !.live[f].exp = "other"] IN
         IsGraph(n) /\ Weaker(n, h) /\ Kept(h, n) /\ n.nogood = h.nogood
<1> DEFINE n == [h EXCEPT !.live[f].exp = "other"]
<1> Shaped(h)
  BY GraphShaped
<1>1. /\ n.live = [h.live EXCEPT ![f].exp = "other"] /\ n.ent = h.ent /\ n.arch = h.arch
      /\ n.edges = h.edges /\ n.comm = h.comm /\ n.nogood = h.nogood /\ Shaped(n)
  BY DEF Shaped
<1> HIDE DEF n
<1>2. h.live[f] \in FactRows /\ h.live \in [DOMAIN h.live -> FactRows]
  BY DEF IsGraph, IsTable
<1>3. /\ [h.live[f] EXCEPT !.exp = "other"] \in FactRows
      /\ [h.live[f] EXCEPT !.exp = "other"].hash = h.live[f].hash
      /\ [h.live[f] EXCEPT !.exp = "other"].exp = "other"
  BY <1>2 DEF FactRows
<1>4. IsTable(n.live, Facts, FactRows) /\ DOMAIN n.live = DOMAIN h.live
  BY <1>1, <1>2, <1>3 DEF IsGraph, IsTable
<1>5. IsGraph(n)
  BY <1>1, <1>4, ShapedGraph DEF IsGraph
<1>6. Weaker(n, h) /\ Kept(h, n)
  BY <1>1, <1>2, <1>3, <1>4 DEF Weaker, Kept
<1> QED
  BY <1>1, <1>5, <1>6 DEF n

LEMMA Partitioned ==
  ASSUME NEW h, IsGraph(h), NEW parts, IsTable(parts, Ids, Communities)
  PROVE  LET n == [h EXCEPT !.comm = parts] IN
         IsGraph(n) /\ Weaker(n, h) /\ Kept(h, n) /\ n.nogood = h.nogood
<1> DEFINE n == [h EXCEPT !.comm = parts]
<1> Shaped(h)
  BY GraphShaped
<1>1. /\ n.comm = parts /\ n.ent = h.ent /\ n.live = h.live
      /\ n.arch = h.arch /\ n.edges = h.edges /\ n.nogood = h.nogood /\ Shaped(n)
  BY DEF Shaped
<1> HIDE DEF n
<1>2. IsTable(n.comm, Ids, Communities)
  BY <1>1
<1>3. IsGraph(n)
  BY <1>1, <1>2, ShapedGraph DEF IsGraph
<1> QED
  BY <1>1, <1>3 DEF n, Weaker, Kept

-----------------------------------------------------------------------------
\* The snapshots are log rows

LEMMA MergeSnapshotRow ==
  ASSUME NEW h, IsGraph(h), NEW l \in Ids, NEW k \in Ids, Mergeable(h, l, k)
  PROVE  MergeSnapshot(h, l, k) \in MergeRows
<1>1. h.ent[l] \in EntityRows /\ h.ent[k] \in EntityRows
  BY DEF IsGraph, IsTable, Mergeable
<1>2. h.ent[k].ac \in Nat
  BY <1>1 DEF EntityRows
<1>3. \A f \in DOMAIN h.live : f \in Facts /\ h.live[f].inert \in BOOLEAN
  BY DEF IsGraph, IsTable, FactRows
<1> DEFINE subjects == [f \in {x \in FactsOf(h, l) : h.live[x].s = l} |-> h.live[f].inert]
           objects == [f \in {x \in FactsOf(h, l) : h.live[x].o = l} |-> h.live[f].inert]
<1>4. subjects \in Tables(Facts, BOOLEAN) /\ objects \in Tables(Facts, BOOLEAN)
  <2>1. IsTable(subjects, Facts, BOOLEAN) /\ IsTable(objects, Facts, BOOLEAN)
    BY <1>3 DEF IsTable, FactsOf
  <2> QED
    BY <2>1, SmallTable
<1>5. /\ EpisodesOf(h, l) \cap EpisodesOf(h, k) \subseteq Episodes
      /\ EpisodesOf(h, l) \ EpisodesOf(h, k) \subseteq Episodes
      /\ SelfLoops(h, l, k) \subseteq Facts
  BY <1>3 DEF EpisodesOf, SelfLoops
<1>6. MergeSnapshot(h, l, k) =
        [kind |-> "merge", loser |-> l, keeper |-> k,
         row |-> h.ent[l], ac |-> h.ent[k].ac,
         subjects |-> subjects, objects |-> objects,
         collided |-> EpisodesOf(h, l) \cap EpisodesOf(h, k),
         moved |-> EpisodesOf(h, l) \ EpisodesOf(h, k),
         loops |-> SelfLoops(h, l, k),
         undone |-> FALSE]
  BY DEF MergeSnapshot
<1> HIDE DEF subjects, objects
<1> QED
  BY <1>1, <1>2, <1>4, <1>5, <1>6 DEF MergeRows

LEMMA OtherSnapshotRows ==
  ASSUME NEW h, IsGraph(h)
  PROVE  /\ \A a, b \in Ids : RenameSnapshot(h, a, b) \in RenameRows
         /\ \A e \in DOMAIN h.ent, t \in Types : RetypeSnapshot(h, e, t) \in RetypeRows
         /\ \A e \in DOMAIN h.ent : DeleteEntitySnapshot(h, e) \in EntityDeleteRows
         /\ \A f \in DOMAIN h.live : DeleteFactSnapshot(h, f) \in FactDeleteRows
<1>1. ASSUME NEW a \in Ids, NEW b \in Ids
      PROVE  RenameSnapshot(h, a, b) \in RenameRows
  <2>1. FactsOf(h, a) \subseteq Facts /\ ArchivedOf(h, a) \subseteq Facts
        /\ EpisodesOf(h, a) \subseteq Episodes
    BY FactsOfGraph
  <2> QED
    BY <2>1 DEF RenameSnapshot, RenameRows
<1>2. ASSUME NEW e \in DOMAIN h.ent
      PROVE  e \in Ids /\ h.ent[e] \in EntityRows /\ h.ent[e].ty \in Types
  BY DEF IsGraph, IsTable, EntityRows
<1>3. ASSUME NEW e \in DOMAIN h.ent, NEW t \in Types
      PROVE  RetypeSnapshot(h, e, t) \in RetypeRows
  <2>1. CommunityOf(h, e) \subseteq Communities
    BY FactsOfGraph
  <2> QED
    BY <1>2, <2>1 DEF RetypeSnapshot, RetypeRows
<1>4. ASSUME NEW e \in DOMAIN h.ent
      PROVE  DeleteEntitySnapshot(h, e) \in EntityDeleteRows
  <2>1. FactsOf(h, e) \subseteq Facts /\ EpisodesOf(h, e) \subseteq Episodes
        /\ CommunityOf(h, e) \subseteq Communities
    BY FactsOfGraph
  <2>2. Retracted(h, Neighbours(h, e), FactsOf(h, e)) \in Tables(Ids, Communities)
    BY RetractedTable, SmallTable
  <2> QED
    BY <1>2, <2>1, <2>2 DEF DeleteEntitySnapshot, EntityDeleteRows
<1>5. ASSUME NEW f \in DOMAIN h.live
      PROVE  DeleteFactSnapshot(h, f) \in FactDeleteRows
  <2>1. f \in Facts
    BY FactsOfGraph
  <2>2. Retracted(h, Endpoints(h.live[f]), {f}) \in Tables(Ids, Communities)
    BY RetractedTable, SmallTable
  <2> QED
    BY <2>1, <2>2 DEF DeleteFactSnapshot, FactDeleteRows
<1> QED
  BY <1>1, <1>3, <1>4, <1>5

-----------------------------------------------------------------------------
\* The invariant and its steps

IndInv == TypeOK /\ OneHome

\* What a step owes the graph, for IndInv and FactsNeverLost to go through it.
Sound(h, n) == IsGraph(n) /\ HashUnique(n) /\ Kept(h, n) /\ h.nogood \subseteq n.nogood

LEMMA WeakerSound ==
  ASSUME NEW h, NEW n, HashUnique(h), IsGraph(n), Weaker(n, h), Kept(h, n), n.nogood = h.nogood
  PROVE  Sound(h, n)
BY WeakerUnique DEF Sound

\* A row of the log is a row of its kind.
LEMMA RowOfKind ==
  ASSUME TypeOK, NEW i \in DOMAIN log
  PROVE  /\ log[i] \in LogRows
         /\ log[i].kind = "merge" => log[i] \in MergeRows /\ log[i].loser # log[i].keeper
         /\ log[i].kind = "rename" => log[i] \in RenameRows
         /\ log[i].kind = "retype" => log[i] \in RetypeRows
         /\ log[i].kind = "entity_delete" => log[i] \in EntityDeleteRows
         /\ log[i].kind = "fact_delete" => log[i] \in FactDeleteRows
<1>1. log[i] \in LogRows
  BY DEF TypeOK
<1> QED
  BY <1>1 DEF TypeOK, LogRows, MergeRows, RenameRows, RetypeRows, EntityDeleteRows, FactDeleteRows

LEMMA StampedRow ==
  ASSUME NEW m \in LogRows
  PROVE  LET r == [m EXCEPT !.undone = TRUE] IN
         /\ r \in LogRows /\ r.kind = m.kind
         /\ m.kind = "merge" => r.loser = m.loser /\ r.keeper = m.keeper
BY DEF LogRows, MergeRows, RenameRows, RetypeRows, EntityDeleteRows, FactDeleteRows

LEMMA MutateStep ==
  ASSUME IndInv, NEW op, NEW STATE entry, NEW STATE new, Mutate(op, entry, new),
         entry \in LogRows, entry.kind = "merge" => entry.loser # entry.keeper,
         Sound(g, new)
  PROVE  IndInv' /\ Kept(g, g')
<1>1. log' \in Seq(LogRows) /\ Len(log') <= MaxLog
  BY MutationAssumption DEF IndInv, TypeOK, Mutate
<1>2. \A i \in DOMAIN log' : log'[i].kind = "merge" => log'[i].loser # log'[i].keeper
  BY DEF IndInv, TypeOK, Mutate
<1> QED
  BY <1>1, <1>2 DEF IndInv, TypeOK, OneHome, Mutate, Sound, Kept

LEMMA ReverseStep ==
  ASSUME IndInv, NEW i \in DOMAIN log, NEW STATE new, Reverse(i, new), Sound(g, new)
  PROVE  IndInv' /\ Kept(g, g')
<1>1. DOMAIN log' = DOMAIN log /\ Len(log') = Len(log)
  BY DEF IndInv, TypeOK, Reverse
<1>2. ASSUME NEW j \in DOMAIN log
      PROVE  /\ log'[j] \in LogRows
             /\ log'[j].kind = "merge" => log'[j].loser # log'[j].keeper
  <2>1. log[j] \in LogRows /\ (log[j].kind = "merge" => log[j].loser # log[j].keeper)
    BY RowOfKind DEF IndInv
  <2>2. log'[j] = IF j = i THEN [log[j] EXCEPT !.undone = TRUE] ELSE log[j]
    BY DEF Reverse, IndInv, TypeOK
  <2> QED
    BY <2>1, <2>2, StampedRow
<1>3. log' \in Seq(LogRows)
  <2> DEFINE r == [log[i] EXCEPT !.undone = TRUE]
  <2>1. log[i] \in LogRows
    BY RowOfKind DEF IndInv
  <2>2. r \in LogRows
    BY <2>1, StampedRow
  <2>3. log' = [log EXCEPT ![i] = r]
    BY DEF Reverse
  <2> HIDE DEF r
  <2> QED
    BY <2>2, <2>3 DEF IndInv, TypeOK
<1> QED
  BY <1>1, <1>2, <1>3 DEF IndInv, TypeOK, OneHome, Reverse, Sound, Kept

LEMMA PlainStep ==
  ASSUME IndInv, UNCHANGED <<log, known>>, Sound(g, g'), IsGraph(base'), seen' \subseteq Facts
  PROVE  IndInv' /\ Kept(g, g')
BY DEF IndInv, TypeOK, OneHome, Sound, Kept

LEMMA AddFactStep ==
  ASSUME IndInv, NEW f \in Facts, NEW s \in Ids, NEW o \in Ids \cup {Literal}, AddFact(f, s, o)
  PROVE  IndInv' /\ Kept(g, g')
<1> DEFINE row == [s |-> s, o |-> o, hash |-> <<s, o>>, exp |-> "no", inert |-> FALSE]
<1>1. /\ g' = [g EXCEPT !.live = Over(One(f, row), @)] /\ HashUnique(g')
      /\ base' = [base EXCEPT !.live = Over(One(f, row), @)]
      /\ f \notin DOMAIN g.arch /\ UNCHANGED <<log, known, seen>>
  BY DEF AddFact
<1>2. row \in FactRows
  BY DEF FactRows
<1>3. IsGraph(g) /\ IsGraph(base)
  BY DEF IndInv, TypeOK
<1> HIDE DEF row
<1>4. Sound(g, g')
  BY <1>1, <1>2, <1>3, AddedFact DEF Sound
<1>5. IsGraph(base')
  BY <1>1, <1>2, <1>3, AddedFact
<1>6. seen' \subseteq Facts
  BY <1>1 DEF IndInv, TypeOK
<1> QED
  BY <1>1, <1>4, <1>5, <1>6, PlainStep

LEMMA UnloggedSteps ==
  ASSUME IndInv
  PROVE  /\ \A i \in Ids, ep \in Episodes, t \in Types :
              AddEntity(i, ep, t) => IndInv' /\ Kept(g, g')
         /\ \A f \in Facts : ReadUnexpired(f) \/ InvalidateFact(f) => IndInv' /\ Kept(g, g')
         /\ \A members \in SUBSET Ids, c \in Communities :
              DetectCommunities(members, c) => IndInv' /\ Kept(g, g')
         /\ StartPass => IndInv' /\ Kept(g, g')
<1>1. IsGraph(g) /\ IsGraph(base) /\ HashUnique(g) /\ seen \subseteq Facts
  BY DEF IndInv, TypeOK
<1>2. ASSUME NEW i \in Ids, NEW ep \in Episodes, NEW t \in Types, AddEntity(i, ep, t)
      PROVE  IndInv' /\ Kept(g, g')
  <2> DEFINE row == [props |-> i, ac |-> 0, ty |-> t]
  <2>1. /\ g' = [g EXCEPT !.ent = Over(One(i, row), @), !.edges = @ \cup {<<ep, i>>}]
        /\ base' = IF i \in DOMAIN base.ent THEN base
                   ELSE [base EXCEPT !.ent = Over(One(i, row), @), !.edges = @ \cup {<<ep, i>>}]
        /\ UNCHANGED <<log, known, seen>>
    BY <1>2 DEF AddEntity
  <2>2. row \in EntityRows
    BY DEF EntityRows
  <2> HIDE DEF row
  <2>3. Sound(g, g')
    BY <1>1, <2>1, <2>2, AddedEntity, WeakerSound
  <2>4. IsGraph(base')
    BY <1>1, <2>1, <2>2, AddedEntity
  <2> QED
    BY <1>1, <2>1, <2>3, <2>4, PlainStep
<1>3. ASSUME NEW f \in Facts, ReadUnexpired(f)
      PROVE  IndInv' /\ Kept(g, g')
  BY <1>3 DEF ReadUnexpired, IndInv, TypeOK, OneHome, Kept
<1>4. ASSUME NEW f \in Facts, InvalidateFact(f)
      PROVE  IndInv' /\ Kept(g, g')
  <2>1. UNCHANGED <<log, known, base>> /\ seen' \subseteq Facts
    BY <1>1, <1>4 DEF InvalidateFact
  <2>2. CASE f \in DOMAIN g.live
    <3>1. g' = [g EXCEPT !.live[f].exp = "other"]
      BY <1>4, <2>2 DEF InvalidateFact
    <3>2. Sound(g, g')
      BY <1>1, <2>2, <3>1, ExpiredFact, WeakerSound
    <3> QED
      BY <1>1, <2>1, <3>2, PlainStep
  <2>3. CASE f \notin DOMAIN g.live
    BY <1>4, <2>3 DEF InvalidateFact, IndInv, TypeOK, OneHome, Kept
  <2> QED
    BY <2>2, <2>3
<1>5. ASSUME NEW members \in SUBSET Ids, NEW c \in Communities, DetectCommunities(members, c)
      PROVE  IndInv' /\ Kept(g, g')
  <2> DEFINE parts == [i \in members |-> c]
  <2>1. g' = [g EXCEPT !.comm = parts] /\ UNCHANGED <<log, known, seen, base>>
    BY <1>5 DEF DetectCommunities
  <2>2. IsTable(parts, Ids, Communities)
    BY DEF IsTable
  <2> HIDE DEF parts
  <2>3. Sound(g, g')
    BY <1>1, <2>1, <2>2, Partitioned, WeakerSound
  <2> QED
    BY <1>1, <2>1, <2>3, PlainStep
<1>6. ASSUME StartPass
      PROVE  IndInv' /\ Kept(g, g')
  BY <1>6 DEF StartPass, IndInv, TypeOK, OneHome, Kept
<1> QED
  BY <1>2, <1>3, <1>4, <1>5, <1>6

LEMMA MutationSteps ==
  ASSUME IndInv
  PROVE  /\ \A l, k \in Ids : Merge(l, k) => IndInv' /\ Kept(g, g')
         /\ \A a, b \in Ids : Rename(a, b) => IndInv' /\ Kept(g, g')
         /\ \A e \in Ids, t \in Types : Retype(e, t) => IndInv' /\ Kept(g, g')
         /\ \A e \in Ids : DeleteEntity(e) => IndInv' /\ Kept(g, g')
         /\ \A f \in Facts : DeleteFact(f) => IndInv' /\ Kept(g, g')
<1>1. IsGraph(g) /\ HashUnique(g)
  BY DEF IndInv, TypeOK
<1>2. ASSUME NEW l \in Ids, NEW k \in Ids, Merge(l, k)
      PROVE  IndInv' /\ Kept(g, g')
  <2>1. Mergeable(g, l, k) /\ Mutate("merge", MergeSnapshot(g, l, k), MergeOf(g, l, k))
    BY <1>2 DEF Merge
  <2>2. Sound(g, MergeOf(g, l, k))
    BY <1>1, <2>1, MergeGraph, WeakerSound
  <2>3. MergeSnapshot(g, l, k) \in MergeRows
    BY <1>1, <2>1, MergeSnapshotRow
  <2>4. MergeSnapshot(g, l, k).loser # MergeSnapshot(g, l, k).keeper
    BY <2>1 DEF MergeSnapshot, Mergeable
  <2>5. MergeSnapshot(g, l, k) \in LogRows
    BY <2>3 DEF LogRows
  <2> QED
    BY <2>1, <2>2, <2>4, <2>5, MutateStep
<1>3. ASSUME NEW a \in Ids, NEW b \in Ids, Rename(a, b)
      PROVE  IndInv' /\ Kept(g, g')
  <2>1. Mutate("rename", RenameSnapshot(g, a, b), RenameOf(g, a, b))
    BY <1>3 DEF Rename
  <2>2. Sound(g, RenameOf(g, a, b))
    BY <1>1, RenameGraph, WeakerSound
  <2>3. RenameSnapshot(g, a, b) \in LogRows /\ RenameSnapshot(g, a, b).kind # "merge"
    BY <1>1, OtherSnapshotRows DEF LogRows, RenameRows
  <2> QED
    BY <2>1, <2>2, <2>3, MutateStep
<1>4. ASSUME NEW e \in Ids, NEW t \in Types, Retype(e, t)
      PROVE  IndInv' /\ Kept(g, g')
  <2>1. e \in DOMAIN g.ent /\ Mutate("retype", RetypeSnapshot(g, e, t), RetypeOf(g, e, t))
    BY <1>4 DEF Retype
  <2>2. Sound(g, RetypeOf(g, e, t))
    BY <1>1, <2>1, RetypeGraph, WeakerSound
  <2>3. RetypeSnapshot(g, e, t) \in LogRows /\ RetypeSnapshot(g, e, t).kind # "merge"
    BY <1>1, <2>1, OtherSnapshotRows DEF LogRows, RetypeRows
  <2> QED
    BY <2>1, <2>2, <2>3, MutateStep
<1>5. ASSUME NEW e \in Ids, DeleteEntity(e)
      PROVE  IndInv' /\ Kept(g, g')
  <2>1. /\ e \in DOMAIN g.ent
        /\ Mutate("entity_delete", DeleteEntitySnapshot(g, e), DeleteEntityOf(g, e))
    BY <1>5 DEF DeleteEntity
  <2>2. Sound(g, DeleteEntityOf(g, e))
    BY <1>1, <2>1, DeleteEntityGraph, WeakerSound
  <2>3. DeleteEntitySnapshot(g, e) \in LogRows /\ DeleteEntitySnapshot(g, e).kind # "merge"
    BY <1>1, <2>1, OtherSnapshotRows DEF LogRows, EntityDeleteRows
  <2> QED
    BY <2>1, <2>2, <2>3, MutateStep
<1>6. ASSUME NEW f \in Facts, DeleteFact(f)
      PROVE  IndInv' /\ Kept(g, g')
  <2>1. /\ f \in DOMAIN g.live
        /\ Mutate("fact_delete", DeleteFactSnapshot(g, f), DeleteFactOf(g, f))
    BY <1>6 DEF DeleteFact
  <2>2. Sound(g, DeleteFactOf(g, f))
    BY <1>1, <2>1, DeleteFactGraph, WeakerSound
  <2>3. DeleteFactSnapshot(g, f) \in LogRows /\ DeleteFactSnapshot(g, f).kind # "merge"
    BY <1>1, <2>1, OtherSnapshotRows DEF LogRows, FactDeleteRows
  <2> QED
    BY <2>1, <2>2, <2>3, MutateStep
<1> QED
  BY <1>2, <1>3, <1>4, <1>5, <1>6

LEMMA ReversalSteps ==
  ASSUME IndInv, NEW i \in DOMAIN log
  PROVE  /\ Unmerge(i) => IndInv' /\ Kept(g, g')
         /\ UndoRename(i) => IndInv' /\ Kept(g, g')
         /\ UndoRetype(i) => IndInv' /\ Kept(g, g')
         /\ UndoDeleteEntity(i) => IndInv' /\ Kept(g, g')
         /\ UndoDeleteFact(i) => IndInv' /\ Kept(g, g')
<1>1. TypeOK /\ IsGraph(g) /\ HashUnique(g)
  BY DEF IndInv, TypeOK
<1>2. ASSUME Unmerge(i)
      PROVE  IndInv' /\ Kept(g, g')
  <2>1. log[i].kind = "merge" /\ Unmergeable(g, log[i]) /\ Reverse(i, UnmergeOf(g, log[i]))
    BY <1>2 DEF Unmerge, Standing
  <2>2. log[i] \in MergeRows /\ log[i].loser # log[i].keeper
    BY <1>1, <2>1, RowOfKind
  <2>3. Sound(g, UnmergeOf(g, log[i]))
    BY <1>1, <2>1, <2>2, UnmergeGraph DEF Sound
  <2> QED
    BY <2>1, <2>3, ReverseStep
<1>3. ASSUME UndoRename(i)
      PROVE  IndInv' /\ Kept(g, g')
  <2>1. log[i].kind = "rename" /\ Reverse(i, UndoRenameOf(g, log[i]))
    BY <1>3 DEF UndoRename, Standing
  <2>2. log[i] \in RenameRows
    BY <1>1, <2>1, RowOfKind
  <2>3. Sound(g, UndoRenameOf(g, log[i]))
    BY <1>1, <2>2, UndoRenameGraph, WeakerSound
  <2> QED
    BY <2>1, <2>3, ReverseStep
<1>4. ASSUME UndoRetype(i)
      PROVE  IndInv' /\ Kept(g, g')
  <2>1. log[i].kind = "retype" /\ Reverse(i, UndoRetypeOf(g, log[i]))
    BY <1>4 DEF UndoRetype, Standing
  <2>2. log[i] \in RetypeRows
    BY <1>1, <2>1, RowOfKind
  <2>3. Sound(g, UndoRetypeOf(g, log[i]))
    BY <1>1, <2>2, UndoRetypeGraph, WeakerSound
  <2> QED
    BY <2>1, <2>3, ReverseStep
<1>5. ASSUME UndoDeleteEntity(i)
      PROVE  IndInv' /\ Kept(g, g')
  <2>1. /\ log[i].kind = "entity_delete" /\ Restorable(g, log[i].facts)
        /\ Reverse(i, UndoDeleteEntityOf(g, log[i]))
    BY <1>5 DEF UndoDeleteEntity, Standing, EntityDeleteUndoable
  <2>2. log[i] \in EntityDeleteRows
    BY <1>1, <2>1, RowOfKind
  <2>3. HashUnique(UndoDeleteEntityOf(g, log[i]))
    BY <1>1, <2>1, <2>2, UndoDeleteEntityGraph DEF Restorable, HashUnique
  <2>4. Sound(g, UndoDeleteEntityOf(g, log[i]))
    BY <1>1, <2>2, <2>3, UndoDeleteEntityGraph DEF Sound
  <2> QED
    BY <2>1, <2>4, ReverseStep
<1>6. ASSUME UndoDeleteFact(i)
      PROVE  IndInv' /\ Kept(g, g')
  <2>1. /\ log[i].kind = "fact_delete" /\ Restorable(g, {log[i].fact})
        /\ Reverse(i, UndoDeleteFactOf(g, log[i]))
    BY <1>6 DEF UndoDeleteFact, Standing
  <2>2. log[i] \in FactDeleteRows
    BY <1>1, <2>1, RowOfKind
  <2>3. HashUnique(UndoDeleteFactOf(g, log[i]))
    BY <1>1, <2>1, <2>2, UndoDeleteFactGraph DEF Restorable, HashUnique
  <2>4. Sound(g, UndoDeleteFactOf(g, log[i]))
    BY <1>1, <2>2, <2>3, UndoDeleteFactGraph DEF Sound
  <2> QED
    BY <2>1, <2>4, ReverseStep
<1> QED
  BY <1>2, <1>3, <1>4, <1>5, <1>6

LEMMA InitInv == Init => IndInv
<1> SUFFICES ASSUME Init
             PROVE  IndInv
  OBVIOUS
<1>1. IsGraph(g) /\ IsGraph(base) /\ HashUnique(g) /\ OneHome
  BY MutationAssumption DEF Init, OneHome
<1>2. log \in Seq(LogRows) /\ Len(log) = 0 /\ DOMAIN log = {}
  BY DEF Init
<1> QED
  BY <1>1, <1>2, MutationAssumption DEF IndInv, TypeOK, Init

LEMMA StepInv ==
  ASSUME IndInv, [Next]_vars
  PROVE  IndInv' /\ Kept(g, g')
<1>1. CASE UNCHANGED vars
  BY <1>1 DEF vars, IndInv, TypeOK, OneHome, Kept
<1>2. CASE Next
  <2>1. CASE \E f \in Facts : ReadUnexpired(f) \/ InvalidateFact(f) \/ DeleteFact(f)
    BY <2>1, UnloggedSteps, MutationSteps
  <2>2. CASE \E f \in Facts, s \in Ids, o \in Ids \cup {Literal} : AddFact(f, s, o)
    BY <2>2, AddFactStep
  <2>3. CASE \E i \in Ids, ep \in Episodes, t \in Types : AddEntity(i, ep, t)
    BY <2>3, UnloggedSteps
  <2>4. CASE \E members \in SUBSET Ids, c \in Communities : DetectCommunities(members, c)
    BY <2>4, UnloggedSteps
  <2>5. CASE StartPass
    BY <2>5, UnloggedSteps
  <2>6. CASE \E a, b \in Ids : Merge(a, b) \/ Rename(a, b)
    BY <2>6, MutationSteps
  <2>7. CASE \E e \in Ids, t \in Types : Retype(e, t)
    BY <2>7, MutationSteps
  <2>8. CASE \E e \in Ids : DeleteEntity(e)
    BY <2>8, MutationSteps
  <2>9. CASE \E i \in DOMAIN log : \/ Unmerge(i) \/ UndoRename(i) \/ UndoRetype(i)
                                   \/ UndoDeleteEntity(i) \/ UndoDeleteFact(i)
    BY <2>9, ReversalSteps
  <2> QED
    BY <1>2, <2>1, <2>2, <2>3, <2>4, <2>5, <2>6, <2>7, <2>8, <2>9 DEF Next
<1> QED
  BY <1>1, <1>2

-----------------------------------------------------------------------------
\* A merge and its reversal

LEMMA MergeRoundTrip ==
  ASSUME NEW h, IsGraph(h), HashUnique(h), NEW l \in Ids, NEW k \in Ids, Mergeable(h, l, k)
  PROVE  LET m == MergeSnapshot(h, l, k)  n == MergeOf(h, l, k) IN
         /\ Unmergeable(n, m)
         /\ UnmergeOf(n, m) = [h EXCEPT !.nogood = @ \cup {{l, k}}]
<1> DEFINE m == MergeSnapshot(h, l, k)
           n == MergeOf(h, l, k)
           u == UnmergeOf(n, m)
           w == [h EXCEPT !.nogood = @ \cup {{l, k}}]
           back == {ep \in m.moved : <<ep, m.keeper>> \in n.edges}
<1>1. Shaped(h) /\ IsGraph(n) /\ Shaped(n)
  BY MergeGraph, GraphShaped
<1>2. /\ m.loser = l /\ m.keeper = k /\ m.row = h.ent[l] /\ m.ac = h.ent[k].ac
      /\ m.collided = EpisodesOf(h, l) \cap EpisodesOf(h, k)
      /\ m.moved = EpisodesOf(h, l) \ EpisodesOf(h, k)
      /\ m.loops = SelfLoops(h, l, k)
      /\ m.subjects = [f \in {x \in FactsOf(h, l) : h.live[x].s = l} |-> h.live[f].inert]
      /\ m.objects = [f \in {x \in FactsOf(h, l) : h.live[x].o = l} |-> h.live[f].inert]
  BY DEF MergeSnapshot
<1>3. /\ n.arch = h.arch /\ n.comm = h.comm /\ n.nogood = h.nogood
      /\ n.live = [f \in DOMAIN h.live |->
                     [Move(h.live[f], l, k) EXCEPT
                        !.inert = @ \/ Touches(h.live[f], l),
                        !.exp = IF f \in SelfLoops(h, l, k) THEN "merge" ELSE @]]
      /\ n.edges = {e \in h.edges : e[2] # l} \cup {<<ep, k>> : ep \in EpisodesOf(h, l)}
      /\ n.ent = [i \in DOMAIN h.ent \ {l} |->
                    IF i = k THEN [h.ent[k] EXCEPT !.ac = @ + h.ent[l].ac] ELSE h.ent[i]]
  BY <1>1 DEF Shaped, MergeOf
<1> HIDE DEF m, n
<1>4. /\ u.arch = n.arch /\ u.comm = n.comm /\ u.nogood = Forbid(n.nogood, m)
      /\ u.live = [f \in DOMAIN n.live |->
                    [n.live[f] EXCEPT
                       !.s = IF f \in DOMAIN m.subjects THEN m.loser ELSE @,
                       !.o = IF f \in DOMAIN m.objects THEN m.loser ELSE @,
                       !.inert = CASE f \in DOMAIN m.objects -> m.objects[f]
                                   [] f \in DOMAIN m.subjects -> m.subjects[f]
                                   [] OTHER -> @,
                       !.exp = IF f \in m.loops THEN "no" ELSE @]]
      /\ u.edges = (n.edges \ (back \X {m.keeper})) \cup ((back \cup m.collided) \X {m.loser})
      /\ u.ent = Over(One(m.loser, m.row), [n.ent EXCEPT ![m.keeper].ac = m.ac])
      /\ Shaped(u)
  BY <1>1 DEF Shaped, UnmergeOf
<1> HIDE DEF u
<1>5. /\ l # k /\ l \in DOMAIN h.ent /\ k \in DOMAIN h.ent
      /\ h.ent \in [DOMAIN h.ent -> EntityRows] /\ h.live \in [DOMAIN h.live -> FactRows]
      /\ h.edges \subseteq Episodes \X Ids
  BY DEF Mergeable, IsGraph, IsTable
<1>6. u.ent = h.ent
  <2>1. /\ h.ent[k] \in EntityRows /\ h.ent[l] \in EntityRows
    BY <1>5
  <2> DEFINE grown == [h.ent[k] EXCEPT !.ac = @ + h.ent[l].ac]
             old == [n.ent EXCEPT ![k].ac = h.ent[k].ac]
  <2>2. [grown EXCEPT !.ac = h.ent[k].ac] = h.ent[k]
    BY <2>1 DEF EntityRows
  <2>3. DOMAIN n.ent = DOMAIN h.ent \ {l} /\ n.ent[k] = grown
    BY <1>3, <1>5
  <2>4. old = [i \in DOMAIN h.ent \ {l} |-> h.ent[i]]
    BY <1>3, <1>5, <2>2, <2>3
  <2>5. u.ent = Over(One(l, h.ent[l]), old)
    BY <1>2, <1>4
  <2> HIDE DEF old, grown
  <2>6. DOMAIN u.ent = DOMAIN h.ent
    BY <1>5, <2>4, <2>5 DEF Over, One
  <2>7. \A i \in DOMAIN h.ent : u.ent[i] = h.ent[i]
    BY <1>5, <2>4, <2>5 DEF Over, One
  <2>8. u.ent = [i \in DOMAIN u.ent |-> u.ent[i]]
    BY <2>5 DEF Over
  <2> QED
    BY <1>5, <2>6, <2>7, <2>8
<1>7. u.live = h.live
  <2>1. ASSUME NEW f \in DOMAIN h.live
        PROVE  u.live[f] = h.live[f]
    <3> DEFINE r == h.live[f]
               t == Touches(r, l)
               loop == f \in SelfLoops(h, l, k)
               mv == Move(r, l, k)
               q == n.live[f]
    <3>1. r \in FactRows /\ (loop => r.exp = "no")
      BY <1>5 DEF SelfLoops
    <3>2. q = [mv EXCEPT !.inert = @ \/ t, !.exp = IF loop THEN "merge" ELSE @]
      BY <1>3
    <3>3. /\ mv \in FactRows /\ mv.hash = r.hash /\ mv.exp = r.exp
          /\ mv.s = IF r.s = l THEN k ELSE r.s
          /\ mv.o = IF r.o = l THEN k ELSE r.o
          /\ mv.inert = r.inert
      BY <3>1 DEF Move, FactRows
    <3>4. t \in BOOLEAN /\ r.inert \in BOOLEAN /\ (t <=> r.s = l \/ r.o = l)
      BY <3>1 DEF Touches, FactRows
    <3>5. /\ f \in DOMAIN m.subjects <=> r.s = l
          /\ f \in DOMAIN m.objects <=> r.o = l
          /\ f \in DOMAIN m.subjects => m.subjects[f] = r.inert
          /\ f \in DOMAIN m.objects => m.objects[f] = r.inert
          /\ f \in m.loops <=> loop
      BY <1>2 DEF FactsOf, Touches
    <3> DEFINE i == CASE f \in DOMAIN m.objects -> m.objects[f]
                      [] f \in DOMAIN m.subjects -> m.subjects[f]
                      [] OTHER -> q.inert
               v == u.live[f]
    <3>6. v = [q EXCEPT !.s = IF f \in DOMAIN m.subjects THEN m.loser ELSE @,
                        !.o = IF f \in DOMAIN m.objects THEN m.loser ELSE @,
                        !.inert = i,
                        !.exp = IF f \in m.loops THEN "no" ELSE @]
      BY <1>3, <1>4
    <3>7. i = IF t THEN r.inert ELSE q.inert
      BY <3>4, <3>5
    <3> HIDE DEF t, loop, mv, q, i, v, r
    <3>8. /\ q \in FactRows /\ q.hash = r.hash /\ q.s = mv.s /\ q.o = mv.o
          /\ q.exp = IF loop THEN "merge" ELSE r.exp
      BY <3>2, <3>3, <3>4 DEF FactRows
    <3>9. ~t => q.inert = r.inert
      BY <3>2, <3>3, <3>4 DEF FactRows
    <3>10. i = r.inert
      BY <3>7, <3>9
    <3>11. /\ v \in [s : {v.s}, o : {v.o}, hash : {v.hash}, exp : {v.exp}, inert : {v.inert}]
           /\ v.hash = q.hash /\ v.inert = i
           /\ v.s = IF f \in DOMAIN m.subjects THEN m.loser ELSE q.s
           /\ v.o = IF f \in DOMAIN m.objects THEN m.loser ELSE q.o
           /\ v.exp = IF f \in m.loops THEN "no" ELSE q.exp
      BY <3>6, <3>8 DEF FactRows
    <3>12. v.hash = r.hash /\ v.inert = r.inert /\ v.s = r.s /\ v.o = r.o /\ v.exp = r.exp
      BY <1>2, <3>1, <3>3, <3>5, <3>8, <3>10, <3>11
    <3>13. v = r
      BY <3>1, <3>11, <3>12 DEF FactRows
    <3> QED
      BY <3>13 DEF v, r
  <2>2. DOMAIN u.live = DOMAIN h.live /\ u.live = [f \in DOMAIN u.live |-> u.live[f]]
    BY <1>3, <1>4
  <2> QED
    BY <1>5, <2>1, <2>2
<1>8. u.edges = h.edges
  <2>1. \A ep : ep \in m.moved <=> <<ep, l>> \in h.edges /\ <<ep, k>> \notin h.edges
    BY <1>2, <1>5 DEF EpisodesOf
  <2>2. \A ep : ep \in m.collided <=> <<ep, l>> \in h.edges /\ <<ep, k>> \in h.edges
    BY <1>2, <1>5 DEF EpisodesOf
  <2>3. \A ep, i : <<ep, i>> \in n.edges <=>
                     \/ <<ep, i>> \in h.edges /\ i # l
                     \/ i = k /\ <<ep, l>> \in h.edges
    BY <1>3, <1>5 DEF EpisodesOf
  <2>4. back = m.moved
    BY <1>2, <2>1, <2>3
  <2> HIDE DEF back
  <2>5. \A ep, i : <<ep, i>> \in u.edges <=>
                     \/ <<ep, i>> \in n.edges /\ ~ (ep \in m.moved /\ i = k)
                     \/ (ep \in m.moved \/ ep \in m.collided) /\ i = l
    BY <1>2, <1>4, <2>4
  <2>6. ASSUME NEW ep, NEW i
        PROVE  <<ep, i>> \in u.edges <=> <<ep, i>> \in h.edges
    <3>1. CASE i = l
      BY <1>5, <2>1, <2>2, <2>3, <2>5, <3>1
    <3>2. CASE i = k
      <4>1. <<ep, k>> \in n.edges <=> <<ep, k>> \in h.edges \/ <<ep, l>> \in h.edges
        BY <1>5, <2>3
      <4>2. <<ep, k>> \in u.edges <=> <<ep, k>> \in n.edges /\ ep \notin m.moved
        BY <1>5, <2>5
      <4>3. ep \in m.moved <=> <<ep, l>> \in h.edges /\ <<ep, k>> \notin h.edges
        BY <2>1
      <4> QED
        BY <3>2, <4>1, <4>2, <4>3
    <3>3. CASE i # l /\ i # k
      <4>1. <<ep, i>> \in n.edges <=> <<ep, i>> \in h.edges
        <5>1. <<ep, i>> \in n.edges <=> \/ <<ep, i>> \in h.edges /\ i # l
                                        \/ i = k /\ <<ep, l>> \in h.edges
          BY <2>3, Zenon
        <5> QED
          BY <3>3, <5>1
      <4>2. <<ep, i>> \in u.edges <=> <<ep, i>> \in n.edges
        BY <2>5, <3>3
      <4> QED
        BY <4>1, <4>2
    <3> QED
      BY <3>1, <3>2, <3>3
  <2>7. \A e \in u.edges : e = <<e[1], e[2]>>
    <3>1. n.edges \subseteq Episodes \X Ids
      BY <1>1 DEF IsGraph
    <3>2. \A e \in u.edges : e \in n.edges \/ e \in (back \cup m.collided) \X {m.loser}
      BY <1>4
    <3>3. \A e \in (back \cup m.collided) \X {m.loser} : e = <<e[1], e[2]>>
      OBVIOUS
    <3> QED
      BY <3>1, <3>2, <3>3
  <2>8. \A e \in h.edges : e = <<e[1], e[2]>>
    BY <1>5
  <2> QED
    BY <2>6, <2>7, <2>8
<1>9. /\ w.ent = h.ent /\ w.live = h.live /\ w.arch = h.arch /\ w.edges = h.edges
      /\ w.comm = h.comm /\ w.nogood = h.nogood \cup {{l, k}} /\ Shaped(w)
  BY <1>1 DEF Shaped
<1> HIDE DEF w
<1>10. u = w
  BY <1>2, <1>3, <1>4, <1>6, <1>7, <1>8, <1>9, SameGraph DEF Forbid
<1>11. Unmergeable(n, m)
  <2>1. m.loser \notin DOMAIN n.ent /\ m.keeper \in DOMAIN n.ent
    BY <1>2, <1>3, <1>5
  <2>2. \A ep : <<ep, m.loser>> \notin n.edges
    BY <1>2, <1>3, <1>5
  <2>3. HashUnique(UnmergeOf(n, m))
    BY <1>7 DEF HashUnique, u
  <2> QED
    BY <2>1, <2>2, <2>3 DEF Unmergeable
<1> QED
  BY <1>10, <1>11 DEF u, w, m, n

-----------------------------------------------------------------------------
\* An edit and its reversal

LEMMA MoveBack ==
  ASSUME NEW r \in FactRows, NEW a \in Ids, NEW b \in Ids, r.s # b, r.o # b
  PROVE  /\ Move(Move(r, a, b), b, a) = r
         /\ ~Touches(r, a) => Move(r, a, b) = r
<1> DEFINE q == Move(r, a, b)
           v == Move(q, b, a)
<1>1. /\ q \in FactRows /\ q.hash = r.hash /\ q.exp = r.exp /\ q.inert = r.inert
      /\ q.s = (IF r.s = a THEN b ELSE r.s) /\ q.o = (IF r.o = a THEN b ELSE r.o)
  BY DEF Move, FactRows
<1> HIDE DEF q
<1>2. /\ v \in FactRows /\ v.hash = q.hash /\ v.exp = q.exp /\ v.inert = q.inert
      /\ v.s = (IF q.s = b THEN a ELSE q.s) /\ v.o = (IF q.o = b THEN a ELSE q.o)
  BY <1>1 DEF Move, FactRows
<1> HIDE DEF v
<1>3. v = r
  BY <1>1, <1>2 DEF FactRows
<1>4. ~Touches(r, a) => q = r
  BY <1>1 DEF FactRows, Touches
<1> QED
  BY <1>3, <1>4 DEF q, v

LEMMA MoveKeyAt ==
  ASSUME NEW f, NEW a, NEW b, a \in DOMAIN f
  PROVE  LET k == MoveKey(f, a, b) IN
         /\ \A x : x \in DOMAIN k <=> x = b \/ (x \in DOMAIN f /\ x # a)
         /\ \A x \in DOMAIN k : k[x] = IF x = b THEN f[a] ELSE f[x]
         /\ k = [x \in DOMAIN k |-> k[x]]
BY DEF MoveKey, Over, One, Restrict

LEMMA MoveKeyBack ==
  ASSUME NEW S, NEW T, NEW f, IsTable(f, S, T), NEW a, NEW b, a # b, b \notin DOMAIN f
  PROVE  MoveKey(MoveKey(f, a, b), b, a) = f
<1> DEFINE k == MoveKey(f, a, b)
           n == MoveKey(k, b, a)
<1>1. f = [x \in DOMAIN f |-> f[x]]
  BY DEF IsTable
<1>2. CASE a \notin DOMAIN f
  BY <1>2 DEF MoveKey
<1>3. CASE a \in DOMAIN f
  <2>1. /\ \A x : x \in DOMAIN k <=> x = b \/ (x \in DOMAIN f /\ x # a)
        /\ \A x \in DOMAIN k : k[x] = IF x = b THEN f[a] ELSE f[x]
    BY <1>3, MoveKeyAt
  <2> HIDE DEF k
  <2>2. /\ \A x : x \in DOMAIN n <=> x = a \/ (x \in DOMAIN k /\ x # b)
        /\ \A x \in DOMAIN n : n[x] = IF x = a THEN k[b] ELSE k[x]
        /\ n = [x \in DOMAIN n |-> n[x]]
    BY <2>1, MoveKeyAt
  <2> HIDE DEF n
  <2>3. \A x : x \in DOMAIN n <=> x \in DOMAIN f
    BY <1>3, <2>1, <2>2
  <2>4. \A x \in DOMAIN f : n[x] = f[x]
    BY <1>3, <2>1, <2>2
  <2>5. n = f
    BY <1>1, <2>2, <2>3, <2>4
  <2> QED
    BY <2>5 DEF n, k
<1> QED
  BY <1>2, <1>3

LEMMA RenameRoundTrip ==
  ASSUME NEW h, IsGraph(h), NEW a \in Ids, NEW b \in Ids, Renameable(h, a, b),
         FactsOf(h, b) = {}, ArchivedOf(h, b) = {}, EpisodesOf(h, b) = {}, b \notin DOMAIN h.comm
  PROVE  LET m == RenameSnapshot(h, a, b)  n == RenameOf(h, a, b) IN
         RenameUndoable(n, m) /\ UndoRenameOf(n, m) = h
<1> DEFINE m == RenameSnapshot(h, a, b)
           n == RenameOf(h, a, b)
           u == UndoRenameOf(n, m)
           back == {ep \in m.episodes : <<ep, m.new>> \in n.edges}
<1>1. Shaped(h) /\ IsGraph(n) /\ Shaped(n)
  BY RenameGraph, GraphShaped
<1>2. /\ m.old = a /\ m.new = b /\ m.facts = FactsOf(h, a)
      /\ m.archived = ArchivedOf(h, a) /\ m.episodes = EpisodesOf(h, a)
  BY DEF RenameSnapshot
<1>3. /\ n.live = [f \in DOMAIN h.live |-> Move(h.live[f], a, b)]
      /\ n.arch = [f \in DOMAIN h.arch |-> Move(h.arch[f], a, b)]
      /\ n.edges = {<<e[1], IF e[2] = a THEN b ELSE e[2]>> : e \in h.edges}
      /\ n.comm = MoveKey(h.comm, a, b) /\ n.ent = MoveKey(h.ent, a, b)
      /\ n.nogood = h.nogood
  BY <1>1 DEF Shaped, RenameOf
<1> HIDE DEF m, n
<1>4. /\ u.live = [f \in DOMAIN n.live |->
                     IF f \in m.facts THEN Move(n.live[f], m.new, m.old) ELSE n.live[f]]
      /\ u.arch = [f \in DOMAIN n.arch |->
                     IF f \in m.archived THEN Move(n.arch[f], m.new, m.old) ELSE n.arch[f]]
      /\ u.edges = (n.edges \ (back \X {m.new})) \cup (back \X {m.old})
      /\ u.comm = MoveKey(n.comm, m.new, m.old) /\ u.ent = MoveKey(n.ent, m.new, m.old)
      /\ u.nogood = n.nogood /\ Shaped(u)
  BY <1>1 DEF Shaped, UndoRenameOf
<1> HIDE DEF u
<1>5. /\ a # b /\ a \in DOMAIN h.ent /\ b \notin DOMAIN h.ent
      /\ IsTable(h.ent, Ids, EntityRows) /\ IsTable(h.comm, Ids, Communities)
      /\ h.live \in [DOMAIN h.live -> FactRows] /\ h.arch \in [DOMAIN h.arch -> FactRows]
      /\ h.edges \subseteq Episodes \X Ids
  BY DEF Renameable, IsGraph, IsTable
<1>6. u.ent = h.ent /\ u.comm = h.comm
  BY <1>2, <1>3, <1>4, <1>5, MoveKeyBack
<1>7. u.live = h.live
  <2>1. ASSUME NEW f \in DOMAIN h.live
        PROVE  u.live[f] = h.live[f]
    <3>1. h.live[f] \in FactRows /\ h.live[f].s # b /\ h.live[f].o # b
      BY <1>5 DEF FactsOf, Touches
    <3>2. f \in m.facts <=> Touches(h.live[f], a)
      BY <1>2 DEF FactsOf
    <3>3. u.live[f] = IF f \in m.facts THEN Move(Move(h.live[f], a, b), b, a)
                                       ELSE Move(h.live[f], a, b)
      BY <1>2, <1>3, <1>4
    <3> QED
      BY <3>1, <3>2, <3>3, MoveBack
  <2>2. DOMAIN u.live = DOMAIN h.live /\ u.live = [f \in DOMAIN u.live |-> u.live[f]]
    BY <1>3, <1>4
  <2> QED
    BY <1>5, <2>1, <2>2
<1>8. u.arch = h.arch
  <2>1. ASSUME NEW f \in DOMAIN h.arch
        PROVE  u.arch[f] = h.arch[f]
    <3>1. h.arch[f] \in FactRows /\ h.arch[f].s # b /\ h.arch[f].o # b
      BY <1>5 DEF ArchivedOf, Touches
    <3>2. f \in m.archived <=> Touches(h.arch[f], a)
      BY <1>2 DEF ArchivedOf
    <3>3. u.arch[f] = IF f \in m.archived THEN Move(Move(h.arch[f], a, b), b, a)
                                          ELSE Move(h.arch[f], a, b)
      BY <1>2, <1>3, <1>4
    <3> QED
      BY <3>1, <3>2, <3>3, MoveBack
  <2>2. DOMAIN u.arch = DOMAIN h.arch /\ u.arch = [f \in DOMAIN u.arch |-> u.arch[f]]
    BY <1>3, <1>4
  <2> QED
    BY <1>5, <2>1, <2>2
<1>9. \A e \in n.edges : \E x \in h.edges : e = <<x[1], IF x[2] = a THEN b ELSE x[2]>>
  BY <1>3
<1>10. ASSUME NEW ep, NEW i
       PROVE  <<ep, i>> \in n.edges <=> \/ <<ep, i>> \in h.edges /\ i # a
                                        \/ <<ep, a>> \in h.edges /\ i = b
  <2>1. ASSUME <<ep, i>> \in n.edges
        PROVE  \/ <<ep, i>> \in h.edges /\ i # a
               \/ <<ep, a>> \in h.edges /\ i = b
    <3>1. PICK x \in h.edges : <<ep, i>> = <<x[1], IF x[2] = a THEN b ELSE x[2]>>
      BY <1>9, <2>1
    <3>2. x = <<x[1], x[2]>>
      BY <1>5
    <3> QED
      BY <1>5, <3>1, <3>2
  <2>2. ASSUME <<ep, i>> \in h.edges, i # a
        PROVE  <<ep, i>> \in n.edges
    BY <1>3, <2>2
  <2>3. ASSUME <<ep, a>> \in h.edges, i = b
        PROVE  <<ep, i>> \in n.edges
    BY <1>3, <2>3
  <2> QED
    BY <2>1, <2>2, <2>3
<1>11. \A ep : <<ep, b>> \notin h.edges
  BY <1>5 DEF EpisodesOf
<1>12. \A ep : ep \in m.episodes <=> <<ep, a>> \in h.edges
  BY <1>2, <1>5 DEF EpisodesOf
<1>13. u.edges = h.edges
  <2>1. back = m.episodes
    BY <1>2, <1>10, <1>12
  <2> HIDE DEF back
  <2>2. ASSUME NEW ep, NEW i
        PROVE  <<ep, i>> \in u.edges <=> \/ <<ep, i>> \in n.edges /\ ~ (ep \in m.episodes /\ i = b)
                                         \/ ep \in m.episodes /\ i = a
    BY <1>2, <1>4, <2>1
  <2>3. ASSUME NEW ep, NEW i
        PROVE  <<ep, i>> \in u.edges <=> <<ep, i>> \in h.edges
    <3>1. CASE i = a
      BY <1>5, <1>10, <1>12, <2>2, <3>1
    <3>2. CASE i = b
      <4>1. <<ep, b>> \in n.edges <=> <<ep, a>> \in h.edges
        BY <1>5, <1>10, <1>11
      <4>2. <<ep, b>> \notin u.edges
        BY <1>5, <1>12, <2>2, <4>1
      <4> QED
        BY <1>11, <3>2, <4>2
    <3>3. CASE i # a /\ i # b
      <4>1. <<ep, i>> \in n.edges <=> <<ep, i>> \in h.edges
        <5>1. <<ep, i>> \in n.edges <=> \/ <<ep, i>> \in h.edges /\ i # a
                                        \/ <<ep, a>> \in h.edges /\ i = b
          BY <1>10
        <5> QED
          BY <3>3, <5>1
      <4> QED
        BY <2>2, <3>3, <4>1
    <3> QED
      BY <3>1, <3>2, <3>3
  <2>4. \A e \in u.edges : e = <<e[1], e[2]>>
    <3>1. n.edges \subseteq Episodes \X Ids
      BY <1>1 DEF IsGraph
    <3>2. \A e \in u.edges : e \in n.edges \/ e \in back \X {m.old}
      BY <1>4
    <3>3. \A e \in back \X {m.old} : e = <<e[1], e[2]>>
      OBVIOUS
    <3> QED
      BY <3>1, <3>2, <3>3
  <2>5. \A e \in h.edges : e = <<e[1], e[2]>>
    BY <1>5
  <2> QED
    BY <2>3, <2>4, <2>5
<1>14. u = h
  BY <1>1, <1>3, <1>4, <1>6, <1>7, <1>8, <1>13, SameGraph
<1>15. RenameUndoable(n, m)
  <2>1. a \notin DOMAIN n.ent /\ a \notin DOMAIN n.comm
    BY <1>3, <1>5 DEF MoveKey, Over, One, Restrict
  <2>2. \A ep : <<ep, a>> \notin n.edges
    BY <1>5, <1>10
  <2> QED
    BY <1>2, <2>1, <2>2 DEF RenameUndoable
<1> QED
  BY <1>14, <1>15 DEF u, m, n

LEMMA RetypeRoundTrip ==
  ASSUME NEW h, IsGraph(h), NEW e \in DOMAIN h.ent, NEW t \in Types
  PROVE  UndoRetypeOf(RetypeOf(h, e, t), RetypeSnapshot(h, e, t)) = h
<1> DEFINE m == RetypeSnapshot(h, e, t)
           n == RetypeOf(h, e, t)
           u == UndoRetypeOf(n, m)
<1>1. Shaped(h) /\ Shaped(n)
  BY RetypeGraph, GraphShaped
<1>2. m.old = e /\ m.ty = h.ent[e].ty /\ m.comm = CommunityOf(h, e)
  BY DEF RetypeSnapshot
<1>3. /\ n.live = h.live /\ n.arch = h.arch /\ n.edges = h.edges /\ n.nogood = h.nogood
      /\ n.comm = Restrict(h.comm, DOMAIN h.comm \ {e})
      /\ n.ent = [h.ent EXCEPT ![e].ty = t]
  BY <1>1 DEF Shaped, RetypeOf
<1> HIDE DEF m, n
<1>4. /\ u.live = n.live /\ u.arch = n.arch /\ u.edges = n.edges /\ u.nogood = n.nogood
      /\ u.comm = IF m.comm = {} THEN n.comm
                                 ELSE Over(One(m.old, CHOOSE c \in m.comm : TRUE), n.comm)
      /\ u.ent = [i \in DOMAIN n.ent |-> IF i = m.old THEN [n.ent[i] EXCEPT !.ty = m.ty]
                                                      ELSE n.ent[i]]
      /\ Shaped(u)
  BY <1>1 DEF Shaped, UndoRetypeOf
<1> HIDE DEF u
<1>5. /\ h.ent \in [DOMAIN h.ent -> EntityRows]
      /\ h.comm = [x \in DOMAIN h.comm |-> h.comm[x]]
  BY DEF IsGraph, IsTable
<1>6. u.ent = h.ent
  <2>1. [[h.ent[e] EXCEPT !.ty = t] EXCEPT !.ty = h.ent[e].ty] = h.ent[e]
    <3>1. h.ent[e] \in EntityRows
      BY <1>5
    <3> QED
      BY <3>1 DEF EntityRows
  <2>a. DOMAIN n.ent = DOMAIN h.ent /\ n.ent[e] = [h.ent[e] EXCEPT !.ty = t]
    BY <1>3
  <2>b. \A i \in DOMAIN h.ent : i # e => n.ent[i] = h.ent[i]
    BY <1>3
  <2>c. u.ent = [i \in DOMAIN n.ent |-> IF i = m.old THEN [n.ent[i] EXCEPT !.ty = m.ty]
                                                      ELSE n.ent[i]]
    BY <1>4
  <2>2. \A i \in DOMAIN h.ent : u.ent[i] = h.ent[i]
    <3> TAKE i \in DOMAIN h.ent
    <3>1. CASE i = e
      <4>1. u.ent[i] = [n.ent[e] EXCEPT !.ty = h.ent[e].ty]
        BY <1>2, <2>a, <2>c, <3>1
      <4> QED
        BY <2>a, <2>1, <3>1, <4>1
    <3>2. CASE i # e
      <4>1. u.ent[i] = n.ent[i]
        BY <1>2, <2>a, <2>c, <3>2
      <4> QED
        BY <2>b, <3>2, <4>1
    <3> QED
      BY <3>1, <3>2
  <2>3. DOMAIN u.ent = DOMAIN h.ent /\ u.ent = [i \in DOMAIN u.ent |-> u.ent[i]]
    BY <2>a, <2>c
  <2> QED
    BY <1>5, <2>2, <2>3
<1>7. u.comm = h.comm
  <2>1. CASE e \notin DOMAIN h.comm
    <3>1. m.comm = {}
      BY <1>2, <2>1 DEF CommunityOf
    <3> QED
      BY <1>3, <1>4, <1>5, <2>1, <3>1 DEF Restrict
  <2>2. CASE e \in DOMAIN h.comm
    <3>1. m.comm = {h.comm[e]}
      BY <1>2, <2>2 DEF CommunityOf
    <3>2. m.comm # {} /\ (CHOOSE c \in m.comm : TRUE) = h.comm[e]
      BY <3>1
    <3>3. u.comm = Over(One(e, h.comm[e]), Restrict(h.comm, DOMAIN h.comm \ {e}))
      BY <1>2, <1>3, <1>4, <3>2
    <3>4. \A x : x \in DOMAIN u.comm <=> x \in DOMAIN h.comm
      BY <2>2, <3>3 DEF Over, One, Restrict
    <3>5. \A x \in DOMAIN h.comm : u.comm[x] = h.comm[x]
      BY <2>2, <3>3 DEF Over, One, Restrict
    <3>6. u.comm = [x \in DOMAIN u.comm |-> u.comm[x]]
      BY <3>3 DEF Over
    <3> QED
      BY <1>5, <3>4, <3>5, <3>6
  <2> QED
    BY <2>1, <2>2
<1>8. u = h
  BY <1>1, <1>3, <1>4, <1>6, <1>7, SameGraph
<1> QED
  BY <1>8 DEF u, m, n

-----------------------------------------------------------------------------
\* A deletion and its restoration

\* Facts archived and brought back are the facts that were there, with the column
\* the archive does not keep at its default; the archive is as it was.
LEMMA ArchiveRoundTrip ==
  ASSUME NEW h, IsGraph(h), HashUnique(h), NEW F \in SUBSET DOMAIN h.live, Archivable(h, F),
         NEW d, IsGraph(d),
         d.live = ArchiveFacts(h, F).live, d.arch = ArchiveFacts(h, F).arch
  PROVE  LET n == RestoreFacts(d, F) IN
         /\ n.live = [f \in DOMAIN h.live |-> IF f \in F THEN [h.live[f] EXCEPT !.inert = FALSE]
                                                         ELSE h.live[f]]
         /\ n.arch = h.arch
         /\ Restorable(d, F)
<1> DEFINE n == RestoreFacts(d, F)
           copies == [f \in F |-> [h.live[f] EXCEPT !.inert = FALSE]]
<1>1. Shaped(h) /\ Shaped(d)
  BY GraphShaped
<1>2. d.live = Restrict(h.live, DOMAIN h.live \ F) /\ d.arch = Over(copies, h.arch)
  BY <1>1 DEF Shaped, ArchiveFacts
<1>3. /\ n.live = Over(d.live, Restrict(d.arch, F \cap DOMAIN d.arch))
      /\ n.arch = Restrict(d.arch, DOMAIN d.arch \ F)
  BY <1>1 DEF Shaped, RestoreFacts
<1> HIDE DEF n
<1>4. DOMAIN copies = F /\ \A f \in F : copies[f] = [h.live[f] EXCEPT !.inert = FALSE]
  OBVIOUS
<1> HIDE DEF copies
<1>5. /\ h.live \in [DOMAIN h.live -> FactRows]
      /\ h.arch = [x \in DOMAIN h.arch |-> h.arch[x]]
      /\ F \cap DOMAIN h.arch = {}
  BY DEF IsGraph, IsTable, Archivable
<1>6. /\ \A x : x \in DOMAIN d.arch <=> x \in F \/ x \in DOMAIN h.arch
      /\ \A x \in F : d.arch[x] = copies[x]
      /\ \A x \in DOMAIN h.arch : d.arch[x] = h.arch[x]
  BY <1>2, <1>4, <1>5 DEF Over
<1>7. /\ \A x : x \in DOMAIN d.live <=> x \in DOMAIN h.live /\ x \notin F
      /\ \A x \in DOMAIN d.live : d.live[x] = h.live[x]
  BY <1>2 DEF Restrict
<1>8. n.arch = h.arch
  <2>1. \A x : x \in DOMAIN n.arch <=> x \in DOMAIN h.arch
    BY <1>3, <1>5, <1>6 DEF Restrict
  <2>2. \A x \in DOMAIN h.arch : n.arch[x] = h.arch[x]
    BY <1>3, <1>5, <1>6 DEF Restrict
  <2>3. n.arch = [x \in DOMAIN n.arch |-> n.arch[x]]
    BY <1>3 DEF Restrict
  <2> QED
    BY <1>5, <2>1, <2>2, <2>3
<1>9. \A x : x \in DOMAIN n.live <=> x \in DOMAIN h.live
  BY <1>3, <1>6, <1>7 DEF Over, Restrict
<1>10. \A x \in DOMAIN h.live : n.live[x] = IF x \in F THEN [h.live[x] EXCEPT !.inert = FALSE]
                                                      ELSE h.live[x]
  <2>1. ASSUME NEW x \in DOMAIN h.live, x \in F
        PROVE  n.live[x] = [h.live[x] EXCEPT !.inert = FALSE]
    <3>1. n.live[x] = d.arch[x]
      BY <1>3, <1>6, <1>7, <2>1 DEF Over, Restrict
    <3> QED
      BY <1>4, <1>6, <2>1, <3>1
  <2>2. ASSUME NEW x \in DOMAIN h.live, x \notin F
        PROVE  n.live[x] = h.live[x]
    BY <1>3, <1>7, <2>2 DEF Over
  <2> QED
    BY <2>1, <2>2
<1>11. n.live = [f \in DOMAIN n.live |-> n.live[f]]
  BY <1>3 DEF Over
<1>12. n.live = [f \in DOMAIN h.live |-> IF f \in F THEN [h.live[f] EXCEPT !.inert = FALSE]
                                                    ELSE h.live[f]]
  BY <1>9, <1>10, <1>11
<1>13. ASSUME NEW x \in DOMAIN h.live
       PROVE  n.live[x].hash = h.live[x].hash /\ n.live[x].exp = h.live[x].exp
  <2>1. h.live[x] \in FactRows
    BY <1>5
  <2>2. /\ [h.live[x] EXCEPT !.inert = FALSE].hash = h.live[x].hash
        /\ [h.live[x] EXCEPT !.inert = FALSE].exp = h.live[x].exp
    BY <2>1 DEF FactRows
  <2>3. n.live[x] = IF x \in F THEN [h.live[x] EXCEPT !.inert = FALSE] ELSE h.live[x]
    BY <1>10
  <2> QED
    BY <2>2, <2>3
<1>14. HashUnique(n)
  BY <1>9, <1>13 DEF HashUnique
<1>15. Restorable(d, F)
  BY <1>6, <1>14 DEF Restorable, n
<1> QED
  BY <1>8, <1>12, <1>15 DEF n

LEMMA RetractedBack ==
  ASSUME NEW h, IsGraph(h), NEW C, NEW F
  PROVE  LET r == Retracted(h, C, F) IN
         /\ DOMAIN r \subseteq DOMAIN h.comm
         /\ \A x \in DOMAIN r : r[x] = h.comm[x]
BY DEF Retracted, Restrict

LEMMA DeleteEntityRoundTrip ==
  ASSUME NEW h, IsGraph(h), HashUnique(h), NEW e \in DOMAIN h.ent,
         Archivable(h, FactsOf(h, e))
  PROVE  LET m == DeleteEntitySnapshot(h, e)  n == DeleteEntityOf(h, e) IN
         /\ EntityDeleteUndoable(n, m)
         /\ UndoDeleteEntityOf(n, m) =
              [h EXCEPT !.live = [f \in DOMAIN @ |-> IF f \in FactsOf(h, e)
                                                       THEN [@[f] EXCEPT !.inert = FALSE]
                                                       ELSE @[f]]]
<1> DEFINE F == FactsOf(h, e)
           m == DeleteEntitySnapshot(h, e)
           n == DeleteEntityOf(h, e)
           a == ArchiveFacts(h, F)
           k == RestoreFacts(n, F)
           u == UndoDeleteEntityOf(n, m)
           r == Retracted(h, Neighbours(h, e), F)
           gone == {e} \cup DOMAIN r
           own == [x \in {m.old : c \in m.comm} |-> CHOOSE c \in m.comm : TRUE]
           rows == [f \in DOMAIN h.live |-> IF f \in F THEN [h.live[f] EXCEPT !.inert = FALSE]
                                                       ELSE h.live[f]]
           w == [h EXCEPT !.live = rows]
<1>1. F \in SUBSET DOMAIN h.live /\ Shaped(h)
  BY FactsOfGraph, GraphShaped
<1>2. /\ m.old = e /\ m.row = h.ent[e] /\ m.facts = F /\ m.episodes = EpisodesOf(h, e)
      /\ m.comm = CommunityOf(h, e) /\ m.retracted = r
  BY DEF DeleteEntitySnapshot
<1>3. /\ IsGraph(a) /\ a.ent = h.ent /\ a.edges = h.edges /\ a.comm = h.comm
      /\ a.nogood = h.nogood
  BY <1>1, ArchiveGraph
<1>4. Shaped(a)
  BY <1>3, GraphShaped
<1>5. n = [a EXCEPT !.edges = {x \in @ : x[2] # e},
                    !.comm = Restrict(@, DOMAIN @ \ gone),
                    !.ent = Restrict(@, DOMAIN @ \ {e})]
  BY DEF DeleteEntityOf
<1>6. IsGraph(n)
  BY DeleteEntityGraph
<1>7. /\ DOMAIN r \subseteq DOMAIN h.comm
      /\ \A x \in DOMAIN r : r[x] = h.comm[x]
  BY RetractedBack
<1>8. u = [k EXCEPT !.ent = Over(One(m.old, m.row), @),
                    !.edges = @ \cup (m.episodes \X {m.old}),
                    !.comm = Over(m.retracted, Over(own, @))]
  BY <1>2 DEF UndoDeleteEntityOf
<1> HIDE DEF n, a, m, r, gone
<1>9. /\ n.live = a.live /\ n.arch = a.arch /\ n.nogood = h.nogood
      /\ n.edges = {x \in h.edges : x[2] # e}
      /\ n.comm = Restrict(h.comm, DOMAIN h.comm \ gone)
      /\ n.ent = Restrict(h.ent, DOMAIN h.ent \ {e})
  BY <1>3, <1>4, <1>5 DEF Shaped
<1>10. k.live = rows /\ k.arch = h.arch /\ Restorable(n, F)
  BY <1>1, <1>6, <1>9, ArchiveRoundTrip DEF a
<1>11. /\ IsGraph(k) /\ k.ent = n.ent /\ k.edges = n.edges /\ k.comm = n.comm
       /\ k.nogood = n.nogood
  BY <1>6, RestoreGraph
<1>12. Shaped(k)
  BY <1>11, GraphShaped
<1> HIDE DEF k, u, own, rows, F
<1>13. /\ u.live = k.live /\ u.arch = k.arch /\ u.nogood = k.nogood
       /\ u.edges = k.edges \cup (m.episodes \X {m.old})
       /\ u.comm = Over(m.retracted, Over(own, k.comm))
       /\ u.ent = Over(One(m.old, m.row), k.ent)
       /\ Shaped(u)
  BY <1>8, <1>12 DEF Shaped
<1>14. /\ h.ent = [i \in DOMAIN h.ent |-> h.ent[i]]
       /\ h.comm = [x \in DOMAIN h.comm |-> h.comm[x]]
       /\ h.edges \subseteq Episodes \X Ids
  BY DEF IsGraph, IsTable
<1>15. u.ent = h.ent
  <2>1. u.ent = Over(One(e, h.ent[e]), Restrict(h.ent, DOMAIN h.ent \ {e}))
    BY <1>2, <1>9, <1>11, <1>13
  <2>2. \A x : x \in DOMAIN u.ent <=> x \in DOMAIN h.ent
    BY <2>1 DEF Over, One, Restrict
  <2>3. \A x \in DOMAIN h.ent : u.ent[x] = h.ent[x]
    BY <2>1 DEF Over, One, Restrict
  <2>4. u.ent = [x \in DOMAIN u.ent |-> u.ent[x]]
    BY <2>1 DEF Over
  <2> QED
    BY <1>14, <2>2, <2>3, <2>4
<1>16. /\ \A x : x \in DOMAIN own <=> x = e /\ e \in DOMAIN h.comm
       /\ \A x \in DOMAIN own : own[x] = h.comm[e]
  <2>1. m.comm = {h.comm[x] : x \in {e} \cap DOMAIN h.comm}
    BY <1>2 DEF CommunityOf
  <2>2. CASE e \in DOMAIN h.comm
    <3>1. m.comm = {h.comm[e]}
      BY <2>1, <2>2
    <3>2. (CHOOSE c \in m.comm : TRUE) = h.comm[e]
      BY <3>1
    <3> QED
      BY <1>2, <2>2, <3>1, <3>2 DEF own
  <2>3. CASE e \notin DOMAIN h.comm
    <3>1. m.comm = {}
      BY <2>1, <2>3
    <3> QED
      BY <2>3, <3>1 DEF own
  <2> QED
    BY <2>2, <2>3
<1>17. u.comm = h.comm
  <2>1. /\ \A x : x \in DOMAIN n.comm <=> x \in DOMAIN h.comm /\ x # e /\ x \notin DOMAIN r
        /\ \A x \in DOMAIN n.comm : n.comm[x] = h.comm[x]
    BY <1>9 DEF Restrict, gone
  <2>2. u.comm = Over(r, Over(own, n.comm))
    BY <1>2, <1>11, <1>13
  <2>3. \A x : x \in DOMAIN u.comm <=> x \in DOMAIN r \/ x \in DOMAIN own \/ x \in DOMAIN n.comm
    BY <2>2 DEF Over
  <2>4. \A x : x \in DOMAIN u.comm <=> x \in DOMAIN h.comm
    BY <1>7, <1>16, <2>1, <2>3
  <2>5. ASSUME NEW x \in DOMAIN h.comm
        PROVE  u.comm[x] = h.comm[x]
    <3>1. CASE x \in DOMAIN r
      BY <1>7, <2>2, <3>1 DEF Over
    <3>2. CASE x \notin DOMAIN r /\ x \in DOMAIN own
      BY <1>16, <2>2, <3>2 DEF Over
    <3>3. CASE x \notin DOMAIN r /\ x \notin DOMAIN own
      <4>1. x \in DOMAIN n.comm
        BY <1>16, <2>1, <3>3
      <4> QED
        BY <2>1, <2>2, <3>3, <4>1 DEF Over
    <3> QED
      BY <3>1, <3>2, <3>3
  <2>6. u.comm = [x \in DOMAIN u.comm |-> u.comm[x]]
    BY <2>2 DEF Over
  <2> QED
    BY <1>14, <2>4, <2>5, <2>6
<1>18. u.edges = h.edges
  <2>1. u.edges = {x \in h.edges : x[2] # e} \cup (m.episodes \X {e})
    BY <1>2, <1>9, <1>11, <1>13
  <2>2. \A ep : ep \in m.episodes <=> <<ep, e>> \in h.edges
    BY <1>2, <1>14 DEF EpisodesOf
  <2>3. \A x \in h.edges : x = <<x[1], x[2]>>
    BY <1>14
  <2>4. \A x \in m.episodes \X {e} : x = <<x[1], e>> /\ x[1] \in m.episodes
    OBVIOUS
  <2>5. u.edges \subseteq h.edges
    BY <2>1, <2>2, <2>4
  <2>6. ASSUME NEW x \in h.edges
        PROVE  x \in u.edges
    <3>1. CASE x[2] = e
      <4>1. x[1] \in m.episodes
        BY <2>2, <2>3, <3>1
      <4>2. <<x[1], e>> \in m.episodes \X {e}
        BY <4>1
      <4> QED
        BY <2>1, <2>3, <3>1, <4>2
    <3>2. CASE x[2] # e
      BY <2>1, <3>2
    <3> QED
      BY <3>1, <3>2
  <2> QED
    BY <2>5, <2>6
<1>19. /\ w.ent = h.ent /\ w.live = rows /\ w.arch = h.arch /\ w.edges = h.edges
       /\ w.comm = h.comm /\ w.nogood = h.nogood /\ Shaped(w)
  BY <1>1 DEF Shaped
<1> HIDE DEF w
<1>20. u = w
  BY <1>9, <1>10, <1>11, <1>13, <1>15, <1>17, <1>18, <1>19, SameGraph
<1>21. EntityDeleteUndoable(n, m)
  <2>1. m.old \notin DOMAIN n.ent
    BY <1>2, <1>9 DEF Restrict
  <2>2. EpisodesOf(n, m.old) = {}
    BY <1>2, <1>9 DEF EpisodesOf
  <2> QED
    BY <1>2, <1>10, <2>1, <2>2 DEF EntityDeleteUndoable
<1> QED
  BY <1>20, <1>21 DEF u, w, m, n, rows, F

LEMMA DeleteFactRoundTrip ==
  ASSUME NEW h, IsGraph(h), HashUnique(h), NEW f \in DOMAIN h.live, Archivable(h, {f})
  PROVE  LET m == DeleteFactSnapshot(h, f)  n == DeleteFactOf(h, f) IN
         /\ Restorable(n, {f})
         /\ UndoDeleteFactOf(n, m) =
              [h EXCEPT !.live = [x \in DOMAIN @ |-> IF x \in {f}
                                                       THEN [@[x] EXCEPT !.inert = FALSE]
                                                       ELSE @[x]]]
<1> DEFINE F == {f}
           m == DeleteFactSnapshot(h, f)
           n == DeleteFactOf(h, f)
           a == ArchiveFacts(h, F)
           k == RestoreFacts(n, F)
           u == UndoDeleteFactOf(n, m)
           r == Retracted(h, Endpoints(h.live[f]), F)
           rows == [x \in DOMAIN h.live |-> IF x \in F THEN [h.live[x] EXCEPT !.inert = FALSE]
                                                       ELSE h.live[x]]
           w == [h EXCEPT !.live = rows]
<1>1. F \in SUBSET DOMAIN h.live /\ Shaped(h) /\ Archivable(h, F)
  BY GraphShaped
<1>2. m.fact = f /\ m.retracted = r
  BY DEF DeleteFactSnapshot
<1>3. /\ IsGraph(a) /\ a.ent = h.ent /\ a.edges = h.edges /\ a.comm = h.comm
      /\ a.nogood = h.nogood
  BY <1>1, ArchiveGraph
<1>4. Shaped(a)
  BY <1>3, GraphShaped
<1>5. n = [a EXCEPT !.comm = Restrict(@, DOMAIN @ \ DOMAIN r)]
  BY DEF DeleteFactOf
<1>6. IsGraph(n)
  BY DeleteFactGraph
<1>7. /\ DOMAIN r \subseteq DOMAIN h.comm
      /\ \A x \in DOMAIN r : r[x] = h.comm[x]
  BY RetractedBack
<1>8. u = [k EXCEPT !.comm = Over(m.retracted, @)]
  BY <1>2 DEF UndoDeleteFactOf
<1> HIDE DEF n, a, m, r
<1>9. /\ n.live = a.live /\ n.arch = a.arch /\ n.nogood = h.nogood
      /\ n.edges = h.edges /\ n.ent = h.ent
      /\ n.comm = Restrict(h.comm, DOMAIN h.comm \ DOMAIN r)
  BY <1>3, <1>4, <1>5 DEF Shaped
<1> HIDE DEF F
<1>10. k.live = rows /\ k.arch = h.arch /\ Restorable(n, F)
  BY <1>1, <1>6, <1>9, ArchiveRoundTrip DEF a
<1>11. /\ IsGraph(k) /\ k.ent = n.ent /\ k.edges = n.edges /\ k.comm = n.comm
       /\ k.nogood = n.nogood
  BY <1>6, RestoreGraph
<1>12. Shaped(k)
  BY <1>11, GraphShaped
<1> HIDE DEF k, u, rows
<1>13. /\ u.live = k.live /\ u.arch = k.arch /\ u.nogood = k.nogood
       /\ u.edges = k.edges /\ u.ent = k.ent
       /\ u.comm = Over(m.retracted, k.comm)
       /\ Shaped(u)
  BY <1>8, <1>12 DEF Shaped
<1>14. u.comm = h.comm
  <2>1. h.comm = [x \in DOMAIN h.comm |-> h.comm[x]]
    BY DEF IsGraph, IsTable
  <2>2. u.comm = Over(r, Restrict(h.comm, DOMAIN h.comm \ DOMAIN r))
    BY <1>2, <1>9, <1>11, <1>13
  <2>3. \A x : x \in DOMAIN u.comm <=> x \in DOMAIN h.comm
    BY <1>7, <2>2 DEF Over, Restrict
  <2>4. \A x \in DOMAIN h.comm : u.comm[x] = h.comm[x]
    BY <1>7, <2>2 DEF Over, Restrict
  <2>5. u.comm = [x \in DOMAIN u.comm |-> u.comm[x]]
    BY <2>2 DEF Over
  <2> QED
    BY <2>1, <2>3, <2>4, <2>5
<1>15. /\ w.ent = h.ent /\ w.live = rows /\ w.arch = h.arch /\ w.edges = h.edges
       /\ w.comm = h.comm /\ w.nogood = h.nogood /\ Shaped(w)
  BY <1>1 DEF Shaped
<1> HIDE DEF w
<1>16. u = w
  BY <1>9, <1>10, <1>11, <1>13, <1>14, <1>15, SameGraph
<1> QED
  BY <1>10, <1>16 DEF u, w, m, n, rows, F

-----------------------------------------------------------------------------
\* Histories of merges.  A standing merge lists the facts it has re-pointed, by the
\* column it has re-pointed them in; seen from one column of one fact, the standing
\* merges that list it form a thread from the fact's first endpoint to its present one.

Cols == {"s", "o"}
Column(m, c) == IF c = "s" THEN m.subjects ELSE m.objects
End(r, c) == IF c = "s" THEN r.s ELSE r.o

Stands(L, i) == L[i].kind = "merge" /\ ~L[i].undone
Listing(L, c, f) == {i \in DOMAIN L : Stands(L, i) /\ f \in DOMAIN Column(L[i], c)}

\* S: the entries that list the fact.  The first re-pointed it from b, the last to v,
\* and each other one to an id that a later one, no later than the next, took it from.
Threaded(L, S, v, b) ==
  /\ S \subseteq Nat
  /\ S = {} => v = b
  /\ \A i \in S : (\A j \in S : i <= j) => L[i].loser = b
  /\ \A i \in S : v = L[i].keeper \/ \E j \in S : j > i
  /\ \A i, j \in S : i < j => \E k \in S : i < k /\ k <= j /\ L[k].loser = L[i].keeper

SameEnds(L, L2, S) == \A i \in S : L2[i].loser = L[i].loser /\ L2[i].keeper = L[i].keeper

LEMMA ThreadKept ==
  ASSUME NEW L, NEW L2, NEW S, NEW v, NEW b, Threaded(L, S, v, b), SameEnds(L, L2, S)
  PROVE  Threaded(L2, S, v, b)
BY DEF Threaded, SameEnds

LEMMA ThreadMerge ==
  ASSUME NEW L, NEW L2, NEW S, NEW v, NEW b, Threaded(L, S, v, b), SameEnds(L, L2, S),
         NEW n \in Nat, \A i \in S : i < n, L2[n].loser = v
  PROVE  Threaded(L2, S \cup {n}, L2[n].keeper, b)
<1> DEFINE T == S \cup {n}
<1>1. T \subseteq Nat /\ T # {}
  BY DEF Threaded
<1>2. ASSUME NEW i \in T, \A j \in T : i <= j
      PROVE  L2[i].loser = b
  <2>1. CASE i \in S
    BY <1>2, <2>1 DEF Threaded, SameEnds
  <2>2. CASE i \notin S
    <3>1. i = n /\ S = {}
      <4>1. \A j \in S : n <= j /\ j < n /\ j \in Nat
        BY <1>2, <2>2 DEF Threaded
      <4> QED
        BY <2>2, <4>1
    <3> QED
      BY <3>1 DEF Threaded
  <2> QED
    BY <2>1, <2>2
<1>3. \A i \in T : L2[n].keeper = L2[i].keeper \/ \E j \in T : j > i
  OBVIOUS
<1>4. ASSUME NEW i \in T, NEW j \in T, i < j
      PROVE  \E k \in T : i < k /\ k <= j /\ L2[k].loser = L2[i].keeper
  <2>1. i \in S
    BY <1>4 DEF Threaded
  <2>2. CASE j \in S
    BY <1>4, <2>1, <2>2 DEF Threaded, SameEnds
  <2>3. CASE j = n
    <3>1. CASE v = L[i].keeper
      BY <2>1, <2>3, <3>1 DEF SameEnds
    <3>2. CASE \E x \in S : x > i
      <4>1. PICK x \in S : x > i
        BY <3>2
      <4>2. i \in Nat /\ x \in Nat /\ x < n
        BY <2>1 DEF Threaded
      <4>3. PICK k \in S : i < k /\ k <= x /\ L[k].loser = L[i].keeper
        BY <2>1, <4>1, <4>2 DEF Threaded
      <4>4. k \in Nat /\ k <= n
        BY <4>2, <4>3 DEF Threaded
      <4> QED
        BY <2>1, <2>3, <4>3, <4>4 DEF SameEnds
    <3> QED
      BY <2>1, <3>1, <3>2 DEF Threaded
  <2> QED
    BY <2>2, <2>3
<1> QED
  BY <1>1, <1>2, <1>3, <1>4 DEF Threaded

\* Only the last entry of a thread is not chained upon: it is where the fact is ...
LEMMA ThreadEnd ==
  ASSUME NEW L, NEW S, NEW v, NEW b, Threaded(L, S, v, b),
         NEW i \in S, \A k \in S : k > i => L[k].loser # L[i].keeper
  PROVE  v = L[i].keeper /\ \A j \in S : j <= i
<1>1. i \in Nat
  BY DEF Threaded
<1>2. \A j \in S : j <= i
  <2> SUFFICES ASSUME NEW j \in S, j > i
               PROVE  FALSE
    BY <1>1 DEF Threaded
  <2>1. j \in Nat /\ i < j
    BY <1>1 DEF Threaded
  <2> QED
    BY <1>1, <2>1 DEF Threaded
<1>3. v = L[i].keeper
  <2>1. ~ \E j \in S : j > i
    BY <1>1, <1>2 DEF Threaded
  <2> QED
    BY <2>1 DEF Threaded
<1> QED
  BY <1>2, <1>3

\* ... and without it the fact is where that entry took it from.
LEMMA ThreadUnmerge ==
  ASSUME NEW L, NEW L2, NEW S, NEW v, NEW b, Threaded(L, S, v, b), SameEnds(L, L2, S),
         NEW i \in S, \A j \in S : j <= i
  PROVE  Threaded(L2, S \ {i}, L[i].loser, b)
<1> DEFINE T == S \ {i}
<1>1. i \in Nat /\ T \subseteq Nat
  BY DEF Threaded
<1>2. \A j \in S : j <= i
  OBVIOUS
<1>4. T = {} => L[i].loser = b
  <2>1. ASSUME T = {} PROVE \A j \in S : i <= j
    BY <1>1, <2>1
  <2> QED
    BY <2>1 DEF Threaded
<1>5. ASSUME NEW j \in T, \A x \in T : j <= x
      PROVE  L2[j].loser = b
  <2>1. \A x \in S : j <= x
    BY <1>1, <1>2, <1>5
  <2> QED
    BY <2>1 DEF Threaded, SameEnds
<1>6. ASSUME NEW j \in T
      PROVE  L[i].loser = L2[j].keeper \/ \E x \in T : x > j
  <2>1. j < i
    BY <1>1, <1>2
  <2>2. PICK k \in S : j < k /\ k <= i /\ L[k].loser = L[j].keeper
    BY <2>1 DEF Threaded
  <2> QED
    BY <2>2 DEF SameEnds
<1>7. ASSUME NEW j \in T, NEW x \in T, j < x
      PROVE  \E k \in T : j < k /\ k <= x /\ L2[k].loser = L2[j].keeper
  <2>1. PICK k \in S : j < k /\ k <= x /\ L[k].loser = L[j].keeper
    BY <1>7 DEF Threaded
  <2>2. k # i
    BY <1>1, <1>2, <2>1
  <2> QED
    BY <2>1, <2>2 DEF SameEnds
<1> QED
  BY <1>1, <1>4, <1>5, <1>6, <1>7 DEF Threaded

-----------------------------------------------------------------------------
\* What a merge and its reversal make of one fact

LEMMA MergedFact ==
  ASSUME NEW h, IsGraph(h), NEW l \in Ids, NEW k \in Ids, NEW f \in DOMAIN h.live
  PROVE  LET n == MergeOf(h, l, k)  m == MergeSnapshot(h, l, k) IN
         /\ DOMAIN n.live = DOMAIN h.live
         /\ \A c \in Cols :
              /\ End(n.live[f], c) = IF End(h.live[f], c) = l THEN k ELSE End(h.live[f], c)
              /\ f \in DOMAIN Column(m, c) <=> End(h.live[f], c) = l
              /\ DOMAIN Column(m, c) \subseteq DOMAIN h.live
              /\ f \in DOMAIN Column(m, c) => Column(m, c)[f] = h.live[f].inert
         /\ n.live[f].hash = h.live[f].hash
         /\ n.live[f].exp = IF f \in m.loops THEN "merge" ELSE h.live[f].exp
         /\ n.live[f].inert = (h.live[f].inert \/ Touches(h.live[f], l))
         /\ f \in m.loops <=>
              /\ h.live[f].exp = "no"
              /\ <<h.live[f].s, h.live[f].o>> \in {<<l, k>>, <<k, l>>, <<l, l>>}
<1> DEFINE n == MergeOf(h, l, k)
           m == MergeSnapshot(h, l, k)
           r == Move(h.live[f], l, k)
           t == Touches(h.live[f], l)
           x == IF f \in SelfLoops(h, l, k) THEN "merge" ELSE r.exp
<1> Shaped(h)
  BY GraphShaped
<1>1. n.live = [z \in DOMAIN h.live |->
                     [Move(h.live[z], l, k) EXCEPT
                        !.inert = @ \/ Touches(h.live[z], l),
                        !.exp = IF z \in SelfLoops(h, l, k) THEN "merge" ELSE @]]
  BY DEF Shaped, MergeOf
<1>2. /\ m.loops = SelfLoops(h, l, k)
      /\ m.subjects = [z \in {y \in FactsOf(h, l) : h.live[y].s = l} |-> h.live[z].inert]
      /\ m.objects = [z \in {y \in FactsOf(h, l) : h.live[y].o = l} |-> h.live[z].inert]
  BY DEF MergeSnapshot
<1> HIDE DEF n, m
<1>3. h.live[f] \in FactRows
  BY DEF IsGraph, IsTable
<1>4. /\ r \in FactRows
      /\ r.s = (IF h.live[f].s = l THEN k ELSE h.live[f].s)
      /\ r.o = (IF h.live[f].o = l THEN k ELSE h.live[f].o)
      /\ r.hash = h.live[f].hash /\ r.exp = h.live[f].exp /\ r.inert = h.live[f].inert
  BY <1>3 DEF Move, FactRows
<1>5. n.live[f] = [r EXCEPT !.inert = @ \/ t, !.exp = x]
  BY <1>1
<1>6. DOMAIN n.live = DOMAIN h.live
  BY <1>1
<1> HIDE DEF r, t, x
<1>7. /\ n.live[f].s = r.s /\ n.live[f].o = r.o /\ n.live[f].hash = r.hash
      /\ n.live[f].exp = x /\ n.live[f].inert = (r.inert \/ t)
  BY <1>4, <1>5 DEF FactRows
<1>8. f \in m.loops <=>
              /\ h.live[f].exp = "no"
              /\ <<h.live[f].s, h.live[f].o>> \in {<<l, k>>, <<k, l>>, <<l, l>>}
  BY <1>2 DEF SelfLoops
<1>9. ASSUME NEW c \in Cols
      PROVE  /\ DOMAIN Column(m, c) = {y \in DOMAIN h.live : End(h.live[y], c) = l}
             /\ \A y \in DOMAIN Column(m, c) : Column(m, c)[y] = h.live[y].inert
  BY <1>2 DEF Column, End, FactsOf, Touches, Cols
<1>10. ASSUME NEW c \in Cols
       PROVE  End(n.live[f], c) = IF End(h.live[f], c) = l THEN k ELSE End(h.live[f], c)
  BY <1>4, <1>7 DEF End
<1> QED
  BY <1>2, <1>4, <1>6, <1>7, <1>8, <1>9, <1>10 DEF n, m, t, x

LEMMA UnmergedFact ==
  ASSUME NEW h, IsGraph(h), NEW m \in MergeRows, NEW f \in DOMAIN h.live
  PROVE  LET n == UnmergeOf(h, m) IN
         /\ DOMAIN n.live = DOMAIN h.live
         /\ \A c \in Cols :
              End(n.live[f], c) = IF f \in DOMAIN Column(m, c) THEN m.loser
                                                               ELSE End(h.live[f], c)
         /\ n.live[f].hash = h.live[f].hash
         /\ n.live[f].exp = IF f \in m.loops THEN "no" ELSE h.live[f].exp
         /\ n.live[f].inert = CASE f \in DOMAIN m.objects -> m.objects[f]
                                [] f \in DOMAIN m.subjects -> m.subjects[f]
                                [] OTHER -> h.live[f].inert
<1> DEFINE n == UnmergeOf(h, m)
           r == h.live[f]
           s == IF f \in DOMAIN m.subjects THEN m.loser ELSE r.s
           o == IF f \in DOMAIN m.objects THEN m.loser ELSE r.o
           i == CASE f \in DOMAIN m.objects -> m.objects[f]
                  [] f \in DOMAIN m.subjects -> m.subjects[f]
                  [] OTHER -> r.inert
           x == IF f \in m.loops THEN "no" ELSE r.exp
<1> Shaped(h)
  BY GraphShaped
<1>1. n.live = [z \in DOMAIN h.live |->
                    [h.live[z] EXCEPT
                       !.s = IF z \in DOMAIN m.subjects THEN m.loser ELSE @,
                       !.o = IF z \in DOMAIN m.objects THEN m.loser ELSE @,
                       !.inert = CASE z \in DOMAIN m.objects -> m.objects[z]
                                   [] z \in DOMAIN m.subjects -> m.subjects[z]
                                   [] OTHER -> @,
                       !.exp = IF z \in m.loops THEN "no" ELSE @]]
  BY DEF Shaped, UnmergeOf
<1> HIDE DEF n
<1>2. n.live[f] = [r EXCEPT !.s = s, !.o = o, !.inert = i, !.exp = x]
  BY <1>1
<1>3. DOMAIN n.live = DOMAIN h.live
  BY <1>1
<1>4. r \in FactRows
  BY DEF IsGraph, IsTable
<1> HIDE DEF s, o, i, x, r
<1>5. /\ n.live[f].s = s /\ n.live[f].o = o /\ n.live[f].inert = i /\ n.live[f].exp = x
      /\ n.live[f].hash = r.hash
  BY <1>2, <1>4 DEF FactRows
<1>6. ASSUME NEW c \in Cols
      PROVE  End(n.live[f], c) = IF f \in DOMAIN Column(m, c) THEN m.loser ELSE End(r, c)
  BY <1>5 DEF End, Column, s, o
<1> QED
  BY <1>3, <1>5, <1>6 DEF n, r, i, x

-----------------------------------------------------------------------------
\* What a step makes of the log

LEMMA Logging ==
  ASSUME NEW L \in Seq(LogRows), NEW m, NEW n, n = Len(L) + 1
  PROVE  LET L2 == Append(L, m) IN
         /\ n \in Nat /\ n \notin DOMAIN L /\ DOMAIN L2 = DOMAIN L \cup {n} /\ L2[n] = m
         /\ \A i \in DOMAIN L : i \in Nat /\ i < n /\ L2[i] = L[i]
         /\ \A c, f : Listing(L2, c, f) =
              Listing(L, c, f) \cup {i \in {n} : Stands(L2, n) /\ f \in DOMAIN Column(m, c)}
<1> DEFINE L2 == Append(L, m)
<1>1. /\ n \in Nat /\ n \notin DOMAIN L /\ DOMAIN L2 = DOMAIN L \cup {n} /\ L2[n] = m
      /\ \A i \in DOMAIN L : i \in Nat /\ i < n /\ L2[i] = L[i]
  OBVIOUS
<1> HIDE DEF L2
<1>2. ASSUME NEW c, NEW f
      PROVE  Listing(L2, c, f) =
              Listing(L, c, f) \cup {i \in {n} : Stands(L2, n) /\ f \in DOMAIN Column(m, c)}
  BY <1>1 DEF Listing, Stands
<1> QED
  BY <1>1, <1>2 DEF L2

LEMMA Undoing ==
  ASSUME NEW L \in Seq(LogRows), NEW i \in DOMAIN L, Stands(L, i)
  PROVE  LET L2 == [L EXCEPT ![i].undone = TRUE] IN
         /\ DOMAIN L2 = DOMAIN L
         /\ \A j \in DOMAIN L : j # i => L2[j] = L[j]
         /\ L2[i] = [L[i] EXCEPT !.undone = TRUE] /\ L[i] \in MergeRows /\ L2[i] \in MergeRows
         /\ \A j \in DOMAIN L : Stands(L2, j) <=> Stands(L, j) /\ j # i
         /\ SameEnds(L, L2, DOMAIN L)
         /\ \A c, f : Listing(L2, c, f) = Listing(L, c, f) \ {i}
<1> DEFINE L2 == [L EXCEPT ![i].undone = TRUE]
<1>1. /\ DOMAIN L2 = DOMAIN L
      /\ \A j \in DOMAIN L : j # i => L2[j] = L[j]
      /\ L2[i] = [L[i] EXCEPT !.undone = TRUE]
  OBVIOUS
<1>2. L[i] \in MergeRows
  <2>1. L[i] \in LogRows /\ L[i].kind = "merge"
    BY DEF Stands
  <2> QED
    BY <2>1 DEF LogRows, MergeRows, RenameRows, RetypeRows, EntityDeleteRows, FactDeleteRows
<1> HIDE DEF L2
<1>3. /\ L2[i] \in MergeRows /\ L2[i].undone = TRUE
      /\ L2[i].loser = L[i].loser /\ L2[i].keeper = L[i].keeper
  BY <1>1, <1>2 DEF MergeRows
<1>4. \A j \in DOMAIN L : Stands(L2, j) <=> Stands(L, j) /\ j # i
  BY <1>1, <1>3 DEF Stands
<1>5. ASSUME NEW c, NEW f
      PROVE  Listing(L2, c, f) = Listing(L, c, f) \ {i}
  BY <1>1, <1>4 DEF Listing
<1>6. SameEnds(L, L2, DOMAIN L)
  BY <1>1, <1>3 DEF SameEnds
<1> QED
  BY <1>1, <1>2, <1>3, <1>4, <1>5, <1>6 DEF L2

-----------------------------------------------------------------------------
\* The threads of every fact, while nothing re-keys an entity and no fact is deleted

KeysStay == Ops \cap {"rename", "entity_delete", "fact_delete"} = {}

AnchoredStart == \A h \in InitialGraphs : Anchored(h)

Threads(G, B, L) ==
  /\ DOMAIN G.live = DOMAIN B.live
  /\ \A c \in Cols : \A f \in DOMAIN G.live :
       Threaded(L, Listing(L, c, f), End(G.live[f], c), End(B.live[f], c))
  /\ \A c \in Cols : \A i \in DOMAIN L :
       Stands(L, i) => DOMAIN Column(L[i], c) \subseteq DOMAIN G.live

\* A merge has expired what it made a self-loop of one of the two names: the other
\* column was the other one's already.
LoopsAtOneEnd(L) ==
  \A i \in DOMAIN L : L[i].kind = "merge" =>
    \A f \in L[i].loops : f \in DOMAIN L[i].subjects <=> f \notin DOMAIN L[i].objects

Kinds(L) == \A i \in DOMAIN L : L[i].kind \in {"merge", "retype"}

LEMMA MergeThreads ==
  ASSUME NEW G, NEW B, NEW L \in Seq(LogRows), Threads(G, B, L), IsGraph(G),
         NEW l \in Ids, NEW k \in Ids
  PROVE  Threads(MergeOf(G, l, k), B, Append(L, MergeSnapshot(G, l, k)))
<1> DEFINE m == MergeSnapshot(G, l, k)
           N == MergeOf(G, l, k)
           L2 == Append(L, m)
           n == Len(L) + 1
<1>1. /\ n \in Nat /\ n \notin DOMAIN L /\ DOMAIN L2 = DOMAIN L \cup {n} /\ L2[n] = m
      /\ \A i \in DOMAIN L : i \in Nat /\ i < n /\ L2[i] = L[i]
      /\ \A c, f : Listing(L2, c, f) =
           Listing(L, c, f) \cup {i \in {n} : Stands(L2, n) /\ f \in DOMAIN Column(m, c)}
  BY Logging
<1>2. m.kind = "merge" /\ ~m.undone /\ m.loser = l /\ m.keeper = k
  BY DEF MergeSnapshot
<1>3. \A f \in DOMAIN G.live : \A c \in Cols :
        /\ End(N.live[f], c) = IF End(G.live[f], c) = l THEN k ELSE End(G.live[f], c)
        /\ f \in DOMAIN Column(m, c) <=> End(G.live[f], c) = l
  BY MergedFact
<1>4. DOMAIN N.live = DOMAIN G.live /\ \A c \in Cols : DOMAIN Column(m, c) \subseteq DOMAIN G.live
  <2>1. CASE DOMAIN G.live # {}
    BY <2>1, MergedFact
  <2>2. CASE DOMAIN G.live = {}
    BY <2>2, GraphShaped DEF MergeOf, MergeSnapshot, Shaped, Column, FactsOf
  <2> QED
    BY <2>1, <2>2
<1> HIDE DEF N, L2, m, n
<1>5. Stands(L2, n)
  BY <1>1, <1>2 DEF Stands
<1>6. ASSUME NEW c \in Cols, NEW f \in DOMAIN G.live
      PROVE  Threaded(L2, Listing(L2, c, f), End(N.live[f], c), End(B.live[f], c))
  <2> DEFINE S == Listing(L, c, f)
  <2>1. Threaded(L, S, End(G.live[f], c), End(B.live[f], c))
    BY DEF Threads
  <2>2. SameEnds(L, L2, S) /\ \A i \in S : i < n
    BY <1>1 DEF SameEnds, Listing
  <2>3. CASE End(G.live[f], c) = l
    <3>1. Listing(L2, c, f) = S \cup {n}
      BY <1>1, <1>3, <1>5, <2>3
    <3>2. End(N.live[f], c) = L2[n].keeper /\ L2[n].loser = End(G.live[f], c)
      BY <1>1, <1>2, <1>3, <2>3
    <3>3. n \in Nat
      BY <1>1
    <3> HIDE DEF S
    <3>4. Threaded(L2, S \cup {n}, L2[n].keeper, End(B.live[f], c))
      BY <2>1, <2>2, <3>2, <3>3, ThreadMerge
    <3> QED
      BY <3>1, <3>2, <3>4
  <2>4. CASE End(G.live[f], c) # l
    <3>0. f \notin DOMAIN Column(m, c)
      BY <1>3, <2>4
    <3>1. Listing(L2, c, f) = S
      <4>1. Listing(L2, c, f) =
              Listing(L, c, f) \cup {i \in {n} : Stands(L2, n) /\ f \in DOMAIN Column(m, c)}
        BY <1>1
      <4> QED
        BY <3>0, <4>1
    <3>2. End(N.live[f], c) = End(G.live[f], c)
      BY <1>3, <2>4
    <3> HIDE DEF S
    <3> QED
      BY <2>1, <2>2, <3>1, <3>2, ThreadKept
  <2> QED
    BY <2>3, <2>4
<1>7. ASSUME NEW c \in Cols, NEW i \in DOMAIN L2, Stands(L2, i)
      PROVE  DOMAIN Column(L2[i], c) \subseteq DOMAIN G.live
  <2>1. CASE i = n
    BY <1>1, <1>4, <2>1
  <2>2. CASE i \in DOMAIN L
    BY <1>1, <1>7, <2>2 DEF Threads, Stands
  <2> QED
    BY <1>1, <2>1, <2>2
<1>8. Threads(N, B, L2)
  BY <1>4, <1>6, <1>7 DEF Threads
<1> QED
  BY <1>8 DEF N, L2, m

\* LaterChained, of any log.
ChainedOn(L, i) ==
  \E j \in DOMAIN L : j > i /\ Stands(L, j) /\ PairOf(L[j]) \cap PairOf(L[i]) # {}

\* What a reversal finds: the facts that it takes back are where its merge put them,
\* and no later merge has moved them.
LEMMA AtTheEnd ==
  ASSUME NEW G, NEW B, NEW L \in Seq(LogRows), Threads(G, B, L),
         NEW i \in DOMAIN L, Stands(L, i), ~ChainedOn(L, i),
         NEW c \in Cols, NEW f \in DOMAIN Column(L[i], c)
  PROVE  /\ f \in DOMAIN G.live
         /\ End(G.live[f], c) = L[i].keeper
         /\ i \in Listing(L, c, f) /\ \A j \in Listing(L, c, f) : j <= i
<1> DEFINE S == Listing(L, c, f)
<1>1. f \in DOMAIN G.live
  BY DEF Threads
<1>2. i \in S
  BY DEF Listing
<1>3. Threaded(L, S, End(G.live[f], c), End(B.live[f], c))
  BY <1>1 DEF Threads
<1>4. \A k \in S : k > i => L[k].loser # L[i].keeper
  BY DEF Listing, ChainedOn, PairOf
<1> HIDE DEF S
<1>5. End(G.live[f], c) = L[i].keeper /\ \A j \in S : j <= i
  BY <1>2, <1>3, <1>4, ThreadEnd
<1> QED
  BY <1>1, <1>2, <1>5 DEF S

LEMMA UnmergeThreads ==
  ASSUME NEW G, NEW B, NEW L \in Seq(LogRows), Threads(G, B, L), IsGraph(G),
         NEW i \in DOMAIN L, Stands(L, i), ~ChainedOn(L, i)
  PROVE  Threads(UnmergeOf(G, L[i]), B, [L EXCEPT ![i].undone = TRUE])
<1> DEFINE m == L[i]
           N == UnmergeOf(G, m)
           L2 == [L EXCEPT ![i].undone = TRUE]
<1>1. /\ DOMAIN L2 = DOMAIN L
      /\ \A j \in DOMAIN L : j # i => L2[j] = L[j]
      /\ m \in MergeRows
      /\ \A j \in DOMAIN L : Stands(L2, j) <=> Stands(L, j) /\ j # i
      /\ SameEnds(L, L2, DOMAIN L)
      /\ \A c, f : Listing(L2, c, f) = Listing(L, c, f) \ {i}
  BY Undoing
<1>2. \A f \in DOMAIN G.live : \A c \in Cols :
        End(N.live[f], c) = IF f \in DOMAIN Column(m, c) THEN m.loser ELSE End(G.live[f], c)
  BY <1>1, UnmergedFact
<1>3. DOMAIN N.live = DOMAIN G.live
  <2>1. CASE DOMAIN G.live # {}
    BY <1>1, <2>1, UnmergedFact
  <2>2. CASE DOMAIN G.live = {}
    BY <2>2, GraphShaped DEF UnmergeOf, Shaped
  <2> QED
    BY <2>1, <2>2
<1> HIDE DEF N, L2
<1>4. ASSUME NEW c \in Cols, NEW f \in DOMAIN Column(m, c)
      PROVE  Threaded(L2, Listing(L2, c, f), m.loser, End(B.live[f], c))
  <2> DEFINE S == Listing(L, c, f)
  <2>1. f \in DOMAIN G.live /\ i \in S /\ \A j \in S : j <= i
    BY AtTheEnd
  <2>2. Threaded(L, S, End(G.live[f], c), End(B.live[f], c))
    BY <2>1 DEF Threads
  <2>3. SameEnds(L, L2, S)
    BY <1>1 DEF SameEnds, Listing
  <2>4. Listing(L2, c, f) = S \ {i}
    BY <1>1
  <2> HIDE DEF S
  <2>5. Threaded(L2, S \ {i}, m.loser, End(B.live[f], c))
    BY <2>1, <2>2, <2>3, ThreadUnmerge
  <2> QED
    BY <2>4, <2>5
<1>5. ASSUME NEW c \in Cols, NEW f \in DOMAIN G.live
      PROVE  Threaded(L2, Listing(L2, c, f), End(N.live[f], c), End(B.live[f], c))
  <2>1. CASE f \in DOMAIN Column(m, c)
    BY <1>2, <1>4, <2>1
  <2>2. CASE f \notin DOMAIN Column(m, c)
    <3> DEFINE S == Listing(L, c, f)
    <3>1. i \notin S /\ S \subseteq DOMAIN L
      BY <2>2 DEF Listing
    <3>2. SameEnds(L, L2, S)
      BY <1>1, <3>1 DEF SameEnds
    <3>4. Listing(L2, c, f) = S
      <4>1. Listing(L2, c, f) = Listing(L, c, f) \ {i}
        BY <1>1
      <4> QED
        BY <3>1, <4>1
    <3>3. Threaded(L, S, End(G.live[f], c), End(B.live[f], c))
      BY DEF Threads
    <3> HIDE DEF S
    <3> QED
      BY <1>2, <2>2, <3>2, <3>3, <3>4, ThreadKept
  <2> QED
    BY <2>1, <2>2
<1>6. ASSUME NEW c \in Cols, NEW j \in DOMAIN L2, Stands(L2, j)
      PROVE  DOMAIN Column(L2[j], c) \subseteq DOMAIN G.live
  BY <1>1, <1>6 DEF Threads
<1>7. Threads(N, B, L2)
  BY <1>3, <1>5, <1>6 DEF Threads
<1> QED
  BY <1>7 DEF N, L2

-----------------------------------------------------------------------------
\* No dangling end, no self-loop

LEMMA MergeAnchored ==
  ASSUME NEW G, IsGraph(G), Anchored(G), NEW l \in Ids, NEW k \in Ids, Mergeable(G, l, k)
  PROVE  Anchored(MergeOf(G, l, k))
<1> DEFINE N == MergeOf(G, l, k)
           m == MergeSnapshot(G, l, k)
<1>1. /\ N.edges = {e \in G.edges : e[2] # l} \cup {<<ep, k>> : ep \in EpisodesOf(G, l)}
      /\ DOMAIN N.ent = DOMAIN G.ent \ {l}
  BY GraphShaped DEF MergeOf, Shaped
<1>2. ASSUME NEW f \in DOMAIN N.live
      PROVE  /\ Endpoints(N.live[f]) \subseteq DOMAIN N.ent
             /\ N.live[f].exp = "no" => N.live[f].s # N.live[f].o
  <2>1. f \in DOMAIN G.live
    BY GraphShaped DEF MergeOf, Shaped
  <2>2. /\ \A c \in Cols :
             End(N.live[f], c) = IF End(G.live[f], c) = l THEN k ELSE End(G.live[f], c)
        /\ N.live[f].exp = IF f \in m.loops THEN "merge" ELSE G.live[f].exp
        /\ f \in m.loops <=>
              /\ G.live[f].exp = "no"
              /\ <<G.live[f].s, G.live[f].o>> \in {<<l, k>>, <<k, l>>, <<l, l>>}
    BY <2>1, MergedFact
  <2>3. /\ N.live[f].s = (IF G.live[f].s = l THEN k ELSE G.live[f].s)
        /\ N.live[f].o = (IF G.live[f].o = l THEN k ELSE G.live[f].o)
    BY <2>2 DEF End, Cols
  <2>4. /\ Endpoints(G.live[f]) \subseteq DOMAIN G.ent
        /\ G.live[f].exp = "no" => G.live[f].s # G.live[f].o
    BY <2>1 DEF Anchored
  <2>5. k \in DOMAIN N.ent
    BY <1>1 DEF Mergeable
  <2>6. Endpoints(N.live[f]) \subseteq DOMAIN N.ent
    BY <1>1, <2>3, <2>4, <2>5 DEF Endpoints
  <2>7. ASSUME N.live[f].exp = "no"
        PROVE  N.live[f].s # N.live[f].o
    <3>1. f \notin m.loops /\ G.live[f].exp = "no"
      BY <2>2, <2>7
    <3>2. /\ ~(G.live[f].s = l /\ G.live[f].o = k)
          /\ ~(G.live[f].s = k /\ G.live[f].o = l)
      BY <2>2, <3>1
    <3> QED
      BY <2>3, <2>4, <3>1, <3>2
  <2> QED
    BY <2>6, <2>7
<1>3. ASSUME NEW e \in N.edges
      PROVE  e[2] \in DOMAIN N.ent
  BY <1>1 DEF Anchored, Mergeable
<1> QED
  BY <1>2, <1>3 DEF Anchored

LEMMA MergeLoops ==
  ASSUME NEW G, IsGraph(G), Anchored(G), NEW L \in Seq(LogRows), LoopsAtOneEnd(L),
         NEW l \in Ids, NEW k \in Ids, l # k
  PROVE  LoopsAtOneEnd(Append(L, MergeSnapshot(G, l, k)))
<1> DEFINE m == MergeSnapshot(G, l, k)
           L2 == Append(L, m)
           n == Len(L) + 1
<1>1. /\ DOMAIN L2 = DOMAIN L \cup {n} /\ L2[n] = m
      /\ \A i \in DOMAIN L : L2[i] = L[i]
  BY Logging
<1>2. ASSUME NEW f \in m.loops
      PROVE  f \in DOMAIN m.subjects <=> f \notin DOMAIN m.objects
  <2>1. f \in DOMAIN G.live
    BY DEF MergeSnapshot, SelfLoops
  <2>2. /\ \A c \in Cols : f \in DOMAIN Column(m, c) <=> End(G.live[f], c) = l
        /\ G.live[f].exp = "no"
        /\ <<G.live[f].s, G.live[f].o>> \in {<<l, k>>, <<k, l>>, <<l, l>>}
    BY <1>2, <2>1, MergedFact
  <2>3. /\ f \in DOMAIN m.subjects <=> G.live[f].s = l
        /\ f \in DOMAIN m.objects <=> G.live[f].o = l
    BY <2>2 DEF Column, End, Cols
  <2>4. G.live[f].s # G.live[f].o
    BY <2>1, <2>2 DEF Anchored
  <2> QED
    BY <2>2, <2>3, <2>4
<1> HIDE DEF m, L2, n
<1>3. LoopsAtOneEnd(L2)
  BY <1>1, <1>2 DEF LoopsAtOneEnd
<1> QED
  BY <1>3 DEF L2, m

\* The loser that comes back was no entity, so no fact that keeps an end has it there;
\* and a fact with both ends to give back is a self-loop now, hence expired.
LEMMA UnmergeAnchored ==
  ASSUME NEW G, NEW B, NEW L \in Seq(LogRows), Threads(G, B, L), IsGraph(G),
         Anchored(G), LoopsAtOneEnd(L),
         NEW i \in DOMAIN L, Stands(L, i), ~ChainedOn(L, i), Unmergeable(G, L[i])
  PROVE  Anchored(UnmergeOf(G, L[i]))
<1> DEFINE m == L[i]
           N == UnmergeOf(G, m)
           back == {ep \in m.moved : <<ep, m.keeper>> \in G.edges}
<1>1. m \in MergeRows /\ m.kind = "merge"
  BY Undoing DEF Stands
<1>2. /\ N.edges = (G.edges \ (back \X {m.keeper})) \cup ((back \cup m.collided) \X {m.loser})
      /\ N.ent = Over(One(m.loser, m.row), [G.ent EXCEPT ![m.keeper].ac = m.ac])
  BY GraphShaped DEF UnmergeOf, Shaped
<1>3. DOMAIN N.ent = DOMAIN G.ent \cup {m.loser} /\ m.loser \notin DOMAIN G.ent
  BY <1>2 DEF Over, One, Unmergeable
<1>6. \A c \in Cols : \A f \in DOMAIN Column(m, c) : End(G.live[f], c) = m.keeper
  BY AtTheEnd
<1>4. ASSUME NEW f \in DOMAIN N.live
      PROVE  /\ Endpoints(N.live[f]) \subseteq DOMAIN N.ent
             /\ N.live[f].exp = "no" => N.live[f].s # N.live[f].o
  <2>1. f \in DOMAIN G.live
    BY GraphShaped DEF UnmergeOf, Shaped
  <2>2. /\ \A c \in Cols :
             End(N.live[f], c) = IF f \in DOMAIN Column(m, c) THEN m.loser
                                                              ELSE End(G.live[f], c)
        /\ N.live[f].exp = IF f \in m.loops THEN "no" ELSE G.live[f].exp
    BY <1>1, <2>1, UnmergedFact
  <2>3. /\ N.live[f].s = (IF f \in DOMAIN m.subjects THEN m.loser ELSE G.live[f].s)
        /\ N.live[f].o = (IF f \in DOMAIN m.objects THEN m.loser ELSE G.live[f].o)
    BY <2>2 DEF End, Column, Cols
  <2>4. /\ Endpoints(G.live[f]) \subseteq DOMAIN G.ent
        /\ G.live[f].exp = "no" => G.live[f].s # G.live[f].o
    BY <2>1 DEF Anchored
  <2>5. m.loser # Literal
    BY <1>1, GraphAssumption DEF MergeRows
  <2>6. /\ f \in DOMAIN m.subjects => G.live[f].s = m.keeper
        /\ f \in DOMAIN m.objects => G.live[f].o = m.keeper
    BY <1>6 DEF End, Column, Cols
  <2>7. f \in m.loops => (f \in DOMAIN m.subjects <=> f \notin DOMAIN m.objects)
    BY <1>1 DEF LoopsAtOneEnd
  <2>8. Endpoints(N.live[f]) \subseteq DOMAIN N.ent
    BY <1>3, <2>3, <2>4 DEF Endpoints
  <2>9. ASSUME N.live[f].exp = "no"
        PROVE  N.live[f].s # N.live[f].o
    <3>1. G.live[f].s # m.loser /\ G.live[f].o # m.loser
      BY <1>3, <2>4, <2>5 DEF Endpoints
    <3>2. CASE f \in DOMAIN m.subjects /\ f \in DOMAIN m.objects
      BY <2>2, <2>4, <2>6, <2>7, <2>9, <3>2
    <3>3. CASE f \in DOMAIN m.subjects <=> f \notin DOMAIN m.objects
      BY <2>3, <3>1, <3>3
    <3>4. CASE f \notin DOMAIN m.subjects /\ f \notin DOMAIN m.objects
      <4>1. f \notin m.loops
        BY <2>7, <3>4
      <4> QED
        BY <2>2, <2>3, <2>4, <2>9, <3>4, <4>1
    <3> QED
      BY <3>2, <3>3, <3>4
  <2> QED
    BY <2>8, <2>9
<1>5. ASSUME NEW e \in N.edges
      PROVE  e[2] \in DOMAIN N.ent
  BY <1>2, <1>3 DEF Anchored
<1> QED
  BY <1>4, <1>5 DEF Anchored

-----------------------------------------------------------------------------
\* The invariant of the threads and its steps

ThreadInv ==
  IndInv /\ Threads(g, base, log) /\ LoopsAtOneEnd(log) /\ Kinds(log) /\ Anchored(g)

LEMMA ThreadsAlike ==
  ASSUME NEW G, NEW B, NEW L, Threads(G, B, L), NEW G2, NEW B2, NEW L2,
         DOMAIN G2.live = DOMAIN G.live, DOMAIN B2.live = DOMAIN B.live,
         \A f \in DOMAIN G.live : \A c \in Cols :
           /\ End(G2.live[f], c) = End(G.live[f], c)
           /\ End(B2.live[f], c) = End(B.live[f], c),
         \A c, f : Listing(L2, c, f) = Listing(L, c, f),
         \A i \in DOMAIN L2 : Stands(L2, i) => i \in DOMAIN L /\ Stands(L, i) /\ L2[i] = L[i]
  PROVE  Threads(G2, B2, L2)
<1>1. ASSUME NEW c \in Cols, NEW f \in DOMAIN G2.live
      PROVE  Threaded(L2, Listing(L2, c, f), End(G2.live[f], c), End(B2.live[f], c))
  <2> DEFINE S == Listing(L, c, f)
  <2>1. Threaded(L, S, End(G.live[f], c), End(B.live[f], c))
    BY DEF Threads
  <2>2. Listing(L2, c, f) = S
    OBVIOUS
  <2>3. SameEnds(L, L2, S)
    BY <2>2 DEF SameEnds, Listing
  <2> HIDE DEF S
  <2>4. Threaded(L2, S, End(G.live[f], c), End(B.live[f], c))
    BY <2>1, <2>3, ThreadKept
  <2> QED
    BY <2>2, <2>4
<1>2. DOMAIN G2.live = DOMAIN B2.live
  BY DEF Threads
<1>3. ASSUME NEW c \in Cols, NEW i \in DOMAIN L2, Stands(L2, i)
      PROVE  DOMAIN Column(L2[i], c) \subseteq DOMAIN G2.live
  BY <1>3 DEF Threads
<1> QED
  BY <1>1, <1>2, <1>3 DEF Threads

LEMMA ThreadsRelogged ==
  ASSUME NEW G, NEW B, NEW L, Threads(G, B, L), NEW G2, NEW L2, G2.live = G.live,
         \A c, f : Listing(L2, c, f) = Listing(L, c, f),
         \A i \in DOMAIN L2 : Stands(L2, i) => i \in DOMAIN L /\ Stands(L, i) /\ L2[i] = L[i]
  PROVE  Threads(G2, B, L2)
BY ThreadsAlike

LEMMA AnchoredAlike ==
  ASSUME NEW G, Anchored(G), NEW G2, DOMAIN G.ent \subseteq DOMAIN G2.ent,
         G2.edges = G.edges, DOMAIN G2.live = DOMAIN G.live,
         \A f \in DOMAIN G.live : /\ G2.live[f].s = G.live[f].s /\ G2.live[f].o = G.live[f].o
                                  /\ G2.live[f].exp = "no" => G.live[f].exp = "no"
  PROVE  Anchored(G2)
BY DEF Anchored, Endpoints

LEMMA ThreadsAdd ==
  ASSUME NEW G, NEW B, NEW L, Threads(G, B, L), NEW f, f \notin DOMAIN G.live, NEW row,
         NEW G2, NEW B2,
         G2.live = Over(One(f, row), G.live), B2.live = Over(One(f, row), B.live)
  PROVE  Threads(G2, B2, L)
<1>1. /\ DOMAIN G2.live = DOMAIN G.live \cup {f} /\ DOMAIN B2.live = DOMAIN B.live \cup {f}
      /\ DOMAIN G.live = DOMAIN B.live
      /\ G2.live[f] = row /\ B2.live[f] = row
      /\ \A x \in DOMAIN G.live : G2.live[x] = G.live[x] /\ B2.live[x] = B.live[x]
  BY DEF Over, One, Threads
<1>2. \A c \in Cols : Listing(L, c, f) = {}
  BY DEF Listing, Threads
<1>3. ASSUME NEW c \in Cols, NEW x \in DOMAIN G2.live
      PROVE  Threaded(L, Listing(L, c, x), End(G2.live[x], c), End(B2.live[x], c))
  <2>1. CASE x = f
    BY <1>1, <1>2, <2>1 DEF Threaded
  <2>2. CASE x \in DOMAIN G.live
    BY <1>1, <2>2 DEF Threads
  <2> QED
    BY <1>1, <2>1, <2>2
<1> QED
  BY <1>1, <1>3 DEF Threads

LEMMA ThreadAddFact ==
  ASSUME ThreadInv, NEW f \in Facts, NEW s \in Ids, NEW o \in Ids \cup {Literal},
         AddFact(f, s, o)
  PROVE  ThreadInv'
<1> DEFINE row == [s |-> s, o |-> o, hash |-> <<s, o>>, exp |-> "no", inert |-> FALSE]
<1>1. /\ g' = [g EXCEPT !.live = Over(One(f, row), @)]
      /\ base' = [base EXCEPT !.live = Over(One(f, row), @)]
      /\ f \notin DOMAIN g.live /\ UNCHANGED log
      /\ {s, o} \ {Literal} \subseteq DOMAIN g.ent /\ s # o
  BY DEF AddFact
<1>2. Shaped(g) /\ Shaped(base)
  BY GraphShaped DEF ThreadInv, IndInv, TypeOK
<1>3. row.s = s /\ row.o = o
  OBVIOUS
<1> HIDE DEF row
<1>4. /\ g'.live = Over(One(f, row), g.live) /\ base'.live = Over(One(f, row), base.live)
      /\ g'.ent = g.ent /\ g'.edges = g.edges
  BY <1>1, <1>2 DEF Shaped
<1>5. IndInv'
  BY AddFactStep DEF ThreadInv
<1>6. Threads(g', base', log)
  BY <1>1, <1>4, ThreadsAdd DEF ThreadInv
<1>7. Anchored(g')
  <2>1. /\ DOMAIN g'.live = DOMAIN g.live \cup {f} /\ g'.live[f] = row
        /\ \A x \in DOMAIN g.live : g'.live[x] = g.live[x]
    BY <1>1, <1>4 DEF Over, One
  <2> QED
    BY <1>1, <1>3, <1>4, <2>1 DEF ThreadInv, Anchored, Endpoints
<1> QED
  BY <1>1, <1>5, <1>6, <1>7 DEF ThreadInv

LEMMA ThreadUnlogged ==
  ASSUME ThreadInv
  PROVE  /\ \A i \in Ids, ep \in Episodes, t \in Types : AddEntity(i, ep, t) => ThreadInv'
         /\ \A f \in Facts : ReadUnexpired(f) \/ InvalidateFact(f) => ThreadInv'
         /\ \A members \in SUBSET Ids, c \in Communities :
              DetectCommunities(members, c) => ThreadInv'
         /\ StartPass => ThreadInv'
<1>1. /\ Shaped(g) /\ Shaped(base) /\ IndInv /\ IsGraph(g)
      /\ Threads(g, base, log) /\ LoopsAtOneEnd(log) /\ Kinds(log) /\ Anchored(g)
  BY GraphShaped DEF ThreadInv, IndInv, TypeOK
<1>2. ASSUME NEW i \in Ids, NEW ep \in Episodes, NEW t \in Types, AddEntity(i, ep, t)
      PROVE  ThreadInv'
  <2> DEFINE row == [props |-> i, ac |-> 0, ty |-> t]
  <2>1. /\ g' = [g EXCEPT !.ent = Over(One(i, row), @), !.edges = @ \cup {<<ep, i>>}]
        /\ base' = IF i \in DOMAIN base.ent THEN base
                   ELSE [base EXCEPT !.ent = Over(One(i, row), @), !.edges = @ \cup {<<ep, i>>}]
        /\ UNCHANGED log
    BY <1>2 DEF AddEntity
  <2> HIDE DEF row
  <2>2. /\ g'.live = g.live /\ base'.live = base.live
        /\ g'.ent = Over(One(i, row), g.ent) /\ g'.edges = g.edges \cup {<<ep, i>>}
    BY <1>1, <2>1 DEF Shaped
  <2>3. Threads(g', base', log)
    BY <1>1, <2>2 DEF Threads
  <2>4. DOMAIN g'.ent = DOMAIN g.ent \cup {i}
    BY <2>2 DEF Over, One
  <2>5. Anchored(g')
    BY <1>1, <2>2, <2>4 DEF Anchored
  <2>6. IndInv'
    BY <1>1, <1>2, UnloggedSteps
  <2> QED
    BY <1>1, <2>1, <2>3, <2>5, <2>6 DEF ThreadInv
<1>3. ASSUME NEW f \in Facts, ReadUnexpired(f)
      PROVE  ThreadInv'
  <2>1. IndInv'
    BY <1>1, <1>3, UnloggedSteps
  <2> QED
    BY <1>1, <1>3, <2>1 DEF ThreadInv, ReadUnexpired
<1>4. ASSUME NEW f \in Facts, InvalidateFact(f)
      PROVE  ThreadInv'
  <2>1. IndInv'
    BY <1>1, <1>4, UnloggedSteps
  <2>2. UNCHANGED <<log, base>>
    BY <1>4 DEF InvalidateFact
  <2>3. CASE f \in DOMAIN g.live
    <3>1. g' = [g EXCEPT !.live[f].exp = "other"]
      BY <1>4, <2>3 DEF InvalidateFact
    <3>2. g'.live = [g.live EXCEPT ![f].exp = "other"] /\ g'.ent = g.ent /\ g'.edges = g.edges
      BY <1>1, <3>1 DEF Shaped
    <3>3. g.live[f] \in FactRows
      BY <1>1, <2>3 DEF IsGraph, IsTable
    <3>4. \A x \in DOMAIN g.live : /\ g'.live[x].s = g.live[x].s /\ g'.live[x].o = g.live[x].o
                                   /\ g'.live[x].exp = "no" => g.live[x].exp = "no"
      BY <3>2, <3>3 DEF FactRows
    <3>5. DOMAIN g'.live = DOMAIN g.live
      BY <3>2
    <3>6. Anchored(g')
      BY <1>1, <3>2, <3>4, <3>5, AnchoredAlike
    <3>7. \A x \in DOMAIN g.live : \A c \in Cols : End(g'.live[x], c) = End(g.live[x], c)
      BY <3>4 DEF End
    <3>8. Threads(g', base, log)
      BY <1>1, <3>5, <3>7 DEF Threads
    <3> QED
      BY <1>1, <2>1, <2>2, <3>6, <3>8 DEF ThreadInv
  <2>4. CASE f \notin DOMAIN g.live
    BY <1>1, <1>4, <2>1, <2>2, <2>4 DEF InvalidateFact, ThreadInv
  <2> QED
    BY <2>3, <2>4
<1>5. ASSUME NEW members \in SUBSET Ids, NEW c \in Communities, DetectCommunities(members, c)
      PROVE  ThreadInv'
  <2>1. g' = [g EXCEPT !.comm = [i \in members |-> c]] /\ UNCHANGED <<log, base>>
    BY <1>5 DEF DetectCommunities
  <2>2. g'.live = g.live /\ g'.ent = g.ent /\ g'.edges = g.edges
    BY <1>1, <2>1 DEF Shaped
  <2>3. IndInv'
    BY <1>1, <1>5, UnloggedSteps
  <2> QED
    BY <1>1, <2>1, <2>2, <2>3 DEF ThreadInv, Threads, Anchored
<1>6. ASSUME StartPass
      PROVE  ThreadInv'
  <2>1. IndInv'
    BY <1>1, <1>6, UnloggedSteps
  <2> QED
    BY <1>1, <1>6, <2>1 DEF ThreadInv, StartPass
<1> QED
  BY <1>2, <1>3, <1>4, <1>5, <1>6

LEMMA ThreadMutations ==
  ASSUME ThreadInv
  PROVE  /\ \A l, k \in Ids : Merge(l, k) => ThreadInv'
         /\ \A e \in Ids, t \in Types : Retype(e, t) => ThreadInv'
<1>1. /\ Shaped(g) /\ IndInv /\ IsGraph(g) /\ log \in Seq(LogRows)
      /\ Threads(g, base, log) /\ LoopsAtOneEnd(log) /\ Kinds(log) /\ Anchored(g)
  BY GraphShaped DEF ThreadInv, IndInv, TypeOK
<1>2. ASSUME NEW l \in Ids, NEW k \in Ids, Merge(l, k)
      PROVE  ThreadInv'
  <2>1. /\ Mergeable(g, l, k) /\ g' = MergeOf(g, l, k)
        /\ log' = Append(log, MergeSnapshot(g, l, k)) /\ UNCHANGED base
    BY <1>2 DEF Merge, Mutate
  <2>2. Threads(g', base, log')
    BY <1>1, <2>1, MergeThreads
  <2>3. Anchored(g')
    BY <1>1, <2>1, MergeAnchored
  <2>4. LoopsAtOneEnd(log')
    BY <1>1, <2>1, MergeLoops DEF Mergeable
  <2>5. Kinds(log')
    <3>1. MergeSnapshot(g, l, k).kind = "merge"
      BY DEF MergeSnapshot
    <3> HIDE DEF MergeSnapshot
    <3> QED
      BY <1>1, <2>1, <3>1 DEF Kinds
  <2>6. IndInv'
    BY <1>1, <1>2, MutationSteps
  <2> QED
    BY <2>1, <2>2, <2>3, <2>4, <2>5, <2>6 DEF ThreadInv
<1>3. ASSUME NEW e \in Ids, NEW t \in Types, Retype(e, t)
      PROVE  ThreadInv'
  <2> DEFINE m == RetypeSnapshot(g, e, t)
             n == Len(log) + 1
  <2>1. /\ e \in DOMAIN g.ent /\ g' = RetypeOf(g, e, t) /\ log' = Append(log, m)
        /\ UNCHANGED base
    BY <1>3 DEF Retype, Mutate
  <2>2. m.kind = "retype"
    BY DEF RetypeSnapshot
  <2>3. g'.live = g.live /\ g'.edges = g.edges /\ DOMAIN g'.ent = DOMAIN g.ent
    BY <1>1, <2>1 DEF RetypeOf, Shaped
  <2> HIDE DEF m
  <2>4. /\ DOMAIN log' = DOMAIN log \cup {n} /\ log'[n] = m
        /\ \A i \in DOMAIN log : log'[i] = log[i]
    BY <1>1, <2>1, Logging
  <2> HIDE DEF n
  <2>5. /\ \A c, f : Listing(log', c, f) = Listing(log, c, f)
        /\ \A i \in DOMAIN log' :
             Stands(log', i) => i \in DOMAIN log /\ Stands(log, i) /\ log'[i] = log[i]
    BY <2>2, <2>4 DEF Listing, Stands
  <2>6. Threads(g', base, log')
    BY <1>1, <2>1, <2>3, <2>5, ThreadsRelogged
  <2>7. Anchored(g')
    BY <1>1, <2>3, AnchoredAlike
  <2>8. LoopsAtOneEnd(log') /\ Kinds(log')
    BY <1>1, <2>2, <2>4 DEF LoopsAtOneEnd, Kinds
  <2>9. IndInv'
    BY <1>1, <1>3, MutationSteps
  <2> QED
    BY <2>1, <2>6, <2>7, <2>8, <2>9 DEF ThreadInv
<1> QED
  BY <1>2, <1>3

LEMMA ThreadReversals ==
  ASSUME ThreadInv, NEW i \in DOMAIN log
  PROVE  /\ Unmerge(i) => ThreadInv'
         /\ UndoRetype(i) => ThreadInv'
<1>1. /\ Shaped(g) /\ IndInv /\ IsGraph(g) /\ log \in Seq(LogRows)
      /\ Threads(g, base, log) /\ LoopsAtOneEnd(log) /\ Kinds(log) /\ Anchored(g)
  BY GraphShaped DEF ThreadInv, IndInv, TypeOK
<1>2. ASSUME Unmerge(i)
      PROVE  ThreadInv'
  <2>1. /\ Stands(log, i) /\ ~LaterChained(i) /\ Unmergeable(g, log[i])
        /\ g' = UnmergeOf(g, log[i]) /\ log' = [log EXCEPT ![i].undone = TRUE]
        /\ UNCHANGED base
    BY <1>2 DEF Unmerge, Reverse, Standing, Stands
  <2>2. ~ChainedOn(log, i)
    BY <1>1, <2>1 DEF LaterChained, ChainedOn, Standing, Stands
  <2>3. Threads(g', base, log')
    BY <1>1, <2>1, <2>2, UnmergeThreads
  <2>4. Anchored(g')
    BY <1>1, <2>1, <2>2, UnmergeAnchored
  <2>5. LoopsAtOneEnd(log') /\ Kinds(log')
    <3>1. /\ DOMAIN log' = DOMAIN log /\ \A j \in DOMAIN log : j # i => log'[j] = log[j]
          /\ log'[i] = [log[i] EXCEPT !.undone = TRUE] /\ log[i] \in MergeRows
      BY <1>1, <2>1, Undoing
    <3>2. /\ log'[i].kind = log[i].kind /\ log'[i].loops = log[i].loops
          /\ log'[i].subjects = log[i].subjects /\ log'[i].objects = log[i].objects
      BY <3>1 DEF MergeRows
    <3>3. LoopsAtOneEnd(log')
      BY <1>1, <3>1, <3>2 DEF LoopsAtOneEnd
    <3>4. Kinds(log')
      BY <1>1, <3>1, <3>2 DEF Kinds
    <3> QED
      BY <3>3, <3>4
  <2>6. IndInv'
    BY <1>1, <1>2, ReversalSteps
  <2> QED
    BY <2>1, <2>3, <2>4, <2>5, <2>6 DEF ThreadInv
<1>3. ASSUME UndoRetype(i)
      PROVE  ThreadInv'
  <2>1. /\ log[i].kind = "retype" /\ g' = UndoRetypeOf(g, log[i])
        /\ log' = [log EXCEPT ![i].undone = TRUE] /\ UNCHANGED base
    BY <1>3 DEF UndoRetype, Reverse, Standing
  <2>2. /\ g'.live = g.live /\ g'.edges = g.edges /\ DOMAIN g'.ent = DOMAIN g.ent
    BY <1>1, <2>1 DEF UndoRetypeOf, Shaped
  <2>3. log[i] \in RetypeRows
    BY <1>1, <2>1, RowOfKind DEF IndInv
  <2>4. /\ DOMAIN log' = DOMAIN log /\ \A j \in DOMAIN log : j # i => log'[j] = log[j]
        /\ log'[i].kind = "retype"
    BY <1>1, <2>1, <2>3 DEF RetypeRows
  <2>5. /\ \A c, f : Listing(log', c, f) = Listing(log, c, f)
        /\ \A j \in DOMAIN log' :
             Stands(log', j) => j \in DOMAIN log /\ Stands(log, j) /\ log'[j] = log[j]
    BY <2>1, <2>4 DEF Listing, Stands
  <2>6. Threads(g', base, log')
    <3>1. g'.live = g.live /\ UNCHANGED base
      BY <2>1, <2>2
    <3> QED
      BY <1>1, <2>5, <3>1, ThreadsRelogged
  <2>7. Anchored(g')
    BY <1>1, <2>2, AnchoredAlike
  <2>8. LoopsAtOneEnd(log') /\ Kinds(log')
    BY <1>1, <2>4 DEF LoopsAtOneEnd, Kinds
  <2>9. IndInv'
    BY <1>1, <1>3, ReversalSteps
  <2> QED
    BY <2>1, <2>6, <2>7, <2>8, <2>9 DEF ThreadInv
<1> QED
  BY <1>2, <1>3

LEMMA ThreadInit == ASSUME AnchoredStart PROVE Init => ThreadInv
<1> SUFFICES ASSUME Init
             PROVE  ThreadInv
  OBVIOUS
<1>1. g \in InitialGraphs /\ base = g /\ log = <<>>
  BY DEF Init
<1>2. DOMAIN log = {}
  BY <1>1
<1>3. \A c, f : Listing(log, c, f) = {}
  BY <1>2 DEF Listing
<1>4. Threads(g, base, log)
  BY <1>1, <1>2, <1>3 DEF Threads, Threaded
<1> QED
  BY <1>1, <1>2, <1>4, InitInv DEF ThreadInv, LoopsAtOneEnd, Kinds, AnchoredStart

LEMMA ThreadStep ==
  ASSUME KeysStay, ThreadInv, [Next]_vars
  PROVE  ThreadInv'
<1>1. CASE UNCHANGED vars
  <2>1. IndInv'
    BY <1>1, StepInv DEF ThreadInv
  <2> QED
    BY <1>1, <2>1 DEF vars, ThreadInv
<1>2. CASE Next
  <2>1. CASE \E f \in Facts : ReadUnexpired(f) \/ InvalidateFact(f) \/ DeleteFact(f)
    BY <2>1, ThreadUnlogged DEF DeleteFact, Mutate, KeysStay
  <2>2. CASE \E f \in Facts, s \in Ids, o \in Ids \cup {Literal} : AddFact(f, s, o)
    BY <2>2, ThreadAddFact
  <2>3. CASE \E i \in Ids, ep \in Episodes, t \in Types : AddEntity(i, ep, t)
    BY <2>3, ThreadUnlogged
  <2>4. CASE \E members \in SUBSET Ids, c \in Communities : DetectCommunities(members, c)
    BY <2>4, ThreadUnlogged
  <2>5. CASE StartPass
    BY <2>5, ThreadUnlogged
  <2>6. CASE \E a, b \in Ids : Merge(a, b) \/ Rename(a, b)
    BY <2>6, ThreadMutations DEF Rename, Mutate, KeysStay
  <2>7. CASE \E e \in Ids, t \in Types : Retype(e, t)
    BY <2>7, ThreadMutations
  <2>8. CASE \E e \in Ids : DeleteEntity(e)
    BY <2>8 DEF DeleteEntity, Mutate, KeysStay
  <2>9. CASE \E i \in DOMAIN log : \/ Unmerge(i) \/ UndoRename(i) \/ UndoRetype(i)
                                   \/ UndoDeleteEntity(i) \/ UndoDeleteFact(i)
    <3>1. PICK i \in DOMAIN log : \/ Unmerge(i) \/ UndoRename(i) \/ UndoRetype(i)
                                  \/ UndoDeleteEntity(i) \/ UndoDeleteFact(i)
      BY <2>9
    <3>2. log[i].kind \in {"merge", "retype"}
      BY DEF ThreadInv, Kinds
    <3>3. ~UndoRename(i) /\ ~UndoDeleteEntity(i) /\ ~UndoDeleteFact(i)
      BY <3>2 DEF UndoRename, UndoDeleteEntity, UndoDeleteFact, Standing
    <3> QED
      BY <3>1, <3>3, ThreadReversals
  <2> QED
    BY <1>2, <2>1, <2>2, <2>3, <2>4, <2>5, <2>6, <2>7, <2>8, <2>9 DEF Next
<1> QED
  BY <1>1, <1>2

-----------------------------------------------------------------------------
\* What every merge and its reversal make of a fact's expiry and of its flag

Looping(L, f) == {i \in DOMAIN L : Stands(L, i) /\ f \in L[i].loops}
Listers(L, f) == Listing(L, "s", f) \cup Listing(L, "o", f)
Flag(m, f) == IF f \in DOMAIN m.objects THEN m.objects[f] ELSE m.subjects[f]

\* Everything of a row but whether it is undone.
Alike(m2, m) ==
  /\ m2.kind = m.kind /\ m2.loser = m.loser /\ m2.keeper = m.keeper
  /\ m2.row = m.row /\ m2.ac = m.ac /\ m2.subjects = m.subjects /\ m2.objects = m.objects
  /\ m2.collided = m.collided /\ m2.moved = m.moved /\ m2.loops = m.loops

\* S: the standing merges that have expired the fact, at most one.
Expired(S, x, b) ==
  /\ S = {} => x = b
  /\ \A i \in S : x = "merge" /\ b = "no" /\ \A j \in S : i = j

\* T: the standing merges that have set the fact's flag.  The first has read what was
\* there before any of them, each other one that the flag is set.
Flagged(L, f, T, x, b) ==
  /\ T \subseteq Nat
  /\ T = {} => x = b
  /\ \A i \in T : /\ x = TRUE
                  /\ (\A j \in T : i <= j) => Flag(L[i], f) = b
                  /\ (\E j \in T : j < i) => Flag(L[i], f) = TRUE

\* Crossed, of any log.
CrossedIn(L, f) ==
  \E i, j \in {x \in DOMAIN L : L[x].kind = "merge"} :
    /\ PairOf(L[i]) \cap PairOf(L[j]) = {}
    /\ f \in Repointed(L[i]) \cap Repointed(L[j])

\* The two columns of a snapshot agree on the flag of a fact that is in both.
OneFlag(L) ==
  \A i \in DOMAIN L : L[i].kind = "merge" =>
    \A f \in DOMAIN L[i].subjects \cap DOMAIN L[i].objects :
      L[i].subjects[f] = L[i].objects[f]

LEMMA FlagKept ==
  ASSUME NEW L, NEW L2, NEW f, NEW T, NEW x, NEW b, Flagged(L, f, T, x, b),
         \A i \in T : Flag(L2[i], f) = Flag(L[i], f)
  PROVE  Flagged(L2, f, T, x, b)
BY DEF Flagged

LEMMA FlagMerge ==
  ASSUME NEW L, NEW L2, NEW f, NEW T, NEW x, NEW b, Flagged(L, f, T, x, b),
         \A i \in T : Flag(L2[i], f) = Flag(L[i], f),
         NEW n \in Nat, \A i \in T : i < n, Flag(L2[n], f) = x
  PROVE  Flagged(L2, f, T \cup {n}, TRUE, b)
<1> DEFINE U == T \cup {n}
<1>1. T \subseteq Nat /\ U \subseteq Nat /\ U # {}
  BY DEF Flagged
<1>2. ASSUME NEW i \in U, \A j \in U : i <= j
      PROVE  Flag(L2[i], f) = b
  <2>1. CASE i \in T
    BY <1>2, <2>1 DEF Flagged
  <2>2. CASE i \notin T
    <3>1. i = n /\ T = {}
      <4>1. \A j \in T : n <= j /\ j < n /\ j \in Nat
        BY <1>1, <1>2, <2>2
      <4> QED
        BY <2>2, <4>1
    <3> QED
      BY <3>1 DEF Flagged
  <2> QED
    BY <2>1, <2>2
<1>3. ASSUME NEW i \in U, NEW j \in U, j < i
      PROVE  Flag(L2[i], f) = TRUE
  <2>1. j \in T
    BY <1>1, <1>3
  <2>2. CASE i \in T
    BY <1>3, <2>1, <2>2 DEF Flagged
  <2>3. CASE i = n
    BY <2>1, <2>3 DEF Flagged
  <2> QED
    BY <2>2, <2>3
<1> QED
  BY <1>1, <1>2, <1>3 DEF Flagged

LEMMA FlagUnmerge ==
  ASSUME NEW L, NEW L2, NEW f, NEW T, NEW x, NEW b, Flagged(L, f, T, x, b),
         \A i \in T : Flag(L2[i], f) = Flag(L[i], f),
         NEW i \in T, \A j \in T : j <= i
  PROVE  Flagged(L2, f, T \ {i}, Flag(L[i], f), b)
<1> DEFINE U == T \ {i}
<1>1. i \in Nat /\ T \subseteq Nat /\ U \subseteq Nat /\ \A j \in U : j < i
  BY DEF Flagged
<1>2. U = {} => Flag(L[i], f) = b
  <2>1. ASSUME U = {} PROVE \A j \in T : i <= j
    BY <1>1, <2>1
  <2> QED
    BY <2>1 DEF Flagged
<1>3. ASSUME NEW j \in U
      PROVE  Flag(L[i], f) = TRUE
  BY <1>1 DEF Flagged
<1>4. ASSUME NEW j \in U, \A k \in U : j <= k
      PROVE  Flag(L2[j], f) = b
  <2>1. \A k \in T : j <= k
    BY <1>1, <1>4
  <2> QED
    BY <2>1 DEF Flagged
<1>5. ASSUME NEW j \in U, NEW k \in U, k < j
      PROVE  Flag(L2[j], f) = TRUE
  BY <1>5 DEF Flagged
<1> QED
  BY <1>1, <1>2, <1>3, <1>4, <1>5 DEF Flagged

LEMMA UndoneAlike ==
  ASSUME NEW L \in Seq(LogRows), NEW i \in DOMAIN L, Stands(L, i)
  PROVE  LET L2 == [L EXCEPT ![i].undone = TRUE] IN
         /\ \A j \in DOMAIN L : Alike(L2[j], L[j])
         /\ \A f : /\ Looping(L2, f) = Looping(L, f) \ {i}
                   /\ Listers(L2, f) = Listers(L, f) \ {i}
                   /\ CrossedIn(L2, f) <=> CrossedIn(L, f)
<1> DEFINE L2 == [L EXCEPT ![i].undone = TRUE]
<1>1. /\ DOMAIN L2 = DOMAIN L
      /\ \A j \in DOMAIN L : j # i => L2[j] = L[j]
      /\ L2[i] = [L[i] EXCEPT !.undone = TRUE] /\ L[i] \in MergeRows
      /\ \A j \in DOMAIN L : Stands(L2, j) <=> Stands(L, j) /\ j # i
      /\ \A c, f : Listing(L2, c, f) = Listing(L, c, f) \ {i}
  BY Undoing
<1> HIDE DEF L2
<1>2. ASSUME NEW j \in DOMAIN L
      PROVE  Alike(L2[j], L[j])
  <2>1. CASE j = i
    BY <1>1, <2>1 DEF Alike, MergeRows
  <2>2. CASE j # i
    BY <1>1, <2>2 DEF Alike
  <2> QED
    BY <2>1, <2>2
<1>3. ASSUME NEW f
      PROVE  /\ Looping(L2, f) = Looping(L, f) \ {i}
             /\ Listers(L2, f) = Listers(L, f) \ {i}
  BY <1>1, <1>2 DEF Looping, Listers, Alike
<1>4. ASSUME NEW f
      PROVE  CrossedIn(L2, f) <=> CrossedIn(L, f)
  <2>1. \A j \in DOMAIN L : /\ L2[j].kind = L[j].kind /\ PairOf(L2[j]) = PairOf(L[j])
                            /\ Repointed(L2[j]) = Repointed(L[j])
    BY <1>2 DEF Alike, PairOf, Repointed
  <2> QED
    BY <1>1, <2>1 DEF CrossedIn
<1> QED
  BY <1>2, <1>3, <1>4 DEF L2

LEMMA LoggedAlike ==
  ASSUME NEW L \in Seq(LogRows), NEW m, m.kind = "merge", ~m.undone
  PROVE  LET n == Len(L) + 1  L2 == Append(L, m) IN
         /\ n \in Nat /\ L2[n] = m
         /\ \A j \in DOMAIN L : j < n /\ L2[j] = L[j]
         /\ \A f : /\ Looping(L2, f) = Looping(L, f) \cup {j \in {n} : f \in m.loops}
                   /\ Listers(L2, f) = Listers(L, f) \cup {j \in {n} : f \in Repointed(m)}
                   /\ CrossedIn(L, f) => CrossedIn(L2, f)
<1> DEFINE n == Len(L) + 1
           L2 == Append(L, m)
<1>1. /\ n \in Nat /\ n \notin DOMAIN L /\ DOMAIN L2 = DOMAIN L \cup {n} /\ L2[n] = m
      /\ \A j \in DOMAIN L : j \in Nat /\ j < n /\ L2[j] = L[j]
      /\ \A c, f : Listing(L2, c, f) =
           Listing(L, c, f) \cup {j \in {n} : Stands(L2, n) /\ f \in DOMAIN Column(m, c)}
  BY Logging
<1> HIDE DEF L2, n
<1>2. Stands(L2, n) /\ \A j \in DOMAIN L : Stands(L2, j) <=> Stands(L, j)
  BY <1>1 DEF Stands
<1>3. ASSUME NEW f
      PROVE  /\ Looping(L2, f) = Looping(L, f) \cup {j \in {n} : f \in m.loops}
             /\ Listers(L2, f) = Listers(L, f) \cup {j \in {n} : f \in Repointed(m)}
             /\ CrossedIn(L, f) => CrossedIn(L2, f)
  <2>1. Looping(L2, f) = Looping(L, f) \cup {j \in {n} : f \in m.loops}
    BY <1>1, <1>2 DEF Looping
  <2>2. Listers(L2, f) = Listers(L, f) \cup {j \in {n} : f \in Repointed(m)}
    BY <1>1, <1>2 DEF Listers, Repointed, Column
  <2>3. CrossedIn(L, f) => CrossedIn(L2, f)
    BY <1>1 DEF CrossedIn
  <2> QED
    BY <2>1, <2>2, <2>3
<1> QED
  BY <1>1, <1>3 DEF n, L2

FactsKept(G, B, L) ==
  \A f \in DOMAIN G.live :
    /\ G.live[f].hash = B.live[f].hash
    /\ Expired(Looping(L, f), G.live[f].exp, B.live[f].exp)
    /\ ~CrossedIn(L, f) => Flagged(L, f, Listers(L, f), G.live[f].inert, B.live[f].inert)

LEMMA MergeOneFlag ==
  ASSUME NEW G, IsGraph(G), NEW L \in Seq(LogRows), OneFlag(L), NEW l \in Ids, NEW k \in Ids
  PROVE  OneFlag(Append(L, MergeSnapshot(G, l, k)))
<1> DEFINE m == MergeSnapshot(G, l, k)
           L2 == Append(L, m)
           n == Len(L) + 1
<1>1. /\ DOMAIN L2 = DOMAIN L \cup {n} /\ L2[n] = m
      /\ \A i \in DOMAIN L : L2[i] = L[i]
  BY Logging
<1>2. \A f \in DOMAIN m.subjects \cap DOMAIN m.objects : m.subjects[f] = m.objects[f]
  BY DEF MergeSnapshot
<1> HIDE DEF m, L2, n
<1>3. OneFlag(L2)
  BY <1>1, <1>2 DEF OneFlag
<1> QED
  BY <1>3 DEF L2, m

LEMMA MergeFactsKept ==
  ASSUME NEW G, IsGraph(G), NEW B, NEW L \in Seq(LogRows), FactsKept(G, B, L),
         NEW l \in Ids, NEW k \in Ids
  PROVE  FactsKept(MergeOf(G, l, k), B, Append(L, MergeSnapshot(G, l, k)))
<1> DEFINE m == MergeSnapshot(G, l, k)
           N == MergeOf(G, l, k)
           L2 == Append(L, m)
           n == Len(L) + 1
<1>0. m.kind = "merge" /\ ~m.undone
  BY DEF MergeSnapshot
<1>1. /\ n \in Nat /\ L2[n] = m
      /\ \A j \in DOMAIN L : j < n /\ L2[j] = L[j]
      /\ \A f : /\ Looping(L2, f) = Looping(L, f) \cup {j \in {n} : f \in m.loops}
                /\ Listers(L2, f) = Listers(L, f) \cup {j \in {n} : f \in Repointed(m)}
                /\ CrossedIn(L, f) => CrossedIn(L2, f)
  BY <1>0, LoggedAlike
<1>2. DOMAIN N.live = DOMAIN G.live
  BY GraphShaped DEF MergeOf, Shaped
<1>3. ASSUME NEW f \in DOMAIN G.live
      PROVE  /\ \A c \in Cols :
                  /\ f \in DOMAIN Column(m, c) <=> End(G.live[f], c) = l
                  /\ f \in DOMAIN Column(m, c) => Column(m, c)[f] = G.live[f].inert
             /\ N.live[f].hash = G.live[f].hash
             /\ N.live[f].exp = IF f \in m.loops THEN "merge" ELSE G.live[f].exp
             /\ N.live[f].inert = (G.live[f].inert \/ Touches(G.live[f], l))
             /\ f \in m.loops => G.live[f].exp = "no"
  BY MergedFact
<1> HIDE DEF N, L2, m, n
<1>4. ASSUME NEW f \in DOMAIN G.live
      PROVE  /\ N.live[f].hash = B.live[f].hash
             /\ Expired(Looping(L2, f), N.live[f].exp, B.live[f].exp)
             /\ ~CrossedIn(L2, f) =>
                  Flagged(L2, f, Listers(L2, f), N.live[f].inert, B.live[f].inert)
  <2>1. /\ G.live[f].hash = B.live[f].hash
        /\ Expired(Looping(L, f), G.live[f].exp, B.live[f].exp)
        /\ ~CrossedIn(L, f) =>
             Flagged(L, f, Listers(L, f), G.live[f].inert, B.live[f].inert)
    BY DEF FactsKept
  <2>2. Expired(Looping(L2, f), N.live[f].exp, B.live[f].exp)
    <3>1. CASE f \in m.loops
      <4>1. Looping(L2, f) = Looping(L, f) \cup {n}
        BY <1>1, <3>1
      <4>2. N.live[f].exp = "merge" /\ G.live[f].exp = "no"
        BY <1>3, <3>1
      <4> QED
        BY <2>1, <4>1, <4>2 DEF Expired
    <3>2. CASE f \notin m.loops
      <4>1. Looping(L2, f) = Looping(L, f)
        BY <1>1, <3>2
      <4>2. N.live[f].exp = G.live[f].exp
        BY <1>3, <3>2
      <4> QED
        BY <2>1, <4>1, <4>2
    <3> QED
      BY <3>1, <3>2
  <2>3. ASSUME ~CrossedIn(L2, f)
        PROVE  Flagged(L2, f, Listers(L2, f), N.live[f].inert, B.live[f].inert)
    <3> DEFINE T == Listers(L, f)
    <3>1. Flagged(L, f, T, G.live[f].inert, B.live[f].inert)
      BY <1>1, <2>1, <2>3
    <3>2. T \subseteq DOMAIN L
      BY DEF Listers, Listing
    <3>3. \A i \in T : i < n /\ Flag(L2[i], f) = Flag(L[i], f)
      BY <1>1, <3>2
    <3>4. Touches(G.live[f], l) <=> f \in Repointed(m)
      BY <1>3 DEF Touches, Repointed, Column, End, Cols
    <3>5. G.live[f].inert \in BOOLEAN
      BY DEF IsGraph, IsTable, FactRows
    <3>6. CASE f \in Repointed(m)
      <4>1. Listers(L2, f) = T \cup {n}
        BY <1>1, <3>6
      <4>2. N.live[f].inert = TRUE
        BY <1>3, <3>4, <3>6
      <4>3. Flag(L2[n], f) = G.live[f].inert
        BY <1>1, <1>3, <3>6 DEF Flag, Repointed, Column, Cols
      <4> HIDE DEF T
      <4>4. Flagged(L2, f, T \cup {n}, TRUE, B.live[f].inert)
        <5>1. n \in Nat /\ \A j \in T : Flag(L2[j], f) = Flag(L[j], f)
          BY <1>1, <3>3
        <5>2. \A j \in T : j < n
          BY <3>3
        <5> QED
          BY <3>1, <4>3, <5>1, <5>2, FlagMerge
      <4> QED
        BY <4>1, <4>2, <4>4
    <3>7. CASE f \notin Repointed(m)
      <4>1. Listers(L2, f) = T
        BY <1>1, <3>7
      <4>2. N.live[f].inert = G.live[f].inert
        BY <1>3, <3>4, <3>5, <3>7
      <4> HIDE DEF T
      <4> QED
        BY <3>1, <3>3, <4>1, <4>2, FlagKept
    <3> QED
      BY <3>6, <3>7
  <2> QED
    BY <1>3, <2>1, <2>2, <2>3
<1>5. FactsKept(N, B, L2)
  BY <1>2, <1>4 DEF FactsKept
<1> QED
  BY <1>5 DEF N, L2, m

LEMMA UnmergeOneFlag ==
  ASSUME NEW L \in Seq(LogRows), OneFlag(L), NEW i \in DOMAIN L, Stands(L, i)
  PROVE  OneFlag([L EXCEPT ![i].undone = TRUE])
<1> DEFINE L2 == [L EXCEPT ![i].undone = TRUE]
<1>1. DOMAIN L2 = DOMAIN L /\ \A j \in DOMAIN L : Alike(L2[j], L[j])
  BY UndoneAlike
<1> HIDE DEF L2
<1>2. OneFlag(L2)
  BY <1>1 DEF OneFlag, Alike
<1> QED
  BY <1>2 DEF L2

\* Undone out of order, a merge may write back a flag that a later one has read; not of
\* a fact that no two merges without a common name have re-pointed.
LEMMA UnmergeFactsKept ==
  ASSUME NEW G, IsGraph(G), NEW B, NEW L \in Seq(LogRows), FactsKept(G, B, L), OneFlag(L),
         NEW i \in DOMAIN L, Stands(L, i), ~ChainedOn(L, i)
  PROVE  FactsKept(UnmergeOf(G, L[i]), B, [L EXCEPT ![i].undone = TRUE])
<1> DEFINE m == L[i]
           N == UnmergeOf(G, m)
           L2 == [L EXCEPT ![i].undone = TRUE]
<1>0. DOMAIN L2 = DOMAIN L /\ m \in MergeRows /\ m.kind = "merge"
  BY Undoing DEF Stands
<1>1. /\ \A j \in DOMAIN L : Alike(L2[j], L[j])
      /\ \A f : /\ Looping(L2, f) = Looping(L, f) \ {i}
                /\ Listers(L2, f) = Listers(L, f) \ {i}
                /\ CrossedIn(L2, f) <=> CrossedIn(L, f)
  BY UndoneAlike
<1>2. DOMAIN N.live = DOMAIN G.live
  BY GraphShaped DEF UnmergeOf, Shaped
<1>3. ASSUME NEW f \in DOMAIN G.live
      PROVE  /\ N.live[f].hash = G.live[f].hash
             /\ N.live[f].exp = IF f \in m.loops THEN "no" ELSE G.live[f].exp
             /\ N.live[f].inert = CASE f \in DOMAIN m.objects -> m.objects[f]
                                    [] f \in DOMAIN m.subjects -> m.subjects[f]
                                    [] OTHER -> G.live[f].inert
  BY <1>0, UnmergedFact
<1> HIDE DEF N, L2
<1>4. ASSUME NEW f \in DOMAIN G.live
      PROVE  /\ N.live[f].hash = B.live[f].hash
             /\ Expired(Looping(L2, f), N.live[f].exp, B.live[f].exp)
             /\ ~CrossedIn(L2, f) =>
                  Flagged(L2, f, Listers(L2, f), N.live[f].inert, B.live[f].inert)
  <2>1. /\ G.live[f].hash = B.live[f].hash
        /\ Expired(Looping(L, f), G.live[f].exp, B.live[f].exp)
        /\ ~CrossedIn(L, f) =>
             Flagged(L, f, Listers(L, f), G.live[f].inert, B.live[f].inert)
    BY DEF FactsKept
  <2>2. Expired(Looping(L2, f), N.live[f].exp, B.live[f].exp)
    <3>0. i \in Looping(L, f) <=> f \in m.loops
      BY DEF Looping
    <3>1. CASE f \in m.loops
      <4>1. N.live[f].exp = "no"
        BY <1>3, <3>1
      <4>2. B.live[f].exp = "no" /\ \A j \in Looping(L, f) : i = j
        BY <2>1, <3>0, <3>1 DEF Expired
      <4>3. Looping(L2, f) = {}
        BY <1>1, <4>2
      <4> QED
        BY <4>1, <4>2, <4>3 DEF Expired
    <3>2. CASE f \notin m.loops
      <4>1. Looping(L2, f) = Looping(L, f)
        <5>1. Looping(L2, f) = Looping(L, f) \ {i}
          BY <1>1
        <5> QED
          BY <3>0, <3>2, <5>1
      <4>2. N.live[f].exp = G.live[f].exp
        BY <1>3, <3>2
      <4> QED
        BY <2>1, <4>1, <4>2
    <3> QED
      BY <3>1, <3>2
  <2>3. ASSUME ~CrossedIn(L2, f)
        PROVE  Flagged(L2, f, Listers(L2, f), N.live[f].inert, B.live[f].inert)
    <3> DEFINE T == Listers(L, f)
    <3>1. Flagged(L, f, T, G.live[f].inert, B.live[f].inert)
      BY <1>1, <2>1, <2>3
    <3>2. T \subseteq DOMAIN L /\ \A j \in T : Stands(L, j) /\ f \in Repointed(L[j])
      BY DEF Listers, Listing, Column, Repointed
    <3>3. \A j \in T : Flag(L2[j], f) = Flag(L[j], f)
      BY <1>1, <3>2 DEF Flag, Alike
    <3>4. i \in T <=> f \in Repointed(m)
      BY DEF Listers, Listing, Column, Repointed
    <3>5. Listers(L2, f) = T \ {i}
      BY <1>1
    <3>6. T \subseteq Nat /\ i \in Nat
      BY <3>1 DEF Flagged
    <3>7. CASE f \in Repointed(m)
      <4>1. \A j \in T : j <= i
        <5> SUFFICES ASSUME NEW j \in T, j > i
                     PROVE  FALSE
          BY <3>6
        <5>1. PairOf(L[j]) \cap PairOf(L[i]) = {}
          BY <3>2 DEF ChainedOn
        <5>2. CrossedIn(L, f)
          BY <1>0, <3>2, <3>7, <5>1 DEF CrossedIn, Stands
        <5> QED
          BY <1>1, <2>3, <5>2
      <4>2. N.live[f].inert = Flag(m, f)
        <5>1. f \in DOMAIN m.objects \cap DOMAIN m.subjects => m.objects[f] = m.subjects[f]
          BY <1>0 DEF OneFlag
        <5> QED
          BY <1>3, <3>7, <5>1 DEF Flag, Repointed
      <4>3. i \in T
        BY <3>4, <3>7
      <4> HIDE DEF T
      <4>4. Flagged(L2, f, T \ {i}, Flag(m, f), B.live[f].inert)
        BY <3>1, <3>3, <4>1, <4>3, FlagUnmerge
      <4> QED
        BY <3>5, <4>2, <4>4
    <3>8. CASE f \notin Repointed(m)
      <4>1. Listers(L2, f) = T
        BY <3>4, <3>5, <3>8
      <4>2. N.live[f].inert = G.live[f].inert
        BY <1>3, <3>8 DEF Repointed
      <4> HIDE DEF T
      <4> QED
        BY <3>1, <3>3, <4>1, <4>2, FlagKept
    <3> QED
      BY <3>7, <3>8
  <2> QED
    BY <1>3, <2>1, <2>2, <2>3
<1>5. FactsKept(N, B, L2)
  BY <1>2, <1>4 DEF FactsKept
<1> QED
  BY <1>5 DEF N, L2

-----------------------------------------------------------------------------
\* What every merge and its reversal make of an entity's row and of its episodes

Up(L) == {i \in DOMAIN L : Stands(L, i)}
Into(L, x) == {i \in Up(L) : L[i].keeper = x}

\* A name that ingest has taken again, or that two standing merges have merged away:
\* no reversal brings the first of them back (UndoStale), and nothing is promised.
Stuck(G, L) ==
  \E i \in Up(L) : \/ L[i].loser \in DOMAIN G.ent
                   \/ \E j \in Up(L) : j # i /\ L[j].loser = L[i].loser

\* S: the standing merges into an entity whose first row is b and first episodes D.
\* The first has read b's access count; each has brought episodes of its own.
Gathered(L, S, b, D, row, E) ==
  /\ S \subseteq Nat
  /\ row.props = b.props /\ row.ty = b.ty
  /\ S = {} => row.ac = b.ac
  /\ \A i \in S : (\A j \in S : i <= j) => L[i].ac = b.ac
  /\ E = {ep \in Episodes : ep \in D \/ \E i \in S : ep \in L[i].moved}
  /\ \A i \in S : L[i].moved \cap D = {}
  /\ \A i, j \in S : i # j => L[i].moved \cap L[j].moved = {}

LEMMA GatherKept ==
  ASSUME NEW L, NEW L2, NEW S, NEW b, NEW D, NEW row, NEW E, Gathered(L, S, b, D, row, E),
         \A i \in S : L2[i].ac = L[i].ac /\ L2[i].moved = L[i].moved
  PROVE  Gathered(L2, S, b, D, row, E)
BY DEF Gathered

LEMMA GatherMerge ==
  ASSUME NEW L, NEW L2, NEW S, NEW b, NEW D, NEW row, NEW E, Gathered(L, S, b, D, row, E),
         \A i \in S : L2[i].ac = L[i].ac /\ L2[i].moved = L[i].moved,
         NEW n \in Nat, \A i \in S : i < n, L2[n].ac = row.ac, L2[n].moved \subseteq Episodes \ E,
         NEW new, new.props = row.props, new.ty = row.ty
  PROVE  Gathered(L2, S \cup {n}, b, D, new, E \cup L2[n].moved)
<1> DEFINE T == S \cup {n}
<1>1. T \subseteq Nat /\ T # {} /\ new.props = b.props /\ new.ty = b.ty
  BY DEF Gathered
<1>2. ASSUME NEW i \in T, \A j \in T : i <= j
      PROVE  L2[i].ac = b.ac
  <2>1. CASE i \in S
    BY <1>2, <2>1 DEF Gathered
  <2>2. CASE i \notin S
    <3>1. i = n /\ S = {}
      <4>1. \A j \in S : n <= j /\ j < n /\ j \in Nat
        BY <1>1, <1>2, <2>2
      <4> QED
        BY <2>2, <4>1
    <3> QED
      BY <3>1 DEF Gathered
  <2> QED
    BY <2>1, <2>2
<1>3. E \cup L2[n].moved = {ep \in Episodes : ep \in D \/ \E i \in T : ep \in L2[i].moved}
  BY DEF Gathered
<1>4. \A i \in S : L[i].moved \cap L2[n].moved = {}
  BY DEF Gathered
<1>5. \A i \in T : L2[i].moved \cap D = {}
  BY DEF Gathered
<1>6. \A i, j \in T : i # j => L2[i].moved \cap L2[j].moved = {}
  BY <1>4 DEF Gathered
<1> QED
  BY <1>1, <1>2, <1>3, <1>5, <1>6 DEF Gathered

LEMMA GatherUnmerge ==
  ASSUME NEW L, NEW L2, NEW S, NEW b, NEW D, NEW row, NEW E, Gathered(L, S, b, D, row, E),
         \A i \in S : L2[i].ac = L[i].ac /\ L2[i].moved = L[i].moved,
         NEW i \in S, \A j \in S : j <= i,
         NEW new, new.props = row.props, new.ty = row.ty, new.ac = L[i].ac
  PROVE  Gathered(L2, S \ {i}, b, D, new, E \ L[i].moved)
<1> DEFINE T == S \ {i}
<1>1. /\ i \in Nat /\ S \subseteq Nat /\ T \subseteq Nat /\ \A j \in T : j < i
      /\ new.props = b.props /\ new.ty = b.ty
  BY DEF Gathered
<1>2. T = {} => new.ac = b.ac
  <2>1. ASSUME T = {} PROVE \A j \in S : i <= j
    BY <1>1, <2>1
  <2> QED
    BY <2>1 DEF Gathered
<1>3. ASSUME NEW j \in T, \A x \in T : j <= x
      PROVE  L2[j].ac = b.ac
  <2>1. \A x \in S : j <= x
    BY <1>1, <1>3
  <2> QED
    BY <2>1 DEF Gathered
<1>4. E \ L[i].moved = {ep \in Episodes : ep \in D \/ \E j \in T : ep \in L2[j].moved}
  BY DEF Gathered
<1>5. /\ \A j \in T : L2[j].moved \cap D = {}
      /\ \A j, x \in T : j # x => L2[j].moved \cap L2[x].moved = {}
  BY DEF Gathered
<1> QED
  BY <1>1, <1>2, <1>3, <1>4, <1>5 DEF Gathered

LEMMA MergedNames ==
  ASSUME NEW G, IsGraph(G), NEW l \in Ids, NEW k \in Ids, Mergeable(G, l, k)
  PROVE  LET N == MergeOf(G, l, k)  m == MergeSnapshot(G, l, k) IN
         /\ DOMAIN N.ent = DOMAIN G.ent \ {l}
         /\ \A x \in DOMAIN N.ent : x # k =>
              N.ent[x] = G.ent[x] /\ EpisodesOf(N, x) = EpisodesOf(G, x)
         /\ N.ent[k].props = G.ent[k].props /\ N.ent[k].ty = G.ent[k].ty
         /\ EpisodesOf(N, k) = EpisodesOf(G, k) \cup m.moved
         /\ m.moved \subseteq Episodes \ EpisodesOf(G, k)
         /\ m.moved \cup m.collided = EpisodesOf(G, l)
         /\ m.row = G.ent[l] /\ m.ac = G.ent[k].ac
<1> DEFINE N == MergeOf(G, l, k)
           m == MergeSnapshot(G, l, k)
<1>1. /\ N.ent = [i \in DOMAIN G.ent \ {l} |->
                    IF i = k THEN [G.ent[k] EXCEPT !.ac = @ + G.ent[l].ac] ELSE G.ent[i]]
      /\ N.edges = {e \in G.edges : e[2] # l} \cup {<<ep, k>> : ep \in EpisodesOf(G, l)}
  BY GraphShaped DEF MergeOf, Shaped
<1>2. /\ m.moved = EpisodesOf(G, l) \ EpisodesOf(G, k)
      /\ m.collided = EpisodesOf(G, l) \cap EpisodesOf(G, k)
      /\ m.row = G.ent[l] /\ m.ac = G.ent[k].ac
  BY DEF MergeSnapshot
<1>3. k \in DOMAIN G.ent \ {l} /\ G.ent[k] \in EntityRows
  BY DEF Mergeable, IsGraph, IsTable
<1> HIDE DEF N, m
<1>4. /\ DOMAIN N.ent = DOMAIN G.ent \ {l}
      /\ \A x \in DOMAIN N.ent : x # k => N.ent[x] = G.ent[x]
      /\ N.ent[k].props = G.ent[k].props /\ N.ent[k].ty = G.ent[k].ty
  BY <1>1, <1>3 DEF EntityRows
<1>5. ASSUME NEW x \in DOMAIN N.ent, x # k
      PROVE  EpisodesOf(N, x) = EpisodesOf(G, x)
  BY <1>1, <1>4, <1>5 DEF EpisodesOf
<1>6. EpisodesOf(N, k) = EpisodesOf(G, k) \cup m.moved
  BY <1>1, <1>2, <1>3 DEF EpisodesOf
<1>7. /\ m.moved \subseteq Episodes \ EpisodesOf(G, k)
      /\ m.moved \cup m.collided = EpisodesOf(G, l)
  BY <1>2 DEF EpisodesOf
<1> QED
  BY <1>2, <1>4, <1>5, <1>6, <1>7 DEF N, m

LEMMA UnmergedNames ==
  ASSUME NEW G, IsGraph(G), Anchored(G), NEW m \in MergeRows, Unmergeable(G, m),
         m.moved \subseteq EpisodesOf(G, m.keeper)
  PROVE  LET N == UnmergeOf(G, m) IN
         /\ DOMAIN N.ent = DOMAIN G.ent \cup {m.loser}
         /\ m.loser \notin DOMAIN G.ent /\ m.keeper \in DOMAIN G.ent
         /\ \A x \in DOMAIN G.ent : x # m.keeper =>
              N.ent[x] = G.ent[x] /\ EpisodesOf(N, x) = EpisodesOf(G, x)
         /\ N.ent[m.keeper].props = G.ent[m.keeper].props
         /\ N.ent[m.keeper].ty = G.ent[m.keeper].ty
         /\ N.ent[m.keeper].ac = m.ac
         /\ EpisodesOf(N, m.keeper) = EpisodesOf(G, m.keeper) \ m.moved
         /\ N.ent[m.loser] = m.row
         /\ EpisodesOf(N, m.loser) = m.moved \cup m.collided
<1> DEFINE N == UnmergeOf(G, m)
           k == m.keeper
           a == m.loser
           back == {ep \in m.moved : <<ep, m.keeper>> \in G.edges}
<1>1. /\ N.ent = Over(One(a, m.row), [G.ent EXCEPT ![k].ac = m.ac])
      /\ N.edges = (G.edges \ (back \X {k})) \cup ((back \cup m.collided) \X {a})
  BY GraphShaped DEF UnmergeOf, Shaped
<1>2. a \notin DOMAIN G.ent /\ k \in DOMAIN G.ent /\ a # k
  BY DEF Unmergeable
<1>3. back = m.moved
  BY DEF EpisodesOf
<1>4. /\ m.moved \subseteq Episodes /\ m.collided \subseteq Episodes
      /\ G.ent[k] \in EntityRows
  BY <1>2 DEF MergeRows, IsGraph, IsTable
<1>5. \A ep : <<ep, a>> \notin G.edges
  BY <1>2 DEF Anchored
<1> HIDE DEF N, k, a, back
<1>6. /\ DOMAIN N.ent = DOMAIN G.ent \cup {a}
      /\ \A x \in DOMAIN G.ent : x # k => N.ent[x] = G.ent[x]
      /\ N.ent[k] = [G.ent[k] EXCEPT !.ac = m.ac] /\ N.ent[a] = m.row
  BY <1>1, <1>2 DEF Over, One
<1>7. /\ N.ent[k].props = G.ent[k].props /\ N.ent[k].ty = G.ent[k].ty /\ N.ent[k].ac = m.ac
  BY <1>4, <1>6 DEF EntityRows
<1>8. ASSUME NEW x \in DOMAIN G.ent, x # k
      PROVE  EpisodesOf(N, x) = EpisodesOf(G, x)
  BY <1>1, <1>2, <1>8 DEF EpisodesOf
<1>9. EpisodesOf(N, k) = EpisodesOf(G, k) \ m.moved
  BY <1>1, <1>2, <1>3 DEF EpisodesOf
<1>10. EpisodesOf(N, a) = m.moved \cup m.collided
  BY <1>1, <1>2, <1>3, <1>4, <1>5 DEF EpisodesOf
<1> QED
  BY <1>2, <1>6, <1>7, <1>8, <1>9, <1>10 DEF N, k, a

Gathering(B, L, x, row, E) ==
  Gathered(L, Into(L, x), B.ent[x], EpisodesOf(B, x), row, E)

\* The entities there were are those there are and those merged away, and each still
\* has, in its row or in its merge's snapshot, what it began with and what it gathered.
Names(G, B, L) ==
  /\ DOMAIN B.ent = DOMAIN G.ent \cup {L[i].loser : i \in Up(L)}
  /\ \A i \in Up(L) : L[i].keeper \in DOMAIN B.ent
  /\ \A x \in DOMAIN G.ent : Gathering(B, L, x, G.ent[x], EpisodesOf(G, x))
  /\ \A i \in Up(L) :
       Gathering(B, L, L[i].loser, L[i].row, L[i].moved \cup L[i].collided)

LEMMA MergeNames ==
  ASSUME NEW G, IsGraph(G), NEW B, NEW L \in Seq(LogRows), Names(G, B, L), ~Stuck(G, L),
         NEW l \in Ids, NEW k \in Ids, Mergeable(G, l, k)
  PROVE  Names(MergeOf(G, l, k), B, Append(L, MergeSnapshot(G, l, k)))
<1> DEFINE m == MergeSnapshot(G, l, k)
           N == MergeOf(G, l, k)
           L2 == Append(L, m)
           n == Len(L) + 1
<1>0. m.kind = "merge" /\ ~m.undone /\ m.loser = l /\ m.keeper = k
  BY DEF MergeSnapshot
<1>1. /\ n \in Nat /\ n \notin DOMAIN L /\ DOMAIN L2 = DOMAIN L \cup {n} /\ L2[n] = m
      /\ \A j \in DOMAIN L : j \in Nat /\ j < n /\ L2[j] = L[j]
  BY Logging
<1>2. /\ DOMAIN N.ent = DOMAIN G.ent \ {l}
      /\ \A x \in DOMAIN N.ent : x # k =>
           N.ent[x] = G.ent[x] /\ EpisodesOf(N, x) = EpisodesOf(G, x)
      /\ N.ent[k].props = G.ent[k].props /\ N.ent[k].ty = G.ent[k].ty
      /\ EpisodesOf(N, k) = EpisodesOf(G, k) \cup m.moved
      /\ m.moved \subseteq Episodes \ EpisodesOf(G, k)
      /\ m.moved \cup m.collided = EpisodesOf(G, l)
      /\ m.row = G.ent[l] /\ m.ac = G.ent[k].ac
  BY MergedNames
<1>3. l # k /\ l \in DOMAIN G.ent /\ k \in DOMAIN G.ent
  BY DEF Mergeable
<1> HIDE DEF N, L2, m, n
<1>4. /\ Up(L2) = Up(L) \cup {n} /\ Up(L) \subseteq DOMAIN L
      /\ Into(L2, k) = Into(L, k) \cup {n}
      /\ \A x : x # k => Into(L2, x) = Into(L, x)
      /\ \A x : Into(L, x) \subseteq DOMAIN L
  BY <1>0, <1>1 DEF Up, Into, Stands
<1>5. \A i \in Up(L) : L[i].loser \notin DOMAIN G.ent
  BY DEF Stuck
<1>6. DOMAIN B.ent = DOMAIN N.ent \cup {L2[i].loser : i \in Up(L2)}
  <2>1. {L2[i].loser : i \in Up(L2)} = {L[i].loser : i \in Up(L)} \cup {l}
    BY <1>0, <1>1, <1>4
  <2> QED
    BY <1>2, <1>3, <2>1 DEF Names
<1>7. ASSUME NEW i \in Up(L2)
      PROVE  L2[i].keeper \in DOMAIN B.ent
  BY <1>0, <1>1, <1>3, <1>4 DEF Names
<1>8. ASSUME NEW x, x # k, NEW row, NEW E, Gathering(B, L, x, row, E)
      PROVE  Gathering(B, L2, x, row, E)
  <2> DEFINE S == Into(L, x)
  <2>1. Gathered(L, S, B.ent[x], EpisodesOf(B, x), row, E)
    BY <1>8 DEF Gathering
  <2>2. \A i \in S : L2[i].ac = L[i].ac /\ L2[i].moved = L[i].moved
    BY <1>1, <1>4
  <2>3. Into(L2, x) = S
    BY <1>4, <1>8
  <2> HIDE DEF S
  <2>4. Gathered(L2, S, B.ent[x], EpisodesOf(B, x), row, E)
    BY <2>1, <2>2, GatherKept
  <2> QED
    BY <2>3, <2>4 DEF Gathering
<1>9. ASSUME NEW x \in DOMAIN N.ent
      PROVE  Gathering(B, L2, x, N.ent[x], EpisodesOf(N, x))
  <2>1. CASE x # k
    BY <1>2, <1>8, <2>1 DEF Names
  <2>2. CASE x = k
    <3> DEFINE S == Into(L, k)
    <3>1. Gathered(L, S, B.ent[k], EpisodesOf(B, k), G.ent[k], EpisodesOf(G, k))
      BY <1>3 DEF Names, Gathering
    <3>2. \A i \in S : i < n /\ L2[i].ac = L[i].ac /\ L2[i].moved = L[i].moved
      BY <1>1, <1>4
    <3>3. Into(L2, k) = S \cup {n}
      BY <1>4
    <3>4. /\ L2[n].ac = G.ent[k].ac /\ L2[n].moved = m.moved
          /\ L2[n].moved \subseteq Episodes \ EpisodesOf(G, k)
      BY <1>1, <1>2
    <3> HIDE DEF S
    <3>5. Gathered(L2, S \cup {n}, B.ent[k], EpisodesOf(B, k), N.ent[k],
                   EpisodesOf(G, k) \cup L2[n].moved)
      BY <1>1, <1>2, <3>1, <3>2, <3>4, GatherMerge
    <3> QED
      BY <1>2, <2>2, <3>3, <3>4, <3>5 DEF Gathering
  <2> QED
    BY <2>1, <2>2
<1>10. ASSUME NEW i \in Up(L2)
       PROVE  Gathering(B, L2, L2[i].loser, L2[i].row, L2[i].moved \cup L2[i].collided)
  <2>1. CASE i \in Up(L)
    <3>1. L2[i] = L[i] /\ L[i].loser # k
      BY <1>1, <1>3, <1>4, <1>5, <2>1
    <3>2. Gathering(B, L, L[i].loser, L[i].row, L[i].moved \cup L[i].collided)
      BY <2>1 DEF Names
    <3> QED
      BY <1>8, <3>1, <3>2
  <2>2. CASE i = n
    <3>1. Gathering(B, L, l, G.ent[l], EpisodesOf(G, l))
      BY <1>3 DEF Names
    <3>2. /\ L2[i].loser = l /\ L2[i].row = G.ent[l]
          /\ L2[i].moved \cup L2[i].collided = EpisodesOf(G, l)
      BY <1>0, <1>1, <1>2, <2>2
    <3> QED
      BY <1>3, <1>8, <3>1, <3>2
  <2> QED
    BY <1>4, <2>1, <2>2
<1>11. Names(N, B, L2)
  BY <1>6, <1>7, <1>9, <1>10 DEF Names
<1> QED
  BY <1>11 DEF N, L2, m

LEMMA UnmergeNames ==
  ASSUME NEW G, IsGraph(G), Anchored(G), NEW B, NEW L \in Seq(LogRows), Names(G, B, L),
         ~Stuck(G, L), NEW i \in DOMAIN L, Stands(L, i), ~ChainedOn(L, i),
         Unmergeable(G, L[i])
  PROVE  Names(UnmergeOf(G, L[i]), B, [L EXCEPT ![i].undone = TRUE])
<1> DEFINE m == L[i]
           k == m.keeper
           N == UnmergeOf(G, m)
           L2 == [L EXCEPT ![i].undone = TRUE]
<1>0. /\ DOMAIN L2 = DOMAIN L /\ m \in MergeRows
      /\ \A j \in DOMAIN L : Stands(L2, j) <=> Stands(L, j) /\ j # i
  BY Undoing
<1>1. \A j \in DOMAIN L : Alike(L2[j], L[j])
  BY UndoneAlike
<1>2. i \in Into(L, k) /\ i \in Up(L) /\ k \in DOMAIN G.ent
  BY DEF Into, Up, Unmergeable
<1>3. Gathered(L, Into(L, k), B.ent[k], EpisodesOf(B, k), G.ent[k], EpisodesOf(G, k))
  BY <1>2 DEF Names, Gathering
<1>4. m.moved \subseteq EpisodesOf(G, k)
  <2>1. m.moved \subseteq Episodes
    BY <1>0 DEF MergeRows
  <2> QED
    BY <1>2, <1>3, <2>1 DEF Gathered
<1>5. /\ DOMAIN N.ent = DOMAIN G.ent \cup {m.loser}
      /\ m.loser \notin DOMAIN G.ent
      /\ \A x \in DOMAIN G.ent : x # k =>
           N.ent[x] = G.ent[x] /\ EpisodesOf(N, x) = EpisodesOf(G, x)
      /\ N.ent[k].props = G.ent[k].props
      /\ N.ent[k].ty = G.ent[k].ty
      /\ N.ent[k].ac = m.ac
      /\ EpisodesOf(N, k) = EpisodesOf(G, k) \ m.moved
      /\ N.ent[m.loser] = m.row
      /\ EpisodesOf(N, m.loser) = m.moved \cup m.collided
  BY <1>0, <1>4, UnmergedNames
<1> HIDE DEF N, L2, m
<1>6. /\ Up(L2) = Up(L) \ {i} /\ Up(L) \subseteq DOMAIN L
      /\ Into(L2, k) = Into(L, k) \ {i}
      /\ \A x : x # k => Into(L2, x) = Into(L, x)
      /\ \A x : Into(L, x) \subseteq DOMAIN L
  <2>1. Up(L2) = Up(L) \ {i} /\ Up(L) \subseteq DOMAIN L
    BY <1>0 DEF Up
  <2>2. ASSUME NEW x
        PROVE  Into(L2, x) = Into(L, x) \ {i}
    BY <1>1, <2>1 DEF Into, Alike
  <2>3. \A x : x # k => i \notin Into(L, x)
    BY DEF Into, m
  <2> QED
    BY <2>1, <2>2, <2>3 DEF Into
<1>7. DOMAIN B.ent = DOMAIN N.ent \cup {L2[j].loser : j \in Up(L2)}
  <2>1. {L[j].loser : j \in Up(L)} = {L2[j].loser : j \in Up(L2)} \cup {m.loser}
    BY <1>1, <1>2, <1>6 DEF Alike, m
  <2> QED
    BY <1>5, <2>1 DEF Names
<1>8. \A j \in Up(L2) : L2[j].keeper \in DOMAIN B.ent
  BY <1>1, <1>6 DEF Names, Alike
<1>9. ASSUME NEW x, x # k, NEW row, NEW E, Gathering(B, L, x, row, E)
      PROVE  Gathering(B, L2, x, row, E)
  <2> DEFINE S == Into(L, x)
  <2>1. Gathered(L, S, B.ent[x], EpisodesOf(B, x), row, E)
    BY <1>9 DEF Gathering
  <2>2. \A j \in S : L2[j].ac = L[j].ac /\ L2[j].moved = L[j].moved
    BY <1>1, <1>6 DEF Alike
  <2>3. Into(L2, x) = S
    BY <1>6, <1>9
  <2> HIDE DEF S
  <2>4. Gathered(L2, S, B.ent[x], EpisodesOf(B, x), row, E)
    BY <2>1, <2>2, GatherKept
  <2> QED
    BY <2>3, <2>4 DEF Gathering
<1>10. ASSUME NEW x \in DOMAIN N.ent
       PROVE  Gathering(B, L2, x, N.ent[x], EpisodesOf(N, x))
  <2>1. CASE x = k
    <3> DEFINE S == Into(L, k)
    <3>1. \A j \in S : L2[j].ac = L[j].ac /\ L2[j].moved = L[j].moved
      BY <1>1, <1>6 DEF Alike
    <3>2. Into(L2, k) = S \ {i}
      BY <1>6
    <3>3. \A j \in S : j <= i
      <4>1. \A j \in S : ~(j > i)
        BY DEF Into, Up, ChainedOn, PairOf, m
      <4>2. S \subseteq Nat /\ i \in Nat
        BY <1>2, <1>3 DEF Gathered
      <4> QED
        BY <4>1, <4>2
    <3>4. i \in S /\ Gathered(L, S, B.ent[k], EpisodesOf(B, k), G.ent[k], EpisodesOf(G, k))
      BY <1>2, <1>3
    <3>5. N.ent[k].ac = L[i].ac /\ EpisodesOf(N, k) = EpisodesOf(G, k) \ L[i].moved
      BY <1>5 DEF m
    <3> HIDE DEF S, k
    <3>6. Gathered(L2, S \ {i}, B.ent[k], EpisodesOf(B, k), N.ent[k],
                   EpisodesOf(G, k) \ L[i].moved)
      BY <1>5, <3>1, <3>3, <3>4, <3>5, GatherUnmerge
    <3> QED
      BY <2>1, <3>2, <3>5, <3>6 DEF Gathering
  <2>2. CASE x # k /\ x \in DOMAIN G.ent
    BY <1>5, <1>9, <2>2 DEF Names
  <2>3. CASE x = m.loser
    <3>1. Gathering(B, L, m.loser, m.row, m.moved \cup m.collided)
      BY <1>2 DEF Names, m
    <3>2. m.loser # k
      BY <1>2, <1>5
    <3> QED
      BY <1>5, <1>9, <2>3, <3>1, <3>2
  <2> QED
    BY <1>5, <2>1, <2>2, <2>3
<1>11. ASSUME NEW j \in Up(L2)
       PROVE  Gathering(B, L2, L2[j].loser, L2[j].row, L2[j].moved \cup L2[j].collided)
  <2>1. j \in Up(L)
    BY <1>6
  <2>2. Gathering(B, L, L[j].loser, L[j].row, L[j].moved \cup L[j].collided)
    BY <2>1 DEF Names
  <2>3. L[j].loser # k
    BY <1>2, <2>1 DEF Stuck
  <2>4. /\ L2[j].loser = L[j].loser /\ L2[j].row = L[j].row
        /\ L2[j].moved = L[j].moved /\ L2[j].collided = L[j].collided
    BY <1>1, <1>6, <2>1 DEF Alike
  <2> QED
    BY <1>9, <2>2, <2>3, <2>4
<1>12. Names(N, B, L2)
  BY <1>7, <1>8, <1>10, <1>11 DEF Names
<1> QED
  BY <1>12 DEF N, L2, m

\* A name once taken, or merged away twice, stays so.
LEMMA MergeStuck ==
  ASSUME NEW G, IsGraph(G), NEW L \in Seq(LogRows), Stuck(G, L), NEW l \in Ids, NEW k \in Ids
  PROVE  Stuck(MergeOf(G, l, k), Append(L, MergeSnapshot(G, l, k)))
<1> DEFINE m == MergeSnapshot(G, l, k)
           N == MergeOf(G, l, k)
           L2 == Append(L, m)
           n == Len(L) + 1
<1>0. m.kind = "merge" /\ ~m.undone /\ m.loser = l
  BY DEF MergeSnapshot
<1>1. /\ n \notin DOMAIN L /\ DOMAIN L2 = DOMAIN L \cup {n} /\ L2[n] = m
      /\ \A j \in DOMAIN L : L2[j] = L[j]
  BY Logging
<1>2. DOMAIN N.ent = DOMAIN G.ent \ {l}
  BY GraphShaped DEF MergeOf, Shaped
<1> HIDE DEF N, L2, m, n
<1>3. Up(L2) = Up(L) \cup {n} /\ Up(L) \subseteq DOMAIN L
  BY <1>0, <1>1 DEF Up, Stands
<1>4. PICK i \in Up(L) : \/ L[i].loser \in DOMAIN G.ent
                         \/ \E j \in Up(L) : j # i /\ L[j].loser = L[i].loser
  BY DEF Stuck
<1>5. \/ L2[i].loser \in DOMAIN N.ent
      \/ \E j \in Up(L2) : j # i /\ L2[j].loser = L2[i].loser
  <2>1. CASE L[i].loser = l
    BY <1>0, <1>1, <1>3, <2>1
  <2>2. CASE L[i].loser # l
    BY <1>1, <1>2, <1>3, <1>4, <2>2
  <2> QED
    BY <2>1, <2>2
<1>6. Stuck(N, L2)
  BY <1>3, <1>5 DEF Stuck
<1> QED
  BY <1>6 DEF N, L2, m

LEMMA UnmergeStuck ==
  ASSUME NEW G, IsGraph(G), NEW L \in Seq(LogRows), Stuck(G, L),
         NEW i \in DOMAIN L, Stands(L, i), Unmergeable(G, L[i])
  PROVE  Stuck(UnmergeOf(G, L[i]), [L EXCEPT ![i].undone = TRUE])
<1> DEFINE N == UnmergeOf(G, L[i])
           L2 == [L EXCEPT ![i].undone = TRUE]
<1>1. /\ DOMAIN L2 = DOMAIN L /\ SameEnds(L, L2, DOMAIN L)
      /\ \A j \in DOMAIN L : Stands(L2, j) <=> Stands(L, j) /\ j # i
  BY Undoing
<1>2. DOMAIN N.ent = DOMAIN G.ent \cup {L[i].loser}
  <2>1. N.ent = Over(One(L[i].loser, L[i].row), [G.ent EXCEPT ![L[i].keeper].ac = L[i].ac])
    BY GraphShaped DEF UnmergeOf, Shaped
  <2> QED
    BY <2>1 DEF Over, One
<1> HIDE DEF N, L2
<1>3. Up(L2) = Up(L) \ {i} /\ i \in Up(L) /\ \A j \in Up(L) : L2[j].loser = L[j].loser
  BY <1>1 DEF Up, SameEnds
<1>4. L[i].loser \notin DOMAIN G.ent
  BY DEF Unmergeable
<1>5. PICK x \in Up(L) : \/ L[x].loser \in DOMAIN G.ent
                         \/ \E j \in Up(L) : j # x /\ L[j].loser = L[x].loser
  BY DEF Stuck
<1>6. ASSUME L[x].loser \in DOMAIN G.ent
      PROVE  Stuck(N, L2)
  BY <1>2, <1>3, <1>4, <1>6 DEF Stuck
<1>7. ASSUME NEW j \in Up(L), j # x, L[j].loser = L[x].loser
      PROVE  Stuck(N, L2)
  <2>1. CASE x = i
    BY <1>2, <1>3, <1>7, <2>1 DEF Stuck
  <2>2. CASE j = i
    BY <1>2, <1>3, <1>7, <2>2 DEF Stuck
  <2>3. CASE x # i /\ j # i
    BY <1>3, <1>7, <2>3 DEF Stuck
  <2> QED
    BY <2>1, <2>2, <2>3
<1>8. Stuck(N, L2)
  BY <1>5, <1>6, <1>7
<1> QED
  BY <1>8 DEF N, L2

LEMMA NamesAlike ==
  ASSUME NEW G, NEW B, NEW L, NEW G2, NEW B2,
         G2.ent = G.ent, G2.edges = G.edges, B2.ent = B.ent, B2.edges = B.edges,
         Stuck(G, L) \/ Names(G, B, L)
  PROVE  Stuck(G2, L) \/ Names(G2, B2, L)
<1>1. \A x : EpisodesOf(G2, x) = EpisodesOf(G, x) /\ EpisodesOf(B2, x) = EpisodesOf(B, x)
  BY DEF EpisodesOf
<1>2. \A x, row, E : Gathering(B2, L, x, row, E) <=> Gathering(B, L, x, row, E)
  BY <1>1 DEF Gathering
<1>3. Stuck(G, L) => Stuck(G2, L)
  BY DEF Stuck
<1>4. Names(G, B, L) => Names(G2, B2, L)
  BY <1>1, <1>2 DEF Names
<1> QED
  BY <1>3, <1>4

EdgesSound(B) == \A e \in B.edges : e[2] \in DOMAIN B.ent

Added(G, G2, x, row, ep) ==
  G2.ent = Over(One(x, row), G.ent) /\ G2.edges = G.edges \cup {<<ep, x>>}

\* A name that ingest adds is new to both histories, or that of a merged-away entity.
LEMMA AddNames ==
  ASSUME NEW G, NEW B, NEW L, Stuck(G, L) \/ Names(G, B, L), Anchored(G), EdgesSound(B),
         NEW x, x \notin DOMAIN G.ent, NEW row, NEW ep, NEW G2, NEW B2,
         Added(G, G2, x, row, ep),
         x \in DOMAIN B.ent => B2 = B,
         x \notin DOMAIN B.ent => Added(B, B2, x, row, ep)
  PROVE  (Stuck(G2, L) \/ Names(G2, B2, L)) /\ EdgesSound(B2)
<1>1. /\ DOMAIN G2.ent = DOMAIN G.ent \cup {x} /\ G2.ent[x] = row
      /\ \A y \in DOMAIN G.ent : G2.ent[y] = G.ent[y]
      /\ G2.edges = G.edges \cup {<<ep, x>>}
  BY DEF Added, Over, One
<1>2. x \notin DOMAIN B.ent =>
        /\ DOMAIN B2.ent = DOMAIN B.ent \cup {x} /\ B2.ent[x] = row
        /\ \A y \in DOMAIN B.ent : B2.ent[y] = B.ent[y]
        /\ B2.edges = B.edges \cup {<<ep, x>>}
  BY DEF Added, Over, One
<1>3. EdgesSound(B2)
  BY <1>2 DEF EdgesSound
<1>4. CASE Stuck(G, L)
  BY <1>1, <1>3, <1>4 DEF Stuck
<1>5. CASE Names(G, B, L) /\ x \in DOMAIN B.ent
  <2>1. PICK i \in Up(L) : L[i].loser = x
    BY <1>5 DEF Names
  <2> QED
    BY <1>1, <1>3, <2>1 DEF Stuck
<1>6. CASE Names(G, B, L) /\ x \notin DOMAIN B.ent
  <2>1. \A y \in DOMAIN B.ent : /\ EpisodesOf(B2, y) = EpisodesOf(B, y)
                                /\ EpisodesOf(G2, y) = EpisodesOf(G, y)
                                /\ B2.ent[y] = B.ent[y]
    BY <1>1, <1>2, <1>6 DEF EpisodesOf
  <2>2. EpisodesOf(G2, x) = EpisodesOf(B2, x)
    BY <1>1, <1>2, <1>6 DEF EpisodesOf, Anchored, EdgesSound
  <2>3. Into(L, x) = {}
    BY <1>6 DEF Into, Names
  <2>4. Gathering(B2, L, x, G2.ent[x], EpisodesOf(G2, x))
    <3>1. EpisodesOf(B2, x) \subseteq Episodes
      BY DEF EpisodesOf
    <3>2. Gathered(L, {}, B2.ent[x], EpisodesOf(B2, x), row, EpisodesOf(B2, x))
      BY <1>2, <1>6, <3>1 DEF Gathered
    <3> QED
      BY <1>1, <2>2, <2>3, <3>2 DEF Gathering
  <2>5. ASSUME NEW y \in DOMAIN B.ent, NEW r, NEW E, Gathering(B, L, y, r, E)
        PROVE  Gathering(B2, L, y, r, E)
    BY <2>1, <2>5 DEF Gathering
  <2>6. /\ \A y \in DOMAIN G.ent : y \in DOMAIN B.ent
        /\ \A i \in Up(L) : L[i].loser \in DOMAIN B.ent
    BY <1>6 DEF Names
  <2>7. \A y \in DOMAIN G2.ent : Gathering(B2, L, y, G2.ent[y], EpisodesOf(G2, y))
    <3> SUFFICES ASSUME NEW y \in DOMAIN G2.ent
                 PROVE  Gathering(B2, L, y, G2.ent[y], EpisodesOf(G2, y))
      OBVIOUS
    <3>1. CASE y = x
      BY <2>4, <3>1
    <3>2. CASE y \in DOMAIN G.ent
      <4>1. Gathering(B, L, y, G.ent[y], EpisodesOf(G, y))
        BY <1>6, <3>2 DEF Names
      <4> QED
        BY <1>1, <2>1, <2>5, <2>6, <3>2, <4>1
    <3> QED
      BY <1>1, <3>1, <3>2
  <2>8. \A i \in Up(L) :
          Gathering(B2, L, L[i].loser, L[i].row, L[i].moved \cup L[i].collided)
    BY <1>6, <2>5, <2>6 DEF Names
  <2>9. /\ DOMAIN B2.ent = DOMAIN G2.ent \cup {L[i].loser : i \in Up(L)}
        /\ \A i \in Up(L) : L[i].keeper \in DOMAIN B2.ent
    BY <1>1, <1>2, <1>6 DEF Names
  <2> QED
    BY <1>3, <2>7, <2>8, <2>9 DEF Names
<1> QED
  BY <1>4, <1>5, <1>6

-----------------------------------------------------------------------------
\* The invariant of the histories of merges and its steps

OnlyMerges == Ops \subseteq {"merge", "fact", "entity"}

History(G, B, L) ==
  /\ \A i \in DOMAIN L : L[i].kind = "merge"
  /\ G.comm = B.comm /\ G.arch = B.arch /\ EdgesSound(B)
  /\ FactsKept(G, B, L) /\ OneFlag(L)
  /\ Stuck(G, L) \/ Names(G, B, L)

HistoryInv == ThreadInv /\ seen = {} /\ History(g, base, log)

LEMMA HistoryInit == ASSUME AnchoredStart PROVE Init => HistoryInv
<1> SUFFICES ASSUME Init
             PROVE  HistoryInv
  OBVIOUS
<1>1. ThreadInv
  BY ThreadInit
<1>2. base = g /\ log = <<>> /\ seen = {}
  BY DEF Init
<1>3. DOMAIN log = {}
  BY <1>2
<1>4. /\ Up(log) = {} /\ \A x : Into(log, x) = {}
      /\ \A f : Looping(log, f) = {} /\ Listers(log, f) = {}
  BY <1>3 DEF Up, Into, Looping, Listers, Listing
<1>5. FactsKept(g, base, log)
  BY <1>2, <1>4 DEF FactsKept, Expired, Flagged
<1>6. Names(g, base, log)
  <2>1. ASSUME NEW x \in DOMAIN g.ent
        PROVE  Gathering(base, log, x, g.ent[x], EpisodesOf(g, x))
    <3>1. EpisodesOf(g, x) \subseteq Episodes
      BY DEF EpisodesOf
    <3>2. Gathered(log, {}, g.ent[x], EpisodesOf(g, x), g.ent[x], EpisodesOf(g, x))
      BY <3>1 DEF Gathered
    <3> QED
      BY <1>2, <1>4, <3>2 DEF Gathering
  <2> QED
    BY <1>2, <1>4, <2>1 DEF Names
<1>7. EdgesSound(base)
  BY <1>1, <1>2 DEF ThreadInv, Anchored, EdgesSound
<1> QED
  BY <1>1, <1>2, <1>3, <1>5, <1>6, <1>7 DEF HistoryInv, History, OneFlag

LEMMA HistoryMerge ==
  ASSUME HistoryInv, NEW l \in Ids, NEW k \in Ids, Merge(l, k)
  PROVE  seen' = {} /\ History(g', base', log')
<1> DEFINE m == MergeSnapshot(g, l, k)
<1>1. /\ IsGraph(g) /\ log \in Seq(LogRows) /\ History(g, base, log) /\ seen = {}
  BY DEF HistoryInv, ThreadInv, IndInv, TypeOK
<1>2. /\ Mergeable(g, l, k) /\ g' = MergeOf(g, l, k) /\ log' = Append(log, m)
      /\ UNCHANGED <<base, seen>>
  BY DEF Merge, Mutate
<1>3. m.kind = "merge"
  BY DEF MergeSnapshot
<1>4. FactsKept(g', base, log') /\ OneFlag(log')
  BY <1>1, <1>2, MergeFactsKept, MergeOneFlag DEF History
<1>5. Stuck(g', log') \/ Names(g', base, log')
  <2>1. CASE Stuck(g, log)
    BY <1>1, <1>2, <2>1, MergeStuck
  <2>2. CASE ~Stuck(g, log)
    BY <1>1, <1>2, <2>2, MergeNames DEF History
  <2> QED
    BY <2>1, <2>2
<1>6. g'.comm = g.comm /\ g'.arch = g.arch
  BY <1>1, <1>2, GraphShaped DEF MergeOf, Shaped
<1> HIDE DEF m
<1>7. \A i \in DOMAIN log' : log'[i].kind = "merge"
  BY <1>1, <1>2, <1>3 DEF History
<1> QED
  BY <1>1, <1>2, <1>4, <1>5, <1>6, <1>7 DEF History

LEMMA HistoryUnmerge ==
  ASSUME HistoryInv, NEW i \in DOMAIN log, Unmerge(i)
  PROVE  seen' = {} /\ History(g', base', log')
<1>1. /\ IsGraph(g) /\ log \in Seq(LogRows) /\ History(g, base, log) /\ seen = {}
      /\ Anchored(g)
  BY DEF HistoryInv, ThreadInv, IndInv, TypeOK
<1>2. /\ Stands(log, i) /\ ~LaterChained(i) /\ Unmergeable(g, log[i])
      /\ g' = UnmergeOf(g, log[i]) /\ log' = [log EXCEPT ![i].undone = TRUE]
      /\ UNCHANGED <<base, seen>>
  BY DEF Unmerge, Reverse, Standing, Stands
<1>3. ~ChainedOn(log, i)
  BY <1>1, <1>2 DEF LaterChained, ChainedOn, Standing, Stands
<1>4. FactsKept(g', base, log') /\ OneFlag(log')
  BY <1>1, <1>2, <1>3, UnmergeFactsKept, UnmergeOneFlag DEF History
<1>5. Stuck(g', log') \/ Names(g', base, log')
  <2>1. CASE Stuck(g, log)
    BY <1>1, <1>2, <2>1, UnmergeStuck
  <2>2. CASE ~Stuck(g, log)
    BY <1>1, <1>2, <1>3, <2>2, UnmergeNames DEF History
  <2> QED
    BY <2>1, <2>2
<1>6. g'.comm = g.comm /\ g'.arch = g.arch
  BY <1>1, <1>2, GraphShaped DEF UnmergeOf, Shaped
<1>7. DOMAIN log' = DOMAIN log /\ \A j \in DOMAIN log : Alike(log'[j], log[j])
  BY <1>1, <1>2, UndoneAlike
<1>8. \A j \in DOMAIN log' : log'[j].kind = "merge"
  BY <1>1, <1>7 DEF History, Alike
<1> QED
  BY <1>1, <1>2, <1>4, <1>5, <1>6, <1>8 DEF History

LEMMA HistoryAddFact ==
  ASSUME HistoryInv, NEW f \in Facts, NEW s \in Ids, NEW o \in Ids \cup {Literal},
         AddFact(f, s, o)
  PROVE  seen' = {} /\ History(g', base', log')
<1> DEFINE row == [s |-> s, o |-> o, hash |-> <<s, o>>, exp |-> "no", inert |-> FALSE]
<1>1. /\ g' = [g EXCEPT !.live = Over(One(f, row), @)]
      /\ base' = [base EXCEPT !.live = Over(One(f, row), @)]
      /\ f \notin DOMAIN g.live /\ UNCHANGED <<log, seen>>
  BY DEF AddFact
<1>2. /\ Shaped(g) /\ Shaped(base) /\ History(g, base, log) /\ seen = {}
      /\ Threads(g, base, log) /\ LoopsAtOneEnd(log)
  BY GraphShaped DEF HistoryInv, ThreadInv, IndInv, TypeOK
<1> HIDE DEF row
<1>3. /\ g'.live = Over(One(f, row), g.live) /\ base'.live = Over(One(f, row), base.live)
      /\ g'.ent = g.ent /\ g'.edges = g.edges /\ g'.comm = g.comm /\ g'.arch = g.arch
      /\ base'.ent = base.ent /\ base'.edges = base.edges
      /\ base'.comm = base.comm /\ base'.arch = base.arch
  BY <1>1, <1>2 DEF Shaped
<1>4. /\ DOMAIN g'.live = DOMAIN g.live \cup {f} /\ g'.live[f] = row /\ base'.live[f] = row
      /\ \A x \in DOMAIN g.live : g'.live[x] = g.live[x] /\ base'.live[x] = base.live[x]
  BY <1>1, <1>2, <1>3 DEF Over, One, Threads
<1>5. Listers(log, f) = {} /\ Looping(log, f) = {}
  <2>1. \A c \in Cols : \A i \in DOMAIN log : Stands(log, i) => f \notin DOMAIN Column(log[i], c)
    BY <1>1, <1>2 DEF Threads
  <2>2. \A i \in DOMAIN log :
          Stands(log, i) => f \notin DOMAIN log[i].subjects /\ f \notin DOMAIN log[i].objects
    BY <2>1 DEF Column, Cols
  <2>3. \A i \in DOMAIN log : Stands(log, i) => f \notin log[i].loops
    BY <1>2, <2>2 DEF LoopsAtOneEnd, Stands
  <2> QED
    BY <2>2, <2>3 DEF Listers, Listing, Looping, Column
<1>6. FactsKept(g', base', log)
  <2> SUFFICES ASSUME NEW x \in DOMAIN g'.live
               PROVE  /\ g'.live[x].hash = base'.live[x].hash
                      /\ Expired(Looping(log, x), g'.live[x].exp, base'.live[x].exp)
                      /\ ~CrossedIn(log, x) =>
                           Flagged(log, x, Listers(log, x),
                                   g'.live[x].inert, base'.live[x].inert)
    BY DEF FactsKept
  <2>1. CASE x = f
    BY <1>4, <1>5, <2>1 DEF Expired, Flagged
  <2>2. CASE x \in DOMAIN g.live
    BY <1>2, <1>4, <2>2 DEF History, FactsKept
  <2> QED
    BY <1>4, <2>1, <2>2
<1>7. Stuck(g', log) \/ Names(g', base', log)
  BY <1>2, <1>3, NamesAlike DEF History
<1> QED
  BY <1>1, <1>2, <1>3, <1>6, <1>7 DEF History, EdgesSound

LEMMA HistoryAddEntity ==
  ASSUME HistoryInv, NEW i \in Ids, NEW ep \in Episodes, NEW t \in Types, AddEntity(i, ep, t)
  PROVE  seen' = {} /\ History(g', base', log')
<1> DEFINE row == [props |-> i, ac |-> 0, ty |-> t]
<1>1. /\ g' = [g EXCEPT !.ent = Over(One(i, row), @), !.edges = @ \cup {<<ep, i>>}]
      /\ base' = IF i \in DOMAIN base.ent THEN base
                 ELSE [base EXCEPT !.ent = Over(One(i, row), @), !.edges = @ \cup {<<ep, i>>}]
      /\ i \notin DOMAIN g.ent /\ UNCHANGED <<log, seen>>
  BY DEF AddEntity
<1>2. /\ Shaped(g) /\ Shaped(base) /\ History(g, base, log) /\ seen = {} /\ Anchored(g)
  BY GraphShaped DEF HistoryInv, ThreadInv, IndInv, TypeOK
<1> HIDE DEF row
<1>3. /\ g'.live = g.live /\ g'.comm = g.comm /\ g'.arch = g.arch
      /\ Added(g, g', i, row, ep)
      /\ base'.live = base.live /\ base'.comm = base.comm /\ base'.arch = base.arch
      /\ i \in DOMAIN base.ent => base' = base
      /\ i \notin DOMAIN base.ent => Added(base, base', i, row, ep)
  BY <1>1, <1>2 DEF Shaped, Added
<1>4. (Stuck(g', log) \/ Names(g', base', log)) /\ EdgesSound(base')
  <2>1. /\ Stuck(g, log) \/ Names(g, base, log)
        /\ EdgesSound(base) /\ i \notin DOMAIN g.ent
    BY <1>1, <1>2 DEF History
  <2> QED
    BY <1>2, <1>3, <2>1, AddNames
<1> QED
  BY <1>1, <1>2, <1>3, <1>4 DEF History, FactsKept

LEMMA HistoryStep ==
  ASSUME OnlyMerges, HistoryInv, [Next]_vars
  PROVE  HistoryInv'
<1>1. ThreadInv'
  BY ThreadStep DEF HistoryInv, OnlyMerges, KeysStay
<1>2. CASE UNCHANGED <<g, base, log, seen>>
  BY <1>1, <1>2 DEF HistoryInv
<1>3. CASE Next
  <2>1. CASE \E f \in Facts : ReadUnexpired(f) \/ InvalidateFact(f) \/ DeleteFact(f)
    BY <2>1 DEF HistoryInv, OnlyMerges, ReadUnexpired, InvalidateFact, DeleteFact, Mutate
  <2>2. CASE \E f \in Facts, s \in Ids, o \in Ids \cup {Literal} : AddFact(f, s, o)
    BY <1>1, <2>2, HistoryAddFact DEF HistoryInv
  <2>3. CASE \E i \in Ids, ep \in Episodes, t \in Types : AddEntity(i, ep, t)
    BY <1>1, <2>3, HistoryAddEntity DEF HistoryInv
  <2>4. CASE \E members \in SUBSET Ids, c \in Communities : DetectCommunities(members, c)
    BY <2>4 DEF OnlyMerges, DetectCommunities
  <2>5. CASE StartPass
    BY <1>2, <2>5 DEF StartPass
  <2>6. CASE \E a, b \in Ids : Merge(a, b) \/ Rename(a, b)
    BY <1>1, <2>6, HistoryMerge DEF HistoryInv, OnlyMerges, Rename, Mutate
  <2>7. CASE \E e \in Ids, t \in Types : Retype(e, t)
    BY <2>7 DEF OnlyMerges, Retype, Mutate
  <2>8. CASE \E e \in Ids : DeleteEntity(e)
    BY <2>8 DEF OnlyMerges, DeleteEntity, Mutate
  <2>9. CASE \E i \in DOMAIN log : \/ Unmerge(i) \/ UndoRename(i) \/ UndoRetype(i)
                                   \/ UndoDeleteEntity(i) \/ UndoDeleteFact(i)
    <3>1. PICK i \in DOMAIN log : \/ Unmerge(i) \/ UndoRename(i) \/ UndoRetype(i)
                                  \/ UndoDeleteEntity(i) \/ UndoDeleteFact(i)
      BY <2>9
    <3>2. log[i].kind = "merge"
      BY DEF HistoryInv, History
    <3>3. Unmerge(i)
      BY <3>1, <3>2
         DEF UndoRename, UndoRetype, UndoDeleteEntity, UndoDeleteFact, Standing
    <3> QED
      BY <1>1, <3>3, HistoryUnmerge DEF HistoryInv
  <2> QED
    BY <1>3, <2>1, <2>2, <2>3, <2>4, <2>5, <2>6, <2>7, <2>8, <2>9 DEF Next
<1> QED
  BY <1>2, <1>3 DEF vars

LEMMA HistoryRestored == HistoryInv => AllUndoneRestores
<1> SUFFICES ASSUME HistoryInv, \A i \in DOMAIN log : log[i].undone
             PROVE  g = [base EXCEPT
                           !.nogood = g.nogood,
                           !.live = [f \in DOMAIN @ |->
                                       IF Crossed(f) THEN [@[f] EXCEPT !.inert = g.live[f].inert]
                                                     ELSE @[f]]]
  BY DEF AllUndoneRestores
<1> DEFINE Row(f) == IF Crossed(f) THEN [base.live[f] EXCEPT !.inert = g.live[f].inert]
                                   ELSE base.live[f]
<1>1. /\ IsGraph(g) /\ IsGraph(base) /\ History(g, base, log) /\ Anchored(g)
      /\ Threads(g, base, log)
  BY DEF HistoryInv, ThreadInv, IndInv, TypeOK
<1>2. /\ Up(log) = {} /\ \A x : Into(log, x) = {}
      /\ \A f : Looping(log, f) = {} /\ Listers(log, f) = {}
      /\ \A c, f : Listing(log, c, f) = {}
  BY DEF Up, Into, Looping, Listers, Listing, Stands
<1>3. Names(g, base, log) /\ FactsKept(g, base, log) /\ EdgesSound(base)
  BY <1>1, <1>2 DEF History, Stuck
<1>4. DOMAIN g.live = DOMAIN base.live
  BY <1>1 DEF Threads
<1>5. ASSUME NEW f \in DOMAIN g.live
      PROVE  g.live[f] = Row(f)
  <2> DEFINE r == g.live[f]
             b == base.live[f]
  <2>1. r \in FactRows /\ b \in FactRows
    BY <1>1, <1>4 DEF IsGraph, IsTable
  <2>2. \A c \in Cols : End(r, c) = End(b, c)
    BY <1>1, <1>2 DEF Threads, Threaded
  <2>3. r.s = b.s /\ r.o = b.o
    BY <2>2 DEF End, Cols
  <2>4. r.hash = b.hash /\ r.exp = b.exp
    BY <1>2, <1>3 DEF FactsKept, Expired
  <2>5. Crossed(f) <=> CrossedIn(log, f)
    BY DEF Crossed, CrossedIn
  <2>6. ~Crossed(f) => r.inert = b.inert
    BY <1>2, <1>3, <2>5 DEF FactsKept, Flagged
  <2> HIDE DEF r, b
  <2>7. ~Crossed(f) => r = b
    BY <2>1, <2>3, <2>4, <2>6 DEF FactRows
  <2>8. r = [b EXCEPT !.inert = r.inert]
    BY <2>1, <2>3, <2>4 DEF FactRows
  <2> QED
    BY <2>7, <2>8 DEF r, b
<1>6. g.ent = base.ent
  <2>1. DOMAIN g.ent = DOMAIN base.ent
    BY <1>2, <1>3 DEF Names
  <2>2. ASSUME NEW x \in DOMAIN g.ent
        PROVE  g.ent[x] = base.ent[x]
    <3>1. g.ent[x] \in EntityRows /\ base.ent[x] \in EntityRows
      BY <1>1, <2>1 DEF IsGraph, IsTable
    <3>2. /\ g.ent[x].props = base.ent[x].props /\ g.ent[x].ty = base.ent[x].ty
          /\ g.ent[x].ac = base.ent[x].ac
      BY <1>2, <1>3 DEF Names, Gathering, Gathered
    <3> QED
      BY <3>1, <3>2 DEF EntityRows
  <2> QED
    BY <1>1, <2>1, <2>2 DEF IsGraph, IsTable
<1>7. g.edges = base.edges
  <2>1. ASSUME NEW x \in DOMAIN g.ent
        PROVE  EpisodesOf(g, x) = EpisodesOf(base, x)
    <3>1. EpisodesOf(base, x) \subseteq Episodes
      BY DEF EpisodesOf
    <3>2. Gathered(log, {}, base.ent[x], EpisodesOf(base, x), g.ent[x], EpisodesOf(g, x))
      BY <1>2, <1>3 DEF Names, Gathering
    <3> QED
      BY <3>1, <3>2 DEF Gathered
  <2>2. /\ g.edges \subseteq Episodes \X Ids /\ base.edges \subseteq Episodes \X Ids
        /\ \A e \in g.edges \cup base.edges : e[2] \in DOMAIN g.ent
    BY <1>1, <1>3, <1>6 DEF IsGraph, Anchored, EdgesSound
  <2>3. \A ep \in Episodes, x \in Ids : <<ep, x>> \in g.edges <=> <<ep, x>> \in base.edges
    BY <2>1, <2>2 DEF EpisodesOf
  <2> QED
    BY <2>2, <2>3
<1>8. g.comm = base.comm /\ g.arch = base.arch
  BY <1>1 DEF History
<1>9. g.live = [f \in DOMAIN base.live |-> Row(f)]
  BY <1>1, <1>4, <1>5 DEF IsGraph, IsTable
<1> HIDE DEF Row
<1>10. g = [base EXCEPT !.nogood = g.nogood, !.live = [f \in DOMAIN base.live |-> Row(f)]]
  <2>1. Shaped(g) /\ Shaped(base)
    BY <1>1, GraphShaped
  <2> DEFINE T == [f \in DOMAIN base.live |-> Row(f)]
             n == g.nogood
  <2>2. g.live = T
    BY <1>9
  <2> HIDE DEF T, n
  <2>3. [base EXCEPT !.nogood = n, !.live = T] =
          [ent |-> base.ent, live |-> T, arch |-> base.arch,
           edges |-> base.edges, comm |-> base.comm, nogood |-> n]
    <3> DEFINE N == [base EXCEPT !.nogood = n, !.live = T]
    <3>1. /\ N.ent = base.ent /\ N.live = T /\ N.arch = base.arch
          /\ N.edges = base.edges /\ N.comm = base.comm /\ N.nogood = n
          /\ N \in [ent : {base.ent}, live : {T}, arch : {base.arch},
                    edges : {base.edges}, comm : {base.comm}, nogood : {n}]
      BY <2>1 DEF Shaped
    <3> HIDE DEF N
    <3>2. N = [ent |-> base.ent, live |-> T, arch |-> base.arch,
               edges |-> base.edges, comm |-> base.comm, nogood |-> n]
      BY <3>1
    <3> QED
      BY <3>2 DEF N
  <2>4. g = [ent |-> base.ent, live |-> T, arch |-> base.arch,
             edges |-> base.edges, comm |-> base.comm, nogood |-> n]
    BY <1>6, <1>7, <1>8, <2>1, <2>2 DEF Shaped, n
  <2> QED
    BY <2>3, <2>4 DEF T, n
<1> QED
  BY <1>10 DEF Row

-----------------------------------------------------------------------------
\* The theorems

LEMMA Invariance == Spec => []IndInv
<1>1. IndInv /\ [Next]_vars => IndInv'
  BY StepInv
<1> QED
  BY InitInv, <1>1, PTL DEF Spec

\* Whatever mutations, reversals, ingests and passes follow each other, every
\* table holds rows of its type, the unique index over unexpired facts holds, and
\* the log holds well-formed snapshots (canonicalization/mod.rs, reversal.rs,
\* edit.rs, delete.rs).
THEOREM TypeCorrect == Spec => []TypeOK
<1>1. IndInv => TypeOK
  BY DEF IndInv
<1> QED
  BY Invariance, <1>1, PTL

\* No fact is ever both in facts and in facts_archive, whichever deletions and
\* restores are interleaved (archive.rs, delete.rs).
THEOREM OneHomeAlways == Spec => []OneHome
<1>1. IndInv => OneHome
  BY DEF IndInv
<1> QED
  BY Invariance, <1>1, PTL

\* No step loses a fact row: what leaves facts is in facts_archive, and what
\* leaves the archive is in facts again.
THEOREM NothingLost == Spec => FactsNeverLost
<1>1. IndInv /\ [Next]_vars =>
        [DOMAIN g.live \cup DOMAIN g.arch \subseteq DOMAIN g'.live \cup DOMAIN g'.arch]_vars
  BY StepInv DEF Kept
<1> QED
  BY Invariance, <1>1, PTL DEF Spec, FactsNeverLost

\* Reversing a merge that was just made gives the graph back, the nogood apart, and
\* nothing refuses the reversal, in every graph any history leads to (the
\* MergeSnapshot, apply_merge_with_audit and unmerge of provenance).
THEOREM MergeRoundTrips == Spec => []MergeUndoExact
<1>1. IndInv => MergeUndoExact
  BY MergeRoundTrip DEF IndInv, TypeOK, MergeUndoExact
<1> QED
  BY Invariance, <1>1, PTL

\* Reversing an edit that was just made gives the graph back exactly: a rename onto
\* an id that nothing names any more, and a retype always (edit.rs).
THEOREM EditRoundTrips == Spec => []EditUndoExact
<1>1. IndInv => EditUndoExact
  <2> SUFFICES ASSUME IndInv
               PROVE  EditUndoExact
    OBVIOUS
  <2>1. IsGraph(g)
    BY DEF IndInv, TypeOK
  <2>2. ASSUME NEW a \in Ids, NEW b \in Ids, Renameable(g, a, b), Unused(b)
        PROVE  LET m == RenameSnapshot(g, a, b)  edited == RenameOf(g, a, b) IN
               RenameUndoable(edited, m) /\ UndoRenameOf(edited, m) = g
    BY <2>1, <2>2, RenameRoundTrip DEF Unused
  <2>3. ASSUME NEW e \in DOMAIN g.ent, NEW t \in Types
        PROVE  UndoRetypeOf(RetypeOf(g, e, t), RetypeSnapshot(g, e, t)) = g
    BY <2>1, RetypeRoundTrip
  <2> QED
    BY <2>2, <2>3 DEF EditUndoExact
<1> QED
  BY Invariance, <1>1, PTL

\* Reversing a deletion that was just made gives the graph back, but for the column
\* the archive does not keep (delete.rs, archive.rs).
THEOREM DeleteRoundTrips == Spec => []DeleteUndoExact
<1>1. IndInv => DeleteUndoExact
  <2> SUFFICES ASSUME IndInv
               PROVE  DeleteUndoExact
    OBVIOUS
  <2>1. IsGraph(g) /\ HashUnique(g)
    BY DEF IndInv, TypeOK
  <2>2. ASSUME NEW e \in DOMAIN g.ent, Archivable(g, FactsOf(g, e))
        PROVE  LET m == DeleteEntitySnapshot(g, e)  deleted == DeleteEntityOf(g, e) IN
               /\ EntityDeleteUndoable(deleted, m)
               /\ UndoDeleteEntityOf(deleted, m) = Restored(FactsOf(g, e))
    BY <2>1, <2>2, DeleteEntityRoundTrip DEF Restored
  <2>3. ASSUME NEW f \in DOMAIN g.live, Archivable(g, {f})
        PROVE  LET m == DeleteFactSnapshot(g, f)  deleted == DeleteFactOf(g, f) IN
               /\ Restorable(deleted, {f})
               /\ UndoDeleteFactOf(deleted, m) = Restored({f})
    BY <2>1, <2>3, DeleteFactRoundTrip DEF Restored
  <2> QED
    BY <2>2, <2>3 DEF DeleteUndoExact
<1> QED
  BY Invariance, <1>1, PTL

\* With merges and retypes as the only mutations, a graph that starts with every fact
\* and every edge between entities, and no unexpired self-loop, keeps that through any
\* merges and unmerges, ingests, expiries and passes (apply_merge_with_audit's
\* re-pointing and self-loops, unmerge's steps (b) to (e) and its LIFO guard).
THEOREM EndpointsHold == ASSUME KeysStay, AnchoredStart PROVE Spec => []EndpointsSound
<1>1. Init => ThreadInv
  BY ThreadInit
<1>2. ThreadInv /\ [Next]_vars => ThreadInv'
  BY ThreadStep
<1>3. ThreadInv => EndpointsSound
  BY DEF ThreadInv, EndpointsSound
<1> QED
  BY <1>1, <1>2, <1>3, PTL DEF Spec

\* With merges as the only mutations, through ingests between them: undoing all of them,
\* in any order the LIFO guard admits, gives the graph that the ingests alone would have
\* produced; but for corroboration_inert of a fact that two merges without a common
\* entity have both re-pointed (unmerge's restored columns, rows and flags).
THEOREM UndoneRestores == ASSUME OnlyMerges, AnchoredStart PROVE Spec => []AllUndoneRestores
<1>1. Init => HistoryInv
  BY HistoryInit
<1>2. HistoryInv /\ [Next]_vars => HistoryInv'
  BY HistoryStep
<1>3. HistoryInv => AllUndoneRestores
  BY HistoryRestored
<1> QED
  BY <1>1, <1>2, <1>3, PTL DEF Spec
=============================================================================
