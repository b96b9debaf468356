-------------------------- MODULE NamespacesProofs --------------------------
(***************************************************************************)
(* A promised policy stands, an erasure stands, and a forget by source     *)
(* leaves what others mention, for every set of namespaces and calls.      *)
(***************************************************************************)
EXTENDS Namespaces, TLAPS

-----------------------------------------------------------------------------
\* The inductive invariant

\* The owner is the call that is inside; with no owner, what is seen is durable.
Serial ==
  /\ \A c \in Calls : pc[c] = "open" => txn = c
  /\ txn # None => pc[txn] = "open"
  /\ txn = None => db = durable

\* What an open transaction may have done to the policy of a namespace.
RowKept ==
  \A g \in Groups :
    durable.row[g] # None =>
      \/ db.row[g] = durable.row[g]
      \/ db.row[g] = AppendOnly /\ txn \in Upgrades /\ In[txn] = g

\* What a call that is about to answer has written.
Written ==
  /\ \A r \in Registers : txn = r => db.row[In[r]] = Policy[r]
  /\ \A u \in Upgrades : /\ txn = u => db.row[In[u]] = AppendOnly
                         /\ pc[u] = "invalidate" => durable.row[In[u]] = AppendOnly

Promised == \A g \in Groups : promised[g] # None => durable.row[g] \in {promised[g], AppendOnly}

\* Only rows that are durable are cached, or about to be.
Observed ==
  /\ \A f \in Forgets : pc[f] \in {"gate", "put"} => durable.row[In[f]] # None
  /\ \A f \in Forgets : pc[f] = "put" => read[f] # None
  /\ \A g \in Groups : cache[g] # None => durable.row[g] # None

\* Nothing that could let a forget past the gate is left of the old policy.
Sealed(g) ==
  /\ cache[g] \in {None, AppendOnly}
  /\ \A f \in Forgets : pc[f] = "put" /\ In[f] = g => read[f] = AppendOnly

\* An old policy that is left once the row is AppendOnly will be dropped with the entry.
Gated ==
  /\ \A g \in Groups : durable.row[g] = AppendOnly /\ g \notin overtaken =>
                         Sealed(g) \/ Closing(g)
  /\ \A g \in Groups : promised[g] = AppendOnly /\ g \notin overtaken \cup early => Sealed(g)
  /\ \A f \in late : /\ promised[In[f]] = AppendOnly /\ In[f] \notin early
                     /\ In[f] \notin overtaken => pc[f] \in {"gate", "put", "refused"}

PoliciesHold == RowKept /\ Written /\ Promised /\ Observed /\ Gated

\* A fact has the edges that its episode wrote with it.
Attributed(d) ==
  \A x \in Facts, e \in Episodes :
    <<x, e>> \in d.facts =>
      x \in Stated[e] /\ \A n \in Endpoints(x) : n \in Mentioned(e) => <<e, n>> \in d.edges

Sound == Referential(db) /\ Attributed(db) /\ Referential(durable) /\ Attributed(durable)

\* An episode is stored once; a cascade under way has none of its own left from before.
Erasing ==
  /\ erased \cap db.eps = {} /\ erased \cap durable.eps = {}
  /\ \A e \in Episodes :
       e \in erased \cup db.eps \cup durable.eps => pc[e] \notin {"idle", "insert"}
  /\ \A f \in Forgets : txn = f =>
       \A e \in Episodes : e \in db.eps /\ Matches(f, e) => e \notin durable.eps

\* What is kept is of others, a fact with the edges of its two ends; no name of it
\* is doomed.
Outside(f) ==
  /\ kept[f].edges \subseteq db.edges /\ kept[f].facts \subseteq db.facts
  /\ \A e \in Episodes, n \in Names :
       <<e, n>> \in kept[f].edges => ~Matches(f, e) /\ n \notin doomed[f]
  /\ \A x \in Facts, e \in Episodes :
       <<x, e>> \in kept[f].facts =>
         /\ ~Matches(f, e) /\ SubjectOf[x] \in Mentioned(e)
         /\ \A n \in Endpoints(x) : <<e, n>> \in kept[f].edges

Planned ==
  \A f \in Forgets :
    /\ Outside(f)
    /\ pc[f] \in {"idle", "gate", "put", "list"} => doomed[f] = {}
    /\ pc[f] \in {"idle", "gate", "put", "list"} \/ Scope[f] = All =>
         kept[f].edges = {} /\ kept[f].facts = {}

IInv == TypeOK /\ Serial /\ PoliciesHold /\ Sound /\ Erasing /\ Planned

-----------------------------------------------------------------------------
\* The statements

USE DEF Calls, Policies

\* Each statement keeps the shape of the rows.
LEMMA StoreTypes ==
  ASSUME NamespaceAssumption, NEW d \in Stores
  PROVE  /\ \A e \in Episodes : PersistOf(d, e) \in Stores
         /\ \A f \in Forgets : doomed[f] \subseteq Names => Cascade(d, f) \in Stores
<1>1. \A e \in Episodes : Mentioned(e) \subseteq Names /\ Known(e) \subseteq Names
  BY DEF NamespaceAssumption, Mentioned, Known
<1>2. ASSUME NEW e \in Episodes PROVE PersistOf(d, e) \in Stores
  <2>1. {In[e]} \X Known(e) \subseteq Groups \X Names  BY <1>1 DEF NamespaceAssumption
  <2>2. {e} \X Mentioned(e) \subseteq Episodes \X Names  BY <1>1
  <2>3. Stated[e] \X {e} \subseteq Facts \X Episodes  BY DEF NamespaceAssumption
  <2> QED  BY <2>1, <2>2, <2>3 DEF PersistOf, Stores
<1>3. ASSUME NEW f \in Forgets PROVE Cascade(d, f) \in Stores
  BY DEF Cascade, BatchForget, Stores
<1> QED  BY <1>2, <1>3

\* A row that is deleted takes what refers to it with it.
LEMMA CascadeSound ==
  ASSUME NamespaceAssumption, NEW d \in Stores, Referential(d), Attributed(d),
         NEW f \in Forgets
  PROVE  Referential(Cascade(d, f)) /\ Attributed(Cascade(d, f))
<1> DEFINE u == Cascade(d, f)
<1>1. /\ \A e \in Episodes : e \in u.eps <=> e \in d.eps /\ ~Matches(f, e)
      /\ \A g \in Groups, n \in Names :
           <<g, n>> \in u.ents <=> <<g, n>> \in d.ents /\ n \notin doomed[f]
      /\ \A e \in Episodes, n \in Names : <<e, n>> \in u.edges <=>
           <<e, n>> \in d.edges /\ n \notin doomed[f] /\ ~Matches(f, e)
      /\ \A x \in Facts, e \in Episodes : <<x, e>> \in u.facts <=>
           <<x, e>> \in d.facts /\ Endpoints(x) \cap doomed[f] = {} /\ ~Matches(f, e)
  BY DEF Cascade, BatchForget, Stores
<1>2. \A x \in Facts : Endpoints(x) \subseteq Names
  BY DEF NamespaceAssumption, Endpoints
<1>3. \A e \in Episodes : In[e] \in Groups
  BY DEF NamespaceAssumption
<1> HIDE DEF u
<1>4. Referential(u)
  BY <1>1, <1>2, <1>3 DEF Referential
<1>5. Attributed(u)
  BY <1>1, <1>2 DEF Attributed
<1> QED  BY <1>4, <1>5 DEF u

\* What an ingest writes refers to rows that are there.
LEMMA PersistSound ==
  ASSUME NamespaceAssumption, NEW d \in Stores, Referential(d), Attributed(d),
         NEW o \in Episodes
  PROVE  Referential(PersistOf(d, o)) /\ Attributed(PersistOf(d, o))
<1> DEFINE u == PersistOf(d, o)
<1>1. /\ u.eps = d.eps
      /\ \A g \in Groups, n \in Names : <<g, n>> \in u.ents <=>
           <<g, n>> \in d.ents \/ (g = In[o] /\ n \in Known(o))
      /\ \A e \in Episodes, n \in Names : <<e, n>> \in u.edges <=>
           <<e, n>> \in d.edges \/ (e = o /\ n \in Mentioned(o) /\ o \in d.eps)
      /\ \A x \in Facts, e \in Episodes : <<x, e>> \in u.facts =>
           <<x, e>> \in d.facts \/ (e = o /\ x \in Stated[o] /\ o \in d.eps)
  BY DEF PersistOf, Stores
<1>2. \A x \in Facts : Endpoints(x) \subseteq Names
  BY DEF NamespaceAssumption, Endpoints
<1>3. \A e \in Episodes : In[e] \in Groups
  BY DEF NamespaceAssumption
<1>4. Mentioned(o) \subseteq Known(o) /\ \A x \in Stated[o] : Endpoints(x) \subseteq Known(o)
  BY DEF NamespaceAssumption, Mentioned, Known, Endpoints
<1> HIDE DEF u
<1>5. Referential(u)
  BY <1>1, <1>2, <1>3, <1>4 DEF Referential
<1>6. Attributed(u)
  BY <1>1, <1>2 DEF Attributed
<1> QED  BY <1>5, <1>6 DEF u

-----------------------------------------------------------------------------
\* Every variable has its type.

LEMMA TypeInit == NamespaceAssumption /\ Init => TypeOK
  BY DEF NamespaceAssumption, Init, TypeOK, Stores

LEMMA TypeStep ==
  ASSUME NamespaceAssumption, TypeOK, [Next]_vars
  PROVE  TypeOK'
<1> USE DEF Go, Transact, rows, policy, plan, ghosts, Running
<1>0. \A d \in Stores : KeptIn(d) \in [Forgets -> [edges : SUBSET (Episodes \X Names),
                                                   facts : SUBSET (Facts \X Episodes)]]
  BY DEF KeptIn, TypeOK
<1>1. ASSUME NEW c \in Calls, Ensure(c) PROVE TypeOK'
  BY <1>1 DEF Ensure, TypeOK, Stores, NamespaceAssumption
<1>2. ASSUME NEW c \in Calls, Commit(c) PROVE TypeOK'
  <2>1. promised' \in [Groups -> Policies \cup {None}]
    <3>1. \A r \in Registers : Policy[r] \in Policies  BY DEF NamespaceAssumption
    <3>2. promised \in [Groups -> Policies \cup {None}]  BY DEF TypeOK
    <3> QED  BY <1>2, <3>1, <3>2 DEF Commit
  <2>2. erased' \subseteq Episodes
    BY <1>2 DEF Commit, TypeOK, Stores
  <2> QED  BY <1>2, <2>1, <2>2 DEF Commit, TypeOK
<1>3. ASSUME NEW c \in Calls, Rollback(c) PROVE TypeOK'
  BY <1>3, <1>0 DEF Rollback, TypeOK
<1>4. ASSUME NEW f \in Forgets, Hit(f) \/ Miss(f) \/ Put(f) PROVE TypeOK'
  <2>1. In[f] \in Groups  BY DEF NamespaceAssumption
  <2>2. CASE Hit(f)  BY <2>2 DEF Hit, Verdict, TypeOK
  <2>3. CASE Miss(f)  BY <2>1, <2>3 DEF Miss, TypeOK, Stores
  <2>4. CASE Put(f)  BY <2>1, <2>4 DEF Put, Verdict, TypeOK
  <2> QED  BY <1>4, <2>2, <2>3, <2>4
<1>5. ASSUME NEW f \in Forgets, ListSource(f) PROVE TypeOK'
  BY <1>5 DEF ListSource, TypeOK, Stores
<1>6. ASSUME NEW f \in Forgets, ListNamespace(f) PROVE TypeOK'
  BY <1>6 DEF ListNamespace, TypeOK
<1>7. ASSUME NEW f \in Forgets, NEW n \in Names, Count(f, n) PROVE TypeOK'
  BY <1>7 DEF Count, TypeOK
<1>8. ASSUME NEW f \in Forgets, Delete(f) PROVE TypeOK'
  <2>1. Cascade(db, f) \in Stores  BY StoreTypes DEF TypeOK
  <2>2. KeptIn(db') \in [Forgets -> [edges : SUBSET (Episodes \X Names),
                                     facts : SUBSET (Facts \X Episodes)]]
    BY <1>0, <1>8, <2>1 DEF Delete
  <2> QED  BY <1>8, <2>1, <2>2 DEF Delete, TypeOK
<1>9. ASSUME NEW e \in Episodes, Insert(e) PROVE TypeOK'
  BY <1>9 DEF Insert, TypeOK, Stores
<1>10. ASSUME NEW e \in Episodes, Persist(e) PROVE TypeOK'
  <2>1. PersistOf(db, e) \in Stores  BY StoreTypes DEF TypeOK
  <2> QED  BY <1>10, <2>1 DEF Persist, TypeOK
<1>11. ASSUME NEW r \in Registers, Register(r) \/ RegisterRefused(r) PROVE TypeOK'
  <2>1. CASE Register(r)
    <3>1. Policy[r] \in Policies  BY DEF NamespaceAssumption
    <3>2. db' \in Stores  BY <2>1, <3>1 DEF Register, TypeOK, Stores
    <3> QED  BY <2>1, <3>2 DEF Register, TypeOK
  <2>2. CASE RegisterRefused(r)  BY <2>2 DEF RegisterRefused, TypeOK
  <2> QED  BY <1>11, <2>1, <2>2
<1>12. ASSUME NEW u \in Upgrades, Upgrade(u) PROVE TypeOK'
  BY <1>12 DEF Upgrade, TypeOK, Stores, NamespaceAssumption
<1>13. ASSUME NEW u \in Upgrades, Invalidate(u) PROVE TypeOK'
  BY <1>13 DEF Invalidate, TypeOK, NamespaceAssumption
<1>14. ASSUME NEW g \in Groups, Evict(g) PROVE TypeOK'
  BY <1>14 DEF Evict, TypeOK
<1>15. CASE Crash
  BY <1>0, <1>15 DEF Crash, TypeOK, NamespaceAssumption
<1>16. CASE UNCHANGED vars
  BY <1>16 DEF vars, TypeOK
<1> QED
  BY <1>1, <1>2, <1>3, <1>4, <1>5, <1>6, <1>7, <1>8, <1>9, <1>10, <1>11, <1>12, <1>13,
     <1>14, <1>15, <1>16 DEF Next

-----------------------------------------------------------------------------
\* One transaction at a time.

LEMMA SerialStep ==
  ASSUME NamespaceAssumption, TypeOK, Serial, [Next]_vars
  PROVE  Serial'
<1> USE DEF Go, Transact, rows, policy, plan, ghosts, Serial
<1>0. None \notin Calls  BY DEF NamespaceAssumption
<1>1. ASSUME NEW c \in Calls, Ensure(c) PROVE Serial'
  BY <1>1 DEF Ensure, TypeOK
<1>2. ASSUME NEW c \in Calls, Commit(c) \/ Rollback(c) PROVE Serial'
  BY <1>0, <1>2 DEF Commit, Rollback, TypeOK
<1>4. ASSUME NEW f \in Forgets, Hit(f) \/ Miss(f) \/ Put(f) PROVE Serial'
  BY <1>4 DEF Hit, Miss, Put, Verdict, TypeOK
<1>5. ASSUME NEW f \in Forgets, ListSource(f) \/ ListNamespace(f) PROVE Serial'
  BY <1>5 DEF ListSource, ListNamespace, TypeOK
<1>7. ASSUME NEW f \in Forgets, NEW n \in Names, Count(f, n) PROVE Serial'
  BY <1>7 DEF Count
<1>8. ASSUME NEW f \in Forgets, Delete(f) PROVE Serial'
  BY <1>0, <1>8 DEF Delete, TypeOK
<1>9. ASSUME NEW e \in Episodes, Insert(e) PROVE Serial'
  BY <1>9 DEF Insert, TypeOK
<1>10. ASSUME NEW e \in Episodes, Persist(e) PROVE Serial'
  BY <1>0, <1>10 DEF Persist, TypeOK
<1>11. ASSUME NEW r \in Registers, Register(r) \/ RegisterRefused(r) PROVE Serial'
  BY <1>0, <1>11 DEF Register, RegisterRefused, TypeOK
<1>12. ASSUME NEW u \in Upgrades, Upgrade(u) PROVE Serial'
  BY <1>0, <1>12 DEF Upgrade, TypeOK
<1>13. ASSUME NEW u \in Upgrades, Invalidate(u) PROVE Serial'
  BY <1>13 DEF Invalidate, TypeOK
<1>14. ASSUME NEW g \in Groups, Evict(g) PROVE Serial'
  BY <1>14 DEF Evict
<1>15. CASE Crash
  BY <1>15 DEF Crash, Running, TypeOK
<1>16. CASE UNCHANGED vars
  BY <1>16 DEF vars
<1> QED
  BY <1>1, <1>2, <1>4, <1>5, <1>7, <1>8, <1>9, <1>10, <1>11, <1>12, <1>13, <1>14, <1>15,
     <1>16 DEF Next

-----------------------------------------------------------------------------
\* What is there refers to what is there.

LEMMA SoundRows ==
  ASSUME NEW d, NEW u, Referential(d), Attributed(d),
         u.eps = d.eps, u.ents = d.ents, u.edges = d.edges, u.facts = d.facts
  PROVE  Referential(u) /\ Attributed(u)
<1>1. Referential(u)  BY DEF Referential
<1>2. Attributed(u)  BY DEF Attributed
<1> QED  BY <1>1, <1>2

LEMMA SoundStep ==
  ASSUME NamespaceAssumption, TypeOK, Serial, Sound, [Next]_vars
  PROVE  Sound'
<1> USE DEF Go, Transact, rows, policy, plan, ghosts
<1> DEFINE OK(d) == Referential(d) /\ Attributed(d)
<1>0. OK(db) /\ OK(durable)  BY DEF Sound
<1>a. SUFFICES OK(db') /\ OK(durable')  BY DEF Sound, Referential, Attributed
\* A transaction on the policies alone.
<1>b. ASSUME NEW g \in Groups, NEW p, db' = [db EXCEPT !.row[g] = p] PROVE OK(db')
  <2>1. /\ db'.eps = db.eps /\ db'.ents = db.ents
        /\ db'.edges = db.edges /\ db'.facts = db.facts
    BY <1>b DEF TypeOK, Stores
  <2> QED  BY <1>0, <2>1, SoundRows
<1>i. \A c \in Calls : In[c] \in Groups  BY DEF NamespaceAssumption
<1>1. ASSUME NEW c \in Calls, Ensure(c) PROVE OK(db') /\ OK(durable')
  <2>1. OK(db')  BY <1>1, <1>b, <1>i DEF Ensure
  <2> QED  BY <1>1, <2>1 DEF Ensure
<1>2. ASSUME NEW c \in Calls, Commit(c) \/ Rollback(c) PROVE OK(db') /\ OK(durable')
  BY <1>0, <1>2 DEF Commit, Rollback
<1>8. ASSUME NEW f \in Forgets, Delete(f) PROVE OK(db') /\ OK(durable')
  BY <1>0, <1>8, CascadeSound DEF Delete, TypeOK
<1>9. ASSUME NEW e \in Episodes, Insert(e) PROVE OK(db') /\ OK(durable')
  <2>1. /\ db.eps \subseteq db'.eps /\ db'.ents = db.ents
        /\ db'.edges = db.edges /\ db'.facts = db.facts
    BY <1>9 DEF Insert, TypeOK, Stores
  <2>2. OK(db')
    BY <1>0, <2>1 DEF Referential, Attributed
  <2> QED  BY <1>0, <1>9, <2>2 DEF Insert
<1>10. ASSUME NEW e \in Episodes, Persist(e) PROVE OK(db') /\ OK(durable')
  BY <1>0, <1>10, PersistSound DEF Persist, TypeOK
<1>11. ASSUME NEW r \in Registers, Register(r) PROVE OK(db') /\ OK(durable')
  BY <1>0, <1>11, <1>b, <1>i DEF Register
<1>12. ASSUME NEW u \in Upgrades, Upgrade(u) PROVE OK(db') /\ OK(durable')
  BY <1>0, <1>12, <1>b, <1>i DEF Upgrade
<1>15. CASE Crash
  BY <1>0, <1>15 DEF Crash
<1>16. CASE UNCHANGED rows
  BY <1>0, <1>16
<1>17. ASSUME NEW f \in Forgets, NEW n \in Names, Count(f, n) PROVE UNCHANGED rows
  BY <1>17 DEF Count
<1>18. ASSUME NEW f \in Forgets, Hit(f) \/ Miss(f) \/ Put(f) \/ ListSource(f) \/ ListNamespace(f)
       PROVE  UNCHANGED rows
  BY <1>18 DEF Hit, Miss, Put, ListSource, ListNamespace
<1>19. ASSUME NEW r \in Registers, RegisterRefused(r) PROVE UNCHANGED rows
  BY <1>19 DEF RegisterRefused
<1>20. ASSUME NEW u \in Upgrades, Invalidate(u) PROVE UNCHANGED rows
  BY <1>20 DEF Invalidate
<1>21. ASSUME NEW g \in Groups, Evict(g) PROVE UNCHANGED rows
  BY <1>21 DEF Evict
<1> QED
  BY <1>1, <1>2, <1>8, <1>9, <1>10, <1>11, <1>12, <1>15, <1>16, <1>17, <1>18, <1>19, <1>20,
     <1>21 DEF Next, vars

-----------------------------------------------------------------------------
\* A promised policy stands.

\* The parts, with the policies of the rows alone.
LEMMA PolicyStep ==
  ASSUME NamespaceAssumption, TypeOK, Serial, PoliciesHold, [Next]_vars
  PROVE  PoliciesHold'
<1> USE DEF Go, Transact, rows, policy, plan, ghosts
<1>t. /\ \A c \in Calls : In[c] \in Groups
      /\ None \notin Calls /\ None \notin Policies /\ Default # AppendOnly
      /\ Policy \in [Registers -> Policies]
      /\ Forgets \cap (Registers \cup Upgrades) = {} /\ Registers \cap Upgrades = {}
      /\ Episodes \cap (Forgets \cup Registers \cup Upgrades) = {}
  BY DEF NamespaceAssumption
<1>h. RowKept /\ Written /\ Promised /\ Observed /\ Gated  BY DEF PoliciesHold
\* A step that leaves policies, promises and what was read alone.
<1>q. ASSUME db'.row = db.row, durable'.row = durable.row,
             UNCHANGED <<promised, cache, read, overtaken, early, late>>,
             \A c \in Registers \cup Upgrades : txn' = c <=> txn = c,
             \A f \in Forgets : pc'[f] \in {"gate", "put"} => pc[f] = pc'[f],
             \A f \in late : pc[f] \in {"gate", "put", "refused"} => pc'[f] = pc[f],
             \A u \in Upgrades : pc'[u] = "invalidate" <=> pc[u] = "invalidate"
      PROVE  PoliciesHold'
  <2>1. RowKept' /\ Promised'  BY <1>h, <1>q DEF RowKept, Promised
  <2>2. Written'  BY <1>h, <1>q DEF Written
  <2>3. Observed'  BY <1>h, <1>q DEF Observed
  <2>4. Gated'  BY <1>h, <1>q DEF Gated, Closing, Sealed
  <2> QED  BY <2>1, <2>2, <2>3, <2>4 DEF PoliciesHold
<1>1. ASSUME NEW c \in Calls, Ensure(c) PROVE PoliciesHold'
  <2>1. /\ txn = None /\ db = durable /\ durable' = db'
        /\ \A g \in Groups :
             db'.row[g] = IF g = In[c] /\ db.row[g] = None THEN Default ELSE db.row[g]
    BY <1>1 DEF Ensure, TypeOK, Stores, Serial
  <2>2. RowKept'  BY <2>1 DEF RowKept
  <2>3. Promised'  BY <1>h, <1>1, <1>t, <2>1 DEF Promised, Ensure
  <2>4. Written'  BY <1>h, <1>1, <1>t, <2>1 DEF Written, Ensure, TypeOK
  <2>5. Observed'  BY <1>h, <1>1, <1>t, <2>1 DEF Observed, Ensure, TypeOK
  <2>6. Gated'  BY <1>h, <1>1, <1>t, <2>1 DEF Gated, Closing, Sealed, Ensure, TypeOK
  <2> QED  BY <2>2, <2>3, <2>4, <2>5, <2>6 DEF PoliciesHold
<1>2. ASSUME NEW c \in Calls, Commit(c) PROVE PoliciesHold'
  <2>1. RowKept'  BY <1>2 DEF Commit, RowKept
  <2>2. Promised'  BY <1>h, <1>2, <1>t DEF Commit, Promised, RowKept, Written, TypeOK
  <2>3. Written'  BY <1>h, <1>2, <1>t DEF Commit, Written, RowKept, TypeOK
  <2>4. Observed'  BY <1>h, <1>2, <1>t DEF Commit, Observed, RowKept, TypeOK
  <2>5. /\ pc[c] = "open" /\ \A k \in Calls \ {c} : pc'[k] = pc[k]
        /\ c \in Upgrades => pc'[c] = "invalidate"
        /\ c \notin Upgrades => pc'[c] = "done"
        /\ cache' = cache /\ read' = read /\ overtaken' = overtaken /\ late' = late
        /\ durable'.row = db.row /\ txn = c
    BY <1>2, <1>t DEF Commit, Serial, TypeOK
  <2>6. \A g \in Groups : /\ Sealed(g) => Sealed(g)'
                          /\ Closing(g) => Closing(g)'
    BY <2>5, <1>t DEF Sealed, Closing
  <2>7. ASSUME NEW g \in Groups, durable'.row[g] = AppendOnly, g \notin overtaken
        PROVE  Sealed(g)' \/ Closing(g)'
    <3>1. CASE durable.row[g] = None
      <4>1. cache[g] = None /\ \A f \in Forgets : In[f] = g => pc[f] # "put"
        BY <1>h, <3>1 DEF Observed
      <4> QED  BY <4>1, <2>6 DEF Sealed
    <3>2. CASE durable.row[g] = AppendOnly
      BY <1>h, <2>6, <2>7, <3>2 DEF Gated
    <3>3. CASE durable.row[g] \notin {None, AppendOnly}
      <4>1. c \in Upgrades /\ In[c] = g
        BY <1>h, <2>5, <2>7, <3>3 DEF RowKept
      <4> QED  BY <4>1, <2>5 DEF Closing
    <3> QED  BY <3>1, <3>2, <3>3
  <2>8. \A g \in Groups : promised'[g] = AppendOnly => durable'.row[g] = AppendOnly
    BY <2>2 DEF Promised
  <2>9. /\ \A g \in Groups : promised[g] = AppendOnly => promised'[g] = AppendOnly
        /\ \A g \in Groups : promised[g] = AppendOnly /\ g \in early' => g \in early
        /\ \A g \in Groups : promised'[g] = AppendOnly /\ promised[g] # AppendOnly
                             /\ Closing(g) => g \in early'
    <3>1. \A g \in Groups : promised[g] = AppendOnly => db.row[g] = AppendOnly
      BY <1>h DEF Promised, RowKept
    <3>2. c \in Registers => db.row[In[c]] = Policy[c]
      BY <1>h, <2>5 DEF Written
    <3> QED  BY <1>2, <3>1, <3>2 DEF Commit
  <2>10. ASSUME NEW g \in Groups, promised'[g] = AppendOnly, g \notin overtaken \cup early'
         PROVE  Sealed(g)'
    <3>1. CASE promised[g] = AppendOnly
      <4>1. g \notin early  BY <1>2, <2>10 DEF Commit
      <4> QED  BY <1>h, <2>6, <2>10, <3>1, <4>1 DEF Gated
    <3>2. CASE promised[g] # AppendOnly
      <4>1. ~Closing(g)  BY <2>9, <2>10, <3>2
      <4>2. c \notin Upgrades
        BY <1>2, <2>10, <3>2, <1>t DEF Commit
      <4>3. ~Closing(g)'
        BY <4>1, <4>2, <2>5 DEF Closing
      <4> QED  BY <2>7, <2>8, <2>10, <4>3
    <3> QED  BY <3>1, <3>2
  <2>11. \A f \in late' : /\ promised'[In[f]] = AppendOnly /\ In[f] \notin early'
                          /\ In[f] \notin overtaken' => pc'[f] \in {"gate", "put", "refused"}
    BY <1>h, <1>t, <2>5, <2>9 DEF Gated, TypeOK
  <2>12. Gated'  BY <2>5, <2>7, <2>10, <2>11 DEF Gated
  <2> QED  BY <2>1, <2>2, <2>3, <2>4, <2>12 DEF PoliciesHold
<1>3. ASSUME NEW c \in Calls, Rollback(c) PROVE PoliciesHold'
  <2>1. RowKept' /\ Promised'  BY <1>h, <1>3 DEF Rollback, RowKept, Promised
  <2>2. Written'  BY <1>h, <1>3, <1>t DEF Rollback, Written, TypeOK
  <2>3. Observed'  BY <1>h, <1>3 DEF Rollback, Observed, TypeOK
  <2>4. Gated'  BY <1>h, <1>3 DEF Rollback, Gated, Closing, Sealed, Serial, TypeOK
  <2> QED  BY <2>1, <2>2, <2>3, <2>4 DEF PoliciesHold
<1>4. ASSUME NEW f \in Forgets, Hit(f) PROVE PoliciesHold'
  <2>1. RowKept' /\ Promised' /\ Written'
    BY <1>h, <1>4, <1>t DEF Hit, Verdict, RowKept, Promised, Written, TypeOK
  <2>2. Observed'  BY <1>h, <1>4 DEF Hit, Verdict, Observed, TypeOK
  <2>3. Gated'  BY <1>h, <1>4, <1>t DEF Hit, Verdict, Gated, Closing, Sealed, TypeOK
  <2> QED  BY <2>1, <2>2, <2>3 DEF PoliciesHold
<1>5. ASSUME NEW f \in Forgets, Miss(f) PROVE PoliciesHold'
  <2>1. RowKept' /\ Promised' /\ Written'
    BY <1>h, <1>5, <1>t DEF Miss, RowKept, Promised, Written, TypeOK
  <2>2. Observed'  BY <1>h, <1>5, <1>t DEF Miss, Observed, RowKept, TypeOK
  <2>3. Gated'  BY <1>h, <1>5, <1>t DEF Miss, Gated, Closing, Sealed, RowKept, Promised, TypeOK
  <2> QED  BY <2>1, <2>2, <2>3 DEF PoliciesHold
<1>6. ASSUME NEW f \in Forgets, Put(f) PROVE PoliciesHold'
  <2>1. RowKept' /\ Promised' /\ Written'
    BY <1>h, <1>6, <1>t DEF Put, Verdict, RowKept, Promised, Written, TypeOK
  <2>2. Observed'  BY <1>h, <1>6, <1>t DEF Put, Verdict, Observed, TypeOK
  <2>3. Gated'  BY <1>h, <1>6, <1>t DEF Put, Verdict, Gated, Closing, Sealed, TypeOK
  <2> QED  BY <2>1, <2>2, <2>3 DEF PoliciesHold
<1>7. ASSUME NEW r \in Registers, Register(r) PROVE PoliciesHold'
  <2>1. /\ db = durable /\ durable' = durable
        /\ db.row[In[r]] \in {None, Policy[r]}
        /\ \A g \in Groups : db'.row[g] = IF g = In[r] THEN Policy[r] ELSE db.row[g]
    BY <1>7, <1>t DEF Register, TypeOK, Stores, Serial
  <2>2. RowKept'  BY <2>1, <1>t DEF RowKept
  <2>3. Promised'  BY <1>h, <1>7, <2>1 DEF Promised, Register
  <2>4. Written'  BY <1>h, <1>7, <1>t, <2>1 DEF Written, Register, TypeOK
  <2>5. Observed'  BY <1>h, <1>7, <1>t, <2>1 DEF Observed, Register, TypeOK
  <2>6. Gated'  BY <1>h, <1>7, <1>t DEF Gated, Closing, Sealed, Register, TypeOK
  <2> QED  BY <2>2, <2>3, <2>4, <2>5, <2>6 DEF PoliciesHold
<1>8. ASSUME NEW u \in Upgrades, Upgrade(u) PROVE PoliciesHold'
  <2>1. /\ db = durable /\ durable' = durable
        /\ \A g \in Groups : db'.row[g] = IF g = In[u] THEN AppendOnly ELSE db.row[g]
    BY <1>8, <1>t DEF Upgrade, TypeOK, Stores, Serial
  <2>2. RowKept'  BY <1>8, <2>1, <1>t DEF RowKept, Upgrade
  <2>3. Promised'  BY <1>h, <1>8, <2>1 DEF Promised, Upgrade
  <2>4. Written'  BY <1>h, <1>8, <1>t, <2>1 DEF Written, Upgrade, TypeOK
  <2>5. Observed'  BY <1>h, <1>8, <1>t, <2>1 DEF Observed, Upgrade, TypeOK
  <2>6. Gated'  BY <1>h, <1>8, <1>t DEF Gated, Closing, Sealed, Upgrade, TypeOK
  <2> QED  BY <2>2, <2>3, <2>4, <2>5, <2>6 DEF PoliciesHold
<1>9. ASSUME NEW u \in Upgrades, Invalidate(u) PROVE PoliciesHold'
  <2>1. RowKept' /\ Written'
    BY <1>h, <1>9, <1>t DEF Invalidate, RowKept, Written, TypeOK
  <2>2. Promised'  BY <1>h, <1>9, <1>t DEF Invalidate, Promised, Written, TypeOK
  <2>3. Observed'  BY <1>h, <1>9, <1>t DEF Invalidate, Observed, TypeOK
  <2>4. Gated'  BY <1>h, <1>9, <1>t DEF Invalidate, Gated, Closing, Sealed, TypeOK
  <2> QED  BY <2>1, <2>2, <2>3, <2>4 DEF PoliciesHold
<1>10. ASSUME NEW g \in Groups, Evict(g) PROVE PoliciesHold'
  BY <1>h, <1>10
  DEF Evict, PoliciesHold, RowKept, Written, Promised, Observed, Gated, Closing, Sealed, TypeOK
<1>11. CASE Crash
  <2>1. RowKept' /\ Promised'  BY <1>h, <1>11 DEF Crash, RowKept, Promised
  <2>2. Written' /\ Observed' /\ Gated'
    BY <1>11, <1>t DEF Crash, Running, Written, Observed, Gated, Closing, Sealed
  <2> QED  BY <2>1, <2>2 DEF PoliciesHold
<1>12. ASSUME NEW f \in Forgets, ListSource(f) \/ ListNamespace(f) PROVE PoliciesHold'
  BY <1>q, <1>12, <1>t DEF ListSource, ListNamespace, TypeOK
<1>13. ASSUME NEW f \in Forgets, NEW n \in Names, Count(f, n) PROVE PoliciesHold'
  BY <1>q, <1>13 DEF Count
<1>14. ASSUME NEW f \in Forgets, Delete(f) PROVE PoliciesHold'
  <2>1. db'.row = db.row  BY <1>14 DEF Delete, Cascade, BatchForget, TypeOK, Stores
  <2> QED  BY <1>q, <1>14, <1>t, <2>1 DEF Delete, TypeOK
<1>15. ASSUME NEW e \in Episodes, Insert(e) \/ Persist(e) PROVE PoliciesHold'
  <2>1. db'.row = db.row /\ durable'.row = durable.row
    <3>1. CASE Insert(e)
      BY <3>1 DEF Insert, TypeOK, Stores, Serial
    <3>2. CASE Persist(e)
      BY <3>2 DEF Persist, PersistOf, TypeOK, Stores
    <3> QED  BY <1>15, <3>1, <3>2
  <2> QED  BY <1>q, <1>15, <1>t, <2>1 DEF Insert, Persist, TypeOK
<1>16. ASSUME NEW r \in Registers, RegisterRefused(r) PROVE PoliciesHold'
  BY <1>q, <1>16, <1>t DEF RegisterRefused, TypeOK
<1>17. CASE UNCHANGED vars
  BY <1>q, <1>17 DEF vars
<1> QED
  BY <1>1, <1>2, <1>3, <1>4, <1>5, <1>6, <1>7, <1>8, <1>9, <1>10, <1>11, <1>12, <1>13, <1>14,
     <1>15, <1>16, <1>17 DEF Next

-----------------------------------------------------------------------------
\* An erasure stands.

LEMMA ErasingStep ==
  ASSUME NamespaceAssumption, TypeOK, Serial, Erasing, [Next]_vars
  PROVE  Erasing'
<1> USE DEF Go, Transact, rows, policy, plan, ghosts
<1>t. None \notin Calls /\ Episodes \cap (Forgets \cup Registers \cup Upgrades) = {}
  BY DEF NamespaceAssumption
\* A step that stores no episode and starts or ends no cascade.
<1>q. ASSUME db'.eps = db.eps, durable'.eps = durable.eps, erased' = erased,
             \A e \in Episodes : pc'[e] \in {"idle", "insert"} => pc[e] \in {"idle", "insert"},
             \A f \in Forgets : txn' = f => txn = f
      PROVE  Erasing'
  BY <1>q DEF Erasing, Matches
<1>1. ASSUME NEW c \in Calls, Ensure(c) PROVE Erasing'
  <2>1. db'.eps = db.eps /\ durable'.eps = durable.eps
    BY <1>1 DEF Ensure, TypeOK, Stores, Serial
  <2> QED  BY <1>q, <1>1, <2>1 DEF Ensure, TypeOK
<1>2. ASSUME NEW c \in Calls, Commit(c) PROVE Erasing'
  <2>1. erased' \cap db.eps = {}  BY <1>2 DEF Commit, Erasing, TypeOK, Stores
  <2> QED  BY <1>2, <1>t, <2>1 DEF Commit, Erasing, TypeOK, Stores
<1>3. ASSUME NEW c \in Calls, Rollback(c) PROVE Erasing'
  BY <1>3, <1>t DEF Rollback, Erasing, TypeOK
<1>4. ASSUME NEW f \in Forgets, Hit(f) \/ Miss(f) \/ Put(f) \/ ListSource(f) \/ ListNamespace(f)
      PROVE  Erasing'
  BY <1>q, <1>4, <1>t DEF Hit, Miss, Put, ListSource, ListNamespace, TypeOK
<1>5. ASSUME NEW f \in Forgets, NEW n \in Names, Count(f, n) PROVE Erasing'
  BY <1>q, <1>5 DEF Count
<1>6. ASSUME NEW f \in Forgets, Delete(f) PROVE Erasing'
  <2>1. db'.eps = {e \in db.eps : ~Matches(f, e)}
    BY <1>6 DEF Delete, Cascade, BatchForget, TypeOK, Stores
  <2> QED  BY <1>6, <1>t, <2>1 DEF Delete, Erasing, Matches, TypeOK
<1>7. ASSUME NEW e \in Episodes, Insert(e) PROVE Erasing'
  <2>1. db'.eps = db.eps \cup {e} /\ durable'.eps \in {durable.eps, durable.eps \cup {e}}
    BY <1>7 DEF Insert, TypeOK, Stores, Serial
  <2>2. txn # None => durable' = durable
    BY <1>7 DEF Insert
  <2> QED  BY <1>7, <1>t, <2>1, <2>2 DEF Insert, Erasing, Matches, TypeOK
<1>8. ASSUME NEW e \in Episodes, Persist(e) PROVE Erasing'
  <2>1. db'.eps = db.eps  BY <1>8 DEF Persist, PersistOf, TypeOK, Stores
  <2> QED  BY <1>q, <1>8, <1>t, <2>1 DEF Persist, TypeOK
<1>9. ASSUME NEW r \in Registers, Register(r) \/ RegisterRefused(r) PROVE Erasing'
  <2>1. db'.eps = db.eps /\ durable'.eps = durable.eps
    BY <1>9 DEF Register, RegisterRefused, TypeOK, Stores
  <2>2. Forgets \cap Registers = {}  BY DEF NamespaceAssumption
  <2> QED  BY <1>q, <1>9, <1>t, <2>1, <2>2 DEF Register, RegisterRefused, TypeOK
<1>10. ASSUME NEW u \in Upgrades, Upgrade(u) \/ Invalidate(u) PROVE Erasing'
  <2>1. db'.eps = db.eps /\ durable'.eps = durable.eps
    BY <1>10 DEF Upgrade, Invalidate, TypeOK, Stores
  <2>2. Forgets \cap Upgrades = {}  BY DEF NamespaceAssumption
  <2> QED  BY <1>q, <1>10, <1>t, <2>1, <2>2 DEF Upgrade, Invalidate, TypeOK
<1>11. ASSUME NEW g \in Groups, Evict(g) PROVE Erasing'
  BY <1>q, <1>11 DEF Evict
<1>12. CASE Crash
  BY <1>12, <1>t DEF Crash, Running, Erasing, TypeOK
<1>13. CASE UNCHANGED vars
  BY <1>q, <1>13 DEF vars
<1> QED
  BY <1>1, <1>2, <1>3, <1>4, <1>5, <1>6, <1>7, <1>8, <1>9, <1>10, <1>11, <1>12, <1>13 DEF Next

-----------------------------------------------------------------------------
\* What others mention is left.

\* What is still kept after a step of another call is kept as before.
LEMMA KeptOutside ==
  ASSUME NamespaceAssumption, TypeOK, NEW d \in Stores, Attributed(d),
         NEW f \in Forgets, Outside(f),
         db' = d, kept'[f] = KeptIn(d)[f], doomed' = doomed
  PROVE  /\ Outside(f)'
         /\ kept'[f].edges \subseteq kept[f].edges /\ kept'[f].facts \subseteq kept[f].facts
<1>1. kept'[f].edges = kept[f].edges \cap d.edges /\ kept'[f].facts = kept[f].facts \cap d.facts
  BY DEF KeptIn
<1>2. \A x \in Facts : Endpoints(x) \subseteq Names
  BY DEF NamespaceAssumption, Endpoints
<1>3. ASSUME NEW x \in Facts, NEW e \in Episodes, <<x, e>> \in kept'[f].facts, NEW n \in Endpoints(x)
      PROVE  <<e, n>> \in kept'[f].edges
  <2>1. x \in Stated[e] /\ SubjectOf[x] \in Mentioned(e) /\ <<e, n>> \in kept[f].edges
    BY <1>1, <1>3 DEF Attributed, Outside
  <2>2. n \in Mentioned(e)
    BY <1>2, <2>1 DEF Mentioned, Endpoints, NamespaceAssumption
  <2> QED  BY <1>1, <1>3, <2>1, <2>2 DEF Attributed
<1> QED  BY <1>1, <1>3 DEF Outside, Matches, Mentioned

LEMMA OutsideFrame ==
  ASSUME NEW f \in Forgets, Outside(f), kept'[f] = kept[f],
         kept[f].edges \subseteq db'.edges, kept[f].facts \subseteq db'.facts,
         \A e \in Episodes, n \in Names : <<e, n>> \in kept[f].edges => n \notin doomed'[f]
  PROVE  Outside(f)'
<1>1. (kept[f].edges \subseteq db.edges)' /\ (kept[f].facts \subseteq db.facts)'
  OBVIOUS
<1>2. (\A e \in Episodes, n \in Names :
         <<e, n>> \in kept[f].edges => ~Matches(f, e) /\ n \notin doomed[f])'
  BY DEF Outside, Matches
<1>3. (\A x \in Facts, e \in Episodes :
         <<x, e>> \in kept[f].facts =>
           /\ ~Matches(f, e) /\ SubjectOf[x] \in Mentioned(e)
           /\ \A n \in Endpoints(x) : <<e, n>> \in kept[f].edges)'
  BY DEF Outside, Matches, Mentioned, Endpoints
<1> QED  BY <1>1, <1>2, <1>3 DEF Outside

LEMMA PlannedStep ==
  ASSUME NamespaceAssumption, TypeOK, Serial, Sound, Planned, [Next]_vars
  PROVE  Planned'
<1> USE DEF Go, Transact, rows, policy, plan, ghosts
<1>t. None \notin Calls /\ Forgets \cap (Episodes \cup Registers \cup Upgrades) = {}
  BY DEF NamespaceAssumption
\* A step of another call that only adds rows.
<1>q. ASSUME db.edges \subseteq db'.edges, db.facts \subseteq db'.facts, kept' = kept, doomed' = doomed,
             \A f \in Forgets : pc'[f] \in {"idle", "gate", "put", "list"} =>
                                  pc[f] \in {"idle", "gate", "put", "list"}
      PROVE  Planned'
  <2>1. \A f \in Forgets : Outside(f)'  BY <1>q, OutsideFrame DEF Planned, Outside
  <2> QED  BY <1>q, <2>1 DEF Planned
<1>1. ASSUME NEW c \in Calls, Ensure(c) PROVE Planned'
  <2>1. db'.edges = db.edges /\ db'.facts = db.facts
    BY <1>1 DEF Ensure, TypeOK, Stores
  <2> QED  BY <1>q, <1>1, <2>1 DEF Ensure, TypeOK
<1>2. ASSUME NEW c \in Calls, Commit(c) PROVE Planned'
  BY <1>q, <1>2 DEF Commit, TypeOK
<1>3. ASSUME Rollback(txn) \/ Crash PROVE Planned'
  <2>1. /\ db' = durable /\ kept' = KeptIn(durable) /\ doomed' = doomed
        /\ \A f \in Forgets : pc'[f] \in {"idle", "gate", "put", "list"} =>
                               pc[f] \in {"idle", "gate", "put", "list"}
    BY <1>3 DEF Rollback, Crash, Running, TypeOK
  <2>2. \A f \in Forgets : /\ Outside(f)'
                           /\ kept'[f].edges \subseteq kept[f].edges
                           /\ kept'[f].facts \subseteq kept[f].facts
    BY <2>1, KeptOutside DEF Planned, Sound, TypeOK
  <2> QED  BY <2>1, <2>2 DEF Planned
<1>4. ASSUME NEW f \in Forgets, Hit(f) \/ Miss(f) \/ Put(f) PROVE Planned'
  BY <1>q, <1>4 DEF Hit, Miss, Put, TypeOK
<1>5. ASSUME NEW f \in Forgets, ListNamespace(f) PROVE Planned'
  <2>1. \A k \in Forgets : k # f => doomed'[k] = doomed[k] /\ pc'[k] = pc[k]
    BY <1>5 DEF ListNamespace, TypeOK
  <2>2. kept[f].edges = {} /\ kept[f].facts = {} /\ pc'[f] = "count" /\ kept' = kept /\ db' = db
    BY <1>5 DEF ListNamespace, Planned, TypeOK
  <2>3. Outside(f)'  BY <2>2, OutsideFrame DEF Planned, Outside
  <2>4. \A k \in Forgets : k # f => Outside(k)'
    BY <2>1, <2>2, OutsideFrame DEF Planned, Outside
  <2> QED  BY <2>1, <2>2, <2>3, <2>4 DEF Planned
<1>6. ASSUME NEW f \in Forgets, ListSource(f) PROVE Planned'
  <2>1. /\ \A k \in Forgets : k # f => kept'[k] = kept[k] /\ pc'[k] = pc[k]
        /\ doomed' = doomed /\ db' = db /\ pc'[f] = "count" /\ doomed[f] = {} /\ Scope[f] # All
    BY <1>6 DEF ListSource, Planned, TypeOK
  <2>2. /\ kept'[f].edges = {p \in db.edges : ~Matches(f, p[1])}
        /\ kept'[f].facts = {p \in db.facts : ~Matches(f, p[2])
                                              /\ SubjectOf[p[1]] \in Mentioned(p[2])}
    BY <1>6 DEF ListSource, TypeOK
  <2>3. ASSUME NEW x \in Facts, NEW e \in Episodes, <<x, e>> \in kept'[f].facts, NEW n \in Endpoints(x)
        PROVE  <<e, n>> \in kept'[f].edges
    <3>1. <<x, e>> \in db.facts /\ ~Matches(f, e) /\ SubjectOf[x] \in Mentioned(e)
      BY <2>2, <2>3
    <3>2. x \in Stated[e] /\ n \in Names
      <4>1. x \in Stated[e]  BY <3>1 DEF Sound, Attributed
      <4>2. Endpoints(x) \subseteq Names  BY DEF NamespaceAssumption, Endpoints
      <4> QED  BY <2>3, <4>1, <4>2
    <3>3. n \in Mentioned(e)
      BY <2>3, <3>1, <3>2 DEF Mentioned, Endpoints
    <3> QED  BY <2>2, <2>3, <3>1, <3>3 DEF Sound, Attributed
  <2>4. Outside(f)'
    BY <2>1, <2>2, <2>3 DEF Outside, Matches, Mentioned, Endpoints
  <2>5. \A k \in Forgets : k # f => Outside(k)'
    BY <2>1, OutsideFrame DEF Planned, Outside
  <2> QED  BY <2>1, <2>4, <2>5 DEF Planned
<1>7. ASSUME NEW f \in Forgets, NEW n \in Names, Count(f, n) PROVE Planned'
  <2>1. /\ \A k \in Forgets : k # f => doomed'[k] = doomed[k]
        /\ kept' = kept /\ db' = db /\ pc' = pc /\ pc[f] = "count"
        /\ doomed'[f] = doomed[f] \cup {m \in {n} : ~Pinned(f, m)}
    BY <1>7 DEF Count, TypeOK
  <2>2. \A e \in Episodes : <<e, n>> \in kept[f].edges => Pinned(f, n)
    BY DEF Planned, Outside, Pinned, Sound, Referential
  <2>3. Outside(f)'
    BY <2>1, <2>2, OutsideFrame DEF Planned, Outside
  <2>4. \A k \in Forgets : k # f => Outside(k)'
    BY <2>1, OutsideFrame DEF Planned, Outside
  <2> QED  BY <2>1, <2>3, <2>4 DEF Planned
<1>8. ASSUME NEW f \in Forgets, Delete(f) PROVE Planned'
  <2>1. db' = Cascade(db, f) /\ db' \in Stores /\ Attributed(db')
    BY <1>8, StoreTypes, CascadeSound DEF Delete, TypeOK, Sound
  <2>2. /\ doomed' = doomed /\ kept'[f] = kept[f]
        /\ \A k \in Forgets : k # f => kept'[k] = KeptIn(db')[k] /\ pc'[k] = pc[k]
        /\ pc[f] = "count" /\ pc'[f] = "open"
    BY <1>8 DEF Delete, KeptIn, TypeOK
  <2>3. \A k \in Forgets : k # f => /\ Outside(k)'
                                    /\ kept'[k].edges \subseteq kept[k].edges
                                    /\ kept'[k].facts \subseteq kept[k].facts
    BY <2>1, <2>2, KeptOutside DEF Planned
  <2>4. /\ \A e \in Episodes, n \in Names : <<e, n>> \in db'.edges <=>
             <<e, n>> \in db.edges /\ n \notin doomed[f] /\ ~Matches(f, e)
        /\ \A x \in Facts, e \in Episodes : <<x, e>> \in db'.facts <=>
             <<x, e>> \in db.facts /\ Endpoints(x) \cap doomed[f] = {} /\ ~Matches(f, e)
    <3>1. db \in Stores  BY DEF TypeOK
    <3> QED  BY <2>1, <3>1 DEF Cascade, BatchForget, Stores
  <2>5. \A x \in Facts : Endpoints(x) \subseteq Names
    BY DEF NamespaceAssumption, Endpoints
  <2>6. Outside(f)  BY DEF Planned
  <2>7. kept[f].edges \subseteq db'.edges
    BY <2>4, <2>6 DEF Outside, TypeOK
  <2>8. kept[f].facts \subseteq db'.facts
    <3>1. kept[f].facts \subseteq Facts \X Episodes  BY DEF TypeOK
    <3>2. ASSUME NEW x \in Facts, NEW e \in Episodes, <<x, e>> \in kept[f].facts
          PROVE  <<x, e>> \in db'.facts
      <4>1. <<x, e>> \in db.facts /\ ~Matches(f, e)  BY <2>6, <3>2 DEF Outside
      <4>2. \A n \in Endpoints(x) : n \notin doomed[f]
        BY <2>5, <2>6, <3>2 DEF Outside
      <4> QED  BY <2>4, <4>1, <4>2
    <3> QED  BY <3>1, <3>2
  <2>9. Outside(f)'
    BY <2>2, <2>6, <2>7, <2>8, OutsideFrame DEF Outside
  <2> QED  BY <2>2, <2>3, <2>9 DEF Planned
<1>9. ASSUME NEW e \in Episodes, Insert(e) PROVE Planned'
  <2>1. db'.edges = db.edges /\ db'.facts = db.facts
    BY <1>9 DEF Insert, TypeOK, Stores
  <2> QED  BY <1>q, <1>9, <1>t, <2>1 DEF Insert, TypeOK
<1>10. ASSUME NEW e \in Episodes, Persist(e) PROVE Planned'
  <2>1. db.edges \subseteq db'.edges /\ db.facts \subseteq db'.facts
    BY <1>10 DEF Persist, PersistOf, TypeOK, Stores
  <2> QED  BY <1>q, <1>10, <1>t, <2>1 DEF Persist, TypeOK
<1>11. ASSUME NEW r \in Registers, Register(r) \/ RegisterRefused(r) PROVE Planned'
  <2>1. db'.edges = db.edges /\ db'.facts = db.facts
    BY <1>11 DEF Register, RegisterRefused, TypeOK, Stores
  <2> QED  BY <1>q, <1>11, <1>t, <2>1 DEF Register, RegisterRefused, TypeOK
<1>12. ASSUME NEW u \in Upgrades, Upgrade(u) \/ Invalidate(u) PROVE Planned'
  <2>1. db'.edges = db.edges /\ db'.facts = db.facts
    BY <1>12 DEF Upgrade, Invalidate, TypeOK, Stores
  <2> QED  BY <1>q, <1>12, <1>t, <2>1 DEF Upgrade, Invalidate, TypeOK
<1>13. ASSUME NEW g \in Groups, Evict(g) PROVE Planned'
  BY <1>q, <1>13 DEF Evict
<1>14. CASE UNCHANGED vars
  BY <1>q, <1>14 DEF vars
<1>15. ASSUME NEW c \in Calls, Rollback(c) PROVE Rollback(txn)
  BY <1>15 DEF Rollback
<1> QED
  BY <1>1, <1>2, <1>3, <1>4, <1>5, <1>6, <1>7, <1>8, <1>9, <1>10, <1>11, <1>12, <1>13, <1>14,
     <1>15 DEF Next

-----------------------------------------------------------------------------
\* The invariant and what follows from it

LEMMA InvInit == NamespaceAssumption /\ Init => IInv
<1> SUFFICES ASSUME NamespaceAssumption, Init PROVE IInv  OBVIOUS
<1>1. TypeOK  BY TypeInit
<1>2. None \notin Calls  BY DEF NamespaceAssumption
<1>3. Serial  BY <1>2 DEF Init, Serial
<1>4. PoliciesHold
  BY <1>2
  DEF Init, NamespaceAssumption, PoliciesHold, RowKept, Written, Promised, Observed, Gated,
      Closing, Sealed
<1>5. Sound  BY DEF Init, Sound, Referential, Attributed
<1>6. Erasing  BY <1>2 DEF Init, Erasing
<1>7. Planned  BY DEF Init, Planned, Outside
<1> QED  BY <1>1, <1>3, <1>4, <1>5, <1>6, <1>7 DEF IInv

LEMMA InvStep == NamespaceAssumption /\ IInv /\ [Next]_vars => IInv'
  BY TypeStep, SerialStep, PolicyStep, SoundStep, ErasingStep, PlannedStep DEF IInv

LEMMA Invariance == Spec => []IInv
  BY NamespaceAssumption, InvInit, InvStep, PTL DEF Spec

\* Every variable has its type.
THEOREM TypeCorrect == Spec => []TypeOK
<1>1. IInv => TypeOK  BY DEF IInv
<1> QED  BY <1>1, Invariance, PTL

\* A policy that was answered for stays, and the gate keeps to it, for any calls in
\* any namespaces: unless an upgrade overtook a reader, no forget that began after it
\* returned is admitted.
THEOREM PromisesStand == Spec => []AppendOnlyStands
<1>1. IInv => AppendOnlyStands
  BY DEF IInv, PoliciesHold, Promised, Gated, AppendOnlyStands, Admitted, TypeOK
<1> QED  BY <1>1, Invariance, PTL

\* A forget by source removes nothing that other episodes mention, nor the facts about
\* it, whatever other calls do between its reads and its transaction.
THEOREM OthersKept == Spec => []SharedKept
<1>1. ASSUME IInv PROVE SharedKept
  <2>1. \A f \in Forgets : kept[f].edges \subseteq Episodes \X Names  BY <1>1 DEF IInv, TypeOK
  <2>2. Referential(db) /\ \A f \in Forgets : Outside(f)  BY <1>1 DEF IInv, Sound, Planned
  <2> QED  BY <2>1, <2>2 DEF SharedKept, Outside, Referential
<1> QED  BY <1>1, Invariance, PTL

\* What a forget erased does not come back, and no row refers to one that is gone.
THEOREM ErasedForGood == Spec => []ErasureStands
<1>1. IInv => ErasureStands
  BY DEF IInv, Sound, Erasing, ErasureStands
<1> QED  BY <1>1, Invariance, PTL
=============================================================================
