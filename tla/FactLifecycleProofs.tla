------------------------ MODULE FactLifecycleProofs ------------------------
(***************************************************************************)
(* Theorems about FactLifecycle, for any facts, callers and bounds: types  *)
(* and the uniqueness of what stands, that the archive can be read off the *)
(* log, and that only what has lapsed is archived.                         *)
(***************************************************************************)
EXTENDS FactLifecycle, FiniteSetTheorems, TLAPS

\* A call by the log is about an entry that exists, and about the fact it names.
InFlight ==
  \A c \in Callers : call[c].at \in {"undo", "write", "stamp"} =>
    /\ call[c].entry \in DOMAIN log
    /\ log[call[c].entry].fact = call[c].fact

Lists(i, f) == i \in DOMAIN log /\ log[i].kind = "fact_archive" /\ log[i].fact = f
                 /\ ~log[i].undone

\* Whoever is about to mark an entry about a fact that is in the archive again leaves
\* a later one behind.
StampsLeaveOne ==
  \A c \in Callers :
    /\ call[c].at = "stamp" /\ log[call[c].entry].kind = "fact_archive"
    /\ call[c].fact \in DOMAIN archived
    => \E i \in DOMAIN log : i > call[c].entry /\ Lists(i, call[c].fact)

Listed == \A f \in DOMAIN archived : \E i \in DOMAIN log : Lists(i, f)

\* A candidate is past its grace period until somebody writes to it.
CandidatesLapsed ==
  /\ sweep.todo \subseteq DOMAIN facts \cup DOMAIN archived
  /\ \A f \in sweep.todo \cap DOMAIN facts : f \in rewritten \/ PastGrace(facts[f])

IInv == TypeOK /\ InFlight /\ StampsLeaveOne /\ Listed /\ CandidatesLapsed /\ ArchivedLapsed
-----------------------------------------------------------------------------
(* Tables *)

\* Adding a row, or replacing one.
LEMMA WithRows ==
  ASSUME NEW t, NEW f \in Facts, NEW r \in Row,
         DOMAIN t \subseteq Facts, RowsOf(t) \subseteq Row
  PROVE  /\ DOMAIN With(t, f, r) = DOMAIN t \cup {f}
         /\ RowsOf(With(t, f, r)) \subseteq Row
         /\ With(t, f, r)[f] = r
         /\ \A h \in DOMAIN t : h # f => With(t, f, r)[h] = t[h]
  BY DEF With, RowsOf

\* Taking one out.
LEMMA WithoutRows ==
  ASSUME NEW t, NEW f, DOMAIN t \subseteq Facts, RowsOf(t) \subseteq Row
  PROVE  /\ DOMAIN Without(t, f) = DOMAIN t \ {f}
         /\ RowsOf(Without(t, f)) \subseteq Row
         /\ \A h \in DOMAIN t \ {f} : Without(t, f)[h] = t[h]
  BY DEF Without, RowsOf

\* Types of calls.
LEMMA CallTypes ==
  ASSUME NEW k \in Call
  PROVE  /\ k.at = "supersede" => /\ k.fact \in Facts /\ k.to \in Times
                                  /\ k.prior_valid_to \in MaybeTime
                                  /\ k.prior_expired_at \in MaybeTime
         /\ k.at \in {"undo", "write", "stamp"} =>
              /\ k \in [at : {"undo", "write", "stamp"}, fact : Facts, entry : Nat]
              /\ \A s \in {"write", "stamp"} :
                   /\ [k EXCEPT !.at = s] \in Call
                   /\ [k EXCEPT !.at = s].at = s
                   /\ [k EXCEPT !.at = s].fact = k.fact
                   /\ [k EXCEPT !.at = s].entry = k.entry
         /\ k = Idle => k.at = "idle"
         /\ k # Idle => k.fact \in Facts
         /\ k.at \in {"idle", "supersede", "undo", "write", "stamp"}
  BY DEF Call, Idle

\* Marking an entry changes nothing else of the log.
LEMMA Marking ==
  ASSUME NEW l \in Seq(Entry), NEW i \in DOMAIN l
  PROVE  LET m == [l EXCEPT ![i].undone = TRUE]
         IN  /\ m \in Seq(Entry) /\ DOMAIN m = DOMAIN l
             /\ \A j \in DOMAIN l : /\ m[j].kind = l[j].kind /\ m[j].fact = l[j].fact
                                    /\ m[j].valid_to = l[j].valid_to
                                    /\ m[j].prior_valid_to = l[j].prior_valid_to
                                    /\ m[j].undone = (j = i \/ l[j].undone)
                                    /\ l[j].undone \in BOOLEAN
  <1> DEFINE m == [l EXCEPT ![i].undone = TRUE]
  <1>0. l[i] \in Entry
    OBVIOUS
  <1>1. [l[i] EXCEPT !.undone = TRUE] \in Entry
    BY <1>0 DEF Entry
  <1>2. /\ DOMAIN m = DOMAIN l
        /\ \A j \in DOMAIN l : m[j] = IF j = i THEN [l[i] EXCEPT !.undone = TRUE] ELSE l[j]
    OBVIOUS
  <1>3. m \in Seq(Entry)
    BY <1>0, <1>1
  <1>4. /\ [l[i] EXCEPT !.undone = TRUE].kind = l[i].kind
        /\ [l[i] EXCEPT !.undone = TRUE].fact = l[i].fact
        /\ [l[i] EXCEPT !.undone = TRUE].valid_to = l[i].valid_to
        /\ [l[i] EXCEPT !.undone = TRUE].prior_valid_to = l[i].prior_valid_to
        /\ [l[i] EXCEPT !.undone = TRUE].undone = TRUE
    BY <1>0 DEF Entry
  <1>5. \A j \in DOMAIN l : l[j].undone \in BOOLEAN
    <2>1. \A j \in DOMAIN l : l[j] \in Entry
      OBVIOUS
    <2>2. \A e \in Entry : e.undone \in BOOLEAN
      BY DEF Entry
    <2>. QED  BY <2>1, <2>2
  <1>6. ASSUME NEW j \in DOMAIN l
        PROVE  /\ m[j].kind = l[j].kind /\ m[j].fact = l[j].fact
               /\ m[j].valid_to = l[j].valid_to
               /\ m[j].prior_valid_to = l[j].prior_valid_to
               /\ m[j].undone = (j = i \/ l[j].undone)
    <2>1. CASE j = i
      BY <1>2, <1>4, <2>1
    <2>2. CASE j # i
      BY <1>2, <1>5, <2>2
    <2>. QED  BY <2>1, <2>2
  <1>. QED  BY <1>2, <1>3, <1>5, <1>6

\* A row added to the log comes last.
LEMMA Appending ==
  ASSUME NEW l \in Seq(Entry), NEW e \in Entry
  PROVE  LET m == Append(l, e)
         IN  /\ m \in Seq(Entry) /\ DOMAIN m = DOMAIN l \cup {Len(l) + 1}
             /\ Len(l) + 1 \notin DOMAIN l /\ m[Len(l) + 1] = e
             /\ \A j \in DOMAIN l : m[j] = l[j] /\ j < Len(l) + 1
  OBVIOUS
-----------------------------------------------------------------------------
(* The tables, step by step *)

\* A row that is live or was not, replaced by one that clashes with none.
LEMMA Replaced ==
  ASSUME Stored, NEW f \in Facts \ DOMAIN archived, NEW r \in Row,
         facts' = With(facts, f, r), archived' = archived,
         r.expired_at = None => ~Clash(f)
  PROVE  Stored'
  <1>0. DOMAIN facts \subseteq Facts /\ RowsOf(facts) \subseteq Row /\ f \in Facts
    BY DEF Stored
  <1>1. /\ DOMAIN facts' = DOMAIN facts \cup {f}
        /\ RowsOf(facts') \subseteq Row
        /\ facts'[f] = r
        /\ \A h \in DOMAIN facts : h # f => facts'[h] = facts[h]
    BY <1>0 DEF With, RowsOf
  <1>2. ASSUME NEW h \in DOMAIN facts', NEW k \in DOMAIN facts',
               Unexpired(h)', Unexpired(k)', HashOf[h] = HashOf[k]
        PROVE  h = k
    <2>1. \A j \in DOMAIN facts \ {f} : Unexpired(j)' => Unexpired(j)
      BY <1>1 DEF Unexpired
    <2>2. CASE h = f /\ k # f
      BY <1>1, <1>2, <2>1, <2>2 DEF Clash, Unexpired
    <2>3. CASE k = f /\ h # f
      BY <1>1, <1>2, <2>1, <2>3 DEF Clash, Unexpired
    <2>4. CASE h # f /\ k # f
      BY <1>1, <1>2, <2>1, <2>4 DEF Stored
    <2>. QED  BY <2>2, <2>3, <2>4
  <1>3. RowsOf(archived') \subseteq Row
    BY DEF Stored, RowsOf
  <1>4. /\ DOMAIN facts' \subseteq Facts /\ DOMAIN archived' \subseteq Facts
        /\ DOMAIN facts' \cap DOMAIN archived' = {}
        /\ Initial \subseteq DOMAIN facts' \cup DOMAIN archived'
    BY <1>1 DEF Stored
  <1>. QED  BY <1>1, <1>2, <1>3, <1>4 DEF Stored

\* Rows rewritten where they are, none of them unexpired that was not.
LEMMA Rewritten ==
  ASSUME Stored, archived' = archived,
         DOMAIN facts' = DOMAIN facts, RowsOf(facts') \subseteq Row,
         \A h \in DOMAIN facts : facts'[h].expired_at = None => facts[h].expired_at = None
  PROVE  Stored'
  <1>1. \A h \in DOMAIN facts : Unexpired(h)' => Unexpired(h)
    BY DEF Unexpired
  <1>2. RowsOf(archived') \subseteq Row
    BY DEF Stored, RowsOf
  <1>. QED  BY <1>1, <1>2 DEF Stored

\* A fact moved to the archive.
LEMMA MovedAway ==
  ASSUME Stored, NEW f \in DOMAIN facts,
         archived' = With(archived, f, facts[f]), facts' = Without(facts, f)
  PROVE  Stored'
  <1>1. f \in Facts /\ facts[f] \in Row
    BY DEF Stored, RowsOf
  <1>2. /\ DOMAIN archived' = DOMAIN archived \cup {f}
        /\ RowsOf(archived') \subseteq Row
    BY <1>1, WithRows DEF Stored
  <1>3. /\ DOMAIN facts' = DOMAIN facts \ {f}
        /\ RowsOf(facts') \subseteq Row
        /\ \A h \in DOMAIN facts \ {f} : facts'[h] = facts[h]
    BY WithoutRows DEF Stored
  <1>4. \A h \in DOMAIN facts' : Unexpired(h)' => Unexpired(h)
    BY <1>3 DEF Unexpired
  <1>. QED  BY <1>2, <1>3, <1>4 DEF Stored

\* And back, if nothing stands in its place.
LEMMA MovedBack ==
  ASSUME Stored, NEW f \in Facts, ~Refused(f), Restore(f)
  PROVE  Stored'
  <1>1. CASE f \notin DOMAIN archived
    BY <1>1 DEF Restore, Stored, RowsOf, Unexpired
  <1>2. CASE f \in DOMAIN archived
    <2>1. archived[f] \in Row /\ f \notin DOMAIN facts
      BY <1>2 DEF Stored, RowsOf
    <2>0. /\ DOMAIN facts \subseteq Facts /\ RowsOf(facts) \subseteq Row
          /\ facts' = With(facts, f, archived[f])
      BY <1>2 DEF Stored, Restore
    <2>2. /\ DOMAIN facts' = DOMAIN facts \cup {f}
          /\ RowsOf(facts') \subseteq Row
          /\ facts'[f] = archived[f]
          /\ \A h \in DOMAIN facts : h # f => facts'[h] = facts[h]
      BY <2>0, <2>1 DEF With, RowsOf
    <2>3. /\ DOMAIN archived' = DOMAIN archived \ {f}
          /\ RowsOf(archived') \subseteq Row
      BY <1>2, WithoutRows DEF Stored, Restore
    <2>4. archived[f].expired_at = None => ~Clash(f)
      BY <1>2 DEF Refused
    <2>5. \A h \in DOMAIN facts : Unexpired(h)' => Unexpired(h)
      BY <2>1, <2>2 DEF Unexpired
    <2>6. ASSUME NEW h \in DOMAIN facts', NEW k \in DOMAIN facts',
                 Unexpired(h)', Unexpired(k)', HashOf[h] = HashOf[k]
          PROVE  h = k
      <3>1. CASE h = f /\ k # f
        BY <2>2, <2>4, <2>5, <2>6, <3>1 DEF Clash, Unexpired
      <3>2. CASE k = f /\ h # f
        BY <2>2, <2>4, <2>5, <2>6, <3>2 DEF Clash, Unexpired
      <3>3. CASE h # f /\ k # f
        BY <2>2, <2>5, <2>6, <3>3 DEF Stored
      <3>. QED  BY <3>1, <3>2, <3>3
    <2>. QED  BY <2>2, <2>3, <2>6 DEF Stored
  <1>. QED  BY <1>1, <1>2
-----------------------------------------------------------------------------
(* Types *)

\* Nothing but time passes for the tables.
LEMMA StoredStays ==
  ASSUME Stored, UNCHANGED <<facts, archived>>
  PROVE  Stored'
  BY DEF Stored, RowsOf, Unexpired

\* A new row of the log is well formed.
LEMMA LoggedType ==
  ASSUME log \in Seq(Entry), NEW kind \in {"fact_supersede", "fact_archive"},
         NEW f \in Facts, NEW to \in MaybeTime, NEW prior \in MaybeTime,
         NEW expired \in MaybeTime, Logged(kind, f, to, prior, expired)
  PROVE  log' \in Seq(Entry)
  BY Appending DEF Logged, Entry

LEMMA TypeInit == Init => TypeOK
  <1>. SUFFICES ASSUME Init PROVE TypeOK
    OBVIOUS
  <1>1. Stored
    <2>1. /\ facts = [f \in Initial |-> NewRow] /\ DOMAIN archived = {}
          /\ NewRow \in Row /\ Initial \subseteq Facts
          /\ \A f, g \in Initial : HashOf[f] = HashOf[g] => f = g
      BY LifecycleAssumption DEF Init, NewRow, Row, MaybeTime
    <2>. QED  BY <2>1 DEF Stored, RowsOf
  <1>2. log \in Seq(Entry) /\ call \in [Callers -> Call]
    BY DEF Init, Call
  <1>3. sweep.todo \subseteq Facts /\ sweep.next \in sweep.todo \cup {None} /\ now \in Times
    BY LifecycleAssumption DEF Init, Rest, Times
  <1>. QED  BY <1>1, <1>2, <1>3  DEF TypeOK

LEMMA TypeIngest == TypeOK /\ InFlight /\ Ingest => TypeOK'
  <1>. SUFFICES ASSUME TypeOK, NEW f \in Facts, InsertFact(f) \/ Doubt(f) \/ Contradict(f)
                PROVE  TypeOK'
    BY DEF Ingest
  <1>. USE DEF TypeOK
  <1>1. UNCHANGED <<now, log, call, sweep>>
    BY DEF InsertFact, Doubt, Contradict
  <1>2. CASE InsertFact(f)
    <2>1. NewRow \in Row
      BY DEF NewRow, Row, MaybeTime
    <2>2. Stored'
      BY <1>2, <2>1, Replaced DEF InsertFact
    <2>. QED  BY <1>1, <2>2
  <1>3. CASE Doubt(f)
    BY <1>1, <1>3, StoredStays DEF Doubt
  <1>4. CASE Contradict(f)
    <2>1. CASE f \in DOMAIN facts
      <3>1. facts' = [facts EXCEPT ![f].expired_at = now, ![f].invalid_at = TRUE]
            /\ archived' = archived
        BY <1>4, <2>1 DEF Contradict
      <3>2. \A h \in DOMAIN facts : facts[h] \in Row
        BY DEF Stored, RowsOf
      <3>3. \A h \in DOMAIN facts' : facts'[h] \in Row
        BY <2>1, <3>1, <3>2 DEF Row, MaybeTime
      <3>4. facts'[f].expired_at = now /\ now # None
        BY <2>1, <3>1, <3>2, LifecycleAssumption DEF Row, Times
      <3>5. Stored'
        BY <3>1, <3>3, <3>4, Rewritten DEF RowsOf
      <3>. QED  BY <1>1, <3>5
    <2>2. CASE f \notin DOMAIN facts
      BY <1>1, <1>4, <2>2, StoredStays DEF Contradict
    <2>. QED  BY <2>1, <2>2
  <1>. QED  BY <1>2, <1>3, <1>4

LEMMA TypeDream == TypeOK /\ InFlight /\ Dream => TypeOK'
  <1>. SUFFICES ASSUME TypeOK, Dream PROVE TypeOK'
    OBVIOUS
  <1>. USE DEF TypeOK
  <1>1. CASE WindowCloseout
    <2>. DEFINE Closed(h) == IF Lapsed(h) THEN [facts[h] EXCEPT !.expired_at = facts[h].valid_to]
                                          ELSE facts[h]
    <2>1. UNCHANGED <<archived, now, log, call, sweep>> /\ DOMAIN facts' = DOMAIN facts
      BY <1>1 DEF WindowCloseout
    <2>2. \A h \in DOMAIN facts : facts'[h] = Closed(h)
      BY <1>1 DEF WindowCloseout
    <2>3. \A h \in DOMAIN facts : facts[h] \in Row
      BY DEF Stored, RowsOf
    <2>4. \A h \in DOMAIN facts : Lapsed(h) => facts[h].valid_to # None
      BY DEF Lapsed
    <2>5. ASSUME NEW h \in DOMAIN facts
          PROVE  facts'[h] \in Row /\ (facts'[h].expired_at = None => facts[h].expired_at = None)
      <3>1. CASE Lapsed(h)
        BY <2>2, <2>3, <2>4, <3>1 DEF Row
      <3>2. CASE ~Lapsed(h)
        BY <2>2, <2>3, <3>2
      <3>. QED  BY <3>1, <3>2
    <2>6. Stored'
      BY <2>1, <2>5, Rewritten DEF RowsOf
    <2>. QED  BY <2>1, <2>6
  <1>2. CASE SelectCandidates
    <2>1. UNCHANGED <<facts, archived, now, log, call>>
          /\ sweep'.todo \subseteq DOMAIN facts /\ sweep'.next = None
      BY <1>2 DEF SelectCandidates
    <2>. QED  BY <2>1, StoredStays DEF Stored
  <1>3. CASE MoveFact
    <2>. DEFINE f == sweep.next
    <2>1. /\ f \in Facts /\ sweep' = [todo |-> sweep.todo \ {f}, next |-> None]
          /\ UNCHANGED <<now, call>>
      BY <1>3 DEF MoveFact
    <2>2. CASE f \in DOMAIN facts
      <3>1. Stored'
        BY <1>3, <2>2, MovedAway DEF MoveFact
      <3>2. log' \in Seq(Entry)
        BY <1>3, <2>1, <2>2, LoggedType DEF MoveFact, MaybeTime
      <3>. QED  BY <2>1, <3>1, <3>2
    <2>3. CASE f \notin DOMAIN facts
      BY <1>3, <2>1, <2>3, StoredStays DEF MoveFact
    <2>. QED  BY <2>2, <2>3
  <1>4. ASSUME NEW f \in Facts, CheckCandidate(f) PROVE TypeOK'
    <2>1. UNCHANGED <<facts, archived, now, log, call>>
      BY <1>4 DEF CheckCandidate
    <2>2. sweep'.todo \subseteq Facts /\ sweep'.next \in sweep'.todo \cup {None}
      BY <1>4, LifecycleAssumption DEF CheckCandidate
    <2>. QED  BY <2>1, <2>2, StoredStays
  <1>. QED  BY <1>1, <1>2, <1>3, <1>4 DEF Dream

LEMMA CallMoves ==
  ASSUME call \in [Callers -> Call], NEW c \in Callers
  PROVE  /\ Leave(c) => call' \in [Callers -> Call]
         /\ \A s \in {"write", "stamp"} :
              call[c].at \in {"undo", "write", "stamp"} /\ Then(c, s)
                => call' \in [Callers -> Call]
  <1>1. Idle \in Call /\ call[c] \in Call
    BY DEF Call
  <1>2. \A s \in {"write", "stamp"} :
          call[c].at \in {"undo", "write", "stamp"} => [call[c] EXCEPT !.at = s] \in Call
    BY <1>1, CallTypes
  <1>. QED  BY <1>1, <1>2 DEF Leave, Then

LEMMA TypeEdit == TypeOK /\ InFlight /\ Edit => TypeOK'
  <1>. SUFFICES ASSUME TypeOK, InFlight, Edit PROVE TypeOK'
    OBVIOUS
  <1>. USE DEF TypeOK
  <1>0. \A h \in DOMAIN facts : facts[h] \in Row /\ h \in Facts /\ h \notin DOMAIN archived
    BY DEF Stored, RowsOf
  <1>1. ASSUME NEW c \in Callers, NEW f \in Facts, NEW t \in Bounds, ReadFact(c, f, t)
        PROVE  TypeOK'
    <2>1. UNCHANGED <<facts, archived, now, log, sweep>> /\ f \in DOMAIN facts
      BY <1>1 DEF ReadFact
    <2>2. [at |-> "supersede", fact |-> f, to |-> t,
           prior_valid_to |-> facts[f].valid_to, prior_expired_at |-> facts[f].expired_at] \in Call
      BY <1>0, <2>1, LifecycleAssumption DEF Call, Row
    <2>3. call' \in [Callers -> Call]
      BY <1>1, <2>2 DEF ReadFact
    <2>. QED  BY <2>1, <2>3, StoredStays
  <1>2. ASSUME NEW c \in Callers, Supersede(c) PROVE TypeOK'
    <2>1. UNCHANGED <<archived, now, sweep>> /\ call' = [call EXCEPT ![c] = Idle]
          /\ call[c].at = "supersede"
      BY <1>2 DEF Supersede
    <2>2. /\ call[c].fact \in Facts /\ call[c].to \in MaybeTime
          /\ call[c].prior_valid_to \in MaybeTime /\ call[c].prior_expired_at \in MaybeTime
      <3>1. call[c] \in Call /\ Times \subseteq MaybeTime
        BY DEF MaybeTime
      <3>2. /\ call[c].fact \in Facts /\ call[c].to \in Times
            /\ call[c].prior_valid_to \in MaybeTime /\ call[c].prior_expired_at \in MaybeTime
        BY <2>1, <3>1, CallTypes
      <3>. QED  BY <3>1, <3>2
    <2>3. log' \in Seq(Entry)
      BY <1>2, <2>2, LoggedType DEF Supersede
    <2>4. call' \in [Callers -> Call]
      BY <2>1 DEF Call
    <2>5. CASE call[c].fact \in DOMAIN facts
      <3>1. facts' = [facts EXCEPT ![call[c].fact].valid_to = call[c].to]
        BY <1>2, <2>5 DEF Supersede
      <3>2. ASSUME NEW h \in DOMAIN facts
            PROVE  facts'[h] \in Row
                   /\ (facts'[h].expired_at = None => facts[h].expired_at = None)
        <4>1. CASE h = call[c].fact
          BY <1>0, <2>2, <3>1, <4>1 DEF Row
        <4>2. CASE h # call[c].fact
          BY <1>0, <3>1, <4>2
        <4>. QED  BY <4>1, <4>2
      <3>3. Stored'
        BY <2>1, <3>1, <3>2, Rewritten DEF RowsOf
      <3>. QED  BY <2>1, <2>3, <2>4, <3>3
    <2>6. CASE call[c].fact \notin DOMAIN facts
      BY <1>2, <2>1, <2>3, <2>4, <2>6, StoredStays DEF Supersede
    <2>. QED  BY <2>5, <2>6
  <1>3. ASSUME NEW c \in Callers, NEW i \in DOMAIN log, ReadEntry(c, i) PROVE TypeOK'
    <2>0. log[i] \in Entry /\ i \in Nat
      OBVIOUS
    <2>1. [at |-> "undo", fact |-> log[i].fact, entry |-> i] \in Call
      BY <2>0 DEF Call, Entry
    <2>2. call' \in [Callers -> Call] /\ UNCHANGED <<facts, archived, now, log, sweep>>
      BY <1>3, <2>1 DEF ReadEntry
    <2>. QED  BY <2>2, StoredStays
  <1>4. ASSUME NEW c \in Callers, CheckLatest(c) PROVE TypeOK'
    <2>1. UNCHANGED <<facts, archived, now, log, sweep>> /\ call[c].at = "undo"
          /\ (Then(c, "write") \/ Leave(c))
      BY <1>4 DEF CheckLatest, Undoing
    <2>2. call' \in [Callers -> Call]
      BY <2>1, CallMoves
    <2>. QED  BY <2>1, <2>2, StoredStays
  <1>5. ASSUME NEW c \in Callers, WriteBack(c) PROVE TypeOK'
    <2>. DEFINE f == call[c].fact
                e == log[call[c].entry]
    <2>1. UNCHANGED <<archived, now, log, sweep>> /\ call[c].at = "write"
          /\ (Then(c, "stamp") \/ Leave(c))
      BY <1>5 DEF WriteBack, Undoing
    <2>2. call' \in [Callers -> Call]
      BY <2>1, CallMoves
    <2>3. e \in Entry
      BY <2>1 DEF InFlight
    <2>4. CASE f \in DOMAIN facts /\ ~(e.prior_expired_at = None /\ Clash(f))
      <3>1. facts' = [facts EXCEPT ![f].valid_to = e.prior_valid_to,
                                   ![f].expired_at = e.prior_expired_at]
        BY <1>5, <2>4 DEF WriteBack
      <3>. DEFINE r == [valid_to |-> e.prior_valid_to, expired_at |-> e.prior_expired_at,
                        invalid_at |-> facts[f].invalid_at]
      <3>2. r \in Row
        BY <1>0, <2>3, <2>4 DEF Entry, Row
      <3>3. DOMAIN facts \cup {f} = DOMAIN facts /\ f \in Facts \ DOMAIN archived
        BY <1>0, <2>4
      <3>4. facts' = With(facts, f, r)
        <4>1. /\ DOMAIN facts' = DOMAIN facts
              /\ \A h \in DOMAIN facts : h # f => facts'[h] = facts[h]
              /\ facts' = [h \in DOMAIN facts |-> facts'[h]]
          BY <3>1
        <4>2. facts'[f] = r
          BY <1>0, <2>4, <3>1 DEF Row
        <4>. QED  BY <3>3, <4>1, <4>2 DEF With
      <3>5. r.expired_at = None => ~Clash(f)
        BY <2>4
      <3>. HIDE DEF r
      <3>6. Stored'
        BY <2>1, <3>2, <3>3, <3>4, <3>5, Replaced
      <3>. QED  BY <2>1, <2>2, <3>6
    <2>5. CASE f \notin DOMAIN facts \/ (e.prior_expired_at = None /\ Clash(f))
      BY <1>5, <2>1, <2>2, <2>5, StoredStays DEF WriteBack
    <2>. QED  BY <2>4, <2>5
  <1>6. ASSUME NEW c \in Callers, RestoreEntry(c) PROVE TypeOK'
    <2>1. UNCHANGED <<now, log, sweep>> /\ call[c].at = "undo"
          /\ (Then(c, "stamp") \/ Leave(c))
      BY <1>6 DEF RestoreEntry, Undoing
    <2>2. call' \in [Callers -> Call] /\ call[c].fact \in Facts
      BY <2>1, CallMoves, CallTypes
    <2>3. Stored'
      BY <1>6, <2>2, MovedBack, StoredStays DEF RestoreEntry
    <2>. QED  BY <2>1, <2>2, <2>3
  <1>7. ASSUME NEW c \in Callers, Stamp(c) PROVE TypeOK'
    <2>1. UNCHANGED <<facts, archived, now, sweep>> /\ call[c].at = "stamp" /\ Leave(c)
          /\ log' = [log EXCEPT ![call[c].entry].undone = TRUE]
      BY <1>7 DEF Stamp
    <2>2. call' \in [Callers -> Call] /\ log' \in Seq(Entry)
      BY <2>1, CallMoves, Marking DEF InFlight
    <2>. QED  BY <2>1, <2>2, StoredStays
  <1>8. ASSUME NEW f \in Facts, RestoreArchived(f) PROVE TypeOK'
    <2>1. Stored' /\ UNCHANGED <<now, log, call, sweep>>
      BY <1>8, MovedBack DEF RestoreArchived
    <2>. QED  BY <2>1
  <1>9. ASSUME NEW f \in Facts, Unsupersede(f) PROVE TypeOK'
    <2>1. UNCHANGED <<archived, now, log, call, sweep>> /\ f \in DOMAIN facts /\ ~Clash(f)
          /\ facts' = [facts EXCEPT ![f] = NewRow]
      BY <1>9 DEF Unsupersede
    <2>2. NewRow \in Row
      BY DEF NewRow, Row, MaybeTime
    <2>3. facts' = With(facts, f, NewRow)
      BY <2>1 DEF With
    <2>4. Stored'
      BY <1>0, <2>1, <2>2, <2>3, Replaced
    <2>. QED  BY <2>1, <2>4
  <1>. QED  BY <1>1, <1>2, <1>3, <1>4, <1>5, <1>6, <1>7, <1>8, <1>9 DEF Edit

LEMMA TypeStep == TypeOK /\ InFlight /\ [Next]_vars => TypeOK'
  <1>1. ASSUME TypeOK, Tick PROVE TypeOK'
    BY <1>1, StoredStays, LifecycleAssumption DEF TypeOK, Tick, Times
  <1>2. ASSUME TypeOK, Crash PROVE TypeOK'
    <2>1. UNCHANGED <<facts, archived, now, log>> /\ call' = [c \in Callers |-> Idle]
          /\ sweep' = Rest
      BY <1>2 DEF Crash
    <2>2. call' \in [Callers -> Call]
      BY <2>1 DEF Call
    <2>3. sweep'.todo \subseteq Facts /\ sweep'.next \in sweep'.todo \cup {None}
      BY <2>1 DEF Rest
    <2>. QED  BY <1>2, <2>1, <2>2, <2>3, StoredStays DEF TypeOK
  <1>3. ASSUME TypeOK, UNCHANGED vars PROVE TypeOK'
    BY <1>3, StoredStays DEF TypeOK, vars
  <1>. QED  BY <1>1, <1>2, <1>3, TypeIngest, TypeDream, TypeEdit DEF Next
-----------------------------------------------------------------------------
(* The log and the calls *)

\* Entries stay, and only change by being marked; a call is where it was or starts.
LEMMA LogStays ==
  ASSUME TypeOK, InFlight, [Next]_vars
  PROVE  /\ DOMAIN log \subseteq DOMAIN log'
         /\ \A j \in DOMAIN log : /\ log'[j].kind = log[j].kind
                                  /\ log'[j].fact = log[j].fact
                                  /\ log'[j].valid_to = log[j].valid_to
                                  /\ log'[j].prior_valid_to = log[j].prior_valid_to
  <1>0. log \in Seq(Entry)
    BY DEF TypeOK
  <1>1. ASSUME NEW kind, NEW f, NEW to, NEW prior, NEW expired,
               Logged(kind, f, to, prior, expired)
        PROVE  /\ DOMAIN log \subseteq DOMAIN log'
               /\ \A j \in DOMAIN log : log'[j] = log[j]
    BY <1>0, <1>1 DEF Logged
  <1>2. ASSUME NEW c \in Callers, Stamp(c)
        PROVE  /\ DOMAIN log \subseteq DOMAIN log'
               /\ \A j \in DOMAIN log : /\ log'[j].kind = log[j].kind
                                        /\ log'[j].fact = log[j].fact
                                        /\ log'[j].valid_to = log[j].valid_to
                                        /\ log'[j].prior_valid_to = log[j].prior_valid_to
    BY <1>0, <1>2, Marking DEF Stamp, InFlight
  <1>3. CASE MoveFact
    BY <1>1, <1>3 DEF MoveFact
  <1>4. ASSUME NEW c \in Callers, Supersede(c)
        PROVE  /\ DOMAIN log \subseteq DOMAIN log'
               /\ \A j \in DOMAIN log : log'[j] = log[j]
    BY <1>1, <1>4 DEF Supersede
  <1>5. CASE log' = log
    BY <1>5
  <1>6. ~MoveFact /\ (\A c \in Callers : ~Supersede(c) /\ ~Stamp(c)) => log' = log
    BY DEF Next, Tick, Ingest, InsertFact, Doubt, Contradict, Dream, WindowCloseout,
           SelectCandidates, CheckCandidate, Edit, ReadFact, ReadEntry, CheckLatest,
           WriteBack, RestoreEntry, RestoreArchived, Unsupersede, Crash, vars
  <1>. QED  BY <1>2, <1>3, <1>4, <1>5, <1>6

\* A call that goes by the log afterwards went by the same entry before, or begins.
LEMMA CallStays ==
  ASSUME TypeOK, InFlight, [Next]_vars, NEW c \in Callers,
         call'[c].at \in {"undo", "write", "stamp"}
  PROVE  \/ /\ call[c].at \in {"undo", "write", "stamp"}
            /\ call'[c].entry = call[c].entry /\ call'[c].fact = call[c].fact
         \/ /\ call'[c].at = "undo" /\ call'[c].entry \in DOMAIN log
            /\ call'[c].fact = log[call'[c].entry].fact
  <1>. DEFINE Goal == \/ /\ call[c].at \in {"undo", "write", "stamp"}
                         /\ call'[c].entry = call[c].entry /\ call'[c].fact = call[c].fact
                      \/ /\ call'[c].at = "undo" /\ call'[c].entry \in DOMAIN log
                         /\ call'[c].fact = log[call'[c].entry].fact
  <1>0. call \in [Callers -> Call] /\ Idle.at = "idle"
    BY DEF TypeOK, Idle
  <1>1. CASE UNCHANGED call
    BY <1>1
  <1>2. ASSUME NEW d \in Callers, Leave(d) PROVE Goal
    BY <1>0, <1>2 DEF Leave
  <1>3. ASSUME NEW d \in Callers, NEW s \in {"write", "stamp"}, Then(d, s),
               call[d].at \in {"undo", "write", "stamp"}
        PROVE  Goal
    <2>1. CASE d = c
      <3>1. call'[c] = [call[c] EXCEPT !.at = s]
        BY <1>0, <1>3, <2>1 DEF Then
      <3>2. call'[c].entry = call[c].entry /\ call'[c].fact = call[c].fact
        BY <1>0, <1>3, <2>1, <3>1, CallTypes
      <3>. QED  BY <1>3, <2>1, <3>2
    <2>2. CASE d # c
      BY <1>0, <1>3, <2>2 DEF Then
    <2>. QED  BY <2>1, <2>2
  <1>4. ASSUME NEW d \in Callers, NEW f \in Facts, NEW t \in Bounds, ReadFact(d, f, t)
        PROVE  Goal
    BY <1>0, <1>4 DEF ReadFact
  <1>5. ASSUME NEW d \in Callers, NEW i \in DOMAIN log, ReadEntry(d, i) PROVE Goal
    BY <1>0, <1>5 DEF ReadEntry
  <1>6. ASSUME NEW d \in Callers, Supersede(d) \/ Stamp(d) PROVE Goal
    BY <1>2, <1>6 DEF Supersede, Stamp, Leave
  <1>7. ASSUME NEW d \in Callers, CheckLatest(d) \/ WriteBack(d) \/ RestoreEntry(d)
        PROVE  Goal
    BY <1>2, <1>3, <1>7 DEF CheckLatest, WriteBack, RestoreEntry, Undoing
  <1>8. CASE Crash
    BY <1>0, <1>8 DEF Crash
  <1>9. CASE Tick \/ Ingest \/ Dream \/ UNCHANGED vars
    BY <1>1, <1>9 DEF Tick, Ingest, InsertFact, Doubt, Contradict, Dream, WindowCloseout,
                      SelectCandidates, CheckCandidate, MoveFact, vars
  <1>10. ASSUME NEW f \in Facts, RestoreArchived(f) \/ Unsupersede(f) PROVE Goal
    BY <1>1, <1>10 DEF RestoreArchived, Unsupersede
  <1>. QED  BY <1>4, <1>5, <1>6, <1>7, <1>8, <1>9, <1>10 DEF Next, Edit

LEMMA InFlightStep == TypeOK /\ InFlight /\ [Next]_vars => InFlight'
  <1>. SUFFICES ASSUME TypeOK, InFlight, [Next]_vars, NEW c \in Callers,
                       call'[c].at \in {"undo", "write", "stamp"}
                PROVE  /\ call'[c].entry \in DOMAIN log'
                       /\ log'[call'[c].entry].fact = call'[c].fact
    BY DEF InFlight
  <1>1. call'[c].entry \in DOMAIN log /\ log[call'[c].entry].fact = call'[c].fact
    BY CallStays DEF InFlight
  <1>. QED  BY <1>1, LogStays
-----------------------------------------------------------------------------
(* What is in the archive is listed *)

\* What lists a fact goes on listing it, unless it is marked.
LEMMA ListsStay ==
  ASSUME TypeOK, InFlight, [Next]_vars, NEW i \in DOMAIN log, NEW f, Lists(i, f),
         \A c \in Callers : Stamp(c) => call[c].entry # i
  PROVE  Lists(i, f)'
  <1>0. log \in Seq(Entry)
    BY DEF TypeOK
  <1>1. ASSUME NEW kind, NEW h, NEW to, NEW prior, NEW expired,
               Logged(kind, h, to, prior, expired)
        PROVE  log'[i] = log[i]
    BY <1>0, <1>1 DEF Logged
  <1>2. ASSUME NEW c \in Callers, Stamp(c) PROVE log'[i].undone = log[i].undone
    BY <1>0, <1>2, Marking DEF Stamp, InFlight
  <1>3. MoveFact => log'[i].undone = log[i].undone
    BY <1>1 DEF MoveFact
  <1>4. ASSUME NEW c \in Callers, Supersede(c) PROVE log'[i].undone = log[i].undone
    BY <1>1, <1>4 DEF Supersede
  <1>5. ~MoveFact /\ (\A c \in Callers : ~Supersede(c) /\ ~Stamp(c)) => log' = log
    BY DEF Next, Tick, Ingest, InsertFact, Doubt, Contradict, Dream, WindowCloseout,
           SelectCandidates, CheckCandidate, Edit, ReadFact, ReadEntry, CheckLatest,
           WriteBack, RestoreEntry, RestoreArchived, Unsupersede, Crash, vars
  <1>6. log'[i].undone = log[i].undone
    BY <1>2, <1>3, <1>4, <1>5
  <1>. QED  BY <1>6, LogStays DEF Lists

\* Whoever marks an entry of a fact that is in the archive leaves a later one.
LEMMA StampStays ==
  ASSUME TypeOK, InFlight, StampsLeaveOne, [Next]_vars,
         NEW i \in DOMAIN log, NEW f \in DOMAIN archived, Lists(i, f)
  PROVE  \E j \in DOMAIN log' : j >= i /\ Lists(j, f)'
  <1>0. log \in Seq(Entry)
    BY DEF TypeOK
  <1>1. CASE \A c \in Callers : Stamp(c) => call[c].entry # i
    <2>1. Lists(i, f)' /\ i \in DOMAIN log' /\ i \in Int
      BY <1>0, <1>1, ListsStay, LogStays
    <2>. QED  BY <2>1
  <1>2. ASSUME NEW c \in Callers, Stamp(c), call[c].entry = i
        PROVE  \E j \in DOMAIN log' : j >= i /\ Lists(j, f)'
    <2>1. call[c].at = "stamp" /\ call[c].fact = f /\ log' = [log EXCEPT ![i].undone = TRUE]
      BY <1>2 DEF Stamp, InFlight, Lists
    <2>2. PICK j \in DOMAIN log : j > i /\ Lists(j, f)
      BY <1>2, <2>1 DEF StampsLeaveOne, Lists
    <2>3. Lists(j, f)' /\ j \in DOMAIN log' /\ j # i
      BY <1>0, <2>1, <2>2, Marking DEF Lists
    <2>. QED  BY <1>0, <2>2, <2>3
  <1>. QED  BY <1>1, <1>2

\* What comes to the archive is what the sweep moves, and the move is listed last.
LEMMA Arrivals ==
  ASSUME TypeOK, [Next]_vars, NEW f \in DOMAIN archived', f \notin DOMAIN archived
  PROVE  /\ MoveFact /\ f = sweep.next /\ f \in DOMAIN facts
         /\ \E j \in DOMAIN log' : (\A i \in DOMAIN log : j > i) /\ Lists(j, f)'
  <1>1. log \in Seq(Entry)
    BY DEF TypeOK
  <1>2. ~MoveFact => DOMAIN archived' \subseteq DOMAIN archived
    BY DEF Next, Tick, Ingest, InsertFact, Doubt, Contradict, Dream, WindowCloseout,
           SelectCandidates, CheckCandidate, Edit, ReadFact, ReadEntry, CheckLatest,
           WriteBack, RestoreEntry, RestoreArchived, Restore, Supersede, Stamp,
           Unsupersede, Crash, vars, Without
  <1>3. MoveFact
    BY <1>2
  <1>4. /\ sweep.next \in DOMAIN facts /\ archived' = With(archived, sweep.next, facts[sweep.next])
        /\ Logged("fact_archive", sweep.next, None, None, None)
    BY <1>3 DEF MoveFact
  <1>5. f = sweep.next
    BY <1>4 DEF With
  <1>6. DOMAIN log' = DOMAIN log \cup {Len(log) + 1}
        /\ log'[Len(log) + 1].kind = "fact_archive" /\ log'[Len(log) + 1].fact = f
        /\ ~log'[Len(log) + 1].undone /\ \A i \in DOMAIN log : Len(log) + 1 > i
    BY <1>1, <1>4, <1>5 DEF Logged
  <1>. QED  BY <1>3, <1>4, <1>5, <1>6 DEF Lists

LEMMA ListedStep == IInv /\ [Next]_vars => Listed'
  <1>. SUFFICES ASSUME IInv, [Next]_vars, NEW f \in DOMAIN archived'
                PROVE  \E j \in DOMAIN log' : Lists(j, f)'
    BY DEF Listed
  <1>1. CASE f \in DOMAIN archived
    BY <1>1, StampStays DEF IInv, Listed
  <1>2. CASE f \notin DOMAIN archived
    BY <1>2, Arrivals DEF IInv
  <1>. QED  BY <1>1, <1>2

\* A call reaches its last statement with its fact out of the archive.
LEMMA Restored ==
  ASSUME TypeOK, InFlight, [Next]_vars, NEW c \in Callers,
         call[c].at # "stamp", call'[c].at = "stamp", log[call[c].entry].kind = "fact_archive"
  PROVE  call[c].fact \notin DOMAIN archived'
  <1>0. call \in [Callers -> Call] /\ Idle.at = "idle"
    BY DEF TypeOK, Idle
  <1>1. \A d \in Callers : Leave(d) => call'[c] = Idle \/ call'[c] = call[c]
    BY <1>0 DEF Leave
  <1>2. \A d \in Callers, s \in {"write", "stamp"} :
          /\ call[d].at \in {"undo", "write", "stamp"} /\ Then(d, s)
          => call'[c] = call[c] \/ (d = c /\ call'[c].at = s)
    <2>. SUFFICES ASSUME NEW d \in Callers, NEW s \in {"write", "stamp"}, Then(d, s),
                         call[d].at \in {"undo", "write", "stamp"}
                  PROVE  call'[c] = call[c] \/ (d = c /\ call'[c].at = s)
      OBVIOUS
    <2>1. CASE d # c
      BY <1>0, <2>1 DEF Then
    <2>2. CASE d = c
      <3>1. call'[c] = [call[c] EXCEPT !.at = s]
        BY <1>0, <2>2 DEF Then
      <3>. QED  BY <1>0, <2>2, <3>1, CallTypes
    <2>. QED  BY <2>1, <2>2
  <1>3. ASSUME NEW d \in Callers, CheckLatest(d) \/ Supersede(d) \/ Stamp(d)  PROVE FALSE
    BY <1>0, <1>1, <1>2, <1>3 DEF CheckLatest, Supersede, Stamp, Undoing, Leave
  <1>4. ASSUME NEW d \in Callers, WriteBack(d) PROVE FALSE
    BY <1>0, <1>1, <1>2, <1>4 DEF WriteBack, Undoing
  <1>5. ASSUME NEW d \in Callers, NEW f \in Facts, NEW t \in Bounds, ReadFact(d, f, t)
        PROVE  FALSE
    BY <1>0, <1>5 DEF ReadFact
  <1>6. ASSUME NEW d \in Callers, NEW i \in DOMAIN log, ReadEntry(d, i) PROVE FALSE
    BY <1>0, <1>6 DEF ReadEntry
  <1>7. ASSUME NEW d \in Callers, RestoreEntry(d) PROVE call[c].fact \notin DOMAIN archived'
    <2>1. d = c /\ Then(d, "stamp") /\ Restore(call[c].fact)
      BY <1>0, <1>1, <1>2, <1>7 DEF RestoreEntry, Undoing
    <2>. QED  BY <2>1 DEF Restore, Without
  <1>8. CASE Crash
    BY <1>0, <1>8 DEF Crash
  <1>9. ~UNCHANGED call
    OBVIOUS
  <1>. QED  BY <1>3, <1>4, <1>5, <1>6, <1>7, <1>8, <1>9
            DEF Next, Tick, Ingest, InsertFact, Doubt, Contradict, Dream, WindowCloseout,
                SelectCandidates, CheckCandidate, MoveFact, Edit, RestoreArchived,
                Unsupersede, vars

LEMMA StampsLeaveOneStep == IInv /\ [Next]_vars => StampsLeaveOne'
  <1>. SUFFICES ASSUME IInv, [Next]_vars, NEW c \in Callers, call'[c].at = "stamp",
                       log'[call'[c].entry].kind = "fact_archive",
                       NEW f \in DOMAIN archived', f = call'[c].fact
                PROVE  \E j \in DOMAIN log' : j > call'[c].entry /\ Lists(j, f)'
    BY DEF StampsLeaveOne, Lists
  <1>. USE DEF IInv
  <1>0. log \in Seq(Entry) /\ log' \in Seq(Entry)
    BY TypeStep DEF TypeOK
  <1>1. /\ call[c].at \in {"undo", "write", "stamp"}
        /\ call'[c].entry = call[c].entry /\ call[c].fact = f
    BY CallStays
  <1>2. call[c].entry \in DOMAIN log /\ log[call[c].entry].kind = "fact_archive"
    BY <1>1, LogStays DEF InFlight
  <1>3. call[c].at = "stamp"
    BY <1>1, <1>2, Restored
  <1>4. CASE f \in DOMAIN archived
    <2>1. PICK i \in DOMAIN log : i > call[c].entry /\ Lists(i, f)
      BY <1>1, <1>2, <1>3, <1>4 DEF StampsLeaveOne
    <2>2. PICK j \in DOMAIN log' : j >= i /\ Lists(j, f)'
      BY <1>4, <2>1, StampStays
    <2>3. j \in Int /\ i \in Int /\ call[c].entry \in Int
      BY <1>0, <1>2
    <2>. QED  BY <1>1, <2>1, <2>2, <2>3
  <1>5. CASE f \notin DOMAIN archived
    BY <1>1, <1>2, <1>5, Arrivals
  <1>. QED  BY <1>4, <1>5
-----------------------------------------------------------------------------
(* Only what has lapsed is archived *)

\* A row past its grace period stays past it.
LEMMA GraceStays ==
  ASSUME TypeOK, [Next]_vars, NEW r \in Row, NEW e, PastGrace(r), e = r.expired_at
  PROVE  e # None /\ e < now' - Grace
  <1>1. now \in Int /\ now' \in Int /\ now' >= now
    <2>1. now \in Int
      BY LifecycleAssumption DEF TypeOK, Times
    <2>2. now' = now \/ now' = now + 1
      BY DEF Next, Tick, Ingest, InsertFact, Doubt, Contradict, Dream, WindowCloseout,
             SelectCandidates, CheckCandidate, MoveFact, Edit, ReadFact, Supersede,
             ReadEntry, CheckLatest, WriteBack, RestoreEntry, RestoreArchived, Stamp,
             Unsupersede, Crash, vars
    <2>. QED  BY <2>1, <2>2
  <1>2. e # None /\ e \in Int /\ e < now - Grace
    BY LifecycleAssumption DEF PastGrace, Row, MaybeTime, Times
  <1>. QED  BY <1>1, <1>2, LifecycleAssumption

\* No fact is lost.
LEMMA NoneLost ==
  ASSUME Stored, [Next]_vars
  PROVE  DOMAIN facts \cup DOMAIN archived \subseteq DOMAIN facts' \cup DOMAIN archived'
  <1>1. ASSUME NEW f, Restore(f)
        PROVE  DOMAIN facts \cup DOMAIN archived \subseteq DOMAIN facts' \cup DOMAIN archived'
    BY <1>1 DEF Restore, With, Without
  <1>2. ASSUME NEW c \in Callers, RestoreEntry(c)
        PROVE  DOMAIN facts \cup DOMAIN archived \subseteq DOMAIN facts' \cup DOMAIN archived'
    BY <1>1, <1>2 DEF RestoreEntry
  <1>3. ASSUME NEW f \in Facts, RestoreArchived(f)
        PROVE  DOMAIN facts \cup DOMAIN archived \subseteq DOMAIN facts' \cup DOMAIN archived'
    BY <1>1, <1>3 DEF RestoreArchived
  <1>4. CASE MoveFact
    BY <1>4 DEF MoveFact, With, Without
  <1>5. ASSUME NEW f \in Facts, InsertFact(f)
        PROVE  DOMAIN facts \cup DOMAIN archived \subseteq DOMAIN facts' \cup DOMAIN archived'
    BY <1>5 DEF InsertFact, With
  <1>. QED  BY <1>2, <1>3, <1>4, <1>5
            DEF Next, Tick, Ingest, Doubt, Contradict, Dream, WindowCloseout,
                SelectCandidates, CheckCandidate, Edit, ReadFact, Supersede,
                ReadEntry, CheckLatest, WriteBack, Stamp, Unsupersede, Crash, vars

\* Whoever writes the expiry of a candidate, or brings one back, is on record.
LEMMA Touched ==
  ASSUME TypeOK, CandidatesLapsed, [Next]_vars, ~SelectCandidates,
         NEW f \in sweep.todo \cap DOMAIN facts'
  PROVE  \/ f \in rewritten'
         \/ f \in DOMAIN facts /\ facts'[f].expired_at = facts[f].expired_at
  <1>. DEFINE Goal == \/ f \in rewritten'
                      \/ f \in DOMAIN facts /\ facts'[f].expired_at = facts[f].expired_at
  <1>0. \A h \in DOMAIN facts : facts[h] \in Row
    BY DEF TypeOK, Stored, RowsOf
  <1>1. ASSUME NEW h, Restore(h) PROVE Goal
    BY <1>1 DEF Restore, With, MarkRewritten
  <1>2. ASSUME NEW c \in Callers, RestoreEntry(c) PROVE Goal
    BY <1>1, <1>2 DEF RestoreEntry
  <1>3. ASSUME NEW h \in Facts, RestoreArchived(h) PROVE Goal
    BY <1>1, <1>3 DEF RestoreArchived
  <1>4. CASE MoveFact
    BY <1>4 DEF MoveFact, Without
  <1>5. ASSUME NEW h \in Facts, InsertFact(h) PROVE Goal
    BY <1>5 DEF InsertFact, With, CandidatesLapsed
  <1>6. ASSUME NEW h \in Facts, Contradict(h) PROVE Goal
    BY <1>6 DEF Contradict, MarkRewritten
  <1>7. CASE WindowCloseout
    BY <1>7 DEF WindowCloseout, MarkRewritten
  <1>8. ASSUME NEW c \in Callers, Supersede(c) PROVE Goal
    <2>1. facts' = facts \/ facts' = [facts EXCEPT ![call[c].fact].valid_to = call[c].to]
      BY <1>8 DEF Supersede
    <2>. QED  BY <1>0, <2>1 DEF Row
  <1>9. ASSUME NEW c \in Callers, WriteBack(c) PROVE Goal
    BY <1>9 DEF WriteBack, MarkRewritten
  <1>10. ASSUME NEW h \in Facts, Unsupersede(h) PROVE Goal
    BY <1>10 DEF Unsupersede, MarkRewritten
  <1>. QED  BY <1>2, <1>3, <1>4, <1>5, <1>6, <1>7, <1>8, <1>9, <1>10
            DEF Next, Tick, Ingest, Doubt, Dream, CheckCandidate, Edit, ReadFact,
                ReadEntry, CheckLatest, Stamp, Crash, vars

\* The record and the candidates, while no sweep selects.
LEMMA Recorded ==
  ASSUME [Next]_vars, ~SelectCandidates
  PROVE  rewritten \subseteq rewritten' /\ sweep'.todo \subseteq sweep.todo
  <1>1. ASSUME NEW f, Restore(f) PROVE rewritten \subseteq rewritten'
    BY <1>1 DEF Restore, MarkRewritten
  <1>2. ASSUME NEW f \in Facts, CheckCandidate(f) PROVE sweep'.todo \subseteq sweep.todo
    BY <1>2 DEF CheckCandidate
  <1>3. rewritten \subseteq rewritten'
    BY <1>1 DEF Next, Tick, Ingest, InsertFact, Doubt, Contradict, Dream, WindowCloseout,
                CheckCandidate, MoveFact, Edit, ReadFact, Supersede, ReadEntry,
                CheckLatest, WriteBack, RestoreEntry, RestoreArchived, Stamp,
                Unsupersede, Crash, vars, MarkRewritten
  <1>4. MoveFact \/ Crash => sweep'.todo \subseteq sweep.todo
    BY DEF MoveFact, Crash, Rest
  <1>5. sweep'.todo \subseteq sweep.todo
    BY <1>2, <1>4 DEF Next, Tick, Ingest, InsertFact, Doubt, Contradict, Dream,
                WindowCloseout, Edit, ReadFact, Supersede, ReadEntry, CheckLatest, WriteBack,
                RestoreEntry, RestoreArchived, Stamp, Unsupersede, vars
  <1>. QED  BY <1>3, <1>5

LEMMA CandidatesStep == IInv /\ [Next]_vars => CandidatesLapsed'
  <1>. SUFFICES ASSUME IInv, [Next]_vars PROVE CandidatesLapsed'
    OBVIOUS
  <1>. USE DEF IInv
  <1>1. CASE SelectCandidates
    BY <1>1 DEF SelectCandidates, CandidatesLapsed, PastGrace
  <1>2. CASE ~SelectCandidates
    <2>1. sweep'.todo \subseteq DOMAIN facts' \cup DOMAIN archived'
      BY <1>2, Recorded, NoneLost DEF CandidatesLapsed, TypeOK
    <2>2. ASSUME NEW f \in sweep'.todo \cap DOMAIN facts', f \notin rewritten'
          PROVE  facts'[f].expired_at # None /\ facts'[f].expired_at < now' - Grace
      <3>1. f \in sweep.todo /\ f \notin rewritten
        BY <1>2, <2>2, Recorded
      <3>2. f \in DOMAIN facts /\ facts'[f].expired_at = facts[f].expired_at
        BY <1>2, <2>2, <3>1, Touched
      <3>3. PastGrace(facts[f]) /\ facts[f] \in Row
        BY <3>1, <3>2 DEF CandidatesLapsed, TypeOK, Stored, RowsOf
      <3>. QED  BY <3>2, <3>3, GraceStays
    <2>. QED  BY <2>1, <2>2 DEF CandidatesLapsed, PastGrace
  <1>. QED  BY <1>1, <1>2

LEMMA ArchivedLapsedStep == IInv /\ [Next]_vars => ArchivedLapsed'
  <1>. SUFFICES ASSUME IInv, [Next]_vars, NEW f \in DOMAIN archived', f \notin rewritten'
                PROVE  archived'[f].expired_at # None /\ archived'[f].expired_at < now' - Grace
    BY DEF ArchivedLapsed, PastGrace
  <1>. USE DEF IInv
  <1>1. CASE f \in DOMAIN archived
    <2>0. ASSUME NEW h, Restore(h) PROVE archived'[f] = archived[f]
      BY <1>1, <2>0 DEF Restore, Without
    <2>1. archived'[f] = archived[f]
      <3>1. CASE MoveFact
        BY <1>1, <3>1 DEF MoveFact, With, TypeOK, Stored
      <3>2. CASE \E c \in Callers : RestoreEntry(c)
        BY <2>0, <3>2 DEF RestoreEntry
      <3>3. CASE \E h \in Facts : RestoreArchived(h)
        BY <2>0, <3>3 DEF RestoreArchived
      <3>. QED  BY <3>1, <3>2, <3>3
                DEF Next, Tick, Ingest, InsertFact, Doubt, Contradict, Dream, WindowCloseout,
                    SelectCandidates, CheckCandidate, Edit, ReadFact, Supersede, ReadEntry,
                    CheckLatest, WriteBack, Stamp, Unsupersede, Crash, vars
    <2>2. f \notin rewritten
      BY <1>1, Recorded DEF SelectCandidates
    <2>3. PastGrace(archived[f]) /\ archived[f] \in Row
      BY <1>1, <2>2 DEF ArchivedLapsed, TypeOK, Stored, RowsOf
    <2>. QED  BY <2>1, <2>3, GraceStays
  <1>2. CASE f \notin DOMAIN archived
    <2>1. MoveFact /\ f = sweep.next /\ f \in DOMAIN facts
      BY <1>2, Arrivals
    <2>2. archived'[f] = facts[f] /\ f \in sweep.todo /\ f \notin rewritten
      BY <2>1, LifecycleAssumption DEF MoveFact, With, TypeOK
    <2>3. PastGrace(facts[f]) /\ facts[f] \in Row
      BY <2>1, <2>2 DEF CandidatesLapsed, TypeOK, Stored, RowsOf
    <2>. QED  BY <2>2, <2>3, GraceStays
  <1>. QED  BY <1>1, <1>2
-----------------------------------------------------------------------------
(* Bounds are accounted for *)

\* A supersede whose undoing has written the row, and has yet to mark the entry.
TakenBack(i) == \E c \in Callers : call[c].at = "stamp" /\ call[c].entry = i

\* The supersedes of a fact that count, those that bound it at t, and those that found
\* it bounded at t.
Supersedes(f) == {i \in DOMAIN log : /\ log[i].kind = "fact_supersede" /\ log[i].fact = f
                                     /\ ~log[i].undone /\ ~TakenBack(i)}
SetTo(f, t)   == {i \in Supersedes(f) : log[i].valid_to = t}
SetFrom(f, t) == {i \in Supersedes(f) : log[i].prior_valid_to = t}

Bound(f) == IF f \in DOMAIN facts THEN facts[f].valid_to
            ELSE IF f \in DOMAIN archived THEN archived[f].valid_to ELSE None
AtBound(f, t) == IF Bound(f) = t THEN 1 ELSE 0

\* Each supersede put a bound t in, and each supersede away from t, and the row that has
\* it now, took one of them: as flow into t and out of it.  That some entry lists the
\* bound of the row is not inductive, as undoing brings back a bound set earlier, whose
\* entries may have been undone one for another.
Accounted ==
  \A f \in Facts \ overlapped, t \in Times :
    Cardinality(SetFrom(f, t)) + AtBound(f, t) <= Cardinality(SetTo(f, t))

\* Calls on a fact overlap, or the fact is marked.
Alone ==
  \A c, d \in Callers :
    /\ call[c] # Idle /\ call[d] # Idle
    /\ call[c].fact = call[d].fact /\ call[c].fact \notin overlapped
    => c = d

\* And what a call has read is so still.
Undisturbed ==
  \A c \in Callers : call[c] # Idle /\ call[c].fact \notin overlapped =>
    /\ call[c].at = "supersede" =>
         /\ call[c].fact \in DOMAIN facts
         /\ call[c].prior_valid_to = facts[call[c].fact].valid_to
    /\ call[c].at \in {"undo", "write", "stamp"} => ~log[call[c].entry].undone
    /\ call[c].at = "write" =>
         /\ call[c].fact \in DOMAIN facts
         /\ log[call[c].entry].valid_to = facts[call[c].fact].valid_to

\* The steps that bound a row, and take a bound back.
Bounding(f) == \E c \in Callers : (Supersede(c) \/ WriteBack(c)) /\ call[c].fact = f

LEMMA SetsFinite ==
  ASSUME log \in Seq(Entry), NEW f, NEW t
  PROVE  IsFiniteSet(SetTo(f, t)) /\ IsFiniteSet(SetFrom(f, t))
  <1>1. IsFiniteSet(1..Len(log)) /\ DOMAIN log = 1..Len(log)
    BY FS_Interval
  <1>2. SetTo(f, t) \in SUBSET (1..Len(log)) /\ SetFrom(f, t) \in SUBSET (1..Len(log))
    BY <1>1 DEF SetTo, SetFrom, Supersedes
  <1>. QED  BY <1>1, <1>2, FS_Subset

\* Where the row of a fact is, and its bound, change only so.
LEMMA RowKept ==
  ASSUME TypeOK, [Next]_vars, NEW f \in Facts, ~Bounding(f)
  PROVE  \/ /\ f \in DOMAIN facts' <=> f \in DOMAIN facts
            /\ f \in DOMAIN facts => facts'[f].valid_to = facts[f].valid_to
            /\ f \in DOMAIN archived' <=> f \in DOMAIN archived
            /\ f \in DOMAIN archived => archived'[f] = archived[f]
         \/ /\ MoveFact /\ f = sweep.next /\ f \in DOMAIN facts \ DOMAIN facts'
            /\ f \in DOMAIN archived' /\ archived'[f] = facts[f]
         \/ /\ f \in DOMAIN archived \ DOMAIN facts
            /\ f \in DOMAIN facts' /\ facts'[f] = archived[f]
         \/ Unsupersede(f) /\ f \in DOMAIN facts' /\ facts'[f] = NewRow
         \/ /\ f \notin DOMAIN facts \cup DOMAIN archived
            /\ f \in DOMAIN facts' /\ facts'[f] = NewRow
  <1>. DEFINE Same == /\ f \in DOMAIN facts' <=> f \in DOMAIN facts
                      /\ f \in DOMAIN facts => facts'[f].valid_to = facts[f].valid_to
                      /\ f \in DOMAIN archived' <=> f \in DOMAIN archived
                      /\ f \in DOMAIN archived => archived'[f] = archived[f]
              Brought == /\ f \in DOMAIN archived \ DOMAIN facts
                         /\ f \in DOMAIN facts' /\ facts'[f] = archived[f]
  <1>0. /\ \A h \in DOMAIN facts : facts[h] \in Row
        /\ DOMAIN facts \cap DOMAIN archived = {}
    BY DEF TypeOK, Stored, RowsOf
  <1>1. CASE UNCHANGED <<facts, archived>>
    BY <1>1
  <1>2. ASSUME NEW h, Restore(h) PROVE Same \/ Brought
    BY <1>0, <1>2 DEF Restore, With, Without
  <1>3. ASSUME NEW h \in Facts, InsertFact(h)
        PROVE  \/ Same
               \/ /\ f \notin DOMAIN facts \cup DOMAIN archived
                  /\ f \in DOMAIN facts' /\ facts'[f] = NewRow
    BY <1>3 DEF InsertFact, With
  <1>4. ASSUME NEW h \in Facts, Contradict(h) PROVE Same
    BY <1>0, <1>4 DEF Contradict, Row
  <1>5. CASE WindowCloseout
    BY <1>0, <1>5 DEF WindowCloseout, Row
  <1>6. CASE MoveFact
    <2>1. CASE sweep.next \in DOMAIN facts
      <3>1. archived' = With(archived, sweep.next, facts[sweep.next])
            /\ facts' = Without(facts, sweep.next)
        BY <1>6, <2>1 DEF MoveFact
      <3>2. CASE f = sweep.next
        BY <1>6, <2>1, <3>1, <3>2 DEF With, Without
      <3>3. CASE f # sweep.next
        BY <3>1, <3>3 DEF With, Without
      <3>. QED  BY <3>2, <3>3
    <2>2. CASE sweep.next \notin DOMAIN facts
      BY <1>1, <1>6, <2>2 DEF MoveFact
    <2>. QED  BY <2>1, <2>2
  <1>7. ASSUME NEW c \in Callers, Supersede(c) PROVE Same
    <2>1. call[c].fact # f
      BY <1>7 DEF Bounding
    <2>. QED  BY <1>7, <2>1 DEF Supersede
  <1>8. ASSUME NEW c \in Callers, WriteBack(c) PROVE Same
    <2>1. call[c].fact # f
      BY <1>8 DEF Bounding
    <2>. QED  BY <1>8, <2>1 DEF WriteBack
  <1>9. ASSUME NEW c \in Callers, RestoreEntry(c) PROVE Same \/ Brought
    BY <1>2, <1>9 DEF RestoreEntry
  <1>10. ASSUME NEW h \in Facts, RestoreArchived(h) PROVE Same \/ Brought
    BY <1>2, <1>10 DEF RestoreArchived
  <1>11. ASSUME NEW h \in Facts, Unsupersede(h)
         PROVE  Same \/ (Unsupersede(f) /\ f \in DOMAIN facts' /\ facts'[f] = NewRow)
    <2>1. h \in DOMAIN facts /\ facts' = [facts EXCEPT ![h] = NewRow] /\ archived' = archived
      BY <1>11 DEF Unsupersede
    <2>2. CASE h = f
      BY <1>11, <2>1, <2>2
    <2>3. CASE h # f
      BY <2>1, <2>3
    <2>. QED  BY <2>2, <2>3
  <1>. HIDE DEF Same, Brought
  <1>12. UNCHANGED <<facts, archived>>
          \/ (\E h \in Facts : InsertFact(h) \/ Contradict(h) \/ RestoreArchived(h) \/ Unsupersede(h))
          \/ WindowCloseout \/ MoveFact
          \/ (\E c \in Callers : Supersede(c) \/ WriteBack(c) \/ RestoreEntry(c))
    BY DEF Next, Tick, Ingest, Doubt, Dream, SelectCandidates, CheckCandidate, Edit, ReadFact,
           ReadEntry, CheckLatest, Stamp, Crash, vars
  <1>. QED  BY <1>1, <1>3, <1>4, <1>5, <1>6, <1>7, <1>8, <1>9, <1>10, <1>11, <1>12
            DEF Same, Brought
-----------------------------------------------------------------------------
\* The log grows by what a sweep or a caller adds, and is marked by who finishes undoing.
LEMMA LogSteps ==
  ASSUME TypeOK, InFlight, [Next]_vars
  PROVE  \/ log' = log
         \/ /\ UNCHANGED call /\ Len(log) + 1 \notin DOMAIN log
            /\ DOMAIN log' = DOMAIN log \cup {Len(log) + 1}
            /\ \A j \in DOMAIN log : log'[j] = log[j]
            /\ log'[Len(log) + 1].kind = "fact_archive"
         \/ \E c \in Callers :
              /\ Supersede(c) /\ Len(log) + 1 \notin DOMAIN log
              /\ DOMAIN log' = DOMAIN log \cup {Len(log) + 1}
              /\ \A j \in DOMAIN log : log'[j] = log[j]
              /\ log'[Len(log) + 1] =
                   [kind |-> "fact_supersede", fact |-> call[c].fact,
                    valid_to |-> call[c].to, undone |-> FALSE,
                    prior_valid_to |-> call[c].prior_valid_to,
                    prior_expired_at |-> call[c].prior_expired_at]
         \/ \E c \in Callers :
              /\ Stamp(c) /\ DOMAIN log' = DOMAIN log
              /\ \A j \in DOMAIN log : log'[j].undone = (j = call[c].entry \/ log[j].undone)
  <1>0. log \in Seq(Entry)
    BY DEF TypeOK
  <1>2. ASSUME NEW c \in Callers, Supersede(c)
        PROVE  /\ DOMAIN log' = DOMAIN log \cup {Len(log) + 1} /\ Len(log) + 1 \notin DOMAIN log
               /\ \A j \in DOMAIN log : log'[j] = log[j]
               /\ log'[Len(log) + 1] =
                    [kind |-> "fact_supersede", fact |-> call[c].fact,
                     valid_to |-> call[c].to, undone |-> FALSE,
                     prior_valid_to |-> call[c].prior_valid_to,
                     prior_expired_at |-> call[c].prior_expired_at]
    <2>1. Logged("fact_supersede", call[c].fact, call[c].to,
                 call[c].prior_valid_to, call[c].prior_expired_at)
      BY <1>2 DEF Supersede
    <2>. QED  BY <1>0, <2>1 DEF Logged
  <1>3. MoveFact => \/ log' = log
                    \/ /\ UNCHANGED call
                       /\ DOMAIN log' = DOMAIN log \cup {Len(log) + 1}
                       /\ Len(log) + 1 \notin DOMAIN log
                       /\ \A j \in DOMAIN log : log'[j] = log[j]
                       /\ log'[Len(log) + 1].kind = "fact_archive"
    <2>. SUFFICES ASSUME MoveFact, sweep.next \in DOMAIN facts
                  PROVE  /\ UNCHANGED call
                         /\ DOMAIN log' = DOMAIN log \cup {Len(log) + 1}
                         /\ Len(log) + 1 \notin DOMAIN log
                         /\ \A j \in DOMAIN log : log'[j] = log[j]
                         /\ log'[Len(log) + 1].kind = "fact_archive"
      BY DEF MoveFact
    <2>1. Logged("fact_archive", sweep.next, None, None, None) /\ UNCHANGED call
      BY DEF MoveFact
    <2>2. log'[Len(log) + 1] = [kind |-> "fact_archive", fact |-> sweep.next,
                                valid_to |-> None, undone |-> FALSE,
                                prior_valid_to |-> None, prior_expired_at |-> None]
          /\ DOMAIN log' = DOMAIN log \cup {Len(log) + 1} /\ Len(log) + 1 \notin DOMAIN log
          /\ \A j \in DOMAIN log : log'[j] = log[j]
      BY <1>0, <2>1 DEF Logged
    <2>. QED  BY <2>1, <2>2
  <1>4. ASSUME NEW c \in Callers, Stamp(c)
        PROVE  /\ DOMAIN log' = DOMAIN log
               /\ \A j \in DOMAIN log : log'[j].undone = (j = call[c].entry \/ log[j].undone)
    <2>1. call[c].entry \in DOMAIN log /\ log' = [log EXCEPT ![call[c].entry].undone = TRUE]
      BY <1>4 DEF Stamp, InFlight
    <2>. QED  BY <1>0, <2>1, Marking
  <1>5. ~MoveFact /\ (\A c \in Callers : ~Supersede(c) /\ ~Stamp(c)) => log' = log
    BY DEF Next, Tick, Ingest, InsertFact, Doubt, Contradict, Dream, WindowCloseout,
           SelectCandidates, CheckCandidate, Edit, ReadFact, ReadEntry, CheckLatest,
           WriteBack, RestoreEntry, RestoreArchived, Unsupersede, Crash, vars
  <1>. QED  BY <1>2, <1>3, <1>4, <1>5

\* A step of one caller leaves the others where they are; only the end of the process
\* stops them all, and it marks the facts they were about.
LEMMA CallSteps ==
  ASSUME TypeOK, [Next]_vars
  PROVE  \/ UNCHANGED call
         \/ /\ \A c \in Callers : call'[c] = Idle
            /\ \A c \in Callers : call[c] # Idle => call[c].fact \in overlapped'
            /\ UNCHANGED <<log, facts>>
         \/ \E c \in Callers :
              /\ \A d \in Callers \ {c} : call'[d] = call[d]
              /\ \/ /\ \E f \in Facts, t \in Bounds : ReadFact(c, f, t)
                    /\ call[c] = Idle /\ call'[c].at = "supersede" /\ call'[c] # Idle
                    /\ MarkOverlap(call'[c].fact, Callers)
                    /\ call'[c].fact \in DOMAIN facts
                    /\ call'[c].prior_valid_to = facts[call'[c].fact].valid_to
                 \/ /\ \E i \in DOMAIN log : ReadEntry(c, i)
                    /\ call[c] = Idle /\ call'[c].at = "undo" /\ call'[c] # Idle
                    /\ MarkOverlap(call'[c].fact, Callers)
                    /\ call'[c].entry \in DOMAIN log /\ ~log[call'[c].entry].undone
                 \/ (Supersede(c) \/ Stamp(c)) /\ call[c] # Idle /\ call'[c] = Idle
                 \/ /\ CheckLatest(c) \/ WriteBack(c) \/ RestoreEntry(c)
                    /\ call[c] # Idle
                    /\ \/ call'[c] = Idle
                       \/ /\ call'[c].fact = call[c].fact /\ call'[c].entry = call[c].entry
                          /\ CheckLatest(c) => call'[c].at = "write"
                          /\ ~CheckLatest(c) => call'[c].at = "stamp"
  <1>. DEFINE Goal(c) ==
              /\ \A d \in Callers \ {c} : call'[d] = call[d]
              /\ \/ /\ \E f \in Facts, t \in Bounds : ReadFact(c, f, t)
                    /\ call[c] = Idle /\ call'[c].at = "supersede" /\ call'[c] # Idle
                    /\ MarkOverlap(call'[c].fact, Callers)
                    /\ call'[c].fact \in DOMAIN facts
                    /\ call'[c].prior_valid_to = facts[call'[c].fact].valid_to
                 \/ /\ \E i \in DOMAIN log : ReadEntry(c, i)
                    /\ call[c] = Idle /\ call'[c].at = "undo" /\ call'[c] # Idle
                    /\ MarkOverlap(call'[c].fact, Callers)
                    /\ call'[c].entry \in DOMAIN log /\ ~log[call'[c].entry].undone
                 \/ (Supersede(c) \/ Stamp(c)) /\ call[c] # Idle /\ call'[c] = Idle
                 \/ /\ CheckLatest(c) \/ WriteBack(c) \/ RestoreEntry(c)
                    /\ call[c] # Idle
                    /\ \/ call'[c] = Idle
                       \/ /\ call'[c].fact = call[c].fact /\ call'[c].entry = call[c].entry
                          /\ CheckLatest(c) => call'[c].at = "write"
                          /\ ~CheckLatest(c) => call'[c].at = "stamp"
  <1>0. call \in [Callers -> Call] /\ Idle.at = "idle"
    BY DEF TypeOK, Idle
  <1>1. ASSUME NEW c \in Callers, NEW f \in Facts, NEW t \in Bounds, ReadFact(c, f, t)
        PROVE  Goal(c)
    <2>1. call'[c] = [at |-> "supersede", fact |-> f, to |-> t,
                      prior_valid_to |-> facts[f].valid_to,
                      prior_expired_at |-> facts[f].expired_at]
          /\ \A d \in Callers \ {c} : call'[d] = call[d]
      BY <1>0, <1>1 DEF ReadFact
    <2>2. call'[c].at = "supersede" /\ call'[c].fact = f
          /\ call'[c].prior_valid_to = facts[f].valid_to
      BY <2>1
    <2>3. call'[c] # Idle
      BY <1>0, <2>2
    <2>. QED  BY <1>1, <2>1, <2>2, <2>3 DEF ReadFact
  <1>2. ASSUME NEW c \in Callers, NEW i \in DOMAIN log, ReadEntry(c, i) PROVE Goal(c)
    <2>1. call'[c] = [at |-> "undo", fact |-> log[i].fact, entry |-> i]
          /\ \A d \in Callers \ {c} : call'[d] = call[d]
      BY <1>0, <1>2 DEF ReadEntry
    <2>2. call'[c].at = "undo" /\ call'[c].fact = log[i].fact /\ call'[c].entry = i
      BY <2>1
    <2>3. call'[c] # Idle
      BY <1>0, <2>2
    <2>. QED  BY <1>2, <2>1, <2>2, <2>3 DEF ReadEntry
  <1>3. ASSUME NEW c \in Callers, Supersede(c) \/ Stamp(c) PROVE Goal(c)
    BY <1>0, <1>3 DEF Supersede, Stamp, Leave
  <1>4. ASSUME NEW c \in Callers, NEW s \in {"write", "stamp"}, Then(c, s),
               call[c].at \in {"undo", "write", "stamp"}
        PROVE  /\ \A d \in Callers \ {c} : call'[d] = call[d]
               /\ call'[c].fact = call[c].fact /\ call'[c].entry = call[c].entry
               /\ call'[c].at = s
    <2>1. call'[c] = [call[c] EXCEPT !.at = s] /\ \A d \in Callers \ {c} : call'[d] = call[d]
      BY <1>0, <1>4 DEF Then
    <2>. QED  BY <1>0, <1>4, <2>1, CallTypes
  <1>5. ASSUME NEW c \in Callers, Leave(c)
        PROVE  call'[c] = Idle /\ \A d \in Callers \ {c} : call'[d] = call[d]
    BY <1>0, <1>5 DEF Leave
  <1>6. ASSUME NEW c \in Callers, CheckLatest(c) PROVE Goal(c)
    <2>1. call[c].at = "undo" /\ (Then(c, "write") \/ Leave(c))
      BY <1>6 DEF CheckLatest, Undoing
    <2>. QED  BY <1>0, <1>4, <1>5, <1>6, <2>1
  <1>7. ASSUME NEW c \in Callers, WriteBack(c) PROVE Goal(c)
    <2>1. ~CheckLatest(c)
      BY <1>7 DEF WriteBack, CheckLatest, Undoing
    <2>. QED  BY <1>0, <1>4, <1>5, <1>7, <2>1 DEF WriteBack, Undoing
  <1>8. ASSUME NEW c \in Callers, RestoreEntry(c) PROVE Goal(c)
    <2>1. ~CheckLatest(c)
      BY <1>8 DEF RestoreEntry, CheckLatest, Undoing
    <2>. QED  BY <1>0, <1>4, <1>5, <1>8, <2>1 DEF RestoreEntry, Undoing
  <1>9. CASE Crash
    BY <1>9 DEF Crash
  <1>. HIDE DEF Goal
  <1>10. \/ UNCHANGED call \/ Crash
         \/ \E c \in Callers :
              \/ \E f \in Facts, t \in Bounds : ReadFact(c, f, t)
              \/ \E i \in DOMAIN log : ReadEntry(c, i)
              \/ Supersede(c) \/ Stamp(c) \/ CheckLatest(c) \/ WriteBack(c) \/ RestoreEntry(c)
    BY DEF Next, Tick, Ingest, InsertFact, Doubt, Contradict, Dream, WindowCloseout,
           SelectCandidates, CheckCandidate, MoveFact, Edit, RestoreArchived, Unsupersede, vars
  <1>11. UNCHANGED call \/ Crash \/ \E c \in Callers : Goal(c)
    BY <1>1, <1>2, <1>3, <1>6, <1>7, <1>8, <1>10
  <1>. QED  BY <1>9, <1>11 DEF Goal
-----------------------------------------------------------------------------
BInv == IInv /\ Accounted /\ Alone /\ Undisturbed

LEMMA MarksStay ==
  ASSUME [Next]_vars
  PROVE  overlapped \subseteq overlapped'
  BY DEF Next, Tick, Ingest, InsertFact, Doubt, Contradict, Dream, WindowCloseout,
         SelectCandidates, CheckCandidate, MoveFact, Edit, ReadFact, Supersede, ReadEntry,
         CheckLatest, WriteBack, RestoreEntry, RestoreArchived, Stamp, Unsupersede, Crash,
         vars, MarkOverlap

LEMMA AloneStep == BInv /\ [Next]_vars => Alone'
  <1>. SUFFICES ASSUME BInv, [Next]_vars, NEW c \in Callers, NEW d \in Callers,
                       call'[c] # Idle, call'[d] # Idle, call'[c].fact = call'[d].fact,
                       call'[c].fact \notin overlapped', c # d
                PROVE  FALSE
    BY DEF Alone
  <1>0. call'[c].fact \notin overlapped /\ TypeOK
    BY MarksStay DEF BInv, IInv
  <1>1. CASE \A e \in {c, d} : call[e] # Idle /\ call'[e].fact = call[e].fact
    BY <1>0, <1>1 DEF BInv, Alone
  <1>2. ASSUME NEW e \in {c, d}, NEW o \in {c, d}, e # o, call'[o] = call[o],
               MarkOverlap(call'[e].fact, Callers)
        PROVE  FALSE
    BY <1>2 DEF MarkOverlap, Calling
  <1>. QED  BY <1>0, <1>1, <1>2, CallSteps

\* A row somebody is about stays where it is with its bound, or the fact is marked.
LEMMA HeldRow ==
  ASSUME BInv, [Next]_vars, NEW c \in Callers, call[c] # Idle,
         ~((Supersede(c) \/ WriteBack(c))), call[c].fact \notin overlapped',
         call[c].fact \in DOMAIN facts, call[c].fact \in Facts
  PROVE  /\ call[c].fact \in DOMAIN facts'
         /\ facts'[call[c].fact].valid_to = facts[call[c].fact].valid_to
  <1>. DEFINE f == call[c].fact
  <1>0. f \notin overlapped /\ TypeOK
    BY MarksStay DEF BInv, IInv
  <1>1. ~Bounding(f)
    <2>. SUFFICES ASSUME NEW d \in Callers, Supersede(d) \/ WriteBack(d), call[d].fact = f
                  PROVE  FALSE
      BY DEF Bounding
    <2>1. call[d] # Idle
      BY DEF Supersede, WriteBack, Undoing, Idle
    <2>2. d = c
      BY <1>0, <2>1 DEF BInv, Alone
    <2>. QED  BY <2>2
  <1>2. Calling(f, Callers)
    BY DEF Calling
  <1>3. ~(MoveFact /\ f = sweep.next) /\ ~Unsupersede(f)
    BY <1>2 DEF MoveFact, Unsupersede, MarkOverlap
  <1>. QED  BY <1>0, <1>1, <1>3, RowKept

\* An entry is marked only by the call that is about it.
LEMMA HeldEntry ==
  ASSUME BInv, [Next]_vars, NEW c \in Callers, call[c].at \in {"undo", "write", "stamp"},
         ~Stamp(c), call[c].fact \notin overlapped', ~log[call[c].entry].undone
  PROVE  ~log'[call[c].entry].undone
  <1>. DEFINE i == call[c].entry
  <1>0. call[c].fact \notin overlapped /\ TypeOK /\ InFlight
    BY MarksStay DEF BInv, IInv
  <1>1. i \in DOMAIN log /\ log[i].fact = call[c].fact /\ call[c] # Idle
    BY <1>0 DEF InFlight, Idle
  <1>2. ASSUME NEW d \in Callers, Stamp(d), call[d].entry = i PROVE FALSE
    <2>1. d # c /\ call[d] # Idle /\ call[d].fact = call[c].fact
      BY <1>0, <1>1, <1>2 DEF Stamp, InFlight, Idle
    <2>. QED  BY <1>0, <1>1, <2>1 DEF BInv, Alone
  <1>. QED  BY <1>0, <1>1, <1>2, LogSteps

LEMMA UndisturbedStep == BInv /\ [Next]_vars => Undisturbed'
  <1>. SUFFICES ASSUME BInv, [Next]_vars, NEW c \in Callers, call'[c] # Idle,
                       call'[c].fact \notin overlapped'
                PROVE  /\ call'[c].at = "supersede" =>
                            /\ call'[c].fact \in DOMAIN facts'
                            /\ call'[c].prior_valid_to = facts'[call'[c].fact].valid_to
                       /\ call'[c].at \in {"undo", "write", "stamp"} =>
                            ~log'[call'[c].entry].undone
                       /\ call'[c].at = "write" =>
                            /\ call'[c].fact \in DOMAIN facts'
                            /\ log'[call'[c].entry].valid_to = facts'[call'[c].fact].valid_to
    BY DEF Undisturbed
  <1>0. /\ call'[c].fact \notin overlapped /\ TypeOK /\ InFlight /\ TypeOK' /\ InFlight'
        /\ call \in [Callers -> Call] /\ Idle.at = "idle"
    BY MarksStay, TypeStep, InFlightStep DEF BInv, IInv, TypeOK, Idle
  <1>1. CASE call'[c] = call[c]
    <2>. DEFINE f == call[c].fact
    <2>1. f \in Facts
      BY <1>0, <1>1, CallTypes
    <2>2. ~Supersede(c) /\ ~WriteBack(c) /\ ~Stamp(c)
      <3>1. ASSUME Supersede(c) \/ Stamp(c) PROVE FALSE
        BY <1>0, <1>1, <3>1 DEF Supersede, Stamp, Leave
      <3>2. ASSUME WriteBack(c) PROVE FALSE
        <4>1. call[c].at = "write" /\ (Then(c, "stamp") \/ Leave(c))
          BY <3>2 DEF WriteBack, Undoing
        <4>2. CASE Then(c, "stamp")
          <5>1. call'[c] = [call[c] EXCEPT !.at = "stamp"]
            BY <1>0, <4>2 DEF Then
          <5>. QED  BY <1>0, <1>1, <4>1, <5>1, CallTypes
        <4>3. CASE Leave(c)
          BY <1>0, <1>1, <4>3 DEF Leave
        <4>. QED  BY <4>1, <4>2, <4>3
      <3>. QED  BY <3>1, <3>2
    <2>3. f \in DOMAIN facts => f \in DOMAIN facts' /\ facts'[f].valid_to = facts[f].valid_to
      BY <1>1, <2>1, <2>2, HeldRow
    <2>4. call[c].at \in {"undo", "write", "stamp"} =>
            (~log[call[c].entry].undone => ~log'[call[c].entry].undone)
      BY <1>1, <2>2, HeldEntry
    <2>5. call[c].at \in {"undo", "write", "stamp"} =>
            log'[call[c].entry].valid_to = log[call[c].entry].valid_to
      BY <1>0, LogStays DEF InFlight
    <2>. QED  BY <1>0, <1>1, <2>3, <2>4, <2>5 DEF BInv, Undisturbed
  <1>2. ASSUME call[c] = Idle, call'[c].at = "supersede",
               \E f \in Facts, t \in Bounds : ReadFact(c, f, t),
               call'[c].fact \in DOMAIN facts,
               call'[c].prior_valid_to = facts[call'[c].fact].valid_to
        PROVE  /\ call'[c].fact \in DOMAIN facts'
               /\ call'[c].prior_valid_to = facts'[call'[c].fact].valid_to
    BY <1>2 DEF ReadFact
  <1>3. ASSUME call[c] = Idle, call'[c].at = "undo",
               \E i \in DOMAIN log : ReadEntry(c, i),
               call'[c].entry \in DOMAIN log, ~log[call'[c].entry].undone
        PROVE  ~log'[call'[c].entry].undone
    BY <1>3 DEF ReadEntry
  <1>4. ASSUME CheckLatest(c) \/ WriteBack(c) \/ RestoreEntry(c), call[c] # Idle,
               call'[c].fact = call[c].fact, call'[c].entry = call[c].entry,
               CheckLatest(c) => call'[c].at = "write", ~CheckLatest(c) => call'[c].at = "stamp"
        PROVE  /\ call'[c].at \in {"write", "stamp"} /\ ~log'[call'[c].entry].undone
               /\ call'[c].at = "write" =>
                    /\ call'[c].fact \in DOMAIN facts'
                    /\ log'[call'[c].entry].valid_to = facts'[call'[c].fact].valid_to
    <2>1. call[c].at \in {"undo", "write"} /\ log' = log
      BY <1>4 DEF CheckLatest, WriteBack, RestoreEntry, Undoing
    <2>2. ~log[call[c].entry].undone
      BY <1>0, <1>4, <2>1 DEF BInv, Undisturbed
    <2>3. ASSUME CheckLatest(c)
          PROVE  /\ call[c].fact \in DOMAIN facts /\ facts' = facts
                 /\ log[call[c].entry].valid_to = facts[call[c].fact].valid_to
      <3>1. call'[c] # Idle
        OBVIOUS
      <3>2. ~Leave(c)
        BY <1>0, <3>1 DEF Leave
      <3>. QED  BY <2>3, <3>2 DEF CheckLatest
    <2>. QED  BY <1>4, <2>1, <2>2, <2>3
  <1>. QED  BY <1>0, <1>1, <1>2, <1>3, <1>4, CallSteps
-----------------------------------------------------------------------------
Gone(i) == log[i].undone \/ TakenBack(i)

\* Whether an entry counts is settled by the caller who takes it back, and no one else.
LEMMA GoneKept ==
  ASSUME BInv, [Next]_vars, NEW i \in DOMAIN log, log[i].kind = "fact_supersede",
         log[i].fact \notin overlapped', ~Bounding(log[i].fact)
  PROVE  Gone(i)' <=> Gone(i)
  <1>0. /\ TypeOK /\ InFlight /\ log[i].fact \notin overlapped
        /\ call \in [Callers -> Call] /\ Idle.at = "idle"
    BY MarksStay DEF BInv, IInv, TypeOK, Idle
  <1>1. ASSUME NEW c \in Callers, Stamp(c), call[c].entry = i
        PROVE  Gone(i) /\ Gone(i)'
    <2>1. log' = [log EXCEPT ![i].undone = TRUE] /\ call[c].at = "stamp"
      BY <1>1 DEF Stamp
    <2>2. log'[i].undone = (i = i \/ log[i].undone)
      BY <1>0, <2>1, Marking DEF TypeOK
    <2>. QED  BY <1>1, <2>1, <2>2 DEF Gone, TakenBack
  <1>2. CASE \A c \in Callers : ~(Stamp(c) /\ call[c].entry = i)
    <2>1. log'[i].undone = log[i].undone
      <3>1. log[i].undone \in BOOLEAN
        BY <1>0, Marking DEF TypeOK
      <3>2. CASE log' = log \/ log'[i] = log[i]
        BY <3>2
      <3>3. ASSUME NEW c \in Callers, Stamp(c),
                   log'[i].undone = (i = call[c].entry \/ log[i].undone)
            PROVE  log'[i].undone = log[i].undone
        BY <1>2, <3>1, <3>3
      <3>. QED  BY <1>0, <3>2, <3>3, LogSteps
    <2>2. ASSUME NEW c \in Callers
          PROVE  (call'[c].at = "stamp" /\ call'[c].entry = i)
                   <=> (call[c].at = "stamp" /\ call[c].entry = i)
      <3>1. ASSUME call[c].at = "stamp", call[c].entry = i
            PROVE  call'[c] = call[c]
        <4>1. call[c].fact = log[i].fact /\ call[c] # Idle
          BY <1>0, <3>1 DEF InFlight
        <4>2. ~Supersede(c) /\ ~Stamp(c) /\ ~CheckLatest(c) /\ ~WriteBack(c) /\ ~RestoreEntry(c)
          BY <1>2, <3>1 DEF Supersede, CheckLatest, WriteBack, RestoreEntry, Undoing
        <4>. QED  BY <1>0, <4>1, <4>2, CallSteps
      <3>2. ASSUME call'[c].at = "stamp", call'[c].entry = i, call'[c] # call[c]
            PROVE  FALSE
        <4>1. call[c].entry = i /\ (CheckLatest(c) \/ WriteBack(c) \/ RestoreEntry(c))
              /\ ~CheckLatest(c)
          BY <1>0, <3>2, CallSteps
        <4>2. call[c].fact = log[i].fact
          BY <1>0, <4>1 DEF WriteBack, RestoreEntry, InFlight, Undoing
        <4>. QED  BY <4>1, <4>2 DEF RestoreEntry, Undoing, Bounding
      <3>. QED  BY <3>1, <3>2
    <2>. QED  BY <2>1, <2>2 DEF Gone, TakenBack
  <1>. QED  BY <1>1, <1>2

\* Nobody's supersedes change but by bounding the fact, or taking it back.
LEMMA SupersedesKept ==
  ASSUME BInv, [Next]_vars, NEW f \in Facts \ overlapped', ~Bounding(f)
  PROVE  Supersedes(f)' = Supersedes(f)
  <1>0. TypeOK /\ InFlight
    BY DEF BInv, IInv
  <1>1. ASSUME NEW i \in DOMAIN log
        PROVE  i \in Supersedes(f)' <=> i \in Supersedes(f)
    <2>1. /\ i \in DOMAIN log' /\ log'[i].kind = log[i].kind /\ log'[i].fact = log[i].fact
      BY <1>0, <1>1, LogStays
    <2>2. CASE log[i].kind = "fact_supersede" /\ log[i].fact = f
      BY <2>1, <2>2, GoneKept DEF Supersedes, Gone
    <2>3. CASE ~(log[i].kind = "fact_supersede" /\ log[i].fact = f)
      BY <2>1, <2>3 DEF Supersedes
    <2>. QED  BY <2>2, <2>3
  <1>2. ASSUME NEW i \in DOMAIN log' \ DOMAIN log PROVE i \notin Supersedes(f)'
    <2>1. ASSUME NEW c \in Callers, Supersede(c) PROVE call[c].fact # f
      BY <2>1 DEF Bounding
    <2>2. CASE log' = log
      BY <1>2, <2>2
    <2>3. CASE log'[Len(log) + 1].kind = "fact_archive" /\ i = Len(log) + 1
      BY <2>3 DEF Supersedes
    <2>4. ASSUME NEW c \in Callers, Supersede(c), i = Len(log) + 1,
                 log'[Len(log) + 1] =
                   [kind |-> "fact_supersede", fact |-> call[c].fact,
                    valid_to |-> call[c].to, undone |-> FALSE,
                    prior_valid_to |-> call[c].prior_valid_to,
                    prior_expired_at |-> call[c].prior_expired_at]
          PROVE  i \notin Supersedes(f)'
      <3>1. log'[i].fact = call[c].fact
        BY <2>4
      <3>. QED  BY <2>1, <2>4, <3>1 DEF Supersedes
    <2>5. ASSUME NEW c \in Callers, Stamp(c), DOMAIN log' = DOMAIN log PROVE FALSE
      BY <1>2, <2>5
    <2>. QED  BY <1>0, <1>2, <2>2, <2>3, <2>4, <2>5, LogSteps
  <1>3. Supersedes(f) \subseteq DOMAIN log /\ Supersedes(f)' \subseteq DOMAIN log'
    BY DEF Supersedes
  <1>. QED  BY <1>1, <1>2, <1>3

\* A supersede adds to what went to its bound, and to what came from the one before.
LEMMA SupersedeCounts ==
  ASSUME BInv, [Next]_vars, NEW c \in Callers, Supersede(c), NEW f, f = call[c].fact,
         f \notin overlapped, NEW t \in Times
  PROVE  /\ Bound(f) = call[c].prior_valid_to /\ Bound(f)' = call[c].to
         /\ SetTo(f, t)' = IF call[c].to = t THEN SetTo(f, t) \cup {Len(log) + 1}
                                             ELSE SetTo(f, t)
         /\ SetFrom(f, t)' = IF call[c].prior_valid_to = t THEN SetFrom(f, t) \cup {Len(log) + 1}
                                                           ELSE SetFrom(f, t)
         /\ Len(log) + 1 \notin DOMAIN log
  <1>. DEFINE n == Len(log) + 1
  <1>0. TypeOK /\ InFlight /\ log \in Seq(Entry) /\ call \in [Callers -> Call]
        /\ Idle.at = "idle"
    BY DEF BInv, IInv, TypeOK, Idle
  <1>1. /\ call[c].at = "supersede" /\ call[c] # Idle /\ f \in DOMAIN facts
        /\ facts' = [facts EXCEPT ![f].valid_to = call[c].to]
        /\ Logged("fact_supersede", f, call[c].to, call[c].prior_valid_to,
                  call[c].prior_expired_at)
        /\ call[c].prior_valid_to = facts[f].valid_to
        /\ call' = [call EXCEPT ![c] = Idle]
    BY <1>0 DEF Supersede, BInv, Undisturbed
  <1>2. Bound(f) = call[c].prior_valid_to /\ Bound(f)' = call[c].to
    BY <1>1, <1>0 DEF Bound, TypeOK, Stored, RowsOf, Row
  <1>3. /\ DOMAIN log' = DOMAIN log \cup {n} /\ n \notin DOMAIN log
        /\ \A j \in DOMAIN log : log'[j] = log[j]
        /\ log'[n] = [kind |-> "fact_supersede", fact |-> f, valid_to |-> call[c].to,
                      undone |-> FALSE, prior_valid_to |-> call[c].prior_valid_to,
                      prior_expired_at |-> call[c].prior_expired_at]
    BY <1>0, <1>1 DEF Logged
  <1>4. \A d \in Callers : call'[d].at = "stamp" => /\ call[d].at = "stamp"
                                                    /\ call'[d].entry = call[d].entry
    BY <1>0, <1>1
  <1>5. \A d \in Callers : call[d].at = "stamp" => call'[d] = call[d] /\ call[d].entry \in DOMAIN log
    BY <1>0, <1>1 DEF InFlight
  <1>6. \A i : TakenBack(i)' <=> TakenBack(i)
    BY <1>4, <1>5 DEF TakenBack
  <1>7. ~TakenBack(n)
    BY <1>3, <1>5 DEF TakenBack
  <1>8. Supersedes(f)' = Supersedes(f) \cup {n}
    BY <1>3, <1>6, <1>7 DEF Supersedes
  <1>9. Supersedes(f) \subseteq DOMAIN log
    BY DEF Supersedes
  <1>. QED  BY <1>2, <1>3, <1>8, <1>9 DEF SetTo, SetFrom

\* Taking one back takes it from both.
LEMMA WriteBackCounts ==
  ASSUME BInv, [Next]_vars, NEW c \in Callers, WriteBack(c), NEW f, f = call[c].fact,
         f \notin overlapped
  PROVE  \/ /\ Bound(f)' = Bound(f)
            /\ \A t \in Times : SetTo(f, t)' = SetTo(f, t) /\ SetFrom(f, t)' = SetFrom(f, t)
         \/ \E i \in Supersedes(f) :
              /\ Bound(f) = log[i].valid_to /\ Bound(f)' = log[i].prior_valid_to
              /\ \A t \in Times : /\ SetTo(f, t)' = SetTo(f, t) \ {i}
                                  /\ SetFrom(f, t)' = SetFrom(f, t) \ {i}
  <1>. DEFINE i == call[c].entry
  <1>0. TypeOK /\ InFlight /\ log \in Seq(Entry) /\ call \in [Callers -> Call]
        /\ Idle.at = "idle" /\ Idle \in Call
    BY DEF BInv, IInv, TypeOK, Idle, Call
  <1>1. /\ call[c].at = "write" /\ i \in DOMAIN log /\ log[i].kind = "fact_supersede"
        /\ log[i].fact = f /\ call[c] # Idle /\ f \in Facts /\ log' = log
        /\ f \in DOMAIN facts /\ log[i].valid_to = facts[f].valid_to /\ ~log[i].undone
    <2>1. call[c].at = "write" /\ log[i].kind = "fact_supersede" /\ log' = log
      BY DEF WriteBack, Undoing
    <2>2. call[c] # Idle /\ i \in DOMAIN log /\ log[i].fact = f
      BY <1>0, <2>1 DEF InFlight
    <2>3. f \in Facts
      <3>1. log[i] \in Entry
        BY <1>0, <2>2
      <3>. QED  BY <2>2, <3>1 DEF Entry
    <2>4. f \in DOMAIN facts /\ log[i].valid_to = facts[f].valid_to /\ ~log[i].undone
      BY <2>1, <2>2 DEF BInv, Undisturbed
    <2>. QED  BY <2>1, <2>2, <2>3, <2>4
  <1>2. ASSUME NEW j, TakenBack(j), j \in DOMAIN log, log[j].fact = f PROVE FALSE
    <2>1. PICK d \in Callers : call[d].at = "stamp" /\ call[d].entry = j
      BY <1>2 DEF TakenBack
    <2>2. call[d].fact = f /\ call[d] # Idle /\ d # c
      BY <1>0, <1>1, <1>2, <2>1 DEF InFlight
    <2>. QED  BY <1>1, <2>2 DEF BInv, Alone
  <1>3. CASE Leave(c) /\ facts' = facts
    <2>1. Bound(f)' = Bound(f)
      BY <1>1, <1>3 DEF Bound, WriteBack
    <2>2. \A d \in Callers : call'[d].at = "stamp" <=> call[d].at = "stamp"
      BY <1>0, <1>1, <1>3 DEF Leave
    <2>3. \A d \in Callers : call[d].at = "stamp" => call'[d] = call[d]
      BY <1>0, <1>1, <1>3 DEF Leave
    <2>4. \A j : TakenBack(j)' <=> TakenBack(j)
      BY <2>2, <2>3 DEF TakenBack
    <2>5. Supersedes(f)' = Supersedes(f)
      BY <1>1, <2>4 DEF Supersedes
    <2>. QED  BY <1>1, <2>1, <2>5 DEF SetTo, SetFrom
  <1>4. CASE /\ Then(c, "stamp")
             /\ facts' = [facts EXCEPT ![f].valid_to = log[i].prior_valid_to,
                                       ![f].expired_at = log[i].prior_expired_at]
    <2>1. Bound(f) = log[i].valid_to /\ Bound(f)' = log[i].prior_valid_to
      BY <1>0, <1>1, <1>4 DEF Bound, TypeOK, Stored, RowsOf, Row
    <2>2. /\ call'[c].at = "stamp" /\ call'[c].entry = i
          /\ \A d \in Callers \ {c} : call'[d] = call[d]
      <3>1. call'[c] = [call[c] EXCEPT !.at = "stamp"]
            /\ \A d \in Callers \ {c} : call'[d] = call[d]
        BY <1>0, <1>4 DEF Then
      <3>. QED  BY <1>0, <1>1, <3>1, CallTypes
    <2>3. \A j : TakenBack(j)' <=> (j = i \/ TakenBack(j))
      BY <1>1, <2>2 DEF TakenBack
    <2>4. Supersedes(f)' = Supersedes(f) \ {i}
      BY <1>1, <2>3 DEF Supersedes
    <2>5. i \in Supersedes(f)
      BY <1>1, <1>2 DEF Supersedes
    <2>. QED  BY <1>1, <2>1, <2>4, <2>5 DEF SetTo, SetFrom
  <1>. QED  BY <1>1, <1>3, <1>4 DEF WriteBack

\* Counting one more, and one less.
LEMMA OneMore ==
  ASSUME NEW S, IsFiniteSet(S), NEW x, x \notin S
  PROVE  Cardinality(S \cup {x}) = Cardinality(S) + 1 /\ Cardinality(S) + 0 = Cardinality(S)
  BY FS_AddElement, FS_CardinalityType

LEMMA OneLess ==
  ASSUME NEW S, IsFiniteSet(S), NEW x
  PROVE  /\ x \in S => Cardinality(S \ {x}) = Cardinality(S) - 1
         /\ x \notin S => Cardinality(S \ {x}) = Cardinality(S) - 0
  BY FS_RemoveElement, FS_CardinalityType

LEMMA AccountedStep == BInv /\ [Next]_vars => Accounted'
  <1>. SUFFICES ASSUME BInv, [Next]_vars, NEW f \in Facts \ overlapped', NEW t \in Times
                PROVE  Cardinality(SetFrom(f, t)') + AtBound(f, t)' <= Cardinality(SetTo(f, t)')
    BY DEF Accounted
  <1>0. TypeOK /\ InFlight /\ log \in Seq(Entry) /\ f \notin overlapped /\ t # None
    BY MarksStay, LifecycleAssumption DEF BInv, IInv, TypeOK, Times
  <1>1. /\ IsFiniteSet(SetTo(f, t)) /\ IsFiniteSet(SetFrom(f, t))
        /\ Cardinality(SetTo(f, t)) \in Int /\ Cardinality(SetFrom(f, t)) \in Int
    BY <1>0, SetsFinite, FS_CardinalityType
  <1>2. Cardinality(SetFrom(f, t)) + AtBound(f, t) <= Cardinality(SetTo(f, t))
    BY <1>0 DEF BInv, Accounted
  <1>3. CASE ~Bounding(f)
    <2>1. Supersedes(f)' = Supersedes(f) /\ Supersedes(f) \subseteq DOMAIN log
      BY <1>3, SupersedesKept DEF Supersedes
    <2>2. SetTo(f, t)' = SetTo(f, t) /\ SetFrom(f, t)' = SetFrom(f, t)
      BY <1>0, <2>1, LogStays DEF SetTo, SetFrom
    <2>3. Bound(f)' = Bound(f) \/ Bound(f)' = None
      BY <1>0, <1>3, RowKept DEF Bound, TypeOK, Stored, NewRow
    <2>. QED  BY <1>0, <1>1, <1>2, <2>2, <2>3 DEF AtBound
  <1>4. ASSUME NEW c \in Callers, Supersede(c), call[c].fact = f
        PROVE  Cardinality(SetFrom(f, t)') + AtBound(f, t)' <= Cardinality(SetTo(f, t)')
    <2>1. /\ Bound(f) = call[c].prior_valid_to /\ Bound(f)' = call[c].to
          /\ SetTo(f, t)' = IF call[c].to = t THEN SetTo(f, t) \cup {Len(log) + 1}
                                              ELSE SetTo(f, t)
          /\ SetFrom(f, t)' = IF call[c].prior_valid_to = t
                                THEN SetFrom(f, t) \cup {Len(log) + 1} ELSE SetFrom(f, t)
          /\ Len(log) + 1 \notin DOMAIN log
      BY <1>0, <1>4, SupersedeCounts
    <2>2. Len(log) + 1 \notin SetTo(f, t) /\ Len(log) + 1 \notin SetFrom(f, t)
      BY <2>1 DEF SetTo, SetFrom, Supersedes
    <2>3. /\ AtBound(f, t) = IF Bound(f) = t THEN 1 ELSE 0
          /\ AtBound(f, t)' = IF Bound(f)' = t THEN 1 ELSE 0
      BY DEF AtBound
    <2>4. Cardinality(SetTo(f, t)') = Cardinality(SetTo(f, t)) + AtBound(f, t)'
      BY <1>1, <2>1, <2>2, <2>3, OneMore
    <2>5. Cardinality(SetFrom(f, t)') = Cardinality(SetFrom(f, t)) + AtBound(f, t)
      BY <1>1, <2>1, <2>2, <2>3, OneMore
    <2>. QED  BY <1>1, <1>2, <2>3, <2>4, <2>5
  <1>5. ASSUME NEW c \in Callers, WriteBack(c), call[c].fact = f
        PROVE  Cardinality(SetFrom(f, t)') + AtBound(f, t)' <= Cardinality(SetTo(f, t)')
    <2>1. CASE /\ Bound(f)' = Bound(f)
               /\ SetTo(f, t)' = SetTo(f, t) /\ SetFrom(f, t)' = SetFrom(f, t)
      BY <1>2, <2>1 DEF AtBound
    <2>2. ASSUME NEW i \in Supersedes(f),
                 Bound(f) = log[i].valid_to, Bound(f)' = log[i].prior_valid_to,
                 SetTo(f, t)' = SetTo(f, t) \ {i}, SetFrom(f, t)' = SetFrom(f, t) \ {i}
          PROVE  Cardinality(SetFrom(f, t)') + AtBound(f, t)' <= Cardinality(SetTo(f, t)')
      <3>1. i \in SetTo(f, t) <=> Bound(f) = t
        BY <2>2 DEF SetTo
      <3>2. i \in SetFrom(f, t) <=> Bound(f)' = t
        BY <2>2 DEF SetFrom
      <3>3. /\ AtBound(f, t) = IF Bound(f) = t THEN 1 ELSE 0
            /\ AtBound(f, t)' = IF Bound(f)' = t THEN 1 ELSE 0
        BY DEF AtBound
      <3>4. Cardinality(SetTo(f, t)') = Cardinality(SetTo(f, t)) - AtBound(f, t)
        BY <1>1, <2>2, <3>1, <3>3, OneLess
      <3>5. Cardinality(SetFrom(f, t)') = Cardinality(SetFrom(f, t)) - AtBound(f, t)'
        BY <1>1, <2>2, <3>2, <3>3, OneLess
      <3>. QED  BY <1>1, <1>2, <3>3, <3>4, <3>5
    <2>. QED  BY <1>0, <1>5, <2>1, <2>2, WriteBackCounts
  <1>. QED  BY <1>3, <1>4, <1>5 DEF Bounding
-----------------------------------------------------------------------------
(* The theorems *)

LEMMA Inductive == Spec => []IInv
  <1>1. Init => IInv
    BY TypeInit DEF Init, IInv, InFlight, StampsLeaveOne, Listed, CandidatesLapsed,
                    ArchivedLapsed, Idle, Rest
  <1>2. IInv /\ [Next]_vars => IInv'
    BY TypeStep, InFlightStep, StampsLeaveOneStep, ListedStep, CandidatesStep,
       ArchivedLapsedStep DEF IInv
  <1>. QED  BY <1>1, <1>2, PTL DEF Spec

\* Every fact stays stored, in one of the two tables, and no statement stands twice,
\* whatever expires, archives, restores and re-opens it.
THEOREM TypeCorrect == Spec => []TypeOK
  <1>1. IInv => TypeOK
    BY DEF IInv
  <1>. QED  BY <1>1, Inductive, PTL

\* Whatever the sweep has moved can be found and undone from the log, although undoing
\* is three statements that others, and the end of the process, may come between.
THEOREM ArchiveListed == Spec => []ArchivedIsListed
  <1>1. IInv => ArchivedIsListed
    BY DEF IInv, Listed, Lists, ArchivedIsListed, Standing
  <1>. QED  BY <1>1, Inductive, PTL

\* The sweep moves only what expired more than the grace period ago, or was written to
\* after the sweep had selected it.
THEOREM OnlyLapsedArchived == Spec => []ArchivedLapsed
  <1>1. IInv => ArchivedLapsed
    BY DEF IInv
  <1>. QED  BY <1>1, Inductive, PTL

LEMMA AccountedInit == Init => Accounted /\ Alone /\ Undisturbed
  <1>. SUFFICES ASSUME Init PROVE Accounted /\ Alone /\ Undisturbed
    OBVIOUS
  <1>1. Alone /\ Undisturbed
    BY DEF Init, Alone, Undisturbed, Idle
  <1>2. ASSUME NEW f \in Facts, NEW t \in Times
        PROVE  Cardinality(SetFrom(f, t)) + AtBound(f, t) <= Cardinality(SetTo(f, t))
    <2>1. SetFrom(f, t) = {} /\ SetTo(f, t) = {}
      BY DEF Init, SetFrom, SetTo, Supersedes
    <2>2. Bound(f) = None /\ t # None
      BY LifecycleAssumption DEF Init, Bound, NewRow, Times
    <2>3. AtBound(f, t) = 0
      BY <2>2 DEF AtBound
    <2>. QED  BY <2>1, <2>3, FS_EmptySet
  <1>. QED  BY <1>1, <1>2 DEF Accounted

LEMMA Accounting == Spec => []BInv
  <1>1. Init /\ IInv => BInv
    BY AccountedInit DEF BInv
  <1>2. BInv /\ IInv' /\ [Next]_vars => BInv'
    BY AccountedStep, AloneStep, UndisturbedStep DEF BInv
  <1>. QED  BY <1>1, <1>2, Inductive, PTL DEF Spec

\* Whoever bounds a fact can be found and undone from the log, whatever has been undone
\* before and in whatever order, restored and re-opened by the fact, as long as no two
\* calls on the fact overlap.
THEOREM BoundListed == Spec => []BoundIsListed
  <1>1. BInv => BoundIsListed
    <2>. SUFFICES ASSUME BInv, NEW f \in DOMAIN facts \ overlapped, facts[f].valid_to # None
                  PROVE  \E i \in DOMAIN log :
                           /\ log[i].kind = "fact_supersede" /\ log[i].fact = f
                           /\ log[i].valid_to = facts[f].valid_to /\ Standing(i)
      BY DEF BoundIsListed
    <2>. DEFINE t == facts[f].valid_to
    <2>1. f \in Facts /\ t \in Times /\ log \in Seq(Entry)
      BY DEF BInv, IInv, TypeOK, Stored, RowsOf, Row, MaybeTime
    <2>2. Cardinality(SetFrom(f, t)) + 1 <= Cardinality(SetTo(f, t))
      BY <2>1 DEF BInv, Accounted, AtBound, Bound
    <2>3. Cardinality(SetFrom(f, t)) \in Nat /\ Cardinality({}) = 0
      BY <2>1, SetsFinite, FS_CardinalityType, FS_EmptySet
    <2>4. SetTo(f, t) # {}
      BY <2>2, <2>3
    <2>. QED  BY <2>4 DEF SetTo, Supersedes, Standing
  <1>. QED  BY <1>1, Accounting, PTL
=============================================================================
