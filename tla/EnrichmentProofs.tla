------------------------- MODULE EnrichmentProofs -------------------------
(***************************************************************************)
(* Proofs about the verify stage, for any episodes, names, mentions, types, *)
(* faults, ends of the process and edits.                                  *)
(***************************************************************************)
EXTENDS Enrichment, SequenceTheorems, FiniteSetTheorems, TLAPS

\* The first four conjuncts of IInv.
Lines ==
  /\ status \in [Episodes -> Statuses \cup {None}] /\ told \in [Episodes -> Seq(Events)]
  /\ at \in Steps /\ queue \in Seq(Episodes) /\ (Busy => cur \in Episodes)

\* One more event of e, and no other change to what was told.
LEMMA TellOne ==
  ASSUME told \in [Episodes -> Seq(Events)], NEW e \in Episodes, NEW w \in Events, Tell(e, w)
  PROVE  /\ told' \in [Episodes -> Seq(Events)]
         /\ told'[e] # <<>>
         /\ \A f \in Episodes : f # e => told'[f] = told[f]
         /\ \A f \in Episodes : \A x : Told(f, x)' <=> Told(f, x) \/ (f = e /\ x = w)
<1>1. told' = [told EXCEPT ![e] = Append(told[e], w)] /\ told[e] \in Seq(Events)
  BY DEF Tell
<1> DEFINE s == told[e]
           t == Append(s, w)
<1>2. /\ t \in Seq(Events) /\ Len(t) = Len(s) + 1 /\ t[Len(t)] = w
      /\ \A i \in 1..Len(s) : t[i] = s[i]
      /\ DOMAIN s = 1..Len(s) /\ DOMAIN t = 1..Len(t) /\ Len(s) \in Nat
  BY <1>1, AppendProperties, LenProperties
<1>3. t # <<>>
  BY <1>2
<1>4. told'[e] = t /\ \A f \in Episodes : f # e => told'[f] = told[f]
  BY <1>1
<1>5. \A x : (\E i \in DOMAIN t : t[i] = x) <=> (\E i \in DOMAIN s : s[i] = x) \/ x = w
  <2> HIDE DEF s, t
  <2>1. \A i \in DOMAIN t : i \in DOMAIN s \/ i = Len(t)
    BY <1>2
  <2>2. Len(t) \in DOMAIN t /\ DOMAIN s \subseteq DOMAIN t
    BY <1>2
  <2> QED
    BY <1>2, <2>1, <2>2
<1>6. \A f \in Episodes : \A x : Told(f, x)' <=> Told(f, x) \/ (f = e /\ x = w)
  <2> SUFFICES ASSUME NEW f \in Episodes, NEW x
               PROVE  Told(f, x)' <=> Told(f, x) \/ (f = e /\ x = w)
    OBVIOUS
  <2> HIDE DEF s, t
  <2>1. CASE f = e
    <3>1. Told(f, x)' <=> \E i \in DOMAIN t : t[i] = x
      BY <1>4, <2>1 DEF Told
    <3>2. Told(f, x) <=> \E i \in DOMAIN s : s[i] = x
      BY <2>1 DEF Told, s
    <3> QED
      BY <1>5, <2>1, <3>1, <3>2
  <2>2. CASE f # e
    BY <1>4, <2>2 DEF Told
  <2> QED
    BY <2>1, <2>2
<1>7. told' \in [Episodes -> Seq(Events)]
  BY <1>1, <1>2
<1> QED
  BY <1>3, <1>4, <1>6, <1>7

\* A step between two points of the stage that tells nothing and writes no status.
LEMMA QuietStep ==
  ASSUME IInv, UNCHANGED <<status, told, queue, cur>>, at' \in Steps,
         Busy' <=> Busy, at' = "facts" <=> at = "facts", at' = "start" <=> at = "start",
         DealtWith \subseteq DealtWith'
  PROVE  Lines' /\ Lined' /\ ReadyMeansIndexed'
<1>1. Lines'
  BY DEF IInv, Lines, Busy
<1>2. Lined'
  BY DEF IInv, Lined, Told
<1>3. ReadyMeansIndexed'
  BY DEF IInv, ReadyMeansIndexed, Told, DealtWith
<1> QED
  BY <1>1, <1>2, <1>3

\* A step of the worker that tells something of the episode in hand.
LEMMA TellStep ==
  ASSUME IInv, Busy, NEW w \in Events, Tell(cur, w),
         UNCHANGED queue, at' \in Steps, Busy' => cur' = cur,
         status' \in [Episodes -> Statuses \cup {None}],
         \A f \in Episodes : f # cur => status'[f] = status[f],
         w = "EntitiesReady" =>
           /\ status'[cur] = "Verified"
           /\ \A i \in DOMAIN Mentions[cur] : Mentions[cur][i] \in DealtWith,
         w # "EntitiesReady" /\ Told(cur, "EntitiesReady") => status'[cur] = status[cur],
         Busy' /\ at' # "facts" =>
           /\ ~Told(cur, "EntitiesReady") /\ w # "EntitiesReady"
           /\ status'[cur] = IF at' = "start" THEN "Pending" ELSE "Extracting",
         DealtWith' = DealtWith
  PROVE  Lines' /\ Lined' /\ ReadyMeansIndexed'
<1>1. cur \in Episodes /\ told \in [Episodes -> Seq(Events)] /\ queue \in Seq(Episodes)
  BY DEF IInv
<1>2. /\ told' \in [Episodes -> Seq(Events)]
      /\ told'[cur] # <<>>
      /\ \A f \in Episodes : f # cur => told'[f] = told[f]
      /\ \A f \in Episodes : \A x : Told(f, x)' <=> Told(f, x) \/ (f = cur /\ x = w)
  BY <1>1, TellOne
<1>3. Lines'
  BY <1>1, <1>2 DEF Lines, Busy
<1>4. \A i \in DOMAIN queue : queue[i] \in Episodes /\ queue[i] # cur
  BY <1>1, LenProperties DEF IInv, Lined
<1>5. ASSUME NEW i \in DOMAIN queue'
      PROVE  /\ status'[queue'[i]] = "Pending" /\ ~Told(queue[i], "EntitiesReady")'
             /\ told'[queue'[i]] # <<>>
             /\ Busy' => queue'[i] # cur'
             /\ \A j \in DOMAIN queue' : queue'[i] = queue'[j] => i = j
  <2>1. i \in DOMAIN queue /\ queue' = queue
    OBVIOUS
  <2>2. queue[i] \in Episodes /\ queue[i] # cur
    BY <1>4, <2>1
  <2>3. status[queue[i]] = "Pending" /\ ~Told(queue[i], "EntitiesReady") /\ told[queue[i]] # <<>>
    BY <2>1 DEF IInv, Lined
  <2>4. status'[queue[i]] = status[queue[i]] /\ told'[queue[i]] = told[queue[i]]
    BY <1>2, <2>2
  <2>5. ~Told(queue[i], "EntitiesReady")'
    BY <2>1, <2>3, <2>4 DEF Told
  <2>6. \A j \in DOMAIN queue : queue[i] = queue[j] => i = j
    BY <2>1 DEF IInv, Lined
  <2> QED
    BY <2>1, <2>2, <2>3, <2>4, <2>5, <2>6
<1>6. \A e \in Episodes : told'[e] = <<>> => status'[e] = None
  BY <1>2 DEF IInv, Lined
<1>7. Busy' /\ at' # "facts" => ~Told(cur, "EntitiesReady")' /\ cur' = cur
  BY <1>1, <1>2
<1>8. Lined'
  <2>1. Busy' => told'[cur'] # <<>>
    BY <1>2
  <2>2. Busy' /\ at' # "facts" =>
          status'[cur'] = IF at' = "start" THEN "Pending" ELSE "Extracting"
    BY <1>7
  <2>3. ~Told(cur, "EntitiesReady")'
        <=> ~\E i \in DOMAIN told'[cur'] : told'[cur'][i] = "EntitiesReady"
    BY DEF Told
  <2>4. \A i \in DOMAIN queue' : ~Told(queue[i], "EntitiesReady")'
    BY <1>5
  <2> QED
    BY <1>5, <1>6, <1>7, <2>1, <2>2, <2>4 DEF Lined, Busy
<1>9. ASSUME NEW e \in Episodes, Told(e, "EntitiesReady")'
      PROVE  /\ status'[e] = "Verified"
             /\ \A i \in DOMAIN Mentions[e] : Mentions[e][i] \in DealtWith'
  <2>1. Told(e, "EntitiesReady") \/ (e = cur /\ w = "EntitiesReady")
    BY <1>2, <1>9
  <2>2. CASE w = "EntitiesReady" /\ e = cur
    BY <2>2
  <2>3. CASE Told(e, "EntitiesReady") /\ ~(w = "EntitiesReady" /\ e = cur)
    <3>1. status[e] = "Verified" /\ \A i \in DOMAIN Mentions[e] : Mentions[e][i] \in DealtWith
      BY <2>3 DEF IInv, ReadyMeansIndexed, DealtWith
    <3> QED
      BY <2>3, <3>1
  <2> QED
    BY <2>1, <2>2, <2>3
<1> QED
  BY <1>3, <1>8, <1>9 DEF ReadyMeansIndexed, DealtWith

\* Written holds of any state outside the loop whose keys, removals and skips are
\* those of a state where it held.
LEMMA WrittenOutside ==
  ASSUME IInv, UNCHANGED <<keys, skipped, removed, indexed>>,
         at' \notin {"insert", "guard", "link", "key"}
  PROVE  Written'
BY DEF IInv, Written, SkippedWasIndexed, DealtWith

LEMMA FailStep ==
  ASSUME IInv, Busy, at # "facts", Fail
  PROVE  IInv'
<1>1. Written'
  BY WrittenOutside DEF Fail, seen
<1>2. /\ Tell(cur, "Failed") /\ "Failed" \in Events /\ at' = "facts" /\ "facts" \in Steps
      /\ UNCHANGED <<queue, cur, indexed, removed>>
      /\ status' = [status EXCEPT ![cur] = "Failed"] \/ status' = status
  BY DEF Fail, Set, Events, Steps, seen
<1>3. /\ status' \in [Episodes -> Statuses \cup {None}]
      /\ \A f \in Episodes : f # cur => status'[f] = status[f]
  BY <1>2 DEF IInv, Statuses
<1>4. ~Told(cur, "EntitiesReady")
  BY DEF IInv, Lined
<1>5. DealtWith' = DealtWith
  BY <1>2 DEF DealtWith
<1>6. Lines' /\ Lined' /\ ReadyMeansIndexed'
  BY <1>2, <1>3, <1>4, <1>5, TellStep
<1> QED
  BY <1>1, <1>6 DEF IInv, Lines
-----------------------------------------------------------------------------
LEMMA InitIInv == Init => IInv
<1> SUFFICES ASSUME Init PROVE IInv
  OBVIOUS
<1>1. /\ status \in [Episodes -> Statuses \cup {None}] /\ told \in [Episodes -> Seq(Events)]
      /\ at = "idle" /\ queue = <<>> /\ queue \in Seq(Episodes) /\ DOMAIN queue = {}
      /\ \A e \in Episodes : status[e] = None /\ told[e] = <<>> /\ DOMAIN told[e] = {}
  BY EmptySeq DEF Init
<1>2. keys = {} /\ skipped = {} /\ removed = {}
  BY DEF Init
<1> QED
  BY <1>1, <1>2 DEF IInv, Lined, Written, SkippedWasIndexed, ReadyMeansIndexed, Told, Busy, Steps

LEMMA Phase1Step == ASSUME IInv, NEW e \in Episodes, Phase1(e) PROVE IInv'
<1>1. /\ at = "idle" /\ at' = at /\ told[e] = <<>> /\ Tell(e, "Pending") /\ "Pending" \in Events
      /\ UNCHANGED <<keys, skipped, removed, indexed, cur>>
  BY DEF Phase1, seen, Events
<1>2. /\ \/ status' = [status EXCEPT ![e] = "Pending"] /\ queue' = Append(queue, e)
         \/ queue' = queue /\ status' = status
         \/ queue' = queue /\ status' = [status EXCEPT ![e] = "Pending"]
  BY DEF Phase1
<1>3. /\ told' \in [Episodes -> Seq(Events)] /\ told'[e] # <<>>
      /\ \A f \in Episodes : f # e => told'[f] = told[f]
      /\ \A f \in Episodes : \A x : Told(f, x)' <=> Told(f, x) \/ (f = e /\ x = "Pending")
  BY <1>1, TellOne DEF IInv
<1>4. Written'
  BY <1>1, WrittenOutside
<1>5. /\ status' \in [Episodes -> Statuses \cup {None}]
      /\ \A f \in Episodes : f # e => status'[f] = status[f]
  BY <1>2 DEF IInv, Statuses
<1>6. \A f \in Episodes : Told(f, "EntitiesReady")' <=> Told(f, "EntitiesReady")
  BY <1>3
<1>7. ~Told(e, "EntitiesReady")
  BY <1>1 DEF Told
<1>8. ReadyMeansIndexed'
  <2> SUFFICES ASSUME NEW f \in Episodes, Told(f, "EntitiesReady")'
               PROVE  /\ status'[f] = "Verified"
                      /\ \A i \in DOMAIN Mentions[f] : Mentions[f][i] \in indexed' \cup removed'
    BY DEF ReadyMeansIndexed
  <2>1. Told(f, "EntitiesReady") /\ f # e
    BY <1>6, <1>7
  <2> QED
    BY <2>1, <1>1, <1>5 DEF IInv, ReadyMeansIndexed
<1>9. queue' \in Seq(Episodes) /\ queue \in Seq(Episodes)
  <2>1. queue \in Seq(Episodes)
    BY DEF IInv
  <2>2. Append(queue, e) \in Seq(Episodes)
    BY <2>1, AppendProperties
  <2> QED
    BY <1>2, <2>1, <2>2
<1>10. \A i \in DOMAIN queue : queue[i] \in Episodes /\ queue[i] # e
  BY <1>1, <1>9, LenProperties DEF IInv, Lined
<1>11. ASSUME NEW i \in DOMAIN queue
       PROVE  /\ status'[queue[i]] = "Pending" /\ told'[queue[i]] # <<>>
              /\ \A f \in Episodes : f = queue[i] => ~Told(f, "EntitiesReady")'
  <2>1. queue[i] \in Episodes /\ queue[i] # e
    BY <1>10
  <2>2. status[queue[i]] = "Pending" /\ ~Told(queue[i], "EntitiesReady") /\ told[queue[i]] # <<>>
    BY DEF IInv, Lined
  <2>3. told'[queue[i]] = told[queue[i]] /\ status'[queue[i]] = status[queue[i]]
    BY <1>3, <1>5, <2>1
  <2>4. \A f \in Episodes : f = queue[i] => ~Told(f, "EntitiesReady")'
    BY <1>6, <2>2
  <2> QED
    BY <2>2, <2>3, <2>4
<1>12. \A f \in Episodes : told'[f] = <<>> => status'[f] = None
  BY <1>3, <1>5 DEF IInv, Lined
<1>13. ~Busy /\ ~Busy'
  BY <1>1 DEF Busy
<1>14. CASE queue' = queue
  <2>1. ASSUME NEW i \in DOMAIN queue'
        PROVE  /\ status'[queue'[i]] = "Pending" /\ ~Told(queue[i], "EntitiesReady")'
               /\ told'[queue'[i]] # <<>>
               /\ \A j \in DOMAIN queue' : queue'[i] = queue'[j] => i = j
    <3>1. i \in DOMAIN queue /\ queue' = queue
      BY <1>14
    <3>2. \A j \in DOMAIN queue : queue[i] = queue[j] => i = j
      BY <3>1 DEF IInv, Lined
    <3>3. /\ status'[queue[i]] = "Pending" /\ told'[queue[i]] # <<>>
          /\ queue[i] \in Episodes
          /\ ~\E k \in DOMAIN told'[queue[i]] : told'[queue[i]][k] = "EntitiesReady"
      BY <3>1, <1>10, <1>11 DEF Told
    <3>4. ~Told(queue[i], "EntitiesReady")'
      BY <3>1, <3>3 DEF Told
    <3> QED
      BY <3>1, <3>2, <3>3, <3>4
  <2>2. Lined'
    BY <1>12, <1>13, <2>1, <1>14 DEF Lined
  <2> QED
    BY <1>1, <1>3, <1>4, <1>5, <1>8, <1>9, <1>13, <2>2 DEF IInv
<1>15. CASE queue' = Append(queue, e) /\ status' = [status EXCEPT ![e] = "Pending"]
  <2> DEFINE n == Len(queue)
  <2>1. /\ n \in Nat /\ DOMAIN queue = 1..n /\ DOMAIN queue' = 1..(n + 1)
        /\ queue'[n + 1] = e /\ \A i \in 1..n : queue'[i] = queue[i]
    BY <1>9, <1>15, AppendProperties, LenProperties
  <2> HIDE DEF n
  <2>2. status'[e] = "Pending" /\ ~Told(e, "EntitiesReady")'
    BY <1>6, <1>7, <1>15 DEF IInv
  <2>3. ASSUME NEW i \in DOMAIN queue'
        PROVE  /\ status'[queue'[i]] = "Pending" /\ ~Told(queue[i], "EntitiesReady")'
               /\ told'[queue'[i]] # <<>>
               /\ \A j \in DOMAIN queue' : queue'[i] = queue'[j] => i = j
    <3>1. CASE i = n + 1
      <4>1. queue'[i] = e
        BY <2>1, <3>1
      <4>2. ~Told(queue[i], "EntitiesReady")'
        BY <4>1, <2>2 DEF Told
      <4>3. \A j \in DOMAIN queue' : queue'[i] = queue'[j] => i = j
        BY <2>1, <1>10, <4>1, <3>1
      <4> QED
        BY <4>1, <4>2, <4>3, <2>2, <1>3
    <3>2. CASE i \in DOMAIN queue
      <4>1. queue'[i] = queue[i] /\ queue[i] # e
        BY <2>1, <1>10, <3>2
      <4>2. ~Told(queue[i], "EntitiesReady")'
        <5>1. /\ queue[i] \in Episodes
              /\ ~\E k \in DOMAIN told'[queue[i]] : told'[queue[i]][k] = "EntitiesReady"
          BY <1>3, <1>10, <3>2 DEF IInv, Lined, Told
        <5> QED
          BY <4>1, <5>1 DEF Told
      <4>3. \A j \in DOMAIN queue : queue[i] = queue[j] => i = j
        BY <3>2 DEF IInv, Lined
      <4>4. \A j \in DOMAIN queue' : queue'[i] = queue'[j] => i = j
        BY <2>1, <4>1, <4>3
      <4>5. status'[queue[i]] = "Pending" /\ told'[queue[i]] # <<>>
        BY <3>2, <1>11
      <4> QED
        BY <4>1, <4>2, <4>4, <4>5
    <3> QED
      BY <2>1, <3>1, <3>2
  <2>4. Lined'
    BY <1>12, <1>13, <2>3 DEF Lined
  <2> QED
    BY <1>1, <1>3, <1>4, <1>5, <1>8, <1>9, <1>13, <2>4 DEF IInv
<1> QED
  BY <1>2, <1>14, <1>15

LEMMA BeginStep == ASSUME IInv, Begin PROVE IInv'
<1>1. /\ at = "idle" /\ queue # <<>> /\ cur' = Head(queue) /\ queue' = Tail(queue) /\ at' = "start"
      /\ UNCHANGED <<status, told, keys, skipped, removed, indexed>>
  BY DEF Begin, db, outside, seen
<1>2. /\ queue \in Seq(Episodes) /\ queue' \in Seq(Episodes) /\ cur' \in Episodes
      /\ Len(queue) \in Nat /\ DOMAIN queue = 1..Len(queue) /\ 1 \in DOMAIN queue
      /\ cur' = queue[1]
      /\ DOMAIN queue' = 1..(Len(queue) - 1)
      /\ \A i \in DOMAIN queue' : queue'[i] = queue[i + 1] /\ i + 1 \in DOMAIN queue
  <2>1. queue \in Seq(Episodes)
    BY DEF IInv
  <2>2. /\ Head(queue) \in Episodes /\ Tail(queue) \in Seq(Episodes)
        /\ Len(Tail(queue)) = Len(queue) - 1
        /\ \A i \in 1..Len(Tail(queue)) : Tail(queue)[i] = queue[i + 1]
    BY <1>1, <2>1, HeadTailProperties
  <2>3. Len(queue) \in Nat /\ DOMAIN queue = 1..Len(queue)
    BY <2>1, LenProperties
  <2>4. DOMAIN Tail(queue) = 1..Len(Tail(queue))
    BY <2>2, LenProperties
  <2>5. Len(queue) # 0
    BY <1>1, <2>1, SMT
  <2>6. Head(queue) = queue[1]
    BY <2>1
  <2> QED
    BY <1>1, <2>1, <2>2, <2>3, <2>4, <2>5, <2>6
<1>3. Written'
  BY <1>1, WrittenOutside
<1>4. ReadyMeansIndexed'
  BY <1>1 DEF IInv, ReadyMeansIndexed, Told
<1>5. \A i \in DOMAIN queue :
        /\ status[queue[i]] = "Pending" /\ told[queue[i]] # <<>>
        /\ \A k \in DOMAIN told[queue[i]] : told[queue[i]][k] # "EntitiesReady"
        /\ \A j \in DOMAIN queue : queue[i] = queue[j] => i = j
  BY DEF IInv, Lined, Told
<1>6. /\ \A e \in Episodes : told'[e] = <<>> => status'[e] = None
  BY <1>1 DEF IInv, Lined
<1>7. ASSUME NEW i \in DOMAIN queue'
      PROVE  /\ status'[queue'[i]] = "Pending" /\ ~Told(queue[i], "EntitiesReady")'
             /\ told'[queue'[i]] # <<>> /\ queue'[i] # cur'
             /\ \A j \in DOMAIN queue' : queue'[i] = queue'[j] => i = j
  <2>1. queue'[i] = queue[i + 1] /\ i + 1 \in DOMAIN queue /\ i \in Nat /\ i # 0
    BY <1>2
  <2>2. queue'[i] # cur'
    BY <1>2, <1>5, <2>1
  <2>3. \A j \in DOMAIN queue' : queue'[i] = queue'[j] => i = j
    BY <1>2, <1>5, <2>1
  <2>4. ~Told(queue[i], "EntitiesReady")'
    BY <1>1, <1>5, <2>1 DEF Told
  <2> QED
    BY <1>1, <1>5, <2>1, <2>2, <2>3, <2>4
<1>8. told'[cur'] # <<>> /\ status'[cur'] = "Pending" /\ ~Told(cur, "EntitiesReady")'
  BY <1>1, <1>2, <1>5 DEF Told
<1>9. Lined'
  BY <1>1, <1>6, <1>7, <1>8 DEF Lined
<1> QED
  BY <1>1, <1>2, <1>3, <1>4, <1>9 DEF IInv, Steps

LEMMA ExtractStep == ASSUME IInv, Extract PROVE IInv'
<1>0. /\ at = "extract" /\ Busy /\ at # "facts" /\ cur \in Episodes
      /\ Mentions[cur] \in Seq(Names)
  BY EnrichmentAssumption DEF Extract, IInv, Busy, EnrichmentAssumption
<1>1. CASE Fail
  BY <1>0, <1>1, FailStep
<1>2. CASE ~Fail
  <2>1. /\ UNCHANGED <<status, told, queue, cur, keys, skipped, removed, indexed, ent>>
        /\ \/ at' = "verify"
           \/ /\ at' = "insert" /\ next' = 1
              /\ decisions' = [i \in DOMAIN Mentions[cur] |-> 0]
    BY <1>2 DEF Extract, db, outside, seen, Candidates
  <2>2. DealtWith' = DealtWith
    BY <2>1 DEF DealtWith
  <2>3. Lines' /\ Lined' /\ ReadyMeansIndexed'
    BY <1>0, <2>1, <2>2, QuietStep DEF Busy, Steps
  <2>4. CASE at' = "verify"
    BY <2>1, <2>3, <2>4, WrittenOutside DEF IInv, Lines
  <2>5. CASE at' = "insert" /\ next' = 1 /\ decisions' = [i \in DOMAIN Mentions[cur] |-> 0]
    <3>1. Len(Mentions[cur]) \in Nat /\ DOMAIN Mentions[cur] = 1..Len(Mentions[cur])
      BY <1>0, LenProperties
    <3>2. Len(decisions') = Len(Mentions[cur])
      BY <2>5, <3>1
    <3>3. Written'
      <4>1. next' \in 1..(Len(Mentions[cur]) + 1) /\ 1..(next' - 1) = {}
        BY <2>5, <3>1
      <4>2. at' \notin {"guard", "link", "key"}
        BY <2>5
      <4> QED
        BY <2>1, <2>2, <3>2, <4>1, <4>2 DEF Written, SkippedWasIndexed, IInv, DealtWith
    <3> QED
      BY <2>3, <3>3 DEF IInv, Lines
  <2> QED
    BY <2>1, <2>4, <2>5
<1> QED
  BY <1>1, <1>2

LEMMA MarkExtractingStep == ASSUME IInv, MarkExtracting PROVE IInv'
<1>0. at = "start" /\ Busy /\ at # "facts"
  BY DEF MarkExtracting, Busy
<1>1. CASE Fail
  BY <1>0, <1>1, FailStep
<1>2. CASE ~Fail
  <2>1. /\ UNCHANGED <<queue, cur, keys, skipped, removed, indexed>>
        /\ status' = [status EXCEPT ![cur] = "Extracting"]
        /\ Tell(cur, "Extracting") /\ "Extracting" \in Events /\ at' = "extract"
    BY <1>2 DEF MarkExtracting, seen, Set, Events
  <2>2. DealtWith' = DealtWith
    BY <2>1 DEF DealtWith
  <2>3. cur \in Episodes /\ ~Told(cur, "EntitiesReady")
    BY <1>0 DEF IInv, Lined
  <2>4. /\ status' \in [Episodes -> Statuses \cup {None}]
        /\ \A f \in Episodes : f # cur => status'[f] = status[f]
        /\ status'[cur] = "Extracting"
    BY <2>1, <2>3 DEF IInv, Statuses
  <2>5. Lines' /\ Lined' /\ ReadyMeansIndexed'
    BY <1>0, <2>1, <2>2, <2>3, <2>4, TellStep DEF Steps
  <2>6. Written'
    BY <2>1, WrittenOutside
  <2> QED
    BY <2>5, <2>6 DEF IInv, Lines
<1> QED
  BY <1>1, <1>2

\* Entering the loop of stage3_write, at its first candidate.
LEMMA VerifyStep == ASSUME IInv, Verify PROVE IInv'
<1>1. /\ at = "verify" /\ at' = "insert" /\ next' = 1 /\ Busy /\ cur \in Episodes
      /\ UNCHANGED <<status, told, queue, cur, keys, skipped, removed, indexed>>
  BY DEF Verify, seen, IInv, Busy
<1>2. DealtWith' = DealtWith
  BY <1>1 DEF DealtWith
<1>3. Lines' /\ Lined' /\ ReadyMeansIndexed'
  BY <1>1, <1>2, QuietStep DEF Busy, Steps
<1>4. PICK ans \in [DOMAIN Mentions[cur] -> Answers] : decisions' = Resolve(ans)
  BY DEF Verify, Candidates
<1>5. Len(Mentions[cur]) \in Nat /\ DOMAIN Mentions[cur] = 1..Len(Mentions[cur])
  BY <1>1, LenProperties, EnrichmentAssumption DEF EnrichmentAssumption
<1>6. Len(decisions') = Len(Mentions[cur])
  <2> DEFINE n == Len(Mentions[cur])
             D == {decisions'[j] : j \in 1..n}
  <2>1. DOMAIN ans = 1..n
    BY <1>4, <1>5
  <2>2. decisions' = [j \in 1..n |-> decisions'[j]]
    BY <1>4, <2>1 DEF Resolve
  <2>3. decisions' \in [1..n -> D]
    <3> HIDE DEF n
    <3> QED
      BY <2>2
  <2>4. decisions' \in Seq(D)
    BY <1>5, <2>3, SeqDef
  <2> HIDE DEF D, n
  <2>5. DOMAIN decisions' = 1..n /\ DOMAIN decisions' = 1..Len(decisions') /\ Len(decisions') \in Nat
    BY <2>2, <2>4, LenProperties
  <2>6. n \in Nat
    BY <1>5 DEF n
  <2> QED
    BY <2>5, <2>6 DEF n
<1>7. Written'
  <2>1. next' \in 1..(Len(Mentions[cur]) + 1) /\ 1..(next' - 1) = {}
    BY <1>1, <1>5
  <2> QED
    BY <1>1, <1>2, <1>6, <2>1 DEF Written, SkippedWasIndexed, IInv, DealtWith
<1> QED
  BY <1>3, <1>7 DEF IInv, Lines

\* At a candidate of the loop.
LEMMA AtCandidate ==
  ASSUME IInv, at \in {"insert", "guard", "link", "key"}
  PROVE  /\ Busy /\ at # "facts" /\ at # "start" /\ cur \in Episodes
         /\ Len(Mentions[cur]) \in Nat /\ DOMAIN Mentions[cur] = 1..Len(Mentions[cur])
         /\ Len(decisions) = Len(Mentions[cur])
         /\ next \in 1..(Len(Mentions[cur]) + 1)
         /\ \A i \in 1..(next - 1) : Mentions[cur][i] \in DealtWith
<1>1. Busy /\ at # "facts" /\ at # "start" /\ cur \in Episodes
  BY DEF IInv, Busy
<1>2. Len(Mentions[cur]) \in Nat /\ DOMAIN Mentions[cur] = 1..Len(Mentions[cur])
  BY <1>1, LenProperties, EnrichmentAssumption DEF EnrichmentAssumption
<1> QED
  BY <1>1, <1>2 DEF IInv, Written, SkippedWasIndexed

\* Within the loop, at the same candidate.
LEMMA SameCandidate ==
  ASSUME IInv, at \in {"insert", "guard", "link", "key"}, at' \in {"guard", "link", "key"},
         UNCHANGED <<status, told, queue, cur, decisions, next, keys, skipped, removed>>,
         indexed \subseteq indexed', next <= Len(Mentions[cur]),
         Name' \in IF at' = "key" THEN DealtWith' ELSE Present' \cup removed'
  PROVE  IInv'
<1>1. DealtWith \subseteq DealtWith'
  BY DEF DealtWith
<1>2. Lines' /\ Lined' /\ ReadyMeansIndexed'
  BY <1>1, AtCandidate, QuietStep DEF Busy, Steps
<1>3. Written'
  BY <1>1, AtCandidate DEF IInv, Written, SkippedWasIndexed
<1> QED
  BY <1>2, <1>3 DEF IInv, Lines

\* On to the next candidate, this one being dealt with.
LEMMA NextCandidate ==
  ASSUME IInv, at \in {"guard", "key"}, at' = "insert", next' = next + 1,
         UNCHANGED <<status, told, queue, cur, decisions, removed, indexed>>,
         Name \in DealtWith, \A k \in keys' \ keys : k[2] = Name,
         \A s \in skipped' \ skipped : s[3] \/ s[2] \in removed
  PROVE  IInv'
<1>1. DealtWith' = DealtWith
  BY DEF DealtWith
<1>2. Lines' /\ Lined' /\ ReadyMeansIndexed'
  BY <1>1, AtCandidate, QuietStep DEF Busy, Steps
<1>3. next <= Len(Mentions[cur])
  BY DEF IInv, Written, SkippedWasIndexed
<1>4. next' \in 1..(Len(Mentions[cur]) + 1)
  BY <1>3, AtCandidate
<1>5. \A i \in 1..(next' - 1) : Mentions[cur][i] \in DealtWith
  <2>1. \A i \in 1..(next' - 1) : i \in 1..(next - 1) \/ i = next
    BY AtCandidate
  <2>2. Mentions[cur][next] \in DealtWith
    BY DEF Name, Candidates
  <2> QED
    BY <2>1, <2>2, AtCandidate
<1>6. \A k \in keys' : k[2] \in DealtWith
  BY DEF IInv, Written, SkippedWasIndexed
<1>7. \A s \in skipped' : s[3] \/ s[2] \in removed
  BY DEF IInv, Written, SkippedWasIndexed
<1>9. Written'
  BY <1>1, <1>4, <1>5, <1>6, <1>7, AtCandidate DEF Written, SkippedWasIndexed
<1> QED
  BY <1>2, <1>9 DEF IInv, Lines

LEMMA InsertEntityStep == ASSUME IInv, InsertEntity PROVE IInv'
<1>0. at = "insert" /\ ~Done /\ Busy /\ at # "facts"
  BY DEF InsertEntity, Busy
<1>1. CASE Fail
  BY <1>0, <1>1, FailStep
<1>2. CASE ~Fail
  <2>1. /\ UNCHANGED <<status, told, queue, cur, decisions, next, keys, skipped, removed, indexed>>
        /\ at' = "guard"
        /\ ent' = IF Name \in Present THEN ent
                  ELSE [n \in Present \cup {Name} |->
                          IF n = Name
                            THEN [row |-> NewRow, ty |-> decisions[next], src |-> "Phase1Ner"]
                            ELSE ent[n]]
    BY <1>2 DEF InsertEntity, cand, outside, seen
  <2>2. Name \in DOMAIN ent'
    BY <2>1 DEF Present
  <2>3. Name' = Name /\ Present' = DOMAIN ent'
    BY <2>1 DEF Name, Candidates, Present
  <2>4. next <= Len(Mentions[cur])
    BY <1>0, AtCandidate DEF Done
  <2> QED
    BY <1>0, <2>1, <2>2, <2>3, <2>4, SameCandidate
<1> QED
  BY <1>1, <1>2

LEMMA CheckKeyStep == ASSUME IInv, CheckKey PROVE IInv'
<1>0. at = "guard" /\ Busy /\ at # "facts" /\ next <= Len(Mentions[cur])
  BY DEF CheckKey, Busy, IInv, Written
<1>1. CASE Fail
  BY <1>0, <1>1, FailStep
<1>2. CASE ~Fail
  <2>1. /\ UNCHANGED <<status, told, queue, cur, decisions, keys, removed, indexed, ent>>
        /\ Name \in Present
        /\ \/ /\ KeyOf(row') \in keys
              /\ skipped' = skipped \cup {<<cur, Name, Name \in indexed>>}
              /\ at' = "insert" /\ next' = next + 1
           \/ at' = "link" /\ UNCHANGED <<next, skipped>>
    BY <1>2 DEF CheckKey, db
  <2>2. CASE at' = "link" /\ UNCHANGED <<next, skipped>>
    <3>1. Name' = Name /\ Present' = Present
      BY <2>1, <2>2 DEF Name, Candidates, Present
    <3> QED
      BY <1>0, <2>1, <2>2, <3>1, SameCandidate
  <2>3. CASE /\ KeyOf(row') \in keys
             /\ skipped' = skipped \cup {<<cur, Name, Name \in indexed>>}
             /\ at' = "insert" /\ next' = next + 1
    <3>1. KeyOf(row')[2] = Name
      BY DEF KeyOf
    <3>2. Name \in DealtWith
      BY <2>3, <3>1 DEF IInv, Written, SkippedWasIndexed
    <3>3. \A s \in skipped' \ skipped : s[3] \/ s[2] \in removed
      <4>1. \A s \in skipped' \ skipped : s = <<cur, Name, Name \in indexed>>
        BY <2>3
      <4>2. CASE Name \in removed
        BY <4>1, <4>2
      <4>3. CASE Name \in indexed
        <5>1. \A s \in skipped' \ skipped : s[3] = (Name \in indexed)
          BY <4>1
        <5> QED
          BY <4>3, <5>1
      <4> QED
        BY <3>2, <4>2, <4>3 DEF DealtWith
    <3> QED
      BY <1>0, <2>1, <2>3, <3>2, <3>3, NextCandidate
  <2> QED
    BY <2>1, <2>2, <2>3
<1> QED
  BY <1>1, <1>2

LEMMA LinkStep == ASSUME IInv, Link PROVE IInv'
<1>0. /\ at = "link" /\ Busy /\ at # "facts" /\ next <= Len(Mentions[cur])
      /\ Name \in Present \cup removed
  BY DEF Link, Busy, IInv, Written
<1>1. CASE Fail
  BY <1>0, <1>1, FailStep
<1>2. CASE ~Fail
  <2>1. /\ UNCHANGED <<status, told, queue, cur, decisions, next, keys, skipped, removed, ent>>
        /\ at' = "key" /\ indexed' = indexed \cup (Present \cap {Name})
    BY <1>2 DEF Link, cand
  <2>2. Name' = Name
    BY <2>1 DEF Name, Candidates
  <2>3. Name \in DealtWith'
    BY <1>0, <2>1 DEF DealtWith
  <2> QED
    BY <1>0, <2>1, <2>2, <2>3, SameCandidate
<1> QED
  BY <1>1, <1>2

LEMMA RecordKeyStep == ASSUME IInv, RecordKey PROVE IInv'
<1>1. /\ at = "key" /\ at' = "insert" /\ next' = next + 1
      /\ UNCHANGED <<status, told, queue, cur, decisions, skipped, removed, indexed>>
      /\ keys' \subseteq keys \cup {KeyOf(row)}
  BY DEF RecordKey, outside, seen
<1>2. Name \in DealtWith
  BY <1>1 DEF IInv, Written, SkippedWasIndexed
<1>3. \A k \in keys' \ keys : k[2] = Name
  BY <1>1 DEF KeyOf
<1> QED
  BY <1>1, <1>2, <1>3, NextCandidate

LEMMA MarkVerifiedStep == ASSUME IInv, MarkVerified PROVE IInv'
<1>1. /\ at = "insert" /\ Done /\ at' = "facts" /\ Busy
      /\ UNCHANGED <<queue, cur, keys, skipped, removed, indexed>>
      /\ \/ status' = [status EXCEPT ![cur] = "Verified"] /\ Tell(cur, "EntitiesReady")
         \/ status' = status /\ Tell(cur, "Failed")
  BY DEF MarkVerified, Set, seen, Busy
<1>2. /\ cur \in Episodes /\ ~Told(cur, "EntitiesReady")
      /\ DOMAIN Mentions[cur] = 1..Len(Mentions[cur])
  BY <1>1, AtCandidate DEF IInv, Lined
<1>3. \A i \in DOMAIN Mentions[cur] : Mentions[cur][i] \in DealtWith
  BY <1>1, AtCandidate DEF Done
<1>4. DealtWith' = DealtWith
  BY <1>1 DEF DealtWith
<1>5. Written'
  BY <1>1, WrittenOutside
<1>6. CASE status' = [status EXCEPT ![cur] = "Verified"] /\ Tell(cur, "EntitiesReady")
  <2>1. /\ status' \in [Episodes -> Statuses \cup {None}]
        /\ \A f \in Episodes : f # cur => status'[f] = status[f]
        /\ status'[cur] = "Verified"
    BY <1>2, <1>6 DEF IInv, Statuses
  <2>2. Lines' /\ Lined' /\ ReadyMeansIndexed'
    BY <1>1, <1>2, <1>3, <1>4, <1>6, <2>1, TellStep DEF Steps, Events
  <2> QED
    BY <1>5, <2>2 DEF IInv, Lines
<1>7. CASE status' = status /\ Tell(cur, "Failed")
  <2>1. status' \in [Episodes -> Statuses \cup {None}]
    BY <1>7 DEF IInv
  <2>2. Lines' /\ Lined' /\ ReadyMeansIndexed'
    BY <1>1, <1>2, <1>4, <1>7, <2>1, TellStep DEF Steps, Events
  <2> QED
    BY <1>5, <2>2 DEF IInv, Lines
<1> QED
  BY <1>1, <1>6, <1>7

LEMMA FactsStep == ASSUME IInv, Facts PROVE IInv'
<1>1. /\ at = "facts" /\ at' = "idle" /\ Busy /\ ~Busy'
      /\ UNCHANGED <<status, queue, keys, skipped, removed, indexed>>
      /\ Tell(cur, "Complete") \/ Tell(cur, "Failed")
  BY DEF Facts, seen, Busy
<1>2. DealtWith' = DealtWith /\ status' \in [Episodes -> Statuses \cup {None}]
  BY <1>1 DEF DealtWith, IInv
<1>3. Written'
  BY <1>1, WrittenOutside
<1>4. Lines' /\ Lined' /\ ReadyMeansIndexed'
  BY <1>1, <1>2, TellStep DEF Steps, Events
<1> QED
  BY <1>3, <1>4 DEF IInv, Lines

LEMMA EndStep == ASSUME IInv, End \/ Restart PROVE IInv'
<1>1. /\ at' \in {"down", "idle"} /\ ~Busy' /\ at' \in Steps
      /\ UNCHANGED <<status, told, keys, skipped, removed, indexed>>
      /\ queue' = <<>> \/ (queue' = queue)
  BY DEF End, Restart, db, seen, Busy, Steps
<1>2. Written'
  BY <1>1, WrittenOutside
<1>3. ReadyMeansIndexed'
  BY <1>1 DEF IInv, ReadyMeansIndexed, Told
<1>4. queue' \in Seq(Episodes)
  BY <1>1, EmptySeq DEF IInv
<1>5. Lined'
  <2>1. \A e \in Episodes : told'[e] = <<>> => status'[e] = None
    BY <1>1 DEF IInv, Lined
  <2>2. CASE queue' = <<>>
    <3>1. DOMAIN queue' = {}
      BY <2>2
    <3> QED
      BY <1>1, <2>1, <3>1 DEF Lined
  <2>3. CASE queue' = queue
    BY <1>1, <2>1, <2>3 DEF IInv, Lined, Told
  <2> QED
    BY <1>1, <2>2, <2>3
<1> QED
  BY <1>1, <1>2, <1>3, <1>4, <1>5 DEF IInv

LEMMA EditStep == ASSUME IInv, NEW n \in Names, Pin(n) \/ Remove(n) PROVE IInv'
<1>1. /\ UNCHANGED <<status, told, queue, cur, at, decisions, next, skipped>>
      /\ keys' \subseteq keys /\ Present \subseteq Present' \cup removed'
      /\ removed \subseteq removed' /\ DealtWith \subseteq DealtWith'
  <2>1. CASE Pin(n)
    BY <2>1 DEF Pin, cand, Present, DealtWith
  <2>2. CASE Remove(n)
    BY <2>2 DEF Remove, cand, Present, DealtWith
  <2> QED
    BY <2>1, <2>2
<1>2. Lines' /\ Lined' /\ ReadyMeansIndexed'
  BY <1>1, QuietStep DEF IInv, Busy
<1>3. Name' = Name
  BY <1>1 DEF Name, Candidates
<1>4. Written'
  <2>1. at \in {"insert", "guard", "link", "key"} =>
          \A i \in 1..(next - 1) : Mentions[cur][i] \in DealtWith'
    BY <1>1 DEF IInv, Written, SkippedWasIndexed
  <2>2. at \in {"guard", "link", "key"} =>
          Name \in IF at = "key" THEN DealtWith' ELSE Present' \cup removed'
    BY <1>1 DEF IInv, Written, SkippedWasIndexed
  <2>3. \A k \in keys' : k[2] \in DealtWith'
    BY <1>1 DEF IInv, Written, SkippedWasIndexed
  <2>4. \A s \in skipped' : s[3] \/ s[2] \in removed'
    BY <1>1 DEF IInv, Written, SkippedWasIndexed
  <2> QED
    BY <1>1, <1>3, <2>1, <2>2, <2>3, <2>4 DEF IInv, Written, SkippedWasIndexed
<1> QED
  BY <1>2, <1>4 DEF IInv, Lines

LEMMA StepIInv == IInv /\ [Next]_vars => IInv'
<1> SUFFICES ASSUME IInv, [Next]_vars PROVE IInv'
  OBVIOUS
<1>1. CASE Next
  BY <1>1, Phase1Step, BeginStep, MarkExtractingStep, ExtractStep, VerifyStep,
     InsertEntityStep, CheckKeyStep, LinkStep, RecordKeyStep, MarkVerifiedStep, FactsStep,
     EndStep, EditStep DEF Next, Stage
<1>2. CASE UNCHANGED vars
  BY <1>2 DEF vars, db, cand, outside, seen, IInv, Lined, Written, SkippedWasIndexed, ReadyMeansIndexed, Told, Busy,
     DealtWith, Name, Candidates, Present
<1> QED
  BY <1>1, <1>2

LEMMA Invariance == Spec => []IInv
<1> QED
  BY InitIInv, StepIInv, PTL DEF Spec

\* EntitiesReady is never told of an episode before its column says Verified and all
\* its entities are written, whatever fails, crashes or is removed in between.
THEOREM ReadyMeansIndexedAlways == Spec => []ReadyMeansIndexed
<1>1. IInv => ReadyMeansIndexed
  BY DEF IInv
<1> QED
  BY <1>1, Invariance, PTL

\* Guard #1 never skips an entity that was not written in full, unless a caller
\* removed one of that name.
THEOREM SkipsAreSafe == Spec => []SkippedWasIndexed
<1>1. IInv => SkippedWasIndexed
  BY DEF IInv, Written
<1> QED
  BY <1>1, Invariance, PTL

\* The steps of the column.
Forward ==
  \A e \in Episodes : status'[e] # status[e] =>
    <<status[e], status'[e]>> \in
      {<<None, "Pending">>, <<"Pending", "Extracting">>, <<"Pending", "Failed">>,
       <<"Extracting", "Verified">>, <<"Extracting", "Failed">>}

LEMMA FailForward == ASSUME IInv, Busy, at # "facts", Fail PROVE Forward
<1>1. status[cur] \in {"Pending", "Extracting"} /\ cur \in Episodes
  BY DEF IInv, Lined
<1>2. status' = [status EXCEPT ![cur] = "Failed"] \/ status' = status
  BY DEF Fail, Set
<1>3. \A e \in Episodes : status'[e] # status[e] => e = cur /\ status'[cur] = "Failed"
  BY <1>1, <1>2 DEF IInv
<1> QED
  BY <1>1, <1>3 DEF Forward

LEMMA StepForward == IInv /\ [Next]_vars => Forward
<1> SUFFICES ASSUME IInv, [Next]_vars PROVE Forward
  OBVIOUS
<1>1. ASSUME NEW e \in Episodes, Phase1(e) PROVE Forward
  <2>1. status[e] = None
    BY <1>1 DEF Phase1, IInv, Lined
  <2>2. status' = status \/ status' = [status EXCEPT ![e] = "Pending"]
    BY <1>1 DEF Phase1
  <2>3. \A f \in Episodes : status'[f] # status[f] => f = e /\ status'[e] = "Pending"
    BY <2>2 DEF IInv
  <2> QED
    BY <2>1, <2>3 DEF Forward
<1>2. CASE MarkExtracting
  <2>0. at = "start" /\ Busy /\ at # "facts"
    BY <1>2 DEF MarkExtracting, Busy
  <2>1. CASE Fail
    BY <2>0, <2>1, FailForward
  <2>2. CASE ~Fail
    <3>1. status[cur] = "Pending" /\ status' = [status EXCEPT ![cur] = "Extracting"]
      BY <1>2, <2>0, <2>2 DEF MarkExtracting, Set, IInv, Lined
    <3>2. \A f \in Episodes : status'[f] # status[f] => f = cur /\ status'[cur] = "Extracting"
      BY <3>1 DEF IInv
    <3> QED
      BY <3>1, <3>2 DEF Forward
  <2> QED
    BY <2>1, <2>2
<1>3. CASE Extract \/ InsertEntity \/ CheckKey \/ Link
  <2>1. Busy /\ at # "facts"
    BY <1>3 DEF Extract, InsertEntity, CheckKey, Link, Busy
  <2>2. Fail \/ UNCHANGED status
    BY <1>3 DEF Extract, InsertEntity, CheckKey, Link, db
  <2> QED
    BY <2>1, <2>2, FailForward DEF Forward
<1>4. CASE MarkVerified
  <2>1. status[cur] = "Extracting" /\ cur \in Episodes
    BY <1>4 DEF MarkVerified, IInv, Lined, Busy
  <2>2. status' = status \/ status' = [status EXCEPT ![cur] = "Verified"]
    BY <1>4 DEF MarkVerified, Set
  <2>3. \A f \in Episodes : status'[f] # status[f] => f = cur /\ status'[cur] = "Verified"
    BY <2>1, <2>2 DEF IInv
  <2> QED
    BY <2>1, <2>3 DEF Forward
<1>5. CASE Begin \/ Verify \/ RecordKey \/ Facts \/ End \/ Restart
  BY <1>5 DEF Begin, Verify, RecordKey, Facts, End, Restart, db, Forward
<1>6. ASSUME NEW n \in Names, Pin(n) \/ Remove(n) PROVE Forward
  BY <1>6 DEF Pin, Remove, Forward
<1>7. CASE UNCHANGED vars
  BY <1>7 DEF vars, db, Forward
<1> QED
  BY <1>1, <1>2, <1>3, <1>4, <1>5, <1>6, <1>7 DEF Next, Stage

\* The processing status of an episode only moves forward, and stays at Verified or
\* Failed once there.
THEOREM StatusMovesForward == Spec => StatusForward
<1>1. IInv /\ [Next]_vars => [Forward]_vars
  BY StepForward
<1>2. Spec => [][Forward]_vars
  BY <1>1, Invariance, PTL DEF Spec
<1> QED
  BY <1>2 DEF Forward, StatusForward
-----------------------------------------------------------------------------
(* Announcements *)

\* The key of the candidate between its guard and the statement that records it, and
\* those announced that nothing records any more.
UnderWay == IF at \in {"link", "key"} THEN {KeyOf(row)} ELSE {}
Lost     == announced \ (keys \cup UnderWay)

\* Each crash loses one announcement at most, which can then be repeated once.
OnceInv ==
  /\ repeats \in Nat /\ crashes \in Nat /\ IsFiniteSet(announced)
  /\ {"entity", "key"} \cap Faults = {} => repeats + Cardinality(Lost) <= crashes

\* Subsets of finite sets, as they are needed here.
LEMMA Smaller ==
  ASSUME NEW S, IsFiniteSet(S), NEW T, T \subseteq S
  PROVE  /\ IsFiniteSet(T) /\ Cardinality(S) \in Nat /\ Cardinality(T) \in Nat
         /\ Cardinality(T) <= Cardinality(S)
BY FS_Subset, FS_CardinalityType

LEMMA OneMore ==
  ASSUME NEW S, IsFiniteSet(S), NEW x, NEW T, T \subseteq S \cup {x}
  PROVE  Cardinality(T) <= Cardinality(S) + 1
<1>1. Cardinality(S) \in Nat
  BY FS_CardinalityType
<1>2. /\ IsFiniteSet(S \cup {x})
      /\ Cardinality(S \cup {x}) = IF x \in S THEN Cardinality(S) ELSE Cardinality(S) + 1
  BY FS_AddElement
<1>3. Cardinality(T) \in Nat /\ Cardinality(T) <= Cardinality(S \cup {x})
  BY <1>2, Smaller
<1> QED
  BY <1>1, <1>2, <1>3

\* A step that announces nothing and loses nothing.
LEMMA NothingLost ==
  ASSUME OnceInv, UNCHANGED <<repeats, crashes>>, announced' \subseteq announced,
         {"entity", "key"} \cap Faults = {} => Lost' \subseteq Lost
  PROVE  OnceInv'
<1>1. Lost \subseteq announced /\ Lost' \subseteq announced'
  BY DEF Lost
<1>2. /\ IsFiniteSet(announced') /\ IsFiniteSet(Lost)
      /\ Cardinality(Lost) \in Nat /\ Cardinality(Lost') \in Nat
  BY <1>1, Smaller DEF OnceInv
<1>3. Lost' \subseteq Lost => Cardinality(Lost') <= Cardinality(Lost)
  BY <1>2, Smaller
<1> QED
  BY <1>1, <1>2, <1>3 DEF OnceInv

\* A new announcement is of a key that was not lost, or repeats one that was.
LEMMA CheckKeyOnce == ASSUME OnceInv, CheckKey PROVE OnceInv'
<1> DEFINE k == KeyOf(row')
<1>1. CASE at' # "link"
  <2>1. UNCHANGED <<repeats, crashes, announced, keys>> /\ at = "guard" /\ at' \in {"facts", "insert"}
    BY <1>1 DEF CheckKey, Fail, db, seen
  <2> QED
    BY <2>1, NothingLost DEF Lost, UnderWay
<1>2. CASE at' = "link"
  <2>1. /\ at = "guard" /\ k \notin keys /\ announced' = announced \cup {k}
        /\ repeats' = IF k \in announced THEN repeats + 1 ELSE repeats
        /\ UNCHANGED <<keys, crashes, cur, next, decisions>>
    BY <1>2 DEF CheckKey, Fail, db
  <2>2. KeyOf(row)' = k
    BY <2>1 DEF KeyOf, Name, Candidates
  <2>3. Lost = announced \ keys /\ Lost' = (announced \cup {k}) \ (keys \cup {k})
    BY <1>2, <2>1, <2>2 DEF Lost, UnderWay
  <2>4. Lost' = Lost \ {k} /\ (k \in Lost <=> k \in announced)
    BY <2>1, <2>3
  <2>5. IsFiniteSet(announced') /\ IsFiniteSet(Lost) /\ Cardinality(Lost) \in Nat
    BY <2>1, FS_AddElement, Smaller DEF OnceInv, Lost
  <2>6. Cardinality(Lost') = IF k \in Lost THEN Cardinality(Lost) - 1 ELSE Cardinality(Lost)
    BY <2>4, <2>5, FS_RemoveElement
  <2> QED
    BY <2>1, <2>4, <2>5, <2>6 DEF OnceInv
<1> QED
  BY <1>1, <1>2

\* What is under way when the process ends was announced by one call, and only a crash
\* comes there.
LEMMA EndOnce == ASSUME OnceInv, End PROVE OnceInv'
<1>1. /\ UNCHANGED <<repeats, announced, keys>> /\ at' = "down"
      /\ (crashes' = crashes + 1 \/ (at = "idle" /\ crashes' = crashes))
  BY DEF End, db, seen
<1>2. CASE at = "idle" /\ crashes' = crashes
  BY <1>1, <1>2, NothingLost DEF Lost, UnderWay
<1>3. CASE crashes' = crashes + 1
  <2>1. Lost' \subseteq Lost \cup UnderWay
    BY <1>1 DEF Lost, UnderWay
  <2>2. UnderWay = {} \/ \E k : UnderWay = {k}
    BY DEF UnderWay
  <2>3. IsFiniteSet(Lost) /\ Cardinality(Lost) \in Nat /\ Cardinality(Lost') \in Nat
    <3>1. Lost \subseteq announced /\ Lost' \subseteq announced
      BY <1>1 DEF Lost
    <3> QED
      BY <3>1, Smaller DEF OnceInv
  <2>4. UnderWay = {} => Lost' \subseteq Lost \cup {0}
    BY <2>1
  <2>5. Cardinality(Lost') <= Cardinality(Lost) + 1
    BY <2>1, <2>2, <2>3, <2>4, OneMore
  <2> QED
    BY <1>1, <1>3, <2>3, <2>5 DEF OnceInv
<1> QED
  BY <1>1, <1>2, <1>3

LEMMA OnceStep == OnceInv /\ [Next]_vars => OnceInv'
<1> SUFFICES ASSUME OnceInv, [Next]_vars PROVE OnceInv'
  OBVIOUS
<1>1. CASE InsertEntity \/ MarkExtracting \/ Extract \/ MarkVerified \/ Begin \/ Verify
             \/ Facts \/ Restart \/ \E e \in Episodes : Phase1(e)
  <2>1. UNCHANGED <<repeats, crashes, announced, keys>>
        /\ at \notin {"link", "key"} /\ at' \notin {"link", "key"}
    BY <1>1 DEF InsertEntity, MarkExtracting, Extract, MarkVerified, Begin, Verify, Facts,
                Restart, Phase1, Fail, db, seen, outside
  <2> QED
    BY <2>1, NothingLost DEF Lost, UnderWay
<1>2. CASE Link
  <2>1. UNCHANGED <<repeats, crashes, announced, keys>>
    BY <1>2 DEF Link, Fail, db, seen
  <2>2. {"entity", "key"} \cap Faults = {} =>
          at = "link" /\ at' = "key" /\ UNCHANGED <<cur, cand>>
    BY <1>2 DEF Link, MayFail
  <2>3. {"entity", "key"} \cap Faults = {} => UnderWay' = UnderWay
    BY <2>2 DEF UnderWay, KeyOf, Name, Candidates, cand
  <2> QED
    BY <2>1, <2>3, NothingLost DEF Lost
<1>3. CASE RecordKey
  <2>1. UNCHANGED <<repeats, crashes, announced>> /\ at = "key" /\ at' = "insert"
    BY <1>3 DEF RecordKey, outside, seen
  <2>2. {"entity", "key"} \cap Faults = {} => keys' = keys \cup {KeyOf(row)}
    BY <1>3 DEF RecordKey, MayFail
  <2> QED
    BY <2>1, <2>2, NothingLost DEF Lost, UnderWay
<1>4. ASSUME NEW n \in Names, Pin(n) PROVE OnceInv'
  <2>1. /\ UNCHANGED <<repeats, crashes, at, cur, cand>>
        /\ keys' = {k \in keys : k[1] # ent[n].row}
        /\ announced' = {k \in announced : k[1] # ent[n].row}
    BY <1>4 DEF Pin
  <2>2. UnderWay' = UnderWay
    BY <2>1 DEF UnderWay, KeyOf, Name, Candidates, cand
  <2> QED
    BY <2>1, <2>2, NothingLost DEF Lost
<1>5. ASSUME NEW n \in Names, Remove(n) PROVE OnceInv'
  <2>1. UNCHANGED <<repeats, crashes, announced, keys, at, cur, cand>>
    BY <1>5 DEF Remove
  <2>2. UnderWay' = UnderWay
    BY <2>1 DEF UnderWay, KeyOf, Name, Candidates, cand
  <2> QED
    BY <2>1, <2>2, NothingLost DEF Lost
<1>6. CASE UNCHANGED vars
  <2>1. UNCHANGED <<repeats, crashes, announced, keys, at, cur, cand>>
    BY <1>6 DEF vars, db, outside, seen
  <2>2. UnderWay' = UnderWay
    BY <2>1 DEF UnderWay, KeyOf, Name, Candidates, cand
  <2> QED
    BY <2>1, <2>2, NothingLost DEF Lost
<1> QED
  BY <1>1, <1>2, <1>3, <1>4, <1>5, <1>6, CheckKeyOnce, EndOnce DEF Next, Stage

\* While statements on entities and keys succeed, the sink hears of the same entity and
\* type a second time at most once a crash, however many episodes mention it and
\* whichever candidates share a row.
THEOREM AnnouncedOnceACrash == Spec => []AnnouncedOnce
<1>1. Init => OnceInv
  <2>1. ASSUME Init PROVE announced = {} /\ repeats = 0 /\ crashes = 0 /\ Lost = {}
    BY <2>1 DEF Init, Lost
  <2> QED
    BY <2>1, FS_EmptySet DEF OnceInv
<1>2. OnceInv => AnnouncedOnce
  BY Smaller DEF OnceInv, AnnouncedOnce, Lost
<1> QED
  BY <1>1, <1>2, OnceStep, PTL DEF Spec
=============================================================================
