-------------------------- MODULE MCGraphMutations --------------------------
EXTENDS GraphMutations, TLC

CONSTANTS a, b, c, f1, f2, ep1, ep2, t1, t2, k1

Row(i, n) == [props |-> i, ac |-> n, ty |-> t1]
Stated(s, o) == [s |-> s, o |-> o, hash |-> <<s, o>>, exp |-> "no", inert |-> FALSE]

\* Three entities in a chain of two facts; two of them share an episode, and all
\* are in the one community.
Chain ==
  [ent |-> [i \in {a, b, c} |-> Row(i, 1)],
   live |-> (f1 :> Stated(a, b)) @@ (f2 :> Stated(b, c)),
   arch |-> <<>>,
   edges |-> {<<ep1, a>>, <<ep1, b>>, <<ep2, a>>},
   comm |-> [i \in {a, b, c} |-> k1],
   nogood |-> {}]

\* A pair stated in both directions, and a third entity that has no fact.
Mutual ==
  [Chain EXCEPT !.live = (f1 :> Stated(a, b)) @@ (f2 :> Stated(b, a)),
                !.edges = {<<ep1, b>>, <<ep2, b>>, <<ep2, c>>},
                !.comm = (c :> k1)]

\* One fact, with room for another to be added.
Sparse ==
  [Chain EXCEPT !.live = (f1 :> Stated(a, b)), !.comm = (a :> k1)]

MCInitial == {Chain, Mutual, Sparse}
MCChain == {Chain}
MCMergeOps == {"merge", "fact", "entity"}
MCEditOps == OpNames \ {"fact", "entity"}
=============================================================================
