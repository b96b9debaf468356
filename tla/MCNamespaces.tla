--------------------------- MODULE MCNamespaces ---------------------------
EXTENDS Namespaces, TLC

CONSTANTS g1, g2, s1, a, b, x, y, z, e1, e2, f1, f2, r1, u1

\* The source to forget, and an episode of another namespace, with no source, that
\* shares a name and a fact with it.
MCIn == (e1 :> g1) @@ (e2 :> g2) @@ (f1 :> g1) @@ (f2 :> g1) @@ (r1 :> g1) @@ (u1 :> g1)
MCSourceOf  == (e1 :> s1) @@ (e2 :> None)
MCScope     == (f1 :> s1) @@ (f2 :> All)
MCPolicy    == r1 :> AppendOnly
MCExtracted == (e1 :> {a, b}) @@ (e2 :> {b})
\* z has a subject that its episode does not list, a forward reference.
MCStated    == (e1 :> {x}) @@ (e2 :> {x, y, z})
MCSubjectOf == (x :> b) @@ (y :> b) @@ (z :> a)
MCObjectsOf == (x :> {}) @@ (y :> {}) @@ (z :> {b})
=============================================================================
