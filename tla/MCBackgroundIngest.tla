------------------------ MODULE MCBackgroundIngest ------------------------
EXTENDS BackgroundIngest

CONSTANTS r1, r2, r3, r4, b1, b2

\* Two requests of one batch, one of another and one that is in none.
MCBatchOf == (r1 :> b1) @@ (r2 :> b1) @@ (r3 :> b2) @@ (r4 :> NoBatch)
=============================================================================
