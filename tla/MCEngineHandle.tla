--------------------------- MODULE MCEngineHandle ---------------------------
EXTENDS EngineHandle, TLC

CONSTANTS r1, r2, i1, i2, b1

\* A batch of two runs and a skipped call, and an inline call that is in none.
MCBatchOf == r1 :> b1 @@ r2 :> b1 @@ i1 :> NoBatch @@ i2 :> b1
=============================================================================
