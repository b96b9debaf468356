---------------------------- MODULE SerialStore ----------------------------
(***************************************************************************)
(* What the write path of `TemporalGraph` promises to its callers, with no *)
(* connection, lock or transaction in sight: a set of durable statements   *)
(* that grows by one writer's whole batch at a time, and the statements a  *)
(* writer has been told are committed are exactly durable ones.            *)
(***************************************************************************)
EXTENDS Naturals

CONSTANTS Writers,   \* whoever opens a write transaction
          MaxStmts   \* bound: statements one writer ever issues

VARIABLES durable,   \* statements that survive a restart
          acked      \* statements whose commit() returned Ok to the caller

StmtsOf(w) == {w} \X (1..MaxStmts)
Stmts == UNION {StmtsOf(w) : w \in Writers}

Init == durable = {} /\ acked = {}

\* One writer's transaction takes effect: all its statements at once, and the
\* caller learns of it in the same step.
Commit(w) ==
  \E batch \in SUBSET StmtsOf(w) :
    /\ batch \cap durable = {}
    /\ durable' = durable \cup batch
    /\ acked' = acked \cup batch

Next == \E w \in Writers : Commit(w)

Spec == Init /\ [][Next]_<<durable, acked>>
=============================================================================
