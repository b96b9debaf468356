---------------------------- MODULE MCTxnGuard ----------------------------
EXTENDS TxnGuard, TLC

CONSTANTS b, w1, w2, w3, t1, t2, t3

MCTasks == {t1, t2, t3}
MCTaskOf == [w \in Writers |-> CASE w = w1 -> t1 [] w = w2 -> t2 [] OTHER -> t3]

\* w3 is polled by the same task as w1: the two were joined, not spawned.
MCJoinedTaskOf == [w \in Writers |-> IF w = w2 THEN t2 ELSE t1]
=============================================================================
