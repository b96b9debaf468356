\* Two of three writers joined in one task, a task that writes with no guard,
\* cancellation and a crash; COMMIT succeeds and a runtime is always there.
SPECIFICATION FairSpec
CONSTANTS
  b = b
  w1 = w1
  w2 = w2
  w3 = w3
  t1 = t1
  t2 = t2
  t3 = t3
  None = None
  Free = Free
  Cleanup = Cleanup
  Tasks <- MCTasks
  Writers = {w1, w2, w3}
  Bare = {b}
  TaskOf <- MCJoinedTaskOf
  MaxStmts = 1
  MaxDepth = 1
  MaxCrashes = 1
  CommitMayFail = FALSE
  NoRuntimeDrop = FALSE
INVARIANTS ConnectionUsable
PROPERTIES WaitersServed
CHECK_DEADLOCK FALSE
