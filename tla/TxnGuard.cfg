\* Separate tasks, every failure of COMMIT and of Drop, a crash: the safety of
\* the write path and its refinement of SerialStore.
SPECIFICATION Spec
CONSTANTS
  b = b
  w1 = w1
  w2 = w2
  w3 = w3
  t1 = t1
  t2 = t2
  t3 = t3
  None = None
  Free = Free
  Cleanup = Cleanup
  Tasks <- MCTasks
  Writers = {w1, w2, w3}
  Bare = {}
  TaskOf <- MCTaskOf
  MaxStmts = 2
  MaxDepth = 1
  MaxCrashes = 1
  CommitMayFail = TRUE
  NoRuntimeDrop = TRUE
INVARIANTS WritesIsolated AckedDurable AbortedNeverDurable
PROPERTIES Implements
CHECK_DEADLOCK FALSE
