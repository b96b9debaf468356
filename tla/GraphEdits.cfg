\* Merges, edits and deletions and every reversal, in any order.
SPECIFICATION Spec
CONSTANTS
  a = a
  b = b
  c = c
  f1 = f1
  f2 = f2
  ep1 = ep1
  ep2 = ep2
  t1 = t1
  t2 = t2
  k1 = k1
  Literal = Literal
  Ids = {a, b, c}
  Facts = {f1, f2}
  Episodes = {ep1, ep2}
  Communities = {k1}
  Types = {t1, t2}
  InitialGraphs <- MCChain
  Ops <- MCEditOps
  MaxLog = 2
INVARIANTS OneHome MergeUndoExact EditUndoExact DeleteUndoExact
PROPERTIES FactsNeverLost
CHECK_DEADLOCK FALSE
