\* Merges and their reversals in any admitted order, beside ingest.
SPECIFICATION Spec
CONSTANTS
  a = a
  b = b
  c = c
  f1 = f1
  f2 = f2
  ep1 = ep1
  ep2 = ep2
  t1 = t1
  t2 = t2
  k1 = k1
  Literal = Literal
  Ids = {a, b, c}
  Facts = {f1, f2}
  Episodes = {ep1, ep2}
  Communities = {k1}
  Types = {t1}
  InitialGraphs <- MCInitial
  Ops <- MCMergeOps
  MaxLog = 3
INVARIANTS AllUndoneRestores EndpointsSound
CHECK_DEADLOCK FALSE
