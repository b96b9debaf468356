\* A fresh store and six that four releases left, and the process ends up to twice, anywhere.
SPECIFICATION FairSpec
CONSTANTS
  a = a
  b = b
  c = c
  d = d
  f = f
  g = g
  x = x
  Entities = {a, b, c, d}
  Facts = {f, g}
  Edges = {x}
  SubjectOf <- MCSubjectOf
  MentionOf <- MCMentionOf
  InitialDbs <- MCInitialDbs
  MaxStops = 2
INVARIANTS Recoverable Kept
PROPERTIES NoOp Opens
