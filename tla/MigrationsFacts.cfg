\* The same stores; one end of the process.
SPECIFICATION Spec
CONSTANTS
  a = a
  b = b
  c = c
  d = d
  f = f
  g = g
  x = x
  Entities = {a, b, c, d}
  Facts = {f, g}
  Edges = {x}
  SubjectOf <- MCSubjectOf
  MentionOf <- MCMentionOf
  InitialDbs <- MCInitialDbs
  MaxStops = 1
INVARIANT FactsKept
