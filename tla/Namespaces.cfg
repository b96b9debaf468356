\* Ingests in two namespaces, a forget by source and one of the namespace,
\* beside a registration and an upgrade, with a crash.
SPECIFICATION Spec
CONSTANTS
  g1 = g1
  g2 = g2
  s1 = s1
  a = a
  b = b
  x = x
  y = y
  z = z
  e1 = e1
  e2 = e2
  f1 = f1
  f2 = f2
  r1 = r1
  u1 = u1
  Default = Default
  AppendOnly = AppendOnly
  None = None
  All = All
  Groups = {g1, g2}
  Names = {a, b}
  Facts = {x, y, z}
  Sources = {s1}
  Episodes = {e1, e2}
  Forgets = {f1, f2}
  Registers = {r1}
  Upgrades = {u1}
  In <- MCIn
  SourceOf <- MCSourceOf
  Scope <- MCScope
  Policy <- MCPolicy
  Extracted <- MCExtracted
  Stated <- MCStated
  SubjectOf <- MCSubjectOf
  ObjectsOf <- MCObjectsOf
  OtherPolicies = {}
  MaxCrashes = 1
INVARIANTS AppendOnlyStands SharedKept ErasureStands
CHECK_DEADLOCK FALSE
