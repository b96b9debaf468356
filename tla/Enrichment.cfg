\* Two episodes, the LLM in the loop, every fault, one crash and one edit by a caller.
SPECIFICATION Spec
CONSTANTS
  e1 = e1
  e2 = e2
  e3 = e3
  a = a
  b = b
  Episodes = {e1, e2}
  Names = {a, b}
  Mentions <- MCPair
  Types = {0, 1}
  VerifyLlm = TRUE
  Interval = 1
  MaxStops = 1
  MaxEdits = 1
  Edits = {"pin", "remove"}
  Faults = {"phase1", "status", "extract", "entity", "edge", "key", "facts"}
INVARIANTS ReadyMeansIndexed SkippedWasIndexed
PROPERTIES StatusForward
CHECK_DEADLOCK FALSE
