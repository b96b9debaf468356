\* Three episodes that mention each other's entities, the LLM, edges that fail, one
\* end of the process: every episode comes to an end.
SPECIFICATION FairSpec
CONSTANTS
  e1 = e1
  e2 = e2
  e3 = e3
  a = a
  b = b
  Episodes = {e1, e2, e3}
  Names = {a, b}
  Mentions <- MCMentions
  Types = {0, 1}
  VerifyLlm = FALSE
  Interval = 2
  MaxStops = 1
  MaxEdits = 1
  Edits = {"pin"}
  Faults = {"extract", "edge", "facts"}
INVARIANTS AnnouncedOnce
PROPERTIES Reported Settles
CHECK_DEADLOCK FALSE
