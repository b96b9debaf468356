\* A caller who goes by the log, others who go by the fact, ingest, the dream pass and
\* one end of the process, on one fact, which may be stated again.
SPECIFICATION FairSpec
CONSTANTS
  stated = stated
  dreamt = dreamt
  subject = subject
  None = None
  Facts = {stated, dreamt}
  Initial = {stated}
  Dreamed = {dreamt}
  HashOf <- MCHashOf
  EndsOf <- MCEndsOf
  ValidFrom <- MCValidFrom
  Grace = 1
  Floor = 2
  Callers = {1}
  Worked = {stated}
  MaxTime = 2
  Bounds = {0, 1}
  MaxLog = 2
  MaxCrashes = 1
INVARIANTS ArchivedIsListed ArchivedLapsed BoundIsListed
PROPERTIES WindowsClose
CHECK_DEADLOCK FALSE
