\* Four senders, a channel of two, and both ways of shutting down.
SPECIFICATION FairSpec
CONSTANTS
  r1 = r1
  r2 = r2
  r3 = r3
  r4 = r4
  b1 = b1
  b2 = b2
  NoBatch = NoBatch
  Nothing = Nothing
  Requests = {r1, r2, r3, r4}
  Batches = {b1, b2}
  BatchOf <- MCBatchOf
  Capacity = 2
  DeferredEnabled = TRUE
  Phase1MayFail = TRUE
INVARIANTS DepthNeverWraps NeverEarly OutcomesAccounted GracefulExit
PROPERTIES JoinReturns AcceptedServed
CHECK_DEADLOCK FALSE
