\* Two runs and a skipped call of one batch, an inline call, cancels anywhere.
SPECIFICATION FairSpec
CONSTANTS
  r1 = r1
  r2 = r2
  i1 = i1
  i2 = i2
  b1 = b1
  NoBatch = NoBatch
  Background = {r1, r2}
  Inline = {i1, i2}
  Skipping = {i2}
  Batches = {b1}
  BatchOf <- MCBatchOf
INVARIANTS CountedOnce DoneMeansEnded
PROPERTIES VerdictStands BatchesEnd
CHECK_DEADLOCK FALSE
