SPECIFICATION FairSpec
CONSTANTS
  Workers = {w1, w2}
  Master = m
  None = None
  c1 = c1
  c2 = c2
  Checks = {c1, c2}
  Fails = {c2}
  nBatchSize = 2
  MaxBlocks = 2
CHECK_DEADLOCK FALSE
INVARIANTS TypeOK ChecksAccounted CountsExact QuietBetweenBlocks
PROPERTIES  WaitReturns
