SPECIFICATION Spec
CONSTANTS
  Workers = {w1}
  Master = m
  None = None
  c1 = c1
  c2 = c2
  Checks = {c1}
  Fails = {}
  nBatchSize = 2
  MaxBlocks = 2
SYMMETRY Symmetry
CHECK_DEADLOCK FALSE
PROPERTY ControlFindsPoolIdle
