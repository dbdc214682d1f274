SPECIFICATION Spec
CONSTANTS
  G = G
  A1 = A1
  A2 = A2
  B1 = B1
  B2 = B2
  B3 = B3
  None = None
  Genesis = G
  Blocks <- MCBlocks
  Parent <- MCParent
  Path <- MCPath
  ChainWork <- MCWork
  Addresses <- MCAddresses
  Bad = {B2}
  Refused = {}
  MaxOrphanBlocks = 1
  InitialDownload = {{FALSE}}
  MaxFile = 0
  MaxFailures = 1
  MaxStops = 0
CHECK_DEADLOCK FALSE
INVARIANT AssertionHolds
