SPECIFICATION FairSpec
CONSTANTS
  G = G
  A1 = A1
  A2 = A2
  B1 = B1
  B2 = B2
  B3 = B3
  None = None
  Genesis = G
  Blocks <- MCBlocks
  Parent <- MCParent
  Path <- MCPath
  ChainWork <- MCWork
  Addresses <- MCAddresses
  Bad = {B2}
  Refused = {A2}
  MaxOrphanBlocks = 1
  InitialDownload = {{FALSE}, {TRUE}}
  MaxFile = 0
  MaxFailures = 1
  MaxStops = 1
CHECK_DEADLOCK FALSE
INVARIANTS TypeOK CandidatesExact FailedForAReason BestChainActive OrphansResolved KillRecoverable PowerRecoverable ViewFollowsTip
PROPERTIES ProcessingEnds ImplementsActiveChain
