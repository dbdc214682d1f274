SPECIFICATION FairSpec
CONSTANTS
  Rounds = 2
  NonceMod = 4
  Golden <- MCGolden
  Junk = Junk
  LOOP_LOG2 = 1
  Miners = {0, 1}
  HeaderAddrs = {0, 44, 95}
  NonceAddr = 44
  LastAddr = 95
  Bytes = {0, 1}
  range = 3
  MaxLoads = 2
INVARIANTS TypeOK SettledCoreMinesHeader
PROPERTIES ImplementsPhases RefreshShowsGolden TicketStops
