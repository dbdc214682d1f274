SPECIFICATION Spec
CONSTANTS
  Rounds = 64
  NonceMod = 256
  LoopLog2s = {0, 1, 2, 5}
  Golden <- MCGolden
  Headers <- MCHeaders
  MaxLoads = 1
  MaxHolds = 2
  MaxWait = 70
  Horizon = 400
  Idle = Idle
  Junk = Junk
  A = A
  B = B
INVARIANTS TypeOK NewestGoldenShown
PROPERTY TicketNamesNonce
CHECK_DEADLOCK FALSE
