SPECIFICATION HostSpec
CONSTANTS
  Rounds = 2
  NonceMod = 4
  Golden <- MCHostGolden
  Junk = Junk
  LOOP_LOG2 = 1
  Miners = {0}
  HeaderAddrs = {0, 44, 95}
  NonceAddr = 44
  LastAddr = 95
  Bytes = {0, 1}
  range = 3
  MaxLoads = 1
  DATA_SIZE = 100
  Digits = {0, 44, 95, 96, 97, 100, 102}
  Getwork = getwork
  Other = other
PROPERTY SegmentsPrinted
