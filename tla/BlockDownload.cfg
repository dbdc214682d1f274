SPECIFICATION FairSpec
CONSTANTS
  p1 = p1 p2 = p2 h1 = h1 h2 = h2 h3 = h3
  None = None
  Peers = {p1, p2} Hashes = {h1, h2, h3} Local = {p1} Misbehaves = {p2} Knows <- McKnows
  MAX_BLOCKS_IN_TRANSIT_PER_PEER = 2 MaxToDownload = 2
INVARIANTS TypeOK ListsMatchMaps OldestFirst
PROPERTIES StallersGo QueueMoves
