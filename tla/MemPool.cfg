SPECIFICATION FairSpec
CONSTANTS
  c0 = c0 c1 = c1 cA = cA t1 = t1 t2 = t2 t3 = t3 t4 = t4 t5 = t5 t6 = t6
  root = root A1 = A1 A2 = A2 B1 = B1 B2 = B2
  Absent = Absent None = None
  Txs <- McTxs Outputs <- McOutputs Coinbases <- McCoinbases Outs <- McOuts
  Inputs <- McInputs Blocks <- McBlocks Root = root Parent <- McParent
  Path <- McPath Height <- McHeight ChainWork <- McChainWork BlockTxs <- McBlockTxs Bad = {B2}
  RootTxs <- McRootTxs RootCoins <- McRootCoins BornAt <- McBornAt Policies <- McPolicies
  COINBASE_MATURITY = 2 MAX_ORPHAN_TRANSACTIONS = 2
  InitialDownload = {FALSE, TRUE} MaxRestarts = 1
INVARIANTS TypeOK CoinsExact SpendsIndexed PoolConsistent OrphanIndexExact
PROPERTIES OrphansSettled DisconnectKeepsTxs OrphanLoopEnds
CHECK_DEADLOCK FALSE
