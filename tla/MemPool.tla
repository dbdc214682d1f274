------------------------------ MODULE MemPool -------------------------------
(***************************************************************************)
(* The memory pool (txmempool.cpp), the orphan transactions and what       *)
(* connecting and disconnecting blocks does to both (main.cpp), over the   *)
(* coins of pcoinsTip and of the database.                                 *)
(*                                                                         *)
(* Every handler runs under cs_main.  The two loops that accept one        *)
(* transaction after another, over a disconnected block and over the       *)
(* orphans of an accepted transaction, take a step per transaction, and    *)
(* nothing else runs before they end.  Entries pcoinsTip only read from    *)
(* the database are not kept: they change no answer of the view            *)
(* (CoinsViewProofs!FetchChangesNothing).  Failing writes, which abort the *)
(* node, are in BlockChain.                                                *)
(***************************************************************************)
EXTENDS CoinsView, Integers, Sequences, FiniteSets

CONSTANTS
  Coinbases,         \* transactions without inputs
  Outs,              \* Outs[t]: output positions of t
  Inputs,            \* Inputs[t]: the outpoints <<transaction, position>> t spends
  Blocks,
  Root,              \* the tip in common of all chains considered
  Parent, Path,      \* Path[b]: the blocks from Root to b
  Height, ChainWork, \* nHeight and nChainWork
  BlockTxs,          \* BlockTxs[b]: sequence of the transactions of b
  Bad,               \* blocks ConnectBlock refuses
  RootTxs,           \* transactions of the chain up to Root
  RootCoins,         \* their unspent outputs
  BornAt,            \* BornAt[c]: height of coinbase c
  COINBASE_MATURITY,
  MAX_ORPHAN_TRANSACTIONS,
  Policies,          \* what the node refuses: before it looks for the inputs (early),
                     \* after (late), and for its fee, if fLimitFree is set (cheap)
  InitialDownload,   \* whether IsInitialBlockDownload() holds at the start
  MaxRestarts,       \* bound: crashes
  None

ElementsOf(s) == {s[i] : i \in DOMAIN s}
TxsOf(b) == ElementsOf(BlockTxs[b])
SpentIn(b) == UNION {Inputs[t] : t \in TxsOf(b)}
Outpoints == {<<t, n>> : t \in Txs, n \in Outputs}
Parents(t) == {i[1] : i \in Inputs[t]}

\* The unspent outputs of a chain: the reference the coins are compared with.
ChainTxs(b) == UNION {TxsOf(a) : a \in Path[b] \ {Root}}
ChainSpends(b) == UNION {SpentIn(a) : a \in Path[b] \ {Root}}
Utxo(b) ==
  [t \in Txs |->
     {n \in (IF t \in ChainTxs(b) THEN Outs[t] ELSE RootCoins[t]) :
        <<t, n>> \notin ChainSpends(b)}]

ASSUME BlockTree ==
  /\ Root \in Blocks /\ None \notin Blocks /\ Bad \subseteq Blocks \ {Root}
  /\ Parent \in [Blocks -> Blocks] /\ Path \in [Blocks -> SUBSET Blocks]
  /\ Height \in [Blocks -> Nat] /\ ChainWork \in [Blocks -> Nat] /\ Path[Root] = {Root}
  /\ \A b \in Blocks \ {Root} :
       /\ b \notin Path[Parent[b]] /\ Path[b] = Path[Parent[b]] \cup {b}
       /\ Height[b] = Height[Parent[b]] + 1 /\ ChainWork[b] > ChainWork[Parent[b]]
  /\ \A b \in Blocks : Root \in Path[b] /\ \A a \in Path[b] : Path[a] \subseteq Path[b]
  /\ \A b \in Blocks : \A a \in Path[b] \ {b} : \E c \in Path[b] \ {Root} : Parent[c] = a

ASSUME TransactionAssumption ==
  /\ Coinbases \subseteq Txs /\ None \notin Txs
  /\ Outs \in [Txs -> SUBSET Outputs] /\ RootCoins \in [Txs -> SUBSET Outputs]
  /\ \A t \in Txs : RootCoins[t] \subseteq Outs[t]
  /\ Inputs \in [Txs -> SUBSET Outpoints]
  /\ \A t \in Txs : t \in Coinbases <=> Inputs[t] = {}
  /\ BornAt \in [Coinbases -> Nat]
  /\ BlockTxs \in [Blocks -> Seq(Txs)]

ASSUME NodeAssumption ==
  /\ COINBASE_MATURITY \in Nat /\ MAX_ORPHAN_TRANSACTIONS \in Nat /\ MaxRestarts \in Nat
  /\ InitialDownload \subseteq BOOLEAN
  /\ \A p \in Policies : p.early \subseteq Txs /\ p.late \subseteq Txs /\ p.cheap \subseteq Txs

\* What is spent up to Root is not unspent there.
ASSUME RootAssumption ==
  /\ RootTxs \subseteq Txs
  /\ \A t \in Txs : RootCoins[t] # {} => t \in RootTxs
  /\ \A t \in RootTxs : \A o \in Inputs[t] : o[1] \in RootTxs /\ o[2] \notin RootCoins[o[1]]

\* Blocks hold what CheckBlock and ConnectBlock let through: a transaction is in a
\* chain once, and spends each output once, after the transaction that makes it,
\* and that of a coinbase when it is mature.
ASSUME ChainAssumption ==
  \A b \in Blocks \ {Root} :
    /\ TxsOf(b) \cap (ChainTxs(Parent[b]) \cup RootTxs) = {}
    /\ \A i, j \in DOMAIN BlockTxs[b] : BlockTxs[b][i] = BlockTxs[b][j] => i = j
    /\ \A c \in TxsOf(b) \cap Coinbases : BornAt[c] = Height[b]
    /\ \A t \in TxsOf(b) : \A c \in Parents(t) \cap Coinbases :
         Height[b] >= BornAt[c] + COINBASE_MATURITY
    /\ \A o \in ChainSpends(Parent[b]) : o[1] \notin TxsOf(b)
    /\ \A o \in SpentIn(b) : \/ o[2] \in Utxo(Parent[b])[o[1]]
                             \/ o[1] \in TxsOf(b) /\ o[2] \in Outs[o[1]]
    /\ \A t, u \in TxsOf(b) : t # u => Inputs[t] \cap Inputs[u] = {}

VARIABLES
  known,          \* blocks in mapBlockIndex
  failed,         \* those marked BLOCK_FAILED_MASK
  target,         \* chainMostWork.Tip()
  chainTip,       \* chainActive.Tip()
  initialDownload,
  restarts        \* crashes so far

VARIABLES
  db, dbBest,     \* the database of coins and its best block
  cacheCoins,     \* entries of pcoinsTip written since its last Flush
  hashBlock       \* best block of pcoinsTip, None while not read

VARIABLES
  mapTx,
  mapNextTx,      \* mapNextTx[o]: the transaction of the pool that spends o, or None
  policy

VARIABLES
  mapOrphanTransactions,
  mapOrphanTransactionsByPrev,
  vWorkQueue,     \* accepted transactions whose orphans are to be tried
  tried,          \* orphans tried for the first of them
  vEraseQueue,
  resurrect       \* transactions of a disconnected block to be accepted again

chainVars == <<known, failed, target, chainTip, initialDownload, restarts>>
coinVars == <<db, dbBest, cacheCoins, hashBlock>>
poolVars == <<mapTx, mapNextTx>>
orphanVars == <<mapOrphanTransactions, mapOrphanTransactionsByPrev>>
loopVars == <<vWorkQueue, tried, vEraseQueue>>
vars == <<chainVars, coinVars, poolVars, policy, orphanVars, loopVars, resurrect>>

DBOf(coins) == [t \in Txs |-> IF coins[t] = {} THEN Absent ELSE coins[t]]

Init ==
  /\ known = {Root} /\ failed = {} /\ target = Root /\ chainTip = Root
  /\ initialDownload \in InitialDownload
  /\ restarts = 0
  /\ db = DBOf(RootCoins) /\ dbBest = Root
  /\ cacheCoins = NoCoins /\ hashBlock = None
  /\ mapTx = {} /\ mapNextTx = [o \in Outpoints |-> None]
  /\ policy \in Policies
  /\ mapOrphanTransactions = {}
  /\ mapOrphanTransactionsByPrev = [t \in Txs |-> {}]
  /\ vWorkQueue = <<>> /\ tried = {} /\ vEraseQueue = {}
  /\ resurrect = <<>>

----------------------------------------------------------------------------
(***************************************************************************)
(* AcceptToMemoryPool and its view: the pool over pcoinsTip.               *)
(***************************************************************************)

TipView == Over(cacheCoins, db)
BestBlock == IF hashBlock = None THEN dbBest ELSE hashBlock

\* GetCoins of CCoinsViewMemPool: the view below is asked first, so that an entry
\* it knows to be pruned hides a transaction of the pool.
PoolView ==
  [t \in Txs |-> IF TipView[t] # Absent THEN TipView[t]
                 ELSE IF t \in mapTx THEN Outs[t] ELSE Absent]

\* CheckInputs: nSpendHeight - coins.nHeight, the spend being in the next block.
Mature(c) == Height[BestBlock] + 1 - BornAt[c] >= COINBASE_MATURITY

\* What is found out before the inputs are looked for.
Considered(t) ==
  /\ t \notin Coinbases /\ t \notin policy.early
  /\ t \notin mapTx
  /\ \A o \in Inputs[t] : mapNextTx[o] = None
  /\ ~HaveCoins(PoolView, t)

MissingInputs(t) ==
  Considered(t) /\ \E p \in Parents(t) : ~HaveCoins(PoolView, p)

\* A slip: whether the outputs themselves are there is not looked at.
SpentBlindAcceptable(t) ==
  /\ Considered(t)
  /\ \A p \in Parents(t) : HaveCoins(PoolView, p)
  /\ \A c \in Parents(t) \cap Coinbases : Mature(c)
  /\ t \notin policy.late

\* AcceptToMemoryPool accepts t, without fLimitFree.
Acceptable(t) ==
  /\ Considered(t)
  /\ \A o \in Inputs[t] : HaveCoins(PoolView, o[1]) /\ o[2] \in PoolView[o[1]]
  /\ \A c \in Parents(t) \cap Coinbases : Mature(c)
  /\ t \notin policy.late

\* With fLimitFree: nor is its fee too low, or its rate too high.
Relayable(t) == Acceptable(t) /\ t \notin policy.cheap

addUnchecked(t) ==
  /\ mapTx' = mapTx \cup {t}
  /\ mapNextTx' = [o \in Outpoints |-> IF o \in Inputs[t] THEN t ELSE mapNextTx[o]]

----------------------------------------------------------------------------
(***************************************************************************)
(* CTxMemPool::remove with fRecursive: along mapNextTx, also from a        *)
(* transaction that is not in the pool itself.                             *)
(***************************************************************************)

ClosedUnderSpending(s) ==
  \A t \in s, n \in Outputs : mapNextTx[<<t, n>>] \in s \cup {None}

WithDescendants(s) ==
  {u \in Txs : \A c \in SUBSET Txs : s \subseteq c /\ ClosedUnderSpending(c) => u \in c}

\* A slip: the spends of what is removed stay in mapNextTx.
removeLeavingSpends(s) ==
  /\ mapTx' = mapTx \ s
  /\ UNCHANGED mapNextTx

removeTxs(s) ==
  LET spends == UNION {Inputs[t] : t \in s \cap mapTx}
  IN /\ mapTx' = mapTx \ s
     /\ mapNextTx' = [o \in Outpoints |-> IF o \in spends THEN None ELSE mapNextTx[o]]

----------------------------------------------------------------------------
(***************************************************************************)
(* The chain: ActivateBestChain with what it does to coins and pool.       *)
(***************************************************************************)

Idle == vWorkQueue = <<>> /\ resurrect = <<>>
AtRest == Idle /\ chainTip = target

Candidates(ks, fs) == {b \in ks : Path[b] \cap fs = {}}
MostWork(ks, fs) ==
  {b \in Candidates(ks, fs) : \A c \in Candidates(ks, fs) : ChainWork[c] <= ChainWork[b]}

\* FindMostWorkChain, which stays at its choice unless there is a better one;
\* BlockChain has the whole of it.
FindMostWorkChain(ks, fs) ==
  target' \in (IF target \in MostWork(ks, fs) THEN {target} ELSE MostWork(ks, fs))

NewBlock(b) ==
  /\ AtRest
  /\ b \in Blocks \ known /\ Parent[b] \in known
  /\ known' = known \cup {b}
  /\ FindMostWorkChain(known', failed)
  /\ UNCHANGED <<failed, chainTip, initialDownload, restarts, coinVars, poolVars, policy,
                 orphanVars, loopVars, resurrect>>

\* What the view of ConnectBlock, and of DisconnectBlock, hands to pcoinsTip.
ConnectedCoins(b) ==
  [t \in Txs |->
     LET spent == {n \in Outputs : <<t, n>> \in SpentIn(b)}
     IN IF t \in TxsOf(b) THEN Outs[t] \ spent
        ELSE IF spent # {} THEN Unspent(TipView)[t] \ spent ELSE Absent]

\* A slip: the outputs of the block's own transactions are left.
HalfDisconnectedCoins(b) ==
  [t \in Txs |->
     LET spent == {n \in Outputs : <<t, n>> \in SpentIn(b)}
     IN IF spent # {} THEN Unspent(TipView)[t] \cup spent ELSE Absent]

DisconnectedCoins(b) ==
  [t \in Txs |->
     LET spent == {n \in Outputs : <<t, n>> \in SpentIn(b)}
     IN IF t \in TxsOf(b) THEN Pruned
        ELSE IF spent # {} THEN Unspent(TipView)[t] \cup spent ELSE Absent]

\* A slip: the best block is left for the next flush.
FlushCoinsOnly(entries, best) ==
  /\ hashBlock' = best
  /\ db' = BatchWriteDB(db, BatchWrite(cacheCoins, entries))
  /\ cacheCoins' = NoCoins
  /\ UNCHANGED dbBest

\* view.Flush(), then WriteChainState: pcoinsTip is flushed unless the node is
\* in initial download and neither the cache is full nor ten minutes have passed.
WriteChainState(entries, best) ==
  /\ hashBlock' = best
  /\ \/ /\ db' = BatchWriteDB(db, BatchWrite(cacheCoins, entries)) /\ dbBest' = best
        /\ cacheCoins' = NoCoins
     \/ /\ initialDownload
        /\ cacheCoins' = BatchWrite(cacheCoins, entries)
        /\ UNCHANGED <<db, dbBest>>

NextBlock == CHOOSE b \in Path[target] : b # Root /\ Parent[b] = chainTip

\* remove and removeConflicts, for the transactions of the block.
Conflicts(b) == {mapNextTx[o] : o \in SpentIn(b)} \ ({None} \cup TxsOf(b))

ConnectTip ==
  /\ Idle /\ chainTip # target /\ chainTip \in Path[target]
  /\ LET b == NextBlock
     IN /\ b \notin Bad
        /\ WriteChainState(ConnectedCoins(b), b)
        /\ removeTxs(TxsOf(b) \cup WithDescendants(Conflicts(b)))
        /\ chainTip' = b
  /\ UNCHANGED <<known, failed, target, initialDownload, restarts, policy, orphanVars,
                 loopVars, resurrect>>

\* The view is thrown away; the block and its descendants are no candidates.
ConnectFails ==
  /\ Idle /\ chainTip # target /\ chainTip \in Path[target]
  /\ NextBlock \in Bad
  /\ failed' = failed \cup {NextBlock}
  /\ FindMostWorkChain(known, failed')
  /\ UNCHANGED <<known, chainTip, initialDownload, restarts, coinVars, poolVars, policy,
                 orphanVars, loopVars, resurrect>>

DisconnectTip ==
  /\ Idle /\ chainTip \notin Path[target]
  /\ WriteChainState(DisconnectedCoins(chainTip), Parent[chainTip])
  /\ resurrect' = BlockTxs[chainTip]
  /\ chainTip' = Parent[chainTip]
  /\ UNCHANGED <<known, failed, target, initialDownload, restarts, poolVars, policy,
                 orphanVars, loopVars>>

\* "Resurrect mempool transactions from the disconnected block", or remove what
\* depends on them.
Resurrect ==
  /\ resurrect # <<>>
  /\ LET t == Head(resurrect)
     IN IF t \in Coinbases THEN UNCHANGED poolVars
        ELSE IF Acceptable(t) THEN addUnchecked(t)
        ELSE removeTxs(WithDescendants({t}))
  /\ resurrect' = Tail(resurrect)
  /\ UNCHANGED <<chainVars, coinVars, policy, orphanVars, loopVars>>

\* IsInitialBlockDownload() becomes FALSE.
DownloadEnds ==
  /\ Idle /\ initialDownload
  /\ initialDownload' = FALSE
  /\ UNCHANGED <<known, failed, target, chainTip, restarts, coinVars, poolVars, policy,
                 orphanVars, loopVars, resurrect>>

----------------------------------------------------------------------------
(***************************************************************************)
(* Transactions from the network and from the node itself.                 *)
(***************************************************************************)

AddOrphanTx(t) ==
  /\ mapOrphanTransactions' = mapOrphanTransactions \cup {t}
  /\ mapOrphanTransactionsByPrev' =
       [p \in Txs |-> IF p \in Parents(t) THEN mapOrphanTransactionsByPrev[p] \cup {t}
                      ELSE mapOrphanTransactionsByPrev[p]]

\* AddOrphanTx, then EraseOrphanTx of a random orphan (LimitOrphanTxSize).
AddOrphanTxEvicting(t, victim) ==
  /\ mapOrphanTransactions' = (mapOrphanTransactions \cup {t}) \ {victim}
  /\ mapOrphanTransactionsByPrev' =
       [p \in Txs |-> (IF p \in Parents(t) THEN mapOrphanTransactionsByPrev[p] \cup {t}
                       ELSE mapOrphanTransactionsByPrev[p])
                        \ {o \in {victim} : p \in Parents(o)}]

\* A slip: erased orphans stay in the index.
EraseUnindexed(s) ==
  /\ mapOrphanTransactions' = mapOrphanTransactions \ s
  /\ UNCHANGED mapOrphanTransactionsByPrev

EraseOrphanTxs(s) ==
  /\ mapOrphanTransactions' = mapOrphanTransactions \ s
  /\ mapOrphanTransactionsByPrev' =
       [p \in Txs |-> mapOrphanTransactionsByPrev[p]
                        \ {o \in s \cap mapOrphanTransactions : p \in Parents(o)}]

TxMessage(t) ==
  /\ AtRest
  /\ \/ /\ Relayable(t)
        /\ addUnchecked(t)
        /\ vWorkQueue' = <<t>> /\ vEraseQueue' = {t}
        /\ UNCHANGED orphanVars
     \/ /\ MissingInputs(t)
        /\ IF Cardinality(mapOrphanTransactions \cup {t}) <= MAX_ORPHAN_TRANSACTIONS
           THEN AddOrphanTx(t)
           ELSE \E victim \in mapOrphanTransactions \cup {t} : AddOrphanTxEvicting(t, victim)
        /\ UNCHANGED <<poolVars, vWorkQueue, vEraseQueue>>
  /\ UNCHANGED <<chainVars, coinVars, policy, tried, resurrect>>

\* A transaction of the wallet or of sendrawtransaction: without fLimitFree, and no
\* orphan is looked at.
SubmitTx(t) ==
  /\ AtRest
  /\ Acceptable(t)
  /\ addUnchecked(t)
  /\ UNCHANGED <<chainVars, coinVars, policy, orphanVars, loopVars, resurrect>>

\* A slip: the orphans of an accepted orphan are not tried.
TryOrphanOnce ==
  /\ vWorkQueue # <<>>
  /\ \E o \in mapOrphanTransactionsByPrev[Head(vWorkQueue)] \ tried :
       /\ tried' = tried \cup {o}
       /\ UNCHANGED vWorkQueue
       /\ IF Relayable(o)
          THEN addUnchecked(o) /\ vEraseQueue' = vEraseQueue \cup {o}
          ELSE /\ vEraseQueue' = IF MissingInputs(o) THEN vEraseQueue
                                 ELSE vEraseQueue \cup {o}
               /\ UNCHANGED poolVars
  /\ UNCHANGED <<chainVars, coinVars, policy, orphanVars, resurrect>>

\* A slip: an orphan that still misses an input is looked at again and again.
TryOrphanStuck ==
  /\ vWorkQueue # <<>>
  /\ \E o \in mapOrphanTransactionsByPrev[Head(vWorkQueue)] \ tried :
       IF Relayable(o)
       THEN /\ addUnchecked(o) /\ vWorkQueue' = Append(vWorkQueue, o)
            /\ vEraseQueue' = vEraseQueue \cup {o} /\ tried' = tried \cup {o}
       ELSE /\ ~MissingInputs(o)
            /\ vEraseQueue' = vEraseQueue \cup {o} /\ tried' = tried \cup {o}
            /\ UNCHANGED <<poolVars, vWorkQueue>>
  /\ UNCHANGED <<chainVars, coinVars, policy, orphanVars, resurrect>>

\* "Recursively process any orphan transactions that depended on this one":
\* the orphans of the first hash of the queue, in any order of their hashes.
TryOrphan ==
  /\ vWorkQueue # <<>>
  /\ \E o \in mapOrphanTransactionsByPrev[Head(vWorkQueue)] \ tried :
       /\ tried' = tried \cup {o}
       /\ IF Relayable(o)
          THEN addUnchecked(o) /\ vWorkQueue' = Append(vWorkQueue, o)
               /\ vEraseQueue' = vEraseQueue \cup {o}
          ELSE /\ vEraseQueue' = IF MissingInputs(o) THEN vEraseQueue
                                 ELSE vEraseQueue \cup {o}
               /\ UNCHANGED <<poolVars, vWorkQueue>>
  /\ UNCHANGED <<chainVars, coinVars, policy, orphanVars, resurrect>>

NextHash ==
  /\ vWorkQueue # <<>>
  /\ mapOrphanTransactionsByPrev[Head(vWorkQueue)] \subseteq tried
  /\ vWorkQueue' = Tail(vWorkQueue) /\ tried' = {}
  /\ IF vWorkQueue' = <<>>
     THEN EraseOrphanTxs(vEraseQueue) /\ vEraseQueue' = {}
     ELSE UNCHANGED <<orphanVars, vEraseQueue>>
  /\ UNCHANGED <<chainVars, coinVars, poolVars, policy, resurrect>>

\* The process dies, between two steps of anything, and starts again: what is
\* left are the database and the block index.  There is no chainMostWork: of chains
\* with the same work it may come back on another one.
Restart ==
  /\ restarts < MaxRestarts /\ restarts' = restarts + 1
  /\ chainTip' = dbBest
  /\ target' \in MostWork(known, failed)
  /\ cacheCoins' = NoCoins /\ hashBlock' = None
  /\ mapTx' = {} /\ mapNextTx' = [o \in Outpoints |-> None]
  /\ mapOrphanTransactions' = {}
  /\ mapOrphanTransactionsByPrev' = [t \in Txs |-> {}]
  /\ vWorkQueue' = <<>> /\ tried' = {} /\ vEraseQueue' = {} /\ resurrect' = <<>>
  /\ initialDownload' \in InitialDownload
  /\ UNCHANGED <<known, failed, db, dbBest, policy>>

Next ==
  \/ \E b \in Blocks : NewBlock(b)
  \/ ConnectTip
  \/ ConnectFails
  \/ DisconnectTip
  \/ Resurrect
  \/ DownloadEnds
  \/ \E t \in Txs : TxMessage(t)
  \/ \E t \in Txs : SubmitTx(t)
  \/ TryOrphan
  \/ NextHash
  \/ Restart

Spec == Init /\ [][Next]_vars

\* A handler that has begun goes on: the loops are straight-line code.
FairSpec == Spec /\ WF_vars(TryOrphan) /\ WF_vars(NextHash)

----------------------------------------------------------------------------
(***************************************************************************)
(* Properties.                                                             *)
(***************************************************************************)

\* Every variable has a value of its type.
TypeOK ==
  /\ known \subseteq Blocks /\ Root \in known /\ failed \subseteq known
  /\ target \in known /\ chainTip \in known
  /\ initialDownload \in BOOLEAN /\ restarts \in 0..MaxRestarts
  /\ db \in DatabaseViews /\ dbBest \in known
  /\ cacheCoins \in Views /\ hashBlock \in known \cup {None}
  /\ mapTx \subseteq Txs \ Coinbases
  /\ mapNextTx \in [Outpoints -> Txs \cup {None}]
  /\ policy \in Policies
  /\ mapOrphanTransactions \subseteq Txs \ Coinbases
  /\ mapOrphanTransactionsByPrev \in [Txs -> SUBSET Txs]
  /\ vWorkQueue \in Seq(Txs) /\ tried \subseteq Txs
  /\ vEraseQueue \subseteq Txs /\ resurrect \in Seq(Txs)

\* Through all the caches pcoinsTip offers exactly the outputs that the chain up
\* to its best block has left unspent, and the database those of its own best
\* block, whatever was flushed and whenever the process died.
CoinsExact ==
  /\ Unspent(TipView) = Utxo(BestBlock)
  /\ Unspent(db) = Utxo(dbBest)
  /\ BestBlock = chainTip

\* mapNextTx is the inverse of the inputs of the transactions in mapTx: no
\* transaction is missing in it, none that has left is in it, and no two spend
\* the same output (the assertions of CTxMemPool::check on mapNextTx).
SpendsIndexed ==
  \A o \in Outpoints :
    /\ mapNextTx[o] # None => mapNextTx[o] \in mapTx /\ o \in Inputs[mapNextTx[o]]
    /\ \A t \in mapTx : o \in Inputs[t] => mapNextTx[o] = t

Available(o) ==
  (o[1] \in mapTx /\ o[2] \in Outs[o[1]]) \/ o[2] \in Unspent(TipView)[o[1]]

\* An output of a coinbase that is not in the active chain: DisconnectTip leaves out
\* the coinbase when it resurrects transactions or removes what depends on them.
Vanished(o) == o[1] \in Coinbases \ (RootTxs \cup ChainTxs(chainTip))

\* Whenever CTxMemPool::check is called, every input of a transaction of the pool
\* is an output of another one or unspent in pcoinsTip, through connected and
\* disconnected blocks and the orphans that are let in; nothing but an output of a
\* disconnected coinbase is ever missing.
PoolConsistent ==
  resurrect = <<>> => \A t \in mapTx : \A o \in Inputs[t] : Available(o) \/ Vanished(o)

\* mapOrphanTransactionsByPrev names under each hash exactly the orphans that
\* spend its outputs, and the number of orphans is limited.
OrphanIndexExact ==
  /\ \A p \in Txs :
       mapOrphanTransactionsByPrev[p] = {o \in mapOrphanTransactions : p \in Parents(o)}
  /\ Cardinality(mapOrphanTransactions) <= MAX_ORPHAN_TRANSACTIONS

\* When a "tx" message is done, an orphan that spends one of the transactions it
\* let in stays an orphan only if some other parent of it is still missing: the
\* work queue reaches the orphans of orphans, in whatever order they came.
OrphansSettled ==
  [][(vEraseQueue # {} /\ vEraseQueue' = {} /\ UNCHANGED restarts)
       => \A o \in mapOrphanTransactions' :
            Parents(o) \cap vEraseQueue \cap mapTx # {}
              => (\E p \in Parents(o) : ~HaveCoins(PoolView, p))']_vars

Resurrectable(t) ==
  t \notin Coinbases \cup policy.early \cup policy.late /\ \A o \in Inputs[t] : Available(o)

\* "Resurrect mempool transactions from the disconnected block": each that the
\* policy admits, and whose inputs are there, is in the pool afterwards, after
\* initial download.
DisconnectKeepsTxs ==
  [][(resurrect # <<>> /\ UNCHANGED restarts /\ ~initialDownload /\ Resurrectable(Head(resurrect)))
       => Head(resurrect) \in mapTx']_vars

\* The same at all times, as the comment in DisconnectTip says.
AlwaysResurrected ==
  [][(resurrect # <<>> /\ UNCHANGED restarts /\ Resurrectable(Head(resurrect)))
       => Head(resurrect) \in mapTx']_vars

\* "Check that every mempool transaction's inputs refer to available coins, or other
\* mempool tx's", as CTxMemPool::check asserts (txmempool.cpp:147-158).
InputsAvailable ==
  resurrect = <<>> => \A t \in mapTx : \A o \in Inputs[t] : Available(o)

\* The loop over the work queue ends: an orphan enters it once.
OrphanLoopEnds == vWorkQueue # <<>> ~> vWorkQueue = <<>>
=============================================================================
