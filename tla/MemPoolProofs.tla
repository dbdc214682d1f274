--------------------------- MODULE MemPoolProofs ----------------------------
(***************************************************************************)
(* The safety properties of MemPool for all blocks and transactions that   *)
(* its assumptions admit, all policies, and any number of restarts.        *)
(***************************************************************************)
EXTENDS MemPool, CoinsViewProofs, FiniteSetTheorems

(***************************************************************************)
(* Chains and what they leave unspent                                      *)
(***************************************************************************)

LEMMA PathFacts ==
  ASSUME NEW b \in Blocks
  PROVE  /\ Path[b] \subseteq Blocks /\ b \in Path[b] /\ Root \in Path[b]
         /\ b # Root => Parent[b] \in Path[b]
         /\ \A a \in Path[b] : Path[a] \subseteq Path[b]
<1>1. CASE b = Root
  BY <1>1, BlockTree
<1>2. CASE b # Root
  <2>1. Path[b] = Path[Parent[b]] \cup {b} /\ Parent[b] \in Blocks
    BY <1>2, BlockTree
  <2>2. CASE Parent[b] = Root
    BY <2>1, <2>2, BlockTree
  <2>3. CASE Parent[b] # Root
    <3>1. Path[Parent[b]] = Path[Parent[Parent[b]]] \cup {Parent[b]}
      BY <2>1, <2>3, BlockTree
    <3>2. QED BY <2>1, <3>1, BlockTree
  <2>4. QED BY <2>2, <2>3
<1>3. QED BY <1>1, <1>2

LEMMA TxsInBlocks ==
  ASSUME NEW b \in Blocks
  PROVE  TxsOf(b) \subseteq Txs /\ BlockTxs[b] \in Seq(Txs)
<1>1. BlockTxs[b] \in Seq(Txs)
  BY TransactionAssumption
<1>2. QED BY <1>1 DEF TxsOf, ElementsOf

\* A block adds its own transactions and its own spends to the chain.
LEMMA ChainGrows ==
  ASSUME NEW b \in Blocks \ {Root}
  PROVE  /\ ChainTxs(b) = ChainTxs(Parent[b]) \cup TxsOf(b)
         /\ ChainSpends(b) = ChainSpends(Parent[b]) \cup SpentIn(b)
<1>1. Path[b] \ {Root} = (Path[Parent[b]] \ {Root}) \cup {b}
  BY BlockTree
<1>2. QED BY <1>1 DEF ChainTxs, ChainSpends

\* Only outputs that the transaction has are unspent.
LEMMA UtxoType ==
  ASSUME NEW b \in Blocks
  PROVE  /\ Utxo(b) \in [Txs -> SUBSET Outputs]
         /\ \A t \in Txs : Utxo(b)[t] \subseteq Outs[t]
BY TransactionAssumption DEF Utxo

SpentOf(b, t) == {n \in Outputs : <<t, n>> \in SpentIn(b)}

\* What a block changes: its own transactions come with all outputs but those
\* spent in the block, the others lose what the block spends.
LEMMA UtxoStep ==
  ASSUME NEW b \in Blocks \ {Root}, NEW t \in Txs
  PROVE  /\ t \in TxsOf(b) => Utxo(b)[t] = Outs[t] \ SpentOf(b, t) /\ Utxo(Parent[b])[t] = {}
         /\ t \notin TxsOf(b) => /\ Utxo(b)[t] = Utxo(Parent[b])[t] \ SpentOf(b, t)
                                 /\ SpentOf(b, t) \subseteq Utxo(Parent[b])[t]
<1>1. Parent[b] \in Blocks
  BY BlockTree
<1>2. Utxo(b)[t] = {n \in (IF t \in ChainTxs(b) THEN Outs[t] ELSE RootCoins[t]) :
                      <<t, n>> \notin ChainSpends(b)}
  BY DEF Utxo
<1>3. Utxo(Parent[b])[t] =
        {n \in (IF t \in ChainTxs(Parent[b]) THEN Outs[t] ELSE RootCoins[t]) :
           <<t, n>> \notin ChainSpends(Parent[b])}
  BY DEF Utxo
<1>4. Outs[t] \subseteq Outputs /\ RootCoins[t] \subseteq Outputs
  BY TransactionAssumption
<1>5. CASE t \in TxsOf(b)
  <2>1. t \notin ChainTxs(Parent[b]) /\ RootCoins[t] = {}
    BY <1>5, ChainAssumption, RootAssumption
  <2>2. \A n \in Outputs : <<t, n>> \notin ChainSpends(Parent[b])
    BY <1>5, ChainAssumption
  <2>3. QED BY <1>2, <1>3, <1>4, <1>5, <2>1, <2>2, ChainGrows DEF SpentOf
<1>6. CASE t \notin TxsOf(b)
  <2>1. SpentOf(b, t) \subseteq Utxo(Parent[b])[t]
    BY <1>6, ChainAssumption DEF SpentOf
  <2>2. QED BY <1>2, <1>3, <1>4, <1>6, <2>1, ChainGrows DEF SpentOf
<1>7. QED BY <1>5, <1>6

(***************************************************************************)
(* Types, and the chain                                                    *)
(***************************************************************************)

\* The index holds the ancestors of its blocks, and what was connected is valid.
ChainInv ==
  /\ \A b \in known : Path[b] \subseteq known
  /\ known \subseteq Blocks
  /\ failed \subseteq Bad /\ Path[chainTip] \cap Bad = {}
  /\ Path[dbBest] \cap Bad = {}
  /\ target \in MostWork(known, failed)

ChainType ==
  /\ known \subseteq Blocks /\ Root \in known /\ failed \subseteq known
  /\ target \in known /\ chainTip \in known
  /\ initialDownload \in BOOLEAN /\ restarts \in 0..MaxRestarts
  /\ db \in DatabaseViews /\ dbBest \in known
  /\ cacheCoins \in Views /\ hashBlock \in known \cup {None}

PoolType ==
  /\ mapTx \subseteq Txs \ Coinbases
  /\ mapNextTx \in [Outpoints -> Txs \cup {None}]
  /\ policy \in Policies
  /\ mapOrphanTransactions \subseteq Txs \ Coinbases
  /\ mapOrphanTransactionsByPrev \in [Txs -> SUBSET Txs]
  /\ vWorkQueue \in Seq(Txs) /\ tried \subseteq Txs
  /\ vEraseQueue \subseteq Txs /\ resurrect \in Seq(Txs)

LEMMA TypeParts == TypeOK <=> ChainType /\ PoolType
BY DEF TypeOK, ChainType, PoolType

SafetyInv == TypeOK /\ ChainInv /\ CoinsExact

\* A chain to connect has a next block, whose parent is the tip.
LEMMA NextBlockFacts ==
  ASSUME TypeOK, ChainInv, chainTip # target, chainTip \in Path[target]
  PROVE  /\ NextBlock \in Path[target] /\ NextBlock \in known /\ NextBlock \in Blocks \ {Root}
         /\ Parent[NextBlock] = chainTip
<1>1. target \in Blocks /\ Path[target] \subseteq known
  BY DEF TypeOK, ChainInv
<1>2. \E b \in Path[target] : b # Root /\ Parent[b] = chainTip
  BY <1>1, BlockTree
<1>3. QED BY <1>1, <1>2, PathFacts DEF NextBlock, ChainInv

(***************************************************************************)
(* The coins                                                               *)
(***************************************************************************)

\* However much is flushed, the tip view has the entries written over what it had,
\* and the database is either written to that state with its best block, or left.
LEMMA WriteFacts ==
  ASSUME TypeOK, NEW e \in Views, NEW best \in known, WriteChainState(e, best)
  PROVE  /\ db' \in DatabaseViews /\ cacheCoins' \in Views
         /\ hashBlock' = best /\ dbBest' \in known
         /\ Unspent(TipView)' = Unspent(Over(e, TipView))
         /\ \/ Unspent(db)' = Unspent(TipView)' /\ dbBest' = best
            \/ UNCHANGED <<db, dbBest>>
<1>1. db \in DatabaseViews /\ db \in Views /\ cacheCoins \in Views /\ dbBest \in known
  BY DEF TypeOK, DatabaseViews, Views
<1>2. BatchWrite(cacheCoins, e) \in Views
  BY <1>1, FlushChangesNothing
<1>3. Over(BatchWrite(cacheCoins, e), db) = Over(e, TipView)
  BY <1>1, FlushChangesNothing DEF TipView
<1>4. CASE /\ db' = BatchWriteDB(db, BatchWrite(cacheCoins, e)) /\ dbBest' = best
           /\ cacheCoins' = NoCoins
  <2>1. db' \in DatabaseViews /\ Unspent(db') = Unspent(Over(e, TipView))
    BY <1>1, <1>2, <1>3, <1>4, DatabaseKeepsUnspent
  <2>2. db' \in Views /\ NoCoins \in Views
    BY <2>1 DEF DatabaseViews, Views, NoCoins
  <2>3. Over(NoCoins, db') = db'
    BY <2>2, FlushChangesNothing
  <2>4. QED BY <1>4, <2>1, <2>2, <2>3 DEF WriteChainState, TipView, Unspent
<1>5. CASE cacheCoins' = BatchWrite(cacheCoins, e) /\ UNCHANGED <<db, dbBest>>
  BY <1>1, <1>2, <1>3, <1>5 DEF WriteChainState, TipView, Unspent
<1>6. QED BY <1>4, <1>5 DEF WriteChainState

LEMMA ConnectedEntries ==
  ASSUME TypeOK, NEW b \in Blocks \ {Root}, Unspent(TipView) = Utxo(Parent[b])
  PROVE  /\ ConnectedCoins(b) \in Views
         /\ Unspent(Over(ConnectedCoins(b), TipView)) = Utxo(b)
<1>1. Parent[b] \in Blocks
  BY BlockTree
<1>2. Utxo(b) \in [Txs -> SUBSET Outputs] /\ Utxo(Parent[b]) \in [Txs -> SUBSET Outputs]
  BY <1>1, UtxoType
<1>3. ASSUME NEW t \in Txs
      PROVE  /\ ConnectedCoins(b)[t] \in Coins \cup {Absent}
             /\ Unspent(Over(ConnectedCoins(b), TipView))[t] = Utxo(b)[t]
  <2> DEFINE e == ConnectedCoins(b)
  <2>1. e[t] = IF t \in TxsOf(b) THEN Outs[t] \ SpentOf(b, t)
               ELSE IF SpentOf(b, t) # {} THEN Utxo(Parent[b])[t] \ SpentOf(b, t) ELSE Absent
    BY DEF ConnectedCoins, SpentOf
  <2>2. Outs[t] \subseteq Outputs
    BY TransactionAssumption
  <2>3. Unspent(Over(e, TipView))[t] =
          IF e[t] # Absent THEN e[t] ELSE Utxo(Parent[b])[t]
    BY <2>1 DEF Unspent, Over
  <2>4. e[t] \in Coins \cup {Absent}
    BY <1>2, <2>1, <2>2 DEF Coins
  <2>5. CASE t \in TxsOf(b) \/ SpentOf(b, t) # {}
    <3>1. e[t] # Absent
      BY <1>2, <2>1, <2>2, <2>5, AbsentNoCoins DEF Coins
    <3>2. QED BY <2>1, <2>3, <2>4, <2>5, <3>1, UtxoStep
  <2>6. CASE t \notin TxsOf(b) /\ SpentOf(b, t) = {}
    <3>1. e[t] = Absent
      BY <2>1, <2>6
    <3>2. Utxo(b)[t] = Utxo(Parent[b])[t] \ SpentOf(b, t)
      BY <2>6, UtxoStep
    <3>3. Utxo(b)[t] = Utxo(Parent[b])[t]
      BY <2>6, <3>2
    <3>4. QED BY <2>3, <2>4, <3>1, <3>3
  <2>7. QED BY <2>4, <2>5, <2>6
<1>4. ConnectedCoins(b) = [t \in Txs |-> ConnectedCoins(b)[t]]
  BY DEF ConnectedCoins
<1>5. QED BY <1>2, <1>3, <1>4 DEF Views, Unspent

LEMMA DisconnectedEntries ==
  ASSUME TypeOK, NEW b \in Blocks \ {Root}, Unspent(TipView) = Utxo(b)
  PROVE  /\ DisconnectedCoins(b) \in Views
         /\ Unspent(Over(DisconnectedCoins(b), TipView)) = Utxo(Parent[b])
<1>1. Parent[b] \in Blocks
  BY BlockTree
<1>2. Utxo(b) \in [Txs -> SUBSET Outputs] /\ Utxo(Parent[b]) \in [Txs -> SUBSET Outputs]
  BY <1>1, UtxoType
<1>3. ASSUME NEW t \in Txs
      PROVE  /\ DisconnectedCoins(b)[t] \in Coins \cup {Absent}
             /\ Unspent(Over(DisconnectedCoins(b), TipView))[t] = Utxo(Parent[b])[t]
  <2> DEFINE e == DisconnectedCoins(b)
  <2>1. e[t] = IF t \in TxsOf(b) THEN {}
               ELSE IF SpentOf(b, t) # {} THEN Utxo(b)[t] \cup SpentOf(b, t) ELSE Absent
    BY DEF DisconnectedCoins, SpentOf, Pruned
  <2>2. SpentOf(b, t) \subseteq Outputs
    BY DEF SpentOf
  <2>3. Unspent(Over(e, TipView))[t] = IF e[t] # Absent THEN e[t] ELSE Utxo(b)[t]
    BY <2>1 DEF Unspent, Over
  <2>4. e[t] \in Coins \cup {Absent}
    BY <1>2, <2>1, <2>2 DEF Coins
  <2>5. CASE t \in TxsOf(b) \/ SpentOf(b, t) # {}
    <3>1. e[t] # Absent
      BY <1>2, <2>1, <2>2, <2>5, AbsentNoCoins DEF Coins
    <3>2. QED BY <2>1, <2>3, <2>4, <2>5, <3>1, UtxoStep
  <2>6. CASE t \notin TxsOf(b) /\ SpentOf(b, t) = {}
    <3>1. e[t] = Absent
      BY <2>1, <2>6
    <3>2. Utxo(b)[t] = Utxo(Parent[b])[t] \ SpentOf(b, t)
      BY <2>6, UtxoStep
    <3>3. Utxo(b)[t] = Utxo(Parent[b])[t]
      BY <2>6, <3>2
    <3>4. QED BY <2>3, <2>4, <3>1, <3>3
  <2>7. QED BY <2>4, <2>5, <2>6
<1>4. DisconnectedCoins(b) = [t \in Txs |-> DisconnectedCoins(b)[t]]
  BY DEF DisconnectedCoins
<1>5. QED BY <1>2, <1>3, <1>4 DEF Views, Unspent

(***************************************************************************)
(* Types, chain and coins are inductive                                    *)
(***************************************************************************)

LEMMA SafetyInit == Init => SafetyInv
<1> SUFFICES ASSUME Init PROVE SafetyInv
  OBVIOUS
<1>1. db \in DatabaseViews /\ Unspent(db) = RootCoins
  BY TransactionAssumption, AbsentNoCoins
  DEF Init, DBOf, DatabaseViews, Coins, Pruned, Unspent
<1>2. NoCoins \in Views /\ db \in Views
  BY <1>1 DEF NoCoins, Views, DatabaseViews
<1>3. TipView = db
  BY <1>2, FlushChangesNothing DEF TipView, Init
<1>4. ChainTxs(Root) = {} /\ ChainSpends(Root) = {}
  BY BlockTree DEF ChainTxs, ChainSpends
<1>5. Utxo(Root) = RootCoins
  BY <1>4, TransactionAssumption DEF Utxo
<1>6. ChainType
  BY <1>1, <1>2, BlockTree, NodeAssumption DEF Init, ChainType
<1>7. PoolType
  BY DEF Init, PoolType
<1>8. ChainInv
  BY BlockTree DEF Init, ChainInv, MostWork, Candidates
<1>9. CoinsExact
  BY <1>1, <1>3, <1>5 DEF Init, CoinsExact, BestBlock
<1>10. QED BY <1>6, <1>7, <1>8, <1>9, TypeParts DEF SafetyInv

\* The pool's side of every step: sets of transactions stay sets of transactions.
LEMMA PoolTypeStep == TypeOK /\ [Next]_vars => PoolType'
<1> SUFFICES ASSUME TypeOK, [Next]_vars PROVE PoolType'
  OBVIOUS
<1> USE DEF TypeOK, PoolType
<1>1. ASSUME NEW t \in Txs, addUnchecked(t), t \notin Coinbases
      PROVE  mapTx' \subseteq Txs \ Coinbases /\ mapNextTx' \in [Outpoints -> Txs \cup {None}]
  BY <1>1 DEF addUnchecked
<1>2. ASSUME NEW s, removeTxs(s)
      PROVE  mapTx' \subseteq Txs \ Coinbases /\ mapNextTx' \in [Outpoints -> Txs \cup {None}]
  BY <1>2 DEF removeTxs
<1>3. ASSUME NEW t \in Txs, Acceptable(t) PROVE t \notin Coinbases
  BY <1>3 DEF Acceptable, Considered
<1>17. ASSUME NEW t \in Txs, Relayable(t) PROVE Acceptable(t)
  BY <1>17 DEF Relayable
<1>4. CASE \E b \in Blocks : NewBlock(b)
  BY <1>4 DEF NewBlock, poolVars, orphanVars, loopVars
<1>5. CASE ConnectTip
  BY <1>5, <1>2 DEF ConnectTip, orphanVars, loopVars
<1>6. CASE ConnectFails
  BY <1>6 DEF ConnectFails, poolVars, orphanVars, loopVars
<1>7. CASE DisconnectTip
  <2>1. chainTip \in Blocks
    BY BlockTree
  <2>2. QED BY <1>7, <2>1, TxsInBlocks DEF DisconnectTip, poolVars, orphanVars, loopVars
<1>8. CASE Resurrect
  <2>1. Head(resurrect) \in Txs /\ resurrect' \in Seq(Txs)
    BY <1>8 DEF Resurrect
  <2>2. mapTx' \subseteq Txs \ Coinbases /\ mapNextTx' \in [Outpoints -> Txs \cup {None}]
    BY <1>1, <1>2, <1>8, <2>1 DEF Resurrect, poolVars
  <2>3. QED BY <1>8, <2>1, <2>2 DEF Resurrect, orphanVars, loopVars
<1>9. CASE DownloadEnds
  BY <1>9 DEF DownloadEnds, poolVars, orphanVars, loopVars
<1>10. CASE \E t \in Txs : TxMessage(t)
  <2> PICK t \in Txs : TxMessage(t)
    BY <1>10
  <2>1. CASE Relayable(t) /\ addUnchecked(t) /\ vWorkQueue' = <<t>> /\ vEraseQueue' = {t}
             /\ UNCHANGED orphanVars
    BY <2>1, <1>1, <1>3, <1>17 DEF TxMessage, orphanVars
  <2>2. CASE /\ MissingInputs(t)
             /\ AddOrphanTx(t) \/ \E victim \in mapOrphanTransactions \cup {t} :
                                    AddOrphanTxEvicting(t, victim)
             /\ UNCHANGED <<poolVars, vWorkQueue, vEraseQueue>>
    <3>1. t \notin Coinbases
      BY <2>2 DEF MissingInputs, Considered
    <3>2. CASE AddOrphanTx(t)
      BY <2>2, <3>1, <3>2 DEF TxMessage, poolVars, AddOrphanTx
    <3>3. CASE \E victim \in mapOrphanTransactions \cup {t} : AddOrphanTxEvicting(t, victim)
      BY <2>2, <3>1, <3>3 DEF TxMessage, poolVars, AddOrphanTxEvicting
    <3>4. QED BY <2>2, <3>2, <3>3
  <2>3. QED BY <2>1, <2>2 DEF TxMessage
<1>11. CASE \E t \in Txs : SubmitTx(t)
  BY <1>11, <1>1, <1>3 DEF SubmitTx, orphanVars, loopVars
<1>12. CASE TryOrphan
  <2>1. Head(vWorkQueue) \in Txs
    BY <1>12 DEF TryOrphan
  <2> PICK o \in mapOrphanTransactionsByPrev[Head(vWorkQueue)] \ tried :
        /\ tried' = tried \cup {o}
        /\ IF Relayable(o)
           THEN addUnchecked(o) /\ vWorkQueue' = Append(vWorkQueue, o)
                /\ vEraseQueue' = vEraseQueue \cup {o}
           ELSE /\ vEraseQueue' = IF MissingInputs(o) THEN vEraseQueue
                                  ELSE vEraseQueue \cup {o}
                /\ UNCHANGED <<poolVars, vWorkQueue>>
    BY <1>12 DEF TryOrphan
  <2>2. o \in Txs
    BY <2>1
  <2>3. CASE Relayable(o)
    <3>1. mapTx' \subseteq Txs \ Coinbases /\ mapNextTx' \in [Outpoints -> Txs \cup {None}]
      BY <1>1, <1>3, <1>17, <2>2, <2>3
    <3>5. vWorkQueue' = Append(vWorkQueue, o) /\ vEraseQueue' = vEraseQueue \cup {o}
      BY <2>3
    <3>6. vWorkQueue' \in Seq(Txs)
      BY <2>2, <3>5
    <3>7. vEraseQueue' \subseteq Txs
      BY <2>2, <3>5
    <3>8. tried' \subseteq Txs
      BY <2>2
    <3>2. /\ vWorkQueue' \in Seq(Txs) /\ vEraseQueue' \subseteq Txs /\ tried' \subseteq Txs
      BY <3>6, <3>7, <3>8
    <3>3. UNCHANGED <<policy, orphanVars, resurrect>>
      BY <1>12 DEF TryOrphan
    <3>4. QED BY <3>1, <3>2, <3>3 DEF orphanVars
  <2>4. CASE ~Relayable(o)
    <3>1. vEraseQueue' \subseteq Txs
      BY <2>2, <2>4
    <3>2. tried' \subseteq Txs /\ UNCHANGED <<poolVars, vWorkQueue>>
      BY <2>2, <2>4
    <3>3. UNCHANGED <<policy, orphanVars, resurrect>>
      BY <1>12 DEF TryOrphan
    <3>4. QED BY <3>1, <3>2, <3>3 DEF orphanVars, poolVars
  <2>5. QED BY <2>3, <2>4
<1>13. CASE NextHash
  <2>1. vWorkQueue' \in Seq(Txs)
    BY <1>13 DEF NextHash
  <2>2. CASE UNCHANGED <<orphanVars, vEraseQueue>>
    BY <1>13, <2>1, <2>2 DEF NextHash, poolVars, orphanVars
  <2>3. CASE EraseOrphanTxs(vEraseQueue) /\ vEraseQueue' = {}
    BY <1>13, <2>1, <2>3 DEF NextHash, poolVars, EraseOrphanTxs
  <2>4. QED BY <1>13, <2>2, <2>3 DEF NextHash
<1>14. CASE Restart
  BY <1>14 DEF Restart
<1>15. CASE UNCHANGED vars
  BY <1>15 DEF vars, poolVars, orphanVars, loopVars
<1>16. QED
  BY <1>4, <1>5, <1>6, <1>7, <1>8, <1>9, <1>10, <1>11, <1>12, <1>13, <1>14, <1>15 DEF Next

\* What connecting, and disconnecting, does to chain and coins.
LEMMA ConnectStep ==
  ASSUME SafetyInv, ConnectTip
  PROVE  ChainType' /\ ChainInv' /\ CoinsExact'
<1> USE DEF SafetyInv
<1>1. chainTip # target /\ chainTip \in Path[target]
  BY DEF ConnectTip
<1> DEFINE b == NextBlock
<1>2. b \in Path[target] /\ b \in known /\ b \in Blocks \ {Root} /\ Parent[b] = chainTip
  BY <1>1, NextBlockFacts
<1>3. /\ b \notin Bad /\ WriteChainState(ConnectedCoins(b), b) /\ chainTip' = b
      /\ UNCHANGED <<known, failed, target, initialDownload, restarts>>
  BY DEF ConnectTip
<1> HIDE DEF b
<1>4. Unspent(TipView) = Utxo(Parent[b])
  BY <1>2 DEF CoinsExact
<1>5. ConnectedCoins(b) \in Views /\ Unspent(Over(ConnectedCoins(b), TipView)) = Utxo(b)
  BY <1>2, <1>4, ConnectedEntries
<1>6. /\ db' \in DatabaseViews /\ cacheCoins' \in Views /\ hashBlock' = b /\ dbBest' \in known
      /\ Unspent(TipView)' = Utxo(b)
      /\ \/ Unspent(db)' = Utxo(b) /\ dbBest' = b
         \/ UNCHANGED <<db, dbBest>>
  BY <1>2, <1>3, <1>5, WriteFacts
<1>7. b # None
  BY <1>2, BlockTree
<1>8. Unspent(db)' = Utxo(dbBest)'
  BY <1>6 DEF CoinsExact, Utxo, Unspent
<1>9. CoinsExact'
  BY <1>3, <1>6, <1>7, <1>8 DEF CoinsExact, BestBlock
<1>10. Path[b] \cap Bad = {}
  BY <1>2, <1>3, BlockTree DEF ChainInv
<1>11. ChainInv'
  BY <1>3, <1>6, <1>10 DEF ChainInv, MostWork, Candidates
<1>12. ChainType'
  BY <1>2, <1>3, <1>6 DEF ChainType, TypeOK
<1>13. QED BY <1>9, <1>11, <1>12

LEMMA DisconnectStep ==
  ASSUME SafetyInv, DisconnectTip
  PROVE  ChainType' /\ ChainInv' /\ CoinsExact'
<1> USE DEF SafetyInv
<1>1. chainTip \in known /\ chainTip \in Blocks /\ target \in Blocks
  BY DEF TypeOK, ChainInv
<1>2. chainTip \in Blocks \ {Root}
  BY <1>1, PathFacts DEF DisconnectTip
<1> DEFINE p == Parent[chainTip]
<1>3. p \in known /\ p \in Blocks /\ Path[p] \subseteq Path[chainTip]
  BY <1>1, <1>2, PathFacts DEF ChainInv
<1>4. /\ WriteChainState(DisconnectedCoins(chainTip), p) /\ chainTip' = p
      /\ UNCHANGED <<known, failed, target, initialDownload, restarts>>
  BY DEF DisconnectTip
<1>5. /\ DisconnectedCoins(chainTip) \in Views
      /\ Unspent(Over(DisconnectedCoins(chainTip), TipView)) = Utxo(p)
  BY <1>2, DisconnectedEntries DEF CoinsExact
<1> HIDE DEF p
<1>6. /\ db' \in DatabaseViews /\ cacheCoins' \in Views /\ hashBlock' = p /\ dbBest' \in known
      /\ Unspent(TipView)' = Utxo(p)
      /\ \/ Unspent(db)' = Utxo(p) /\ dbBest' = p
         \/ UNCHANGED <<db, dbBest>>
  BY <1>3, <1>4, <1>5, WriteFacts
<1>7. p # None
  BY <1>3, BlockTree
<1>8. Unspent(db)' = Utxo(dbBest)'
  BY <1>6 DEF CoinsExact, Utxo, Unspent
<1>9. CoinsExact'
  BY <1>4, <1>6, <1>7, <1>8 DEF CoinsExact, BestBlock
<1>10. ChainInv'
  BY <1>3, <1>4, <1>6 DEF ChainInv, MostWork, Candidates
<1>11. ChainType'
  BY <1>3, <1>4, <1>6 DEF ChainType, TypeOK
<1>12. QED BY <1>9, <1>10, <1>11

LEMMA SafetyStep == SafetyInv /\ [Next]_vars => SafetyInv'
<1> SUFFICES ASSUME SafetyInv, [Next]_vars PROVE ChainType' /\ ChainInv' /\ CoinsExact'
  BY PoolTypeStep, TypeParts DEF SafetyInv, TypeOK, ChainType, PoolType
<1> USE DEF SafetyInv
<1>1. ASSUME UNCHANGED <<chainVars, coinVars>> PROVE ChainType' /\ ChainInv' /\ CoinsExact'
  BY <1>1 DEF chainVars, coinVars, TypeOK, ChainType, ChainInv, CoinsExact, MostWork,
              Candidates, TipView, BestBlock
<1>2. ASSUME UNCHANGED coinVars, UNCHANGED chainTip PROVE CoinsExact'
  BY <1>2 DEF coinVars, CoinsExact, TipView, BestBlock
<1>3. CASE \E b \in Blocks : NewBlock(b)
  <2> PICK b \in Blocks : NewBlock(b)
    BY <1>3
  <2>1. b # Root /\ Path[b] = Path[Parent[b]] \cup {b} /\ Parent[b] \in known
    BY BlockTree DEF NewBlock, TypeOK
  <2>2. known' = known \cup {b} /\ target' \in MostWork(known', failed)
    BY DEF NewBlock, FindMostWorkChain
  <2>3. UNCHANGED <<failed, chainTip, initialDownload, restarts, coinVars>>
    BY DEF NewBlock
  <2>4. ChainInv'
    BY <2>1, <2>2, <2>3 DEF ChainInv, coinVars
  <2>5. ChainType'
    BY <2>2, <2>3 DEF ChainType, TypeOK, coinVars, MostWork, Candidates
  <2>6. QED BY <1>2, <2>3, <2>4, <2>5
<1>4. CASE ConnectTip
  BY <1>4, ConnectStep
<1>5. CASE ConnectFails
  <2>1. NextBlock \in known
    BY <1>5, NextBlockFacts DEF ConnectFails
  <2>2. /\ NextBlock \in Bad /\ failed' = failed \cup {NextBlock}
        /\ target' \in MostWork(known, failed')
        /\ UNCHANGED <<known, chainTip, initialDownload, restarts, coinVars>>
    BY <1>5 DEF ConnectFails, FindMostWorkChain
  <2>3. ChainInv'
    BY <2>2 DEF ChainInv, coinVars
  <2>4. ChainType'
    BY <2>1, <2>2 DEF ChainType, TypeOK, coinVars, MostWork, Candidates
  <2>5. QED BY <1>2, <2>2, <2>3, <2>4
<1>6. CASE DisconnectTip
  BY <1>6, DisconnectStep
<1>7. CASE Resurrect
  BY <1>1, <1>7 DEF Resurrect
<1>8. CASE DownloadEnds
  <2>1. ChainType' /\ ChainInv'
    BY <1>8 DEF DownloadEnds, coinVars, TypeOK, ChainType, ChainInv, MostWork, Candidates
  <2>2. QED BY <1>2, <1>8, <2>1 DEF DownloadEnds
<1>9. CASE \E t \in Txs : TxMessage(t)
  BY <1>1, <1>9 DEF TxMessage
<1>10. CASE \E t \in Txs : SubmitTx(t)
  BY <1>1, <1>10 DEF SubmitTx
<1>11. CASE TryOrphan
  BY <1>1, <1>11 DEF TryOrphan
<1>12. CASE NextHash
  BY <1>1, <1>12 DEF NextHash
<1>13. CASE Restart
  <2>1. /\ restarts' = restarts + 1 /\ restarts < MaxRestarts
        /\ chainTip' = dbBest /\ target' \in MostWork(known, failed)
        /\ cacheCoins' = NoCoins /\ hashBlock' = None /\ initialDownload' \in InitialDownload
        /\ UNCHANGED <<known, failed, db, dbBest>>
    BY <1>13 DEF Restart
  <2>2. NoCoins \in Views /\ db \in Views
    BY DEF NoCoins, Views, TypeOK, DatabaseViews
  <2>3. TipView' = db
    BY <2>1, <2>2, FlushChangesNothing DEF TipView
  <2>4. CoinsExact'
    BY <2>1, <2>3 DEF CoinsExact, BestBlock
  <2>5. ChainInv'
    BY <2>1 DEF ChainInv
  <2>6. ChainType'
    BY <2>1, <2>2, NodeAssumption DEF ChainType, TypeOK, MostWork, Candidates
  <2>7. QED BY <2>4, <2>5, <2>6
<1>14. CASE UNCHANGED vars
  BY <1>1, <1>14 DEF vars
<1>15. QED
  BY <1>3, <1>4, <1>5, <1>6, <1>7, <1>8, <1>9, <1>10, <1>11, <1>12, <1>13, <1>14 DEF Next

LEMMA SafetyAlways == Spec => []SafetyInv
BY SafetyInit, SafetyStep, PTL DEF Spec

\* Every variable keeps its type.
THEOREM TypeCorrect == Spec => []TypeOK
<1>1. SafetyInv => TypeOK
  BY DEF SafetyInv
<1>2. QED BY <1>1, SafetyAlways, PTL

\* pcoinsTip and the database offer what their chains leave unspent, for every
\* tree of valid blocks, every order of connecting and disconnecting them, and
\* every choice of when to flush and when to die.
THEOREM CoinsAlwaysExact == Spec => []CoinsExact
<1>1. SafetyInv => CoinsExact
  BY DEF SafetyInv
<1>2. QED BY <1>1, SafetyAlways, PTL

(***************************************************************************)
(* The pool                                                                *)
(***************************************************************************)

\* Every input of the pool is an output that exists, of the pool, unspent, of a
\* coinbase that was disconnected, or of a transaction that is still to be
\* resurrected.
PoolGrounded ==
  \A t \in mapTx : \A o \in Inputs[t] :
    /\ o[2] \in Outs[o[1]]
    /\ Available(o) \/ Vanished(o) \/ o[1] \in ElementsOf(resurrect) \ Coinbases

PoolInv == SafetyInv /\ SpendsIndexed /\ PoolGrounded

LEMMA InputType ==
  ASSUME NEW t \in Txs, NEW o \in Inputs[t]
  PROVE  /\ o \in Outpoints /\ o[1] \in Txs /\ o[2] \in Outputs /\ o = <<o[1], o[2]>>
         /\ o[1] \in Parents(t)
BY TransactionAssumption DEF Outpoints, Parents

\* A transaction let into the pool spends outputs that exist and nobody spends.
LEMMA AcceptableFacts ==
  ASSUME SafetyInv, NEW t \in Txs, Acceptable(t)
  PROVE  /\ t \notin mapTx
         /\ \A o \in Inputs[t] : mapNextTx[o] = None /\ o[2] \in Outs[o[1]] /\ Available(o)
<1>1. t \notin mapTx /\ \A o \in Inputs[t] : mapNextTx[o] = None
  BY DEF Acceptable, Considered
<1>2. BestBlock \in Blocks /\ chainTip \in Blocks /\ BestBlock = chainTip
  BY DEF SafetyInv, ChainInv, TypeOK, CoinsExact
<1>3. ASSUME NEW o \in Inputs[t] PROVE o[2] \in Outs[o[1]] /\ Available(o)
  <2>1. o[1] \in Txs /\ o[2] \in PoolView[o[1]] /\ PoolView[o[1]] # Absent
    BY InputType DEF Acceptable, HaveCoins
  <2>2. CASE TipView[o[1]] # Absent
    <3>1. o[2] \in Unspent(TipView)[o[1]]
      BY <2>1, <2>2 DEF PoolView, Unspent
    <3>2. o[2] \in Utxo(chainTip)[o[1]]
      BY <3>1 DEF SafetyInv, CoinsExact
    <3>3. QED BY <1>2, <2>1, <3>1, <3>2, UtxoType DEF Available
  <2>3. CASE TipView[o[1]] = Absent
    BY <2>1, <2>3 DEF PoolView, Available
  <2>4. QED BY <2>2, <2>3
<1>4. QED BY <1>1, <1>3

\* Adding such a transaction keeps the pool indexed and grounded, also when it is
\* the one that was to be resurrected.
LEMMA AddKeepsPool ==
  ASSUME PoolInv, NEW t \in Txs, Acceptable(t), addUnchecked(t),
         UNCHANGED coinVars, UNCHANGED chainTip,
         ElementsOf(resurrect) \ {t} \subseteq ElementsOf(resurrect')
  PROVE  SpendsIndexed' /\ PoolGrounded'
<1> USE DEF PoolInv
<1>1. /\ t \notin mapTx
      /\ \A o \in Inputs[t] : mapNextTx[o] = None /\ o[2] \in Outs[o[1]] /\ Available(o)
  BY AcceptableFacts
<1>2. mapTx' = mapTx \cup {t}
  BY DEF addUnchecked
<1>3. mapNextTx' = [o \in Outpoints |-> IF o \in Inputs[t] THEN t ELSE mapNextTx[o]]
  BY DEF addUnchecked
<1>4. Inputs[t] \subseteq Outpoints /\ t # None
  BY TransactionAssumption
<1>10. mapTx \subseteq Txs /\ None \notin Txs
  BY TransactionAssumption DEF SafetyInv, TypeOK
<1>11. ASSUME NEW o \in Outpoints, mapNextTx'[o] # None
      PROVE  mapNextTx'[o] \in mapTx' /\ o \in Inputs[mapNextTx'[o]]
  <2>1. CASE o \in Inputs[t]
    BY <1>2, <1>3, <2>1
  <2>2. CASE o \notin Inputs[t]
    BY <1>2, <1>3, <1>11, <2>2 DEF SpendsIndexed
  <2>3. QED BY <2>1, <2>2
<1>12. ASSUME NEW o \in Outpoints, NEW u \in mapTx', o \in Inputs[u]
      PROVE  mapNextTx'[o] = u
  <2>1. CASE u = t
    BY <1>3, <1>12, <2>1
  <2>2. CASE u # t
    <3>1. mapNextTx[o] = u /\ u # None
      BY <1>2, <1>10, <1>12, <2>2 DEF SpendsIndexed
    <3>2. o \notin Inputs[t]
      BY <1>1, <3>1
    <3>3. QED BY <1>3, <3>1, <3>2
  <2>3. QED BY <2>1, <2>2
<1>5. SpendsIndexed'
  BY <1>11, <1>12 DEF SpendsIndexed
<1>6. \A o \in Outpoints : (Available(o) => Available(o)') /\ (Vanished(o) <=> Vanished(o)')
  BY <1>2 DEF Available, Vanished, coinVars, TipView
<1>7. mapTx \subseteq Txs
  BY DEF SafetyInv, TypeOK
<1>13. ASSUME NEW u \in mapTx', NEW o \in Inputs[u]
      PROVE  /\ o[2] \in Outs[o[1]]
             /\ Available(o)' \/ Vanished(o)' \/ o[1] \in ElementsOf(resurrect') \ Coinbases
  <2>1. u \in Txs
    BY <1>2, <1>7
  <2>2. /\ o[2] \in Outs[o[1]]
        /\ Available(o) \/ Vanished(o) \/ o[1] \in ElementsOf(resurrect) \ Coinbases
    BY <1>1, <1>2 DEF PoolGrounded
  <2>3. CASE o[1] = t
    BY <1>2, <2>2, <2>3 DEF Available
  <2>4. CASE o[1] # t
    BY <1>6, <2>1, <2>2, <2>4, InputType
  <2>5. QED BY <2>2, <2>3, <2>4
<1>8. PoolGrounded'
  BY <1>1, <1>2, <1>13 DEF PoolGrounded
<1>9. QED BY <1>5, <1>8

\* Removing transactions with all that spend them keeps the pool indexed.
LEMMA RemoveKeepsIndex ==
  ASSUME PoolInv, NEW s, removeTxs(s)
  PROVE  SpendsIndexed' /\ mapTx' = mapTx \ s
<1> USE DEF PoolInv
<1> DEFINE spends == UNION {Inputs[t] : t \in s \cap mapTx}
<1>1. mapTx' = mapTx \ s
  BY DEF removeTxs
<1>2. mapNextTx' = [o \in Outpoints |-> IF o \in spends THEN None ELSE mapNextTx[o]]
  BY DEF removeTxs
<1>3. mapTx \subseteq Txs
  BY DEF SafetyInv, TypeOK
<1>4. ASSUME NEW o \in Outpoints, mapNextTx'[o] # None
      PROVE  mapNextTx'[o] \in mapTx' /\ o \in Inputs[mapNextTx'[o]]
  <2>1. mapNextTx'[o] = mapNextTx[o] /\ o \notin spends
    BY <1>2, <1>4
  <2>2. mapNextTx[o] \in mapTx /\ o \in Inputs[mapNextTx[o]]
    BY <1>4, <2>1 DEF SpendsIndexed
  <2>3. mapNextTx[o] \notin s
    BY <2>1, <2>2
  <2>4. QED BY <1>1, <2>1, <2>2, <2>3
<1>5. ASSUME NEW o \in Outpoints, NEW t \in mapTx', o \in Inputs[t]
      PROVE  mapNextTx'[o] = t
  <2>1. t \in mapTx /\ t \notin s /\ mapNextTx[o] = t
    BY <1>1, <1>5 DEF SpendsIndexed
  <2>2. o \notin spends
    BY <2>1 DEF SpendsIndexed
  <2>3. QED BY <1>2, <2>1, <2>2
<1>6. QED BY <1>1, <1>4, <1>5 DEF SpendsIndexed

\* What spends an output of a removed transaction is removed.
LEMMA DescendantsClosed ==
  ASSUME NEW s \in SUBSET Txs, NEW t \in WithDescendants(s), NEW n \in Outputs,
         mapNextTx[<<t, n>>] # None, mapNextTx[<<t, n>>] \in Txs
  PROVE  mapNextTx[<<t, n>>] \in WithDescendants(s)
BY DEF WithDescendants, ClosedUnderSpending

LEMMA DescendantsInclude ==
  ASSUME NEW s \in SUBSET Txs
  PROVE  s \subseteq WithDescendants(s)
BY DEF WithDescendants

\* A transaction that stays when transactions go with all that spend them spends
\* none of these.
LEMMA StayingSpendsStaying ==
  ASSUME PoolInv, NEW s \in SUBSET Txs, NEW u \in mapTx, u \notin WithDescendants(s),
         NEW o \in Inputs[u]
  PROVE  o[1] \notin WithDescendants(s)
<1>1. u \in Txs /\ u # None
  BY TransactionAssumption DEF PoolInv, SafetyInv, TypeOK
<1>2. o \in Outpoints /\ o[1] \in Txs /\ o[2] \in Outputs /\ o = <<o[1], o[2]>>
  BY <1>1, InputType
<1>3. mapNextTx[<<o[1], o[2]>>] = u
  BY <1>2 DEF PoolInv, SpendsIndexed
<1>4. QED BY <1>1, <1>2, <1>3, DescendantsClosed

LEMMA ConnectKeepsPool ==
  ASSUME PoolInv, ConnectTip
  PROVE  SpendsIndexed' /\ PoolGrounded'
<1> USE DEF PoolInv
<1>1. resurrect = <<>> /\ resurrect' = <<>> /\ chainTip # target /\ chainTip \in Path[target]
  BY DEF ConnectTip, Idle
<1> DEFINE b == NextBlock
           gone == WithDescendants(Conflicts(b))
<1>2. b \in Blocks \ {Root} /\ Parent[b] = chainTip
  BY <1>1, NextBlockFacts DEF SafetyInv
<1>3. removeTxs(TxsOf(b) \cup gone) /\ chainTip' = b
  BY DEF ConnectTip
<1>4. CoinsExact /\ CoinsExact'
  BY ConnectStep DEF SafetyInv
<1> HIDE DEF b
<1>5. SpendsIndexed' /\ mapTx' = mapTx \ (TxsOf(b) \cup gone)
  BY <1>3, RemoveKeepsIndex
<1>6. mapTx \subseteq Txs /\ mapNextTx \in [Outpoints -> Txs \cup {None}] /\ None \notin Txs
  BY TransactionAssumption DEF SafetyInv, TypeOK
<1>7. SpentIn(b) \subseteq Outpoints
  BY <1>2, TxsInBlocks, TransactionAssumption DEF SpentIn
<1>8. Conflicts(b) \in SUBSET Txs
  BY <1>6, <1>7 DEF Conflicts
<1>9. ASSUME NEW u \in mapTx', NEW o \in Inputs[u]
      PROVE  Available(o)' \/ Vanished(o)'
  <2>1. u \in mapTx /\ u \in Txs /\ u \notin TxsOf(b) /\ u \notin gone
    BY <1>5, <1>6
  <2>2. o \in Outpoints /\ o[1] \in Txs /\ o[2] \in Outputs /\ o = <<o[1], o[2]>>
    BY <2>1, InputType
  <2>3. o[1] \notin gone
    BY <1>8, <2>1, StayingSpendsStaying
  <2>4. o \notin SpentIn(b)
    <3>1. SUFFICES ASSUME o \in SpentIn(b) PROVE FALSE
      OBVIOUS
    <3>2. mapNextTx[o] = u
      BY <2>1, <2>2 DEF SpendsIndexed
    <3>3. u \in Conflicts(b)
      BY <1>6, <2>1, <3>1, <3>2 DEF Conflicts
    <3>4. QED BY <1>8, <2>1, <3>3, DescendantsInclude
  <2>5. o[2] \notin SpentOf(b, o[1])
    BY <2>2, <2>4 DEF SpentOf
  <2>6. o[2] \in Outs[o[1]] /\ (Available(o) \/ Vanished(o))
    BY <1>1, <2>1 DEF PoolGrounded, ElementsOf
  <2>7. Unspent(TipView) = Utxo(Parent[b]) /\ Unspent(TipView)' = Utxo(b)
    BY <1>2, <1>3, <1>4 DEF CoinsExact, Utxo
  <2>8. CASE o[1] \in TxsOf(b)
    <3>1. o[2] \in Utxo(b)[o[1]]
      BY <1>2, <2>2, <2>5, <2>6, <2>8, UtxoStep
    <3>2. QED BY <2>7, <3>1 DEF Available
  <2>9. CASE o[1] \notin TxsOf(b) /\ o[1] \in mapTx
    BY <1>5, <2>3, <2>6, <2>9 DEF Available
  <2>12. CASE o[1] \notin TxsOf(b) /\ Vanished(o)
    BY <1>2, <1>3, <2>12, ChainGrows DEF Vanished
  <2>10. CASE o[1] \notin TxsOf(b) /\ o[1] \notin mapTx /\ ~Vanished(o)
    <3>1. o[2] \in Utxo(Parent[b])[o[1]]
      BY <2>6, <2>7, <2>10 DEF Available
    <3>2. o[2] \in Utxo(b)[o[1]]
      BY <1>2, <2>2, <2>5, <2>10, <3>1, UtxoStep
    <3>3. QED BY <2>7, <3>2 DEF Available
  <2>11. QED BY <2>8, <2>9, <2>10, <2>12
<1>10. PoolGrounded'
  BY <1>5, <1>9 DEF PoolGrounded
<1>11. QED BY <1>5, <1>10

LEMMA DisconnectKeepsPool ==
  ASSUME PoolInv, DisconnectTip
  PROVE  SpendsIndexed' /\ PoolGrounded'
<1> USE DEF PoolInv
<1> DEFINE b == chainTip
<1>1. /\ resurrect = <<>> /\ resurrect' = BlockTxs[b] /\ chainTip' = Parent[b]
      /\ UNCHANGED poolVars
  BY DEF DisconnectTip, Idle
<1>2. b \in Blocks \ {Root}
  <2>1. chainTip \in Blocks /\ target \in Blocks
    BY DEF SafetyInv, TypeOK, ChainInv
  <2>2. QED BY <2>1, PathFacts DEF DisconnectTip
<1>3. Unspent(TipView) = Utxo(b) /\ Unspent(TipView)' = Utxo(Parent[b])
  BY <1>1, DisconnectStep DEF SafetyInv, CoinsExact, Utxo
<1> HIDE DEF b
<1>4. SpendsIndexed'
  BY <1>1 DEF poolVars, SpendsIndexed
<1>5. ASSUME NEW u \in mapTx', NEW o \in Inputs[u]
      PROVE  Available(o)' \/ Vanished(o)' \/ o[1] \in ElementsOf(resurrect') \ Coinbases
  <2>1. u \in mapTx /\ u \in Txs
    BY <1>1 DEF poolVars, SafetyInv, TypeOK
  <2>2. o[1] \in Txs /\ o[2] \in Outputs /\ o[1] \in Parents(u)
    BY <2>1, InputType
  <2>3. o[2] \in Outs[o[1]] /\ (Available(o) \/ Vanished(o))
    BY <1>1, <2>1 DEF PoolGrounded, ElementsOf
  <2>8. CASE Vanished(o)
    BY <1>1, <1>2, <2>8, ChainGrows DEF Vanished, b
  <2>4. CASE o[1] \in mapTx
    BY <1>1, <2>3, <2>4 DEF Available, poolVars
  <2>5. CASE o[1] \in TxsOf(b)
    <3>1. o[1] \in Coinbases => Vanished(o)'
      BY <1>1, <1>2, <2>5, ChainAssumption DEF Vanished
    <3>2. QED BY <1>1, <2>5, <3>1 DEF TxsOf
  <2>6. CASE o[1] \notin mapTx /\ o[1] \notin TxsOf(b) /\ ~Vanished(o)
    <3>1. o[2] \in Utxo(b)[o[1]]
      BY <1>3, <2>3, <2>6 DEF Available
    <3>2. o[2] \in Utxo(Parent[b])[o[1]]
      BY <1>2, <2>2, <2>6, <3>1, UtxoStep
    <3>3. QED BY <1>3, <3>2 DEF Available
  <2>7. QED BY <2>4, <2>5, <2>6, <2>8
<1>6. PoolGrounded'
  BY <1>1, <1>5 DEF PoolGrounded, poolVars
<1>7. QED BY <1>4, <1>6

LEMMA ResurrectKeepsPool ==
  ASSUME PoolInv, Resurrect
  PROVE  SpendsIndexed' /\ PoolGrounded'
<1> USE DEF PoolInv
<1> DEFINE t == Head(resurrect)
<1>1. /\ resurrect \in Seq(Txs) /\ resurrect # <<>> /\ resurrect' = Tail(resurrect)
      /\ UNCHANGED coinVars /\ UNCHANGED chainTip
  BY DEF Resurrect, chainVars, SafetyInv, TypeOK
<1>2. t \in Txs /\ ElementsOf(resurrect) \ {t} \subseteq ElementsOf(resurrect')
  <2>1. t = resurrect[1] /\ DOMAIN resurrect = 1..Len(resurrect)
    BY <1>1
  <2>2. DOMAIN resurrect' = 1..(Len(resurrect) - 1) /\ Len(resurrect) \in Nat
    BY <1>1
  <2>3. \A i \in DOMAIN resurrect : i # 1 => /\ i - 1 \in DOMAIN resurrect'
                                            /\ resurrect'[i - 1] = resurrect[i]
    BY <1>1, <2>1, <2>2
  <2>4. t \in Txs
    BY <1>1
  <2>5. QED BY <2>1, <2>3, <2>4 DEF ElementsOf
<1>3. \/ t \in Coinbases /\ UNCHANGED poolVars
      \/ Acceptable(t) /\ addUnchecked(t)
      \/ removeTxs(WithDescendants({t}))
  BY DEF Resurrect
<1> HIDE DEF t
<1>4. mapTx \subseteq Txs
  BY DEF SafetyInv, TypeOK
<1>5. CASE t \in Coinbases /\ UNCHANGED poolVars
  <2>1. SpendsIndexed'
    BY <1>5 DEF poolVars, SpendsIndexed
  <2>2. \A o : (Available(o)' <=> Available(o)) /\ (Vanished(o)' <=> Vanished(o))
    BY <1>1, <1>5 DEF poolVars, coinVars, Available, Vanished, TipView
  <2>3. PoolGrounded'
    BY <1>2, <1>5, <2>2 DEF poolVars, PoolGrounded
  <2>4. QED BY <2>1, <2>3
<1>6. CASE Acceptable(t) /\ addUnchecked(t)
  BY <1>1, <1>2, <1>6, AddKeepsPool
<1>7. CASE removeTxs(WithDescendants({t}))
  <2> DEFINE gone == WithDescendants({t})
  <2>1. SpendsIndexed' /\ mapTx' = mapTx \ gone
    BY <1>7, RemoveKeepsIndex
  <2>2. t \in gone
    BY <1>2, DescendantsInclude
  <2>3. ASSUME NEW u \in mapTx', NEW o \in Inputs[u]
        PROVE  Available(o)' \/ Vanished(o)' \/ o[1] \in ElementsOf(resurrect') \ Coinbases
    <3>1. u \in mapTx /\ u \notin gone
      BY <2>1
    <3>2. o[1] \notin gone
      BY <1>2, <3>1, StayingSpendsStaying
    <3>3. o[1] # t
      BY <2>2, <3>2
    <3>4. Available(o) \/ Vanished(o) \/ o[1] \in ElementsOf(resurrect) \ Coinbases
      BY <3>1 DEF PoolGrounded
    <3>5. CASE Available(o)
      BY <1>1, <2>1, <3>2, <3>5 DEF Available, coinVars, TipView
    <3>6. CASE o[1] \in ElementsOf(resurrect) \ Coinbases
      BY <1>2, <3>3, <3>6
    <3>8. CASE Vanished(o)
      BY <1>1, <3>8 DEF Vanished
    <3>7. QED BY <3>4, <3>5, <3>6, <3>8
  <2>4. PoolGrounded'
    BY <2>1, <2>3 DEF PoolGrounded
  <2>5. QED BY <2>1, <2>4
<1>8. QED BY <1>3, <1>5, <1>6, <1>7

LEMMA PoolStep == PoolInv /\ [Next]_vars => PoolInv'
<1> SUFFICES ASSUME PoolInv, [Next]_vars PROVE SpendsIndexed' /\ PoolGrounded'
  BY SafetyStep DEF PoolInv
<1>1. ASSUME UNCHANGED <<poolVars, coinVars, resurrect>>, UNCHANGED chainTip
      PROVE  SpendsIndexed' /\ PoolGrounded'
  <2>1. \A o : (Available(o)' <=> Available(o)) /\ (Vanished(o)' <=> Vanished(o))
    BY <1>1 DEF poolVars, coinVars, Available, Vanished, TipView
  <2>2. QED BY <1>1, <2>1 DEF poolVars, PoolInv, SpendsIndexed, PoolGrounded
<1>2. ASSUME NEW t \in Txs, Acceptable(t), addUnchecked(t),
             UNCHANGED <<coinVars, resurrect>>, UNCHANGED chainTip
      PROVE  SpendsIndexed' /\ PoolGrounded'
  BY <1>2, AddKeepsPool
<1>3. CASE \E b \in Blocks : NewBlock(b)
  BY <1>1, <1>3 DEF NewBlock
<1>4. CASE ConnectTip
  BY <1>4, ConnectKeepsPool
<1>5. CASE ConnectFails
  BY <1>1, <1>5 DEF ConnectFails
<1>6. CASE DisconnectTip
  BY <1>6, DisconnectKeepsPool
<1>7. CASE Resurrect
  BY <1>7, ResurrectKeepsPool
<1>8. CASE DownloadEnds
  BY <1>1, <1>8 DEF DownloadEnds
<1>9. CASE \E t \in Txs : TxMessage(t)
  BY <1>1, <1>2, <1>9 DEF TxMessage, Relayable, chainVars
<1>10. CASE \E t \in Txs : SubmitTx(t)
  BY <1>2, <1>10 DEF SubmitTx, chainVars
<1>11. CASE TryOrphan
  <2>1. PICK o \in mapOrphanTransactionsByPrev[Head(vWorkQueue)] :
          \/ Acceptable(o) /\ addUnchecked(o)
          \/ UNCHANGED poolVars
    BY <1>11 DEF TryOrphan, Relayable, poolVars
  <2>2. o \in Txs
    BY <1>11 DEF TryOrphan, PoolInv, SafetyInv, TypeOK
  <2>3. UNCHANGED <<coinVars, resurrect>> /\ UNCHANGED chainTip
    BY <1>11 DEF TryOrphan, chainVars
  <2>4. QED BY <1>1, <1>2, <2>1, <2>2, <2>3
<1>12. CASE NextHash
  BY <1>1, <1>12 DEF NextHash, chainVars
<1>13. CASE Restart
  BY <1>13 DEF Restart, SpendsIndexed, PoolGrounded
<1>14. CASE UNCHANGED vars
  BY <1>1, <1>14 DEF vars, chainVars
<1>15. QED
  BY <1>3, <1>4, <1>5, <1>6, <1>7, <1>8, <1>9, <1>10, <1>11, <1>12, <1>13, <1>14 DEF Next

LEMMA PoolAlways == Spec => []PoolInv
<1>1. Init => PoolInv
  BY SafetyInit DEF Init, PoolInv, SpendsIndexed, PoolGrounded
<1>2. QED BY <1>1, PoolStep, PTL DEF Spec

\* The index of spent outputs and the pool never part, whatever is accepted,
\* removed with what depends on it, or resurrected.
THEOREM SpendsAlwaysIndexed == Spec => []SpendsIndexed
<1>1. PoolInv => SpendsIndexed
  BY DEF PoolInv
<1>2. QED BY <1>1, PoolAlways, PTL

\* Whatever a reorganisation disconnects and however deep it goes, it leaves no
\* transaction of the pool without its inputs, those from disconnected coinbases apart.
THEOREM PoolAlwaysConsistent == Spec => []PoolConsistent
<1>1. PoolInv => PoolConsistent
  BY DEF PoolInv, PoolGrounded, PoolConsistent, ElementsOf
<1>2. QED BY <1>1, PoolAlways, PTL

(***************************************************************************)
(* The orphans                                                             *)
(***************************************************************************)

OrphanInv == IsFiniteSet(mapOrphanTransactions) /\ OrphanIndexExact

LEMMA OrphanStep == TypeOK /\ OrphanInv /\ [Next]_vars => OrphanInv'
<1> SUFFICES ASSUME TypeOK, OrphanInv, [Next]_vars PROVE OrphanInv'
  OBVIOUS
<1> DEFINE O == mapOrphanTransactions
<1> USE DEF OrphanInv
<1>1. ASSUME UNCHANGED orphanVars PROVE OrphanInv'
  BY <1>1 DEF orphanVars, OrphanIndexExact
<1>2. MAX_ORPHAN_TRANSACTIONS \in Nat /\ Cardinality(O) \in Nat
      /\ Cardinality(O) <= MAX_ORPHAN_TRANSACTIONS
  BY NodeAssumption, FS_CardinalityType DEF OrphanIndexExact
<1>3. ASSUME NEW t \in Txs
      PROVE  IsFiniteSet(O \cup {t}) /\ Cardinality(O \cup {t}) \in Nat
             /\ Cardinality(O \cup {t}) <= MAX_ORPHAN_TRANSACTIONS + 1
  BY <1>2, FS_AddElement
<1>4. CASE \E t \in Txs : TxMessage(t)
  <2> PICK t \in Txs : TxMessage(t)
    BY <1>4
  <2>1. CASE UNCHANGED orphanVars
    BY <1>1, <2>1
  <2>2. CASE /\ Cardinality(O \cup {t}) <= MAX_ORPHAN_TRANSACTIONS
             /\ AddOrphanTx(t)
    BY <1>3, <2>2 DEF AddOrphanTx, OrphanIndexExact
  <2>3. CASE \E victim \in O \cup {t} : AddOrphanTxEvicting(t, victim)
    <3> PICK victim \in O \cup {t} : AddOrphanTxEvicting(t, victim)
      BY <2>3
    <3>1. O' = (O \cup {t}) \ {victim}
      BY DEF AddOrphanTxEvicting
    <3>2. IsFiniteSet(O') /\ Cardinality(O') = Cardinality(O \cup {t}) - 1
      BY <1>3, <3>1, FS_RemoveElement
    <3>3. Cardinality(O') <= MAX_ORPHAN_TRANSACTIONS
      <4>1. /\ Cardinality(O \cup {t}) \in Nat
            /\ Cardinality(O \cup {t}) <= MAX_ORPHAN_TRANSACTIONS + 1
        BY <1>3
      <4> HIDE DEF O
      <4>2. QED BY <1>2, <3>2, <4>1
    <3>4. ASSUME NEW p \in Txs
          PROVE  mapOrphanTransactionsByPrev'[p] = {o \in O' : p \in Parents(o)}
      BY <3>1 DEF AddOrphanTxEvicting, OrphanIndexExact
    <3>5. QED BY <3>2, <3>3, <3>4 DEF OrphanIndexExact
  <2>4. QED BY <2>1, <2>2, <2>3 DEF TxMessage
<1>5. CASE NextHash
  <2>1. CASE UNCHANGED orphanVars
    BY <1>1, <2>1
  <2>2. CASE EraseOrphanTxs(vEraseQueue)
    <3>1. O' \subseteq O
      BY <2>2 DEF EraseOrphanTxs
    <3>2. IsFiniteSet(O') /\ Cardinality(O') \in Nat /\ Cardinality(O') <= Cardinality(O)
      BY <3>1, FS_Subset, FS_CardinalityType
    <3>3. ASSUME NEW p \in Txs
          PROVE  mapOrphanTransactionsByPrev'[p] = {o \in O' : p \in Parents(o)}
      BY <2>2 DEF EraseOrphanTxs, OrphanIndexExact
    <3>4. QED BY <1>2, <3>2, <3>3 DEF OrphanIndexExact
  <2>3. QED BY <1>5, <2>1, <2>2 DEF NextHash
<1>6. CASE Restart
  <2>1. O' = {} /\ mapOrphanTransactionsByPrev' = [t \in Txs |-> {}]
    BY <1>6 DEF Restart
  <2>2. QED BY <1>2, <2>1, FS_EmptySet DEF OrphanIndexExact
<1>7. CASE \E b \in Blocks : NewBlock(b)
  BY <1>1, <1>7 DEF NewBlock
<1>8. CASE ConnectTip \/ ConnectFails \/ DisconnectTip \/ DownloadEnds
  BY <1>1, <1>8 DEF ConnectTip, ConnectFails, DisconnectTip, DownloadEnds
<1>9. CASE Resurrect \/ TryOrphan \/ \E t \in Txs : SubmitTx(t)
  BY <1>1, <1>9 DEF Resurrect, TryOrphan, SubmitTx
<1>10. CASE UNCHANGED vars
  BY <1>1, <1>10 DEF vars
<1>11. QED
  BY <1>4, <1>5, <1>6, <1>7, <1>8, <1>9, <1>10 DEF Next

\* The index of the orphans and their limit hold through every erasure.
THEOREM OrphanIndexAlwaysExact == Spec => []OrphanIndexExact
<1>1. Init => OrphanInv
  BY NodeAssumption, FS_EmptySet DEF Init, OrphanInv, OrphanIndexExact
<1>2. OrphanInv => OrphanIndexExact
  BY DEF OrphanInv
<1>3. QED BY <1>1, <1>2, OrphanStep, TypeCorrect, PTL DEF Spec

(***************************************************************************)
(* The pool beside the chain, and what a disconnected block gives back     *)
(***************************************************************************)

\* A sequence has its head and what its tail has; Append adds one element.
LEMMA ElementFacts ==
  ASSUME NEW S, NEW s \in Seq(S)
  PROVE  /\ \A x \in S : ElementsOf(Append(s, x)) = ElementsOf(s) \cup {x}
         /\ s # <<>> => /\ Head(s) \in ElementsOf(s) /\ Head(s) = s[1]
                        /\ ElementsOf(Tail(s)) \subseteq ElementsOf(s)
                        /\ DOMAIN Tail(s) = 1 .. Len(s) - 1 /\ Len(s) \in Nat
                        /\ \A i \in DOMAIN Tail(s) : Tail(s)[i] = s[i + 1] /\ i + 1 \in DOMAIN s
                        /\ \A i \in DOMAIN s : i # 1 => /\ i - 1 \in DOMAIN Tail(s)
                                                       /\ Tail(s)[i - 1] = s[i]
<1>1. DOMAIN s = 1 .. Len(s) /\ Len(s) \in Nat
  OBVIOUS
<1>2. ASSUME NEW x \in S PROVE ElementsOf(Append(s, x)) = ElementsOf(s) \cup {x}
  <2>1. /\ DOMAIN Append(s, x) = 1 .. Len(s) + 1
        /\ \A i \in 1 .. Len(s) : Append(s, x)[i] = s[i]
        /\ Append(s, x)[Len(s) + 1] = x
    OBVIOUS
  <2>2. \A i \in DOMAIN Append(s, x) : i \in DOMAIN s \/ i = Len(s) + 1
    BY <1>1, <2>1
  <2>3. DOMAIN s \subseteq DOMAIN Append(s, x) /\ Len(s) + 1 \in DOMAIN Append(s, x)
    BY <1>1, <2>1
  <2>4. QED BY <1>1, <2>1, <2>2, <2>3 DEF ElementsOf
<1>3. ASSUME s # <<>>
      PROVE  /\ Head(s) = s[1] /\ 1 \in DOMAIN s
             /\ DOMAIN Tail(s) = 1 .. Len(s) - 1
             /\ \A i \in DOMAIN Tail(s) : Tail(s)[i] = s[i + 1] /\ i + 1 \in DOMAIN s
             /\ \A i \in DOMAIN s : i # 1 => /\ i - 1 \in DOMAIN Tail(s)
                                            /\ Tail(s)[i - 1] = s[i]
  BY <1>1, <1>3
<1>4. QED BY <1>1, <1>2, <1>3 DEF ElementsOf

\* What a chain has, of its own or from Root.
OnChain(b) == ChainTxs(b) \cup RootTxs

\* What a chain spends is an output of one of its transactions.
LEMMA SpentOnChain ==
  ASSUME NEW b \in Blocks, NEW o \in ChainSpends(b)
  PROVE  o[1] \in OnChain(b)
<1>1. PICK a \in Path[b] \ {Root} : o \in SpentIn(a)
  BY DEF ChainSpends
<1>2. a \in Blocks \ {Root} /\ Parent[a] \in Path[a] /\ Path[a] \subseteq Path[b]
      /\ Parent[a] \in Blocks
  BY <1>1, PathFacts
<1>3. o[1] \in Txs
  BY <1>1, <1>2, TxsInBlocks, InputType DEF SpentIn
<1>4. \/ o[2] \in Utxo(Parent[a])[o[1]]
      \/ o[1] \in TxsOf(a)
  BY <1>1, <1>2, ChainAssumption
<1>5. CASE o[1] \in TxsOf(a)
  BY <1>1, <1>5 DEF OnChain, ChainTxs
<1>6. CASE o[2] \in Utxo(Parent[a])[o[1]]
  <2>1. o[1] \in ChainTxs(Parent[a]) \/ RootCoins[o[1]] # {}
    BY <1>3, <1>6 DEF Utxo
  <2>2. Path[Parent[a]] \subseteq Path[b]
    BY <1>2, PathFacts
  <2>3. QED BY <1>3, <2>1, <2>2, RootAssumption DEF OnChain, ChainTxs
<1>7. QED BY <1>4, <1>5, <1>6

\* No transaction is in the pool and in the active chain.
PoolApart == mapTx \cap OnChain(chainTip) = {}

\* Where the view of the tip knows unspent outputs of a transaction it is on chain.
LEMMA UnspentOnChain ==
  ASSUME SafetyInv, NEW p \in Txs, NEW n \in Unspent(TipView)[p]
  PROVE  /\ p \in OnChain(chainTip)
         /\ <<p, n>> \notin ChainSpends(chainTip)
         /\ p \in RootTxs => n \in RootCoins[p]
<1>1. chainTip \in Blocks /\ n \in Utxo(chainTip)[p]
  BY DEF SafetyInv, ChainInv, TypeOK, CoinsExact
<1>2. /\ n \in (IF p \in ChainTxs(chainTip) THEN Outs[p] ELSE RootCoins[p])
      /\ <<p, n>> \notin ChainSpends(chainTip)
  BY <1>1 DEF Utxo
<1>3. p \in RootTxs => p \notin ChainTxs(chainTip)
  <2>1. \A a \in Path[chainTip] \ {Root} : p \in RootTxs => p \notin TxsOf(a)
    BY <1>1, PathFacts, ChainAssumption
  <2>2. QED BY <2>1 DEF ChainTxs
<1>4. QED BY <1>2, <1>3, RootAssumption DEF OnChain

\* What is on chain has spent its inputs, so that it is not let into the pool.
LEMMA AcceptableApart ==
  ASSUME SafetyInv, PoolApart, NEW t \in Txs, Acceptable(t)
  PROVE  t \notin OnChain(chainTip)
<1> SUFFICES ASSUME t \in OnChain(chainTip) PROVE FALSE
  OBVIOUS
<1>1. PICK o \in Inputs[t] : TRUE
  BY TransactionAssumption DEF Acceptable, Considered
<1>2. o[1] \in Txs /\ o = <<o[1], o[2]>> /\ chainTip \in Blocks
  BY InputType DEF SafetyInv, ChainInv, TypeOK
<1>3. o[1] \in OnChain(chainTip)
      /\ (o \in ChainSpends(chainTip) \/ (o[1] \in RootTxs /\ o[2] \notin RootCoins[o[1]]))
  <2>1. CASE t \in ChainTxs(chainTip)
    <3>1. o \in ChainSpends(chainTip)
      BY <2>1 DEF ChainTxs, ChainSpends, SpentIn
    <3>2. QED BY <1>2, <3>1, SpentOnChain
  <2>2. CASE t \in RootTxs
    BY <2>2, RootAssumption DEF OnChain
  <2>3. QED BY <2>1, <2>2 DEF OnChain
<1>4. o[2] \in Unspent(TipView)[o[1]]
  <2>1. Available(o)
    BY AcceptableFacts
  <2>2. QED BY <1>3, <2>1 DEF Available, PoolApart
<1>5. QED BY <1>2, <1>3, <1>4, UnspentOnChain

\* The transactions of a disconnected block that are still to be resurrected: they
\* and what they spend are neither in the pool nor spent there.
ResurrectInv ==
  resurrect # <<>> =>
    /\ vWorkQueue = <<>>
    /\ ~initialDownload => cacheCoins = NoCoins
    /\ \A i, j \in DOMAIN resurrect : resurrect[i] = resurrect[j] => i = j
    /\ \E b \in Blocks \ {Root} :
         Parent[b] = chainTip /\ ElementsOf(resurrect) \subseteq TxsOf(b)
    /\ \A t \in ElementsOf(resurrect) :
         t \notin mapTx /\ \A o \in Inputs[t] : mapNextTx[o] = None

LEMMA ApartStep == PoolInv /\ PoolApart /\ [Next]_vars => PoolApart'
<1> SUFFICES ASSUME PoolInv, PoolApart, [Next]_vars PROVE PoolApart'
  OBVIOUS
<1> USE DEF PoolApart, OnChain
<1>1. ASSUME mapTx' \subseteq mapTx, UNCHANGED chainTip PROVE PoolApart'
  BY <1>1
<1>2. ASSUME NEW t \in Txs, Acceptable(t), addUnchecked(t), UNCHANGED chainTip PROVE PoolApart'
  BY <1>2, AcceptableApart DEF addUnchecked, PoolInv
<1>3. CASE ConnectTip
  <2>1. NextBlock \in Blocks \ {Root} /\ Parent[NextBlock] = chainTip
    BY <1>3, NextBlockFacts DEF ConnectTip, PoolInv, SafetyInv
  <2>2. mapTx' \subseteq mapTx \ TxsOf(NextBlock) /\ chainTip' = NextBlock
    BY <1>3 DEF ConnectTip, removeTxs
  <2>3. QED BY <2>1, <2>2, ChainGrows
<1>4. CASE DisconnectTip
  <2>1. chainTip \in Blocks \ {Root}
    BY <1>4, PathFacts DEF DisconnectTip, PoolInv, SafetyInv, TypeOK, ChainInv
  <2>2. UNCHANGED mapTx /\ chainTip' = Parent[chainTip]
    BY <1>4 DEF DisconnectTip, poolVars
  <2>3. QED BY <2>1, <2>2, ChainGrows
<1>5. CASE Resurrect
  <2>1. Head(resurrect) \in Txs /\ UNCHANGED chainTip
    BY <1>5 DEF Resurrect, PoolInv, SafetyInv, TypeOK, chainVars
  <2>2. \/ UNCHANGED poolVars
        \/ Acceptable(Head(resurrect)) /\ addUnchecked(Head(resurrect))
        \/ removeTxs(WithDescendants({Head(resurrect)}))
    BY <1>5 DEF Resurrect
  <2>3. QED BY <1>1, <1>2, <2>1, <2>2 DEF poolVars, removeTxs
<1>6. CASE \E t \in Txs : TxMessage(t) \/ SubmitTx(t)
  BY <1>1, <1>2, <1>6 DEF TxMessage, Relayable, SubmitTx, poolVars, chainVars
<1>7. CASE TryOrphan
  <2>1. PICK o \in mapOrphanTransactionsByPrev[Head(vWorkQueue)] :
          \/ Acceptable(o) /\ addUnchecked(o)
          \/ UNCHANGED poolVars
    BY <1>7 DEF TryOrphan, Relayable, poolVars
  <2>2. o \in Txs /\ UNCHANGED chainTip
    BY <1>7 DEF TryOrphan, PoolInv, SafetyInv, TypeOK, chainVars
  <2>3. QED BY <1>1, <1>2, <2>1, <2>2 DEF poolVars
<1>8. CASE Restart
  BY <1>8 DEF Restart
<1>9. CASE (\E b \in Blocks : NewBlock(b)) \/ ConnectFails \/ DownloadEnds \/ NextHash
  BY <1>1, <1>9 DEF NewBlock, ConnectFails, DownloadEnds, NextHash, poolVars, chainVars
<1>10. CASE UNCHANGED vars
  BY <1>1, <1>10 DEF vars, poolVars, chainVars
<1>11. QED
  BY <1>3, <1>4, <1>5, <1>6, <1>7, <1>8, <1>9, <1>10 DEF Next

LEMMA DisconnectFrees ==
  ASSUME PoolInv, PoolApart, DisconnectTip
  PROVE  ResurrectInv'
<1> DEFINE b == chainTip
<1>1. /\ resurrect = <<>> /\ resurrect' = BlockTxs[b] /\ chainTip' = Parent[b]
      /\ vWorkQueue' = <<>> /\ UNCHANGED <<initialDownload, poolVars>>
  BY DEF DisconnectTip, Idle, loopVars
<1>2. b \in Blocks \ {Root}
  BY PathFacts DEF DisconnectTip, PoolInv, SafetyInv, TypeOK, ChainInv
<1>3. ~initialDownload' => cacheCoins' = NoCoins
  BY DEF DisconnectTip, WriteChainState
<1>4. \A i, j \in DOMAIN resurrect' : resurrect'[i] = resurrect'[j] => i = j
  BY <1>1, <1>2, ChainAssumption
<1>5. ElementsOf(resurrect') = TxsOf(b)
  BY <1>1 DEF TxsOf
<1>6. ASSUME NEW t \in TxsOf(b)
      PROVE  t \notin mapTx /\ \A o \in Inputs[t] : mapNextTx[o] = None
  <2>1. t \in Txs /\ t \in OnChain(b)
    BY <1>2, TxsInBlocks, ChainGrows DEF OnChain
  <2>2. t \notin mapTx
    BY <2>1 DEF PoolApart
  <2>3. ASSUME NEW o \in Inputs[t], mapNextTx[o] # None
        PROVE  FALSE
    <3>1. o \in Outpoints /\ o[1] \in Txs /\ o = <<o[1], o[2]>>
      BY <2>1, InputType
    <3>2. mapNextTx[o] \in mapTx /\ o \in Inputs[mapNextTx[o]]
      BY <2>3, <3>1 DEF PoolInv, SpendsIndexed
    <3>3. Available(o) \/ Vanished(o)
      BY <1>1, <3>2 DEF PoolInv, PoolGrounded, ElementsOf
    <3>4. o \in ChainSpends(b)
      BY <1>2, ChainGrows DEF SpentIn
    <3>5. o[1] \notin mapTx /\ ~Vanished(o)
      BY <1>2, <3>4, SpentOnChain DEF PoolApart, OnChain, Vanished
    <3>6. o[2] \in Unspent(TipView)[o[1]]
      BY <3>3, <3>5 DEF Available
    <3>7. QED BY <3>1, <3>4, <3>6, UnspentOnChain DEF PoolInv
  <2>4. QED BY <2>2, <2>3
<1>7. QED
  <2>1. /\ \E c \in Blocks \ {Root} :
             Parent[c] = chainTip' /\ ElementsOf(resurrect') \subseteq TxsOf(c)
        /\ \A t \in ElementsOf(resurrect') :
             t \notin mapTx' /\ \A o \in Inputs[t] : mapNextTx'[o] = None
    BY <1>1, <1>2, <1>5, <1>6 DEF poolVars
  <2>2. QED BY <1>1, <1>3, <1>4, <2>1 DEF ResurrectInv

LEMMA ResurrectLeaves ==
  ASSUME PoolInv, ResurrectInv, Resurrect
  PROVE  ResurrectInv'
<1> DEFINE t == Head(resurrect)
<1>1. /\ resurrect \in Seq(Txs) /\ resurrect # <<>> /\ resurrect' = Tail(resurrect)
      /\ UNCHANGED <<chainTip, vWorkQueue, initialDownload, cacheCoins>>
  BY DEF Resurrect, PoolInv, SafetyInv, TypeOK, chainVars, loopVars, coinVars
<1>2. ElementsOf(resurrect') \subseteq ElementsOf(resurrect) /\ t \in ElementsOf(resurrect)
  BY <1>1, ElementFacts
<1>3. \A i, j \in DOMAIN resurrect' : resurrect'[i] = resurrect'[j] => i = j
  <2>1. SUFFICES ASSUME NEW i \in DOMAIN resurrect', NEW j \in DOMAIN resurrect',
                        resurrect'[i] = resurrect'[j]
                 PROVE  i = j
    OBVIOUS
  <2>2. /\ i \in Int /\ i + 1 \in DOMAIN resurrect /\ resurrect'[i] = resurrect[i + 1]
        /\ j \in Int /\ j + 1 \in DOMAIN resurrect /\ resurrect'[j] = resurrect[j + 1]
    BY <1>1, ElementFacts
  <2>3. i + 1 = j + 1
    BY <1>1, <2>1, <2>2 DEF ResurrectInv
  <2>4. QED BY <2>2, <2>3
<1>4. t \notin ElementsOf(resurrect')
  <2>1. SUFFICES ASSUME NEW i \in DOMAIN resurrect', resurrect'[i] = t PROVE FALSE
    BY DEF ElementsOf
  <2>2. /\ i \in 1 .. Len(resurrect) - 1 /\ Len(resurrect) \in Nat /\ 1 \in DOMAIN resurrect
        /\ i + 1 \in DOMAIN resurrect /\ resurrect[i + 1] = t /\ resurrect[1] = t
    BY <1>1, <2>1, ElementFacts
  <2>3. i + 1 = 1
    BY <1>1, <2>2 DEF ResurrectInv
  <2>4. QED BY <2>2, <2>3
<1>5. PICK b \in Blocks \ {Root} :
        Parent[b] = chainTip /\ ElementsOf(resurrect) \subseteq TxsOf(b)
  BY <1>1 DEF ResurrectInv
<1>6. \/ UNCHANGED poolVars \/ addUnchecked(t) \/ removeTxs(WithDescendants({t}))
  BY DEF Resurrect
<1>7. ASSUME NEW u \in ElementsOf(resurrect')
      PROVE  u \notin mapTx' /\ \A o \in Inputs[u] : mapNextTx'[o] = None
  <2>1. u \notin mapTx /\ \A o \in Inputs[u] : mapNextTx[o] = None
    BY <1>1, <1>2 DEF ResurrectInv
  <2>2. u # t /\ Inputs[u] \cap Inputs[t] = {}
    BY <1>2, <1>4, <1>5, ChainAssumption
  <2>3. u \in Txs /\ Inputs[u] \subseteq Outpoints
    BY <1>2, <1>5, TxsInBlocks, InputType
  <2>4. QED BY <1>6, <2>1, <2>2, <2>3 DEF poolVars, addUnchecked, removeTxs
<1> HIDE DEF t
<1>8. QED BY <1>1, <1>2, <1>3, <1>5, <1>7 DEF ResurrectInv

LEMMA ResurrectStep ==
  PoolInv /\ PoolApart /\ ResurrectInv /\ [Next]_vars => ResurrectInv'
<1> SUFFICES ASSUME PoolInv, PoolApart, ResurrectInv, [Next]_vars PROVE ResurrectInv'
  OBVIOUS
<1>1. CASE DisconnectTip
  BY <1>1, DisconnectFrees
<1>2. CASE Resurrect
  BY <1>2, ResurrectLeaves
<1>3. CASE resurrect' = <<>>
  BY <1>3 DEF ResurrectInv
<1>4. CASE TryOrphan \/ NextHash
  BY <1>3, <1>4 DEF TryOrphan, NextHash, ResurrectInv
<1>5. CASE UNCHANGED vars
  BY <1>5 DEF vars, chainVars, coinVars, poolVars, loopVars, ResurrectInv
<1>6. CASE \/ \E b \in Blocks : NewBlock(b)
           \/ ConnectTip \/ ConnectFails \/ DownloadEnds \/ Restart
           \/ \E t \in Txs : TxMessage(t) \/ SubmitTx(t)
  BY <1>3, <1>6
  DEF NewBlock, ConnectTip, ConnectFails, DownloadEnds, Restart, TxMessage, SubmitTx, AtRest, Idle
<1>7. QED BY <1>1, <1>2, <1>4, <1>5, <1>6 DEF Next

LEMMA ResurrectAlways == Spec => [](PoolInv /\ PoolApart /\ ResurrectInv)
<1>1. Init => PoolApart /\ ResurrectInv
  BY DEF Init, PoolApart, ResurrectInv
<1>2. QED BY <1>1, ApartStep, ResurrectStep, PoolAlways, PTL DEF Spec

\* A transaction that was in the block is one the pool may have again, once all
\* coins are in the database: there nothing hides it.
LEMMA ResurrectableAcceptable ==
  ASSUME PoolInv, PoolApart, ResurrectInv, resurrect # <<>>, ~initialDownload,
         Resurrectable(Head(resurrect))
  PROVE  Acceptable(Head(resurrect))
<1> DEFINE t == Head(resurrect)
<1>1. t \in ElementsOf(resurrect) /\ cacheCoins = NoCoins
  BY ElementFacts DEF PoolInv, SafetyInv, TypeOK, ResurrectInv
<1>2. PICK b \in Blocks \ {Root} : Parent[b] = chainTip /\ t \in TxsOf(b)
  BY <1>1 DEF ResurrectInv
<1>3. t \in Txs /\ t \notin mapTx /\ \A o \in Inputs[t] : mapNextTx[o] = None
  BY <1>1, <1>2, TxsInBlocks DEF ResurrectInv
<1>4. \A p \in Txs : TipView[p] # Absent => \E n : n \in Unspent(TipView)[p]
  BY <1>1 DEF TipView, Over, NoCoins, Unspent, PoolInv, SafetyInv, TypeOK, DatabaseViews, Pruned
<1>5. ~HaveCoins(PoolView, t)
  <2>1. t \notin OnChain(chainTip)
    BY <1>2, ChainAssumption DEF OnChain
  <2>2. TipView[t] = Absent
    BY <1>3, <1>4, <2>1, UnspentOnChain DEF PoolInv
  <2>3. QED BY <1>3, <2>2 DEF PoolView, HaveCoins
<1>6. ASSUME NEW o \in Inputs[t]
      PROVE  HaveCoins(PoolView, o[1]) /\ o[2] \in PoolView[o[1]]
  <2>1. o[1] \in Txs /\ Available(o)
    BY <1>3, InputType DEF Resurrectable
  <2>2. CASE o[2] \in Unspent(TipView)[o[1]]
    BY <2>1, <2>2 DEF Unspent, PoolView, HaveCoins
  <2>3. CASE o[1] \in mapTx /\ o[2] \in Outs[o[1]]
    <3>1. TipView[o[1]] = Absent
      BY <1>4, <2>1, <2>3, UnspentOnChain DEF PoolInv, PoolApart
    <3>2. Outs[o[1]] # Absent
      BY <2>1, CoinsViewAssumption, TransactionAssumption
    <3>3. QED BY <2>1, <2>3, <3>1, <3>2 DEF PoolView, HaveCoins
  <2>4. QED BY <2>1, <2>2, <2>3 DEF Available
<1>7. ASSUME NEW c \in Parents(t) \cap Coinbases
      PROVE  Mature(c)
  <2>1. Height[b] >= BornAt[c] + COINBASE_MATURITY
    BY <1>2, ChainAssumption
  <2>2. BestBlock = chainTip /\ Height[b] = Height[chainTip] + 1
    BY <1>2, BlockTree DEF PoolInv, SafetyInv, CoinsExact
  <2>3. Height[chainTip] \in Nat /\ BornAt[c] \in Nat /\ COINBASE_MATURITY \in Nat
    BY <1>2, BlockTree, TransactionAssumption, NodeAssumption
  <2>4. QED BY <2>1, <2>2, <2>3 DEF Mature
<1> HIDE DEF t
<1>8. QED
  BY <1>3, <1>5, <1>6, <1>7 DEF Resurrectable, Acceptable, Considered, t

\* After initial download no transaction of a disconnected block that the node would
\* relay is lost: the pool takes it although its block was spent from the coins only
\* just before.
THEOREM DisconnectLosesNothing == Spec => DisconnectKeepsTxs
<1> DEFINE Kept == (/\ resurrect # <<>> /\ UNCHANGED restarts /\ ~initialDownload
                    /\ Resurrectable(Head(resurrect)))
                   => Head(resurrect) \in mapTx'
<1>1. PoolInv /\ PoolApart /\ ResurrectInv /\ [Next]_vars => [Kept]_vars
  <2> SUFFICES ASSUME PoolInv, PoolApart, ResurrectInv, Next,
                      resurrect # <<>>, UNCHANGED restarts, ~initialDownload,
                      Resurrectable(Head(resurrect))
               PROVE  Head(resurrect) \in mapTx'
    OBVIOUS
  <2>1. Acceptable(Head(resurrect)) /\ Head(resurrect) \notin Coinbases
    BY ResurrectableAcceptable DEF Resurrectable
  <2>2. CASE Resurrect
    BY <2>1, <2>2 DEF Resurrect, addUnchecked
  <2>3. CASE TryOrphan \/ NextHash
    BY <2>3 DEF TryOrphan, NextHash, ResurrectInv
  <2>4. CASE Restart
    BY <2>4, NodeAssumption DEF Restart, PoolInv, SafetyInv, TypeOK
  <2>5. CASE \/ \E b \in Blocks : NewBlock(b)
             \/ ConnectTip \/ ConnectFails \/ DisconnectTip \/ DownloadEnds
             \/ \E t \in Txs : TxMessage(t) \/ SubmitTx(t)
    BY <2>5 DEF NewBlock, ConnectTip, ConnectFails, DisconnectTip, DownloadEnds, TxMessage,
                SubmitTx, AtRest, Idle
  <2>6. QED BY <2>2, <2>3, <2>4, <2>5 DEF Next
<1>2. QED BY <1>1, ResurrectAlways, PTL DEF Spec, DisconnectKeepsTxs

(***************************************************************************)
(* The work queue of a "tx" message                                        *)
(***************************************************************************)

\* What the message has let into the pool.
LetIn == vEraseQueue \cap mapTx

Lacks(o) == \E p \in Parents(o) : ~HaveCoins(PoolView, p)

\* A parent of the orphan is in the queue, and the orphan not yet tried for it.
Pending(o) ==
  \E i \in DOMAIN vWorkQueue : vWorkQueue[i] \in Parents(o) /\ (i = 1 => o \notin tried)

\* An orphan that spends what the message let in has its turn to come, is to be
\* erased, or lacks some input; one that is in the pool was let in by the message.
LoopInv ==
  /\ vWorkQueue = <<>> => vEraseQueue = {} /\ tried = {}
  /\ vWorkQueue # <<>> => resurrect = <<>>
  /\ \A o \in mapOrphanTransactions :
       Parents(o) \cap ElementsOf(vWorkQueue) # {} /\ o \in mapTx => o \in vEraseQueue
  /\ \A o \in mapOrphanTransactions \ vEraseQueue :
       Parents(o) \cap LetIn # {} => Pending(o) \/ Lacks(o)

\* What is let in was not spent in the pool before: it was not in any view.
LEMMA AcceptedIsNew ==
  ASSUME PoolInv, resurrect = <<>>, NEW t \in Txs, Acceptable(t), NEW u \in mapTx
  PROVE  t \notin Parents(u)
<1> SUFFICES ASSUME NEW o \in Inputs[u], o[1] = t PROVE FALSE
  BY DEF Parents
<1>1. Available(o) \/ Vanished(o)
  BY DEF PoolInv, PoolGrounded, ElementsOf
<1>2. t \notin mapTx /\ TipView[t] = Absent /\ t \notin Coinbases
  BY DEF Acceptable, Considered, HaveCoins, PoolView
<1>3. QED BY <1>1, <1>2 DEF Available, Vanished, Unspent

\* A transaction let into the pool changes the view of the pool for itself only.
LEMMA LacksStays ==
  ASSUME NEW t \in Txs, addUnchecked(t), UNCHANGED coinVars,
         NEW o \in Txs, t \notin Parents(o), Lacks(o)
  PROVE  Lacks(o)'
<1>1. PICK p \in Parents(o) : ~HaveCoins(PoolView, p)
  BY DEF Lacks
<1>2. p \in Txs /\ p # t
  BY <1>1, InputType DEF Parents
<1>3. PoolView'[p] = PoolView[p]
  BY <1>2 DEF PoolView, TipView, addUnchecked, coinVars
<1>4. QED BY <1>1, <1>3 DEF Lacks, HaveCoins

\* The loop begins: the orphans of the accepted transaction wait for their turn.
LEMMA MessageLoop ==
  ASSUME PoolInv, OrphanInv, LoopInv, NEW t \in Txs, TxMessage(t)
  PROVE  LoopInv'
<1>1. vWorkQueue = <<>> /\ vEraseQueue = {} /\ tried = {} /\ resurrect = <<>>
      /\ tried' = {} /\ resurrect' = <<>>
  BY DEF TxMessage, AtRest, Idle, LoopInv
<1>2. CASE UNCHANGED <<vWorkQueue, vEraseQueue>>
  BY <1>1, <1>2 DEF LoopInv, LetIn, ElementsOf
<1>3. CASE Relayable(t) /\ addUnchecked(t) /\ vWorkQueue' = <<t>> /\ vEraseQueue' = {t}
           /\ UNCHANGED orphanVars
  <2>1. mapTx' = mapTx \cup {t}
    BY <1>3 DEF addUnchecked
  <2>2. vWorkQueue' # <<>> /\ DOMAIN vWorkQueue' = {1} /\ vWorkQueue'[1] = t
    BY <1>3
  <2>3. ElementsOf(vWorkQueue') = {t}
    BY <2>2 DEF ElementsOf
  <2>4. \A o \in mapOrphanTransactions' :
          Parents(o) \cap ElementsOf(vWorkQueue') # {} /\ o \in mapTx' => o \in vEraseQueue'
    BY <1>1, <1>3, <2>1, <2>3, AcceptedIsNew DEF Relayable
  <2>5. LetIn' \subseteq {t}
    BY <1>3 DEF LetIn
  <2>6. \A o \in mapOrphanTransactions' \ vEraseQueue' :
          Parents(o) \cap LetIn' # {} => Pending(o)'
    BY <1>1, <2>2, <2>5 DEF Pending
  <2>7. QED BY <1>1, <2>2, <2>4, <2>6 DEF LoopInv
<1>4. QED BY <1>2, <1>3 DEF TxMessage

\* An orphan is tried: it comes into the pool and the queue, or is to be erased, or
\* lacks some input.
LEMMA TryLoop ==
  ASSUME PoolInv, OrphanInv, LoopInv, TryOrphan
  PROVE  LoopInv'
<1>1. /\ vWorkQueue # <<>> /\ vWorkQueue \in Seq(Txs) /\ resurrect = <<>> /\ resurrect' = <<>>
      /\ mapOrphanTransactions \subseteq Txs
      /\ UNCHANGED <<mapOrphanTransactions, coinVars>>
  BY DEF TryOrphan, LoopInv, PoolInv, SafetyInv, TypeOK, orphanVars
<1>2. PICK x \in mapOrphanTransactionsByPrev[Head(vWorkQueue)] \ tried :
        /\ tried' = tried \cup {x}
        /\ IF Relayable(x)
           THEN addUnchecked(x) /\ vWorkQueue' = Append(vWorkQueue, x)
                /\ vEraseQueue' = vEraseQueue \cup {x}
           ELSE /\ vEraseQueue' = IF MissingInputs(x) THEN vEraseQueue
                                  ELSE vEraseQueue \cup {x}
                /\ UNCHANGED <<poolVars, vWorkQueue>>
  BY DEF TryOrphan
<1>3. Head(vWorkQueue) \in Txs /\ Head(vWorkQueue) \in ElementsOf(vWorkQueue)
  BY <1>1, ElementFacts
<1>4. x \in mapOrphanTransactions /\ x \in Txs /\ Head(vWorkQueue) \in Parents(x)
  BY <1>1, <1>2, <1>3 DEF OrphanInv, OrphanIndexExact
<1>5. CASE Relayable(x)
  <2>1. /\ addUnchecked(x) /\ vWorkQueue' = Append(vWorkQueue, x)
        /\ vEraseQueue' = vEraseQueue \cup {x} /\ mapTx' = mapTx \cup {x}
    BY <1>2, <1>5 DEF addUnchecked
  <2>2. ElementsOf(vWorkQueue') = ElementsOf(vWorkQueue) \cup {x} /\ vWorkQueue' # <<>>
    BY <1>1, <1>4, <2>1, ElementFacts
  <2>3. /\ \A i \in DOMAIN vWorkQueue : i \in DOMAIN vWorkQueue'
                                        /\ vWorkQueue'[i] = vWorkQueue[i]
        /\ Len(vWorkQueue) + 1 \in DOMAIN vWorkQueue' /\ Len(vWorkQueue) + 1 # 1
        /\ vWorkQueue'[Len(vWorkQueue) + 1] = x
    BY <1>1, <1>4, <2>1
  <2>4. \A o \in mapOrphanTransactions' :
          Parents(o) \cap ElementsOf(vWorkQueue') # {} /\ o \in mapTx' => o \in vEraseQueue'
    BY <1>1, <1>4, <1>5, <2>1, <2>2, AcceptedIsNew DEF LoopInv, Relayable
  <2>5. ASSUME NEW o \in mapOrphanTransactions \ vEraseQueue', Parents(o) \cap LetIn' # {}
        PROVE  Pending(o)' \/ Lacks(o)'
    <3>1. CASE x \in Parents(o)
      BY <2>3, <3>1 DEF Pending
    <3>2. CASE x \notin Parents(o)
      <4>1. Parents(o) \cap LetIn # {} /\ o # x /\ o \in mapOrphanTransactions \ vEraseQueue
        BY <2>1, <2>5, <3>2 DEF LetIn
      <4>2. CASE Pending(o)
        BY <1>2, <2>3, <4>1, <4>2 DEF Pending
      <4>3. CASE Lacks(o)
        BY <1>1, <1>4, <2>1, <3>2, <4>1, <4>3, LacksStays
      <4>4. QED BY <4>1, <4>2, <4>3 DEF LoopInv
    <3>3. QED BY <3>1, <3>2
  <2>6. QED BY <1>1, <2>2, <2>4, <2>5 DEF LoopInv
<1>6. CASE ~Relayable(x)
  <2>1. /\ UNCHANGED <<mapTx, vWorkQueue>>
        /\ vEraseQueue' = IF MissingInputs(x) THEN vEraseQueue ELSE vEraseQueue \cup {x}
    BY <1>2, <1>6 DEF poolVars
  <2>2. LetIn' = LetIn
    BY <1>3, <1>4, <2>1 DEF LetIn, LoopInv
  <2>3. \A o : Lacks(o)' <=> Lacks(o)
    BY <1>1, <2>1 DEF Lacks, HaveCoins, PoolView, TipView, coinVars
  <2>4. \A o \in mapOrphanTransactions' :
          Parents(o) \cap ElementsOf(vWorkQueue') # {} /\ o \in mapTx' => o \in vEraseQueue'
    BY <1>1, <2>1 DEF LoopInv
  <2>5. ASSUME NEW o \in mapOrphanTransactions \ vEraseQueue', Parents(o) \cap LetIn' # {}
        PROVE  Pending(o)' \/ Lacks(o)'
    <3>1. Pending(o) \/ Lacks(o)
      BY <2>1, <2>2, <2>5 DEF LoopInv
    <3>2. CASE o = x
      <4>1. MissingInputs(x)
        BY <2>1, <2>5, <3>2
      <4>2. QED BY <2>3, <3>2, <4>1 DEF MissingInputs, Lacks
    <3>3. CASE o # x
      BY <1>2, <2>1, <2>3, <3>1, <3>3 DEF Pending
    <3>4. QED BY <3>2, <3>3
  <2>6. QED BY <1>1, <2>1, <2>4, <2>5 DEF LoopInv
<1>7. QED BY <1>5, <1>6

\* All orphans of the first of the queue are tried: the next ones have their turn.
LEMMA NextLoop ==
  ASSUME PoolInv, OrphanInv, LoopInv, NextHash
  PROVE  /\ LoopInv'
         /\ vWorkQueue' = <<>> =>
              \A o \in mapOrphanTransactions \ vEraseQueue :
                Parents(o) \cap LetIn # {} => Lacks(o)
<1>1. /\ vWorkQueue # <<>> /\ vWorkQueue \in Seq(Txs) /\ resurrect' = <<>>
      /\ vWorkQueue' = Tail(vWorkQueue) /\ tried' = {}
      /\ mapOrphanTransactionsByPrev[Head(vWorkQueue)] \subseteq tried
      /\ UNCHANGED <<coinVars, mapTx>>
  BY DEF NextHash, LoopInv, PoolInv, SafetyInv, TypeOK, poolVars
<1>2. /\ Head(vWorkQueue) \in Txs /\ Head(vWorkQueue) = vWorkQueue[1]
      /\ ElementsOf(vWorkQueue') \subseteq ElementsOf(vWorkQueue)
      /\ \A i \in DOMAIN vWorkQueue : i # 1 => /\ i - 1 \in DOMAIN vWorkQueue'
                                              /\ vWorkQueue'[i - 1] = vWorkQueue[i]
  BY <1>1, ElementFacts
<1>3. \A o \in mapOrphanTransactions : Head(vWorkQueue) \in Parents(o) => o \in tried
  BY <1>1, <1>2 DEF OrphanInv, OrphanIndexExact
<1>4. ASSUME NEW o \in mapOrphanTransactions, Pending(o)
      PROVE  Pending(o)' /\ vWorkQueue' # <<>>
  <2>1. PICK i \in DOMAIN vWorkQueue : vWorkQueue[i] \in Parents(o) /\ (i = 1 => o \notin tried)
    BY <1>4 DEF Pending
  <2>2. i # 1
    BY <1>2, <1>3, <2>1
  <2>3. i - 1 \in DOMAIN vWorkQueue' /\ vWorkQueue'[i - 1] \in Parents(o)
    BY <1>2, <2>1, <2>2
  <2>4. vWorkQueue' # <<>>
    BY <2>3
  <2>5. QED BY <1>1, <2>3, <2>4 DEF Pending
<1>5. \A o : Lacks(o)' <=> Lacks(o)
  BY <1>1 DEF Lacks, HaveCoins, PoolView, TipView, coinVars
<1>6. CASE vWorkQueue' = <<>>
  <2>1. vEraseQueue' = {}
    BY <1>6 DEF NextHash
  <2>2. LoopInv'
    BY <1>1, <1>6, <2>1 DEF LoopInv, LetIn, ElementsOf
  <2>3. QED BY <1>4, <1>6, <2>2 DEF LoopInv
<1>7. CASE vWorkQueue' # <<>>
  <2>1. UNCHANGED <<mapOrphanTransactions, vEraseQueue>>
    BY <1>7 DEF NextHash, orphanVars
  <2>2. QED BY <1>1, <1>2, <1>4, <1>5, <1>7, <2>1 DEF LoopInv, LetIn
<1>8. QED BY <1>6, <1>7

LEMMA LoopStep == PoolInv /\ OrphanInv /\ LoopInv /\ [Next]_vars => LoopInv'
<1> SUFFICES ASSUME PoolInv, OrphanInv, LoopInv, [Next]_vars PROVE LoopInv'
  OBVIOUS
<1>1. ASSUME vWorkQueue' = <<>>, vEraseQueue' = {}, tried' = {} PROVE LoopInv'
  BY <1>1 DEF LoopInv, LetIn, ElementsOf
<1>2. CASE \E t \in Txs : TxMessage(t)
  BY <1>2, MessageLoop
<1>3. CASE TryOrphan
  BY <1>3, TryLoop
<1>4. CASE NextHash
  BY <1>4, NextLoop
<1>5. CASE Restart
  BY <1>1, <1>5 DEF Restart
<1>6. CASE Resurrect
  BY <1>1, <1>6 DEF Resurrect, loopVars, LoopInv
<1>7. CASE \/ \E b \in Blocks : NewBlock(b)
           \/ ConnectTip \/ ConnectFails \/ DisconnectTip \/ DownloadEnds
           \/ \E t \in Txs : SubmitTx(t)
  BY <1>1, <1>7
  DEF NewBlock, ConnectTip, ConnectFails, DisconnectTip, DownloadEnds, SubmitTx, AtRest, Idle,
      loopVars, LoopInv
<1>8. CASE UNCHANGED vars
  <2>1. \A o : (Pending(o)' <=> Pending(o)) /\ (Lacks(o)' <=> Lacks(o))
    BY <1>8 DEF vars, Pending, Lacks, HaveCoins, PoolView, TipView, coinVars, poolVars, loopVars
  <2>2. QED BY <1>8, <2>1 DEF vars, poolVars, orphanVars, loopVars, LoopInv, LetIn
<1>9. QED BY <1>2, <1>3, <1>4, <1>5, <1>6, <1>7, <1>8 DEF Next

\* The work queue of a "tx" message reaches every orphan that what it lets in could
\* complete, also the orphans of orphans, in whatever order they are tried.
THEOREM OrphansAlwaysSettled == Spec => OrphansSettled
<1> DEFINE Settled ==
      (vEraseQueue # {} /\ vEraseQueue' = {} /\ UNCHANGED restarts)
        => \A o \in mapOrphanTransactions' :
             Parents(o) \cap vEraseQueue \cap mapTx # {}
               => (\E p \in Parents(o) : ~HaveCoins(PoolView, p))'
<1>1. Init => OrphanInv /\ LoopInv
  BY NodeAssumption, FS_EmptySet
  DEF Init, OrphanInv, OrphanIndexExact, LoopInv, LetIn, ElementsOf
<1>2. PoolInv /\ OrphanInv /\ LoopInv /\ [Next]_vars => [Settled]_vars
  <2> SUFFICES ASSUME PoolInv, OrphanInv, LoopInv, Next,
                      vEraseQueue # {}, vEraseQueue' = {}, UNCHANGED restarts,
                      NEW o \in mapOrphanTransactions', Parents(o) \cap LetIn # {}
               PROVE  Lacks(o)'
    BY DEF LetIn, Lacks
  <2>1. vWorkQueue # <<>>
    BY DEF LoopInv
  <2>2. CASE NextHash
    <3>1. vWorkQueue' = <<>> /\ o \in mapOrphanTransactions \ vEraseQueue
      BY <2>2 DEF NextHash, EraseOrphanTxs
    <3>2. Lacks(o)
      BY <2>2, <3>1, NextLoop
    <3>3. UNCHANGED <<coinVars, mapTx>>
      BY <2>2 DEF NextHash, poolVars
    <3>4. QED BY <3>2, <3>3 DEF Lacks, HaveCoins, PoolView, TipView, coinVars
  <2>3. CASE TryOrphan
    BY <2>3 DEF TryOrphan
  <2>4. CASE Restart
    BY <2>4, NodeAssumption DEF Restart, PoolInv, SafetyInv, TypeOK
  <2>5. CASE Resurrect
    BY <2>1, <2>5 DEF Resurrect, LoopInv
  <2>6. CASE \/ \E b \in Blocks : NewBlock(b)
             \/ ConnectTip \/ ConnectFails \/ DisconnectTip \/ DownloadEnds
             \/ \E t \in Txs : TxMessage(t) \/ SubmitTx(t)
    BY <2>1, <2>6 DEF NewBlock, ConnectTip, ConnectFails, DisconnectTip, DownloadEnds,
                      TxMessage, SubmitTx, AtRest, Idle
  <2>7. QED BY <2>2, <2>3, <2>4, <2>5, <2>6 DEF Next
<1>3. PoolInv => TypeOK
  BY DEF PoolInv, SafetyInv
<1>4. QED
  BY <1>1, <1>2, <1>3, OrphanStep, LoopStep, PoolAlways, PTL DEF Spec, OrphansSettled

=============================================================================
