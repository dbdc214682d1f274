-------------------------- MODULE CoinsViewProofs ---------------------------
(***************************************************************************)
(* Facts about views and caches, for any transactions and outputs.         *)
(***************************************************************************)
EXTENDS CoinsView, TLAPS

\* What a cache has over a view is of the type of a view.
LEMMA OverType ==
  ASSUME NEW c \in Views, NEW v \in Views
  PROVE  Over(c, v) \in Views
BY DEF Over, Views

\* Neither the absent entry nor a pruned one offers anything.
LEMMA AbsentNoCoins == Absent \notin Coins
BY CoinsViewAssumption DEF Coins

\* Reading through a cache (FetchCoins) leaves every answer as it was: entries
\* that were only read need not be told from entries that were never there.
THEOREM FetchChangesNothing ==
  ASSUME NEW c \in Views, NEW v \in Views, NEW t \in Txs
  PROVE  Fetch(c, v, t) \in Views /\ Over(Fetch(c, v, t), v) = Over(c, v)
BY DEF Fetch, Over, Views

\* Writing a cache to the one below (BatchWrite, Flush) leaves every answer as it
\* was, and so does clearing the upper one afterwards.
THEOREM FlushChangesNothing ==
  ASSUME NEW m \in Views, NEW c \in Views, NEW v \in Views
  PROVE  /\ BatchWrite(c, m) \in Views
         /\ Over(BatchWrite(c, m), v) = Over(m, Over(c, v))
         /\ Over(NoCoins, v) = v
BY DEF BatchWrite, Over, Views, NoCoins

\* Writing to the database erases the pruned entries, and keeps what is unspent:
\* it changes which transactions are known (HaveCoins) and no output on offer.
THEOREM DatabaseKeepsUnspent ==
  ASSUME NEW m \in Views, NEW d \in DatabaseViews
  PROVE  /\ BatchWriteDB(d, m) \in DatabaseViews
         /\ Unspent(BatchWriteDB(d, m)) = Unspent(Over(m, d))
         /\ \A t \in Txs : HaveCoins(BatchWriteDB(d, m), t) <=> Unspent(Over(m, d))[t] # {}
<1>1. BatchWriteDB(d, m) \in DatabaseViews
  BY AbsentNoCoins DEF BatchWriteDB, DatabaseViews, Views, Coins, Pruned
<1>2. \A t \in Txs : Unspent(BatchWriteDB(d, m))[t] = Unspent(Over(m, d))[t]
  BY AbsentNoCoins DEF BatchWriteDB, DatabaseViews, Views, Coins, Pruned, Unspent, Over
<1>3. Unspent(BatchWriteDB(d, m)) = Unspent(Over(m, d))
  BY <1>2 DEF Unspent
<1>4. ASSUME NEW t \in Txs
      PROVE  HaveCoins(BatchWriteDB(d, m), t) <=> Unspent(Over(m, d))[t] # {}
  BY AbsentNoCoins DEF BatchWriteDB, DatabaseViews, Views, Coins, Pruned, Unspent, Over, HaveCoins
<1>5. QED BY <1>1, <1>3, <1>4
=============================================================================
