----------------------------- MODULE CoinsView ------------------------------
(***************************************************************************)
(* coins.cpp and txdb.cpp: views of the unspent outputs, and caches over   *)
(* them.  A view says of every transaction which of its outputs are        *)
(* unspent, or that it knows nothing of it.  A cache may know that a       *)
(* transaction is fully spent ("pruned"): the database never does, it      *)
(* erases the entry, so the same question gets two answers.                *)
(***************************************************************************)
CONSTANTS
  Txs,       \* transactions, by their hash
  Outputs,   \* output positions
  Absent     \* GetCoins returns false

ASSUME CoinsViewAssumption == \A c \in SUBSET Outputs : Absent # c

Pruned == {}
Coins == SUBSET Outputs
Views == [Txs -> Coins \cup {Absent}]
DatabaseViews == [Txs -> (Coins \ {Pruned}) \cup {Absent}]

NoCoins == [t \in Txs |-> Absent]

\* What GetCoins finds through a cache over a view.
Over(cache, view) ==
  [t \in Txs |-> IF cache[t] # Absent THEN cache[t] ELSE view[t]]

\* FetchCoins: what was found below is kept in the cache.
Fetch(cache, view, t) ==
  [cache EXCEPT ![t] = IF cache[t] # Absent THEN cache[t] ELSE view[t]]

\* BatchWrite to a cache: every entry written replaces the one there.
BatchWrite(cache, entries) == Over(entries, cache)

\* A slip: a pruned entry is written like any other.
UnprunedBatchWriteDB(db, entries) == Over(entries, db)

\* BatchWrite to the database: pruned entries are erased.
BatchWriteDB(db, entries) ==
  [t \in Txs |-> IF entries[t] = Absent THEN db[t]
                 ELSE IF entries[t] = Pruned THEN Absent ELSE entries[t]]

\* The outputs a view offers for spending.
Unspent(view) == [t \in Txs |-> IF view[t] = Absent THEN {} ELSE view[t]]

HaveCoins(view, t) == view[t] # Absent
=============================================================================
