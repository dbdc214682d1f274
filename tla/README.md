# A verification development of cs4840

The repository holds an FPGA Bitcoin miner (`BitcoinMiner/`), the host software that feeds it work
(`getwork/`), course labs (`lab1.sv`, `lab2/`, `lab3/`), and a copy of Bitcoin Core 0.9
(`Bitcoin/bitcoin/`). This directory holds TLA+ modules for the parts whose behaviour is hard to
test, TLC configurations that check them on small instances, and TLAPS proofs of the central
invariants for every instance. `PROJECT.json` lists components, runs, hazards, theorems, and the
source lines each definition stands for.

To repeat a check, in this directory: `tlc -config CheckQueue.cfg MCCheckQueue`; to repeat a proof:
`tlapm CheckQueueProofs.tla`.

## Inventory

| Component | State | Operations | Hard behaviours | Correct when |
|---|---|---|---|---|
| Mining core (`fpgaminer_top.v`, `sha256_transform.v`) | cnt, feedback, nonce, start, header copies, two hash pipelines, ticket, golden nonce, nonce_out | one posedge of the clock | the pipeline delay depends irregularly on the unrolling; reload while hashes are in flight; wrap of the nonce | a ticket names the nonce that was hashed; none is missed |
| Mining device (`miner_top.v`) | header buffer, loading/load_done/start/stop/read_gold_nonce, nonce and result RAM | bus write, bus read, idle clock | a bus access displaces the polling of the cores; flag and nonce are a clock apart; results of the old header | cores mine the whole header the host wrote; the stop state means solved |
| Driver and client (`miner_driver.c`, `getwork.c`) | cached segments, the message of the client | ioctl read and write, write all segments, print results | address ranges of driver and device differ; `ioctl` is unlocked; results read byte by byte | the header reaches the device, the result the client |
| Script-check pool (`checkqueue.h`) | queue, nIdle, nTotal, nTodo, fAllOk | worker loop, add, wait, control | lock, wait and notify in any order, spurious wake-ups, interruption | Wait answers for exactly the checks added, and answers |
| Block chain (`main.cpp`) | block index, chainActive, setBlockIndexValid, orphans, coins, files | ProcessBlock, AcceptBlock, connect, disconnect, invalidate, flush, reload | reorganisations, failure half-way, crash between two stores, blocks out of order | the active chain is the best valid one; the coins match it; a restart recovers |
| Memory pool and orphan transactions (`txmempool.cpp`, `main.cpp`) | mapTx, mapNextTx, orphan maps | accept, remove, remove conflicts, resurrect, keep and release orphans | indices in step over reorganisations; transactions before what they spend; caches not flushed | the pool can be mined on the tip; indices agree; orphans are released |
| Coins cache and databases (`coins.cpp`, `txdb.cpp`) | layered caches, dirty entries, best block | get, set, flush, batch write | a crash between flushes | a layer shows the base plus its changes |
| getwork and mining RPC (`rpcmining.cpp`, `miner.cpp`) | mapNewBlock, extra nonce, pindexPrev | getwork with and without data, submitblock | work submitted after the tip moved | a submitted header finds its block |
| Network (`net.cpp`, `main.cpp`) | peers, queues, inventories, blocks in flight | connect, message loop, getdata, disconnect | peers leave with blocks in flight, or withhold them | lists, counts and maps agree; no block waits for one peer for ever |
| Wallet, keystore, crypter | transactions, spent flags, keys | create, commit, lock, unlock | reorganisation, encryption half-way | balances follow the chain |
| Address manager, bloom filter, bounded containers | tables | add, evict | limits | tables agree |
| Labs 1 to 3 | small state machines, two threads, a VGA ball | clock, key, network message | shared buffers of two threads | the display shows what was typed |

How they interact: the core is clocked by the device and sees `load_done` and the header as wires;
the device shows a byte-wide register file to the driver, which `getwork.c` fills with work that it
gets from the node by RPC. In the node, `ProcessBlock` runs under `cs_main`; `ConnectBlock`, called
in it, is the master of the script-check pool; the chain state goes to block files, undo files and
two LevelDB databases. Connecting and disconnecting blocks changes the coins views, on which
`AcceptToMemoryPool` bases its decisions, and takes transactions out of the pool or puts them back.
Which blocks arrive at all is decided by the bookkeeping of blocks in flight, one `CNodeState` per
peer.

## Modules

| Module | Stands for | State and actions |
|---|---|---|
| `FpgaMiner` | one mining core | `CoreClock` is the record of all registers after one posedge of `hash_clk`. The datapath is symbolic: a pipeline register holds a message and how many rounds were applied to it, or `Junk` if a round came out of order. The unrolling `LOOP_LOG2`, the counter `cnt`, the feedback and the offsets are the code's. |
| `CoreSearch` | a core under the protocol of `miner_top` | `Load`, `Run`, `Hold`: clocks in which the last header byte arrives, in which the bus is idle, and in which a read keeps `load_done` up. |
| `MinerTop` | `miner_top.v` with its cores (`core[m]`, in `FpgaMiner`) | One action per branch of the clocked block: `StartLoad`, `WriteControl`, `WriteHeader`, `ReadRegister`, `Refresh`, `Poll`; each also clocks every core and writes `nonce_ram`. |
| `MinerPhases` | what the device promises the host | load, search, stop |
| `MinerHost` | `miner_driver.c` and `main` of `getwork.c` on the bus of `MinerTop` | `segments` is `dev.segments`; a program is at a `task` of a call with `digit` and `byte`. `WriteDigit`, `StoreDigit`, `ReadDigit` and the refusals are the two ioctls; `RunGetwork` and `CallDriver` start the programs. |
| `CheckQueue` | `CCheckQueue` and `CCheckQueueControl` | A thread's `pc`, its batch `vChecks`, `nNow`, `fOk`, and the members of the queue. `Enter`, `Return`, `Wait`, `Wake`, `TakeBatch`, `Work` are the pieces of `Loop` between two points where another thread can run; `MakeControl`, `Add`, `CallWait` are the master; `Shutdown`, `WorkerInterrupted` and `MasterInterrupted` are boost's interruption. |
| `CheckAll` | what the pool promises `ConnectBlock` | open, add, answer |
| `BlockChain` | `ProcessBlock` to `WriteChainState`, `LoadBlockIndexDB`, and the end of the process | Groups of variables: index, tips, orphans, control (`pc`), files, databases. See below. |
| `ActiveChain` | what the block chain promises the rest of the node | extend, retract, stop, start |
| `CoinsView` | `coins.cpp` and the database view of `txdb.cpp` | Operators on views: `Over` looks through a cache, `Fetch` caches an entry, `BatchWrite` flushes to a cache, `BatchWriteDB` to the database, which erases pruned entries. |
| `MemPool` | `CTxMemPool`, `AcceptToMemoryPool`, the orphan transactions, `ConnectTip` and `DisconnectTip` on coins and pool | Groups of variables: chain, coins, pool, orphans, the two loops. See below. |
| `BlockDownload` | `CNodeState` and the functions on it | The members of `CNodeState` per peer, the two maps by hash, and ages in place of times. One action per handler: `InitializeNode`, `FinalizeNode`, `Inv`, `Block`, `OtherMessage`, `Misbehaving`, `SendMessages`; `Skipped` are bytes that never reach a handler; `SocketClosed` and `Tick` are the environment. |
| `MCCoreSearch`, `MCMinerTop`, `MCMinerHost`, `MCCheckQueue`, `MCBlockChain`, `MCMemPool`, `MCBlockDownload` | the small instances | |
| `CoreSearchProofs`, `MinerTopProofs`, `MinerHostProofs`, `CheckQueueProofs`, `BlockChainProofs`, `CoinsViewProofs`, `MemPoolProofs`, `BlockDownloadProofs` | theorems | |

Operators introduced by the comment "A slip" are plausible mistakes in the code next to the
definition that they vary. No action uses them; each stands for the mistake that one of the
properties is there to catch, and substituting it does break the property.

### BlockChain in more detail

`cs_main` is held while a block is processed, so no two blocks interleave; what interleaves with
every write is the end of the process. A step therefore ends where something has been written, and
`pc` names what comes next:

- `idle`: `Receive`, `ReceiveOrphan` and `ReceiveFails` are `ProcessBlock` up to `ActivateBestChain`;
- `find`, `candidate`: `FindMostWorkChain`: `DropMostWork`, `SearchCandidate`, `DropCandidate`,
  `ChooseChain`;
- `switch`: one round of the loop of `ActivateBestChain`: `DisconnectTip`, `ConnectTip`,
  `InvalidBlockFound`, and their failures `DisconnectFails`, `ConnectTipFails`,
  `InvalidBlockFails`, `SwitchFails`, `BlockLost`, `AssertFails`; `Activated` ends the loop;
- `commit`, `sync`, `coins`, `tip`: `WriteChainState` write by write (`WriteFiles`, `WriteSync`,
  `FlushCoins`, or `SkipWrite` in initial download, or `WriteFails`), then `UpdateTip`;
- `orphans`: the work queue of `ProcessBlock`: `AcceptOrphan`, `RefuseOrphan`, `AcceptOrphanFails`,
  `NextInQueue`, `BlockProcessed`;
- `exit`, `down`: start-up gave up; no process. `Shutdown`, `Kill` and `PowerLoss` end a process,
  `Restart` is `LoadBlockIndexDB`, `VerifyDB` and the `ActivateBestChain` of start-up.

Each store has what a reader sees (`blkFiles`, `revFiles`, `indexDB`, `coinsDB`) and what a power
loss may leave of it: files keep what was committed (`blkSafe`, `revSafe`) and any part of the rest;
a LevelDB database comes back in any state since its last sync (`indexSurvivors`,
`coinsSurvivors`). The ghost `exposed` records a power loss that nothing in the code provides for:
one during initial download, where files are not committed, or after a system error.

A write of an index entry may throw (`EntryFails`), at each of its three places: after a new block was
entered in memory (`AcceptFails`; `AcceptBlock` catches the exception and aborts, and the block stays
a candidate), after the flags of its undo data were set (`ConnectTipFails`), and after it was marked
invalid (`InvalidBlockFails`). The shutdown that this starts does not come at once, and nothing writes
the entry again until something else about the block changes. `unwritten` are the blocks whose entry
differs from memory for that reason.

The block tree, the work, the bad blocks (those `ConnectBlock` rejects) and the refused ones (those
`AcceptBlock` rejects) are constants. `PruneOrphanBlocks` lets `MAX_ORPHAN_BLOCKS + 1` orphans be
kept, and `CBlockTreeDB::Flush` does nothing; the model has both.

### MemPool in more detail

`MemPool` and `BlockChain` model the same `ConnectTip` and `DisconnectTip` from two sides.
`BlockChain` has every write and failure and names the coins by their best block; `MemPool` has the
coins themselves, output by output in a cache over the database, with a flush that may be skipped in
initial download, and what happens to the pool. Blocks arrive one at a time (`NewBlock`), the best
chain is activated in steps (`ConnectTip`, `ConnectFails`, `DisconnectTip`, then `Resurrect` once per
transaction of the disconnected block), and messages are handled in between. `TxMessage` starts the
loop over the orphans, `TryOrphan` and `NextHash` are its rounds. `cs_main` lets nothing else
interleave, except the end of the process: `Restart` may strike in any state and leaves the
database and the block index.

Why a transaction is not accepted, apart from its inputs, is a `policy`: `early` are refused before
the inputs are looked at, `late` after it, and `cheap` then too, but only when a peer sends them
(`fLimitFree`) and not when they are resurrected; it is chosen once. Blocks hold only what
`ConnectBlock` lets through, as `ChainAssumption` says: inputs that are unspent in the parent and
mature, no transaction twice, none that is on the chain already; the blocks it refuses are in `Bad`.
`RootTxs` are the transactions of the chain up to `Root`, some of whose outputs (`RootCoins`) are
unspent.

## Runs

Passing runs visit their whole state space.

| Run | Asks | Instance | Distinct states |
|---|---|---|---|
| `core_search` | does every ticket name a valid nonce, and is none passed over? | the code's 64 rounds, unrollings 0, 1, 2 and 5, 256 nonces, two jobs with two golden nonces each, one of them across the wrap of the counter; one header, loaded in any of the first 70 clocks | 191504 |
| `miner_top` | header of the cores, phases, repair of a captured nonce, a ticket stops the device | two cores of two rounds, three header addresses, two byte values, 4 nonces, two headers; the golden nonce is the one next to the greater start nonce | 134920 |
| `miner_stale_stop` (violated) | does the stop state mean solved? | 8 nonces, two headers | |
| `miner_host` (violated) | does the client print what the driver reads? | two programs, one core, segments 0, 44, 95, 96, 97, 100 and 102, two byte values | |
| `check_queue` | batches, counters; does Wait answer for exactly the checks added, and does it answer? | two workers and the master, two checks, one failing, two blocks | 81258 |
| `check_queue_assert` (violated) | does a new control find the pool idle? | one worker, one check, two blocks | |
| `block_chain` | best chain, orphans, candidates, failure marks, recovery after a kill or a power loss, refinement; does processing end? | two branches of 2 and 3 blocks, the middle one of the longer bad, the second of the shorter refused; every order of arrival, in initial download or after it, one failure, one end | 384937 |
| `chain_assertion` (violated) | do the coins match the tip when a block is connected? | one failure | |
| `mem_pool` | coins, pool and orphans over reorganisations, restarts and skipped flushes | two branches of 2 blocks, the first of one as heavy as both of the other, the last one bad; six transactions with a double spend, a chain of three, a young coinbase, one that may vanish, and two parents; three policies; two orphans; one restart | 55351 |
| `pool_resurrect` (violated) | is every transaction of a disconnected block put back? | the same in initial download, one policy, no restart | |
| `pool_inputs` (violated) | is every input of the pool there? | the same after initial download | |
| `block_download` | lists, counts and maps; do stalling peers go, and do queues move? | two peers, one local and one that misbehaves, three blocks, two in flight and two queued per peer | 145960 |

What the violated runs show of the code:

- `miner_stale_stop`: `nonce_out` is cleared two clocks after byte 95; a poll before that stops the
  device on the hit of the previous header.
- `miner_host`: `print_segment_info` begins with digit 0, the driver lets 97 to 100 be read only, and
  the loop ends at the first refusal: nothing is printed. There would be nothing to print either:
  `write_digit` accepts 0 to 96, so what can be read was never written (and 100 is beyond the end of
  `dev.segments`), the device is not asked, and the register that starts a load is 102. No program
  ever starts the miner through the driver (`HostNeverReaches`, proved).
- `check_queue_assert`: the constructor reads `nTotal` and `nIdle` without the mutex. A worker that was
  notified for a check which the master has done itself gets the mutex after the master has returned;
  until it waits again they differ, though the queue is unused.
- `chain_assertion`: the view is flushed to `pcoinsTip` before `WriteChainState`; when that fails the
  tip is not moved, and the next block, processed before the shutdown that was started, fails the
  assertion of `ConnectBlock`. `KillRecoverable` shows that the node can load what is on disk then.
- `pool_resurrect`: `DisconnectBlock` leaves pruned entries in the cache. When `WriteChainState` does
  not flush them, which it may skip in initial download, `AcceptToMemoryPool` takes such an entry for
  a transaction that is in the chain and refuses it, and `DisconnectTip` removes what depends on it.
  `DisconnectKeepsTxs` shows that nothing is lost after initial download.
- `pool_inputs`: the transactions of a disconnected block are put back or removed with what depends on
  them, but for its coinbase. A pool transaction that spends the coinbase, possible once the chain is
  `COINBASE_MATURITY` blocks longer, stays in the pool after a reorganisation of that depth, and the
  assertion of `CTxMemPool::check` fails. `PoolConsistent` shows that nothing else is ever missing.

What the passing runs show of the code, where it departs from its comments:

- `block_download`: "all blocks are in flight for over two minutes" (`main.cpp:4315-4318`) is decided
  on the first block in flight only. That is the oldest, and late if any is (`OldestFirst`); whether
  all are late would be seen at the last. A peer is disconnected though a later request is fresh.
- `block_download`: messages with a bad header or checksum are skipped before `nLastBlockProcess` is
  set (`main.cpp:4076-4096`, 3357) and renew `nLastRecv` all the same (`net.cpp:1003`). A peer that
  sends nothing else is neither found stalling nor inactive and keeps its blocks for ever; `StallersGo`
  and `QueueMoves` are about the others (`OnlySkipped`). A peer that withholds one block and goes on
  delivering others is not disconnected, either: the second disjunct of `StallersGo`.
- `block_chain`: after a failed write of an index entry (`main.cpp:1855`) a retry does not write it
  again, and coins may be flushed that `VerifyDB` refuses at the next start; `KillRecoverable` is
  about states in which no such entry is outstanding. After a failed mark (`main.cpp:1449`) an
  invalid block may stay the best candidate, and `FindMostWorkChain` does not end; `ProcessingEnds`
  and `CandidatesExact` except that block.

Observations made while modelling, which no run is about:

- A reload leaves the pipelines of a core running, and the clear of `is_golden_ticket` is overwritten
  by the assignment below it (`fpgaminer_top.v:191`, against the comment at line 47): until the
  pipelines are flushed, a hash of the previous header has the offset subtracted from the new
  counter. `TicketNamesNonce` is about the time after that.
- `load_done` falls in an idle clock only (`miner_top.v:380`). A host that accesses the bus in the
  clocks after the last byte keeps it up, `start` toggles, and the counter is put back to the start
  nonce every other clock while the nonces tried in between stay in the pipelines. A golden nonce
  within `RestartSpan` of the start nonce may then be reported under a wrong number;
  `RefreshShowsGolden` is about the others (`SolvedLater`), `TicketNamesNonce` about the time after
  the flush.
- `nonce_ram` is not connected to the cores (`miner_top.v:42`, against the comments at lines 29 and
  49), which are wired alike and all search the same nonces.
- After the descendants of an invalid block have been dropped, `chainMostWork` may still hold one of
  them (`main.cpp:2067`, against the comment at line 2021), and the invalid block is read and
  connected a second time before it is dropped. `BestChainActive` and `ProcessingEnds` show that no
  worse follows.
- `mapOrphanTransactionsByPrev[hashPrev]` in the loop over the orphans (`main.cpp:3717`) inserts an
  empty entry for every accepted transaction, which is never erased; `OrphanIndexExact` is about the
  entries that name an orphan.
- An orphan whose parent arrives in a block, or through the wallet, is not tried again.
- A pool transaction that spends a coinbase is not looked at when the tip moves back below the
  coinbase's maturity, on the way of a reorganisation or, as chains are compared by work and not by
  height, after it (`txmempool.h:45-46` promises "may be included in the next block").
- `State()` is read at `main.cpp:3357` without `cs_main`, under which another thread may erase entries
  of `mapNodeState`; the model has no state for a torn map.
- A block announced by a second peer while it is queued at the first is not queued again; when the
  first goes, somebody has to announce it anew. `QueueMoves` is what the code does guarantee.

### Bounds and why they are enough

- `FpgaMiner`: the arithmetic of the pipelines is checked at the real 64 rounds in `core_search`;
  `miner_top` uses two rounds, for which the same formulas of the delay hold, because it asks about
  the order of register updates and not about the delay. Unrolling 0, 1 and 5 are the special cases
  of `GOLDEN_NONCE_OFFSET` and its default, with 2 for the middle of the range. `MaxLoads` 2 is what
  a stale result needs in `miner_top`; `core_search` has 1, as its properties are about the time
  after the flush, and the proofs have any number. `MaxWait` 70 covers every phase of `cnt` at the
  load, `MaxHolds` 2 has both parities of the toggling start, and `Horizon` is beyond the delay of
  both transforms and the wrap.
- `MinerHost`: the segments are the ends of every range that driver, client or device distinguish;
  two programs are the fewest that interleave.
- `CheckQueue`: two workers and the master are the fewest with two threads waiting on one condition
  while a third works. Two blocks let a late worker of the first meet the
  second, and an interrupted control leave its rest to the next. A batch is a single check here, as
  the queue is shared by at least two; larger batches are left to the proofs.
- `BlockChain`: six blocks give a reorganisation that disconnects two, fails in the middle and
  connects the old branch again, equal work between tips of two branches, and a chain of orphans.
  `MaxOrphanBlocks` 1 is exceeded by three orphans. One failure reaches every error path, a failed
  index entry and what the node still does after it included; that several failures add up to nothing
  worse is proved and not checked, and so are a second end during the recovery and a second block file
  (`MaxFile` 0). The two orders of addresses in memory decide which of two tips of equal work is taken
  after a restart. Data in a block file that the index does not refer to is never read, and is left
  out after a power loss.
- `MemPool`: a chain of three transactions lets a removal reach descendants of descendants, and a
  work queue of orphans of orphans; `t5` waits for two parents; `t1` and `t3` are a conflict between
  the pool and the other branch; `c1` matures between the two heights; `t6` spends the coinbase of
  `A1`, which vanishes with it. `B1` has the work of `A2` and the height of `A1`.
  `MAX_ORPHAN_TRANSACTIONS` 2 is exceeded by the third orphan. A block whose disconnection is
  followed by a failed branch puts the same transactions in the pool and takes them out again.
- `BlockDownload`: two peers are the fewest that compete for a block, three blocks exceed both limits
  of two. The ages count timeouts and stop one beyond the largest limit, as nothing compares them with
  more. An id is used for one connection, as in the code; a second connection is the other peer.
- `loads`, `holds`, `age` (of a core), `blocks`, `failures`, `stops`, `restarts` and
  `nLastBlockFile` are counters bounded by the constants `Max...` and `Horizon`. The proofs hold for
  every value of these bounds.

### Deadlock and fairness

Deadlock checking is off where the bounds or the system stop: a core after `Horizon`, the pool after
the last block and interruption, a node that has shut down or exited, a memory pool that has all
transactions and blocks. It is on in the `MinerTop` and `MinerHost` runs, because a clock always
ticks, and in `block_download`, because time does.

- `MinerTop`: the host accesses the bus orders of magnitude more slowly than the clock runs, so idle
  clocks come again and again: strong fairness of `Poll` and `Refresh`, which need one, and weak
  fairness of `StartLoad`, which does not look at the bus.
- `CheckQueue`: threads are scheduled (weak fairness of the steps that need no mutex or hold it), a
  notified thread wakes, and the mutex starves nobody (strong fairness of `Enter` and of a signalled
  `Wake`). Nothing is assumed of spurious wake-ups, of the master's calls or of interruption.
  Workers may all be interrupted; the master then does the work itself, and `WaitReturns` still
  holds. So it does when the master is interrupted, which enters the pool again or leaves it.
- `BlockChain`: weak fairness of `ResolveOrphans \/ ActivateBestChain`: a call of `ProcessBlock`
  keeps running. Peers need not send blocks and a dead node need not restart.
- `MemPool`: weak fairness of the two steps of the loop over the orphans, which is straight-line code.
- `BlockDownload`: time passes, the message handler comes round to every peer, and the socket thread
  deletes disconnected ones. `HeardOrClosed` is the inactivity check of `ThreadSocketHandler`: a
  peer that owes a block sends something, if only bytes that are skipped (`nLastRecv`,
  `net.cpp:1003`), or its connection is closed after 90 minutes. That what it sends is processed is
  not assumed, nor that any peer delivers a block. `heard` names the peers that were heard since the
  last tick, so that skipped bytes are a step.

## Proofs

TLAPS checks these for every value of the constants that the named ASSUMEs admit
(`FpgaMinerAssumption`, `CoreSearchAssumption`, `MinerTopAssumption`, `CheckQueueAssumption`,
`WorkersAssumption`, `BlockTree`, `NodeAssumption`, `CoinsViewAssumption`, `TransactionAssumption`,
`RootAssumption`, `ChainAssumption`, `BlockDownloadAssumption`); TLC evaluates the same ASSUMEs in
the runs. `MinerHostAssumption` is a hypothesis of the theorems about the host.

- `CoreSearchProofs`: `TypeCorrect`, `TicketsNameNonces` (`TicketNamesNonce`),
  `NewestGoldenAlwaysShown`, for each of the six unrollings, every number of rounds that the unrolling
  divides, every width of the nonce, every set of golden messages and any number of headers and held
  clocks. Three layers:
  - `PipeInv` says what every register of the two pipelines holds, as a function of `cnt`, of the
    counter and of the clocks since the header was taken: stage `i` works on the message `i` nonces
    behind the counter (`Behind`), one more in the clock in which `cnt` is 0 (`Lead`), and has applied
    `Base(L, i) + Phase` rounds to it. Each register becomes good `age` by `age`, so that one lemma
    for a pipeline with a delay and an offset (`LineStep`, `LineEnd`) serves both. At the ticket the
    message is `2S+1` nonces behind, and 1 or 2 more for `LOOP` 2 or 1, where the counter
    moves on while `hash2` and `ticket` are clocked: that is `GOLDEN_NONCE_OFFSET`.
  - `CountInv` bounds the counter by the clocks: when it has passed a nonce by the offset, the
    pipelines are full (`Full`).
  - `GoldenInv` says that the golden nonces the counter has passed by the offset have been shown. It
    is about distances from the start nonce modulo the number of nonces (`Dist`), which the lemmas
    `DistNext`, `DistBack` and `DistOne` carry across the wrap.
- `MinerTopProofs`: `TypeCorrect`, `ModesAlwaysConsistent`, `CoresMineTheHeader`,
  `Implementation` (of `MinerPhases`), for every number of cores and nonces, every set of header
  addresses and every unrolling. `SettledCoreMinesHeader` is inductive together with the types and
  the modes (`SafetyInv`): a core whose `start` is up takes the header in that clock, and while
  `load_done` is up the header does not change.
- `MinerHostProofs`: `HostNeverReaches`, for every set of segments, any interleaving of the two
  programs and every device. `HostInv` adds that the device is at rest: `loading` is never up, as the
  register that sets it is not `Writable`, so a byte written changes nothing (`BusWrite` without a
  load), and no `Readable` segment is ever stored.
- `CheckQueueProofs`: `Invariant`, `TypeCorrect`, `NoCheckLost` (`ChecksAccounted`),
  `VerdictsAlwaysRight`, `CountsAlwaysExact`, `AlwaysQuietBetweenBlocks` and `Implementation` (of
  `CheckAll`), for every finite set of workers, any number of checks and blocks and every batch
  size. `TodoExact` is not inductive: that a thread subtracts the size of what it took needs
  `BatchesApart`, and that nothing is left over needs `NothingLeftOver`. The counts are
  cardinalities of sets of threads, so the proofs about them add or remove one thread at a time;
  `Ghosts` are the waits of the master that an interruption ended, at most one for every control
  (`caller` says from where the master called `Wait`). The refinement follows from `VerdictsRight`
  at the return: with nothing pending, `fAllOk` says whether a check fails.
- `BlockChainProofs`: `TypeCorrect`, `CandidatesAlwaysExact`, `FailuresHaveReasons`,
  `CoinsFollowTip`, `AlwaysKillRecoverable`, `AlwaysPowerRecoverable`, `BestChainAlwaysActive`,
  `OrphansAlwaysResolved`, `Implementation` (of `ActiveChain`), for every block tree, every set of
  bad and refused blocks, any number of failures (index entries included), ends and files, in
  initial download or out of it. The invariant has six layers, each proved from those above it, one
  step per action:
  - `StoreInv`: types; the candidates are the blocks not failed; the index holds the ancestors of
    its blocks and is written through to its database, but for the `unwritten` entries; every state
    of the index database that a power loss may bring back is a sound part of the present one;
  - `OrphansInv`: an orphan is not in the index, the work queue is within it;
  - `ChainInv`: the tip, the coins and every state of the coins that may come back are on chains
    without a bad block; while the chain state is written the coins are one block from the tip
    (`Moved`), which is what makes `UpdateTip` an extension or a retraction;
  - `RecoveryInv`: what the index says of a block or of its undo data is in the files; each coins
    state that may come back is covered by each index state that may come back with it. The
    last conjuncts carry the order of the writes: when coins are written the index has just been
    synced (`pc = "coins" => indexSurvivors = {indexDB}`), and between blocks the coins on disk
    are those in memory.
  - `BestInv`: while a chain is being activated, no valid chain of known blocks is better than it, and
    between two calls none is better than the active one. That `ChooseChain` finds the best block
    (`ChosenIsBest`) rests on the candidates being exact: a valid chain has no failed block;
  - `ReleaseInv`: an orphan whose parent is known waits for a block of the work queue or for the one
    that is being activated.
- `CoinsViewProofs`: what a view shows is changed neither by fetching an entry nor by flushing, and a
  database without pruned entries keeps the same unspent outputs. `MemPool` keeps no entries that were
  only read, on the strength of the first.
- `MemPoolProofs`: `TypeCorrect`, `CoinsAlwaysExact`, `SpendsAlwaysIndexed`, `PoolAlwaysConsistent`,
  `OrphanIndexAlwaysExact`, `DisconnectLosesNothing` (`DisconnectKeepsTxs`),
  `OrphansAlwaysSettled`, for every set of transactions, block tree and policy and any number of
  restarts. In five layers:
  - `SafetyInv`: `CoinsExact` needs that the tip is a known block and that the block to be disconnected
    is the one the coins were left at (`ChainInv`); the lemmas behind it say that connecting a block to
    the unspent outputs of its parent gives those of the block, and disconnecting it undoes that;
  - `PoolInv`: `PoolConsistent` is about states between disconnected blocks, and strengthened to
    `PoolGrounded`: in the middle of a resurrection an input may also be an output of a transaction
    still to be put back, and always of a coinbase that has left the chain (`Vanished`). Removal
    with descendants keeps it because `WithDescendants` is closed under spending; a double spend is
    excluded by `SpendsIndexed`;
  - `OrphanInv` for the index of the orphans;
  - `PoolApart` and `ResurrectInv`: no transaction is in the chain and in the pool, so while a block's
    transactions are put back none of them is in the pool, none of their inputs is spent there, and
    outside of initial download no pruned entry hides them: `AcceptToMemoryPool` lets them in. The
    invariant needs that a block repeats no transaction and none of the chain before it;
  - `LoopInv`: an orphan that spends a transaction let in by the loop is still to be tried (`Pending`)
    or lacks an input (`Lacks`), and what is let in enters the work queue itself, so that
    the orphans spending it are tried again. `AcceptedIsNew`: nothing in the pool spent it before.
- `BlockDownloadProofs`: `TypeCorrect`, `ListsAlwaysMatchMaps`, `WindowAlwaysKept`,
  `OldestAlwaysFirst`, for every set of peers and blocks and every limit. Queue and flight have the
  same shape, so `Lists` is stated once of a family of sequences, its counts and its map, with
  lemmas for appending to a list, erasing from it and emptying it; `ListsMatchMaps` is `Lists` of
  both and `Apart`. `DownloadInv` adds the types, `WindowKept` and `OldestFirst`, which appending at
  age 0 preserves.

Only model-checked: all liveness (`TicketStops`, `WaitReturns`, `ProcessingEnds`, `OrphanLoopEnds`,
`StallersGo`, `QueueMoves`), as the prover does not reason about fairness or ENABLED, and
`RefreshShowsGolden`, which needs the pipeline invariant of `CoreSearchProofs` under the protocol of
`MinerTop`, where a core may be restarted while its pipelines hold the same job. No module uses a
RECURSIVE operator.

## Not modelled

- SHA-256 itself, scripts, signatures and the rules a block is checked against: data, which the
  models name by constants (`Golden`, `Fails`, `Bad`, `Refused`, `Policies`).
- The registers of the FPGA power up as 0, which the code does not state and the device guarantees.
- Of the driver and its client: probing and removing the module, and the part of `getwork.c` that
  speaks HTTP and JSON, which its `main` does not call.
- Of the block chain: the first start of an empty directory, `-reindex` and `-loadblock`, blocks
  invalid with CorruptionPossible, `pindexBestInvalid` and the warnings about forks, which steer
  nothing. A write to a block or undo file and the index entry that first refers to it are one step;
  between them the file has data that nothing refers to.
- Of the pool: priorities, fees and the rate limiter, which are part of the policies (`cheap` are
  the transactions that only a relayed message is refused for: `DisconnectTip`, the wallet and the
  RPC pass `fLimitFree` false); an orphan of more than 5000 bytes, which `AddOrphanTx` ignores.
- Of the coins: statistics, the encoding of records, the transaction index.
- Of the network: sockets, the relay of addresses, transactions and inventory, `mapAskFor`. What a peer
  announces of blocks the node already has is a free choice of `Inv`.
- getwork and submitblock, the wallet, the address manager, bounded containers, the labs.
- The repository's `.ts` files are the translations of the Qt interface
  (`Bitcoin/bitcoin/src/qt/locale/*.ts`): XML data, which has no behaviour. The programs are the
  Verilog, C and C++ sources above.
- Vendored code (LevelDB, json_spirit), user interface, tests: of LevelDB only which writes a power
  loss may take.

## Plan

Done:

1. `FpgaMiner`, `CoreSearch` and their proofs;
2. `MinerTop` and its proofs;
3. `CheckQueue` and its proofs;
4. `BlockChain` and its proofs;
5. `MinerHost` and its proofs;
6. `CoinsView`, `MemPool` and their proofs;
7. `BlockDownload` and its proofs.

To do, in this order:

8. getwork and submitblock against a moving tip.
9. `mapAskFor` and the relay of transactions.
10. Bounded containers (`limitedmap`, `mruset`) against their abstract containers, and the address
    manager's tables; the labs' threads and state machines.
11. Theorem: `RefreshShowsGolden`, from `CoreSearchProofs` restated for a core of `MinerTop`.

New questions are put to existing runs where their instance can carry them, so that the whole
check stays short enough to be run on every change.
