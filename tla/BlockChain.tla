----------------------------- MODULE BlockChain -----------------------------
(***************************************************************************)
(* main.cpp: the block index, the choice of the best chain and its         *)
(* activation, orphan blocks, and what of all this is on disk.             *)
(*                                                                         *)
(* cs_main is held from ProcessBlock to its return, so blocks do not       *)
(* interleave.  What interleaves with every write is the end of the        *)
(* process: a step ends where something has been written, so that a        *)
(* failed write, a crash or a power loss may fall between two writes.  A   *)
(* file write and that of the index entry which first refers to it are one *)
(* step: between them the file has data that nothing refers to.            *)
(*                                                                         *)
(* A block is a node of a tree given as constants.  The coins are named by *)
(* the block they belong to, their best block: a batch of coins is written *)
(* together with it.                                                       *)
(***************************************************************************)
EXTENDS Integers, FiniteSets, Sequences

CONSTANTS
  Blocks,            \* blocks a peer may send, and the genesis block
  Genesis,
  None,              \* NULL
  Parent,            \* hashPrevBlock; the genesis block is its own parent here
  Path,              \* a block with all its ancestors
  ChainWork,         \* nChainWork
  Bad,               \* blocks that ConnectBlock finds invalid
  Refused,           \* blocks that AcceptBlock refuses
  MaxOrphanBlocks,   \* MAX_ORPHAN_BLOCKS, 750 in main.h
  InitialDownload,   \* for every behaviour, what IsInitialBlockDownload() may return
  Addresses,         \* orders of the CBlockIndex objects in memory
  MaxFile,           \* bound: the last block file
  MaxFailures,       \* bound: failed reads and writes
  MaxStops           \* bound: ends of the process

ASSUME BlockTree ==
  /\ Genesis \in Blocks /\ None \notin Blocks
  /\ Parent \in [Blocks -> Blocks]
  /\ Path \in [Blocks -> SUBSET Blocks]
  /\ Parent[Genesis] = Genesis /\ Path[Genesis] = {Genesis}
  /\ \A b \in Blocks \ {Genesis} : b \notin Path[Parent[b]]
                                   /\ Path[b] = Path[Parent[b]] \cup {b}
  /\ \A b \in Blocks : Genesis \in Path[b] /\ \A a \in Path[b] : Path[a] \subseteq Path[b]
  /\ ChainWork \in [Blocks -> Nat]
  /\ \A b \in Blocks \ {Genesis} : ChainWork[b] > ChainWork[Parent[b]]
  /\ Bad \subseteq Blocks \ {Genesis}
  /\ Refused \subseteq Blocks \ {Genesis}

ASSUME NodeAssumption ==
  /\ MaxOrphanBlocks \in Nat /\ MaxFile \in Nat
  /\ MaxFailures \in Nat /\ MaxStops \in Nat
  /\ InitialDownload \subseteq SUBSET BOOLEAN
  /\ Addresses \subseteq [Blocks -> Nat]

VARIABLES
  \* in memory
  mapBlockIndex, setBlockIndexValid,
  failedValid,       \* blocks with BLOCK_FAILED_VALID
  failedChild,       \* blocks with BLOCK_FAILED_CHILD
  haveUndo,          \* blocks with BLOCK_HAVE_UNDO and BLOCK_VALID_SCRIPTS
  nSequenceId, nBlockSequenceId, address,
  chainActive, chainMostWork,   \* their tips
  pcoinsTip,         \* best block of the coins cache
  mapOrphanBlocks, vWorkQueue,
  current,           \* the block in AcceptBlock, None at startup
  pc,                \* what happens next, see the steps below
  aborted,           \* StartShutdown was called after a system error
  \* on disk: what a reader sees, and what a power loss may leave
  nFile, nLastBlockFile,
  blkFiles, blkSafe, \* blocks written to, and committed to, the blk files
  revFiles, revSafe, \* and their undo data
  indexDB, indexSurvivors,
  coinsDB, coinsSurvivors,
  exposed,           \* ghost: the power failed when that was not provided for
  unwritten,         \* ghost: blocks whose entry on disk is out of date, because it
                     \* could not be written
  \* bounds
  failures, stops,
  download           \* what IsInitialBlockDownload() may return

index == <<mapBlockIndex, setBlockIndexValid, failedValid, failedChild, haveUndo,
           nSequenceId, nBlockSequenceId, address>>
tips == <<chainActive, chainMostWork, pcoinsTip>>
orphans == <<mapOrphanBlocks, vWorkQueue>>
control == <<current, pc, aborted>>
files == <<nFile, nLastBlockFile, blkFiles, blkSafe, revFiles, revSafe>>
databases == <<indexDB, indexSurvivors, unwritten, coinsDB, coinsSurvivors, exposed>>
bounds == <<failures, stops, download>>
vars == <<index, tips, orphans, control, files, databases, bounds>>

Failed == failedValid \cup failedChild

\* An initialised data directory: the genesis block is stored and connected.
NewIndex == [entries |-> {Genesis}, failed |-> {}, undo |-> {}]

Init ==
  /\ mapBlockIndex = {Genesis} /\ setBlockIndexValid = {Genesis}
  /\ failedValid = {} /\ failedChild = {} /\ haveUndo = {}
  /\ nSequenceId = [b \in Blocks |-> 0] /\ nBlockSequenceId = 1
  /\ address \in Addresses
  /\ chainActive = Genesis /\ chainMostWork = Genesis /\ pcoinsTip = Genesis
  /\ mapOrphanBlocks = {} /\ vWorkQueue = <<>>
  /\ current = None /\ pc = "idle" /\ aborted = FALSE
  /\ nFile = [b \in Blocks |-> 0] /\ nLastBlockFile = 0
  /\ blkFiles = {Genesis} /\ blkSafe = {Genesis} /\ revFiles = {} /\ revSafe = {}
  /\ indexDB = NewIndex /\ indexSurvivors = {NewIndex}
  /\ coinsDB = Genesis /\ coinsSurvivors = {Genesis}
  /\ exposed = FALSE /\ unwritten = {}
  /\ failures = 0 /\ stops = 0 /\ download \in InitialDownload

----------------------------------------------------------------------------
(***************************************************************************)
(* Disk                                                                    *)
(***************************************************************************)

\* FileCommit makes all that was written to one file durable.
InFile(S, f) == {b \in S : nFile'[b] = f}

\* An unsynced write to a LevelDB database may be lost by a power loss, with
\* all later ones; a reader sees it at once.
WriteIndex(i) == indexDB' = i /\ indexSurvivors' = indexSurvivors \cup {i}
SyncIndex == indexSurvivors' = {indexDB} /\ UNCHANGED <<indexDB, unwritten>>
WriteCoins(b) == coinsDB' = b /\ coinsSurvivors' = coinsSurvivors \cup {b}

\* WriteBlockIndex writes the whole of a block's entry, as it is in memory ...
WriteEntry(b) ==
  /\ WriteIndex([entries |-> indexDB.entries \cup {b},
                 failed  |-> indexDB.failed \cup ({b} \cap failedValid'),
                 undo    |-> indexDB.undo \cup ({b} \cap haveUndo')])
  /\ unwritten' = unwritten \ {b}

\* ... or throws: the entry stays as it was.
EntryFails(b) == unwritten' = unwritten \cup {b} /\ UNCHANGED <<indexDB, indexSurvivors>>

\* FlushBlockFile: the last block file and the last undo file.
FlushBlockFile ==
  /\ blkSafe' = blkSafe \cup InFile(blkFiles, nLastBlockFile)
  /\ revSafe' = revSafe \cup InFile(revFiles, nLastBlockFile)

----------------------------------------------------------------------------
(***************************************************************************)
(* AcceptBlock and AddToBlockIndex, up to ActivateBestChain                *)
(***************************************************************************)

\* FindBlockPos may leave the last file for a new one, which flushes it;
\* WriteBlockToDisk commits the block outside of initial download.
StoreBlock(b) ==
  \E ibd \in download, leave \in BOOLEAN :
    /\ leave => nLastBlockFile < MaxFile
    /\ nLastBlockFile' = nLastBlockFile + (IF leave THEN 1 ELSE 0)
    /\ nFile' = [nFile EXCEPT ![b] = nLastBlockFile']
    /\ blkFiles' = blkFiles \cup {b}
    /\ blkSafe' = blkSafe
         \cup (IF leave THEN InFile(blkFiles, nLastBlockFile) ELSE {})
         \cup (IF ibd THEN {} ELSE InFile(blkFiles', nLastBlockFile'))
    /\ revSafe' = revSafe
         \cup (IF leave THEN InFile(revFiles, nLastBlockFile) ELSE {})
    /\ UNCHANGED revFiles

\* A slip: the new CBlockIndex is not inserted in mapBlockIndex.
InsertUnmapped(b) ==
  /\ setBlockIndexValid' = setBlockIndexValid \cup {b}
  /\ nSequenceId' = [nSequenceId EXCEPT ![b] = nBlockSequenceId]
  /\ nBlockSequenceId' = nBlockSequenceId + 1
  /\ UNCHANGED <<mapBlockIndex, failedValid, failedChild, haveUndo, address>>

\* The new CBlockIndex: known, and a candidate.
InsertBlockIndex(b) ==
  /\ mapBlockIndex' = mapBlockIndex \cup {b}
  /\ setBlockIndexValid' = setBlockIndexValid \cup {b}
  /\ nSequenceId' = [nSequenceId EXCEPT ![b] = nBlockSequenceId]
  /\ nBlockSequenceId' = nBlockSequenceId + 1
  /\ UNCHANGED <<failedValid, failedChild, haveUndo, address>>

AddToBlockIndex(b) == InsertBlockIndex(b) /\ WriteEntry(b)

AcceptBlock(b) ==
  /\ StoreBlock(b)
  /\ AddToBlockIndex(b)
  /\ current' = b /\ pc' = "find"
  /\ UNCHANGED <<tips, aborted, coinsDB, coinsSurvivors, exposed>>

\* A system error: state.Abort or a full disk starts the shutdown, also when an
\* exception of LevelDB comes out of AddToBlockIndex (AcceptBlock catches it).
Abort ==
  /\ failures < MaxFailures
  /\ failures' = failures + 1
  /\ aborted' = TRUE
  /\ UNCHANGED <<stops, download>>

\* The block could not be stored; or it was, and could not be entered in the
\* block tree database: it stays in the index in memory, as a candidate.
AcceptFails(b) ==
  /\ Abort
  /\ \/ UNCHANGED <<index, files, databases>>
     \/ /\ StoreBlock(b) /\ InsertBlockIndex(b) /\ EntryFails(b)
        /\ UNCHANGED <<coinsDB, coinsSurvivors, exposed>>

----------------------------------------------------------------------------
(***************************************************************************)
(* ProcessBlock                                                            *)
(***************************************************************************)

New(b) == b \notin mapBlockIndex /\ b \notin mapOrphanBlocks

Receive(b) ==
  /\ pc = "idle" /\ New(b)
  /\ Parent[b] \in mapBlockIndex /\ b \notin Refused
  /\ AcceptBlock(b)
  /\ UNCHANGED <<orphans, bounds>>

\* ProcessBlock returns.
ReceiveFails(b) ==
  /\ pc = "idle" /\ New(b)
  /\ Parent[b] \in mapBlockIndex /\ b \notin Refused
  /\ AcceptFails(b)
  /\ UNCHANGED <<tips, orphans, current, pc>>

Leaf(b) == \A o \in mapOrphanBlocks : Parent[o] # b

\* A block without its parent is held, after PruneOrphanBlocks has dropped a
\* random one that no other orphan depends on.
ReceiveOrphan(b) ==
  /\ pc = "idle" /\ New(b)
  /\ Parent[b] \notin mapBlockIndex
  /\ IF Cardinality(mapOrphanBlocks) <= MaxOrphanBlocks
     THEN mapOrphanBlocks' = mapOrphanBlocks \cup {b}
     ELSE \E o \in mapOrphanBlocks :
            Leaf(o) /\ mapOrphanBlocks' = (mapOrphanBlocks \ {o}) \cup {b}
  /\ UNCHANGED <<index, tips, vWorkQueue, control, files, databases, bounds>>

\* The orphans of the block at the head of the work queue, one by one ...
Waiting == {o \in mapOrphanBlocks : vWorkQueue # <<>> /\ Parent[o] = Head(vWorkQueue)}

AcceptOrphan(o) ==
  /\ pc = "orphans" /\ o \in Waiting /\ o \notin Refused
  /\ AcceptBlock(o)
  /\ mapOrphanBlocks' = mapOrphanBlocks \ {o}
  /\ UNCHANGED <<vWorkQueue, bounds>>

\* ... which are dropped also when they are not accepted.
RefuseOrphan(o) ==
  /\ pc = "orphans" /\ o \in Waiting /\ o \in Refused
  /\ mapOrphanBlocks' = mapOrphanBlocks \ {o}
  /\ UNCHANGED <<index, tips, vWorkQueue, control, files, databases, bounds>>

AcceptOrphanFails(o) ==
  /\ pc = "orphans" /\ o \in Waiting /\ o \notin Refused
  /\ mapOrphanBlocks' = mapOrphanBlocks \ {o}
  /\ AcceptFails(o)
  /\ UNCHANGED <<tips, vWorkQueue, current, pc>>

NextInQueue ==
  /\ pc = "orphans" /\ vWorkQueue # <<>> /\ Waiting = {}
  /\ vWorkQueue' = Tail(vWorkQueue)
  /\ UNCHANGED <<index, tips, mapOrphanBlocks, control, files, databases, bounds>>

BlockProcessed ==
  /\ pc = "orphans" /\ vWorkQueue = <<>>
  /\ pc' = "idle"
  /\ UNCHANGED <<index, tips, orphans, current, aborted, files, databases, bounds>>

\* A slip: the orphans of an orphan are not looked for.
AcceptedAlone ==
  /\ current' = None
  /\ pc' = IF current = None THEN "idle" ELSE "orphans"
  /\ vWorkQueue' = IF current # None /\ vWorkQueue = <<>> THEN <<current>> ELSE vWorkQueue
  /\ UNCHANGED <<mapOrphanBlocks, aborted>>

\* ActivateBestChain returns true: the block is accepted.
Accepted ==
  /\ current' = None
  /\ IF current = None THEN pc' = "idle" /\ UNCHANGED vWorkQueue
     ELSE pc' = "orphans" /\ vWorkQueue' = Append(vWorkQueue, current)
  /\ UNCHANGED <<mapOrphanBlocks, aborted>>

\* It returns false: at startup the node exits, ProcessBlock gives up its own
\* block, and goes on to the next when it was an orphan.
NotAccepted ==
  /\ current' = None
  /\ pc' = IF current = None THEN "exit" ELSE IF vWorkQueue = <<>> THEN "idle" ELSE "orphans"
  /\ UNCHANGED orphans

----------------------------------------------------------------------------
(***************************************************************************)
(* FindMostWorkChain                                                       *)
(***************************************************************************)

\* CBlockIndexWorkComparator: a is before b.
Less(a, b) ==
  \/ ChainWork[a] < ChainWork[b]
  \/ ChainWork[a] = ChainWork[b] /\ nSequenceId[a] > nSequenceId[b]
  \/ ChainWork[a] = ChainWork[b] /\ nSequenceId[a] = nSequenceId[b] /\ address[a] < address[b]

\* *setBlockIndexValid.rbegin()
Best(b) == b \in setBlockIndexValid /\ \A c \in setBlockIndexValid : ~Less(b, c)

\* "In case the current best is invalid, do not consider it."
DropMostWork ==
  /\ pc = "find" /\ chainMostWork \in Failed
  /\ setBlockIndexValid' = setBlockIndexValid \ {chainMostWork}
  /\ chainMostWork' = Parent[chainMostWork]
  /\ UNCHANGED <<mapBlockIndex, failedValid, failedChild, haveUndo, nSequenceId,
                 nBlockSequenceId, address, chainActive, pcoinsTip, orphans, control, files,
                 databases, bounds>>

SearchCandidate ==
  /\ pc = "find" /\ chainMostWork \notin Failed
  /\ pc' = "candidate"
  /\ UNCHANGED <<index, tips, orphans, current, aborted, files, databases, bounds>>

\* The blocks of the candidate's branch off the active chain.
Branch(b) == Path[b] \ Path[chainActive]

\* The candidate, and what lies between it and its first failed ancestor.
AboveFailure(b) ==
  {a \in Branch(b) : /\ Path[a] \cap Failed # {}
                     /\ \A c \in Branch(b) : a \in Path[c] => c \notin Failed}

\* A slip: the whole branch is marked, below the failed block too.
DropCandidateBranch(b) ==
  /\ pc = "candidate" /\ Best(b) /\ Branch(b) \cap Failed # {}
  /\ failedChild' = failedChild \cup (Branch(b) \ Failed)
  /\ setBlockIndexValid' = setBlockIndexValid \ Branch(b)
  /\ UNCHANGED <<mapBlockIndex, failedValid, haveUndo, nSequenceId, nBlockSequenceId, address,
                 tips, orphans, control, files, databases, bounds>>

\* A slip: the candidates are marked and not erased.
DropCandidateKept(b) ==
  /\ pc = "candidate" /\ Best(b) /\ Branch(b) \cap Failed # {}
  /\ failedChild' = failedChild \cup AboveFailure(b)
  /\ UNCHANGED <<mapBlockIndex, setBlockIndexValid, failedValid, haveUndo, nSequenceId,
                 nBlockSequenceId, address, tips, orphans, control, files, databases, bounds>>

\* "Candidate has an invalid ancestor, remove entire chain from the set."
DropCandidate(b) ==
  /\ pc = "candidate" /\ Best(b) /\ Branch(b) \cap Failed # {}
  /\ failedChild' = failedChild \cup AboveFailure(b)
  /\ setBlockIndexValid' = setBlockIndexValid \ AboveFailure(b)
  /\ UNCHANGED <<mapBlockIndex, failedValid, haveUndo, nSequenceId, nBlockSequenceId, address,
                 tips, orphans, control, files, databases, bounds>>

\* A slip: the improvement is judged by the work alone.
ChooseChainByWork(b) ==
  /\ pc = "candidate" /\ Best(b) /\ Branch(b) \cap Failed = {}
  /\ chainMostWork' = IF chainMostWork # None /\ ChainWork[chainMostWork] >= ChainWork[b]
                      THEN chainMostWork ELSE b
  /\ pc' = "switch"
  /\ UNCHANGED <<index, chainActive, pcoinsTip, orphans, current, aborted, files, databases,
                 bounds>>

\* "Check whether it's actually an improvement."
ChooseChain(b) ==
  /\ pc = "candidate" /\ Best(b) /\ Branch(b) \cap Failed = {}
  /\ chainMostWork' = IF chainMostWork # None /\ ~Less(chainMostWork, b)
                      THEN chainMostWork ELSE b
  /\ pc' = "switch"
  /\ UNCHANGED <<index, chainActive, pcoinsTip, orphans, current, aborted, files, databases,
                 bounds>>

----------------------------------------------------------------------------
(***************************************************************************)
(* ActivateBestChain, DisconnectTip, ConnectTip                            *)
(***************************************************************************)

ToDisconnect == pc = "switch" /\ chainActive \notin Path[chainMostWork]

\* The block of the most-work chain above the active tip.
ToConnect(b) ==
  /\ pc = "switch" /\ chainActive \in Path[chainMostWork]
  /\ b \in Path[chainMostWork] \ {Genesis} /\ Parent[b] = chainActive

Connecting == \E b \in Blocks : ToConnect(b)

\* The view passed to DisconnectBlock and ConnectBlock is that of the tip.
ViewAtTip == pcoinsTip = chainActive

DisconnectTip ==
  /\ ToDisconnect /\ ViewAtTip
  /\ chainActive \in blkFiles /\ chainActive \in revFiles
  /\ pcoinsTip' = Parent[chainActive]
  /\ pc' = "commit"
  /\ UNCHANGED <<index, chainActive, chainMostWork, orphans, current, aborted, files, databases,
                 bounds>>

\* "failure reading undo data": an error, but not one that ends the node.
DisconnectFails ==
  /\ ToDisconnect /\ ViewAtTip
  /\ chainActive \in blkFiles /\ chainActive \notin revFiles
  /\ NotAccepted
  /\ UNCHANGED <<index, tips, aborted, files, databases, bounds>>

\* The undo data of a block, and its flags in memory ...
StoreUndo(b) ==
  \E ibd \in download :
    /\ UNCHANGED <<nFile, nLastBlockFile, blkFiles, blkSafe>>
    /\ haveUndo' = haveUndo \cup {b}
    /\ revFiles' = revFiles \cup {b}
    /\ revSafe' = revSafe \cup (IF ibd THEN {} ELSE InFile(revFiles', nFile[b]))

\* A slip: the entry with the flags is not written.
WriteUndoUnindexed(b) ==
  IF b \in haveUndo THEN UNCHANGED <<haveUndo, files, indexDB, indexSurvivors, unwritten>>
  ELSE StoreUndo(b) /\ UNCHANGED <<indexDB, indexSurvivors, unwritten>>

\* ... which are written once, and the entry with the flags right afterwards.
WriteUndo(b) ==
  IF b \in haveUndo THEN UNCHANGED <<haveUndo, files, indexDB, indexSurvivors, unwritten>>
  ELSE StoreUndo(b) /\ WriteEntry(b)

\* A slip: the outcome of the script checks is not asked for.
ConnectTipUnchecked(b) ==
  /\ ToConnect(b) /\ ViewAtTip
  /\ b \in blkFiles
  /\ pcoinsTip' = b
  /\ pc' = "commit"
  /\ UNCHANGED <<mapBlockIndex, setBlockIndexValid, failedValid, failedChild, nSequenceId,
                 nBlockSequenceId, address, chainActive, chainMostWork, orphans, current,
                 aborted, coinsDB, coinsSurvivors, exposed, bounds>>
  /\ WriteUndo(b)

ConnectTip(b) ==
  /\ ToConnect(b) /\ ViewAtTip
  /\ b \in blkFiles /\ b \notin Bad
  /\ pcoinsTip' = b
  /\ pc' = "commit"
  /\ UNCHANGED <<mapBlockIndex, setBlockIndexValid, failedValid, failedChild, nSequenceId,
                 nBlockSequenceId, address, chainActive, chainMostWork, orphans, current,
                 aborted, coinsDB, coinsSurvivors, exposed, bounds>>
  /\ WriteUndo(b)

\* The entry with the flags of the undo data cannot be written.  They stay set in
\* memory: ConnectBlock will not write them again when it comes back to the block.
ConnectTipFails(b) ==
  /\ ToConnect(b) /\ ViewAtTip
  /\ b \in blkFiles /\ b \notin Bad /\ b \notin haveUndo
  /\ StoreUndo(b) /\ EntryFails(b)
  /\ Abort
  /\ NotAccepted
  /\ UNCHANGED <<mapBlockIndex, setBlockIndexValid, failedValid, failedChild, nSequenceId,
                 nBlockSequenceId, address, tips, coinsDB, coinsSurvivors, exposed>>

\* A slip: the failed block stays a candidate.
InvalidBlockFoundKept(b) ==
  /\ ToConnect(b) /\ ViewAtTip
  /\ b \in blkFiles /\ b \in Bad
  /\ failedValid' = failedValid \cup {b}
  /\ pc' = "find"
  /\ UNCHANGED <<mapBlockIndex, setBlockIndexValid, failedChild, haveUndo, nSequenceId,
                 nBlockSequenceId, address, tips, orphans, current, aborted, files, coinsDB,
                 coinsSurvivors, exposed, bounds>>
  /\ WriteEntry(b)

\* The block violates a consensus rule: InvalidBlockFound, and the loop of
\* ActivateBestChain starts over.
InvalidBlockFound(b) ==
  /\ ToConnect(b) /\ ViewAtTip
  /\ b \in blkFiles /\ b \in Bad
  /\ failedValid' = failedValid \cup {b}
  /\ setBlockIndexValid' = setBlockIndexValid \ {b}
  /\ pc' = "find"
  /\ UNCHANGED <<mapBlockIndex, failedChild, haveUndo, nSequenceId, nBlockSequenceId, address,
                 tips, orphans, current, aborted, files, coinsDB, coinsSurvivors, exposed,
                 bounds>>
  /\ WriteEntry(b)

\* Its entry cannot be written: it is marked, and still a candidate.
InvalidBlockFails(b) ==
  /\ ToConnect(b) /\ ViewAtTip
  /\ b \in blkFiles /\ b \in Bad
  /\ failedValid' = failedValid \cup {b}
  /\ EntryFails(b)
  /\ Abort
  /\ NotAccepted
  /\ UNCHANGED <<mapBlockIndex, setBlockIndexValid, failedChild, haveUndo, nSequenceId,
                 nBlockSequenceId, address, tips, files, coinsDB, coinsSurvivors, exposed>>

\* "Failed to read block", "Failed to write undo data".
SwitchFails ==
  /\ ToDisconnect \/ Connecting
  /\ Abort
  /\ NotAccepted
  /\ UNCHANGED <<index, tips, files, databases>>

\* A block whose data a power loss has taken cannot be read.
BlockLost ==
  /\ \/ ToDisconnect /\ chainActive \notin blkFiles
     \/ \E b \in Blocks : ToConnect(b) /\ b \notin blkFiles
  /\ aborted' = TRUE
  /\ NotAccepted
  /\ UNCHANGED <<index, tips, files, databases, bounds>>

\* assert(hashPrevBlock == view.GetBestBlock()) ends the process.
AssertFails ==
  /\ ~ViewAtTip
  /\ \/ ToDisconnect /\ chainActive \in blkFiles
     \/ \E b \in blkFiles : ToConnect(b)
  /\ pc' = "down"
  /\ UNCHANGED <<index, tips, orphans, current, aborted, files, databases, bounds>>

\* WriteChainState, its writes one after the other ...
WriteFiles ==
  /\ pc = "commit" /\ pc' = "sync"
  /\ UNCHANGED <<nFile, nLastBlockFile, blkFiles, revFiles>>
  /\ FlushBlockFile
  /\ UNCHANGED <<index, tips, orphans, current, aborted, databases, bounds>>

\* A slip: the index is not synced before the coins are written.
WriteSyncSkipped ==
  /\ pc = "sync" /\ pc' = "coins"
  /\ UNCHANGED <<index, tips, orphans, current, aborted, files, databases, bounds>>

WriteSync ==
  /\ pc = "sync" /\ pc' = "coins"
  /\ SyncIndex
  /\ UNCHANGED <<index, tips, orphans, current, aborted, files, coinsDB, coinsSurvivors, exposed,
                 bounds>>

FlushCoins ==
  /\ pc = "coins" /\ pc' = "tip"
  /\ WriteCoins(pcoinsTip)
  /\ UNCHANGED <<index, tips, orphans, current, aborted, files, indexDB, indexSurvivors,
                 unwritten, exposed, bounds>>

\* ... or none in initial download, with little in the cache and soon after
\* the last time.
SkipWrite ==
  /\ pc = "commit" /\ pc' = "tip"
  /\ TRUE \in download
  /\ UNCHANGED <<index, tips, orphans, current, aborted, files, databases, bounds>>

\* The disk is full, the index cannot be synced or the coins not be written:
\* DisconnectTip or ConnectTip is left before UpdateTip.
WriteFails ==
  /\ pc \in {"commit", "sync", "coins"}
  /\ Abort
  /\ NotAccepted
  /\ UNCHANGED <<index, tips, files, databases>>

\* A slip: a disconnected tip stays the active one.
UpdateTipForward ==
  /\ pc = "tip" /\ pc' = "switch"
  /\ chainActive' = IF chainActive \in Path[pcoinsTip] THEN pcoinsTip ELSE chainActive
  /\ UNCHANGED <<index, chainMostWork, pcoinsTip, orphans, current, aborted, files, databases,
                 bounds>>

UpdateTip ==
  /\ pc = "tip" /\ pc' = "switch"
  /\ chainActive' = pcoinsTip
  /\ UNCHANGED <<index, chainMostWork, pcoinsTip, orphans, current, aborted, files, databases,
                 bounds>>

Activated ==
  /\ pc = "switch" /\ chainActive = chainMostWork
  /\ Accepted
  /\ UNCHANGED <<index, tips, files, databases, bounds>>

----------------------------------------------------------------------------
(***************************************************************************)
(* The end of the process, and its next start                              *)
(***************************************************************************)

StopCounted == stops < MaxStops /\ stops' = stops + 1 /\ UNCHANGED <<failures, download>>

\* Shutdown() flushes the coins cache; CBlockTreeDB::Flush does nothing.
Shutdown ==
  /\ pc \in {"idle", "exit"} /\ pc' = "down"
  /\ StopCounted
  /\ WriteCoins(pcoinsTip)
  /\ UNCHANGED <<index, tips, orphans, current, aborted, files, indexDB, indexSurvivors,
                 unwritten, exposed>>

\* The process is killed: what it wrote is with the operating system.
Kill ==
  /\ pc # "down" /\ pc' = "down"
  /\ StopCounted
  /\ UNCHANGED <<index, tips, orphans, current, aborted, files, databases>>

\* The power fails, while the node runs or afterwards.  Any unsynced write to a
\* file may be lost; data that the index does not refer to is lost in any case.
PowerLoss ==
  /\ pc' = "down"
  /\ StopCounted
  /\ indexDB' \in indexSurvivors /\ indexSurvivors' = {indexDB'}
  /\ coinsDB' \in coinsSurvivors /\ coinsSurvivors' = {coinsDB'}
  /\ \E lost \in SUBSET (blkFiles \ blkSafe) : blkFiles' = (blkFiles \ lost) \cap indexDB'.entries
  /\ \E lost \in SUBSET (revFiles \ revSafe) : revFiles' = (revFiles \ lost) \cap indexDB'.undo
  /\ blkSafe' = blkFiles' /\ revSafe' = revFiles'
  /\ exposed' = (exposed \/ aborted \/ TRUE \in download)
  /\ UNCHANGED <<index, tips, orphans, current, aborted, nFile, nLastBlockFile, unwritten>>

\* LoadBlockIndexDB finds the chain of the coins, and VerifyDB its data.  (An entry
\* whose parent has none would be given an empty one: no index is built on that here.)
Loadable(i, best, blk, rev) ==
  /\ \A b \in i.entries : Path[b] \subseteq i.entries
  /\ Path[best] \subseteq i.entries
  /\ Path[best] \subseteq blk
  /\ Path[best] \ {Genesis} \subseteq i.undo
  /\ Path[best] \ {Genesis} \subseteq rev

\* LoadBlockIndexDB, and ActivateBestChain in AppInit2.  Opening a database
\* makes what it holds durable.
Restart ==
  /\ pc = "down" /\ pc' = "find"
  /\ Loadable(indexDB, coinsDB, blkFiles, revFiles)
  /\ mapBlockIndex' = indexDB.entries
  /\ failedValid' = indexDB.failed /\ failedChild' = {}
  /\ setBlockIndexValid' = indexDB.entries \ indexDB.failed
  /\ haveUndo' = indexDB.undo
  /\ nSequenceId' = [b \in Blocks |-> 0] /\ nBlockSequenceId' = 1
  /\ address' \in Addresses
  /\ chainActive' = coinsDB /\ pcoinsTip' = coinsDB /\ chainMostWork' = None
  /\ mapOrphanBlocks' = {} /\ vWorkQueue' = <<>>
  /\ current' = None /\ aborted' = FALSE
  /\ indexSurvivors' = {indexDB} /\ coinsSurvivors' = {coinsDB} /\ unwritten' = {}
  /\ UNCHANGED <<indexDB, coinsDB, exposed, files, bounds>>

----------------------------------------------------------------------------
FindMostWorkChain ==
  \/ DropMostWork \/ SearchCandidate
  \/ \E b \in Blocks : DropCandidate(b) \/ ChooseChain(b)

WriteChainState == WriteFiles \/ WriteSync \/ FlushCoins \/ SkipWrite \/ WriteFails

ActivateBestChain ==
  \/ FindMostWorkChain
  \/ DisconnectTip \/ DisconnectFails
  \/ \E b \in Blocks : \/ ConnectTip(b) \/ ConnectTipFails(b)
                      \/ InvalidBlockFound(b) \/ InvalidBlockFails(b)
  \/ SwitchFails \/ BlockLost \/ AssertFails
  \/ WriteChainState \/ UpdateTip \/ Activated

ResolveOrphans ==
  \/ \E o \in Blocks : AcceptOrphan(o) \/ RefuseOrphan(o) \/ AcceptOrphanFails(o)
  \/ NextInQueue \/ BlockProcessed

ProcessBlock == \E b \in Blocks : Receive(b) \/ ReceiveFails(b) \/ ReceiveOrphan(b)

Next ==
  \/ ProcessBlock \/ ResolveOrphans \/ ActivateBestChain
  \/ Shutdown \/ Kill \/ PowerLoss \/ Restart

Spec == Init /\ [][Next]_vars

\* A call of ProcessBlock runs to its end.
FairSpec == Spec /\ WF_vars(ResolveOrphans \/ ActivateBestChain)

----------------------------------------------------------------------------
(***************************************************************************)
(* Properties                                                              *)
(***************************************************************************)
IndexStates == [entries : SUBSET Blocks, failed : SUBSET Blocks, undo : SUBSET Blocks]

IndexType ==
  /\ mapBlockIndex \in SUBSET Blocks /\ Genesis \in mapBlockIndex
  /\ failedValid \subseteq mapBlockIndex /\ failedChild \subseteq mapBlockIndex
  /\ haveUndo \subseteq mapBlockIndex
  /\ nSequenceId \in [Blocks -> Nat] /\ nBlockSequenceId \in Nat
  /\ address \in [Blocks -> Nat]

TipsType ==
  /\ chainActive \in mapBlockIndex /\ pcoinsTip \in mapBlockIndex
  /\ chainMostWork \in mapBlockIndex \cup {None}

OrphansType == mapOrphanBlocks \in SUBSET Blocks /\ vWorkQueue \in Seq(mapBlockIndex)

ControlType ==
  /\ current \in mapBlockIndex \cup {None}
  /\ pc \in {"idle", "find", "candidate", "switch", "commit", "sync", "coins", "tip", "orphans",
             "exit", "down"}
  /\ aborted \in BOOLEAN

FilesType ==
  /\ nFile \in [Blocks -> Nat] /\ nLastBlockFile \in Nat
  /\ blkSafe \subseteq blkFiles /\ blkFiles \subseteq Blocks
  /\ revSafe \subseteq revFiles /\ revFiles \subseteq Blocks

DatabasesType ==
  /\ indexDB \in indexSurvivors /\ indexSurvivors \subseteq IndexStates
  /\ coinsDB \in coinsSurvivors /\ coinsSurvivors \subseteq Blocks
  /\ exposed \in BOOLEAN
  /\ unwritten \subseteq Blocks

BoundsType == failures \in Nat /\ stops \in Nat /\ download \in InitialDownload

\* Types; in particular the tips are always blocks of the index.
TypeOK ==
  /\ IndexType /\ TipsType /\ OrphansType /\ ControlType /\ FilesType /\ DatabasesType
  /\ BoundsType

\* Blocks found invalid whose mark could not be written.
MarkUnwritten == failedValid \cap unwritten

\* setBlockIndexValid "must contain those who aren't failed" (main.cpp:99), and
\* holds a failed one only if its mark could not be written: a failed candidate
\* would be tried again for ever.
CandidatesExact == setBlockIndexValid \ MarkUnwritten = mapBlockIndex \ Failed

\* A block is marked failed only if it or an ancestor breaks a rule.
FailedForAReason ==
  /\ failedValid \subseteq Bad
  /\ \A b \in failedChild : Path[b] \cap Bad # {}

\* When a block has been processed without a system error, no valid chain of
\* known blocks is better than the active one: more work, or the same work and
\* received earlier.
BestChainActive ==
  pc = "idle" /\ ~aborted /\ ~exposed =>
    \A b \in mapBlockIndex : Path[b] \cap Bad = {} => ~Less(chainActive, b)

\* No orphan is left behind when its parent is known, however long the chain
\* of orphans that one block releases.
OrphansResolved ==
  pc = "idle" /\ ~aborted /\ ~exposed => \A o \in mapOrphanBlocks : Parent[o] \notin mapBlockIndex

\* Whenever the process ends, during a reorganisation or after a system error as
\* well, the databases and files it leaves can be loaded, unless an index entry
\* that could not be written has still not been: the node does not stop at once,
\* and what it writes then (ConnectTipFails) may refer to what the entry lacks.
KillRecoverable ==
  ~exposed /\ unwritten = {} => Loadable(indexDB, coinsDB, blkFiles, revFiles)

\* Outside of initial download, whenever the power fails and whatever of the
\* unsynced writes is lost, what is left can be loaded, unless a system error
\* struck before: ConnectBlock, WriteChainState and the databases order their
\* writes so that a block is never on disk after what refers to it.
PowerRecoverable ==
  TRUE \notin download /\ ~aborted /\ ~exposed =>
    \A i \in indexSurvivors, best \in coinsSurvivors : Loadable(i, best, blkSafe, revSafe)

\* The coins are those of the active tip whenever a block is about to be
\* connected or disconnected, unless a system error struck before.
ViewFollowsTip == pc = "switch" /\ ~aborted => ViewAtTip

Chain == INSTANCE ActiveChain WITH tip <- chainActive, up <- pc # "down"

\* The active chain is extended and cut back block by block and never holds a
\* bad block, through failures, crashes and restarts.
ImplementsActiveChain == Chain!Spec

\* ProcessBlock returns: the search for the best chain ends even if candidate
\* after candidate turns out to be invalid, unless the mark of an invalid block
\* could not be written: FindMostWorkChain may then find that block, at the top of
\* its own branch, without end.
ProcessingEnds ==
  (pc \notin {"idle", "exit", "down"}) ~>
    (pc \in {"idle", "exit", "down"} \/ MarkUnwritten # {})

----------------------------------------------------------------------------
(***************************************************************************)
(* Claims of the code's comments and assertions                            *)
(***************************************************************************)

\* assert(hashPrevBlock == view.GetBestBlock()) (main.cpp:1722).
AssertionHolds == Connecting => ViewAtTip
=============================================================================
