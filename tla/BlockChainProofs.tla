-------------------------- MODULE BlockChainProofs --------------------------
(***************************************************************************)
(* The safety properties of BlockChain for every block tree, every set of  *)
(* bad and of refused blocks, and every bound.                             *)
(***************************************************************************)
EXTENDS BlockChain, TLAPS

(***************************************************************************)
(* The tree                                                                *)
(***************************************************************************)

\* A block is on its own path, and its parent too.
LEMMA PathFacts ==
  ASSUME NEW b \in Blocks
  PROVE  /\ Path[b] \subseteq Blocks /\ b \in Path[b] /\ Genesis \in Path[b]
         /\ Parent[b] \in Path[b]
         /\ b # Genesis => Path[b] = Path[Parent[b]] \cup {b}
         /\ \A a \in Path[b] : Path[a] \subseteq Path[b]
<1>1. CASE b = Genesis
  BY <1>1, BlockTree
<1>2. CASE b # Genesis
  <2>1. Path[b] = Path[Parent[b]] \cup {b} /\ Parent[b] \in Blocks
    BY <1>2, BlockTree
  <2>2. Parent[b] \in Path[Parent[b]]
    BY <2>1, BlockTree
  <2>3. QED BY <2>1, <2>2, BlockTree
<1>3. QED BY <1>1, <1>2

\* A sequence over a set is one over any larger set.
LEMMA SeqGrows ==
  ASSUME NEW S, NEW T, S \subseteq T, NEW s \in Seq(S)
  PROVE  s \in Seq(T)
OBVIOUS

(***************************************************************************)
(* The inductive invariant                                                 *)
(***************************************************************************)

\* An index on disk: flags are those of its entries, and marks have reasons.
IndexSound(i) ==
  /\ Genesis \in i.entries
  /\ i.failed \subseteq i.entries \cap Bad /\ i.undo \subseteq i.entries

\* What a power loss may leave of the index is a part of what was written.
IndexesSound ==
  \A i \in indexSurvivors :
    IndexSound(i) /\ i.entries \subseteq indexDB.entries /\ i.undo \subseteq indexDB.undo

\* The index in memory is written through, except for the entries that could not be.
IndexWritten ==
  pc # "down" =>
    /\ unwritten \subseteq mapBlockIndex
    /\ indexDB.entries \subseteq mapBlockIndex
    /\ mapBlockIndex \ unwritten \subseteq indexDB.entries
    /\ indexDB.failed \subseteq failedValid /\ failedValid \ unwritten \subseteq indexDB.failed
    /\ indexDB.undo \subseteq haveUndo /\ haveUndo \ unwritten \subseteq indexDB.undo

\* With a block come all its ancestors.
IndexClosed == \A b \in mapBlockIndex : Path[b] \subseteq mapBlockIndex

MostWorkKnown ==
  pc \in {"switch", "commit", "sync", "coins", "tip"} => chainMostWork # None

StoreInv ==
  /\ IndexType /\ TipsType /\ ControlType /\ FilesType /\ DatabasesType
  /\ CandidatesExact /\ IndexClosed /\ IndexWritten /\ IndexesSound /\ MostWorkKnown
  /\ failedValid \subseteq Bad

\* An orphan is not in the index.
OrphansInv == OrphansType /\ mapOrphanBlocks \cap mapBlockIndex = {}

Good(b) == Path[b] \cap Bad = {}

\* While the chain state is written the coins are a block away from the tip.
Moved ==
  \/ chainActive # Genesis /\ pcoinsTip = Parent[chainActive]
  \/ pcoinsTip # Genesis /\ Parent[pcoinsTip] = chainActive

ChainInv ==
  /\ Good(chainActive) /\ Good(pcoinsTip) /\ \A b \in coinsSurvivors : Good(b)
  /\ pc \in {"commit", "sync", "coins", "tip"} => Moved
  /\ FailedForAReason
  /\ pc \in {"idle", "find", "candidate", "switch", "orphans", "exit"} /\ ~aborted => ViewAtTip

\* The index i describes the chain of b and has its undo data, and no entry of it
\* lacks that of its parent.
Covered(i, b) ==
  /\ \A e \in i.entries : Path[e] \subseteq i.entries
  /\ Path[b] \subseteq i.entries /\ Path[b] \ {Genesis} \subseteq i.undo

Steady == TRUE \notin download

RecoveryInv ==
  /\ pc # "down" => /\ Path[pcoinsTip] \ {Genesis} \subseteq haveUndo
                    /\ Path[coinsDB] \ {Genesis} \subseteq haveUndo
                    /\ coinsDB \in mapBlockIndex
  /\ pc # "down" /\ ~exposed => mapBlockIndex \subseteq blkFiles /\ haveUndo \subseteq revFiles
  /\ ~exposed => indexDB.entries \subseteq blkFiles /\ indexDB.undo \subseteq revFiles
  /\ ~exposed /\ unwritten = {} => Covered(indexDB, coinsDB)
  /\ Steady /\ ~exposed => blkSafe = blkFiles /\ revSafe = revFiles
  /\ Steady /\ ~exposed /\ ~aborted =>
       \A i \in indexSurvivors, b \in coinsSurvivors : Covered(i, b)
  /\ pc = "coins" => indexSurvivors = {indexDB}
  /\ Steady /\ ~aborted
       /\ pc \in {"idle", "orphans", "find", "candidate", "switch", "tip", "exit"} =>
     coinsDB = pcoinsTip
  /\ unwritten # {} => aborted

Inv == StoreInv /\ OrphansInv /\ BoundsType /\ ChainInv /\ RecoveryInv

\* The invariant holds at the first start.
LEMMA InitInv == Init => Inv
<1> SUFFICES ASSUME Init PROVE Inv
  OBVIOUS
<1>1. Genesis \in Blocks /\ Genesis \notin Bad /\ Path[Genesis] = {Genesis}
  BY BlockTree
<1>2. NewIndex \in IndexStates /\ IndexSound(NewIndex)
  BY <1>1 DEF NewIndex, IndexStates, IndexSound
<1>3. IndexType /\ TipsType /\ ControlType /\ DatabasesType /\ BoundsType
  BY <1>1, <1>2, NodeAssumption
  DEF Init, IndexType, TipsType, ControlType, DatabasesType, BoundsType
<1>4. FilesType /\ OrphansInv
  BY <1>1 DEF Init, FilesType, OrphansInv, OrphansType
<1>5. CandidatesExact /\ IndexClosed /\ MostWorkKnown
  BY <1>1 DEF Init, CandidatesExact, MarkUnwritten, Failed, IndexClosed, MostWorkKnown
<1>6. IndexWritten /\ IndexesSound
  BY <1>2 DEF Init, IndexWritten, IndexesSound, NewIndex
<1>7. ChainInv
  BY <1>1 DEF Init, ChainInv, Good, FailedForAReason, ViewAtTip
<1>8. RecoveryInv
  <2>1. Covered(NewIndex, Genesis) /\ NewIndex.entries = {Genesis} /\ NewIndex.undo = {}
    BY <1>1 DEF Covered, NewIndex
  <2>2. QED BY <1>1, <2>1 DEF Init, RecoveryInv
<1>9. failedValid \subseteq Bad
  BY DEF Init
<1>10. QED
  BY <1>3, <1>4, <1>5, <1>6, <1>7, <1>8, <1>9 DEF Inv, StoreInv

(***************************************************************************)
(* Accepting, connecting and failing a block, on which the steps below rely *)
(***************************************************************************)

\* StoreBlock and StoreUndo keep the types of the files.
LEMMA StoredFiles ==
  ASSUME FilesType, NEW b \in Blocks, StoreBlock(b) \/ StoreUndo(b)
  PROVE  FilesType'
<1>1. CASE StoreBlock(b)
  <2>1. PICK ibd \in download, leave \in BOOLEAN :
          /\ nLastBlockFile' = nLastBlockFile + (IF leave THEN 1 ELSE 0)
          /\ nFile' = [nFile EXCEPT ![b] = nLastBlockFile']
          /\ blkFiles' = blkFiles \cup {b}
          /\ blkSafe' = blkSafe
               \cup (IF leave THEN InFile(blkFiles, nLastBlockFile) ELSE {})
               \cup (IF ibd THEN {} ELSE InFile(blkFiles', nLastBlockFile'))
          /\ revSafe' = revSafe
               \cup (IF leave THEN InFile(revFiles, nLastBlockFile) ELSE {})
          /\ UNCHANGED revFiles
    BY <1>1 DEF StoreBlock
  <2>2. nLastBlockFile' \in Nat
    BY <2>1 DEF FilesType
  <2>3. nFile' \in [Blocks -> Nat]
    BY <2>1, <2>2 DEF FilesType
  <2>4. QED BY <2>1, <2>2, <2>3 DEF InFile, FilesType
<1>2. CASE StoreUndo(b)
  BY <1>2 DEF StoreUndo, InFile, FilesType
<1>3. QED BY <1>1, <1>2

\* One block's entry changes in memory, and is written to disk or not.
Touches(b) ==
  /\ WriteEntry(b) \/ EntryFails(b)
  /\ pc # "down" /\ b \in mapBlockIndex'
  /\ mapBlockIndex \subseteq mapBlockIndex' /\ mapBlockIndex' \subseteq mapBlockIndex \cup {b}
  /\ failedValid \subseteq failedValid' /\ failedValid' \subseteq failedValid \cup {b}
  /\ haveUndo \subseteq haveUndo' /\ haveUndo' \subseteq haveUndo \cup {b}
  /\ UNCHANGED <<coinsDB, coinsSurvivors, exposed, download>>

\* The entry is then as in memory, if it was written, and the others as before.
LEMMA EntryStore ==
  ASSUME StoreInv, NEW b \in Blocks, Touches(b), failedValid' \subseteq Bad
  PROVE  DatabasesType' /\ IndexWritten' /\ IndexesSound'
<1>1. CASE EntryFails(b)
  BY <1>1 DEF Touches, EntryFails, StoreInv, IndexType, DatabasesType, IndexWritten, IndexesSound
<1>2. CASE WriteEntry(b)
  <2>1. /\ indexDB'.entries = indexDB.entries \cup {b}
        /\ indexDB'.failed = indexDB.failed \cup ({b} \cap failedValid')
        /\ indexDB'.undo = indexDB.undo \cup ({b} \cap haveUndo')
        /\ indexDB' \in IndexStates
    BY <1>2 DEF WriteEntry, WriteIndex, StoreInv, DatabasesType, IndexStates
  <2>2. /\ indexSurvivors' = indexSurvivors \cup {indexDB'} /\ unwritten' = unwritten \ {b}
        /\ UNCHANGED <<coinsDB, coinsSurvivors, exposed>>
    BY <1>2 DEF WriteEntry, WriteIndex, Touches
  <2>3. IndexSound(indexDB')
    BY <2>1 DEF StoreInv, DatabasesType, IndexesSound, IndexSound, Touches
  <2>4. DatabasesType' /\ IndexesSound'
    BY <2>1, <2>2, <2>3 DEF StoreInv, DatabasesType, IndexesSound
  <2>5. IndexWritten'
    BY <2>1, <2>2 DEF Touches, StoreInv, IndexWritten
  <2>6. QED BY <2>4, <2>5
<1>3. QED BY <1>1, <1>2 DEF Touches

\* A new block comes into the index, written or not.
LEMMA InsertTouches ==
  ASSUME StoreInv, NEW b \in Blocks, InsertBlockIndex(b), WriteEntry(b) \/ EntryFails(b),
         pc \in {"idle", "orphans"}, UNCHANGED <<coinsDB, coinsSurvivors, exposed, download>>
  PROVE  Touches(b) /\ failedValid' \subseteq Bad
BY DEF Touches, InsertBlockIndex, StoreInv

\* AcceptBlock and AcceptFails add a block of which all ancestors are known.
LEMMA AcceptStore ==
  ASSUME StoreInv, NEW b \in Blocks, b \notin mapBlockIndex, Parent[b] \in mapBlockIndex,
         pc \in {"idle", "orphans"}, UNCHANGED download,
         \/ AcceptBlock(b)
         \/ AcceptFails(b) /\ UNCHANGED <<tips, current, pc>>
  PROVE  StoreInv'
<1>1. CASE AcceptFails(b) /\ UNCHANGED <<tips, current, pc, index, files, databases>>
  BY <1>1
  DEF AcceptFails, Abort, index, tips, files, databases, StoreInv, IndexType, TipsType,
      ControlType, FilesType, DatabasesType, CandidatesExact, MarkUnwritten, Failed, IndexClosed,
      IndexWritten, IndexesSound, MostWorkKnown
<1>2. CASE /\ StoreBlock(b) /\ InsertBlockIndex(b)
           /\ WriteEntry(b) \/ EntryFails(b)
           /\ UNCHANGED <<tips, coinsDB, coinsSurvivors, exposed>>
  <2>1. Path[b] \subseteq mapBlockIndex \cup {b}
    BY PathFacts, BlockTree DEF StoreInv, IndexType, IndexClosed
  <2>2. IndexType'
    BY <1>2 DEF InsertBlockIndex, StoreInv, IndexType
  <2>3. DatabasesType' /\ IndexWritten' /\ IndexesSound'
    BY <1>2, InsertTouches, EntryStore
  <2>4. FilesType'
    BY <1>2, StoredFiles DEF StoreInv
  <2>5. IndexClosed'
    BY <1>2, <2>1 DEF InsertBlockIndex, StoreInv, IndexClosed
  <2>6. CandidatesExact'
    <3>1. b \notin failedValid /\ b \notin failedChild
      BY DEF StoreInv, IndexType
    <3>2. unwritten' \ {b} = unwritten \ {b}
      BY <1>2 DEF WriteEntry, EntryFails
    <3>3. QED
      BY <1>2, <3>1, <3>2 DEF InsertBlockIndex, StoreInv, CandidatesExact, MarkUnwritten, Failed
  <2>7. TipsType' /\ ControlType' /\ MostWorkKnown'
    BY <1>2
    DEF AcceptBlock, AcceptFails, Abort, InsertBlockIndex, tips, StoreInv, TipsType, ControlType,
        MostWorkKnown
  <2>8. QED BY <1>2, <2>2, <2>3, <2>4, <2>5, <2>6, <2>7 DEF InsertBlockIndex, StoreInv
<1>3. QED
  BY <1>1, <1>2 DEF AcceptBlock, AcceptFails, AddToBlockIndex, databases

\* Undo data is written once, and its flag with it or not.
LEMMA ConnectStore ==
  ASSUME StoreInv, NEW b \in Blocks, UNCHANGED download, ConnectTip(b) \/ ConnectTipFails(b)
  PROVE  StoreInv'
<1>1. /\ b \in mapBlockIndex /\ pc = "switch" /\ b \notin failedValid
      /\ UNCHANGED <<mapBlockIndex, setBlockIndexValid, failedValid, failedChild, nSequenceId,
                     nBlockSequenceId, address, chainActive, chainMostWork, coinsDB,
                     coinsSurvivors, exposed>>
  BY DEF ConnectTip, ConnectTipFails, ToConnect, StoreInv, IndexClosed, TipsType, MostWorkKnown,
         IndexType, tips
<1>2. IndexClosed' /\ TipsType' /\ ControlType' /\ MostWorkKnown'
  BY <1>1
  DEF ConnectTip, ConnectTipFails, ToConnect, NotAccepted, Abort, tips, StoreInv, IndexClosed,
      TipsType, ControlType, MostWorkKnown
<1>3. CASE UNCHANGED <<haveUndo, files, indexDB, indexSurvivors, unwritten>>
  <2>1. IndexType' /\ FilesType' /\ DatabasesType' /\ CandidatesExact' /\ IndexesSound'
    BY <1>1, <1>3
    DEF files, StoreInv, IndexType, FilesType, DatabasesType, CandidatesExact, MarkUnwritten,
        Failed, IndexesSound
  <2>2. IndexWritten'
    BY <1>1, <1>3 DEF StoreInv, IndexWritten
  <2>3. QED BY <1>1, <1>2, <2>1, <2>2 DEF StoreInv
<1>4. CASE StoreUndo(b) /\ (WriteEntry(b) \/ EntryFails(b))
  <2>1. haveUndo' = haveUndo \cup {b}
    BY <1>4 DEF StoreUndo
  <2>2. Touches(b)
    BY <1>1, <1>4, <2>1 DEF Touches
  <2>3. DatabasesType' /\ IndexWritten' /\ IndexesSound'
    BY <1>1, <2>2, EntryStore DEF StoreInv
  <2>4. FilesType'
    BY <1>4, StoredFiles DEF StoreInv
  <2>5. unwritten' \ {b} = unwritten \ {b}
    BY <1>4 DEF WriteEntry, EntryFails
  <2>6. IndexType' /\ CandidatesExact'
    BY <1>1, <2>1, <2>5 DEF StoreInv, IndexType, CandidatesExact, MarkUnwritten, Failed
  <2>7. QED BY <1>1, <1>2, <2>3, <2>4, <2>6 DEF StoreInv
<1>5. QED
  BY <1>3, <1>4 DEF ConnectTip, ConnectTipFails, WriteUndo

\* InvalidBlockFound takes the block it marks from the candidates, if the mark
\* can be written.
LEMMA InvalidStore ==
  ASSUME StoreInv, NEW b \in Blocks, UNCHANGED download,
         InvalidBlockFound(b) \/ InvalidBlockFails(b)
  PROVE  StoreInv'
<1>1. /\ b \in mapBlockIndex /\ b \in Bad /\ pc = "switch" /\ failedValid' = failedValid \cup {b}
      /\ UNCHANGED <<mapBlockIndex, failedChild, haveUndo, nSequenceId, nBlockSequenceId, address,
                     chainActive, chainMostWork, pcoinsTip, files, coinsDB, coinsSurvivors,
                     exposed>>
  BY DEF InvalidBlockFound, InvalidBlockFails, ToConnect, StoreInv, IndexClosed, TipsType,
         MostWorkKnown, tips
<1>2. \/ setBlockIndexValid' = setBlockIndexValid \ {b} /\ WriteEntry(b)
      \/ setBlockIndexValid' = setBlockIndexValid /\ EntryFails(b)
  BY DEF InvalidBlockFound, InvalidBlockFails
<1>3. Touches(b)
  BY <1>1, <1>2 DEF Touches
<1>4. DatabasesType' /\ IndexWritten' /\ IndexesSound'
  BY <1>1, <1>3, EntryStore DEF StoreInv
<1>5. CandidatesExact'
  BY <1>1, <1>2 DEF WriteEntry, EntryFails, StoreInv, CandidatesExact, MarkUnwritten, Failed
<1>6. IndexType' /\ TipsType' /\ FilesType' /\ IndexClosed'
  BY <1>1 DEF files, StoreInv, IndexType, TipsType, FilesType, IndexClosed
<1>7. ControlType' /\ MostWorkKnown'
  BY <1>1
  DEF InvalidBlockFound, InvalidBlockFails, NotAccepted, Abort, StoreInv, ControlType,
      MostWorkKnown
<1>8. QED BY <1>1, <1>4, <1>5, <1>6, <1>7 DEF StoreInv

\* LoadBlockIndexDB builds a sound index from a sound database.
LEMMA RestartStore ==
  ASSUME StoreInv, Restart
  PROVE  StoreInv'
<1>1. IndexSound(indexDB) /\ indexDB \in IndexStates
  BY DEF StoreInv, DatabasesType, IndexesSound
<1>2. /\ coinsDB \in indexDB.entries
      /\ \A b \in indexDB.entries : Path[b] \subseteq indexDB.entries
  BY PathFacts DEF Restart, Loadable, StoreInv, DatabasesType
<1>3. address' \in [Blocks -> Nat]
  BY NodeAssumption DEF Restart
<1>4. IndexType'
  BY <1>1, <1>3 DEF Restart, IndexSound, IndexStates, IndexType
<1>5. IndexWritten'
  BY <1>1 DEF Restart, IndexWritten, IndexStates
<1>6. QED
  BY <1>1, <1>2, <1>4, <1>5
  DEF Restart, files, StoreInv, TipsType, ControlType, FilesType, DatabasesType,
      CandidatesExact, MarkUnwritten, Failed, IndexClosed, IndexesSound, IndexSound, MostWorkKnown

\* What IsInitialBlockDownload() may return does not change.
LEMMA DownloadFixed == [Next]_vars => UNCHANGED download
BY DEF Next, ProcessBlock, ResolveOrphans, ActivateBestChain, FindMostWorkChain,
       WriteChainState, Receive, ReceiveFails, ReceiveOrphan, AcceptOrphan, RefuseOrphan,
       AcceptOrphanFails, AcceptFails, NextInQueue, BlockProcessed, DropMostWork,
       SearchCandidate, DropCandidate, ChooseChain, DisconnectTip, DisconnectFails, ConnectTip,
       ConnectTipFails, InvalidBlockFound, InvalidBlockFails, SwitchFails, BlockLost,
       AssertFails, WriteFiles, WriteSync, FlushCoins, SkipWrite, WriteFails, UpdateTip,
       Activated, Shutdown, Kill, PowerLoss, Restart, Abort, StopCounted, bounds, vars

\* Outside of initial download what is stored is committed.
LEMMA StoredSafe ==
  ASSUME BoundsType, FilesType, NEW b \in Blocks, StoreBlock(b) \/ StoreUndo(b), Steady
  PROVE  /\ blkSafe = blkFiles => blkSafe' = blkFiles'
         /\ revSafe = revFiles => revSafe' = revFiles'
<1>1. download \subseteq {FALSE}
  BY NodeAssumption DEF BoundsType, Steady
<1>2. CASE StoreBlock(b)
  BY <1>1, <1>2 DEF StoreBlock, InFile, FilesType
<1>3. CASE StoreUndo(b)
  BY <1>1, <1>3 DEF StoreUndo, InFile, FilesType
<1>4. QED BY <1>2, <1>3

\* An entry is written after the data it refers to, and if it is not the node
\* is aborted.
LEMMA EntryRecovery ==
  ASSUME StoreInv, RecoveryInv, NEW b \in Blocks, Touches(b), StoreInv',
         pc' \notin {"down", "coins"}, aborted => aborted', WriteEntry(b) \/ aborted',
         ~exposed => mapBlockIndex' \subseteq blkFiles' /\ haveUndo' \subseteq revFiles',
         Steady /\ blkSafe = blkFiles => blkSafe' = blkFiles',
         Steady /\ revSafe = revFiles => revSafe' = revFiles',
         Path[pcoinsTip'] \ {Genesis} \subseteq haveUndo',
         \/ pc' = "commit" \/ aborted'
         \/ UNCHANGED pcoinsTip /\ pc \in {"idle", "orphans", "switch"}
  PROVE  RecoveryInv'
<1>1. /\ Steady' = Steady /\ pc # "down"
      /\ mapBlockIndex \subseteq mapBlockIndex' /\ haveUndo \subseteq haveUndo'
      /\ UNCHANGED <<coinsDB, coinsSurvivors, exposed>>
  BY DEF Touches, Steady
<1>2. /\ Path[coinsDB] \ {Genesis} \subseteq haveUndo'
      /\ coinsDB \in mapBlockIndex' /\ Path[coinsDB] \subseteq mapBlockIndex'
  BY <1>1 DEF RecoveryInv, StoreInv, IndexClosed
<1>3. unwritten' # {} => aborted'
  BY DEF Touches, WriteEntry, RecoveryInv
<1>4. indexDB'.entries \subseteq mapBlockIndex' /\ indexDB'.undo \subseteq haveUndo'
  BY DEF StoreInv, IndexWritten
<1>5. unwritten' = {} => indexDB'.entries = mapBlockIndex' /\ indexDB'.undo = haveUndo'
  BY <1>4 DEF StoreInv, IndexWritten
<1>6. unwritten' = {} => Covered(indexDB', coinsDB')
  BY <1>1, <1>2, <1>5 DEF Covered, StoreInv, IndexClosed
<1>7. ASSUME Steady, ~exposed, ~aborted',
             NEW i \in indexSurvivors', NEW c \in coinsSurvivors'
      PROVE  Covered(i, c)
  <2>1. Covered(indexDB, c) /\ (i \in indexSurvivors => Covered(i, c))
    BY <1>1, <1>7 DEF RecoveryInv, StoreInv, DatabasesType
  <2>2. WriteEntry(b) /\ unwritten' = {}
    BY <1>3, <1>7
  <2>3. i \in indexSurvivors \/ i = indexDB'
    BY <2>2 DEF WriteEntry, WriteIndex
  <2>4. indexDB.entries \subseteq indexDB'.entries /\ indexDB.undo \subseteq indexDB'.undo
    BY <2>2 DEF WriteEntry, WriteIndex, StoreInv, DatabasesType, IndexStates
  <2>5. QED BY <1>6, <2>1, <2>2, <2>3, <2>4 DEF Covered
<1>8. QED
  BY <1>1, <1>2, <1>3, <1>4, <1>6, <1>7 DEF RecoveryInv

\* A new block changes nothing below the coins, in memory or on disk.
LEMMA AcceptRecovery ==
  ASSUME StoreInv, BoundsType, RecoveryInv, NEW b \in Blocks, pc \in {"idle", "orphans"},
         UNCHANGED download, StoreInv',
         \/ AcceptBlock(b)
         \/ AcceptFails(b) /\ UNCHANGED <<tips, current, pc>>
  PROVE  RecoveryInv'
<1>1. CASE AcceptFails(b) /\ UNCHANGED <<tips, current, pc, index, files, databases>>
  BY <1>1 DEF AcceptFails, Abort, index, tips, files, databases, RecoveryInv, Covered, Steady
<1>2. CASE /\ StoreBlock(b) /\ InsertBlockIndex(b)
           /\ WriteEntry(b) \/ (EntryFails(b) /\ aborted')
           /\ UNCHANGED <<tips, coinsDB, coinsSurvivors, exposed>>
           /\ pc' \in {"idle", "orphans", "find"} /\ (aborted => aborted')
  <2>1. Touches(b)
    BY <1>2, InsertTouches
  <2>2. /\ mapBlockIndex' = mapBlockIndex \cup {b} /\ UNCHANGED haveUndo
        /\ blkFiles' = blkFiles \cup {b} /\ UNCHANGED revFiles
    BY <1>2 DEF InsertBlockIndex, StoreBlock
  <2>3. ~exposed => mapBlockIndex' \subseteq blkFiles' /\ haveUndo' \subseteq revFiles'
    BY <2>2 DEF RecoveryInv
  <2>4. Steady => /\ blkSafe = blkFiles => blkSafe' = blkFiles'
                  /\ revSafe = revFiles => revSafe' = revFiles'
    BY <1>2, StoredSafe DEF StoreInv
  <2>5. Path[pcoinsTip'] \ {Genesis} \subseteq haveUndo' /\ UNCHANGED pcoinsTip
    BY <1>2, <2>2 DEF tips, RecoveryInv
  <2>6. QED BY <1>2, <2>1, <2>3, <2>4, <2>5, EntryRecovery
<1>3. CASE AcceptBlock(b)
  BY <1>2, <1>3 DEF AcceptBlock, AddToBlockIndex
<1>4. CASE AcceptFails(b) /\ UNCHANGED <<tips, current, pc>>
  BY <1>1, <1>2, <1>4 DEF AcceptFails, Abort
<1>5. QED BY <1>3, <1>4

\* The undo data of a connected block is on disk before its coins.
LEMMA ConnectRecovery ==
  ASSUME StoreInv, BoundsType, RecoveryInv, NEW b \in Blocks, UNCHANGED download, StoreInv',
         ConnectTip(b) \/ ConnectTipFails(b)
  PROVE  RecoveryInv'
<1>1. /\ b \in mapBlockIndex /\ pc = "switch" /\ pc' \notin {"down", "coins"}
      /\ UNCHANGED <<mapBlockIndex, failedValid, coinsDB, coinsSurvivors, exposed>>
      /\ pc' = "commit" \/ aborted'
      /\ aborted => aborted'
  BY DEF ConnectTip, ConnectTipFails, ToConnect, Abort, NotAccepted, StoreInv, IndexClosed,
         TipsType, MostWorkKnown
<1>2. Path[pcoinsTip'] \ {Genesis} \subseteq haveUndo'
  <2>1. haveUndo \subseteq haveUndo' /\ Path[pcoinsTip] \ {Genesis} \subseteq haveUndo
    BY <1>1 DEF ConnectTip, ConnectTipFails, WriteUndo, StoreUndo, RecoveryInv
  <2>2. CASE ConnectTip(b)
    BY <2>1, <2>2, PathFacts DEF ConnectTip, ToConnect, ViewAtTip, WriteUndo, StoreUndo
  <2>3. CASE ConnectTipFails(b)
    BY <2>1, <2>3 DEF ConnectTipFails, tips
  <2>4. QED BY <2>2, <2>3
<1>3. CASE UNCHANGED <<haveUndo, files, indexDB, indexSurvivors, unwritten>>
  BY <1>1, <1>2, <1>3 DEF files, RecoveryInv, Covered, Steady
<1>4. CASE StoreUndo(b) /\ (WriteEntry(b) \/ (EntryFails(b) /\ aborted'))
  <2>1. haveUndo' = haveUndo \cup {b} /\ revFiles' = revFiles \cup {b} /\ UNCHANGED blkFiles
    BY <1>4 DEF StoreUndo
  <2>2. Touches(b)
    BY <1>1, <1>4, <2>1 DEF Touches
  <2>3. ~exposed => mapBlockIndex' \subseteq blkFiles' /\ haveUndo' \subseteq revFiles'
    BY <1>1, <2>1 DEF RecoveryInv
  <2>4. Steady => /\ blkSafe = blkFiles => blkSafe' = blkFiles'
                  /\ revSafe = revFiles => revSafe' = revFiles'
    BY <1>4, StoredSafe DEF StoreInv
  <2>5. QED BY <1>1, <1>2, <1>4, <2>2, <2>3, <2>4, EntryRecovery
<1>5. QED
  BY <1>3, <1>4 DEF ConnectTip, ConnectTipFails, WriteUndo, Abort

\* A failed block is not below the coins.
LEMMA InvalidRecovery ==
  ASSUME StoreInv, RecoveryInv, NEW b \in Blocks, UNCHANGED download, StoreInv',
         InvalidBlockFound(b) \/ InvalidBlockFails(b)
  PROVE  RecoveryInv'
<1>1. /\ b \in mapBlockIndex /\ pc = "switch" /\ failedValid' = failedValid \cup {b}
      /\ UNCHANGED <<mapBlockIndex, haveUndo, pcoinsTip, files, coinsDB, coinsSurvivors, exposed>>
      /\ WriteEntry(b) \/ (EntryFails(b) /\ aborted')
      /\ (aborted => aborted') /\ pc' \notin {"down", "coins"}
  BY DEF InvalidBlockFound, InvalidBlockFails, ToConnect, Abort, NotAccepted, StoreInv,
         IndexClosed, TipsType, MostWorkKnown, tips
<1>2. Touches(b)
  BY <1>1 DEF Touches
<1>3. ~exposed => mapBlockIndex' \subseteq blkFiles' /\ haveUndo' \subseteq revFiles'
  BY <1>1 DEF RecoveryInv, files
<1>4. Path[pcoinsTip'] \ {Genesis} \subseteq haveUndo'
  BY <1>1 DEF RecoveryInv
<1>5. QED
  BY <1>1, <1>2, <1>3, <1>4, EntryRecovery DEF files

\* The coins written are covered by the index, WriteSync having made it durable.
LEMMA CoinsRecovery ==
  ASSUME StoreInv, RecoveryInv, UNCHANGED download, FlushCoins \/ Shutdown
  PROVE  RecoveryInv'
<1>1. pc # "down" /\ pcoinsTip \in mapBlockIndex /\ Path[pcoinsTip] \subseteq mapBlockIndex
  BY DEF FlushCoins, Shutdown, StoreInv, TipsType, IndexClosed
<1>2. unwritten = {} => Covered(indexDB, pcoinsTip)
  BY <1>1 DEF StoreInv, IndexClosed, IndexWritten, RecoveryInv, Covered
<1>3. CASE FlushCoins
  BY <1>1, <1>2, <1>3
  DEF FlushCoins, WriteCoins, index, tips, files, StoreInv, DatabasesType, RecoveryInv, Covered,
      Steady
<1>4. CASE Shutdown
  BY <1>1, <1>2, <1>4
  DEF Shutdown, WriteCoins, index, files, StoreInv, DatabasesType, RecoveryInv, Covered, Steady
<1>5. QED BY <1>3, <1>4

\* Every step keeps the index, the databases and the files sound.
LEMMA StoreStep ==
  ASSUME StoreInv, OrphansInv, [Next]_vars
  PROVE  StoreInv'
<1>1. ASSUME NEW b \in Blocks, Receive(b) \/ ReceiveFails(b) PROVE StoreInv'
  BY <1>1, DownloadFixed, AcceptStore DEF Receive, ReceiveFails, New
<1>2. ASSUME NEW b \in Blocks, AcceptOrphan(b) \/ AcceptOrphanFails(b) PROVE StoreInv'
  <2>1. Parent[b] \in mapBlockIndex /\ b \notin mapBlockIndex
    BY <1>2 DEF AcceptOrphan, AcceptOrphanFails, Waiting, OrphansInv, OrphansType
  <2>2. QED BY <1>2, <2>1, DownloadFixed, AcceptStore DEF AcceptOrphan, AcceptOrphanFails
<1>3. CASE DropMostWork
  <2>1. Parent[chainMostWork] \in mapBlockIndex /\ chainMostWork \in Failed
    BY <1>3, PathFacts DEF DropMostWork, StoreInv, IndexType, TipsType, Failed, IndexClosed
  <2>2. QED
    BY <1>3, <2>1
    DEF DropMostWork, orphans, control, files, databases, StoreInv, IndexType, TipsType,
        ControlType, FilesType, DatabasesType, CandidatesExact, MarkUnwritten, Failed, IndexClosed,
        IndexWritten, IndexesSound, MostWorkKnown
<1>4. ASSUME NEW b \in Blocks, ConnectTip(b) \/ ConnectTipFails(b) PROVE StoreInv'
  BY <1>4, DownloadFixed, ConnectStore
<1>5. ASSUME NEW b \in Blocks, InvalidBlockFound(b) \/ InvalidBlockFails(b) PROVE StoreInv'
  BY <1>5, DownloadFixed, InvalidStore
<1>6. CASE Restart
  BY <1>6, RestartStore
<1> USE DEF StoreInv, IndexType, TipsType, ControlType, FilesType, DatabasesType, IndexStates,
            CandidatesExact, MarkUnwritten, Failed, IndexClosed, IndexWritten, IndexesSound, IndexSound,
            MostWorkKnown
<1>8. ASSUME NEW b \in Blocks, ReceiveOrphan(b) PROVE StoreInv'
  BY <1>8 DEF ReceiveOrphan, New, Leaf, index, tips, control, files, databases, bounds
<1>9. ASSUME NEW b \in Blocks, RefuseOrphan(b) PROVE StoreInv'
  BY <1>9 DEF RefuseOrphan, Waiting, index, tips, control, files, databases, bounds
<1>11. CASE NextInQueue
  BY <1>11 DEF NextInQueue, Waiting, index, tips, control, files, databases, bounds
<1>12. CASE BlockProcessed
  BY <1>12 DEF BlockProcessed, index, tips, orphans, files, databases, bounds
<1>13. CASE SearchCandidate
  BY <1>13 DEF SearchCandidate, index, tips, orphans, files, databases, bounds
<1>14. ASSUME NEW b \in Blocks, DropCandidate(b) PROVE StoreInv'
  BY <1>14 DEF DropCandidate, Best, Branch, AboveFailure, tips, orphans, control, files,
         databases, bounds
<1>15. ASSUME NEW b \in Blocks, ChooseChain(b) PROVE StoreInv'
  BY <1>15, BlockTree
  DEF ChooseChain, Best, Branch, index, orphans, files, databases, bounds
<1>16. CASE DisconnectTip
  BY <1>16, PathFacts
  DEF DisconnectTip, ToDisconnect, ViewAtTip, index, orphans, files, databases, bounds
<1>17. CASE DisconnectFails
  BY <1>17 DEF DisconnectFails, ToDisconnect, ViewAtTip, NotAccepted, index, tips, files,
         databases, bounds, orphans
<1>18. CASE SwitchFails
  BY <1>18 DEF SwitchFails, ToDisconnect, Connecting, Abort, NotAccepted, index, tips, files,
         databases, ToConnect, orphans
<1>19. CASE BlockLost
  BY <1>19 DEF BlockLost, ToDisconnect, ToConnect, NotAccepted, index, tips, files, databases,
         bounds, orphans
<1>20. CASE AssertFails
  BY <1>20 DEF AssertFails, ViewAtTip, ToDisconnect, ToConnect, index, tips, orphans, files,
         databases, bounds
<1>21. CASE WriteFiles
  BY <1>21 DEF WriteFiles, FlushBlockFile, index, tips, orphans, databases, bounds, InFile
<1>22. CASE WriteSync
  BY <1>22 DEF WriteSync, SyncIndex, index, tips, orphans, files, bounds
<1>23. CASE FlushCoins
  BY <1>23 DEF FlushCoins, WriteCoins, index, tips, orphans, files, bounds
<1>24. CASE SkipWrite
  BY <1>24 DEF SkipWrite, index, tips, orphans, files, databases, bounds
<1>25. CASE WriteFails
  BY <1>25 DEF WriteFails, Abort, NotAccepted, index, tips, files, databases, orphans
<1>26. CASE UpdateTip
  BY <1>26 DEF UpdateTip, index, orphans, files, databases, bounds
<1>27. CASE Activated
  BY <1>27 DEF Activated, Accepted, index, tips, files, databases, bounds
<1>28. CASE Shutdown
  BY <1>28 DEF Shutdown, StopCounted, WriteCoins, index, tips, orphans, files
<1>29. CASE Kill
  BY <1>29 DEF Kill, StopCounted, index, tips, orphans, files, databases
<1>30. CASE PowerLoss
  BY <1>30 DEF PowerLoss, StopCounted, index, tips, orphans
<1>31. CASE UNCHANGED vars
  BY <1>31 DEF vars, index, tips, orphans, control, files, databases, bounds
<1>32. QED
  BY <1>1, <1>2, <1>3, <1>4, <1>5, <1>6, <1>8, <1>9, <1>11, <1>12, <1>13, <1>14,
     <1>15, <1>16, <1>17, <1>18, <1>19, <1>20, <1>21, <1>22, <1>23, <1>24, <1>25, <1>26, <1>27,
     <1>28, <1>29, <1>30, <1>31
  DEF Next, ProcessBlock, ResolveOrphans, ActivateBestChain, FindMostWorkChain, WriteChainState

\* Every step keeps bad blocks off the active chain, and the coins at its tip.
LEMMA ChainStep ==
  ASSUME StoreInv, ChainInv, [Next]_vars
  PROVE  ChainInv'
<1> USE DEF ChainInv, Good, Moved, FailedForAReason, ViewAtTip, StoreInv, IndexType, TipsType,
            ControlType, DatabasesType, CandidatesExact, MarkUnwritten, Failed, IndexClosed, IndexWritten,
            IndexesSound, IndexSound, MostWorkKnown
<1>1. ASSUME NEW b \in Blocks, Receive(b) PROVE ChainInv'
  BY <1>1 DEF Receive, New, AcceptBlock, orphans, bounds, StoreBlock, AddToBlockIndex,
         InsertBlockIndex, WriteEntry, tips,
         InFile, WriteIndex
<1>2. ASSUME NEW b \in Blocks, ReceiveFails(b) PROVE ChainInv'
  BY <1>2 DEF ReceiveFails, New, AcceptFails, Abort, InsertBlockIndex, index, tips, orphans, files,
         databases
<1>3. ASSUME NEW b \in Blocks, ReceiveOrphan(b) PROVE ChainInv'
  BY <1>3 DEF ReceiveOrphan, New, Leaf, index, tips, control, files, databases, bounds
<1>4. ASSUME NEW b \in Blocks, AcceptOrphan(b) PROVE ChainInv'
  BY <1>4 DEF AcceptOrphan, Waiting, AcceptBlock, bounds, StoreBlock, AddToBlockIndex,
         InsertBlockIndex, WriteEntry, tips,
         InFile, WriteIndex
<1>5. ASSUME NEW b \in Blocks, RefuseOrphan(b) PROVE ChainInv'
  BY <1>5 DEF RefuseOrphan, Waiting, index, tips, control, files, databases, bounds
<1>6. ASSUME NEW b \in Blocks, AcceptOrphanFails(b) PROVE ChainInv'
  BY <1>6 DEF AcceptOrphanFails, Waiting, AcceptFails, Abort, InsertBlockIndex, index, tips, files,
         databases
<1>7. CASE NextInQueue
  BY <1>7 DEF NextInQueue, Waiting, index, tips, control, files, databases, bounds
<1>8. CASE BlockProcessed
  BY <1>8 DEF BlockProcessed, index, tips, orphans, files, databases, bounds
<1>9. CASE DropMostWork
  BY <1>9 DEF DropMostWork, orphans, control, files, databases, bounds
<1>10. CASE SearchCandidate
  BY <1>10 DEF SearchCandidate, index, tips, orphans, files, databases, bounds
<1>11. ASSUME NEW b \in Blocks, DropCandidate(b) PROVE ChainInv'
  BY <1>11, PathFacts, BlockTree
  DEF DropCandidate, Best, Branch, AboveFailure, tips, orphans, control, files, databases,
         bounds
<1>12. ASSUME NEW b \in Blocks, ChooseChain(b) PROVE ChainInv'
  BY <1>12 DEF ChooseChain, Best, Branch, index, orphans, files, databases, bounds
<1>13. CASE DisconnectTip
  BY <1>13, PathFacts, BlockTree
  DEF DisconnectTip, ToDisconnect, ViewAtTip, index, orphans, files, databases, bounds
<1>14. CASE DisconnectFails
  BY <1>14 DEF DisconnectFails, ToDisconnect, ViewAtTip, NotAccepted, index, tips, files,
         databases, bounds, orphans
<1>15. ASSUME NEW b \in Blocks, ConnectTip(b) PROVE ChainInv'
  BY <1>15, PathFacts, BlockTree
  DEF ConnectTip, ToConnect, ViewAtTip, WriteUndo, StoreUndo, WriteEntry, orphans, bounds, InFile,
      WriteIndex
<1>16. ASSUME NEW b \in Blocks, InvalidBlockFound(b) PROVE ChainInv'
  BY <1>16 DEF InvalidBlockFound, ToConnect, ViewAtTip, WriteEntry, WriteIndex, tips, orphans, files, bounds
<1>17. CASE SwitchFails
  BY <1>17 DEF SwitchFails, ToDisconnect, Connecting, Abort, NotAccepted, index, tips, files,
         databases, ToConnect, orphans
<1>18. CASE BlockLost
  BY <1>18 DEF BlockLost, ToDisconnect, ToConnect, NotAccepted, index, tips, files, databases,
         bounds, orphans
<1>19. CASE AssertFails
  BY <1>19 DEF AssertFails, ViewAtTip, ToDisconnect, ToConnect, index, tips, orphans, files,
         databases, bounds
<1>20. CASE WriteFiles
  BY <1>20 DEF WriteFiles, FlushBlockFile, index, tips, orphans, databases, bounds, InFile
<1>21. CASE WriteSync
  BY <1>21 DEF WriteSync, SyncIndex, index, tips, orphans, files, bounds
<1>22. CASE FlushCoins
  BY <1>22 DEF FlushCoins, WriteCoins, index, tips, orphans, files, bounds
<1>23. CASE SkipWrite
  BY <1>23 DEF SkipWrite, index, tips, orphans, files, databases, bounds
<1>24. CASE WriteFails
  BY <1>24 DEF WriteFails, Abort, NotAccepted, index, tips, files, databases, orphans
<1>25. CASE UpdateTip
  BY <1>25, PathFacts, BlockTree
  DEF UpdateTip, index, orphans, files, databases, bounds
<1>26. CASE Activated
  BY <1>26 DEF Activated, Accepted, index, tips, files, databases, bounds
<1>27. CASE Shutdown
  BY <1>27 DEF Shutdown, StopCounted, WriteCoins, index, tips, orphans, files
<1>28. CASE Kill
  BY <1>28 DEF Kill, StopCounted, index, tips, orphans, files, databases
<1>29. CASE PowerLoss
  BY <1>29 DEF PowerLoss, StopCounted, index, tips, orphans
<1>30. CASE Restart
  BY <1>30, PathFacts, BlockTree
  DEF Restart, Loadable, files, bounds
<1>31. CASE UNCHANGED vars
  BY <1>31 DEF vars, index, tips, orphans, control, files, databases, bounds
<1>32. ASSUME NEW b \in Blocks, ConnectTipFails(b) PROVE ChainInv'
  BY <1>32 DEF ConnectTipFails, ToConnect, Abort, NotAccepted, tips, orphans
<1>33. ASSUME NEW b \in Blocks, InvalidBlockFails(b) PROVE ChainInv'
  BY <1>33 DEF InvalidBlockFails, ToConnect, Abort, NotAccepted, tips, orphans
<1>34. QED
  BY <1>1, <1>2, <1>3, <1>4, <1>5, <1>6, <1>7, <1>8, <1>9, <1>10, <1>11, <1>12, <1>13, <1>14,
     <1>15, <1>16, <1>17, <1>18, <1>19, <1>20, <1>21, <1>22, <1>23, <1>24, <1>25, <1>26, <1>27,
     <1>28, <1>29, <1>30, <1>31, <1>32, <1>33
  DEF Next, ProcessBlock, ResolveOrphans, ActivateBestChain, FindMostWorkChain, WriteChainState

\* Every step leaves databases and files that can be loaded.
LEMMA RecoveryStep ==
  ASSUME StoreInv, OrphansInv, BoundsType, ChainInv, RecoveryInv, [Next]_vars
  PROVE  RecoveryInv'
<1>0. UNCHANGED download /\ StoreInv'
  BY DownloadFixed, StoreStep
<1>1. ASSUME NEW b \in Blocks, Receive(b) \/ ReceiveFails(b) PROVE RecoveryInv'
  BY <1>0, <1>1, AcceptRecovery DEF Receive, ReceiveFails
<1>2. ASSUME NEW b \in Blocks, AcceptOrphan(b) \/ AcceptOrphanFails(b) PROVE RecoveryInv'
  BY <1>0, <1>2, AcceptRecovery DEF AcceptOrphan, AcceptOrphanFails
<1>3. ASSUME NEW b \in Blocks, ConnectTip(b) \/ ConnectTipFails(b) PROVE RecoveryInv'
  BY <1>0, <1>3, ConnectRecovery
<1>4. ASSUME NEW b \in Blocks, InvalidBlockFound(b) \/ InvalidBlockFails(b) PROVE RecoveryInv'
  BY <1>0, <1>4, InvalidRecovery
<1>5. CASE FlushCoins
  BY <1>0, <1>5, CoinsRecovery
<1>6. CASE Shutdown
  BY <1>0, <1>6, CoinsRecovery
<1>30. CASE Restart
  <2>1. /\ Path[coinsDB] \subseteq indexDB.entries
        /\ Path[coinsDB] \ {Genesis} \subseteq indexDB.undo
        /\ Covered(indexDB, coinsDB) /\ coinsDB \in indexDB.entries
    BY <1>30, PathFacts DEF Restart, Loadable, Covered, StoreInv, DatabasesType
  <2>2. /\ mapBlockIndex' = indexDB.entries /\ haveUndo' = indexDB.undo
        /\ pcoinsTip' = coinsDB /\ pc' = "find" /\ unwritten' = {}
        /\ indexSurvivors' = {indexDB} /\ coinsSurvivors' = {coinsDB}
        /\ UNCHANGED <<indexDB, coinsDB, exposed, files>>
    BY <1>30 DEF Restart
  <2>3. QED BY <1>0, <2>1, <2>2 DEF RecoveryInv, Steady, files
<1> USE DEF RecoveryInv, Covered, Steady, ChainInv, Moved, ViewAtTip, StoreInv, IndexType, TipsType,
            ControlType, FilesType, DatabasesType, IndexStates, IndexClosed, IndexWritten,
            IndexesSound, IndexSound, MostWorkKnown
<1>8. ASSUME NEW b \in Blocks, ReceiveOrphan(b) PROVE RecoveryInv'
  BY <1>8 DEF ReceiveOrphan, New, Leaf, index, tips, control, files, databases, bounds
<1>9. ASSUME NEW b \in Blocks, RefuseOrphan(b) PROVE RecoveryInv'
  BY <1>9 DEF RefuseOrphan, Waiting, index, tips, control, files, databases, bounds
<1>11. CASE NextInQueue
  BY <1>11 DEF NextInQueue, Waiting, index, tips, control, files, databases, bounds
<1>12. CASE BlockProcessed
  BY <1>12 DEF BlockProcessed, index, tips, orphans, files, databases, bounds
<1>13. CASE DropMostWork
  BY <1>13 DEF DropMostWork, orphans, control, files, databases, bounds
<1>14. CASE SearchCandidate
  BY <1>14 DEF SearchCandidate, index, tips, orphans, files, databases, bounds
<1>15. ASSUME NEW b \in Blocks, DropCandidate(b) PROVE RecoveryInv'
  BY <1>15 DEF DropCandidate, Best, Branch, AboveFailure, tips, orphans, control, files,
         databases, bounds
<1>16. ASSUME NEW b \in Blocks, ChooseChain(b) PROVE RecoveryInv'
  BY <1>16 DEF ChooseChain, Best, Branch, index, orphans, files, databases, bounds
<1>17. CASE DisconnectTip
  BY <1>17, PathFacts, BlockTree
  DEF DisconnectTip, ToDisconnect, ViewAtTip, index, orphans, files, databases, bounds
<1>18. CASE DisconnectFails
  BY <1>18 DEF DisconnectFails, ToDisconnect, ViewAtTip, NotAccepted, index, tips, files,
         databases, bounds, orphans
<1>19. CASE SwitchFails
  BY <1>19 DEF SwitchFails, ToDisconnect, Connecting, Abort, NotAccepted, index, tips, files,
         databases, ToConnect, orphans
<1>20. CASE BlockLost
  BY <1>20 DEF BlockLost, ToDisconnect, ToConnect, NotAccepted, index, tips, files, databases,
         bounds, orphans
<1>21. CASE AssertFails
  BY <1>21 DEF AssertFails, ViewAtTip, ToDisconnect, ToConnect, index, tips, orphans, files,
         databases, bounds
<1>22. CASE WriteFiles
  BY <1>22 DEF WriteFiles, FlushBlockFile, index, tips, orphans, databases, bounds, InFile
<1>23. CASE WriteSync
  BY <1>23 DEF WriteSync, SyncIndex, index, tips, orphans, files, bounds
<1>24. CASE SkipWrite
  BY <1>24 DEF SkipWrite, index, tips, orphans, files, databases, bounds
<1>25. CASE WriteFails
  BY <1>25 DEF WriteFails, Abort, NotAccepted, index, tips, files, databases, orphans
<1>26. CASE UpdateTip
  BY <1>26 DEF UpdateTip, index, orphans, files, databases, bounds
<1>27. CASE Activated
  BY <1>27 DEF Activated, Accepted, index, tips, files, databases, bounds
<1>28. CASE Kill
  BY <1>28 DEF Kill, StopCounted, index, tips, orphans, files, databases
<1>29. CASE PowerLoss
  BY <1>29 DEF PowerLoss, StopCounted, index, tips, orphans
<1>31. CASE UNCHANGED vars
  BY <1>31 DEF vars, index, tips, orphans, control, files, databases, bounds
<1>32. QED
  BY <1>1, <1>2, <1>3, <1>4, <1>5, <1>6, <1>8, <1>9, <1>11, <1>12, <1>13, <1>14,
     <1>15, <1>16, <1>17, <1>18, <1>19, <1>20, <1>21, <1>22, <1>23, <1>24, <1>25, <1>26, <1>27,
     <1>28, <1>29, <1>30, <1>31
  DEF Next, ProcessBlock, ResolveOrphans, ActivateBestChain, FindMostWorkChain, WriteChainState

\* Orphans stay out of the index, and the work queue within it.
LEMMA OrphansStep ==
  ASSUME StoreInv, OrphansInv, [Next]_vars
  PROVE  OrphansInv'
<1> USE DEF OrphansInv, OrphansType
<1>1. ASSUME NEW b \in Blocks, Receive(b) \/ ReceiveFails(b) PROVE OrphansInv'
  <2>1. /\ mapBlockIndex' = mapBlockIndex \/ mapBlockIndex' = mapBlockIndex \cup {b}
        /\ UNCHANGED orphans
    BY <1>1 DEF Receive, ReceiveFails, AcceptBlock, AcceptFails, AddToBlockIndex,
                InsertBlockIndex, index
  <2>2. vWorkQueue \in Seq(mapBlockIndex')
    BY <2>1, SeqGrows
  <2>3. QED BY <1>1, <2>1, <2>2 DEF Receive, ReceiveFails, New, orphans
<1>2. ASSUME NEW b \in Blocks, AcceptOrphan(b) \/ AcceptOrphanFails(b) PROVE OrphansInv'
  <2>1. /\ mapBlockIndex' = mapBlockIndex \/ mapBlockIndex' = mapBlockIndex \cup {b}
        /\ UNCHANGED vWorkQueue
    BY <1>2 DEF AcceptOrphan, AcceptOrphanFails, AcceptBlock, AcceptFails, AddToBlockIndex,
                InsertBlockIndex, index
  <2>2. vWorkQueue \in Seq(mapBlockIndex')
    BY <2>1, SeqGrows
  <2>3. QED BY <1>2, <2>1, <2>2 DEF AcceptOrphan, AcceptOrphanFails
<1>3. CASE Activated \/ DisconnectFails \/ SwitchFails \/ BlockLost \/ WriteFails
             \/ \E b \in Blocks : ConnectTipFails(b) \/ InvalidBlockFails(b)
  <2>1. UNCHANGED <<mapBlockIndex, mapOrphanBlocks>>
    BY <1>3 DEF Activated, Accepted, DisconnectFails, SwitchFails, BlockLost, WriteFails,
                ConnectTipFails, InvalidBlockFails,
                NotAccepted, index, orphans
  <2>2. \/ vWorkQueue' = vWorkQueue
        \/ current \in mapBlockIndex /\ vWorkQueue' = Append(vWorkQueue, current)
    BY <1>3 DEF Activated, Accepted, DisconnectFails, SwitchFails, BlockLost, WriteFails,
                ConnectTipFails, InvalidBlockFails,
                NotAccepted, orphans, StoreInv, ControlType
  <2>3. QED BY <2>1, <2>2
<1>4. CASE Restart
  BY <1>4 DEF Restart
<1>5. CASE NextInQueue
  BY <1>5 DEF NextInQueue, index
<1>6. ASSUME NEW b \in Blocks, ReceiveOrphan(b) \/ RefuseOrphan(b)
      PROVE  OrphansInv'
  BY <1>6 DEF ReceiveOrphan, RefuseOrphan, New, Waiting, index
<1>7. CASE UNCHANGED <<mapBlockIndex, orphans>>
  BY <1>7 DEF orphans
<1>8. QED
  BY <1>1, <1>2, <1>3, <1>4, <1>5, <1>6, <1>7
  DEF Next, ProcessBlock, ResolveOrphans, ActivateBestChain, FindMostWorkChain, WriteChainState,
      BlockProcessed, DropMostWork, SearchCandidate, DropCandidate, ChooseChain,
      DisconnectTip, ConnectTip, InvalidBlockFound, AssertFails, WriteFiles, WriteSync,
      FlushCoins, SkipWrite, UpdateTip, Shutdown, Kill, PowerLoss, vars, index

\* The counters of failures and of stops.
LEMMA BoundsStep ==
  ASSUME BoundsType, [Next]_vars
  PROVE  BoundsType'
<1>1. UNCHANGED failures \/ failures' = failures + 1
  BY DEF Next, ProcessBlock, ResolveOrphans, ActivateBestChain, FindMostWorkChain,
         WriteChainState, Receive, ReceiveFails, ReceiveOrphan, AcceptOrphan, RefuseOrphan,
         AcceptOrphanFails, NextInQueue, BlockProcessed, DropMostWork, SearchCandidate,
         DropCandidate, ChooseChain, DisconnectTip, DisconnectFails, ConnectTip,
         ConnectTipFails, InvalidBlockFound, InvalidBlockFails, AcceptFails, SwitchFails, BlockLost, AssertFails, WriteFiles, WriteSync,
         FlushCoins, SkipWrite, WriteFails, UpdateTip, Activated, Shutdown, Kill, PowerLoss,
         Restart, Abort, StopCounted, bounds, vars
<1>2. UNCHANGED stops \/ stops' = stops + 1
  BY DEF Next, ProcessBlock, ResolveOrphans, ActivateBestChain, FindMostWorkChain,
         WriteChainState, Receive, ReceiveFails, ReceiveOrphan, AcceptOrphan, RefuseOrphan,
         AcceptOrphanFails, NextInQueue, BlockProcessed, DropMostWork, SearchCandidate,
         DropCandidate, ChooseChain, DisconnectTip, DisconnectFails, ConnectTip,
         ConnectTipFails, InvalidBlockFound, InvalidBlockFails, AcceptFails, SwitchFails, BlockLost, AssertFails, WriteFiles, WriteSync,
         FlushCoins, SkipWrite, WriteFails, UpdateTip, Activated, Shutdown, Kill, PowerLoss,
         Restart, Abort, StopCounted, bounds, vars
<1>3. QED BY <1>1, <1>2, DownloadFixed DEF BoundsType

(***************************************************************************)
(* The best chain                                                          *)
(***************************************************************************)

\* No valid chain of known blocks is better than that of b.
NoneBetter(b) == \A c \in mapBlockIndex : Good(c) => ~Less(b, c)

\* The chain that is being activated is the best one, and the active one is when
\* the activation is over, unless a system error or a power loss struck.
BestInv ==
  /\ pc \in {"switch", "commit", "sync", "coins", "tip"} => NoneBetter(chainMostWork)
  /\ pc \in {"idle", "orphans"} /\ ~aborted /\ ~exposed => NoneBetter(chainActive)

\* CBlockIndexWorkComparator is irreflexive, and what is not before something
\* that is not before a third one is not before that either.
LEMMA LessFacts ==
  ASSUME IndexType
  PROVE  /\ \A a \in Blocks : ~Less(a, a)
         /\ \A a, b, c \in Blocks : ~Less(a, b) /\ ~Less(b, c) => ~Less(a, c)
<1>1. \A b \in Blocks : ChainWork[b] \in Nat /\ nSequenceId[b] \in Nat /\ address[b] \in Nat
  BY BlockTree DEF IndexType
<1>2. QED BY <1>1 DEF Less

\* A block that FindMostWorkChain may choose is as good as every valid chain.
LEMMA ChosenIsBest ==
  ASSUME StoreInv, ChainInv, NEW b \in Blocks, ChooseChain(b)
  PROVE  NoneBetter(chainMostWork')
<1>1. mapBlockIndex \subseteq Blocks /\ IndexType
  BY DEF StoreInv, IndexType
<1>2. \A c \in mapBlockIndex : Good(c) => c \in setBlockIndexValid
  <2>1. \A c \in failedValid : ~Good(c)
    BY <1>1, PathFacts DEF ChainInv, FailedForAReason, Good, StoreInv, IndexType
  <2>2. \A c \in failedChild : ~Good(c)
    BY DEF ChainInv, FailedForAReason, Good
  <2>3. QED BY <2>1, <2>2 DEF StoreInv, CandidatesExact, MarkUnwritten, Failed
<1>3. NoneBetter(b)
  BY <1>2 DEF ChooseChain, Best, NoneBetter
<1>4. CASE chainMostWork' = b
  BY <1>3, <1>4
<1>5. CASE chainMostWork' = chainMostWork /\ chainMostWork # None /\ ~Less(chainMostWork, b)
  <2>1. chainMostWork \in Blocks
    BY <1>1, <1>5 DEF StoreInv, TipsType
  <2>2. \A c \in mapBlockIndex : Good(c) => ~Less(chainMostWork, c)
    BY <1>1, <1>3, <1>5, <2>1, LessFacts DEF NoneBetter
  <2>3. QED BY <1>5, <2>2 DEF NoneBetter
<1>6. QED BY <1>4, <1>5 DEF ChooseChain

\* While no power loss has taken undo data that the index knows of, the undo data
\* of a block to be disconnected is there.
LEMMA UndoIsThere ==
  ASSUME StoreInv, RecoveryInv, DisconnectFails
  PROVE  exposed
<1> SUFFICES ASSUME ~exposed PROVE FALSE
  OBVIOUS
<1>1. pc = "switch" /\ pcoinsTip = chainActive /\ chainActive \notin revFiles
      /\ chainActive \notin Path[chainMostWork]
  BY DEF DisconnectFails, ToDisconnect, ViewAtTip
<1>2. chainActive \in Blocks /\ chainMostWork \in Blocks
  BY <1>1 DEF StoreInv, TipsType, IndexType, MostWorkKnown
<1>3. chainActive \in Path[chainActive] \ {Genesis}
  BY <1>1, <1>2, PathFacts
<1>4. haveUndo \subseteq revFiles
  BY <1>1 DEF RecoveryInv
<1>5. QED BY <1>1, <1>3, <1>4 DEF RecoveryInv

LEMMA BestStep ==
  ASSUME StoreInv, ChainInv, RecoveryInv, BestInv, [Next]_vars
  PROVE  BestInv'
<1> USE DEF BestInv
<1>1. ASSUME NEW b \in Blocks, ChooseChain(b) PROVE BestInv'
  <2>1. UNCHANGED <<mapBlockIndex, nSequenceId, address>> /\ pc' = "switch"
    BY <1>1 DEF ChooseChain, index
  <2>2. NoneBetter(chainMostWork')
    BY <1>1, ChosenIsBest
  <2>3. QED BY <2>1, <2>2 DEF NoneBetter, Less
<1>2. CASE Activated
  BY <1>2 DEF Activated, Accepted, index, tips, files, databases, NoneBetter, Less
<1>3. CASE DisconnectFails
  <2>1. exposed' /\ pc' \in {"exit", "idle", "orphans"}
    BY <1>3, UndoIsThere DEF DisconnectFails, NotAccepted, databases
  <2>2. QED BY <2>1
<1>4. CASE SwitchFails \/ BlockLost \/ WriteFails
           \/ \E b \in Blocks : ConnectTipFails(b) \/ InvalidBlockFails(b)
  <2>1. aborted' /\ pc' \in {"exit", "idle", "orphans"}
    BY <1>4
    DEF SwitchFails, BlockLost, WriteFails, ConnectTipFails, InvalidBlockFails, NotAccepted,
        Abort
  <2>2. QED BY <2>1
<1>5. ASSUME NEW b \in Blocks, ReceiveFails(b) \/ AcceptOrphanFails(b) PROVE BestInv'
  <2>1. aborted' /\ pc' \in {"idle", "orphans"}
    BY <1>5 DEF ReceiveFails, AcceptOrphanFails, AcceptFails, Abort
  <2>2. QED BY <2>1
<1>6. CASE pc' \in {"find", "candidate", "down"}
  BY <1>6
<1>7. CASE /\ UNCHANGED <<mapBlockIndex, nSequenceId, address, chainMostWork>>
           /\ {pc, pc'} \subseteq {"switch", "commit", "sync", "coins", "tip"}
  BY <1>7 DEF NoneBetter, Less
<1>8. CASE /\ UNCHANGED <<mapBlockIndex, nSequenceId, address, chainActive, aborted, exposed>>
           /\ {pc, pc'} \subseteq {"idle", "orphans"}
  BY <1>8 DEF NoneBetter, Less
<1>9. CASE UNCHANGED vars
  BY <1>9 DEF vars, index, tips, control, databases, NoneBetter, Less
<1>10. QED
  <2>1. \/ \E b \in Blocks :
               Receive(b) \/ AcceptOrphan(b) \/ DropCandidate(b) \/ InvalidBlockFound(b)
        \/ DropMostWork \/ SearchCandidate \/ AssertFails
        \/ Shutdown \/ Kill \/ PowerLoss \/ Restart
        => pc' \in {"find", "candidate", "down"}
    BY DEF Receive, AcceptOrphan, AcceptBlock, DropMostWork, SearchCandidate, DropCandidate,
        InvalidBlockFound, AssertFails, Shutdown, Kill, PowerLoss, Restart, control
  <2>2. \/ \E b \in Blocks : ConnectTip(b)
        \/ DisconnectTip \/ WriteFiles \/ WriteSync \/ FlushCoins \/ SkipWrite \/ UpdateTip
        => /\ UNCHANGED <<mapBlockIndex, nSequenceId, address, chainMostWork>>
           /\ {pc, pc'} \subseteq {"switch", "commit", "sync", "coins", "tip"}
    BY DEF DisconnectTip, ToDisconnect, ConnectTip, ToConnect, WriteFiles, WriteSync, FlushCoins,
        SkipWrite, UpdateTip, index, tips
  <2>3. \/ \E b \in Blocks : ReceiveOrphan(b) \/ RefuseOrphan(b)
        \/ NextInQueue \/ BlockProcessed
        => /\ UNCHANGED <<mapBlockIndex, nSequenceId, address, chainActive, aborted, exposed>>
           /\ {pc, pc'} \subseteq {"idle", "orphans"}
    BY DEF ReceiveOrphan, RefuseOrphan, NextInQueue, BlockProcessed, index, tips, control, databases
  <2>4. QED
    BY <1>1, <1>2, <1>3, <1>4, <1>5, <1>6, <1>7, <1>8, <1>9, <2>1, <2>2, <2>3
    DEF Next, ProcessBlock, ResolveOrphans, ActivateBestChain, FindMostWorkChain, WriteChainState

(***************************************************************************)
(* The release of orphans                                                  *)
(***************************************************************************)

Working == pc \in {"find", "candidate", "switch", "commit", "sync", "coins", "tip"}

Queued == {vWorkQueue[i] : i \in DOMAIN vWorkQueue}

\* An orphan whose parent is known waits for a block of the work queue, or for the
\* one that is being activated, which goes into it; nothing is left in the queue
\* between two calls of ProcessBlock.
ReleaseInv ==
  /\ pc = "idle" \/ (Working /\ current = None) => vWorkQueue = <<>>
  /\ Working /\ current = None => mapOrphanBlocks = {}
  /\ (Working \/ pc \in {"idle", "orphans"}) /\ ~aborted /\ ~exposed =>
       \A o \in mapOrphanBlocks :
         Parent[o] \in mapBlockIndex =>
           Parent[o] \in Queued \/ (Working /\ Parent[o] = current)

\* What Append and Tail do to the blocks of the work queue.
LEMMA QueuedFacts ==
  ASSUME vWorkQueue \in Seq(Blocks)
  PROVE  /\ vWorkQueue = <<>> => Queued = {}
         /\ \A b \in Blocks : vWorkQueue' = Append(vWorkQueue, b) => Queued' = Queued \cup {b}
         /\ vWorkQueue # <<>> /\ vWorkQueue' = Tail(vWorkQueue) =>
              Queued \subseteq Queued' \cup {Head(vWorkQueue)}
<1>1. vWorkQueue = <<>> => Queued = {}
  BY DEF Queued
<1>2. ASSUME NEW b \in Blocks, vWorkQueue' = Append(vWorkQueue, b)
      PROVE  Queued' = Queued \cup {b}
  <2>1. /\ DOMAIN vWorkQueue = 1 .. Len(vWorkQueue)
        /\ DOMAIN vWorkQueue' = 1 .. Len(vWorkQueue) + 1
        /\ \A i \in 1 .. Len(vWorkQueue) : vWorkQueue'[i] = vWorkQueue[i]
        /\ vWorkQueue'[Len(vWorkQueue) + 1] = b
        /\ Len(vWorkQueue) \in Nat
    BY <1>2
  <2>2. \A i \in DOMAIN vWorkQueue' : i \in DOMAIN vWorkQueue \/ i = Len(vWorkQueue) + 1
    BY <2>1
  <2>3. DOMAIN vWorkQueue \subseteq DOMAIN vWorkQueue'
        /\ Len(vWorkQueue) + 1 \in DOMAIN vWorkQueue'
    BY <2>1
  <2>4. QED BY <2>1, <2>2, <2>3 DEF Queued
<1>3. ASSUME vWorkQueue # <<>>, vWorkQueue' = Tail(vWorkQueue)
      PROVE  Queued \subseteq Queued' \cup {Head(vWorkQueue)}
  <2>1. /\ DOMAIN vWorkQueue = 1 .. Len(vWorkQueue)
        /\ DOMAIN vWorkQueue' = 1 .. Len(vWorkQueue) - 1
        /\ \A i \in 1 .. Len(vWorkQueue) - 1 : vWorkQueue'[i] = vWorkQueue[i + 1]
        /\ vWorkQueue[1] = Head(vWorkQueue)
        /\ Len(vWorkQueue) \in Nat
    BY <1>3
  <2>2. \A i \in DOMAIN vWorkQueue : i = 1 \/ (i - 1 \in DOMAIN vWorkQueue'
                                               /\ vWorkQueue'[i - 1] = vWorkQueue[i])
    BY <2>1
  <2>3. QED BY <2>1, <2>2 DEF Queued
<1>4. QED BY <1>1, <1>2, <1>3

LEMMA ReleaseStep ==
  ASSUME StoreInv, OrphansInv, RecoveryInv, ReleaseInv, [Next]_vars
  PROVE  ReleaseInv'
<1> USE DEF ReleaseInv
<1>1. /\ mapBlockIndex \subseteq Blocks /\ mapOrphanBlocks \subseteq Blocks
      /\ vWorkQueue \in Seq(Blocks) /\ None \notin Blocks
      /\ pc \notin {"idle", "orphans"} \/ ~Working
  BY SeqGrows, BlockTree DEF StoreInv, IndexType, OrphansInv, OrphansType, Working
<1>2. ASSUME NEW b \in Blocks, Receive(b) \/ AcceptOrphan(b) PROVE ReleaseInv'
  <2>1. /\ pc \in {"idle", "orphans"} /\ pc' = "find" /\ current' = b
        /\ mapBlockIndex' = mapBlockIndex \cup {b}
        /\ mapOrphanBlocks' \subseteq mapOrphanBlocks
        /\ UNCHANGED <<vWorkQueue, aborted, exposed>>
    BY <1>2 DEF Receive, AcceptOrphan, AcceptBlock, AddToBlockIndex, InsertBlockIndex, orphans
  <2>2. Working' /\ ~Working /\ current' # None
    BY <1>1, <2>1 DEF Working
  <2>3. QED BY <2>1, <2>2 DEF Queued
<1>3. CASE Activated
  <2>1. /\ pc = "switch"
        /\ UNCHANGED <<mapBlockIndex, mapOrphanBlocks, aborted, exposed>>
        /\ \/ current = None /\ pc' = "idle" /\ UNCHANGED vWorkQueue
           \/ current # None /\ pc' = "orphans" /\ vWorkQueue' = Append(vWorkQueue, current)
    BY <1>3 DEF Activated, Accepted, index, databases
  <2>2. Working /\ ~Working'
    BY <2>1 DEF Working
  <2>3. CASE current = None
    BY <2>1, <2>2, <2>3
  <2>4. CASE current # None
    <3>1. Queued' = Queued \cup {current}
      BY <1>1, <2>1, <2>4, QueuedFacts DEF StoreInv, ControlType
    <3>2. QED BY <2>1, <2>2, <2>4, <3>1
  <2>5. QED BY <2>3, <2>4
<1>4. CASE SwitchFails \/ BlockLost \/ WriteFails \/ DisconnectFails
           \/ \E b \in Blocks : ConnectTipFails(b) \/ InvalidBlockFails(b)
  <2>1. aborted' \/ exposed'
    BY <1>4, UndoIsThere
    DEF SwitchFails, BlockLost, WriteFails, DisconnectFails, ConnectTipFails,
        InvalidBlockFails, Abort, databases
  <2>2. /\ UNCHANGED vWorkQueue /\ pc' \in {"exit", "idle", "orphans"}
        /\ pc' = "idle" => vWorkQueue = <<>>
    BY <1>4
    DEF SwitchFails, BlockLost, WriteFails, DisconnectFails, ConnectTipFails, InvalidBlockFails,
        NotAccepted, orphans
  <2>3. QED BY <2>1, <2>2 DEF Working
<1>5. ASSUME NEW b \in Blocks, ReceiveFails(b) \/ AcceptOrphanFails(b) PROVE ReleaseInv'
  <2>1. aborted' /\ UNCHANGED <<vWorkQueue, pc>> /\ pc \in {"idle", "orphans"}
    BY <1>5 DEF ReceiveFails, AcceptOrphanFails, AcceptFails, Abort, orphans
  <2>2. QED BY <2>1 DEF Working
<1>6. ASSUME NEW b \in Blocks, ReceiveOrphan(b) \/ RefuseOrphan(b) PROVE ReleaseInv'
  <2>1. /\ pc \in {"idle", "orphans"}
        /\ UNCHANGED <<mapBlockIndex, vWorkQueue, pc, aborted, exposed>>
        /\ \A o \in mapOrphanBlocks' :
             o \in mapOrphanBlocks \/ Parent[o] \notin mapBlockIndex
    BY <1>6 DEF ReceiveOrphan, RefuseOrphan, index, control, databases
  <2>2. QED BY <2>1 DEF Working, Queued
<1>7. CASE NextInQueue
  <2>1. /\ pc = "orphans" /\ vWorkQueue # <<>> /\ vWorkQueue' = Tail(vWorkQueue)
        /\ \A o \in mapOrphanBlocks : Parent[o] # Head(vWorkQueue)
        /\ UNCHANGED <<mapBlockIndex, mapOrphanBlocks, pc, aborted, exposed>>
    BY <1>7 DEF NextInQueue, Waiting, index, control, databases
  <2>2. Queued \subseteq Queued' \cup {Head(vWorkQueue)}
    BY <1>1, <2>1, QueuedFacts
  <2>3. QED BY <2>1, <2>2 DEF Working
<1>8. CASE BlockProcessed
  BY <1>8 DEF BlockProcessed, index, orphans, databases, Working, Queued
<1>9. CASE Restart
  BY <1>9 DEF Restart, Working
<1>10. CASE pc' = "down"
  BY <1>10 DEF Working
<1>11. CASE /\ Working /\ Working'
            /\ UNCHANGED <<mapBlockIndex, orphans, current, aborted, exposed>>
  BY <1>11 DEF orphans, Queued, Working
<1>12. CASE UNCHANGED vars
  BY <1>12 DEF vars, index, orphans, control, databases, Working, Queued
<1>13. QED
  <2>1. \/ \E b \in Blocks :
               DropCandidate(b) \/ ChooseChain(b) \/ ConnectTip(b) \/ InvalidBlockFound(b)
        \/ DropMostWork \/ SearchCandidate \/ DisconnectTip
        \/ WriteFiles \/ WriteSync \/ FlushCoins \/ SkipWrite \/ UpdateTip
        => /\ Working /\ Working'
           /\ UNCHANGED <<mapBlockIndex, orphans, current, aborted, exposed>>
    BY DEF DropMostWork, SearchCandidate, DropCandidate, ChooseChain, DisconnectTip, ToDisconnect,
        ConnectTip, ToConnect, InvalidBlockFound, WriteFiles, WriteSync, FlushCoins, SkipWrite,
        UpdateTip, Working, index, control, databases
  <2>2. Shutdown \/ Kill \/ PowerLoss \/ AssertFails => pc' = "down"
    BY DEF Shutdown, Kill, PowerLoss, AssertFails
  <2>3. QED
    BY <1>2, <1>3, <1>4, <1>5, <1>6, <1>7, <1>8, <1>9, <1>10, <1>11, <1>12, <2>1, <2>2
    DEF Next, ProcessBlock, ResolveOrphans, ActivateBestChain, FindMostWorkChain, WriteChainState

(***************************************************************************)
(* The theorems                                                            *)
(***************************************************************************)

\* The block store, the chain and what is on disk stay sound in every step of
\* ProcessBlock, and at every end and start of the process.
THEOREM Invariant == Spec => []Inv
<1>1. Inv /\ [Next]_vars => Inv'
  BY StoreStep, OrphansStep, BoundsStep, ChainStep, RecoveryStep DEF Inv
<1>2. QED BY InitInv, <1>1, PTL DEF Spec

\* Types; the tips, the orphans' work queue and the block being processed are
\* always blocks of the index.
THEOREM TypeCorrect == Spec => []TypeOK
<1>1. Inv => TypeOK
  BY DEF Inv, StoreInv, OrphansInv, TypeOK
<1>2. QED BY Invariant, <1>1, PTL

\* setBlockIndexValid holds exactly the blocks of the index not known to have
\* failed, whatever is received, found invalid, dropped or loaded.
THEOREM CandidatesAlwaysExact == Spec => []CandidatesExact
<1>1. Inv => CandidatesExact
  BY DEF Inv, StoreInv
<1>2. QED BY Invariant, <1>1, PTL

\* InvalidBlockFound and FindMostWorkChain mark no block of a valid chain.
THEOREM FailuresHaveReasons == Spec => []FailedForAReason
<1>1. Inv => FailedForAReason
  BY DEF Inv, ChainInv
<1>2. QED BY Invariant, <1>1, PTL

\* The coins cache follows the tip through ConnectTip and DisconnectTip.
THEOREM CoinsFollowTip == Spec => []ViewFollowsTip
<1>1. Inv => ViewFollowsTip
  BY DEF Inv, ChainInv, ViewFollowsTip
<1>2. QED BY Invariant, <1>1, PTL

\* Whatever step the process is killed in, LoadBlockIndexDB and VerifyDB find
\* the chain of the coins complete, after any number of failed writes, unless an
\* index entry that could not be written has still not been.
THEOREM AlwaysKillRecoverable == Spec => []KillRecoverable
<1>1. Inv => KillRecoverable
  BY DEF Inv, RecoveryInv, Covered, KillRecoverable, Loadable
<1>2. QED BY Invariant, <1>1, PTL

\* A power loss outside of initial download leaves a complete chain too.
THEOREM AlwaysPowerRecoverable == Spec => []PowerRecoverable
<1>1. Inv => PowerRecoverable
  <2> SUFFICES ASSUME Inv, TRUE \notin download, ~aborted, ~exposed,
                      NEW i \in indexSurvivors, NEW b \in coinsSurvivors
               PROVE  Loadable(i, b, blkSafe, revSafe)
    BY DEF PowerRecoverable
  <2>1. Covered(i, b) /\ Steady
    BY DEF Inv, RecoveryInv, Steady
  <2>2. i.entries \subseteq indexDB.entries /\ i.undo \subseteq indexDB.undo
    BY DEF Inv, StoreInv, IndexesSound
  <2>3. indexDB.entries \subseteq blkSafe /\ indexDB.undo \subseteq revSafe
    BY <2>1 DEF Inv, RecoveryInv
  <2>4. QED BY <2>1, <2>2, <2>3 DEF Covered, Loadable
<1>2. QED BY Invariant, <1>1, PTL

\* The strengthening of the two theorems below holds from the first start on.
LEMMA ChoiceInvariant == Spec => [](BestInv /\ ReleaseInv)
<1>1. Init => BestInv /\ ReleaseInv
  <2> SUFFICES ASSUME Init PROVE BestInv /\ ReleaseInv
    OBVIOUS
  <2>1. IndexType
    BY InitInv DEF Inv, StoreInv
  <2>2. NoneBetter(chainActive)
    BY <2>1, LessFacts, BlockTree DEF Init, NoneBetter
  <2>3. QED BY <2>2 DEF Init, BestInv, ReleaseInv, Working
<1>2. Inv /\ BestInv /\ ReleaseInv /\ [Next]_vars => BestInv' /\ ReleaseInv'
  BY BestStep, ReleaseStep DEF Inv
<1>3. QED BY Invariant, <1>1, <1>2, PTL DEF Spec

\* When ProcessBlock is over and no system error or power loss struck, the active
\* chain is the best of the valid ones, however many candidates failed, were
\* dropped or were reorganised away in between.
THEOREM BestChainAlwaysActive == Spec => []BestChainActive
<1>1. BestInv => BestChainActive
  BY DEF BestInv, BestChainActive, NoneBetter, Good
<1>2. QED BY ChoiceInvariant, <1>1, PTL

\* ProcessBlock leaves no orphan behind whose parent it has accepted.
THEOREM OrphansAlwaysResolved == Spec => []OrphansResolved
<1>1. Inv /\ ReleaseInv => OrphansResolved
  BY DEF ReleaseInv, OrphansResolved, Queued, Working
<1>2. QED BY Invariant, ChoiceInvariant, <1>1, PTL

\* The node implements ActiveChain: the tip moves block by block along the
\* tree, and no bad block is ever on the active chain.
THEOREM Implementation == Spec => ImplementsActiveChain
<1>1. Init => Chain!Init
  BY DEF Init, Chain!Init
<1>2. Inv /\ [Next]_vars => [Chain!Next]_Chain!vars
  <2> SUFFICES ASSUME Inv, [Next]_vars
               PROVE  [Chain!Next]_Chain!vars
    OBVIOUS
  <2> USE DEF Chain!vars
  <2>1. CASE UpdateTip
    <3>1. chainActive' = pcoinsTip /\ pc # "down" /\ pc' # "down" /\ Moved
      BY <2>1 DEF UpdateTip, Inv, ChainInv
    <3>2. CASE chainActive # Genesis /\ pcoinsTip = Parent[chainActive]
      BY <3>1, <3>2 DEF Chain!Next, Chain!Retract
    <3>3. CASE pcoinsTip # Genesis /\ Parent[pcoinsTip] = chainActive
      <4>1. pcoinsTip \in Blocks \ Bad
        BY PathFacts DEF Inv, StoreInv, IndexType, TipsType, ChainInv, Good
      <4>2. QED BY <3>1, <3>3, <4>1 DEF Chain!Next, Chain!Extend
    <3>4. QED BY <3>1, <3>2, <3>3 DEF Moved
  <2>2. CASE Shutdown \/ Kill \/ AssertFails
    BY <2>2 DEF Shutdown, Kill, AssertFails, ToDisconnect, ToConnect, tips, Chain!Next,
                Chain!Stop
  <2>3. CASE PowerLoss
    BY <2>3 DEF PowerLoss, tips, Chain!Next, Chain!Stop
  <2>4. CASE Restart
    <3>1. coinsDB \in Blocks /\ Path[coinsDB] \cap Bad = {}
      BY DEF Inv, StoreInv, DatabasesType, ChainInv, Good
    <3>2. QED BY <2>4, <3>1 DEF Restart, Chain!Next, Chain!Start
  <2>5. CASE UNCHANGED chainActive /\ pc # "down" /\ pc' # "down"
    BY <2>5
  <2>6. CASE UNCHANGED vars
    BY <2>6 DEF vars, tips, control
  <2>7. QED
    BY <2>1, <2>2, <2>3, <2>4, <2>5, <2>6
    DEF Next, ProcessBlock, ResolveOrphans, ActivateBestChain, FindMostWorkChain,
        WriteChainState, Receive, ReceiveFails, ReceiveOrphan, AcceptOrphan, RefuseOrphan,
        AcceptOrphanFails, NextInQueue, BlockProcessed, DropMostWork, SearchCandidate,
        DropCandidate, ChooseChain, DisconnectTip, DisconnectFails, ConnectTip,
        ConnectTipFails, InvalidBlockFound, InvalidBlockFails, SwitchFails, BlockLost, WriteFiles,
        WriteSync, FlushCoins, SkipWrite, WriteFails, Activated, AcceptBlock, AcceptFails, tips, index, control, ToDisconnect, NotAccepted,
        ToConnect, Connecting, Accepted
<1>3. QED BY Invariant, <1>1, <1>2, PTL DEF Spec, ImplementsActiveChain, Chain!Spec

=============================================================================
