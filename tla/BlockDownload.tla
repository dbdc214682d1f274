--------------------------- MODULE BlockDownload ----------------------------
(***************************************************************************)
(* Which peer is asked for which block: CNodeState and the functions on it *)
(* in main.cpp.  A block announced by a peer is queued at it, then         *)
(* requested from it in SendMessages, unless it is queued or in flight at  *)
(* some peer already; a peer that stalls is disconnected.                  *)
(*                                                                         *)
(* Each action is a handler and runs under cs_main, but for the write of   *)
(* nLastBlockProcess in ProcessMessage, in the thread that alone reads it. *)
(* Sockets, and what a peer sends, are the environment.  Time is counted   *)
(* in ticks of BLOCK_DOWNLOAD_TIMEOUT, as ages: "age" is the time since an *)
(* event, and "late" whether it was beyond its limit when the last message *)
(* of the peer was processed, at nLastBlockProcess.  An age stops beyond   *)
(* its limit.                                                              *)
(* AlreadyHave may say anything of a hash at any time: blocks are taken,   *)
(* and orphan blocks dropped, for many reasons.                            *)
(***************************************************************************)
EXTENDS Integers, Sequences, FiniteSets

CONSTANTS
  Peers,         \* NodeIds: each is used for one connection
  Hashes,        \* blocks, by their hash
  Knows,         \* Knows[p]: the blocks p announces and sends
  Misbehaves,    \* peers that may do what Misbehaving is called for
  Local,         \* peers at local addresses, which are not banned
  MAX_BLOCKS_IN_TRANSIT_PER_PEER,
  MaxToDownload, \* 5000: beyond it, a peer that announces blocks misbehaves
  None

ASSUME BlockDownloadAssumption ==
  /\ None \notin Peers
  /\ Knows \in [Peers -> SUBSET Hashes] /\ Local \subseteq Peers /\ Misbehaves \subseteq Peers
  /\ MAX_BLOCKS_IN_TRANSIT_PER_PEER \in Nat \ {0}
  /\ MaxToDownload \in Nat

RequestLimit == 2    \* timeouts since a block was requested
ReceiveLimit == 1    \* timeouts since a requested block was received

Older(a, limit) == IF a <= limit THEN a + 1 ELSE a
Now == [age |-> 0, late |-> FALSE]

VARIABLES
  unborn,               \* ids not used yet
  mapNodeState,         \* ids that have a CNodeState
  fDisconnect,
  fShouldBan,
  heard,                \* peers with an nLastRecv in the present tick
  received,             \* received[p]: nLastBlockReceive, as [age, late]
  vBlocksToDownload, nBlocksToDownload,
  vBlocksInFlight,      \* sequences of [hash, age, late]
  nBlocksInFlight,
  mapBlocksToDownload, mapBlocksInFlight   \* the peer for a hash, or None

connVars == <<unborn, mapNodeState, fDisconnect, fShouldBan>>
queueVars == <<vBlocksToDownload, nBlocksToDownload, mapBlocksToDownload>>
flightVars == <<vBlocksInFlight, nBlocksInFlight, mapBlocksInFlight>>
vars == <<connVars, heard, received, queueVars, flightVars>>

Init ==
  /\ unborn = Peers /\ mapNodeState = {} /\ fDisconnect = {} /\ fShouldBan = {} /\ heard = {}
  /\ received = [p \in Peers |-> Now]
  /\ vBlocksToDownload = [p \in Peers |-> <<>>]
  /\ nBlocksToDownload = [p \in Peers |-> 0]
  /\ vBlocksInFlight = [p \in Peers |-> <<>>]
  /\ nBlocksInFlight = [p \in Peers |-> 0]
  /\ mapBlocksToDownload = [h \in Hashes |-> None]
  /\ mapBlocksInFlight = [h \in Hashes |-> None]

----------------------------------------------------------------------------
(***************************************************************************)
(* Connections.                                                            *)
(***************************************************************************)

\* The times in a new CNodeState are set before they are read.
InitializeNode(p) ==
  /\ p \in unborn
  /\ unborn' = unborn \ {p} /\ mapNodeState' = mapNodeState \cup {p}
  /\ UNCHANGED <<fDisconnect, fShouldBan, heard, received, queueVars, flightVars>>

\* The peer closes the connection, or the node does on an error.
SocketClosed(p) ==
  /\ p \in mapNodeState \ fDisconnect
  /\ fDisconnect' = fDisconnect \cup {p}
  /\ UNCHANGED <<unborn, mapNodeState, fShouldBan, heard, received, queueVars, flightVars>>

\* A slip: only what is in flight is erased from the maps.
HalfFinalizeNode(p) ==
  /\ p \in mapNodeState \cap fDisconnect
  /\ mapNodeState' = mapNodeState \ {p}
  /\ fDisconnect' = fDisconnect \ {p} /\ fShouldBan' = fShouldBan \ {p}
  /\ mapBlocksInFlight' =
       [h \in Hashes |-> IF \E i \in DOMAIN vBlocksInFlight[p] : vBlocksInFlight[p][i].hash = h
                         THEN None ELSE mapBlocksInFlight[h]]
  /\ vBlocksToDownload' = [vBlocksToDownload EXCEPT ![p] = <<>>]
  /\ vBlocksInFlight' = [vBlocksInFlight EXCEPT ![p] = <<>>]
  /\ nBlocksToDownload' = [nBlocksToDownload EXCEPT ![p] = 0]
  /\ nBlocksInFlight' = [nBlocksInFlight EXCEPT ![p] = 0]
  /\ received' = [received EXCEPT ![p] = Now] /\ heard' = heard \ {p}
  /\ UNCHANGED <<unborn, mapBlocksToDownload>>

\* What the lists of p name is erased from the maps, with the state of p.
FinalizeNode(p) ==
  /\ p \in mapNodeState \cap fDisconnect
  /\ mapNodeState' = mapNodeState \ {p}
  /\ fDisconnect' = fDisconnect \ {p} /\ fShouldBan' = fShouldBan \ {p}
  /\ mapBlocksToDownload' =
       [h \in Hashes |-> IF \E i \in DOMAIN vBlocksToDownload[p] : vBlocksToDownload[p][i] = h
                         THEN None ELSE mapBlocksToDownload[h]]
  /\ mapBlocksInFlight' =
       [h \in Hashes |-> IF \E i \in DOMAIN vBlocksInFlight[p] : vBlocksInFlight[p][i].hash = h
                         THEN None ELSE mapBlocksInFlight[h]]
  /\ vBlocksToDownload' = [vBlocksToDownload EXCEPT ![p] = <<>>]
  /\ vBlocksInFlight' = [vBlocksInFlight EXCEPT ![p] = <<>>]
  /\ nBlocksToDownload' = [nBlocksToDownload EXCEPT ![p] = 0]
  /\ nBlocksInFlight' = [nBlocksInFlight EXCEPT ![p] = 0]
  /\ received' = [received EXCEPT ![p] = Now] /\ heard' = heard \ {p}
  /\ UNCHANGED unborn

----------------------------------------------------------------------------
(***************************************************************************)
(* Messages.                                                               *)
(***************************************************************************)

HeardFrom(p) == p \in mapNodeState \ fDisconnect /\ heard' = heard \cup {p}

\* Bytes of p that do not get as far as ProcessMessage: a message with a bad header
\* or checksum, or one that is left in vRecvMsg while the send buffer is full.
Skipped(p) ==
  /\ HeardFrom(p)
  /\ UNCHANGED <<connVars, received, queueVars, flightVars>>

\* nLastBlockProcess is set first, for every message.
NoteTime(record, limit) == [record EXCEPT !.late = record.age > limit]

\* The requests to p, after a message of p.
InFlightNoted(p) ==
  [i \in DOMAIN vBlocksInFlight[p] |-> NoteTime(vBlocksInFlight[p][i], RequestLimit)]

OtherMessage(p) ==
  /\ HeardFrom(p)
  /\ received' = [received EXCEPT ![p] = NoteTime(@, ReceiveLimit)]
  /\ vBlocksInFlight' = [vBlocksInFlight EXCEPT ![p] = InFlightNoted(p)]
  /\ UNCHANGED <<connVars, queueVars, nBlocksInFlight, mapBlocksInFlight>>

\* A slip: the state of the peer may be gone.
MisbehavingUnchecked(p) ==
  /\ p \in Misbehaves
  /\ fShouldBan' = fShouldBan \cup {p}
  /\ UNCHANGED <<unborn, mapNodeState, fDisconnect, heard, received, queueVars, flightVars>>

\* Misbehaving, with a score that reaches the threshold; what is counted up to
\* there is left out.
Misbehaving(p) ==
  /\ p \in mapNodeState \cap Misbehaves
  /\ fShouldBan' = fShouldBan \cup {p}
  /\ UNCHANGED <<unborn, mapNodeState, fDisconnect, heard, received, queueVars, flightVars>>

\* A slip: blocks in flight are queued again.
QueueInFlight(p, h) ==
  IF mapBlocksToDownload[h] # None
  THEN UNCHANGED <<fShouldBan, queueVars>>
  ELSE /\ vBlocksToDownload' = [vBlocksToDownload EXCEPT ![p] = Append(@, h)]
       /\ nBlocksToDownload' = [nBlocksToDownload EXCEPT ![p] = @ + 1]
       /\ mapBlocksToDownload' = [mapBlocksToDownload EXCEPT ![h] = p]
       /\ UNCHANGED fShouldBan

AddBlockToQueue(p, h) ==
  IF mapBlocksToDownload[h] # None \/ mapBlocksInFlight[h] # None
  THEN UNCHANGED <<fShouldBan, queueVars>>
  ELSE /\ vBlocksToDownload' = [vBlocksToDownload EXCEPT ![p] = Append(@, h)]
       /\ nBlocksToDownload' = [nBlocksToDownload EXCEPT ![p] = @ + 1]
       /\ mapBlocksToDownload' = [mapBlocksToDownload EXCEPT ![h] = p]
       /\ \/ UNCHANGED fShouldBan
          \/ nBlocksToDownload'[p] > MaxToDownload /\ fShouldBan' = fShouldBan \cup {p}

\* "inv" of a block.
Inv(p, h) ==
  /\ HeardFrom(p)
  /\ AddBlockToQueue(p, h)    \* or OtherMessage, if AlreadyHave(h)
  /\ received' = [received EXCEPT ![p] = NoteTime(@, ReceiveLimit)]
  /\ vBlocksInFlight' = [vBlocksInFlight EXCEPT ![p] = InFlightNoted(p)]
  /\ UNCHANGED <<unborn, mapNodeState, fDisconnect, nBlocksInFlight, mapBlocksInFlight>>

\* list::erase at an iterator.
ErasedAt(s, i) == [j \in 1 .. Len(s) - 1 |-> IF j < i THEN s[j] ELSE s[j + 1]]

\* MarkBlockAsReceived, its two halves.
Dequeue(h) ==
  LET q == mapBlocksToDownload[h]
      s == vBlocksToDownload[q]
      i == CHOOSE n \in DOMAIN s : s[n] = h
  IN IF q = None THEN UNCHANGED queueVars
     ELSE /\ vBlocksToDownload' = [vBlocksToDownload EXCEPT ![q] = ErasedAt(s, i)]
          /\ nBlocksToDownload' = [nBlocksToDownload EXCEPT ![q] = @ - 1]
          /\ mapBlocksToDownload' = [mapBlocksToDownload EXCEPT ![h] = None]

Land(p, h) ==
  LET q == mapBlocksInFlight[h]
      noted == [vBlocksInFlight EXCEPT ![p] = InFlightNoted(p)]
      i == CHOOSE n \in DOMAIN noted[q] : noted[q][n].hash = h
  IN IF q = None
     THEN /\ vBlocksInFlight' = noted
          /\ received' = [received EXCEPT ![p] = NoteTime(@, ReceiveLimit)]
          /\ UNCHANGED <<nBlocksInFlight, mapBlocksInFlight>>
     ELSE /\ vBlocksInFlight' = [noted EXCEPT ![q] = ErasedAt(noted[q], i)]
          /\ nBlocksInFlight' = [nBlocksInFlight EXCEPT ![q] = @ - 1]
          /\ mapBlocksInFlight' = [mapBlocksInFlight EXCEPT ![h] = None]
          /\ received' = [received EXCEPT ![p] = IF p = q THEN Now
                                                 ELSE NoteTime(@, ReceiveLimit)]

\* "block": received, whatever ProcessBlock then makes of it.
Block(p, h) ==
  /\ HeardFrom(p)
  /\ Dequeue(h) /\ Land(p, h)
  /\ fShouldBan' \in {fShouldBan, fShouldBan \cup ({p} \cap Misbehaves)}
  /\ UNCHANGED <<unborn, mapNodeState, fDisconnect>>

----------------------------------------------------------------------------
(***************************************************************************)
(* SendMessages, and time.                                                 *)
(***************************************************************************)

\* "Detect stalled peers": more than one, and more than two, timeouts.
Stalls(p) ==
  /\ nBlocksInFlight[p] > 0
  /\ received[p].late /\ Head(vBlocksInFlight[p]).late

\* A slip: the limit is looked at once, before the loop.
AllIfAny(p) ==
  IF nBlocksInFlight[p] < MAX_BLOCKS_IN_TRANSIT_PER_PEER THEN nBlocksToDownload[p] ELSE 0

\* How often the loop that requests blocks is run.
Requests(p) ==
  LET room == MAX_BLOCKS_IN_TRANSIT_PER_PEER - nBlocksInFlight[p]
  IN IF nBlocksToDownload[p] <= room THEN nBlocksToDownload[p] ELSE room

\* A slip: the newest request is put in front.
RequestInFront(p, k) ==
  LET s == vBlocksToDownload[p]
      moved == {s[i] : i \in 1 .. k}
  IN /\ vBlocksToDownload' = [vBlocksToDownload EXCEPT ![p] = SubSeq(s, k + 1, Len(s))]
     /\ nBlocksToDownload' = [nBlocksToDownload EXCEPT ![p] = @ - k]
     /\ mapBlocksToDownload' =
          [h \in Hashes |-> IF h \in moved THEN None ELSE mapBlocksToDownload[h]]
     /\ vBlocksInFlight' =
          [vBlocksInFlight EXCEPT ![p] =
             [i \in 1 .. k |-> [hash |-> s[i], age |-> 0, late |-> FALSE]] \o @]
     /\ nBlocksInFlight' = [nBlocksInFlight EXCEPT ![p] = @ + k]
     /\ mapBlocksInFlight' =
          [h \in Hashes |-> IF h \in moved THEN p ELSE mapBlocksInFlight[h]]
     /\ received' = IF nBlocksInFlight[p] = 0 /\ k > 0
                    THEN [received EXCEPT ![p] = Now] ELSE received

\* A slip: nLastBlockReceive is reset by every request, not by a first one.
RequestRefreshing(p, k) ==
  LET s == vBlocksToDownload[p]
      moved == {s[i] : i \in 1 .. k}
  IN /\ vBlocksToDownload' = [vBlocksToDownload EXCEPT ![p] = SubSeq(s, k + 1, Len(s))]
     /\ nBlocksToDownload' = [nBlocksToDownload EXCEPT ![p] = @ - k]
     /\ mapBlocksToDownload' =
          [h \in Hashes |-> IF h \in moved THEN None ELSE mapBlocksToDownload[h]]
     /\ vBlocksInFlight' =
          [vBlocksInFlight EXCEPT ![p] =
             @ \o [i \in 1 .. k |-> [hash |-> s[i], age |-> 0, late |-> FALSE]]]
     /\ nBlocksInFlight' = [nBlocksInFlight EXCEPT ![p] = @ + k]
     /\ mapBlocksInFlight' =
          [h \in Hashes |-> IF h \in moved THEN p ELSE mapBlocksInFlight[h]]
     /\ received' = IF k > 0
                    THEN [received EXCEPT ![p] = Now] ELSE received

\* MarkBlockAsInFlight for the first k of the queue; none of them is in flight
\* (ListsMatchMaps), so that its MarkBlockAsReceived takes them from the queue only.
RequestBlocks(p, k) ==
  LET s == vBlocksToDownload[p]
      moved == {s[i] : i \in 1 .. k}
  IN /\ vBlocksToDownload' = [vBlocksToDownload EXCEPT ![p] = SubSeq(s, k + 1, Len(s))]
     /\ nBlocksToDownload' = [nBlocksToDownload EXCEPT ![p] = @ - k]
     /\ mapBlocksToDownload' =
          [h \in Hashes |-> IF h \in moved THEN None ELSE mapBlocksToDownload[h]]
     /\ vBlocksInFlight' =
          [vBlocksInFlight EXCEPT ![p] =
             @ \o [i \in 1 .. k |-> [hash |-> s[i], age |-> 0, late |-> FALSE]]]
     /\ nBlocksInFlight' = [nBlocksInFlight EXCEPT ![p] = @ + k]
     /\ mapBlocksInFlight' =
          [h \in Hashes |-> IF h \in moved THEN p ELSE mapBlocksInFlight[h]]
     /\ received' = IF nBlocksInFlight[p] = 0 /\ k > 0
                    THEN [received EXCEPT ![p] = Now] ELSE received

SendMessages(p) ==
  /\ p \in mapNodeState
  /\ fShouldBan' = fShouldBan \ {p}
  /\ LET banned == p \in fShouldBan \ Local
         stalled == p \notin fDisconnect /\ ~banned /\ Stalls(p)
     IN /\ fDisconnect' = IF banned \/ stalled THEN fDisconnect \cup {p} ELSE fDisconnect
        /\ IF p \in fDisconnect' THEN UNCHANGED <<received, queueVars, flightVars>>
           ELSE RequestBlocks(p, Requests(p))
  /\ UNCHANGED <<unborn, mapNodeState, heard>>

\* nLastBlockReceive is read only while blocks are in flight.
Tick ==
  /\ heard' = {}
  /\ received' =
       [p \in Peers |-> IF nBlocksInFlight[p] = 0 THEN received[p]
                        ELSE [received[p] EXCEPT !.age = Older(@, ReceiveLimit)]]
  /\ vBlocksInFlight' =
       [p \in Peers |-> [i \in DOMAIN vBlocksInFlight[p] |->
          [vBlocksInFlight[p][i] EXCEPT !.age = Older(@, RequestLimit)]]]
  /\ UNCHANGED <<connVars, queueVars, nBlocksInFlight, mapBlocksInFlight>>

Next ==
  \/ \E p \in Peers : InitializeNode(p)
  \/ \E p \in Peers : SocketClosed(p)
  \/ \E p \in Peers : FinalizeNode(p)
  \/ \E p \in Peers : Skipped(p)
  \/ \E p \in Peers : OtherMessage(p)
  \/ \E p \in Peers : Misbehaving(p)
  \/ \E p \in Peers : \E h \in Knows[p] : Inv(p, h)
  \/ \E p \in Peers : \E h \in Knows[p] : Block(p, h)
  \/ \E p \in Peers : SendMessages(p)
  \/ Tick

Spec == Init /\ [][Next]_vars

\* A message of p has reached ProcessMessage.
Processed(p) == OtherMessage(p) \/ \E h \in Knows[p] : Inv(p, h) \/ Block(p, h)

\* A peer that owes a block sends something, if only bytes that are skipped, or
\* nothing for so long that ThreadSocketHandler disconnects it.
HeardOrClosed(p) ==
  vBlocksInFlight[p] # <<>> /\ (Skipped(p) \/ Processed(p) \/ SocketClosed(p))

\* Time passes, the message handler comes round to every peer, and the socket
\* handler deletes disconnected ones.
FairSpec ==
  /\ Spec
  /\ WF_vars(Tick)
  /\ \A p \in Peers : WF_vars(SendMessages(p)) /\ WF_vars(HeardOrClosed(p)) /\ WF_vars(FinalizeNode(p))

----------------------------------------------------------------------------
(***************************************************************************)
(* Properties.                                                             *)
(***************************************************************************)

Requested == [hash : Hashes, age : 0 .. RequestLimit + 1, late : BOOLEAN]

\* Every variable has a value of its type.
TypeOK ==
  /\ unborn \subseteq Peers /\ mapNodeState \subseteq Peers \ unborn
  /\ fDisconnect \subseteq mapNodeState /\ fShouldBan \subseteq mapNodeState
  /\ heard \subseteq Peers
  /\ received \in [Peers -> [age : 0 .. ReceiveLimit + 1, late : BOOLEAN]]
  /\ vBlocksToDownload \in [Peers -> Seq(Hashes)] /\ nBlocksToDownload \in [Peers -> Int]
  /\ vBlocksInFlight \in [Peers -> Seq(Requested)] /\ nBlocksInFlight \in [Peers -> Int]
  /\ mapBlocksToDownload \in [Hashes -> Peers \cup {None}]
  /\ mapBlocksInFlight \in [Hashes -> Peers \cup {None}]

\* The lists of the peers and the two maps agree: a map names, for a hash, the one
\* peer that has it in the list of that kind, once; no hash is in both; the counts
\* are the lengths; a peer that is gone is named nowhere, so that State() finds the
\* peer of every entry, and the iterators kept in the maps are valid.
ListsMatchMaps ==
  /\ \A p \in Peers :
       /\ nBlocksToDownload[p] = Len(vBlocksToDownload[p])
       /\ nBlocksInFlight[p] = Len(vBlocksInFlight[p])
       /\ \A i \in DOMAIN vBlocksToDownload[p] :
            mapBlocksToDownload[vBlocksToDownload[p][i]] = p
       /\ \A i \in DOMAIN vBlocksInFlight[p] :
            mapBlocksInFlight[vBlocksInFlight[p][i].hash] = p
       /\ \A i, j \in DOMAIN vBlocksToDownload[p] :
            vBlocksToDownload[p][i] = vBlocksToDownload[p][j] => i = j
       /\ \A i, j \in DOMAIN vBlocksInFlight[p] :
            vBlocksInFlight[p][i].hash = vBlocksInFlight[p][j].hash => i = j
  /\ \A h \in Hashes :
       /\ mapBlocksToDownload[h] # None =>
            /\ mapBlocksToDownload[h] \in mapNodeState
            /\ mapBlocksInFlight[h] = None
            /\ \E i \in DOMAIN vBlocksToDownload[mapBlocksToDownload[h]] :
                 vBlocksToDownload[mapBlocksToDownload[h]][i] = h
       /\ mapBlocksInFlight[h] # None =>
            /\ mapBlocksInFlight[h] \in mapNodeState
            /\ \E i \in DOMAIN vBlocksInFlight[mapBlocksInFlight[h]] :
                 vBlocksInFlight[mapBlocksInFlight[h]][i].hash = h

\* No peer is asked for more blocks at once than the limit.
WindowKept == \A p \in Peers : Len(vBlocksInFlight[p]) <= MAX_BLOCKS_IN_TRANSIT_PER_PEER

\* The front of vBlocksInFlight, which alone is looked at for stalling, is the
\* oldest request, and late if any is.
OldestFirst ==
  \A p \in Peers : \A i, j \in DOMAIN vBlocksInFlight[p] :
    i < j => /\ vBlocksInFlight[p][i].age >= vBlocksInFlight[p][j].age
             /\ (vBlocksInFlight[p][j].late => vBlocksInFlight[p][i].late)

OldestIs(p, h) == vBlocksInFlight[p] # <<>> /\ Head(vBlocksInFlight[p]).hash = h

Delivers(p) == \E h \in Hashes : mapBlocksInFlight[h] = p /\ Block(p, h)

\* Whatever p sends is skipped, from some time on: the one way to be neither heard
\* nor silent.
OnlySkipped(p) == <>[][~Processed(p)]_vars /\ []<><<Skipped(p)>>_vars

\* A peer cannot keep the request it has had longest for ever unless it goes on
\* delivering others: it is disconnected, whether it stays silent or keeps talking.
\* What it sends has to be processed for that: bytes that are skipped put off the
\* inactivity check and are not looked at by the stall check.
StallersGo ==
  \A p \in Peers : \A h \in Knows[p] :
    []<>~OldestIs(p, h) \/ []<><<Delivers(p)>>_vars \/ OnlySkipped(p)

\* A block that is queued at a peer does not stay queued there, even behind requests
\* that are never answered: it is requested, received from another peer, or free to
\* be announced by others when the peer goes; again unless the peer is only skipped.
QueueMoves ==
  \A p \in Peers : \A h \in Knows[p] :
    []<>(mapBlocksToDownload[h] # p) \/ OnlySkipped(p)
=============================================================================
