-------------------------- MODULE CheckQueueProofs --------------------------
(***************************************************************************)
(* CCheckQueue gives the right verdict, for any number of workers, checks  *)
(* and blocks, and any batch size.                                         *)
(***************************************************************************)
EXTENDS CheckQueue, FiniteSetTheorems, TLAPS

\* The invariant that carries the result: where every check is, that nTodo
\* counts them, and what the verdicts seen so far say about the rest.
Inv == TypeOK /\ BatchesApart /\ TodoExact /\ NothingLeftOver /\ VerdictsRight

LEMMA InPending ==
  \A x : x \in Pending <=> (x \in queue \/ \E t \in Threads : x \in vChecks[t])
  BY DEF Pending

LEMMA InPendingNext ==
  \A x : x \in Pending' <=> (x \in queue' \/ \E t \in Threads : x \in vChecks'[t])
  BY DEF Pending

\* All sets of checks are finite.
LEMMA FiniteChecks ==
  \A S \in SUBSET Checks : IsFiniteSet(S) /\ Cardinality(S) \in Nat
  BY CheckQueueAssumption, FS_Subset, FS_CardinalityType

LEMMA PendingFinite ==
  ASSUME TypeOK
  PROVE  Pending \in SUBSET Checks /\ IsFiniteSet(Pending)
<1>1. Pending \in SUBSET Checks
  BY DEF Pending, TypeOK
<1>. QED
  BY <1>1, FiniteChecks

LEMMA InitInv == Init => Inv
<1>. SUFFICES ASSUME Init PROVE Inv
  OBVIOUS
<1>. USE CheckQueueAssumption DEF Init
<1>1. TypeOK
  <2>1. \A t \in Threads : mutex # t
    OBVIOUS
  <2>2. /\ pc \in [Threads -> {"idle", "enter"}]
        /\ pc[Master] = "idle" /\ \A t \in Workers : pc[t] = "enter"
    BY DEF Threads
  <2>3. \A t \in Threads : pc[t] # "loop"
    BY <2>2
  <2>4. /\ queue \in SUBSET Checks /\ added \in SUBSET Checks
        /\ signalled \in SUBSET Threads /\ vChecks \in [Threads -> SUBSET Checks]
        /\ nNow \in [Threads -> Nat] /\ fOk \in [Threads -> BOOLEAN]
    OBVIOUS
  <2>5. pc \in [Threads -> Labels]
    BY <2>2 DEF Labels
  <2>6. /\ \A t \in Threads : (pc[t] = "loop") <=> (mutex = t)
        /\ \A t \in Workers : pc[t] \notin {"idle", "add"}
        /\ pc[Master] # "gone"
    BY <2>1, <2>2, <2>3
  <2>7. nIdle \in Int /\ nTotal \in Int /\ nTodo \in Int /\ blocks \in Nat
    OBVIOUS
  <2>8. /\ fAllOk \in BOOLEAN /\ result \in BOOLEAN /\ fShutdown \in BOOLEAN
        /\ caller \in Callers /\ ~Abandoned
    BY DEF Callers, Abandoned
  <2>9. mutex \in Threads \cup {None}
    OBVIOUS
  <2>. QED
    BY <2>4, <2>5, <2>6, <2>7, <2>8, <2>9 DEF TypeOK
<1>2. Pending = {}
  BY DEF Pending
<1>3. BatchesApart
  BY FS_EmptySet DEF BatchesApart, Threads
<1>4. TodoExact
  BY <1>2, FS_EmptySet DEF TodoExact
<1>5. NothingLeftOver /\ VerdictsRight
  BY <1>2 DEF NothingLeftOver, VerdictsRight, Settled, Threads
<1>. QED
  BY <1>1, <1>3, <1>4, <1>5 DEF Inv

----------------------------------------------------------------------------
\* Accounting for a batch takes exactly that batch out of the pending checks.
LEMMA EnterPending ==
  ASSUME Inv, NEW t \in Threads, Enter(t)
  PROVE  /\ Pending' = Pending \ vChecks[t]
         /\ Cardinality(Pending') = Cardinality(Pending) - Cardinality(vChecks[t])
         /\ nNow[t] = Cardinality(vChecks[t])
         /\ nNow[t] = 0 => vChecks[t] = {}
<1>. USE DEF Inv
<1>0. pc[t] = "enter" /\ queue' = queue /\ vChecks' = [vChecks EXCEPT ![t] = {}]
  BY DEF Enter, At
<1>1. vChecks \in [Threads -> SUBSET Checks]
  BY DEF TypeOK
<1>2. Pending' = Pending \ vChecks[t]
  <2>1. \A u \in Threads : vChecks'[u] = IF u = t THEN {} ELSE vChecks[u]
    BY <1>0, <1>1
  <2>2. queue \cap vChecks[t] = {}
    BY DEF BatchesApart
  <2>3. \A u \in Threads : u # t => vChecks[u] \cap vChecks[t] = {}
    BY DEF BatchesApart
  <2>4. ASSUME NEW x PROVE x \in Pending' <=> x \in Pending /\ x \notin vChecks[t]
    BY <1>0, <2>1, <2>2, <2>3, InPending, InPendingNext
  <2>. QED
    BY <2>4
<1>3. Pending \cap vChecks[t] = vChecks[t]
  BY InPending
<1>4. Cardinality(Pending') = Cardinality(Pending) - Cardinality(vChecks[t])
  <2>1. IsFiniteSet(Pending)
    BY PendingFinite
  <2>2. Cardinality(Pending \ vChecks[t]) =
          Cardinality(Pending) - Cardinality(Pending \cap vChecks[t])
    BY <2>1, FS_Difference
  <2>. QED
    BY <1>2, <1>3, <2>2
<1>5. nNow[t] = Cardinality(vChecks[t])
  BY <1>0 DEF BatchesApart
<1>6. nNow[t] = 0 => vChecks[t] = {}
  BY <1>1, <1>5, FiniteChecks, FS_EmptySet
<1>. QED
  BY <1>2, <1>4, <1>5, <1>6

LEMMA EnterInv ==
  ASSUME Inv, NEW t \in Threads, Enter(t)
  PROVE  Inv'
<1>. USE DEF Inv
<1>1. TypeOK'
  <2>1. mutex' = t /\ mutex = None /\ pc[t] = "enter" /\ pc' = [pc EXCEPT ![t] = "loop"]
    BY DEF Enter, At, Goto
  <2>2. signalled' \in SUBSET Threads
    BY DEF Enter, TypeOK, NotifyOne, Waiting, Threads
  <2>3. fAllOk' \in BOOLEAN /\ nTodo' \in Int /\ nTotal' \in Int
    BY DEF Enter, TypeOK
  <2>4. \A u \in Threads : (pc'[u] = "loop") <=> (mutex' = u)
    BY <2>1, CheckQueueAssumption DEF TypeOK
  <2>. QED
    BY <2>1, <2>2, <2>3, <2>4, CheckQueueAssumption
       DEF Enter, TypeOK, session, Labels, Threads, Abandoned
<1>2. /\ pc' = [pc EXCEPT ![t] = "loop"] /\ pc[t] = "enter"
      /\ vChecks' = [vChecks EXCEPT ![t] = {}]
      /\ UNCHANGED <<queue, nNow, fOk, added, caller>>
  BY DEF Enter, At, Goto, session
<1>3. BatchesApart'
  BY <1>2 DEF BatchesApart, TypeOK
<1>4. TodoExact'
  <2>1. CASE nNow[t] > 0
    BY <2>1, EnterPending DEF Enter, TodoExact
  <2>2. CASE ~(nNow[t] > 0)
    <3>1. nNow[t] = 0
      BY <2>2 DEF TypeOK
    <3>. QED
      BY <2>2, <3>1, EnterPending DEF Enter, TodoExact
  <2>. QED
    BY <2>1, <2>2
<1>5. NothingLeftOver'
  BY <1>2, EnterPending, CheckQueueAssumption
     DEF NothingLeftOver, TypeOK, Threads, Settled, Abandoned
<1>6. VerdictsRight'
  <2>0. Pending' = Pending \ vChecks[t] /\ (nNow[t] = 0 => vChecks[t] = {})
    BY EnterPending
  <2>1. Settled' <=> Settled
    BY <1>2 DEF TypeOK, Threads, Settled, Abandoned
  <2>2. CASE nNow[t] > 0
    <3>1. fAllOk' = (fAllOk /\ fOk[t])
      BY <2>2 DEF Enter
    <3>2. Settled => vChecks[t] = {}
      BY InPending DEF NothingLeftOver
    <3>3. ~Settled
      BY <1>2, <2>2, <3>2, FS_EmptySet DEF BatchesApart
    <3>4. fAllOk' => (added' \ Pending') \cap Fails = {}
      BY <1>2, <2>0, <2>2, <3>1, <3>3 DEF VerdictsRight
    <3>5. ~fAllOk' => added' \cap Fails # {}
      BY <1>2, <2>2, <3>1 DEF VerdictsRight
    <3>. QED
      BY <1>2, <2>1, <3>3, <3>4, <3>5 DEF VerdictsRight, TypeOK
  <2>3. CASE nNow[t] = 0
    <3>1. Pending' = Pending
      BY <2>0, <2>3
    <3>2. fAllOk' = fAllOk
      BY <2>3 DEF Enter
    <3>. QED
      BY <1>2, <2>1, <3>1, <3>2 DEF VerdictsRight, TypeOK
  <2>. QED
    BY <2>2, <2>3 DEF TypeOK
<1>. QED
  BY <1>1, <1>3, <1>4, <1>5, <1>6

----------------------------------------------------------------------------
\* Falling asleep, waking and dying asleep move no check and no verdict.
LEMMA AsleepInv ==
  ASSUME Inv, NEW t \in Threads, Wait(t) \/ Wake(t) \/ WorkerInterrupted(t)
  PROVE  Inv'
<1>. USE DEF Inv
<1>1. /\ UNCHANGED <<queue, fAllOk, nTodo, vChecks, nNow, fOk, added, caller>>
      /\ pc[t] \in {"loop", "wait"}
      /\ \E l \in {"loop", "wait", "gone"} : pc' = [pc EXCEPT ![t] = l]
  BY DEF Wait, Wake, WorkerInterrupted, At, Goto, members, session
<1>2. \A u \in Threads : \/ pc'[u] = pc[u]
                         \/ /\ pc[u] \in {"loop", "wait"}
                            /\ pc'[u] \in {"loop", "wait", "gone"}
  BY <1>1 DEF TypeOK
<1>3. Pending' = Pending
  BY <1>1 DEF Pending
<1>4. TypeOK'
  <2>1. CASE Wait(t)
    BY <2>1, CheckQueueAssumption
       DEF Wait, TypeOK, At, Goto, session, Labels, Threads, Abandoned
  <2>2. CASE Wake(t)
    BY <2>2, CheckQueueAssumption
       DEF Wake, TypeOK, At, Goto, session, Labels, Threads, Abandoned
  <2>3. CASE WorkerInterrupted(t)
    BY <2>3, CheckQueueAssumption
       DEF WorkerInterrupted, TypeOK, At, Goto, members, session, Labels, Threads, Abandoned
  <2>. QED
    BY <2>1, <2>2, <2>3
<1>5. BatchesApart'
  <2>1. \A u \in Threads : pc'[u] \notin {"work", "enter"} => vChecks[u] = {}
    BY <1>2 DEF BatchesApart
  <2>2. \A u \in Threads : pc'[u] \in {"work", "enter"} => pc'[u] = pc[u]
    BY <1>2
  <2>. QED
    BY <1>1, <2>1, <2>2 DEF BatchesApart
<1>6. TodoExact' /\ NothingLeftOver' /\ VerdictsRight'
  <2>1. pc'[Master] = "idle" <=> pc[Master] = "idle"
    BY <1>2 DEF Threads
  <2>2. \A u \in Threads : pc'[u] \in {"work", "enter"} => pc'[u] = pc[u]
    BY <1>2
  <2>. QED
    BY <1>1, <1>3, <2>1, <2>2 DEF TodoExact, NothingLeftOver, VerdictsRight, Settled, Abandoned
<1>. QED
  BY <1>4, <1>5, <1>6

\* A thread takes its batch out of the queue: the pending checks stay the same.
LEMMA TakeBatchInv ==
  ASSUME Inv, NEW t \in Threads, TakeBatch(t)
  PROVE  Inv'
<1>. USE DEF Inv
<1>1. PICK batch \in SUBSET queue :
        /\ Cardinality(batch) = BatchSize
        /\ vChecks' = [vChecks EXCEPT ![t] = batch]
        /\ queue' = queue \ batch
  BY DEF TakeBatch
<1>2. /\ pc[t] = "loop" /\ pc' = [pc EXCEPT ![t] = "work"]
      /\ nNow' = [nNow EXCEPT ![t] = BatchSize]
      /\ fOk' = [fOk EXCEPT ![t] = fAllOk]
      /\ mutex' = None
      /\ UNCHANGED <<nIdle, nTotal, fAllOk, nTodo, signalled, added, result, blocks,
                     caller, fShutdown>>
  BY DEF TakeBatch, At, Goto, session
<1>3. batch \in SUBSET Checks /\ vChecks[t] = {}
  BY <1>2 DEF TypeOK, BatchesApart
<1>4. BatchSize \in Nat /\ BatchSize > 0
  <2>1. Cardinality(batch) \in Nat
    BY <1>3, FiniteChecks
  <2>2. BatchSize \in Nat
    BY <1>1, <2>1
  <2>. QED
    BY <2>2 DEF BatchSize, AtLeast
<1>5. TypeOK'
  <2>1. queue' \in SUBSET Checks /\ vChecks' \in [Threads -> SUBSET Checks]
    BY <1>1, <1>3 DEF TypeOK
  <2>2. nNow' \in [Threads -> Nat]
    BY <1>2, <1>4 DEF TypeOK
  <2>3. fOk' \in [Threads -> BOOLEAN]
    BY <1>2 DEF TypeOK
  <2>4. /\ pc' \in [Threads -> Labels]
        /\ \A u \in Threads : (pc'[u] = "loop") <=> (mutex' = u)
        /\ \A u \in Workers : pc'[u] \notin {"idle", "add"}
        /\ pc'[Master] # "gone"
        /\ Abandoned' => pc'[Master] = "idle"
    BY <1>2, CheckQueueAssumption DEF TypeOK, Labels, Threads, Abandoned
  <2>. QED
    BY <1>2, <2>1, <2>2, <2>3, <2>4 DEF TypeOK
<1>6. Pending' = Pending
  <2>1. \A u \in Threads : vChecks'[u] = IF u = t THEN batch ELSE vChecks[u]
    BY <1>1 DEF TypeOK
  <2>2. ASSUME NEW x PROVE x \in Pending' <=> x \in Pending
    BY <1>1, <1>3, <2>1, InPending, InPendingNext
  <2>. QED
    BY <2>2
<1>7. BatchesApart'
  <2>1. \A u \in Threads : /\ vChecks'[u] = IF u = t THEN batch ELSE vChecks[u]
                           /\ pc'[u] = IF u = t THEN "work" ELSE pc[u]
                           /\ nNow'[u] = IF u = t THEN BatchSize ELSE nNow[u]
    BY <1>1, <1>2 DEF TypeOK
  <2>2. \A u \in Threads : queue \cap vChecks[u] = {}
    BY DEF BatchesApart
  <2>3. \A u \in Threads : queue' \cap vChecks'[u] = {}
    BY <1>1, <2>1, <2>2
  <2>4. \A u, v \in Threads : u # v => vChecks'[u] \cap vChecks'[v] = {}
    BY <1>1, <2>1, <2>2 DEF BatchesApart
  <2>5. \A u \in Threads : pc'[u] \notin {"work", "enter"} => vChecks'[u] = {}
    BY <2>1 DEF BatchesApart
  <2>6. \A u \in Threads : pc'[u] \in {"work", "enter"} => nNow'[u] = Cardinality(vChecks'[u])
    BY <1>1, <2>1 DEF BatchesApart
  <2>7. \A u \in Threads : pc'[u] = "work" => nNow'[u] > 0
    BY <1>4, <2>1 DEF BatchesApart
  <2>. QED
    BY <2>3, <2>4, <2>5, <2>6, <2>7 DEF BatchesApart
<1>8. TodoExact' /\ NothingLeftOver'
  <2>1. Settled' => Settled
    BY <1>2 DEF TypeOK, Threads, Settled, Abandoned
  <2>. QED
    BY <1>2, <1>6, <2>1 DEF TodoExact, NothingLeftOver
<1>9. VerdictsRight'
  <2>1. \A u \in Threads : /\ pc'[u] = IF u = t THEN "work" ELSE pc[u]
                           /\ u # t => /\ nNow'[u] = nNow[u]
                                      /\ fOk'[u] = fOk[u]
                                      /\ vChecks'[u] = vChecks[u]
                           /\ u = t => (fOk'[u] <=> fAllOk)
    BY <1>1, <1>2 DEF TypeOK
  <2>2. Settled' <=> Settled
    BY <1>2, <2>1 DEF Threads, Settled, Abandoned
  <2>. QED
    BY <1>2, <1>6, <2>1, <2>2 DEF VerdictsRight
<1>. QED
  BY <1>5, <1>7, <1>8, <1>9

\* Running a batch changes only the verdict of the thread that runs it.
LEMMA WorkInv ==
  ASSUME Inv, NEW t \in Threads, Work(t)
  PROVE  Inv'
<1>. USE DEF Inv
<1>1. /\ pc[t] = "work" /\ pc' = [pc EXCEPT ![t] = "enter"]
      /\ fOk' = [fOk EXCEPT ![t] = fOk[t] /\ vChecks[t] \cap Fails = {}]
      /\ UNCHANGED <<queue, nIdle, nTotal, fAllOk, nTodo, mutex, signalled, vChecks,
                     nNow, added, result, blocks, caller, fShutdown>>
  BY DEF Work, At, Goto, members, session
<1>2. \A u \in Threads : /\ pc'[u] = IF u = t THEN "enter" ELSE pc[u]
                         /\ u # t => fOk'[u] = fOk[u]
                         /\ u = t => (fOk'[u] <=> fOk[t] /\ vChecks[t] \cap Fails = {})
  BY <1>1 DEF TypeOK
<1>3. Pending' = Pending
  BY <1>1 DEF Pending
<1>4. TypeOK'
  <2>1. fOk' \in [Threads -> BOOLEAN]
    BY <1>1 DEF TypeOK
  <2>2. /\ pc' \in [Threads -> Labels]
        /\ \A u \in Threads : (pc'[u] = "loop") <=> (mutex' = u)
        /\ \A u \in Workers : pc'[u] \notin {"idle", "add"}
        /\ pc'[Master] # "gone"
        /\ Abandoned' => pc'[Master] = "idle"
    BY <1>1, <1>2 DEF TypeOK, Labels, Threads, Abandoned
  <2>. QED
    BY <1>1, <2>1, <2>2 DEF TypeOK
<1>5. BatchesApart'
  BY <1>1, <1>2 DEF BatchesApart
<1>6. TodoExact' /\ NothingLeftOver'
  BY <1>1, <1>2, <1>3 DEF TodoExact, NothingLeftOver, Threads, Settled, Abandoned
<1>7. VerdictsRight'
  <2>1. vChecks[t] \subseteq added
    BY InPending DEF NothingLeftOver
  <2>2. Settled' <=> Settled
    BY <1>1, <1>2 DEF Threads, Settled, Abandoned
  <2>3. ~fOk'[t] => added \cap Fails # {}
    BY <1>1, <1>2, <2>1 DEF VerdictsRight, BatchesApart
  <2>4. fOk'[t] => vChecks[t] \cap Fails = {}
    BY <1>2
  <2>. QED
    BY <1>1, <1>2, <1>3, <2>2, <2>3, <2>4 DEF VerdictsRight
<1>. QED
  BY <1>4, <1>5, <1>6, <1>7

\* When the master leaves nothing is pending, so fAllOk is the verdict.
LEMMA ReturnVerdict ==
  ASSUME Inv, NEW t \in Threads, Return(t)
  PROVE  Pending = {} /\ (fAllOk <=> added \cap Fails = {})
<1>. USE DEF Inv
<1>1. Cardinality(Pending) = 0
  BY DEF Return, TodoExact
<1>2. Pending = {}
  BY <1>1, PendingFinite, FS_EmptySet
<1>3. ~Settled
  BY DEF Return, At, Settled
<1>. QED
  BY <1>2, <1>3 DEF VerdictsRight, TypeOK

LEMMA ReturnInv ==
  ASSUME Inv, NEW t \in Threads, Return(t)
  PROVE  Inv'
<1>. USE DEF Inv
<1>1. /\ t = Master /\ pc[t] = "loop" /\ pc' = [pc EXCEPT ![t] = "idle"]
      /\ fAllOk' = TRUE /\ mutex' = None /\ nTotal' = nTotal - 1 /\ result' = fAllOk
      /\ UNCHANGED <<queue, nIdle, nTodo, signalled, vChecks, nNow, fOk, added, blocks,
                     caller, fShutdown>>
  BY DEF Return, At, Goto
<1>2. \A u \in Threads : pc'[u] = IF u = Master THEN "idle" ELSE pc[u]
  BY <1>1 DEF TypeOK
<1>3. Pending' = Pending /\ Pending = {}
  BY <1>1, ReturnVerdict DEF Pending
<1>4. TypeOK'
  <2>1. /\ pc' \in [Threads -> Labels]
        /\ \A u \in Threads : (pc'[u] = "loop") <=> (mutex' = u)
        /\ \A u \in Workers : pc'[u] \notin {"idle", "add"}
        /\ pc'[Master] # "gone"
        /\ Abandoned' => pc'[Master] = "idle"
    BY <1>1, <1>2, CheckQueueAssumption DEF TypeOK, Labels, Threads, Abandoned
  <2>. QED
    BY <1>1, <2>1 DEF TypeOK
<1>5. BatchesApart'
  BY <1>1, <1>2 DEF BatchesApart
<1>6. TodoExact' /\ NothingLeftOver'
  BY <1>1, <1>3 DEF TodoExact, NothingLeftOver
<1>7. VerdictsRight'
  BY <1>1, <1>2, <1>3 DEF VerdictsRight, Threads, Settled, Abandoned, TypeOK
<1>. QED
  BY <1>4, <1>5, <1>6, <1>7

\* A new control starts from nothing pending.
LEMMA MakeControlInv == Inv /\ MakeControl => Inv'
<1>. SUFFICES ASSUME Inv, MakeControl PROVE Inv'
  OBVIOUS
<1>. USE DEF Inv
<1>1. /\ pc[Master] = "idle" /\ pc' = [pc EXCEPT ![Master] = "add"]
      /\ added' = {} /\ blocks' = blocks + 1 /\ caller' = "none"
      /\ nTodo = 0 /\ fAllOk
      /\ UNCHANGED <<queue, nIdle, nTotal, fAllOk, nTodo, mutex, signalled, vChecks,
                     nNow, fOk, result, fShutdown>>
  BY DEF MakeControl, At, Goto, members
<1>2. \A u \in Threads : pc'[u] = IF u = Master THEN "add" ELSE pc[u]
  BY <1>1 DEF TypeOK
<1>3. Pending' = Pending /\ Pending = {}
  <2>1. Cardinality(Pending) = 0
    BY <1>1 DEF TodoExact
  <2>. QED
    BY <1>1, <2>1, PendingFinite, FS_EmptySet DEF Pending
<1>4. TypeOK'
  <2>1. /\ pc' \in [Threads -> Labels]
        /\ \A u \in Threads : (pc'[u] = "loop") <=> (mutex' = u)
        /\ \A u \in Workers : pc'[u] \notin {"idle", "add"}
        /\ pc'[Master] # "gone"
        /\ Abandoned' => pc'[Master] = "idle"
    BY <1>1, <1>2, CheckQueueAssumption DEF TypeOK, Labels, Threads, Abandoned
  <2>. QED
    BY <1>1, <2>1 DEF TypeOK, Callers
<1>5. BatchesApart'
  BY <1>1, <1>2 DEF BatchesApart
<1>6. TodoExact' /\ NothingLeftOver'
  BY <1>1, <1>2, <1>3 DEF TodoExact, NothingLeftOver, Threads, Settled
<1>7. VerdictsRight'
  <2>1. \A u \in Threads : vChecks[u] = {}
    BY <1>3, InPending DEF TypeOK
  <2>2. \A u \in Threads : pc[u] \in {"work", "enter"} => ~(nNow[u] > 0)
    <3>1. Cardinality({}) = 0
      BY FS_EmptySet
    <3>. QED
      BY <2>1, <3>1 DEF BatchesApart
  <2>3. \A u \in Threads : pc'[u] \in {"work", "enter"} => ~(nNow'[u] > 0)
    BY <1>1, <1>2, <2>2
  <2>. QED
    BY <1>1, <1>2, <1>3, <2>3 DEF VerdictsRight, Threads, Settled
<1>. QED
  BY <1>4, <1>5, <1>6, <1>7

\* Added checks are new, so they are pending and counted once.
LEMMA AddInv == Inv /\ Add => Inv'
<1>. SUFFICES ASSUME Inv, Add PROVE Inv'
  OBVIOUS
<1>. USE DEF Inv
<1>1. PICK batch \in SUBSET (Checks \ added) :
        /\ queue' = queue \cup batch
        /\ added' = added \cup batch
        /\ nTodo' = nTodo + Cardinality(batch)
        /\ signalled' \in SUBSET Threads
  BY DEF Add, NotifyOne, NotifyAll, Waiting, TypeOK, Threads
<1>2. /\ pc[Master] = "add"
      /\ UNCHANGED <<nIdle, nTotal, fAllOk, mutex, pc, vChecks, nNow, fOk, result, blocks,
                     caller, fShutdown>>
  BY DEF Add, At, locals
<1>3. Pending \cap batch = {}
  BY DEF NothingLeftOver
<1>4. Pending' = Pending \cup batch
  <2>1. ASSUME NEW x PROVE x \in Pending' <=> x \in Pending \/ x \in batch
    BY <1>1, <1>2, InPending, InPendingNext
  <2>. QED
    BY <2>1
<1>5. Cardinality(Pending') = Cardinality(Pending) + Cardinality(batch)
  <2>1. IsFiniteSet(Pending) /\ IsFiniteSet(batch)
    BY PendingFinite, FiniteChecks
  <2>2. Cardinality(Pending \cup batch) =
          Cardinality(Pending) + Cardinality(batch) - Cardinality(Pending \cap batch)
    BY <2>1, FS_Union
  <2>3. Cardinality(Pending) \in Nat /\ Cardinality(batch) \in Nat
    BY <2>1, FS_CardinalityType
  <2>4. Cardinality(Pending \cap batch) = 0
    BY <1>3, FS_EmptySet
  <2>. QED
    BY <1>4, <2>2, <2>3, <2>4
<1>6. TypeOK'
  <2>1. nTodo' \in Int
    <3>1. Cardinality(batch) \in Nat
      BY FiniteChecks
    <3>. QED
      BY <1>1, <3>1 DEF TypeOK
  <2>2. queue' \in SUBSET Checks /\ added' \in SUBSET Checks
    BY <1>1 DEF TypeOK
  <2>. QED
    BY <1>1, <1>2, <2>1, <2>2 DEF TypeOK, Abandoned
<1>7. BatchesApart'
  <2>1. \A u \in Threads : vChecks[u] \cap batch = {}
    BY <1>3, InPending
  <2>. QED
    BY <1>1, <1>2, <2>1 DEF BatchesApart
<1>8. TodoExact'
  BY <1>1, <1>5 DEF TodoExact
<1>9. NothingLeftOver'
  BY <1>1, <1>2, <1>4 DEF NothingLeftOver, Settled, Abandoned
<1>10. VerdictsRight'
  <2>1. added' \ Pending' = added \ Pending
    BY <1>1, <1>4, <1>3
  <2>2. added \cap Fails # {} => added' \cap Fails # {}
    BY <1>1
  <2>. QED
    BY <1>2, <2>1, <2>2 DEF VerdictsRight, Settled, Abandoned
<1>. QED
  BY <1>6, <1>7, <1>8, <1>9, <1>10

LEMMA CallWaitInv == Inv /\ CallWait => Inv'
<1>. SUFFICES ASSUME Inv, CallWait PROVE Inv'
  OBVIOUS
<1>. USE DEF Inv
<1>1. /\ pc[Master] = "add" /\ pc' = [pc EXCEPT ![Master] = "enter"]
      /\ nNow' = [nNow EXCEPT ![Master] = 0]
      /\ fOk' = [fOk EXCEPT ![Master] = TRUE]
      /\ UNCHANGED <<queue, nIdle, nTotal, fAllOk, nTodo, mutex, signalled, vChecks,
                     added, result, blocks, fShutdown>>
      /\ caller' \in {"ConnectBlock", "destructor"}
  BY DEF CallWait, At, Goto, members
<1>2. \A u \in Threads : /\ pc'[u] = IF u = Master THEN "enter" ELSE pc[u]
                         /\ nNow'[u] = IF u = Master THEN 0 ELSE nNow[u]
                         /\ u # Master => fOk'[u] = fOk[u]
  BY <1>1 DEF TypeOK
<1>3. Pending' = Pending /\ vChecks[Master] = {}
  BY <1>1 DEF Pending, BatchesApart, Threads
<1>4. TypeOK'
  <2>1. /\ pc' \in [Threads -> Labels]
        /\ \A u \in Threads : (pc'[u] = "loop") <=> (mutex' = u)
        /\ \A u \in Workers : pc'[u] \notin {"idle", "add"}
        /\ pc'[Master] # "gone"
        /\ Abandoned' => pc'[Master] = "idle"
    BY <1>1, <1>2, CheckQueueAssumption DEF TypeOK, Labels, Threads, Abandoned
  <2>2. nNow' \in [Threads -> Nat] /\ fOk' \in [Threads -> BOOLEAN]
    BY <1>1 DEF TypeOK
  <2>. QED
    BY <1>1, <2>1, <2>2 DEF TypeOK, Callers
<1>5. BatchesApart'
  <2>1. Cardinality({}) = 0
    BY FS_EmptySet
  <2>2. nNow'[Master] = 0 /\ vChecks'[Master] = {}
    BY <1>1, <1>2, <1>3 DEF Threads
  <2>3. \A u \in Threads :
          /\ pc'[u] \notin {"work", "enter"} => vChecks'[u] = {}
          /\ pc'[u] \in {"work", "enter"} => nNow'[u] = Cardinality(vChecks'[u])
          /\ pc'[u] = "work" => nNow'[u] > 0
    <3>1. ASSUME NEW u \in Threads, u # Master
          PROVE  pc'[u] = pc[u] /\ nNow'[u] = nNow[u] /\ vChecks'[u] = vChecks[u]
      BY <1>1, <1>2, <3>1
    <3>2. pc'[Master] = "enter" /\ nNow'[Master] = Cardinality(vChecks'[Master])
      BY <1>2, <2>1, <2>2 DEF Threads
    <3>. QED
      BY <3>1, <3>2 DEF BatchesApart
  <2>. QED
    BY <1>1, <2>3 DEF BatchesApart
<1>6. TodoExact' /\ NothingLeftOver'
  BY <1>1, <1>2, <1>3 DEF TodoExact, NothingLeftOver, Threads, Settled
<1>7. VerdictsRight'
  <2>1. pc'[Master] # "idle" /\ pc[Master] # "idle"
    BY <1>1, <1>2 DEF Threads
  <2>2. \A u \in Threads :
          /\ pc'[u] \in {"work", "enter"} /\ nNow'[u] > 0 /\ ~fOk'[u] => added \cap Fails # {}
          /\ pc'[u] = "enter" /\ nNow'[u] > 0 /\ fOk'[u] => vChecks[u] \cap Fails = {}
    <3>1. ASSUME NEW u \in Threads, u # Master
          PROVE  pc'[u] = pc[u] /\ nNow'[u] = nNow[u] /\ fOk'[u] = fOk[u]
      BY <1>2, <3>1
    <3>2. ~(nNow'[Master] > 0)
      BY <1>2 DEF Threads
    <3>. QED
      BY <3>1, <3>2 DEF VerdictsRight
  <2>. QED
    BY <1>1, <1>3, <2>1, <2>2 DEF VerdictsRight, Settled
<1>. QED
  BY <1>4, <1>5, <1>6, <1>7

\* An interruption takes the master out of its sleep: it holds no batch, and it
\* waits again or leaves the control unfinished.
LEMMA MasterInterruptedInv == Inv /\ MasterInterrupted => Inv'
<1>. SUFFICES ASSUME Inv, MasterInterrupted PROVE Inv'
  OBVIOUS
<1>. USE DEF Inv
<1>1. /\ pc[Master] = "wait" /\ mutex = None
      /\ signalled' = signalled \ {Master}
      /\ UNCHANGED <<queue, nIdle, nTotal, fAllOk, nTodo, mutex, vChecks, added, result,
                     blocks, fShutdown>>
      /\ \/ /\ caller' = "unwinding" /\ pc' = [pc EXCEPT ![Master] = "enter"]
            /\ nNow' = [nNow EXCEPT ![Master] = 0]
            /\ fOk' = [fOk EXCEPT ![Master] = TRUE]
         \/ /\ caller' = "interrupted" /\ pc' = [pc EXCEPT ![Master] = "idle"]
            /\ nNow' = nNow /\ fOk' = fOk
  BY DEF MasterInterrupted, At, Goto, members
<1>2. /\ Master \in Threads /\ pc'[Master] \in {"enter", "idle"}
      /\ \A u \in Threads : u # Master => /\ pc'[u] = pc[u] /\ nNow'[u] = nNow[u]
                                         /\ fOk'[u] = fOk[u]
  BY <1>1 DEF TypeOK, Threads
<1>3. /\ pc'[Master] = "enter" => nNow'[Master] = 0
      /\ pc'[Master] = "idle" => Abandoned'
      /\ Abandoned' => pc'[Master] = "idle"
  BY <1>1, <1>2 DEF TypeOK, Abandoned
<1>4. Pending' = Pending /\ vChecks[Master] = {} /\ ~Settled /\ ~Settled'
  BY <1>1, <1>2, <1>3 DEF Pending, BatchesApart, Settled
<1>5. TypeOK'
  <2>0. /\ pc \in [Threads -> Labels] /\ signalled \in SUBSET Threads
        /\ nNow \in [Threads -> Nat] /\ fOk \in [Threads -> BOOLEAN]
    BY DEF TypeOK
  <2>a. pc' \in [Threads -> Labels]
    BY <1>1, <2>0 DEF Labels
  <2>b. nNow' \in [Threads -> Nat] /\ fOk' \in [Threads -> BOOLEAN]
    <3>1. CASE nNow' = nNow /\ fOk' = fOk
      BY <2>0, <3>1
    <3>2. CASE /\ nNow' = [nNow EXCEPT ![Master] = 0]
               /\ fOk' = [fOk EXCEPT ![Master] = TRUE]
      BY <2>0, <3>2
    <3>. QED
      BY <1>1, <3>1, <3>2, Zenon
  <2>c. signalled' \in SUBSET Threads /\ caller' \in Callers
    BY <1>1, <2>0 DEF Callers
  <2>1. /\ pc' \in [Threads -> Labels]
        /\ nNow' \in [Threads -> Nat] /\ fOk' \in [Threads -> BOOLEAN]
        /\ signalled' \in SUBSET Threads /\ caller' \in Callers
    BY <2>a, <2>b, <2>c
  <2>2. /\ \A u \in Threads : (pc'[u] = "loop") <=> (mutex' = u)
        /\ \A u \in Workers : pc'[u] \notin {"idle", "add"}
    BY <1>1, <1>2, CheckQueueAssumption DEF TypeOK, Threads
  <2>. QED
    BY <1>1, <1>2, <1>3, <2>1, <2>2 DEF TypeOK
<1>6. BatchesApart'
  <2>1. Cardinality({}) = 0
    BY FS_EmptySet
  <2>. QED
    BY <1>1, <1>2, <1>3, <1>4, <2>1 DEF BatchesApart
<1>7. TodoExact' /\ NothingLeftOver' /\ VerdictsRight'
  BY <1>1, <1>2, <1>3, <1>4 DEF TodoExact, NothingLeftOver, VerdictsRight
<1>. QED
  BY <1>5, <1>6, <1>7

LEMMA StutterInv == Inv /\ (Shutdown \/ UNCHANGED vars) => Inv'
<1>. SUFFICES ASSUME Inv, Shutdown \/ UNCHANGED vars PROVE Inv'
  OBVIOUS
<1>1. /\ UNCHANGED <<queue, nIdle, nTotal, fAllOk, nTodo, mutex, signalled, pc, vChecks,
                     nNow, fOk, added, result, blocks, caller>>
      /\ fShutdown' \in BOOLEAN
  BY DEF Shutdown, vars, members, locals, session, Inv, TypeOK
<1>. QED
  BY <1>1 DEF Inv, TypeOK, BatchesApart, TodoExact, NothingLeftOver, VerdictsRight, Pending,
               Settled, Abandoned

LEMMA NextInv == Inv /\ [Next]_vars => Inv'
<1>. SUFFICES ASSUME Inv, [Next]_vars PROVE Inv'
  OBVIOUS
<1>1. ASSUME NEW t \in Threads, Step(t) \/ Wake(t) \/ WorkerInterrupted(t) PROVE Inv'
  BY <1>1, EnterInv, ReturnInv, AsleepInv, TakeBatchInv, WorkInv DEF Step
<1>. QED
  BY <1>1, MakeControlInv, AddInv, CallWaitInv, MasterInterruptedInv, StutterInv DEF Next

----------------------------------------------------------------------------
\* The inductive invariant holds in every reachable state.
THEOREM Invariant == Spec => []Inv
  BY InitInv, NextInv, PTL DEF Spec

\* Types and mutual exclusion: the mutex is held by the thread inside the block.
THEOREM TypeCorrect == Spec => []TypeOK
<1>1. Inv => TypeOK
  BY DEF Inv
<1>. QED
  BY <1>1, Invariant, PTL

\* Batches are disjoint, nTodo counts exactly the checks that have not completed,
\* and none of them survives the block it was added for.
THEOREM NoCheckLost == Spec => []ChecksAccounted
<1>1. Inv => ChecksAccounted
  BY DEF Inv, ChecksAccounted
<1>. QED
  BY <1>1, Invariant, PTL

\* fAllOk and the verdicts the threads carry are right in every state.
THEOREM VerdictsAlwaysRight == Spec => []VerdictsRight
<1>1. Inv => VerdictsRight
  BY DEF Inv
<1>. QED
  BY <1>1, Invariant, PTL

\* Wait answers for a block exactly whether all its checks succeed.
THEOREM Implementation == Spec => ImplementsCheckAll
<1>. USE DEF All!vars, All!Next, All!Open, All!Add, All!Answer, All!Abandon
<1>1. Init => All!Init
  BY CheckQueueAssumption DEF Init, All!Init, Threads
<1>2. Inv /\ [Next]_vars => [All!Next]_All!vars
  <2>. SUFFICES ASSUME Inv, Next PROVE All!Next \/ UNCHANGED All!vars
    BY DEF vars, locals, session
  <2>0. TypeOK /\ Master \in Threads
    BY DEF Inv, Threads
  <2>1. ASSUME NEW t \in Threads,
               Enter(t) \/ Wait(t) \/ TakeBatch(t) \/ Work(t) \/ Wake(t) \/ WorkerInterrupted(t)
        PROVE  UNCHANGED All!vars
    <3>1. UNCHANGED <<added, result>>
      BY <2>1 DEF Enter, Wait, TakeBatch, Work, Wake, WorkerInterrupted, session
    <3>2. pc[t] # "idle" /\ \E l \in Labels \ {"idle"} : pc' = [pc EXCEPT ![t] = l]
      BY <2>1 DEF Enter, Wait, TakeBatch, Work, Wake, WorkerInterrupted, At, Goto, Labels
    <3>3. (pc'[Master] # "idle") <=> (pc[Master] # "idle")
      BY <2>0, <3>2 DEF TypeOK
    <3>. QED
      BY <3>1, <3>3
  <2>2. ASSUME NEW t \in Threads, Return(t) PROVE All!Answer
    <3>1. /\ t = Master /\ pc[t] = "loop" /\ pc' = [pc EXCEPT ![t] = "idle"]
          /\ result' = fAllOk /\ added' = added
      BY <2>2 DEF Return, At, Goto
    <3>2. fAllOk <=> added \cap Fails = {}
      BY <2>2, ReturnVerdict
    <3>3. fAllOk \in BOOLEAN
      BY <2>0 DEF TypeOK
    <3>4. result' = (added \cap Fails = {})
      BY <3>1, <3>2, <3>3
    <3>. QED
      BY <2>0, <3>1, <3>4 DEF TypeOK
  <2>3. CASE MakeControl
    BY <2>0, <2>3 DEF MakeControl, At, Goto, TypeOK
  <2>4. CASE Add
    <3>1. /\ pc[Master] = "add" /\ pc' = pc /\ result' = result
          /\ \E batch \in SUBSET (Checks \ added) : added' = added \cup batch
      BY <2>4 DEF Add, At, locals
    <3>2. added' \in SUBSET Checks /\ added \subseteq added'
      BY <2>0, <3>1 DEF TypeOK
    <3>. QED
      BY <3>1, <3>2
  <2>5. CASE CallWait
    BY <2>0, <2>5 DEF CallWait, At, Goto, session, TypeOK
  <2>6. CASE Shutdown
    BY <2>6 DEF Shutdown, locals, session
  <2>7. CASE MasterInterrupted
    <3>1. /\ pc[Master] = "wait" /\ UNCHANGED <<added, result>>
          /\ \E l \in {"enter", "idle"} : pc' = [pc EXCEPT ![Master] = l]
      BY <2>7 DEF MasterInterrupted, At, Goto
    <3>. QED
      BY <2>0, <3>1 DEF TypeOK
  <2>. QED
    BY <2>1, <2>2, <2>3, <2>4, <2>5, <2>6, <2>7 DEF Next, Step
<1>. QED
  BY <1>1, <1>2, Invariant, PTL DEF Spec, ImplementsCheckAll, All!Spec

----------------------------------------------------------------------------
(***************************************************************************)
(* nTotal and nIdle                                                        *)
(***************************************************************************)

\* A thread is in the pool; a thread is asleep.
IsJoined(t) == pc[t] \in {"loop", "wait", "work", "gone"} \/ (pc[t] = "enter" /\ nNow[t] > 0)
IsAsleep(t) == pc[t] \in {"wait", "gone"}

LEMMA ThreadsFinite == \A S \in SUBSET Threads : IsFiniteSet(S) /\ Cardinality(S) \in Nat
<1>1. IsFiniteSet(Threads)
  BY WorkersAssumption, FS_AddElement DEF Threads
<1>. QED
  BY <1>1, FS_Subset, FS_CardinalityType

\* A set of threads that changes at one thread changes its size accordingly.
LEMMA SizeAtOne ==
  ASSUME NEW t \in Threads, NEW S \in SUBSET Threads, NEW R \in SUBSET Threads,
         S \ {t} = R \ {t}
  PROVE  /\ (t \in S <=> t \in R) => Cardinality(R) = Cardinality(S)
         /\ t \notin S /\ t \in R => Cardinality(R) = Cardinality(S) + 1
         /\ t \in S /\ t \notin R => Cardinality(R) = Cardinality(S) - 1
<1>1. /\ Cardinality(S \ {t}) = IF t \in S THEN Cardinality(S) - 1 ELSE Cardinality(S)
      /\ Cardinality(R \ {t}) = IF t \in R THEN Cardinality(R) - 1 ELSE Cardinality(R)
  BY ThreadsFinite, FS_RemoveElement
<1>2. Cardinality(S) \in Nat /\ Cardinality(R) \in Nat
  BY ThreadsFinite
<1>. QED
  BY <1>1, <1>2

\* The counts, and that a control that may still be interrupted has not added
\* its ghost.
MayBeInterrupted ==
  pc[Master] = "add" \/ (pc[Master] # "idle" /\ caller # "unwinding")
CountsInv == CountsExact /\ (MayBeInterrupted => Ghosts < blocks)

\* What a step of one thread does to the counts: it adds g ghosts.
LEMMA CountsAtOne ==
  ASSUME nTotal = Cardinality(Joined) + Ghosts, nTotal \in Int, nIdle \in Int,
         NEW t \in Threads, NEW g \in {0, 1},
         \A u \in Threads \ {t} : pc'[u] = pc[u] /\ nNow'[u] = nNow[u],
         nTotal' = nTotal + (IF IsJoined(t)' THEN 1 ELSE 0) - (IF IsJoined(t) THEN 1 ELSE 0) + g,
         nIdle' = nIdle + (IF IsAsleep(t)' THEN 1 ELSE 0) - (IF IsAsleep(t) THEN 1 ELSE 0) + g
  PROVE  Ghosts' = Ghosts + g /\ nTotal' = Cardinality(Joined') + Ghosts'
<1>1. /\ Joined \in SUBSET Threads /\ Joined' \in SUBSET Threads
      /\ Asleep \in SUBSET Threads /\ Asleep' \in SUBSET Threads
  BY DEF Joined, Asleep
<1>2. /\ Joined \ {t} = Joined' \ {t} /\ Asleep \ {t} = Asleep' \ {t}
      /\ t \in Joined <=> IsJoined(t)
      /\ t \in Joined' <=> IsJoined(t)'
      /\ t \in Asleep <=> IsAsleep(t)
      /\ t \in Asleep' <=> IsAsleep(t)'
  BY DEF Joined, Asleep, IsJoined, IsAsleep
<1>3. /\ Cardinality(Joined) \in Nat /\ Cardinality(Asleep) \in Nat
      /\ Cardinality(Joined') \in Nat /\ Cardinality(Asleep') \in Nat
  BY <1>1, ThreadsFinite
<1>4. Cardinality(Joined') = Cardinality(Joined)
        + (IF IsJoined(t)' THEN 1 ELSE 0) - (IF IsJoined(t) THEN 1 ELSE 0)
  BY <1>1, <1>2, <1>3, SizeAtOne
<1>5. Cardinality(Asleep') = Cardinality(Asleep)
        + (IF IsAsleep(t)' THEN 1 ELSE 0) - (IF IsAsleep(t) THEN 1 ELSE 0)
  BY <1>1, <1>2, <1>3, SizeAtOne
<1>6. Ghosts' = Ghosts + g
  BY <1>3, <1>5 DEF Ghosts
<1>7. Ghosts \in Int
  BY <1>3 DEF Ghosts
<1>. QED
  BY <1>3, <1>4, <1>6, <1>7

\* A step without a ghost, in which the master neither opens nor closes a control.
LEMMA CountsKept ==
  ASSUME CountsInv, Ghosts' = Ghosts, nTotal' = Cardinality(Joined') + Ghosts',
         blocks' = blocks, MayBeInterrupted' => MayBeInterrupted
  PROVE  CountsInv'
  BY DEF CountsInv, CountsExact

LEMMA ThreadCounts ==
  ASSUME Inv, CountsInv, NEW t \in Threads, Step(t) \/ Wake(t) \/ WorkerInterrupted(t)
  PROVE  CountsInv'
<1>. USE DEF At, Goto, members, session, IsJoined, IsAsleep
<1>0. /\ pc \in [Threads -> Labels] /\ nNow \in [Threads -> Nat]
      /\ nTotal \in Int /\ nIdle \in Int
      /\ nTotal = Cardinality(Joined) + Ghosts
  BY DEF Inv, TypeOK, CountsInv, CountsExact
<1>a. /\ blocks' = blocks /\ caller' = caller
      /\ pc[t] # "idle" /\ \E l \in Labels \ {"add"} : pc' = [pc EXCEPT ![t] = l]
  BY DEF Step, Enter, Return, Wait, TakeBatch, Work, Wake, WorkerInterrupted, Labels
<1>b. MayBeInterrupted' => MayBeInterrupted
  BY <1>0, <1>a DEF MayBeInterrupted
<1>1. ASSUME NEW n \in {-1, 0, 1}, NEW i \in {-1, 0, 1},
             nTotal' = nTotal + n, nIdle' = nIdle + i,
             \A u \in Threads \ {t} : pc'[u] = pc[u] /\ nNow'[u] = nNow[u],
             n = (IF IsJoined(t)' THEN 1 ELSE 0) - (IF IsJoined(t) THEN 1 ELSE 0),
             i = (IF IsAsleep(t)' THEN 1 ELSE 0) - (IF IsAsleep(t) THEN 1 ELSE 0)
      PROVE  CountsInv'
  <2>1. /\ nTotal' = nTotal + (IF IsJoined(t)' THEN 1 ELSE 0) - (IF IsJoined(t) THEN 1 ELSE 0) + 0
        /\ nIdle' = nIdle + (IF IsAsleep(t)' THEN 1 ELSE 0) - (IF IsAsleep(t) THEN 1 ELSE 0) + 0
    BY <1>0, <1>1
  <2>2. Ghosts' = Ghosts + 0 /\ nTotal' = Cardinality(Joined') + Ghosts'
    <3>. HIDE DEF IsJoined, IsAsleep
    <3>. QED
      BY <1>0, <1>1, <2>1, CountsAtOne
  <2>3. Ghosts \in Int
    BY DEF CountsInv, CountsExact
  <2>. QED
    BY <1>a, <1>b, <2>2, <2>3, CountsKept
<1>2. CASE Enter(t)
  <2>1. /\ pc[t] = "enter" /\ pc' = [pc EXCEPT ![t] = "loop"]
        /\ nNow' = nNow /\ nIdle' = nIdle + 0
        /\ nTotal' = nTotal + IF nNow[t] > 0 THEN 0 ELSE 1
    BY <1>0, <1>2 DEF Enter
  <2>. QED
    BY <1>0, <2>1, <1>1
<1>3. CASE Return(t)
  <2>1. /\ pc[t] = "loop" /\ pc' = [pc EXCEPT ![t] = "idle"]
        /\ nNow' = nNow /\ nIdle' = nIdle + 0 /\ nTotal' = nTotal + (-1)
    BY <1>0, <1>3 DEF Return
  <2>. QED
    BY <1>0, <2>1, <1>1
<1>4. CASE Wait(t)
  <2>1. /\ pc[t] = "loop" /\ pc' = [pc EXCEPT ![t] = "wait"]
        /\ nNow' = nNow /\ nIdle' = nIdle + 1 /\ nTotal' = nTotal + 0
    BY <1>0, <1>4 DEF Wait
  <2>. QED
    BY <1>0, <2>1, <1>1
<1>5. CASE TakeBatch(t)
  <2>1. /\ pc[t] = "loop" /\ pc' = [pc EXCEPT ![t] = "work"]
        /\ nNow' = [nNow EXCEPT ![t] = BatchSize]
        /\ nIdle' = nIdle + 0 /\ nTotal' = nTotal + 0
    BY <1>0, <1>5 DEF TakeBatch
  <2>. QED
    BY <1>0, <2>1, <1>1
<1>6. CASE Work(t)
  <2>1. /\ pc[t] = "work" /\ pc' = [pc EXCEPT ![t] = "enter"]
        /\ nNow' = nNow /\ nIdle' = nIdle + 0 /\ nTotal' = nTotal + 0
    BY <1>0, <1>6 DEF Work
  <2>2. nNow[t] > 0
    BY <2>1 DEF Inv, BatchesApart
  <2>. QED
    BY <1>0, <2>1, <2>2, <1>1
<1>7. CASE Wake(t)
  <2>1. /\ pc[t] = "wait" /\ pc' = [pc EXCEPT ![t] = "loop"]
        /\ nNow' = nNow /\ nIdle' = nIdle + (-1) /\ nTotal' = nTotal + 0
    BY <1>0, <1>7 DEF Wake
  <2>. QED
    BY <1>0, <2>1, <1>1
<1>8. CASE WorkerInterrupted(t)
  <2>1. /\ pc[t] = "wait" /\ pc' = [pc EXCEPT ![t] = "gone"]
        /\ nNow' = nNow /\ nIdle' = nIdle + 0 /\ nTotal' = nTotal + 0
    BY <1>0, <1>8 DEF WorkerInterrupted
  <2>. QED
    BY <1>0, <2>1, <1>1
<1>. QED
  BY <1>2, <1>3, <1>4, <1>5, <1>6, <1>7, <1>8 DEF Step

LEMMA MasterCounts ==
  ASSUME Inv, CountsInv,
         MakeControl \/ Add \/ CallWait \/ MasterInterrupted \/ Shutdown \/ UNCHANGED vars
  PROVE  CountsInv'
<1>1. /\ pc \in [Threads -> Labels] /\ nNow \in [Threads -> Nat] /\ Master \in Threads
      /\ nTotal = Cardinality(Joined) + Ghosts
      /\ Ghosts \in 0..blocks /\ blocks \in Nat
      /\ MayBeInterrupted => Ghosts < blocks
  BY DEF Inv, TypeOK, Threads, CountsInv, CountsExact
<1>2. nTotal \in Int /\ nIdle \in Int /\ nTotal' = nTotal /\ nIdle' = nIdle
  BY DEF Inv, TypeOK, MakeControl, Add, CallWait, MasterInterrupted, Shutdown, vars, members
<1>3. CASE MakeControl
  <2>1. /\ pc[Master] = "idle" /\ pc' = [pc EXCEPT ![Master] = "add"] /\ nNow' = nNow
        /\ blocks' = blocks + 1
    BY <1>3 DEF MakeControl, At, Goto
  <2>2. Ghosts' = Ghosts + 0 /\ nTotal' = Cardinality(Joined') + Ghosts'
    BY <1>1, <1>2, <2>1, CountsAtOne DEF IsJoined, IsAsleep
  <2>. QED
    BY <1>1, <2>1, <2>2 DEF CountsInv, CountsExact
<1>4. CASE CallWait
  <2>1. /\ pc[Master] = "add" /\ pc' = [pc EXCEPT ![Master] = "enter"]
        /\ nNow' = [nNow EXCEPT ![Master] = 0]
        /\ blocks' = blocks
    BY <1>4 DEF CallWait, At, Goto
  <2>2. Ghosts' = Ghosts + 0 /\ nTotal' = Cardinality(Joined') + Ghosts'
    BY <1>1, <1>2, <2>1, CountsAtOne DEF IsJoined, IsAsleep
  <2>4. Ghosts < blocks
    BY <1>1, <2>1 DEF MayBeInterrupted
  <2>. QED
    BY <1>1, <2>1, <2>2, <2>4 DEF CountsInv, CountsExact
<1>5. CASE MasterInterrupted
  <2>1. /\ pc[Master] = "wait" /\ caller \in {"ConnectBlock", "destructor"}
        /\ blocks' = blocks
        /\ \/ /\ pc' = [pc EXCEPT ![Master] = "enter"]
              /\ nNow' = [nNow EXCEPT ![Master] = 0] /\ caller' = "unwinding"
           \/ pc' = [pc EXCEPT ![Master] = "idle"] /\ nNow' = nNow
    BY <1>5 DEF MasterInterrupted, At, Goto
  <2>2. /\ \A u \in Threads \ {Master} : pc'[u] = pc[u] /\ nNow'[u] = nNow[u]
        /\ ~IsJoined(Master)' /\ ~IsAsleep(Master)'
        /\ IsJoined(Master) /\ IsAsleep(Master)
    BY <1>1, <2>1 DEF IsJoined, IsAsleep
  <2>3. Ghosts' = Ghosts + 1 /\ nTotal' = Cardinality(Joined') + Ghosts'
    BY <1>1, <1>2, <2>2, CountsAtOne
  <2>4. Ghosts < blocks /\ ~MayBeInterrupted'
    BY <1>1, <2>1 DEF MayBeInterrupted
  <2>. QED
    BY <1>1, <2>1, <2>3, <2>4 DEF CountsInv, CountsExact
<1>6. CASE UNCHANGED <<pc, nNow, blocks, caller>>
  <2>1. Ghosts' = Ghosts + 0 /\ nTotal' = Cardinality(Joined') + Ghosts'
    BY <1>1, <1>2, <1>6, CountsAtOne DEF IsJoined, IsAsleep
  <2>. QED
    BY <1>1, <1>6, <2>1, CountsKept DEF MayBeInterrupted
<1>. QED
  BY <1>3, <1>4, <1>5, <1>6 DEF Add, Shutdown, vars, locals, session

\* nTotal and nIdle are exact in every state, interrupted workers and at most
\* one interrupted wait of the master per control included, for every number
\* of workers and blocks.
THEOREM CountsAlwaysExact == Spec => []CountsExact
<1>1. Init => CountsInv
  <2>. SUFFICES ASSUME Init PROVE CountsInv
    OBVIOUS
  <2>1. Joined = {} /\ Asleep = {}
    BY DEF Init, Joined, Asleep
  <2>2. pc[Master] = "idle"
    BY DEF Init, Threads
  <2>. QED
    BY <2>1, <2>2, FS_EmptySet DEF Init, CountsInv, CountsExact, Ghosts, MayBeInterrupted
<1>2. Inv /\ CountsInv /\ [Next]_vars => CountsInv'
  BY ThreadCounts, MasterCounts DEF Next
<1>3. CountsInv => CountsExact
  BY DEF CountsInv
<1>. QED
  BY <1>1, <1>2, <1>3, Invariant, PTL DEF Spec

\* Whenever the last control was waited for, the master is between blocks and
\* no thread is in its critical section, the pool is as the assertions of the
\* next control want it, whatever was interrupted before.
THEOREM AlwaysQuietBetweenBlocks == Spec => []QuietBetweenBlocks
<1>1. Inv /\ CountsExact => QuietBetweenBlocks
  <2>. SUFFICES ASSUME Inv, CountsExact, Settled, mutex = None
                PROVE  nTotal = nIdle /\ nTodo = 0 /\ fAllOk
    BY DEF QuietBetweenBlocks
  <2>1. Pending = {} /\ fAllOk
    BY DEF Inv, NothingLeftOver, VerdictsRight
  <2>2. nTodo = 0
    BY <2>1, FS_EmptySet DEF Inv, TodoExact
  <2>3. \A t \in Threads : vChecks[t] = {}
    BY <2>1, InPending
  <2>4. \A t \in Threads : pc[t] # "loop"
    BY CheckQueueAssumption DEF Inv, TypeOK
  <2>5. \A t \in Threads : pc[t] \in {"work", "enter"} => nNow[t] = 0
    BY <2>3, FS_EmptySet DEF Inv, BatchesApart
  <2>6. \A t \in Threads : pc[t] # "work"
    BY <2>5 DEF Inv, BatchesApart
  <2>7. Joined = Asleep
    BY <2>4, <2>5, <2>6 DEF Joined, Asleep
  <2>8. nIdle \in Int /\ Cardinality(Asleep) \in Nat
    BY ThreadsFinite DEF Inv, TypeOK, Asleep
  <2>. QED
    BY <2>1, <2>2, <2>7, <2>8 DEF CountsExact, Ghosts
<1>. QED
  BY <1>1, Invariant, CountsAlwaysExact, PTL
=============================================================================
