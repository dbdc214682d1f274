----------------------------- MODULE CheckQueue -----------------------------
(***************************************************************************)
(* checkqueue.h: the pool of threads that verifies the scripts of a block. *)
(* ConnectBlock is the master: it makes a CCheckQueueControl, adds the     *)
(* checks of one transaction after the other, and then joins the workers   *)
(* until all checks are done.                                              *)
(*                                                                         *)
(* A step is what a thread does between two points where another one can   *)
(* see it: the mutex is taken in Enter, in Wake and in Add, and released   *)
(* where the code waits, returns or leaves the block.  The queue is a set: *)
(* as the code says, the order does not matter.                            *)
(***************************************************************************)
EXTENDS Integers, FiniteSets

CONSTANTS
  Workers,      \* threads running ThreadScriptCheck
  Master,       \* the thread that connects blocks
  None,         \* no thread: the mutex is free
  Checks,       \* the script checks of a block
  Fails,        \* those that do not verify
  nBatchSize,   \* 128 in main.cpp
  MaxBlocks     \* bound: controls made in a behaviour

Threads == Workers \cup {Master}

ASSUME CheckQueueAssumption ==
  /\ Master \notin Workers /\ None \notin Threads
  /\ IsFiniteSet(Checks) /\ Fails \subseteq Checks
  /\ nBatchSize \in Nat \ {0}
  /\ MaxBlocks \in Nat

\* At most MAX_SCRIPTCHECK_THREADS of them.
ASSUME WorkersAssumption == IsFiniteSet(Workers)

VARIABLES
  queue, nIdle, nTotal, fAllOk, nTodo,   \* the members of CCheckQueue
  mutex,      \* the thread that holds it, or None
  signalled,  \* waiting threads a notify has chosen
  pc,         \* where each thread is
  vChecks,    \* each thread's batch, until it is accounted for
  nNow,       \* each thread's nNow
  fOk,        \* each thread's fOk
  added,      \* the checks the master has added for this block
  result,     \* what the last Wait returned
  caller,     \* what the master called Wait from, or how it came out of it
  blocks,     \* controls made so far
  fShutdown   \* the thread group has been interrupted

members == <<queue, nIdle, nTotal, fAllOk, nTodo>>
locals == <<pc, vChecks, nNow, fOk>>
session == <<added, result, blocks, caller>>
vars == <<members, mutex, signalled, locals, session, fShutdown>>

\* Workers start at the top of Loop; the master is outside of it.
Init ==
  /\ queue = {} /\ nIdle = 0 /\ nTotal = 0 /\ fAllOk = TRUE /\ nTodo = 0
  /\ mutex = None /\ signalled = {}
  /\ pc = [t \in Threads |-> IF t = Master THEN "idle" ELSE "enter"]
  /\ vChecks = [t \in Threads |-> {}]
  /\ nNow = [t \in Threads |-> 0]
  /\ fOk = [t \in Threads |-> TRUE]
  /\ added = {} /\ result = TRUE /\ blocks = 0 /\ caller = "none"
  /\ fShutdown = FALSE

At(t, label) == pc[t] = label
Goto(t, label) == pc' = [pc EXCEPT ![t] = label]

Waiting(S) == {t \in S : pc[t] = "wait"} \ signalled

\* notify_one on the condition variable S waits for: lost if nobody waits.
NotifyOne(S) ==
  IF Waiting(S) = {} THEN UNCHANGED signalled
  ELSE \E t \in Waiting(S) : signalled' = signalled \cup {t}

NotifyAll(S) == signalled' = signalled \cup Waiting(S)

----------------------------------------------------------------------------
(***************************************************************************)
(* Loop, in every thread                                                   *)
(***************************************************************************)

\* Slips: a batch's verdict replaces fAllOk; the master is not notified.
EnterAssigns(t) ==
  /\ At(t, "enter") /\ mutex = None
  /\ mutex' = t
  /\ IF nNow[t] > 0
     THEN /\ fAllOk' = fOk[t]
          /\ nTodo' = nTodo - nNow[t]
          /\ IF nTodo' = 0 /\ t # Master THEN NotifyOne({Master}) ELSE UNCHANGED signalled
          /\ UNCHANGED nTotal
     ELSE /\ nTotal' = nTotal + 1
          /\ UNCHANGED <<fAllOk, nTodo, signalled>>
  /\ vChecks' = [vChecks EXCEPT ![t] = {}]
  /\ Goto(t, "loop")
  /\ UNCHANGED <<queue, nIdle, nNow, fOk, session, fShutdown>>
EnterSilent(t) ==
  /\ At(t, "enter") /\ mutex = None
  /\ mutex' = t
  /\ IF nNow[t] > 0
     THEN /\ fAllOk' = (fAllOk /\ fOk[t])
          /\ nTodo' = nTodo - nNow[t]
          /\ UNCHANGED nTotal
     ELSE /\ nTotal' = nTotal + 1
          /\ UNCHANGED <<fAllOk, nTodo>>
  /\ vChecks' = [vChecks EXCEPT ![t] = {}]
  /\ Goto(t, "loop")
  /\ UNCHANGED <<queue, nIdle, nNow, fOk, signalled, session, fShutdown>>

\* The lock and the clean-up of the previous run: the batch is accounted for,
\* or the thread joins the pool.
Enter(t) ==
  /\ At(t, "enter") /\ mutex = None
  /\ mutex' = t
  /\ IF nNow[t] > 0
     THEN /\ fAllOk' = (fAllOk /\ fOk[t])
          /\ nTodo' = nTodo - nNow[t]
          /\ IF nTodo' = 0 /\ t # Master THEN NotifyOne({Master}) ELSE UNCHANGED signalled
          /\ UNCHANGED nTotal
     ELSE /\ nTotal' = nTotal + 1
          /\ UNCHANGED <<fAllOk, nTodo, signalled>>
  /\ vChecks' = [vChecks EXCEPT ![t] = {}]
  /\ Goto(t, "loop")
  /\ UNCHANGED <<queue, nIdle, nNow, fOk, session, fShutdown>>

\* queue.empty() and all done: only the master leaves, fQuit is never set.
Return(t) ==
  /\ At(t, "loop") /\ queue = {}
  /\ t = Master /\ nTodo = 0
  /\ nTotal' = nTotal - 1
  /\ result' = fAllOk
  /\ fAllOk' = TRUE
  /\ mutex' = None
  /\ Goto(t, "idle")
  /\ UNCHANGED <<queue, nIdle, nTodo, signalled, vChecks, nNow, fOk, added, blocks,
                 caller, fShutdown>>

\* A slip: the thread sleeps with the mutex.
WaitLocked(t) ==
  /\ At(t, "loop") /\ queue = {}
  /\ ~(t = Master /\ nTodo = 0)
  /\ nIdle' = nIdle + 1
  /\ Goto(t, "wait")
  /\ UNCHANGED <<queue, nTotal, fAllOk, nTodo, mutex, signalled, vChecks, nNow, fOk,
                 session, fShutdown>>

\* queue.empty() otherwise: nIdle++ and cond.wait releases the mutex.
Wait(t) ==
  /\ At(t, "loop") /\ queue = {}
  /\ ~(t = Master /\ nTodo = 0)
  /\ nIdle' = nIdle + 1
  /\ mutex' = None
  /\ Goto(t, "wait")
  /\ UNCHANGED <<queue, nTotal, fAllOk, nTodo, signalled, vChecks, nNow, fOk, session,
                 fShutdown>>

\* A slip: the thread stays counted as idle.
WakeIdle(t) ==
  /\ At(t, "wait") /\ mutex = None
  /\ mutex' = t
  /\ signalled' = signalled \ {t}
  /\ Goto(t, "loop")
  /\ UNCHANGED <<members, vChecks, nNow, fOk, session, fShutdown>>

\* cond.wait returns, after a notify or spuriously, with the mutex held.
Wake(t) ==
  /\ At(t, "wait") /\ mutex = None
  /\ mutex' = t
  /\ nIdle' = nIdle - 1
  /\ signalled' = signalled \ {t}
  /\ Goto(t, "loop")
  /\ UNCHANGED <<queue, nTotal, fAllOk, nTodo, vChecks, nNow, fOk, session, fShutdown>>

AtMost(m, n) == IF m <= n THEN m ELSE n
AtLeast(m, n) == IF m >= n THEN m ELSE n

\* How many checks a thread takes from the queue.
BatchSize == AtLeast(1, AtMost(nBatchSize, Cardinality(queue) \div (nTotal + nIdle + 1)))

\* A slip: the batch stays in the queue.
TakeBatchShared(t) ==
  /\ At(t, "loop") /\ queue # {}
  /\ nNow' = [nNow EXCEPT ![t] = BatchSize]
  /\ \E batch \in SUBSET queue :
       /\ Cardinality(batch) = BatchSize
       /\ vChecks' = [vChecks EXCEPT ![t] = batch]
  /\ fOk' = [fOk EXCEPT ![t] = fAllOk]
  /\ mutex' = None
  /\ Goto(t, "work")
  /\ UNCHANGED <<members, signalled, session, fShutdown>>

\* The thread takes a batch, remembers fAllOk and releases the mutex.
TakeBatch(t) ==
  /\ At(t, "loop") /\ queue # {}
  /\ nNow' = [nNow EXCEPT ![t] = BatchSize]
  /\ \E batch \in SUBSET queue :
       /\ Cardinality(batch) = BatchSize
       /\ vChecks' = [vChecks EXCEPT ![t] = batch]
       /\ queue' = queue \ batch
  /\ fOk' = [fOk EXCEPT ![t] = fAllOk]
  /\ mutex' = None
  /\ Goto(t, "work")
  /\ UNCHANGED <<nIdle, nTotal, fAllOk, nTodo, signalled, session, fShutdown>>

\* The checks run without the mutex, up to the first that fails.
Work(t) ==
  /\ At(t, "work")
  /\ fOk' = [fOk EXCEPT ![t] = @ /\ vChecks[t] \cap Fails = {}]
  /\ Goto(t, "enter")
  /\ UNCHANGED <<members, mutex, signalled, vChecks, nNow, session, fShutdown>>

----------------------------------------------------------------------------
(***************************************************************************)
(* The master in ConnectBlock: whichever thread connects a block, one at a *)
(* time under cs_main (message handler, import, miner, RPC)                *)
(***************************************************************************)

\* The constructor of CCheckQueueControl asserts, without the mutex, that the
\* queue is unused; the process ends here otherwise.  Of nTotal == nIdle it
\* asks nothing: read one after the other while workers move, the two may be
\* seen equal or not (ControlFindsPoolIdle).
MakeControl ==
  /\ At(Master, "idle") /\ blocks < MaxBlocks
  /\ nTodo = 0 /\ fAllOk
  /\ blocks' = blocks + 1 /\ added' = {} /\ caller' = "none"
  /\ Goto(Master, "add")
  /\ UNCHANGED <<members, mutex, signalled, vChecks, nNow, fOk, result, fShutdown>>

\* The checks of the inputs of one transaction.
Add ==
  /\ At(Master, "add") /\ mutex = None
  /\ \E batch \in SUBSET (Checks \ added) :
       /\ queue' = queue \cup batch
       /\ added' = added \cup batch
       /\ nTodo' = nTodo + Cardinality(batch)
       /\ CASE Cardinality(batch) = 0 -> UNCHANGED signalled
            [] Cardinality(batch) = 1 -> NotifyOne(Workers)
            [] OTHER                  -> NotifyAll(Workers)
  /\ UNCHANGED <<nIdle, nTotal, fAllOk, mutex, locals, result, blocks, caller, fShutdown>>

\* Wait(), called by ConnectBlock, or by the destructor after an early return.
CallWait ==
  /\ At(Master, "add")
  /\ nNow' = [nNow EXCEPT ![Master] = 0]
  /\ fOk' = [fOk EXCEPT ![Master] = TRUE]
  /\ caller' \in {"ConnectBlock", "destructor"}
  /\ Goto(Master, "enter")
  /\ UNCHANGED <<members, mutex, signalled, vChecks, added, result, blocks, fShutdown>>

----------------------------------------------------------------------------
(***************************************************************************)
(* Interruption.  cond.wait is the only interruption point of Loop; the    *)
(* exception passes nIdle-- and nTotal--, so the thread stays counted.     *)
(***************************************************************************)

\* threadGroup.interrupt_all() at shutdown ...
Shutdown ==
  /\ ~fShutdown /\ fShutdown' = TRUE
  /\ UNCHANGED <<members, mutex, signalled, locals, session>>

\* ... ends a worker that sleeps.
WorkerInterrupted(t) ==
  /\ fShutdown /\ t \in Workers
  /\ At(t, "wait") /\ mutex = None
  /\ signalled' = signalled \ {t}
  /\ Goto(t, "gone")
  /\ UNCHANGED <<members, mutex, vChecks, nNow, fOk, session, fShutdown>>

\* A slip: the destructor does not wait again.
MasterLeaves ==
  /\ At(Master, "wait") /\ mutex = None /\ caller \in {"ConnectBlock", "destructor"}
  /\ signalled' = signalled \ {Master}
  /\ caller' = "none"
  /\ Goto(Master, "idle")
  /\ UNCHANGED <<members, mutex, vChecks, nNow, fOk, added, result, blocks, fShutdown>>

\* The master is interrupted too, at shutdown or, when it is a miner's thread,
\* by setgenerate.  fDone is still false: the destructor of the control calls
\* Wait, and Loop starts again in a thread that is counted already.  When it
\* was the destructor that waited, the exception leaves it and nobody waits.
\* (A second one during the unwinding would end the process.)
MasterInterrupted ==
  /\ At(Master, "wait") /\ mutex = None
  /\ signalled' = signalled \ {Master}
  /\ \/ /\ caller = "ConnectBlock" /\ caller' = "unwinding"
        /\ nNow' = [nNow EXCEPT ![Master] = 0]
        /\ fOk' = [fOk EXCEPT ![Master] = TRUE]
        /\ Goto(Master, "enter")
     \/ /\ caller = "destructor" /\ caller' = "interrupted"
        /\ Goto(Master, "idle")
        /\ UNCHANGED <<nNow, fOk>>
  /\ UNCHANGED <<members, mutex, vChecks, added, result, blocks, fShutdown>>

Step(t) == Enter(t) \/ Return(t) \/ Wait(t) \/ TakeBatch(t) \/ Work(t)

Next ==
  \/ \E t \in Threads : Step(t) \/ Wake(t) \/ WorkerInterrupted(t)
  \/ MakeControl \/ Add \/ CallWait \/ MasterInterrupted \/ Shutdown

Spec == Init /\ [][Next]_vars

\* Threads run, a notified thread wakes, and the mutex starves nobody for ever.
Fairness ==
  \A t \in Threads : /\ WF_vars(Return(t) \/ Wait(t) \/ TakeBatch(t) \/ Work(t))
                     /\ SF_vars(Enter(t))
                     /\ SF_vars(t \in signalled /\ Wake(t))

FairSpec == Spec /\ Fairness

----------------------------------------------------------------------------
(***************************************************************************)
(* Properties                                                              *)
(***************************************************************************)

\* Checks added and not yet accounted for: in the queue or in a batch.
Pending == queue \cup UNION {vChecks[t] : t \in Threads}

\* The last control was left by an interruption, without anybody waiting.
Abandoned == caller = "interrupted"

\* Nobody uses the queue, and the last control was waited for.
Settled == pc[Master] = "idle" /\ ~Abandoned

\* Threads that joined the pool, and those of them that sleep or died asleep.
Joined == {t \in Threads : pc[t] \in {"loop", "wait", "work", "gone"}
                           \/ (pc[t] = "enter" /\ nNow[t] > 0)}
Asleep == {t \in Threads : pc[t] \in {"wait", "gone"}}

Labels == {"idle", "add", "enter", "loop", "wait", "work", "gone"}
Callers == {"none", "ConnectBlock", "destructor", "unwinding", "interrupted"}

\* Types, and the mutex is held exactly by the thread that is inside the block.
TypeOK ==
  /\ queue \in SUBSET Checks /\ added \in SUBSET Checks
  /\ nIdle \in Int /\ nTotal \in Int /\ nTodo \in Int /\ blocks \in Nat
  /\ fAllOk \in BOOLEAN /\ result \in BOOLEAN /\ fShutdown \in BOOLEAN
  /\ caller \in Callers
  /\ signalled \in SUBSET Threads
  /\ pc \in [Threads -> Labels]
  /\ vChecks \in [Threads -> SUBSET Checks]
  /\ nNow \in [Threads -> Nat]
  /\ fOk \in [Threads -> BOOLEAN]
  /\ mutex \in Threads \cup {None}
  /\ \A t \in Threads : (pc[t] = "loop") <=> (mutex = t)
  /\ \A t \in Workers : pc[t] \notin {"idle", "add"}
  /\ pc[Master] # "gone"
  /\ Abandoned => pc[Master] = "idle"

\* No check is in two places, and only a thread between taking a batch and
\* accounting for it holds one, of the size it will subtract.
BatchesApart ==
  /\ \A t \in Threads : queue \cap vChecks[t] = {}
  /\ \A t, u \in Threads : t # u => vChecks[t] \cap vChecks[u] = {}
  /\ \A t \in Threads :
       /\ pc[t] \notin {"work", "enter"} => vChecks[t] = {}
       /\ pc[t] \in {"work", "enter"} => nNow[t] = Cardinality(vChecks[t])
       /\ pc[t] = "work" => nNow[t] > 0

\* nTodo counts the checks that have not completed: those in the queue and
\* those "still in worker's own batches" (checkqueue.h:51).
TodoExact == nTodo = Cardinality(Pending)

\* Every check added for this block is accounted for before the master leaves,
\* unless it is interrupted in the destructor, and none is left over for the
\* next block.
NothingLeftOver ==
  /\ Pending \subseteq added
  /\ Settled => Pending = {}

\* However workers and master take batches and account for them: no check is lost,
\* run twice, accounted for twice, or left over for the next block.
ChecksAccounted == BatchesApart /\ TodoExact /\ NothingLeftOver

\* fAllOk and the verdicts the threads carry are right about the checks done
\* so far: a failure was seen only if a check fails, and a check that fails
\* is either pending or seen, though a batch taken after a failure is skipped.
VerdictsRight ==
  /\ Settled => fAllOk
  /\ fAllOk => (added \ Pending) \cap Fails = {} \/ Settled
  /\ ~fAllOk => added \cap Fails # {}
  /\ \A t \in Threads :
       /\ pc[t] \in {"work", "enter"} /\ nNow[t] > 0 /\ ~fOk[t] => added \cap Fails # {}
       /\ pc[t] = "enter" /\ nNow[t] > 0 /\ fOk[t] => vChecks[t] \cap Fails = {}

\* nTotal and nIdle count the threads in the pool and the threads asleep, and
\* in both the interrupted workers and the Ghosts: at most one interrupted wait
\* of the master for every control.
Ghosts == nIdle - Cardinality(Asleep)
CountsExact ==
  /\ Ghosts \in 0..blocks
  /\ nTotal = Cardinality(Joined) + Ghosts

\* Between two blocks, while no thread is in its critical section, and if the
\* last control was waited for, the pool is as the assertions of
\* CCheckQueueControl want it.
QuietBetweenBlocks ==
  Settled /\ mutex = None =>
    /\ nTotal = nIdle
    /\ nTodo = 0
    /\ fAllOk

All == INSTANCE CheckAll WITH open <- pc[Master] # "idle"

\* Wait returns exactly whether all the checks added for the block succeed,
\* whichever threads ran them, whatever was skipped after a failure and
\* whatever an interrupted control left behind before it.
ImplementsCheckAll == All!Spec

\* The master comes out of Wait, also when workers or itself are interrupted.
WaitReturns == (pc[Master] = "enter") ~> (pc[Master] = "idle")

\* "passed queue is supposed to be unused": assert(nTotal == nIdle), which the
\* constructor evaluates without the mutex (checkqueue.h:169).  Between two
\* blocks, once all workers sleep, the pool stays as it wants it, even without
\* spurious wake-ups.
ControlFindsPoolIdle ==
  [][Settled /\ Settled' /\ Workers \subseteq Asleep /\ Asleep \ Asleep' \subseteq signalled
       => nTotal' = nIdle']_vars
=============================================================================
