----------------------------- MODULE CoreSearch -----------------------------
(***************************************************************************)
(* One mining core on its own, driven the way miner_top drives it: a whole *)
(* header is in place when load_done rises and stays put until the next    *)
(* load.  The unrolling parameter LOOP_LOG2 is chosen once, at the start.  *)
(***************************************************************************)
EXTENDS FpgaMiner

CONSTANTS
  LoopLog2s,   \* the values of LOOP_LOG2 to synthesise
  Headers,     \* headers [job, nonce] the host may load
  Idle,        \* the job of the all-zero header registers
  MaxLoads,    \* bound: loads in a behaviour
  MaxHolds,    \* bound: clocks load_done stays up beyond the first
  MaxWait,     \* bound: clocks between a header and the next load
  Horizon      \* bound: clocks after a header has been taken

Jobs == {h.job : h \in Headers} \cup {Idle}
Messages == [job : Jobs, nonce : Nonces]

ASSUME CoreSearchAssumption ==
  /\ LoopLog2s \subseteq 0 .. 5
  /\ \A log2 \in LoopLog2s : Rounds % LOOP(log2) = 0
  /\ Headers \subseteq Messages
  /\ Junk \notin Messages /\ Junk \notin [msg : Messages, rounds : 0 .. Rounds]
  /\ MaxLoads \in Nat /\ MaxHolds \in Nat
  /\ MaxWait \in Nat /\ Horizon \in Nat

VARIABLES
  LOOP_LOG2,   \* the unrolling of this core
  core,        \* the registers of the core
  header,      \* header_data_input
  load_done,   \* load_done
  loads,       \* headers loaded so far
  holds,       \* clocks load_done was held
  age          \* clocks since power-up or since the core took its header

vars == <<LOOP_LOG2, core, header, load_done, loads, holds, age>>

Init ==
  /\ LOOP_LOG2 \in LoopLog2s
  /\ core = CoreInit(LOOP_LOG2, Idle)
  /\ header = [job |-> Idle, nonce |-> 0]
  /\ load_done = FALSE
  /\ loads = 0
  /\ holds = 0
  /\ age = 0

\* What every clock does to the core.
Tick ==
  /\ age < Horizon
  /\ core' = CoreClock(LOOP_LOG2, core, header, load_done)
  /\ age' = IF core.start THEN 0 ELSE age + 1
  /\ UNCHANGED LOOP_LOG2

\* The clock in which the last byte of a header arrives: at least 96 clocks
\* after the previous load_done, so the core is not taking a header.
Load ==
  /\ ~load_done /\ ~core.start
  /\ loads < MaxLoads /\ age < MaxWait
  /\ header' \in Headers
  /\ load_done' = TRUE
  /\ loads' = loads + 1
  /\ UNCHANGED holds
  /\ Tick

\* An idle clock of miner_top drops load_done...
Run ==
  /\ load_done' = FALSE
  /\ UNCHANGED <<header, loads, holds>>
  /\ Tick

\* ... and a bus read keeps it.
Hold ==
  /\ load_done
  /\ holds < MaxHolds
  /\ holds' = holds + 1
  /\ UNCHANGED <<header, load_done, loads>>
  /\ Tick

Next == Load \/ Run \/ Hold

Spec == Init /\ [][Next]_vars

\* The clock does not stop.
FairSpec == Spec /\ WF_vars(Next)

----------------------------------------------------------------------------
Offset == GoldenNonceOffset(LOOP_LOG2)

\* A message takes this many clocks from data to the ticket: two transforms, the
\* wait of the second for its turn, and the two registers hash2 and ticket.
Flush == 2 * Rounds + LOOP(LOOP_LOG2) + 2

\* The core has its header, and no hash of an earlier one is left in it.
Mining == core.midstate # Idle /\ ~core.start /\ age > Flush

\* How many nonces after the start nonce a nonce is tried; the counter wraps.
Distance(n) == (n - header.nonce) % NonceMod

\* The golden nonces of the job whose hash the counter says must be known.
Reported ==
  {n \in Nonces : /\ [job |-> core.midstate, nonce |-> n] \in Golden
                  /\ Distance(n) > 0
                  /\ Distance(n) + Offset < Distance(core.nonce)}

----------------------------------------------------------------------------
(***************************************************************************)
(* Properties                                                              *)
(***************************************************************************)

\* The registers hold values of their types: the counters stay in range and
\* the hash registers hold the hash of a message or nothing valid.
TypeOK ==
  /\ LOOP_LOG2 \in LoopLog2s
  /\ core.cnt \in 0 .. LOOP(LOOP_LOG2) - 1
  /\ core.nonce \in Nonces /\ core.golden_nonce \in Nonces
  /\ core.data \in Messages
  /\ core.hash \in Messages \cup {Junk} /\ core.hash2 \in Messages \cup {Junk}
  /\ load_done \in BOOLEAN /\ loads \in 0 .. MaxLoads
  /\ holds \in 0 .. MaxHolds /\ age \in 0 .. Horizon

\* Once the pipelines hold only the current job, the nonce computed from the
\* running counter at a ticket is exactly the one whose double hash was valid,
\* for every unrolling (fpgaminer_top.v, GOLDEN_NONCE_OFFSET and the 131 and 66
\* of LOOP = 1 and 2).
TicketNamesNonce ==
  [][ core.ticket /\ Mining =>
        [job |-> core.midstate, nonce |-> core'.golden_nonce] \in Golden ]_vars

\* No golden nonce is passed over: when the counter is past a golden nonce by
\* the pipeline delay, the core shows a golden nonce, that one or a later one, until
\* the next header comes.
NewestGoldenShown ==
  Mining /\ ~load_done /\ Reported # {} =>
    /\ [job |-> core.midstate, nonce |-> core.golden_nonce] \in Golden
    /\ \A n \in Reported : Distance(core.golden_nonce) >= Distance(n)
=============================================================================
