----------------------------- MODULE FpgaMiner -----------------------------
(***************************************************************************)
(* One mining core of the FPGA: fpgaminer_top.v with the two               *)
(* sha256_transform pipelines it instantiates, clock by clock.             *)
(*                                                                         *)
(* The datapath is symbolic.  A message is [job, nonce]: the midstate and  *)
(* block tail of a job with a nonce in it.  What a pipeline register holds *)
(* is the message it works on and the number of SHA-256 rounds already     *)
(* applied to it, or Junk when a round was applied out of order: the round *)
(* constant is selected by cnt and by the position of the stage, so a      *)
(* value is a SHA-256 state only if the two agree.  A hash register holds  *)
(* the message it is the hash of, or Junk.                                 *)
(***************************************************************************)
EXTENDS Integers

CONSTANTS
  Rounds,     \* rounds of one SHA-256 transform (64 in the code)
  NonceMod,   \* number of nonce values (2^32 in the code)
  Golden,     \* messages whose double hash has 32 leading zero bits
  Junk        \* content of a register that is not a SHA-256 value

ASSUME FpgaMinerAssumption ==
  /\ Rounds \in Nat \ {0}
  /\ NonceMod \in Nat \ {0}

Nonces == 0 .. NonceMod - 1

\* LOOP = 1 << LOOP_LOG2: how many rounds one hasher performs on a message.
LOOP(log2) == <<1, 2, 4, 8, 16, 32>>[log2 + 1]

\* The generate loop of sha256_transform makes 64/LOOP hashers.
Stages(log2) == Rounds \div LOOP(log2)

\* A slip: one formula for every unrolling.
UniformOffset(log2) == (2 * Rounds) \div LOOP(log2) + 1

\* How far the nonce counter has run ahead of the message whose hash is valid.
GoldenNonceOffset(log2) ==
  CASE LOOP(log2) = 1 -> 2 * Rounds + 3
    [] LOOP(log2) = 2 -> Rounds + 2
    [] OTHER          -> (2 * Rounds) \div LOOP(log2) + 1

----------------------------------------------------------------------------
(***************************************************************************)
(* sha256_transform                                                        *)
(***************************************************************************)

\* One sha256_digester step of stage i: round i * LOOP + cnt.
Digest(log2, i, cnt, in) ==
  IF in # Junk /\ in.rounds = i * LOOP(log2) + cnt
  THEN [in EXCEPT !.rounds = @ + 1]
  ELSE Junk

\* The hashers after one clock: each takes its own output back under
\* feedback, the previous stage's output (the input, for stage 0) otherwise.
Hashers(log2, line, feedback, cnt, input) ==
  [i \in 0 .. Stages(log2) - 1 |->
     Digest(log2, i, cnt,
            IF feedback THEN line[i]
            ELSE IF i = 0 THEN input
            ELSE line[i - 1])]

\* A message as it enters the first round.
Fresh(msg) == IF msg = Junk THEN Junk ELSE [msg |-> msg, rounds |-> 0]

\* The message the last stage has finished, Junk if it has not.
Finished(log2, line) ==
  LET out == line[Stages(log2) - 1]
  IN IF out # Junk /\ out.rounds = Rounds THEN out.msg ELSE Junk

\* tx_hash of uut: the midstate now in "state" is added to the final state.
FirstHash(log2, c) ==
  LET done == Finished(log2, c.line1)
  IN IF c.feedback THEN c.hash
     ELSE IF done # Junk /\ done.job = c.data.job THEN done ELSE Junk

\* tx_hash of uut2, whose rx_state is the constant H7,...,H0.
SecondHash(log2, c) ==
  IF c.feedback THEN c.hash2 ELSE Finished(log2, c.line2)

----------------------------------------------------------------------------
(***************************************************************************)
(* fpgaminer_top.  midstate stands for midstate_buf and data_buf, data for *)
(* the registers state and data, which are always written together.        *)
(***************************************************************************)
CoreInit(log2, idle) ==
  [ cnt          |-> 0,
    feedback     |-> FALSE,
    feedback_d1  |-> TRUE,
    start        |-> FALSE,
    midstate     |-> idle,
    data         |-> [job |-> idle, nonce |-> 0],
    nonce        |-> 0,
    line1        |-> [i \in 0 .. Stages(log2) - 1 |-> Junk],
    hash         |-> Junk,
    line2        |-> [i \in 0 .. Stages(log2) - 1 |-> Junk],
    hash2        |-> Junk,
    ticket       |-> FALSE,
    golden_nonce |-> 0,
    nonce_out    |-> [hit |-> FALSE, nonce |-> 0] ]

\* A slip: cnt is a six-bit register, not masked by LOOP - 1.
CntNextUnmasked(log2, c) == (c.cnt + 1) % 64

CntNext(log2, c) == (c.cnt + 1) % LOOP(log2)

FeedbackNext(log2, c) == CntNext(log2, c) # 0

NonceNext(log2, c) ==
  IF FeedbackNext(log2, c) THEN c.nonce ELSE (c.nonce + 1) % NonceMod

\* A start loads the nonce of the header and is cleared in the same clock,
\* whatever load_done says.
StartNext(c, load_done) == ~c.start /\ load_done

\* The clear under start is overwritten by the unconditional assignment below it.
TicketNext(c) == c.hash2 \in Golden /\ ~c.feedback_d1

\* Slips: the first golden nonce is kept; the subtraction does not wrap.
GoldenNonceNextKept(log2, c) ==
  IF c.golden_nonce # 0 THEN c.golden_nonce
  ELSE IF c.ticket THEN (c.nonce - GoldenNonceOffset(log2)) % NonceMod
  ELSE 0
GoldenNonceNextSigned(log2, c) ==
  IF c.ticket THEN c.nonce - GoldenNonceOffset(log2) ELSE c.golden_nonce

GoldenNonceNext(log2, c) ==
  IF c.ticket THEN (c.nonce - GoldenNonceOffset(log2)) % NonceMod
  ELSE IF c.start THEN 0
  ELSE c.golden_nonce

\* A slip: the flag is up for one clock only.
NonceOutNextPulse(c) == [hit |-> c.ticket, nonce |-> c.golden_nonce]

NonceOutNext(c) ==
  [ hit   |-> c.ticket \/ (c.nonce_out.hit /\ ~c.start),
    nonce |-> c.golden_nonce ]

\* One posedge of hash_clk; header is [job, nonce] as header_data_input shows it.
CoreClock(log2, c, header, load_done) ==
  [ cnt          |-> CntNext(log2, c),
    feedback     |-> FeedbackNext(log2, c),
    feedback_d1  |-> c.feedback,
    start        |-> StartNext(c, load_done),
    midstate     |-> IF c.start THEN header.job ELSE c.midstate,
    data         |-> [job |-> c.midstate, nonce |-> NonceNext(log2, c)],
    nonce        |-> IF c.start THEN header.nonce ELSE NonceNext(log2, c),
    line1        |-> Hashers(log2, c.line1, c.feedback, c.cnt, Fresh(c.data)),
    hash         |-> FirstHash(log2, c),
    line2        |-> Hashers(log2, c.line2, c.feedback, c.cnt, Fresh(c.hash)),
    hash2        |-> SecondHash(log2, c),
    ticket       |-> TicketNext(c),
    golden_nonce |-> GoldenNonceNext(log2, c),
    nonce_out    |-> NonceOutNext(c) ]
=============================================================================
