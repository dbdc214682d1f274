-------------------------- MODULE CoreSearchProofs --------------------------
(***************************************************************************)
(* The properties of CoreSearch for every unrolling, every number of       *)
(* rounds the unrolling divides, every width of the nonce counter, every   *)
(* set of golden messages and any number of headers.                       *)
(***************************************************************************)
EXTENDS CoreSearch, TLAPS

(***************************************************************************)
(* Arithmetic modulo the number of nonces                                  *)
(***************************************************************************)

\* Quotient and remainder.
LEMMA ModDiv ==
  ASSUME NEW M \in Nat \ {0}, NEW y \in Int
  PROVE  /\ (y % M) \in 0 .. M - 1 /\ (y % M) \in Int
         /\ y \div M \in Int /\ y = M * (y \div M) + (y % M)
OBVIOUS

LEMMA Multiples ==
  ASSUME NEW M \in Nat \ {0}, NEW q \in Int
  PROVE  /\ M * q \in Int
         /\ q >= 1 => M * q >= M
         /\ q <= -1 => M * q <= -M
<1>1. q >= 1 => M * q >= M
  OBVIOUS
<1>2. q <= -1 => M * q <= -M
  OBVIOUS
<1>3. QED BY <1>1, <1>2

\* There is one remainder.
LEMMA ModUnique ==
  ASSUME NEW M \in Nat \ {0}, NEW y \in Int, NEW q \in Int, NEW r \in 0 .. M - 1, y = M * q + r
  PROVE  y % M = r
<1> DEFINE p == y \div M
<1>1. p \in Int /\ y = M * p + (y % M) /\ (y % M) \in 0 .. M - 1
  BY ModDiv
<1>2. M * (q - p) = (y % M) - r
  BY <1>1
<1>3. q - p < 1 /\ q - p > -1
  BY <1>1, <1>2, Multiples
<1>4. q = p
  BY <1>1, <1>3
<1>5. QED BY <1>1, <1>4

LEMMA ModSmall ==
  ASSUME NEW M \in Nat \ {0}, NEW y \in 0 .. M - 1
  PROVE  y % M = y
OBVIOUS

\* A remainder may be taken before adding to it.
LEMMA ModSum ==
  ASSUME NEW M \in Nat \ {0}, NEW y \in Int, NEW z \in Int
  PROVE  ((y % M) + z) % M = (y + z) % M
<1> DEFINE w == (y % M) + z
<1>1. /\ y = M * (y \div M) + (y % M) /\ y \div M \in Int
      /\ (y % M) \in Int /\ w \in Int
  BY ModDiv
<1>2. /\ w = M * (w \div M) + (w % M) /\ w \div M \in Int
      /\ (w % M) \in 0 .. M - 1
  BY <1>1, ModDiv
<1>3. y + z = M * ((y \div M) + (w \div M)) + (w % M)
  BY <1>1, <1>2
<1>4. (y + z) % M = w % M
  <2> HIDE DEF w
  <2>1. (y \div M) + (w \div M) \in Int /\ y + z \in Int
    BY <1>1, <1>2
  <2>2. QED BY <1>2, <1>3, <2>1, ModUnique
<1>5. QED BY <1>4

(***************************************************************************)
(* The unrolling                                                           *)
(***************************************************************************)

L == LOOP(LOOP_LOG2)

S == Stages(LOOP_LOG2)

\* The first round of stage i, l rounds to a stage.
Base(l, i) == i * l

\* What the unrolling makes of the number of stages and of the pipeline delay.
LEMMA UnrollFacts ==
  ASSUME LOOP_LOG2 \in LoopLog2s
  PROVE  /\ L \in {1, 2, 4, 8, 16, 32} /\ S \in Nat \ {0} /\ Rounds \in Nat \ {0}
         /\ Rounds = S * L
         /\ Offset = 2 * S + (IF L = 1 THEN 3 ELSE IF L = 2 THEN 2 ELSE 1)
<1>1. LOOP_LOG2 \in 0 .. 5 /\ Rounds % L = 0 /\ Rounds \in Nat \ {0}
  BY CoreSearchAssumption, FpgaMinerAssumption DEF L
<1>2. L \in {1, 2, 4, 8, 16, 32}
  BY <1>1 DEF L, LOOP
<1>3. Rounds = S * L /\ S \in Nat \ {0}
  <2>1. S = Rounds \div L
    BY DEF S, L, Stages
  <2>2. Rounds = L * (Rounds \div L) + 0 /\ Rounds \div L \in Int
    BY <1>1, <1>2, ModDiv
  <2>3. S \in Int /\ Rounds = L * S
    BY <1>1, <1>2, <2>1, <2>2
  <2>4. S >= 1
    <3>1. S <= -1 => L * S <= -L
      BY <1>2, <2>3, Multiples
    <3>2. S # 0
      BY <1>1, <1>2, <2>3
    <3>3. QED BY <1>1, <1>2, <2>3, <3>1, <3>2
  <2>5. QED BY <1>2, <2>3, <2>4
<1>4. Offset = 2 * S + (IF L = 1 THEN 3 ELSE IF L = 2 THEN 2 ELSE 1)
  <2>1. Offset = IF L = 1 THEN 2 * Rounds + 3
                 ELSE IF L = 2 THEN Rounds + 2 ELSE ((2 * Rounds) \div L) + 1
    BY <1>2 DEF Offset, GoldenNonceOffset, L
  <2>2. L = 4 => (2 * Rounds) \div 4 = 2 * S
    BY <1>3
  <2>3. L = 8 => (2 * Rounds) \div 8 = 2 * S
    BY <1>3
  <2>4. L = 16 => (2 * Rounds) \div 16 = 2 * S
    BY <1>3
  <2>5. L = 32 => (2 * Rounds) \div 32 = 2 * S
    BY <1>3
  <2>6. QED BY <1>2, <1>3, <2>1, <2>2, <2>3, <2>4, <2>5
<1>5. QED BY <1>1, <1>2, <1>3, <1>4

\* The next value of cnt, and the values the ticket waits for.
LEMMA CountFacts ==
  ASSUME LOOP_LOG2 \in LoopLog2s, NEW k \in 0 .. L - 1
  PROVE  /\ (k + 1) % L = (IF k + 1 = L THEN 0 ELSE k + 1)
         /\ 1 % L = (IF L = 1 THEN 0 ELSE 1)
         /\ 2 % L = (IF L \in {1, 2} THEN 0 ELSE 2)
<1>1. L \in {1, 2, 4, 8, 16, 32}
  BY UnrollFacts
<1>2. (k + 1) % L = (IF k + 1 = L THEN 0 ELSE k + 1)
  BY <1>1
<1>3. 1 % L = (IF L = 1 THEN 0 ELSE 1)
  BY <1>1
<1>4. 2 % L = (IF L \in {1, 2} THEN 0 ELSE 2)
  BY <1>1
<1>5. QED BY <1>2, <1>3, <1>4

\* Where the stages begin and end.
LEMMA BaseFacts ==
  ASSUME LOOP_LOG2 \in LoopLog2s
  PROVE  /\ Base(L, 0) = 0 /\ Base(L, S) = Rounds
         /\ \A i \in Nat : Base(L, i) \in Nat /\ Base(L, i + 1) = Base(L, i) + L
         /\ \A i \in 0 .. S - 1 : Base(L, i) + L <= Rounds
<1>1. L \in {1, 2, 4, 8, 16, 32} /\ S \in Nat \ {0} /\ Rounds = S * L
  BY UnrollFacts
<1>2. ASSUME NEW i \in Nat PROVE Base(L, i) \in Nat /\ Base(L, i + 1) = Base(L, i) + L
  BY <1>1 DEF Base
<1>3. ASSUME NEW i \in 0 .. S - 1 PROVE Base(L, i) + L <= Rounds
  BY <1>1 DEF Base
<1>4. Base(L, 0) = 0 /\ Base(L, S) = Rounds
  BY <1>1 DEF Base
<1>5. QED BY <1>2, <1>3, <1>4

(***************************************************************************)
(* One clock                                                               *)
(***************************************************************************)

\* Every step is a clock of the core.
LEMMA Clock ==
  ASSUME Next
  PROVE  /\ age < Horizon /\ age' = (IF core.start THEN 0 ELSE age + 1)
         /\ LOOP_LOG2' = LOOP_LOG2 /\ L' = L /\ S' = S
         /\ core'.cnt = (core.cnt + 1) % L
         /\ core'.feedback = (core'.cnt # 0)
         /\ core'.feedback_d1 = core.feedback
         /\ core'.start = (~core.start /\ load_done)
         /\ core'.midstate = (IF core.start THEN header.job ELSE core.midstate)
         /\ core'.data = [job |-> core.midstate, nonce |-> NonceNext(LOOP_LOG2, core)]
         /\ core'.nonce = (IF core.start THEN header.nonce ELSE NonceNext(LOOP_LOG2, core))
         /\ NonceNext(LOOP_LOG2, core) =
              (IF core'.cnt # 0 THEN core.nonce ELSE (core.nonce + 1) % NonceMod)
         /\ core'.line1 =
              Hashers(LOOP_LOG2, core.line1, core.feedback, core.cnt, Fresh(core.data))
         /\ core'.hash = FirstHash(LOOP_LOG2, core)
         /\ core'.line2 =
              Hashers(LOOP_LOG2, core.line2, core.feedback, core.cnt, Fresh(core.hash))
         /\ core'.hash2 = SecondHash(LOOP_LOG2, core)
         /\ core'.ticket = (core.hash2 \in Golden /\ ~core.feedback_d1)
         /\ core'.golden_nonce = GoldenNonceNext(LOOP_LOG2, core)
<1>1. /\ age < Horizon /\ age' = (IF core.start THEN 0 ELSE age + 1)
      /\ LOOP_LOG2' = LOOP_LOG2
      /\ core' = CoreClock(LOOP_LOG2, core, header, load_done)
  BY DEF Next, Load, Run, Hold, Tick
<1>2. L' = L /\ S' = S
  BY <1>1 DEF L, S
<1>3. QED
  BY <1>1, <1>2 DEF CoreClock, CntNext, FeedbackNext, NonceNext, StartNext, TicketNext, L

Work == [msg : Messages, rounds : 0 .. Rounds]

\* TypeOK with the registers it leaves out.
TypeInv ==
  /\ LOOP_LOG2 \in LoopLog2s
  /\ core.cnt \in 0 .. L - 1
  /\ core.feedback \in BOOLEAN /\ core.feedback_d1 \in BOOLEAN
  /\ core.start \in BOOLEAN /\ core.ticket \in BOOLEAN
  /\ core.midstate \in Jobs /\ core.data \in Messages
  /\ core.nonce \in Nonces /\ core.golden_nonce \in Nonces
  /\ core.hash \in Messages \cup {Junk} /\ core.hash2 \in Messages \cup {Junk}
  /\ core.line1 \in [0 .. S - 1 -> Work \cup {Junk}]
  /\ core.line2 \in [0 .. S - 1 -> Work \cup {Junk}]
  /\ header \in Messages
  /\ load_done \in BOOLEAN /\ loads \in 0 .. MaxLoads
  /\ holds \in 0 .. MaxHolds /\ age \in 0 .. Horizon

\* A hasher holds a message with the rounds it has applied to it.
LEMMA HashersType ==
  ASSUME LOOP_LOG2 \in LoopLog2s, NEW cnt \in 0 .. L - 1, NEW feedback \in BOOLEAN,
         NEW line \in [0 .. S - 1 -> Work \cup {Junk}], NEW msg \in Messages \cup {Junk}
  PROVE  Hashers(LOOP_LOG2, line, feedback, cnt, Fresh(msg)) \in [0 .. S - 1 -> Work \cup {Junk}]
<1> DEFINE in(i) == IF feedback THEN line[i] ELSE IF i = 0 THEN Fresh(msg) ELSE line[i - 1]
<1>1. S \in Nat \ {0} /\ Rounds \in Nat \ {0} /\ L \in Nat
  BY UnrollFacts
<1>2. Fresh(msg) \in Work \cup {Junk}
  BY <1>1 DEF Fresh, Work
<1>3. ASSUME NEW i \in 0 .. S - 1 PROVE Digest(LOOP_LOG2, i, cnt, in(i)) \in Work \cup {Junk}
  <2>1. in(i) \in Work \cup {Junk}
    BY <1>1, <1>2
  <2>2. i * L + L <= Rounds /\ i * L \in Nat
    BY <1>1, BaseFacts DEF Base
  <2>3. CASE in(i) # Junk /\ in(i).rounds = i * L + cnt
    <3>1. in(i) \in [msg : Messages, rounds : 0 .. Rounds] /\ in(i).rounds + 1 \in 0 .. Rounds
      BY <1>1, <2>1, <2>2, <2>3 DEF Work
    <3>2. [in(i) EXCEPT !.rounds = @ + 1] \in Work
      BY <3>1 DEF Work
    <3>3. QED BY <2>3, <3>2 DEF Digest, L
  <2>4. CASE ~(in(i) # Junk /\ in(i).rounds = i * L + cnt)
    BY <2>4 DEF Digest, L
  <2>5. QED BY <2>3, <2>4
<1>4. Hashers(LOOP_LOG2, line, feedback, cnt, Fresh(msg))
        = [i \in 0 .. S - 1 |-> Digest(LOOP_LOG2, i, cnt, in(i))]
  BY DEF Hashers, S
<1>5. QED BY <1>3, <1>4

LEMMA TypeStep == TypeInv /\ [Next]_vars => TypeInv'
<1>1. SUFFICES ASSUME TypeInv, Next PROVE TypeInv'
  BY DEF vars, TypeInv, L, S
<1>2. /\ L \in {1, 2, 4, 8, 16, 32} /\ S \in Nat \ {0} /\ Rounds \in Nat \ {0}
      /\ NonceMod \in Nat \ {0} /\ MaxLoads \in Nat /\ MaxHolds \in Nat /\ Horizon \in Nat
  BY <1>1, UnrollFacts, FpgaMinerAssumption, CoreSearchAssumption DEF TypeInv
<1>3. LOOP_LOG2' \in LoopLog2s /\ age' \in 0 .. Horizon
  BY <1>1, <1>2, Clock DEF TypeInv
<1>4. core'.cnt \in 0 .. L - 1 /\ core'.feedback \in BOOLEAN
  <2>1. core'.cnt = (IF core.cnt + 1 = L THEN 0 ELSE core.cnt + 1)
    BY <1>1, Clock, CountFacts DEF TypeInv
  <2>2. core.cnt \in 0 .. L - 1
    BY <1>1 DEF TypeInv
  <2>3. core'.cnt \in 0 .. L - 1
    BY <1>2, <2>1, <2>2
  <2>4. core'.feedback = (core'.cnt # 0)
    BY <1>1, Clock
  <2>5. QED BY <2>3, <2>4
<1>5. /\ core'.feedback_d1 \in BOOLEAN /\ core'.start \in BOOLEAN
      /\ core'.ticket \in BOOLEAN
  BY <1>1, Clock DEF TypeInv
<1>6. header.job \in Jobs /\ header.nonce \in Nonces
  BY <1>1 DEF TypeInv, Messages
<1>7. NonceNext(LOOP_LOG2, core) \in Nonces
  <2>1. core.nonce + 1 \in Int
    BY <1>1, <1>2 DEF TypeInv, Nonces
  <2>2. (core.nonce + 1) % NonceMod \in Nonces
    BY <1>2, <2>1, ModDiv DEF Nonces
  <2>3. QED BY <1>1, <2>2 DEF TypeInv, NonceNext
<1>8. /\ core'.midstate \in Jobs /\ core'.data \in Messages /\ core'.nonce \in Nonces
  BY <1>1, <1>6, <1>7, Clock DEF TypeInv, Messages
<1>9. core'.golden_nonce \in Nonces
  <2>1. GoldenNonceOffset(LOOP_LOG2) \in Int
    BY <1>1, <1>2, UnrollFacts DEF TypeInv, Offset
  <2>2. core.nonce - GoldenNonceOffset(LOOP_LOG2) \in Int
    BY <1>1, <1>2, <2>1 DEF TypeInv, Nonces
  <2>3. (core.nonce - GoldenNonceOffset(LOOP_LOG2)) % NonceMod \in Nonces
    <3> DEFINE y == core.nonce - GoldenNonceOffset(LOOP_LOG2)
    <3> y \in Int
      BY <2>2
    <3> HIDE DEF y
    <3>1. y % NonceMod \in Nonces
      BY <1>2, ModDiv DEF Nonces
    <3>2. QED BY <3>1 DEF y
  <2>4. 0 \in Nonces
    BY <1>2 DEF Nonces
  <2>5. QED BY <1>1, <2>3, <2>4, Clock DEF TypeInv, GoldenNonceNext
<1>10. ASSUME NEW line \in [0 .. S - 1 -> Work \cup {Junk}]
       PROVE  Finished(LOOP_LOG2, line) \in Messages \cup {Junk}
  <2>1. line[S - 1] \in Work \cup {Junk}
    BY <1>2
  <2>2. QED BY <2>1 DEF Finished, S, Work
<1>11. core'.hash \in Messages \cup {Junk} /\ core'.hash2 \in Messages \cup {Junk}
  <2>1. core'.hash = FirstHash(LOOP_LOG2, core) /\ core'.hash2 = SecondHash(LOOP_LOG2, core)
    BY <1>1, Clock
  <2>2. core.hash \in Messages \cup {Junk} /\ core.hash2 \in Messages \cup {Junk}
    BY <1>1 DEF TypeInv
  <2>3. /\ Finished(LOOP_LOG2, core.line1) \in Messages \cup {Junk}
        /\ Finished(LOOP_LOG2, core.line2) \in Messages \cup {Junk}
    BY <1>1, <1>10 DEF TypeInv
  <2>4. QED BY <2>1, <2>2, <2>3 DEF FirstHash, SecondHash
<1>12. /\ core'.line1 \in [0 .. S - 1 -> Work \cup {Junk}]
       /\ core'.line2 \in [0 .. S - 1 -> Work \cup {Junk}]
  <2>1. /\ core'.line1 =
              Hashers(LOOP_LOG2, core.line1, core.feedback, core.cnt, Fresh(core.data))
        /\ core'.line2 =
              Hashers(LOOP_LOG2, core.line2, core.feedback, core.cnt, Fresh(core.hash))
    BY <1>1, Clock
  <2>2. /\ LOOP_LOG2 \in LoopLog2s /\ core.cnt \in 0 .. L - 1 /\ core.feedback \in BOOLEAN
        /\ core.line1 \in [0 .. S - 1 -> Work \cup {Junk}]
        /\ core.line2 \in [0 .. S - 1 -> Work \cup {Junk}]
        /\ core.data \in Messages \cup {Junk} /\ core.hash \in Messages \cup {Junk}
    BY <1>1 DEF TypeInv
  <2>3. core'.line1 \in [0 .. S - 1 -> Work \cup {Junk}]
    BY <2>1, <2>2, HashersType
  <2>4. core'.line2 \in [0 .. S - 1 -> Work \cup {Junk}]
    BY <2>1, <2>2, HashersType
  <2>5. QED BY <2>3, <2>4
<1>13. header' \in Messages /\ load_done' \in BOOLEAN
  <2>1. header' \in Headers \/ header' = header
    BY <1>1 DEF Next, Load, Run, Hold
  <2>2. load_done' \in {TRUE, FALSE, load_done}
    BY <1>1 DEF Next, Load, Run, Hold
  <2>3. QED BY <1>1, <2>1, <2>2, CoreSearchAssumption DEF TypeInv
<1>14. loads' \in 0 .. MaxLoads
  <2>1. (loads < MaxLoads /\ loads' = loads + 1) \/ loads' = loads
    BY <1>1 DEF Next, Load, Run, Hold
  <2>2. QED BY <1>1, <1>2, <2>1 DEF TypeInv
<1>15. holds' \in 0 .. MaxHolds
  <2>1. (holds < MaxHolds /\ holds' = holds + 1) \/ holds' = holds
    BY <1>1 DEF Next, Load, Run, Hold
  <2>2. QED BY <1>1, <1>2, <2>1 DEF TypeInv
<1>16. LOOP_LOG2' = LOOP_LOG2 /\ L' = L /\ S' = S
  BY <1>1, Clock
<1>17. QED
  BY <1>3, <1>4, <1>5, <1>8, <1>9, <1>11, <1>12, <1>13, <1>14, <1>15, <1>16
  DEF TypeInv, Work

LEMMA TypeInvariant == Spec => []TypeInv
<1>1. Init => TypeInv
  <2> SUFFICES ASSUME Init PROVE TypeInv
    OBVIOUS
  <2>2. LOOP_LOG2 \in LoopLog2s
    BY DEF Init
  <2>3. /\ L \in {1, 2, 4, 8, 16, 32} /\ S \in Nat \ {0}
        /\ NonceMod \in Nat \ {0} /\ MaxLoads \in Nat /\ MaxHolds \in Nat /\ Horizon \in Nat
    BY <2>2, UnrollFacts, FpgaMinerAssumption, CoreSearchAssumption
  <2>4. Idle \in Jobs /\ 0 \in Nonces /\ 0 \in 0 .. L - 1
    BY <2>3 DEF Jobs, Nonces
  <2>5. [job |-> Idle, nonce |-> 0] \in Messages
    BY <2>4 DEF Messages
  <2>6. [i \in 0 .. S - 1 |-> Junk] \in [0 .. S - 1 -> Work \cup {Junk}]
    OBVIOUS
  <2>7. /\ core.cnt \in 0 .. L - 1
        /\ core.feedback \in BOOLEAN /\ core.feedback_d1 \in BOOLEAN
        /\ core.start \in BOOLEAN /\ core.ticket \in BOOLEAN
        /\ core.midstate \in Jobs /\ core.data \in Messages
        /\ core.nonce \in Nonces /\ core.golden_nonce \in Nonces
        /\ core.hash = Junk /\ core.hash2 = Junk
    BY <2>4, <2>5 DEF Init, CoreInit
  <2>8. /\ core.line1 = [i \in 0 .. S - 1 |-> Junk]
        /\ core.line2 = [i \in 0 .. S - 1 |-> Junk]
    BY DEF Init, CoreInit, S
  <2>9. header \in Messages
    BY <2>5 DEF Init
  <2>10. /\ load_done \in BOOLEAN /\ loads \in 0 .. MaxLoads
         /\ holds \in 0 .. MaxHolds /\ age \in 0 .. Horizon
    <3>1. load_done \in BOOLEAN /\ loads = 0 /\ holds = 0 /\ age = 0
      BY DEF Init
    <3>2. 0 \in 0 .. MaxLoads /\ 0 \in 0 .. MaxHolds /\ 0 \in 0 .. Horizon
      BY <2>3
    <3>3. QED BY <3>1, <3>2
  <2>11. QED
    BY <2>2, <2>6, <2>7, <2>8, <2>9, <2>10 DEF TypeInv
<1>2. QED BY <1>1, TypeStep, PTL DEF Spec

\* The counters stay in range and the hash registers hold the hash of a
\* message or nothing valid, in every core and on every clock.
THEOREM TypeCorrect == Spec => []TypeOK
<1>1. TypeInv => TypeOK
  BY DEF TypeInv, TypeOK, L
<1>2. QED BY <1>1, TypeInvariant, PTL

(***************************************************************************)
(* What the pipelines hold                                                 *)
(***************************************************************************)

\* The message of the core d nonces ago.
Behind(c, d) == [job |-> c.midstate, nonce |-> (c.nonce - d) % NonceMod]

\* The rounds a stage has applied to its message.
Phase == IF core.cnt = 0 THEN L ELSE core.cnt

\* The counter moves on in the clock in which a stage finishes.
Lead == IF core.cnt = 0 THEN 1 ELSE 0

\* The flags that delay feedback, and the clock of the ticket.
ControlInv ==
  /\ core.feedback = (core.cnt # 0)
  /\ ~core.feedback_d1 => core.cnt = 1 % L
  /\ core.ticket => core.cnt = 2 % L

\* The first pipeline works on the message of data...
LineInv1 ==
  \A i \in 0 .. S - 1 :
    age >= 0 + Base(L, i) + Phase + 1 =>
      core.line1[i] = [msg |-> Behind(core, 0 + i + Lead), rounds |-> Base(L, i) + Phase]

\* ... and the second on what the first has hashed, in its own turn.
LineInv2 ==
  \A i \in 0 .. S - 1 :
    age >= (Rounds + L) + Base(L, i) + Phase + 1 =>
      core.line2[i] = [msg |-> Behind(core, (S + 1) + i + Lead), rounds |-> Base(L, i) + Phase]

HashInv1 == age >= Rounds + Phase + 1 => core.hash = Behind(core, S + Lead)

HashInv2 == age >= 2 * Rounds + L + Phase + 1 => core.hash2 = Behind(core, 2 * S + 1 + Lead)

\* A ticket is up for a golden message, in the clock that fits the offset.
TicketInv ==
  /\ age >= 1 /\ core.cnt = 1 % L => ~core.feedback_d1
  /\ age > Flush /\ core.cnt = 2 % L => core.ticket = (Behind(core, Offset) \in Golden)

DataInv == age >= 1 => core.data = Behind(core, 0)

PipeInv ==
  /\ ControlInv
  /\ DataInv
  /\ LineInv1
  /\ HashInv1
  /\ LineInv2
  /\ HashInv2
  /\ TicketInv

LEMMA Numbers ==
  ASSUME TypeInv
  PROVE  /\ S \in Nat \ {0} /\ L \in Nat \ {0} /\ Rounds \in Nat \ {0}
         /\ NonceMod \in Nat \ {0} /\ age \in Nat
<1>1. S \in Nat \ {0} /\ L \in {1, 2, 4, 8, 16, 32}
  BY UnrollFacts DEF TypeInv
<1>2. Rounds \in Nat \ {0} /\ NonceMod \in Nat \ {0} /\ Horizon \in Nat
  BY FpgaMinerAssumption, CoreSearchAssumption
<1>3. age \in 0 .. Horizon
  BY DEF TypeInv
<1>4. QED BY <1>1, <1>2, <1>3

LEMMA BehindType ==
  ASSUME TypeInv, NEW d \in Int
  PROVE  Behind(core, d) \in Messages /\ Behind(core, d) # Junk
<1>1. core.nonce \in Int /\ core.midstate \in Jobs /\ NonceMod \in Nat \ {0}
  BY FpgaMinerAssumption DEF TypeInv, Nonces
<1>2. (core.nonce - d) % NonceMod \in Nonces
  <2> DEFINE y == core.nonce - d
  <2> y \in Int
    BY <1>1
  <2> HIDE DEF y
  <2>1. y % NonceMod \in Nonces
    BY <1>1, ModDiv DEF Nonces
  <2>2. QED BY <2>1 DEF y
<1>3. QED BY <1>1, <1>2, CoreSearchAssumption DEF Behind, Messages

\* What a clock does to the phase, and when the ticket is due.
LEMMA PhaseStep ==
  ASSUME TypeInv, Next
  PROVE  /\ Phase' = (IF core.cnt = 0 THEN 1 ELSE Phase + 1)
         /\ Phase \in 1 .. L /\ Phase' \in 1 .. L
         /\ Lead \in {0, 1} /\ Lead' = (IF core'.cnt = 0 THEN 1 ELSE 0)
         /\ core.cnt = 0 => Phase = L /\ Lead = 1
         /\ core.cnt # 0 => Phase = core.cnt /\ Lead = 0
         /\ core'.cnt = 1 % L <=> core.cnt = 0
         /\ core'.cnt = 2 % L <=> core.cnt = 1 % L
<1>1. LOOP_LOG2 \in LoopLog2s /\ core.cnt \in 0 .. L - 1 /\ L \in {1, 2, 4, 8, 16, 32} /\ L' = L
  BY UnrollFacts, Clock DEF TypeInv
<1>2. /\ core'.cnt = (IF core.cnt + 1 = L THEN 0 ELSE core.cnt + 1)
      /\ 1 % L = (IF L = 1 THEN 0 ELSE 1)
      /\ 2 % L = (IF L \in {1, 2} THEN 0 ELSE 2)
  BY <1>1, Clock, CountFacts
<1>3. Phase' = (IF core'.cnt = 0 THEN L ELSE core'.cnt)
  BY <1>1 DEF Phase
<1>4. Lead' = (IF core'.cnt = 0 THEN 1 ELSE 0)
  BY DEF Lead
<1>5. QED BY <1>1, <1>2, <1>3, <1>4 DEF Phase, Lead

\* A clock leaves a message of the pipeline as far behind the counter as it
\* was, or one further when the counter moves on.
LEMMA BehindStep ==
  ASSUME TypeInv, Next, ~core.start, NEW d \in Int
  PROVE  Behind(core', d + Lead') = Behind(core, d)
<1>1. /\ core'.midstate = core.midstate
      /\ core'.nonce = (IF core'.cnt # 0 THEN core.nonce ELSE (core.nonce + 1) % NonceMod)
      /\ core.nonce \in Int /\ NonceMod \in Nat \ {0}
  BY Clock, FpgaMinerAssumption DEF TypeInv, Nonces
<1>2. CASE core'.cnt # 0
  BY <1>1, <1>2, PhaseStep DEF Behind
<1>3. CASE core'.cnt = 0
  <2>1. core'.nonce = (core.nonce + 1) % NonceMod /\ Lead' = 1
    BY <1>1, <1>3, PhaseStep
  <2>2. (((core.nonce + 1) % NonceMod) + (-(d + 1))) % NonceMod
          = ((core.nonce + 1) + (-(d + 1))) % NonceMod
    <3> DEFINE y == core.nonce + 1
               z == -(d + 1)
    <3> y \in Int /\ z \in Int
      BY <1>1
    <3> HIDE DEF y, z
    <3>1. ((y % NonceMod) + z) % NonceMod = (y + z) % NonceMod
      BY <1>1, ModSum
    <3>2. QED BY <3>1 DEF y, z
  <2>3. (core.nonce + 1) + (-(d + 1)) = core.nonce - d
    BY <1>1
  <2>4. core'.nonce - (d + 1) = core'.nonce + (-(d + 1))
    <3>1. core'.nonce \in Int
      BY <1>1, <2>1, ModDiv
    <3>2. QED BY <3>1
  <2>5. (core'.nonce - (d + 1)) % NonceMod = (core.nonce - d) % NonceMod
    BY <2>1, <2>2, <2>3, <2>4
  <2>6. QED BY <1>1, <2>1, <2>5 DEF Behind
<1>4. QED BY <1>2, <1>3

\* One pipeline, with its input: a clocks late and k messages behind.
LEMMA LineStep ==
  ASSUME TypeInv, Next, ~core.start, ControlInv,
         NEW a \in Nat, NEW k \in Nat, NEW line, NEW msg,
         \A i \in 0 .. S - 1 :
           age >= a + Base(L, i) + Phase + 1 =>
             line[i] = [msg |-> Behind(core, k + i + Lead), rounds |-> Base(L, i) + Phase],
         age >= a + 1 /\ core.cnt = 0 => msg = Behind(core, k)
  PROVE  \A i \in 0 .. S - 1 :
           age' >= a + Base(L, i) + Phase' + 1 =>
             Hashers(LOOP_LOG2, line, core.feedback, core.cnt, Fresh(msg))[i]
               = [msg |-> Behind(core', k + i + Lead'), rounds |-> Base(L, i) + Phase']
<1> SUFFICES ASSUME NEW i \in 0 .. S - 1, age' >= a + Base(L, i) + Phase' + 1
             PROVE  Hashers(LOOP_LOG2, line, core.feedback, core.cnt, Fresh(msg))[i]
                      = [msg |-> Behind(core', k + i + Lead'), rounds |-> Base(L, i) + Phase']
  OBVIOUS
<1>1. /\ S \in Nat \ {0} /\ L \in Nat \ {0} /\ age' = age + 1 /\ age \in Nat
      /\ i \in Nat /\ Base(L, i) \in Nat /\ core.feedback = (core.cnt # 0)
  <2>1. S \in Nat \ {0} /\ L \in Nat \ {0} /\ age \in Nat /\ i \in Nat
    BY Numbers
  <2>2. age' = age + 1
    BY Clock
  <2>3. Base(L, i) \in Nat
    BY <2>1, BaseFacts DEF TypeInv
  <2>4. QED BY <2>1, <2>2, <2>3 DEF ControlInv
<1> DEFINE in == IF core.feedback THEN line[i] ELSE IF i = 0 THEN Fresh(msg) ELSE line[i - 1]
           m  == Behind(core, k + i)
<1>2. Hashers(LOOP_LOG2, line, core.feedback, core.cnt, Fresh(msg))[i]
        = Digest(LOOP_LOG2, i, core.cnt, in)
  BY DEF Hashers, S
<1>3. Behind(core', k + i + Lead') = m /\ m \in Messages /\ m # Junk
  BY <1>1, BehindStep, BehindType
<1>4. in = [msg |-> m, rounds |-> Base(L, i) + core.cnt] /\ Phase' = core.cnt + 1
  <2>1. CASE core.cnt # 0
    <3>1. core.feedback /\ Phase = core.cnt /\ Lead = 0 /\ Phase' = core.cnt + 1
      BY <1>1, <2>1, PhaseStep
    <3>2. age >= a + Base(L, i) + Phase + 1 /\ k + i + Lead = k + i
      BY <1>1, <2>1, <3>1 DEF TypeInv
    <3>3. line[i] = [msg |-> Behind(core, k + i), rounds |-> Base(L, i) + core.cnt]
      BY <3>1, <3>2
    <3>4. QED BY <3>1, <3>3
  <2>2. CASE core.cnt = 0 /\ i = 0
    <3>1. ~core.feedback /\ Phase' = 1 /\ Base(L, i) = 0
      BY <1>1, <2>2, PhaseStep, BaseFacts DEF TypeInv
    <3>2. age >= a + 1 /\ k + i = k
      BY <1>1, <2>2, <3>1
    <3>3. msg = m
      BY <2>2, <3>2
    <3>4. Fresh(msg) = [msg |-> m, rounds |-> 0]
      BY <1>3, <3>3 DEF Fresh
    <3>5. QED BY <2>2, <3>1, <3>4
  <2>3. CASE core.cnt = 0 /\ i # 0
    <3>1. ~core.feedback /\ Phase' = 1 /\ Phase = L /\ Lead = 1
      BY <1>1, <2>3, PhaseStep
    <3>2. i - 1 \in 0 .. S - 1 /\ i - 1 \in Nat /\ (i - 1) + 1 = i
      BY <1>1, <2>3
    <3>3. Base(L, i - 1) \in Nat /\ Base(L, i) = Base(L, i - 1) + L
      BY <3>2, BaseFacts DEF TypeInv
    <3>4. age >= a + Base(L, i - 1) + Phase + 1 /\ k + (i - 1) + Lead = k + i
      BY <1>1, <3>1, <3>3
    <3>5. line[i - 1] = [msg |-> Behind(core, k + i), rounds |-> Base(L, i)]
      <4>1. line[i - 1] = [msg |-> Behind(core, k + (i - 1) + Lead), rounds |-> Base(L, i - 1) + Phase]
        BY <3>2, <3>4
      <4>2. QED BY <3>1, <3>3, <3>4, <4>1
    <3>6. Base(L, i) + core.cnt = Base(L, i)
      BY <1>1, <2>3
    <3>7. QED BY <2>3, <3>1, <3>5, <3>6
  <2>4. QED BY <2>1, <2>2, <2>3
<1>5. in # Junk
  <2>1. Base(L, i) + core.cnt \in 0 .. Rounds
    <3>1. Base(L, i) + L <= Rounds /\ core.cnt \in 0 .. L - 1 /\ Rounds \in Nat
      BY BaseFacts, FpgaMinerAssumption DEF TypeInv
    <3>2. QED BY <1>1, <3>1
  <2>2. in \in [msg : Messages, rounds : 0 .. Rounds]
    BY <1>3, <1>4, <2>1
  <2>3. QED BY <2>2, CoreSearchAssumption
<1>6. Digest(LOOP_LOG2, i, core.cnt, in) = [msg |-> m, rounds |-> Base(L, i) + core.cnt + 1]
  <2>1. in.rounds = i * LOOP(LOOP_LOG2) + core.cnt
    BY <1>4 DEF Base, L
  <2>2. Digest(LOOP_LOG2, i, core.cnt, in) = [in EXCEPT !.rounds = @ + 1]
    BY <1>5, <2>1 DEF Digest
  <2>3. QED BY <1>4, <2>2
<1>7. Base(L, i) + core.cnt + 1 = Base(L, i) + Phase'
  BY <1>1, <1>4 DEF TypeInv
<1>8. QED BY <1>2, <1>3, <1>6, <1>7

\* What leaves a pipeline.
LEMMA LineEnd ==
  ASSUME TypeInv, Next, core.cnt = 0,
         NEW a \in Nat, NEW k \in Nat, NEW line,
         \A i \in 0 .. S - 1 :
           age >= a + Base(L, i) + Phase + 1 =>
             line[i] = [msg |-> Behind(core, k + i + Lead), rounds |-> Base(L, i) + Phase],
         age >= a + Rounds + 1
  PROVE  Finished(LOOP_LOG2, line) = Behind(core, k + S)
<1>1. /\ S \in Nat \ {0} /\ L \in Nat \ {0} /\ Rounds \in Nat \ {0} /\ age \in Nat
      /\ Phase = L /\ Lead = 1
  BY Numbers, PhaseStep
<1>2. S - 1 \in 0 .. S - 1 /\ S - 1 \in Nat /\ (S - 1) + 1 = S
  BY <1>1
<1>3. Base(L, S - 1) + L = Rounds /\ Base(L, S - 1) \in Nat
  BY <1>2, BaseFacts DEF TypeInv
<1>4. age >= a + Base(L, S - 1) + Phase + 1 /\ k + (S - 1) + Lead = k + S
  BY <1>1, <1>3
<1>5. line[S - 1] = [msg |-> Behind(core, k + S), rounds |-> Rounds]
  <2>1. line[S - 1]
          = [msg |-> Behind(core, k + (S - 1) + Lead), rounds |-> Base(L, S - 1) + Phase]
    BY <1>2, <1>4
  <2>2. QED BY <1>1, <1>3, <1>4, <2>1
<1>6. line[S - 1] # Junk
  <2>1. Behind(core, k + S) \in Messages /\ Rounds \in 0 .. Rounds
    BY <1>1, BehindType
  <2>2. line[S - 1] \in [msg : Messages, rounds : 0 .. Rounds]
    BY <1>5, <2>1
  <2>3. QED BY <2>2, CoreSearchAssumption
<1>7. QED BY <1>5, <1>6 DEF Finished, S

\* The flags follow cnt by one clock and by two.
LEMMA ControlStep ==
  ASSUME TypeInv, ControlInv, Next
  PROVE  ControlInv' /\ (core'.feedback_d1 = (core.cnt # 0)) /\ L' = L
<1>1. L' = L /\ core'.feedback = (core'.cnt # 0) /\ core'.feedback_d1 = core.feedback
      /\ core'.ticket = (core.hash2 \in Golden /\ ~core.feedback_d1)
  BY Clock
<1>2. core.feedback = (core.cnt # 0) /\ (~core.feedback_d1 => core.cnt = 1 % L)
  BY DEF ControlInv
<1>3. (core'.cnt = 1 % L <=> core.cnt = 0) /\ (core'.cnt = 2 % L <=> core.cnt = 1 % L)
  BY PhaseStep
<1>4. QED BY <1>1, <1>2, <1>3 DEF ControlInv

\* In a clock without a start the messages move on one place.
LEMMA PipeMoves ==
  ASSUME TypeInv, PipeInv, Next, ~core.start
  PROVE  PipeInv'
<1>1. /\ S \in Nat \ {0} /\ L \in Nat \ {0} /\ Rounds \in Nat \ {0} /\ age \in Nat
      /\ L' = L /\ S' = S /\ age' = age + 1 /\ LOOP_LOG2' = LOOP_LOG2
      /\ core.cnt \in 0 .. L - 1
  <2>1. core.cnt \in 0 .. L - 1
    BY DEF TypeInv
  <2>2. QED BY <2>1, Numbers, Clock
<1>2. /\ ControlInv /\ ControlInv' /\ core.feedback = (core.cnt # 0)
      /\ core'.feedback_d1 = (core.cnt # 0)
  <2>1. ControlInv
    BY DEF PipeInv
  <2>2. QED BY <2>1, ControlStep DEF ControlInv
<1>3. /\ Phase \in 1 .. L
      /\ core.cnt = 0 => Phase = L /\ Lead = 1 /\ Phase' = 1
      /\ core.cnt # 0 => Phase = core.cnt /\ Lead = 0 /\ Phase' = Phase + 1
  BY PhaseStep
<1>4. DataInv'
  <2>1. core'.data = [job |-> core.midstate, nonce |-> core'.nonce]
        /\ core'.midstate = core.midstate
    BY Clock
  <2>2. core'.nonce \in Nonces
    BY TypeStep DEF TypeInv
  <2>3. (core'.nonce - 0) % NonceMod = core'.nonce
    BY <2>2, Numbers, ModSmall DEF Nonces
  <2>4. QED BY <2>1, <2>3 DEF DataInv, Behind
<1>5. LineInv1'
  <2>1. age >= 0 + 1 /\ core.cnt = 0 => core.data = Behind(core, 0)
    BY <1>1 DEF PipeInv, DataInv
  <2>2. \A i \in 0 .. S - 1 :
           age >= 0 + Base(L, i) + Phase + 1 =>
             core.line1[i] = [msg |-> Behind(core, 0 + i + Lead), rounds |-> Base(L, i) + Phase]
    BY DEF PipeInv, LineInv1
  <2>3. \A i \in 0 .. S - 1 :
           age' >= 0 + Base(L, i) + Phase' + 1 =>
             Hashers(LOOP_LOG2, core.line1, core.feedback, core.cnt, Fresh(core.data))[i]
               = [msg |-> Behind(core', 0 + i + Lead'), rounds |-> Base(L, i) + Phase']
    BY <1>2, <2>1, <2>2, LineStep
  <2>4. core'.line1 = Hashers(LOOP_LOG2, core.line1, core.feedback, core.cnt, Fresh(core.data))
    BY Clock
  <2>5. QED BY <1>1, <2>3, <2>4 DEF LineInv1
<1>6. LineInv2'
  <2>1. age >= (Rounds + L) + 1 /\ core.cnt = 0 => core.hash = Behind(core, S + 1)
    BY <1>1, <1>3 DEF PipeInv, HashInv1
  <2>2. \A i \in 0 .. S - 1 :
           age >= (Rounds + L) + Base(L, i) + Phase + 1 =>
             core.line2[i]
               = [msg |-> Behind(core, (S + 1) + i + Lead), rounds |-> Base(L, i) + Phase]
    BY DEF PipeInv, LineInv2
  <2>3. Rounds + L \in Nat /\ S + 1 \in Nat
    BY <1>1
  <2>4. \A i \in 0 .. S - 1 :
           age' >= (Rounds + L) + Base(L, i) + Phase' + 1 =>
             Hashers(LOOP_LOG2, core.line2, core.feedback, core.cnt, Fresh(core.hash))[i]
               = [msg |-> Behind(core', (S + 1) + i + Lead'), rounds |-> Base(L, i) + Phase']
    BY <1>2, <2>1, <2>2, <2>3, LineStep
  <2>5. core'.line2 = Hashers(LOOP_LOG2, core.line2, core.feedback, core.cnt, Fresh(core.hash))
    BY Clock
  <2>6. QED BY <1>1, <2>4, <2>5 DEF LineInv2
<1>7. ASSUME NEW d \in Int PROVE Behind(core', d + Lead') = Behind(core, d)
  BY <1>7, BehindStep
<1>8. HashInv1'
  <2> SUFFICES ASSUME age' >= Rounds + Phase' + 1 PROVE core'.hash = Behind(core', S + Lead')
    BY <1>1 DEF HashInv1
  <2>1. core'.hash = FirstHash(LOOP_LOG2, core)
    BY Clock
  <2>2. CASE core.cnt # 0
    <3>1. core'.hash = core.hash
      BY <1>2, <2>1, <2>2 DEF FirstHash
    <3>2. age >= Rounds + Phase + 1
      BY <1>1, <1>3, <2>2
    <3>3. core.hash = Behind(core, S + Lead) /\ S + Lead = S
      BY <1>1, <1>3, <2>2, <3>2 DEF PipeInv, HashInv1
    <3>4. QED BY <1>1, <1>7, <3>1, <3>3
  <2>3. CASE core.cnt = 0
    <3>1. age >= 0 + Rounds + 1 /\ age >= 1
      BY <1>1, <1>3, <2>3
    <3>2. \A i \in 0 .. S - 1 :
             age >= 0 + Base(L, i) + Phase + 1 =>
               core.line1[i] = [msg |-> Behind(core, 0 + i + Lead), rounds |-> Base(L, i) + Phase]
      BY DEF PipeInv, LineInv1
    <3>3. Finished(LOOP_LOG2, core.line1) = Behind(core, 0 + S)
      BY <2>3, <3>1, <3>2, LineEnd
    <3>4. core.data = Behind(core, 0)
      BY <3>1 DEF PipeInv, DataInv
    <3>5. Behind(core, 0 + S) = Behind(core, S) /\ Behind(core, S) # Junk
      BY <1>1, BehindType
    <3>6. core'.hash = Behind(core, S)
      <4>1. ~core.feedback
        BY <1>2, <2>3
      <4>2. Finished(LOOP_LOG2, core.line1) = Behind(core, S) /\ Behind(core, S) # Junk
        BY <3>3, <3>5
      <4>3. Behind(core, S).job = core.data.job
        BY <3>4 DEF Behind
      <4>4. QED BY <2>1, <4>1, <4>2, <4>3 DEF FirstHash
    <3>7. QED BY <1>1, <1>7, <3>6
  <2>4. QED BY <2>2, <2>3
<1>9. HashInv2'
  <2> SUFFICES ASSUME age' >= 2 * Rounds + L + Phase' + 1
               PROVE  core'.hash2 = Behind(core', 2 * S + 1 + Lead')
    BY <1>1 DEF HashInv2
  <2>1. core'.hash2 = SecondHash(LOOP_LOG2, core)
    BY Clock
  <2>2. CASE core.cnt # 0
    <3>1. core'.hash2 = core.hash2
      BY <1>2, <2>1, <2>2 DEF SecondHash
    <3>2. age >= 2 * Rounds + L + Phase + 1
      BY <1>1, <1>3, <2>2
    <3>3. core.hash2 = Behind(core, 2 * S + 1 + Lead) /\ 2 * S + 1 + Lead = 2 * S + 1
      BY <1>1, <1>3, <2>2, <3>2 DEF PipeInv, HashInv2
    <3>4. QED BY <1>1, <1>7, <3>1, <3>3
  <2>3. CASE core.cnt = 0
    <3>1. age >= (Rounds + L) + Rounds + 1
      BY <1>1, <1>3, <2>3
    <3>2. \A i \in 0 .. S - 1 :
             age >= (Rounds + L) + Base(L, i) + Phase + 1 =>
               core.line2[i]
                 = [msg |-> Behind(core, (S + 1) + i + Lead), rounds |-> Base(L, i) + Phase]
      BY DEF PipeInv, LineInv2
    <3>3. Rounds + L \in Nat /\ S + 1 \in Nat /\ (S + 1) + S = 2 * S + 1
      BY <1>1
    <3>4. Finished(LOOP_LOG2, core.line2) = Behind(core, (S + 1) + S)
      BY <2>3, <3>1, <3>2, <3>3, LineEnd
    <3>5. core'.hash2 = Behind(core, 2 * S + 1)
      BY <1>2, <2>1, <2>3, <3>3, <3>4 DEF SecondHash
    <3>6. QED BY <1>1, <1>7, <3>5
  <2>4. QED BY <2>2, <2>3
<1>10. TicketInv'
  <2>1. (core'.cnt = 1 % L <=> core.cnt = 0) /\ (core'.cnt = 2 % L <=> core.cnt = 1 % L)
    BY PhaseStep
  <2>2. age' >= 1 /\ core'.cnt = 1 % L => ~core'.feedback_d1
    BY <1>2, <2>1
  <2>3. Flush' = Flush /\ Offset' = Offset /\ Flush = 2 * Rounds + L + 2
    BY <1>1 DEF Flush, Offset, L
  <2>4. ASSUME age' > Flush, core'.cnt = 2 % L
        PROVE  core'.ticket = (Behind(core', Offset) \in Golden)
    <3>1. core.cnt = 1 % L /\ age >= 2 * Rounds + L + 2 /\ age >= 1
      BY <1>1, <2>1, <2>3, <2>4
    <3>2. ~core.feedback_d1
      BY <3>1 DEF PipeInv, TicketInv
    <3>3. core'.ticket = (core.hash2 \in Golden /\ ~core.feedback_d1)
      BY Clock
    <3>4. /\ L \in {1, 2, 4, 8, 16, 32}
          /\ Offset = 2 * S + (IF L = 1 THEN 3 ELSE IF L = 2 THEN 2 ELSE 1)
          /\ core'.cnt = (IF core.cnt + 1 = L THEN 0 ELSE core.cnt + 1)
          /\ 1 % L = (IF L = 1 THEN 0 ELSE 1)
      BY UnrollFacts, CountFacts, Clock DEF TypeInv
    <3>5. Phase = 1
      BY <1>3, <3>1, <3>4
    <3>6. core.hash2 = Behind(core, 2 * S + 1 + Lead)
      BY <1>1, <3>1, <3>5 DEF PipeInv, HashInv2
    <3>7. 2 * S + 1 + Lead + Lead' = Offset
      BY <1>1, <1>3, <3>1, <3>4, PhaseStep
    <3>8. Behind(core', Offset) = core.hash2
      <4>1. 2 * S + 1 + Lead \in Int
        BY <1>1, PhaseStep
      <4>2. QED BY <1>7, <3>6, <3>7, <4>1
    <3>9. QED BY <3>2, <3>3, <3>8
  <2>5. QED BY <1>1, <2>2, <2>3, <2>4 DEF TicketInv
<1>11. QED BY <1>2, <1>4, <1>5, <1>6, <1>8, <1>9, <1>10 DEF PipeInv

\* While the age is zero nothing is said about the pipelines.
LEMMA PipeStarts == TypeInv /\ ControlInv /\ age = 0 => PipeInv
<1> SUFFICES ASSUME TypeInv, ControlInv, age = 0 PROVE PipeInv
  OBVIOUS
<1>1. /\ S \in Nat \ {0} /\ L \in Nat \ {0} /\ Rounds \in Nat \ {0}
      /\ \A i \in 0 .. S - 1 : Base(L, i) \in Nat
  <2>1. S \in Nat \ {0} /\ L \in Nat \ {0} /\ Rounds \in Nat \ {0}
    BY Numbers
  <2>2. QED BY <2>1, BaseFacts DEF TypeInv
<1>2. Phase \in 1 .. L
  BY <1>1 DEF Phase, TypeInv
<1>3. ~(age >= 1)
  OBVIOUS
<1>4. \A i \in 0 .. S - 1 : /\ ~(age >= 0 + Base(L, i) + Phase + 1)
                            /\ ~(age >= (Rounds + L) + Base(L, i) + Phase + 1)
  BY <1>1, <1>2
<1>5. ~(age >= Rounds + Phase + 1) /\ ~(age >= 2 * Rounds + L + Phase + 1)
  BY <1>1, <1>2
<1>6. ~(age > Flush)
  BY <1>1 DEF Flush, L
<1>7. QED
  BY <1>3, <1>4, <1>5, <1>6
  DEF PipeInv, DataInv, LineInv1, LineInv2, HashInv1, HashInv2, TicketInv

LEMMA PipeStep == TypeInv /\ PipeInv /\ [Next]_vars => PipeInv'
<1> SUFFICES ASSUME TypeInv, PipeInv, [Next]_vars PROVE PipeInv'
  OBVIOUS
<1>1. CASE UNCHANGED vars
  BY <1>1 DEF vars, PipeInv, ControlInv, DataInv, LineInv1, LineInv2, HashInv1, HashInv2,
              TicketInv, Phase, Lead, L, S, Flush, Offset
<1>2. CASE Next /\ ~core.start
  BY <1>2, PipeMoves
<1>3. CASE Next /\ core.start
  <2>1. ControlInv'
    BY <1>3, ControlStep DEF PipeInv
  <2>2. (age = 0)' /\ TypeInv'
    BY <1>3, Clock, TypeStep
  <2>3. QED BY <2>1, <2>2, PipeStarts, PTL
<1>4. QED BY <1>1, <1>2, <1>3

LEMMA PipeInvariant == Spec => [](TypeInv /\ PipeInv)
<1>1. Init /\ TypeInv => PipeInv
  <2> SUFFICES ASSUME Init, TypeInv PROVE PipeInv
    OBVIOUS
  <2>1. age = 0
    BY DEF Init
  <2>2. ControlInv
    BY DEF Init, CoreInit, ControlInv
  <2>3. QED BY <2>1, <2>2, PipeStarts
<1>2. QED BY <1>1, PipeStep, TypeInvariant, PTL DEF Spec

\* The nonce a core computes from its running counter when a ticket is up is
\* the nonce whose double hash was valid.
THEOREM TicketsNameNonces == Spec => TicketNamesNonce
<1>1. TypeInv /\ PipeInv /\ [Next]_vars =>
        [core.ticket /\ Mining => [job |-> core.midstate, nonce |-> core'.golden_nonce] \in Golden]_vars
  <2> SUFFICES ASSUME TypeInv, PipeInv, Next, core.ticket, Mining
               PROVE  [job |-> core.midstate, nonce |-> core'.golden_nonce] \in Golden
    OBVIOUS
  <2>1. core.cnt = 2 % L /\ age > Flush
    BY DEF PipeInv, ControlInv, Mining
  <2>2. Behind(core, Offset) \in Golden
    BY <2>1 DEF PipeInv, TicketInv
  <2>3. core'.golden_nonce = (core.nonce - Offset) % NonceMod
    BY Clock DEF GoldenNonceNext, Offset
  <2>4. QED BY <2>2, <2>3 DEF Behind
<1>2. QED BY <1>1, PipeInvariant, PTL DEF Spec, TicketNamesNonce

(***************************************************************************)
(* Which golden nonce is shown                                             *)
(***************************************************************************)

\* How many nonces after h a nonce is tried.
Dist(n, h) == (n - h) % NonceMod

\* A distance is less than the number of nonces.
LEMMA DistType ==
  ASSUME NEW n \in Int, NEW h \in Int
  PROVE  Dist(n, h) \in Nonces
<1> DEFINE y == n - h
<1> y \in Int
  OBVIOUS
<1> HIDE DEF y
<1>1. y % NonceMod \in Nonces
  BY FpgaMinerAssumption, ModDiv DEF Nonces
<1>2. QED BY <1>1 DEF Dist, y

\* Going on from a nonce, or back, is the same for its distance.
LEMMA DistShift ==
  ASSUME NEW n \in Int, NEW h \in Int, NEW d \in Int
  PROVE  Dist((n + d) % NonceMod, h) = (Dist(n, h) + d) % NonceMod
<1> DEFINE y == n + d
           z == -h
           w == n - h
           M == NonceMod
<1>1. y \in Int /\ z \in Int /\ w \in Int /\ M \in Nat \ {0} /\ y + z = w + d
  BY FpgaMinerAssumption
<1>2. ((y % M) + z) % M = ((w % M) + d) % M
  <2> HIDE DEF y, z, w, M
  <2>1. ((y % M) + z) % M = (y + z) % M
    BY <1>1, ModSum
  <2>2. ((w % M) + d) % M = (w + d) % M
    BY <1>1, ModSum
  <2>3. QED BY <1>1, <2>1, <2>2
<1>3. (y % M) - h = (y % M) + z
  <2>1. (y % M) \in Int
    <3> HIDE DEF y, M
    <3>1. QED BY <1>1, ModDiv
  <2> DEFINE x == y % M
  <2> HIDE DEF x
  <2>2. x - h = x + (-h)
    BY <2>1 DEF x
  <2>3. QED BY <2>2 DEF x
<1>4. QED BY <1>2, <1>3 DEF Dist

\* The next nonce is one further, or back at the start.
LEMMA DistNext ==
  ASSUME NEW n \in Nonces, NEW h \in Nonces
  PROVE  Dist((n + 1) % NonceMod, h) = (IF Dist(n, h) + 1 = NonceMod THEN 0 ELSE Dist(n, h) + 1)
<1>1. NonceMod \in Nat \ {0} /\ n \in Int /\ h \in Int
  BY FpgaMinerAssumption DEF Nonces
<1> DEFINE d == Dist(n, h)
<1>2. d \in 0 .. NonceMod - 1 /\ Dist((n + 1) % NonceMod, h) = (d + 1) % NonceMod
  BY <1>1, DistType, DistShift DEF Nonces
<1> HIDE DEF d
<1>3. CASE d + 1 = NonceMod
  <2>1. NonceMod = NonceMod * 1 + 0 /\ 0 \in 0 .. NonceMod - 1
    BY <1>1
  <2>2. NonceMod % NonceMod = 0
    BY <1>1, <2>1, ModUnique
  <2>3. QED BY <1>2, <1>3, <2>2 DEF d
<1>4. CASE d + 1 # NonceMod
  <2>1. d + 1 \in 0 .. NonceMod - 1
    BY <1>1, <1>2, <1>4
  <2>2. (d + 1) % NonceMod = d + 1
    BY <1>1, <2>1, ModSmall
  <2>3. QED BY <1>2, <1>4, <2>2 DEF d
<1>5. QED BY <1>3, <1>4

\* Going back o nonces.
LEMMA DistBack ==
  ASSUME NEW n \in Nonces, NEW h \in Nonces, NEW o \in Nat, Dist(n, h) >= o
  PROVE  Dist((n - o) % NonceMod, h) = Dist(n, h) - o
<1>1. NonceMod \in Nat \ {0} /\ n \in Int /\ h \in Int /\ -o \in Int /\ n - o = n + (-o)
  BY FpgaMinerAssumption DEF Nonces
<1> DEFINE d == Dist(n, h)
<1>2. d \in 0 .. NonceMod - 1 /\ Dist((n - o) % NonceMod, h) = (d + (-o)) % NonceMod
  BY <1>1, DistType, DistShift DEF Nonces
<1>3. d >= o
  OBVIOUS
<1> HIDE DEF d
<1>4. d + (-o) \in 0 .. NonceMod - 1 /\ d + (-o) = d - o
  BY <1>1, <1>2, <1>3
<1>5. (d + (-o)) % NonceMod = d - o
  BY <1>1, <1>4, ModSmall
<1>6. QED BY <1>2, <1>5 DEF d

\* Two nonces at the same distance are one.
LEMMA DistOne ==
  ASSUME NEW n \in Nonces, NEW m \in Nonces, NEW h \in Nonces, Dist(n, h) = Dist(m, h)
  PROVE  n = m
<1>1. NonceMod \in Nat \ {0} /\ n \in 0 .. NonceMod - 1 /\ m \in 0 .. NonceMod - 1 /\ h \in Int
  BY FpgaMinerAssumption DEF Nonces
<1> DEFINE y == n - h
           z == m - h
           p == y \div NonceMod
           q == z \div NonceMod
<1>2. y \in Int /\ z \in Int /\ y % NonceMod = z % NonceMod /\ y - z = n - m
  BY <1>1 DEF Dist
<1>3. /\ p \in Int /\ y = NonceMod * p + (y % NonceMod)
      /\ q \in Int /\ z = NonceMod * q + (z % NonceMod)
      /\ (y % NonceMod) \in Int
  <2> HIDE DEF y, z
  <2>1. QED BY <1>1, <1>2, ModDiv
<1> HIDE DEF y, z, p, q
<1>4. n - m = NonceMod * (p - q) /\ p - q \in Int
  BY <1>1, <1>2, <1>3
<1>5. p - q < 1 /\ p - q > -1
  BY <1>1, <1>4, Multiples
<1>6. p - q = 0
  BY <1>4, <1>5
<1>7. QED BY <1>1, <1>4, <1>6

\* The core has not yet taken the header that stands in the register.
Taking == load_done \/ core.start

\* How far the counter is from the start nonce of the header.
D == Dist(core.nonce, header.nonce)

\* Every nonce the counter has left behind since took LOOP clocks.
CountInv == ~Taking /\ D > 0 => age >= core.cnt + 1 + Base(L, D - 1)

\* The distances whose ticket has been taken, less the pipeline delay.
Passed == IF core.cnt > 2 % L THEN D + 1 ELSE D

GoldenInv ==
  ~Taking =>
    \A n \in Nonces :
      /\ [job |-> core.midstate, nonce |-> n] \in Golden
      /\ Dist(n, header.nonce) > 0 /\ Dist(n, header.nonce) + Offset < Passed
      => /\ [job |-> core.midstate, nonce |-> core.golden_nonce] \in Golden
         /\ Dist(core.golden_nonce, header.nonce) >= Dist(n, header.nonce)

\* A core that has taken its header has done so in a start, and the header
\* register keeps it.
LEMMA Taken ==
  ASSUME Next, ~Taking'
  PROVE  header' = header /\ ~load_done' /\ ~core'.start /\ (Taking => core.start)
<1>1. ~load_done' /\ ~core'.start
  BY DEF Taking
<1>2. Run
  BY <1>1 DEF Next, Load, Hold
<1>3. core'.start = (~core.start /\ load_done)
  BY Clock
<1>4. QED BY <1>1, <1>2, <1>3 DEF Run, Taking

\* What a clock does to the distance of the counter.
LEMMA DStep ==
  ASSUME TypeInv, Next, ~Taking'
  PROVE  /\ D \in 0 .. NonceMod - 1 /\ D' = Dist(core'.nonce, header.nonce)
         /\ core.start => D' = 0
         /\ ~core.start /\ core'.cnt # 0 => D' = D
         /\ ~core.start /\ core'.cnt = 0 => D' = (IF D + 1 = NonceMod THEN 0 ELSE D + 1)
<1>1. header' = header
  BY Taken
<1>2. D' = Dist(core'.nonce, header.nonce)
  BY <1>1 DEF D
<1>3. core.nonce \in Nonces /\ header.nonce \in Nonces
  BY DEF TypeInv, Messages
<1>4. D \in 0 .. NonceMod - 1
  <2>1. core.nonce \in Int /\ header.nonce \in Int
    BY <1>3 DEF Nonces
  <2>2. QED BY <2>1, DistType DEF D, Nonces
<1>5. core'.nonce = (IF core.start THEN header.nonce
                     ELSE IF core'.cnt # 0 THEN core.nonce ELSE (core.nonce + 1) % NonceMod)
  BY Clock
<1>6. core.start => D' = 0
  <2>1. header.nonce - header.nonce = 0 /\ 0 % NonceMod = 0
    BY <1>3, FpgaMinerAssumption DEF Nonces
  <2>2. QED BY <1>2, <1>5, <2>1 DEF Dist
<1>7. ~core.start /\ core'.cnt # 0 => D' = D
  BY <1>2, <1>5 DEF D
<1>8. ~core.start /\ core'.cnt = 0 => D' = (IF D + 1 = NonceMod THEN 0 ELSE D + 1)
  BY <1>2, <1>3, <1>5, DistNext DEF D
<1>9. QED BY <1>2, <1>4, <1>6, <1>7, <1>8

LEMMA CountStep == TypeInv /\ CountInv /\ [Next]_vars => CountInv'
<1> SUFFICES ASSUME TypeInv, CountInv, [Next]_vars PROVE CountInv'
  OBVIOUS
<1>1. CASE UNCHANGED vars
  BY <1>1 DEF vars, CountInv, Taking, D, L
<1>2. CASE Next
  <2> SUFFICES ASSUME ~Taking', D' > 0
               PROVE  age' >= core'.cnt + 1 + Base(L, D' - 1)
    BY <1>2, Clock DEF CountInv
  <2>1. ~core.start /\ ~Taking /\ D \in Nat
    BY <1>2, DStep, Taken, Numbers
  <2>2. /\ L \in Nat \ {0} /\ age \in Nat /\ age' = age + 1
        /\ core.cnt \in 0 .. L - 1
        /\ core'.cnt = (IF core.cnt + 1 = L THEN 0 ELSE core.cnt + 1)
    BY <1>2, <2>1, Numbers, Clock, CountFacts DEF TypeInv
  <2>3. D > 0 => age >= core.cnt + 1 + Base(L, D - 1)
    BY <2>1 DEF CountInv
  <2>4. CASE core'.cnt # 0
    <3>1. D' = D /\ core'.cnt = core.cnt + 1
      BY <1>2, <2>1, <2>2, <2>4, DStep
    <3>2. Base(L, D - 1) \in Nat
      <4>1. D - 1 \in Nat
        BY <2>1, <3>1
      <4>2. QED BY <4>1, BaseFacts DEF TypeInv
    <3>3. QED BY <2>2, <2>3, <3>1, <3>2
  <2>5. CASE core'.cnt = 0
    <3>1. D' = D + 1 /\ core.cnt + 1 = L /\ D' - 1 = D
      BY <1>2, <2>1, <2>2, <2>5, DStep
    <3>2. CASE D = 0
      BY <2>2, <2>5, <3>1, <3>2, BaseFacts DEF TypeInv
    <3>3. CASE D > 0
      <4>1. D - 1 \in Nat /\ (D - 1) + 1 = D
        BY <2>1, <3>3
      <4>2. Base(L, D - 1) \in Nat /\ Base(L, D) = Base(L, D - 1) + L
        BY <4>1, BaseFacts DEF TypeInv
      <4>3. QED BY <2>2, <2>3, <2>5, <3>1, <3>3, <4>2
    <3>4. QED BY <2>1, <3>2, <3>3
  <2>6. QED BY <2>4, <2>5
<1>3. QED BY <1>1, <1>2

\* Once the counter is past a nonce by the delay, the pipelines are full.
LEMMA Full ==
  ASSUME TypeInv, CountInv, ~Taking, D > Offset, core.cnt = 2 % L
  PROVE  age > Flush /\ Offset \in Nat /\ D \in Nat
<1>1. /\ S \in Nat \ {0} /\ Rounds = S * L /\ L \in {1, 2, 4, 8, 16, 32}
      /\ Offset = 2 * S + (IF L = 1 THEN 3 ELSE IF L = 2 THEN 2 ELSE 1)
      /\ 2 % L = (IF L \in {1, 2} THEN 0 ELSE 2)
      /\ age \in Nat /\ Rounds \in Nat
  BY UnrollFacts, CountFacts, Numbers DEF TypeInv
<1>2. Offset \in Nat /\ Offset >= 1
  BY <1>1
<1>3. D \in Nat
  <2>1. core.nonce \in Int /\ header.nonce \in Int
    BY DEF TypeInv, Messages, Nonces
  <2>2. D \in 0 .. NonceMod - 1
    BY <2>1, DistType DEF D, Nonces
  <2>3. QED BY <2>2, Numbers
<1>4. age >= core.cnt + 1 + Base(L, D - 1)
  BY <1>2, <1>3 DEF CountInv
<1>5. Base(L, D - 1) >= Base(L, Offset)
  <2>1. D - 1 \in Nat /\ D - 1 >= Offset
    BY <1>2, <1>3
  <2>2. QED BY <1>1, <1>2, <2>1 DEF Base
<1>6. Base(L, Offset) \in Nat /\ core.cnt + 1 + Base(L, Offset) > 2 * Rounds + L + 2
  <2>1. CASE L = 1
    BY <1>1, <2>1 DEF Base
  <2>2. CASE L = 2
    BY <1>1, <2>2 DEF Base
  <2>3. CASE L \in {4, 8, 16, 32}
    BY <1>1, <2>3 DEF Base
  <2>4. QED BY <1>1, <2>1, <2>2, <2>3
<1>7. Base(L, D - 1) \in Nat
  <2>1. D - 1 \in Nat
    BY <1>2, <1>3
  <2>2. QED BY <2>1, BaseFacts DEF TypeInv
<1>8. age > Flush
  <2>1. Flush = 2 * Rounds + L + 2
    BY DEF Flush, L
  <2>2. core.cnt \in Nat
    BY <1>1
  <2>3. QED BY <1>1, <1>4, <1>5, <1>6, <1>7, <2>1, <2>2
<1>9. QED BY <1>2, <1>3, <1>8

\* The counter is at n when it is as far from the start nonce as n.
LEMMA NonceBehind ==
  ASSUME TypeInv, NEW n \in Nonces, NEW o \in Nat, D = Dist(n, header.nonce) + o
  PROVE  (core.nonce - o) % NonceMod = n
<1>1. core.nonce \in Nonces /\ header.nonce \in Nonces
  BY DEF TypeInv, Messages
<1>2. Dist(n, header.nonce) \in Nat
  <2>1. n \in Int /\ header.nonce \in Int
    BY <1>1 DEF Nonces
  <2>2. Dist(n, header.nonce) \in 0 .. NonceMod - 1
    BY <2>1, DistType DEF Nonces
  <2>3. QED BY <2>2, Numbers
<1>3. Dist((core.nonce - o) % NonceMod, header.nonce) = Dist(n, header.nonce)
  <2>1. Dist(core.nonce, header.nonce) >= o
    BY <1>2 DEF D
  <2>2. Dist((core.nonce - o) % NonceMod, header.nonce) = D - o
    BY <1>1, <2>1, DistBack DEF D
  <2>3. QED BY <1>2, <2>2
<1>4. (core.nonce - o) % NonceMod \in Nonces
  <2> DEFINE y == core.nonce - o
  <2> y \in Int
    BY <1>1 DEF Nonces
  <2> HIDE DEF y
  <2>1. y % NonceMod \in Nonces
    BY Numbers, ModDiv DEF Nonces
  <2>2. QED BY <2>1 DEF y
<1>5. QED BY <1>1, <1>3, <1>4, DistOne

\* A golden nonce the counter passes by the delay is shown in that clock, in the
\* place of an earlier one.
LEMMA GoldenStep ==
  ASSUME TypeInv, PipeInv, CountInv, GoldenInv, Next
  PROVE  GoldenInv'
<1> SUFFICES ASSUME ~Taking', NEW n \in Nonces,
                    [job |-> core'.midstate, nonce |-> n] \in Golden,
                    Dist(n, header'.nonce) > 0, Dist(n, header'.nonce) + Offset' < Passed'
             PROVE  /\ [job |-> core'.midstate, nonce |-> core'.golden_nonce] \in Golden
                    /\ Dist(core'.golden_nonce, header'.nonce) >= Dist(n, header'.nonce)
  BY DEF GoldenInv
<1> DEFINE dn == Dist(n, header.nonce)
<1>1. header' = header /\ (Taking => core.start) /\ L' = L /\ Offset' = Offset
  <2>1. Offset' = Offset
    BY Clock DEF Offset
  <2>2. QED BY <2>1, Taken, Clock
<1>2. /\ L \in {1, 2, 4, 8, 16, 32} /\ Offset \in Nat \ {0}
      /\ 2 % L = (IF L \in {1, 2} THEN 0 ELSE 2)
      /\ core.cnt \in 0 .. L - 1
      /\ core'.cnt = (IF core.cnt + 1 = L THEN 0 ELSE core.cnt + 1)
  <2>1. core.cnt \in 0 .. L - 1
    BY DEF TypeInv
  <2>2. Offset \in Nat \ {0}
    BY UnrollFacts DEF TypeInv
  <2>3. QED BY <2>1, <2>2, UnrollFacts, CountFacts, Clock DEF TypeInv
<1>3. dn > 0 /\ dn + Offset < Passed' /\ dn \in Nat
  <2>1. n \in Int /\ header.nonce \in Int
    BY DEF TypeInv, Messages, Nonces
  <2>2. dn \in 0 .. NonceMod - 1
    BY <2>1, DistType DEF Nonces
  <2>3. QED BY <1>1, <2>2, Numbers
<1>4. D \in Nat
  <2>1. D \in 0 .. NonceMod - 1
    BY DStep
  <2>2. QED BY <2>1, Numbers
<1>5. Passed' = (IF core'.cnt > 2 % L THEN D' + 1 ELSE D')
  BY <1>1 DEF Passed
<1>6. ~core.start
  <2> SUFFICES ASSUME core.start PROVE FALSE
    OBVIOUS
  <2>1. D' = 0
    BY DStep
  <2>2. QED BY <1>2, <1>3, <1>5, <2>1
<1>7. ~Taking /\ core'.midstate = core.midstate
  BY <1>1, <1>6, Clock
<1>8. core'.golden_nonce
        = (IF core.ticket THEN (core.nonce - Offset) % NonceMod ELSE core.golden_nonce)
  BY <1>6, Clock DEF GoldenNonceNext, Offset
<1> HIDE DEF dn
\* The tickets of the nonces up to n have been taken, or this is n's.
<1>9. dn + Offset < Passed \/ (core.cnt = 2 % L /\ dn + Offset = D)
  <2>1. CASE core'.cnt # 0
    <3>1. D' = D
      BY <1>6, <2>1, DStep
    <3>2. QED BY <1>2, <1>3, <1>4, <1>5, <2>1, <3>1 DEF Passed
  <2>2. CASE core'.cnt = 0
    <3>1. D' = D + 1
      <4>1. D' = (IF D + 1 = NonceMod THEN 0 ELSE D + 1)
        BY <1>6, <2>2, DStep
      <4>2. Passed' = D'
        BY <1>2, <1>5, <2>2
      <4>3. QED BY <1>2, <1>3, <4>1, <4>2
    <3>2. QED BY <1>2, <1>3, <1>4, <1>5, <2>2, <3>1 DEF Passed
  <2>3. QED BY <2>1, <2>2
<1>10. ASSUME core.cnt = 2 % L, D > Offset
       PROVE  /\ core.ticket = (Behind(core, Offset) \in Golden)
              /\ Dist((core.nonce - Offset) % NonceMod, header.nonce) = D - Offset
  <2>1. age > Flush
    BY <1>7, <1>10, Full
  <2>2. core.ticket = (Behind(core, Offset) \in Golden)
    BY <1>10, <2>1 DEF PipeInv, TicketInv
  <2>3. core.nonce \in Nonces /\ header.nonce \in Nonces /\ Dist(core.nonce, header.nonce) >= Offset
    BY <1>2, <1>4, <1>10 DEF TypeInv, Messages, D
  <2>4. Offset \in Nat
    BY <1>2
  <2>5. Dist((core.nonce - Offset) % NonceMod, header.nonce) = D - Offset
    BY <2>3, <2>4, DistBack DEF D
  <2>6. QED BY <2>2, <2>5
<1>11. CASE core.cnt = 2 % L /\ dn + Offset = D
  <2>1. (core.nonce - Offset) % NonceMod = n
    <3>1. Offset \in Nat
      BY <1>2
    <3>2. QED BY <1>11, <3>1, NonceBehind DEF dn
  <2>2. Behind(core, Offset) \in Golden
    BY <1>7, <2>1 DEF Behind
  <2>3. core.ticket
    <3>1. core.cnt = 2 % L /\ D > Offset
      BY <1>2, <1>3, <1>4, <1>11
    <3>2. core.ticket = (Behind(core, Offset) \in Golden)
      BY <1>10, <3>1
    <3>3. QED BY <2>2, <3>2
  <2>4. dn >= dn
    BY <1>3
  <2>5. QED BY <1>1, <1>7, <1>8, <2>1, <2>3, <2>4 DEF dn
<1>12. CASE dn + Offset < Passed /\ core.ticket
  <2>1. core.cnt = 2 % L
    BY <1>12 DEF PipeInv, ControlInv
  <2>2. Passed = D
    BY <1>2, <2>1 DEF Passed
  <2>3. D > Offset /\ D - Offset >= dn
    BY <1>2, <1>3, <1>4, <1>12, <2>2
  <2>4. Behind(core, Offset) \in Golden
    BY <1>10, <1>12, <2>1, <2>3
  <2>5. [job |-> core'.midstate, nonce |-> core'.golden_nonce] \in Golden
    BY <1>7, <1>8, <1>12, <2>4 DEF Behind
  <2>6. Dist(core'.golden_nonce, header.nonce) = D - Offset
    BY <1>8, <1>10, <1>12, <2>1, <2>3
  <2>7. QED BY <1>1, <2>3, <2>5, <2>6 DEF dn
<1>13. CASE dn + Offset < Passed /\ ~core.ticket
  <2>1. [job |-> core.midstate, nonce |-> n] \in Golden
    BY <1>7
  <2>2. /\ [job |-> core.midstate, nonce |-> core.golden_nonce] \in Golden
        /\ Dist(core.golden_nonce, header.nonce) >= dn
    BY <1>3, <1>7, <1>13, <2>1 DEF GoldenInv, dn
  <2>3. QED BY <1>1, <1>7, <1>8, <1>13, <2>2 DEF dn
<1>14. QED BY <1>9, <1>11, <1>12, <1>13

LEMMA GoldenInvariant == Spec => [](TypeInv /\ CountInv /\ GoldenInv)
<1>1. Init /\ TypeInv => CountInv /\ GoldenInv
  <2> SUFFICES ASSUME Init, TypeInv PROVE CountInv /\ GoldenInv
    OBVIOUS
  <2>1. D = 0
    <3>1. core.nonce = 0 /\ header.nonce = 0 /\ 0 % NonceMod = 0
      BY FpgaMinerAssumption DEF Init, CoreInit
    <3>2. QED BY <3>1 DEF D, Dist
  <2>2. Passed \in {0, 1} /\ Offset \in Nat \ {0}
    BY <2>1, UnrollFacts DEF Passed, TypeInv
  <2>3. ASSUME NEW n \in Nonces, Dist(n, header.nonce) > 0,
               Dist(n, header.nonce) + Offset < Passed
        PROVE  FALSE
    <3>1. n \in Int /\ header.nonce \in Int
      BY DEF TypeInv, Messages, Nonces
    <3>2. Dist(n, header.nonce) \in 0 .. NonceMod - 1
      BY <3>1, DistType DEF Nonces
    <3>3. QED BY <2>2, <2>3, <3>2
  <2>4. QED BY <2>1, <2>3 DEF CountInv, GoldenInv
<1>2. TypeInv /\ PipeInv /\ CountInv /\ GoldenInv /\ [Next]_vars => GoldenInv'
  <2> SUFFICES ASSUME TypeInv, PipeInv, CountInv, GoldenInv, [Next]_vars PROVE GoldenInv'
    OBVIOUS
  <2>1. CASE UNCHANGED vars
    BY <2>1 DEF vars, GoldenInv, Taking, Passed, D, Offset, L
  <2>2. QED BY <2>1, GoldenStep
<1>3. QED BY <1>1, <1>2, CountStep, PipeInvariant, PTL DEF Spec

\* The core shows a golden nonce once its counter is past one by the pipeline
\* delay, and never an earlier one than the last it is past.
THEOREM NewestGoldenAlwaysShown == Spec => []NewestGoldenShown
<1>1. TypeInv /\ CountInv /\ GoldenInv => NewestGoldenShown
  <2> SUFFICES ASSUME TypeInv, GoldenInv, Mining, ~load_done, Reported # {}
               PROVE  /\ [job |-> core.midstate, nonce |-> core.golden_nonce] \in Golden
                      /\ \A n \in Reported : Distance(core.golden_nonce) >= Distance(n)
    BY DEF NewestGoldenShown
  <2>1. ~Taking
    BY DEF Taking, Mining
  <2>2. ASSUME NEW n \in Reported
        PROVE  /\ [job |-> core.midstate, nonce |-> core.golden_nonce] \in Golden
               /\ Distance(core.golden_nonce) >= Distance(n)
    <3>1. /\ n \in Nonces /\ [job |-> core.midstate, nonce |-> n] \in Golden
          /\ Dist(n, header.nonce) > 0 /\ Dist(n, header.nonce) + Offset < D
      BY DEF Reported, Distance, Dist, D
    <3>2. Dist(n, header.nonce) + Offset < Passed
      <4>1. n \in Int /\ core.nonce \in Int /\ header.nonce \in Int
        BY <3>1 DEF TypeInv, Messages, Nonces
      <4>2. Dist(n, header.nonce) \in 0 .. NonceMod - 1 /\ D \in 0 .. NonceMod - 1
        BY <4>1, DistType DEF Nonces, D
      <4>3. Offset \in Nat
        BY UnrollFacts DEF TypeInv
      <4>4. QED BY <3>1, <4>2, <4>3 DEF Passed
    <3>3. QED BY <2>1, <3>1, <3>2 DEF GoldenInv, Distance, Dist
  <2>3. QED BY <2>2
<1>2. QED BY <1>1, GoldenInvariant, PTL

=============================================================================
