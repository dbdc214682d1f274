--------------------------- MODULE MinerTopProofs ---------------------------
(***************************************************************************)
(* Theorems about miner_top for any number of cores, any header layout and *)
(* any unrolling.                                                          *)
(***************************************************************************)
EXTENDS MinerTop, TLAPS

\* The registers of one core that miner_top sees or loads.
CoreTypeOK(c) ==
  /\ c.start \in BOOLEAN
  /\ c.ticket \in BOOLEAN
  /\ c.nonce \in Nonces
  /\ c.golden_nonce \in Nonces
  /\ c.nonce_out \in Results

\* Reduction modulo the number of nonces gives a nonce.
LEMMA ModIsNonce == \A k \in Int : k % NonceMod \in Nonces
  BY FpgaMinerAssumption DEF Nonces

\* The offset between the counter and the nonce of a valid hash is an integer.
LEMMA OffsetIsInt == GoldenNonceOffset(LOOP_LOG2) \in Int
<1>1. LOOP(LOOP_LOG2) \in Nat \ {0}
  BY MinerTopAssumption DEF LOOP
<1>2. (2 * Rounds) \div LOOP(LOOP_LOG2) \in Int
  BY <1>1, FpgaMinerAssumption
<1>. QED
  BY <1>1, <1>2, FpgaMinerAssumption DEF GoldenNonceOffset

\* A clock keeps the visible registers of a core in their types.
LEMMA CoreClockType ==
  ASSUME NEW c, CoreTypeOK(c), NEW header, header.nonce \in Nonces,
         NEW done \in BOOLEAN
  PROVE  CoreTypeOK(CoreClock(LOOP_LOG2, c, header, done))
<1>. DEFINE d == CoreClock(LOOP_LOG2, c, header, done)
<1>0. c.nonce \in Nonces
  BY DEF CoreTypeOK
<1>1. Nonces \subseteq Int /\ 0 \in Nonces
  BY FpgaMinerAssumption DEF Nonces
<1>2. NonceNext(LOOP_LOG2, c) \in Nonces
  <2>1. c.nonce \in Int
    BY <1>1, <1>0
  <2>2. c.nonce + 1 \in Int
    BY <2>1
  <2>. QED
    BY <1>0, <2>2, ModIsNonce DEF NonceNext
<1>3. GoldenNonceNext(LOOP_LOG2, c) \in Nonces
  <2>0. c.nonce \in Int
    BY <1>0, <1>1
  <2>1. \A x, y \in Int : x - y \in Int
    OBVIOUS
  <2>2. (c.nonce - GoldenNonceOffset(LOOP_LOG2)) \in Int
    BY <2>0, <2>1, OffsetIsInt
  <2>. QED
    BY <1>1, <2>2, ModIsNonce DEF GoldenNonceNext, CoreTypeOK
<1>4. NonceOutNext(c) \in Results
  BY DEF NonceOutNext, CoreTypeOK, Results
<1>5. StartNext(c, done) \in BOOLEAN /\ TicketNext(c) \in BOOLEAN
  BY DEF StartNext, TicketNext
<1>6. /\ d.start = StartNext(c, done)
      /\ d.ticket = TicketNext(c)
      /\ d.nonce = IF c.start THEN header.nonce ELSE NonceNext(LOOP_LOG2, c)
      /\ d.golden_nonce = GoldenNonceNext(LOOP_LOG2, c)
      /\ d.nonce_out = NonceOutNext(c)
  BY DEF CoreClock
<1>. QED
  BY <1>2, <1>3, <1>4, <1>5, <1>6 DEF CoreTypeOK

----------------------------------------------------------------------------
\* The invariants of the runs, all of them of the present state only: the
\* modes say when the header may change, and the header each core has.
SafetyInv == TypeOK /\ ModesConsistent /\ SettledCoreMinesHeader

LEMMA InitSafety == Init => SafetyInv
<1>. SUFFICES ASSUME Init PROVE SafetyInv
  OBVIOUS
<1>1. 0 \in Nonces
  BY FpgaMinerAssumption DEF Nonces
<1>2. TypeOK
  BY <1>1, MinerTopAssumption
     DEF Init, TypeOK, Headers, Results, NoHeader, NoResult, CoreInit
<1>3. ModesConsistent
  BY DEF Init, ModesConsistent
<1>4. SettledCoreMinesHeader
  BY DEF Init, SettledCoreMinesHeader, CoreInit
<1>. QED
  BY <1>2, <1>3, <1>4 DEF SafetyInv

\* What every step does to the cores and to nonce_ram keeps their types.
LEMMA CoresType ==
  ASSUME TypeOK, CoresClock
  PROVE  /\ DOMAIN core' = Miners
         /\ \A m \in Miners : CoreTypeOK(core'[m])
<1>1. header_buffer[NonceAddr] \in Nonces
  BY MinerTopAssumption DEF TypeOK, Headers
<1>2. HeaderInput.nonce \in Nonces
  BY <1>1 DEF HeaderInput
<1>3. load_done \in BOOLEAN
  BY DEF TypeOK
<1>4. ASSUME NEW m \in Miners
      PROVE  CoreTypeOK(CoreClock(LOOP_LOG2, core[m], HeaderInput, load_done))
  <2>1. CoreTypeOK(core[m])
    BY DEF TypeOK, CoreTypeOK
  <2>. QED
    BY <1>2, <1>3, <2>1, CoreClockType
<1>. QED
  BY <1>4 DEF CoresClock

LEMMA NonceRamType ==
  ASSUME TypeOK, EstablishNonces
  PROVE  nonce_ram' \in [Miners -> Nonces]
<1>1. ASSUME NEW m \in Miners
      PROVE  (header_buffer[NonceAddr] + m * range) % NonceMod \in Nonces
  <2>1. header_buffer[NonceAddr] \in Int
    <3>1. header_buffer[NonceAddr] \in Nonces
      BY MinerTopAssumption DEF TypeOK, Headers
    <3>. QED
      BY <3>1 DEF Nonces
  <2>2. m * range \in Int
    BY MinerTopAssumption
  <2>3. \A x, y \in Int : x + y \in Int
    OBVIOUS
  <2>. QED
    BY <2>1, <2>2, <2>3, ModIsNonce
<1>. QED
  BY <1>1 DEF EstablishNonces

\* The outputs of the cores have the type of results.
LEMMA OutputsType ==
  ASSUME TypeOK
  PROVE  Outputs \in [Miners -> Results] /\ NoResult \in Results
<1>1. 0 \in Nonces
  BY FpgaMinerAssumption DEF Nonces
<1>. QED
  BY <1>1 DEF TypeOK, Outputs, Results, NoResult
----------------------------------------------------------------------------
\* A register of miner_top read by the host is a natural number.
LEMMA ReadType ==
  ASSUME TypeOK, ReadRegister
  PROVE  readdata' \in Nat
<1>1. Nonces \subseteq Nat
  BY DEF Nonces
<1>2. \A b \in BOOLEAN : Bit(b) \in {0, 1}
  BY DEF Bit
<1>3. CASE \E a \in HeaderAddrs : readdata' = header_buffer[a]
  <2>1. \A a \in HeaderAddrs : header_buffer[a] \in Nonces
    BY MinerTopAssumption DEF TypeOK, Headers
  <2>. QED
    BY <1>1, <1>3, <2>1
<1>4. CASE \E a \in StateRegisters : readdata' = StateValue(a)
  <2>1. /\ Bit(loading) \in {0, 1} /\ Bit(load_done) \in {0, 1}
        /\ Bit(start) \in {0, 1} /\ Bit(stop) \in {0, 1}
        /\ Bit(read_gold_nonce) \in {0, 1}
    BY <1>2 DEF TypeOK
  <2>2. readdata \in Nat /\ readdata - (readdata % 2) \in Nat
    BY DEF TypeOK
  <2>3. /\ StateValue(101) = Bit(loading) + 2 * Bit(load_done)
        /\ StateValue(102) = Bit(start) + 2 * Bit(stop)
        /\ StateValue(103) = (readdata - (readdata % 2)) + Bit(read_gold_nonce)
    BY DEF StateValue
  <2>4. \A a \in StateRegisters : StateValue(a) \in Nat
    BY <2>1, <2>2, <2>3 DEF StateRegisters
  <2>. QED
    BY <1>4, <2>4
<1>5. CASE \E m \in Miners : readdata' \in {nonce_ram[m], result_ram[m].nonce,
                                            Bit(result_ram[m].hit)}
  <2>1. \A m \in Miners : /\ nonce_ram[m] \in Nonces
                          /\ result_ram[m].nonce \in Nonces
                          /\ Bit(result_ram[m].hit) \in {0, 1}
    BY <1>2 DEF TypeOK, Results
  <2>2. PICK m \in Miners : readdata' \in {nonce_ram[m], result_ram[m].nonce,
                                             Bit(result_ram[m].hit)}
    BY <1>5
  <2>3. nonce_ram[m] \in Nat /\ result_ram[m].nonce \in Nat
    BY <1>1, <2>1
  <2>4. Bit(result_ram[m].hit) \in {0, 1}
    BY <2>1
  <2>5. Bit(result_ram[m].hit) \in Nat
    BY <2>4
  <2>. QED
    BY <2>2, <2>3, <2>5
<1>6. CASE readdata' = readdata
  BY <1>6 DEF TypeOK
<1>. QED
  BY <1>3, <1>4, <1>5, <1>6 DEF ReadRegister

LEMMA NextType == TypeOK /\ [Next]_vars => TypeOK'
<1>. SUFFICES ASSUME TypeOK, [Next]_vars PROVE TypeOK'
  OBVIOUS
<1>0. /\ NoHeader \in Headers
      /\ [m \in Miners |-> 0] \in [Miners -> Nonces]
      /\ [m \in Miners |-> NoResult] \in [Miners -> Results]
      /\ Outputs \in [Miners -> Results]
  BY OutputsType, FpgaMinerAssumption, MinerTopAssumption
     DEF NoHeader, Headers, Nonces
<1>1. CASE StartLoad
  BY <1>0, <1>1, CoresType DEF StartLoad, TypeOK, CoreTypeOK
<1>2. ASSUME NEW a \in {96, 102}, NEW bit \in BOOLEAN, WriteControl(a, bit)
      PROVE  TypeOK'
  BY <1>2, CoresType, NonceRamType DEF WriteControl, TypeOK, CoreTypeOK
<1>3. ASSUME NEW a \in HeaderAddrs \cup {96}, NEW b \in Bytes, WriteHeader(a, b)
      PROVE  TypeOK'
  <2>1. header_buffer' \in Headers
    BY <1>3 DEF WriteHeader, TypeOK, Headers
  <2>. QED
    BY <1>3, <2>1, CoresType, NonceRamType DEF WriteHeader, TypeOK, CoreTypeOK
<1>4. CASE ReadRegister
  BY <1>4, CoresType, NonceRamType, ReadType
     DEF ReadRegister, control, TypeOK, CoreTypeOK
<1>5. CASE Refresh
  BY <1>0, <1>5, CoresType, NonceRamType DEF Refresh, control, TypeOK, CoreTypeOK
<1>6. CASE Poll
  <2>1. CoresClock /\ EstablishNonces
    BY <1>6 DEF Poll
  <2>2. stop' \in BOOLEAN /\ read_gold_nonce' \in BOOLEAN
    BY <1>6 DEF Poll, Ticket
  <2>3. result_ram' \in [Miners -> Results]
    BY <1>0, <1>6 DEF Poll
  <2>. QED
    BY <1>6, <2>1, <2>2, <2>3, CoresType, NonceRamType DEF Poll, TypeOK, CoreTypeOK
<1>7. CASE UNCHANGED vars
  BY <1>7 DEF vars, TypeOK
<1>. QED
  BY <1>1, <1>2, <1>3, <1>4, <1>5, <1>6, <1>7 DEF Next

LEMMA NextModes == TypeOK /\ ModesConsistent /\ [Next]_vars => ModesConsistent'
<1>. SUFFICES ASSUME TypeOK, ModesConsistent, [Next]_vars PROVE ModesConsistent'
  OBVIOUS
<1>. USE DEF TypeOK, ModesConsistent
<1>1. CASE StartLoad
  BY <1>1 DEF StartLoad
<1>2. ASSUME NEW a \in {96, 102}, NEW bit \in BOOLEAN, WriteControl(a, bit)
      PROVE  ModesConsistent'
  BY <1>2 DEF WriteControl
<1>3. ASSUME NEW a \in HeaderAddrs \cup {96}, NEW b \in Bytes, WriteHeader(a, b)
      PROVE  ModesConsistent'
  BY <1>3 DEF WriteHeader
<1>4. CASE ReadRegister
  BY <1>4 DEF ReadRegister, control
<1>5. CASE Refresh
  BY <1>5 DEF Refresh, control
<1>6. CASE Poll
  BY <1>6 DEF Poll
<1>7. CASE UNCHANGED vars
  BY <1>7 DEF vars
<1>. QED
  BY <1>1, <1>2, <1>3, <1>4, <1>5, <1>6, <1>7 DEF Next

\* Outside a load, a clock that leaves the header alone leaves every settled
\* core with it: a core that settles has just taken it, one that was settled
\* keeps it, and no core settles while the header is being announced.
LEMMA SettledStep ==
  ASSUME TypeOK, SettledCoreMinesHeader, CoresClock, ~loading,
         header_buffer' = header_buffer
  PROVE  SettledCoreMinesHeader'
<1>1. ASSUME NEW m \in Miners, ~core'[m].start
      PROVE  core'[m].midstate = Job(header_buffer)
  <2>1. /\ core'[m].start = (~core[m].start /\ load_done)
        /\ core'[m].midstate = IF core[m].start THEN Job(header_buffer)
                               ELSE core[m].midstate
    BY DEF CoresClock, CoreClock, StartNext, HeaderInput
  <2>2. CASE core[m].start
    BY <2>1, <2>2
  <2>3. CASE ~core[m].start
    BY <1>1, <2>1, <2>3 DEF SettledCoreMinesHeader
  <2>. QED
    BY <2>2, <2>3
<1>. QED
  BY <1>1 DEF SettledCoreMinesHeader

LEMMA NextSettled == SafetyInv /\ [Next]_vars => SettledCoreMinesHeader'
<1>. SUFFICES ASSUME TypeOK, ModesConsistent, SettledCoreMinesHeader, [Next]_vars
              PROVE  SettledCoreMinesHeader'
  BY DEF SafetyInv
<1>1. CASE StartLoad
  BY <1>1 DEF StartLoad, SettledCoreMinesHeader
<1>2. ASSUME NEW a \in {96, 102}, NEW bit \in BOOLEAN, WriteControl(a, bit)
      PROVE  SettledCoreMinesHeader'
  BY <1>2, SettledStep DEF WriteControl
<1>3. ASSUME NEW a \in HeaderAddrs \cup {96}, NEW b \in Bytes, WriteHeader(a, b)
      PROVE  SettledCoreMinesHeader'
  BY <1>3 DEF WriteHeader, SettledCoreMinesHeader
<1>4. CASE ReadRegister
  BY <1>4, SettledStep DEF ReadRegister
<1>5. CASE Refresh
  BY <1>5, SettledStep DEF Refresh, ModesConsistent
<1>6. CASE Poll
  <2>1. CASE loading
    BY <1>6, <2>1 DEF Poll, SettledCoreMinesHeader
  <2>2. CASE ~loading
    BY <1>6, <2>2, SettledStep DEF Poll
  <2>. QED
    BY <2>1, <2>2
<1>7. CASE UNCHANGED vars
  BY <1>7 DEF vars, SettledCoreMinesHeader
<1>. QED
  BY <1>1, <1>2, <1>3, <1>4, <1>5, <1>6, <1>7 DEF Next
----------------------------------------------------------------------------
\* Type correctness of miner_top: its registers and the registers of the cores
\* that it sees stay in range in every reachable state.
THEOREM TypeCorrect == Spec => []TypeOK
<1>1. Init => TypeOK
  BY InitSafety DEF SafetyInv
<1>. QED
  BY <1>1, NextType, PTL DEF Spec

\* The inductive invariant: types, modes and settled cores together.
THEOREM Safety == Spec => []SafetyInv
<1>1. SafetyInv /\ [Next]_vars => SafetyInv'
  BY NextType, NextModes, NextSettled DEF SafetyInv
<1>. QED
  BY <1>1, InitSafety, PTL DEF Spec

\* The mode bits of miner_top never contradict each other.
THEOREM ModesAlwaysConsistent == Spec => []ModesConsistent
<1>1. SafetyInv => ModesConsistent
  BY DEF SafetyInv
<1>. QED
  BY <1>1, Safety, PTL

\* A core that is not taking a header mines the whole header that the host
\* loaded last, whatever the host did on the bus meanwhile.
THEOREM CoresMineTheHeader == Spec => []SettledCoreMinesHeader
<1>1. SafetyInv => SettledCoreMinesHeader
  BY DEF SafetyInv
<1>. QED
  BY <1>1, Safety, PTL

----------------------------------------------------------------------------
\* miner_top implements MinerPhases: every clock is a step of the promise or
\* leaves phase and header alone.
THEOREM Implementation == Spec => ImplementsPhases
<1>. USE DEF Phase, Phases!vars, Phases!Next, Phases!Begin, Phases!Store, Phases!Solve
<1>1. Init => Phases!Init
  BY DEF Init, Phases!Init
<1>2. SafetyInv /\ SafetyInv' /\ [Next]_vars => [Phases!Next]_Phases!vars
  <2>. SUFFICES ASSUME SafetyInv, SafetyInv', Next
                PROVE  Phases!Next \/ UNCHANGED Phases!vars
    BY DEF vars
  <2>0. TypeOK /\ ModesConsistent /\ header_buffer' \in Headers
    BY DEF SafetyInv, TypeOK
  <2>1. CASE StartLoad
    BY <2>0, <2>1 DEF StartLoad, ModesConsistent
  <2>2. ASSUME NEW a \in {96, 102}, NEW bit \in BOOLEAN, WriteControl(a, bit)
        PROVE  UNCHANGED Phases!vars
    BY <2>2 DEF WriteControl
  <2>3. ASSUME NEW a \in HeaderAddrs \cup {96}, NEW b \in Bytes, WriteHeader(a, b)
        PROVE  Phases!Store
    BY <2>0, <2>3 DEF WriteHeader, ModesConsistent
  <2>4. CASE ReadRegister
    BY <2>4 DEF ReadRegister, control
  <2>5. CASE Refresh
    BY <2>5 DEF Refresh, control
  <2>6. CASE Poll
    BY <2>0, <2>6 DEF Poll, ModesConsistent, TypeOK
  <2>. QED
    BY <2>1, <2>2, <2>3, <2>4, <2>5, <2>6 DEF Next
<1>. QED
  BY <1>1, <1>2, Safety, PTL DEF Spec, ImplementsPhases, Phases!Spec
=============================================================================
