------------------------------ MODULE MinerTop ------------------------------
(***************************************************************************)
(* miner_top.v: the Avalon slave that loads a header byte by byte, starts  *)
(* the mining cores, stops them at the first ticket and lets the host read *)
(* the result.  A step is one posedge of clk: the clocked block of         *)
(* miner_top takes one of its branches, chosen by the registers and by     *)
(* what is on the bus, and every core takes its own clock.                 *)
(*                                                                         *)
(* The bytes of the header that reach a core are the midstate and the      *)
(* block tail (addresses 0..43) and the nonce (44..47, here one register); *)
(* the bytes 48..95 are stored and never used.                             *)
(***************************************************************************)
EXTENDS FpgaMiner

CONSTANTS
  LOOP_LOG2,    \* the unrolling of the cores
  Miners,       \* 0 .. mctr - 1
  HeaderAddrs,  \* the addresses of the header the host writes
  NonceAddr,    \* the address of the nonce in the header
  LastAddr,     \* the address that completes a header: 95
  Bytes,        \* values of writedata
  range,        \* nonces set aside for each miner in nonce_ram
  MaxLoads      \* bound: headers started in a behaviour

ASSUME MinerTopAssumption ==
  /\ LOOP_LOG2 \in 0 .. 5
  /\ Miners \subseteq Nat
  /\ NonceAddr \in HeaderAddrs /\ LastAddr \in HeaderAddrs
  /\ HeaderAddrs \subseteq 0 .. 95
  /\ 0 \in Bytes /\ Bytes \subseteq Nonces
  /\ range \in Nat
  /\ MaxLoads \in Nat

VARIABLES
  header_buffer,
  loading,
  load_done,
  start,
  stop,
  read_gold_nonce,
  nonce_ram,
  result_ram,
  readdata,
  core,          \* miner0 ... miner3
  loads          \* starts written so far

control == <<loading, load_done, start, stop, read_gold_nonce>>
vars == <<header_buffer, loading, load_done, start, stop, read_gold_nonce,
          nonce_ram, result_ram, readdata, core, loads>>

JobAddrs == {a \in HeaderAddrs : a < NonceAddr}

Job(header) == [a \in JobAddrs |-> header[a]]

\* header_data_input as a core uses it.
HeaderInput == [job |-> Job(header_buffer), nonce |-> header_buffer[NonceAddr]]

NoHeader == [a \in HeaderAddrs |-> 0]
NoResult == [hit |-> FALSE, nonce |-> 0]

Init ==
  /\ header_buffer = NoHeader
  /\ loading = FALSE
  /\ load_done = FALSE
  /\ start = FALSE
  /\ stop = FALSE
  /\ read_gold_nonce = TRUE
  /\ nonce_ram = [m \in Miners |-> 0]
  /\ result_ram = [m \in Miners |-> NoResult]
  /\ readdata = 0
  /\ core = [m \in Miners |-> CoreInit(LOOP_LOG2, Job(NoHeader))]
  /\ loads = 0

Outputs == [m \in Miners |-> core[m].nonce_out]

\* Every core takes a clock in every step.  All are wired to the same inputs;
\* nonce_ram reaches none of them.
CoresClock ==
  core' = [m \in Miners |-> CoreClock(LOOP_LOG2, core[m], HeaderInput, load_done)]

\* "Establish the nonce values from which each miner will start": in every
\* clock but the one that starts a load.
EstablishNonces ==
  nonce_ram' = [m \in Miners |-> (header_buffer[NonceAddr] + m * range) % NonceMod]

----------------------------------------------------------------------------
(***************************************************************************)
(* The branches of the clocked block, in their order.                      *)
(***************************************************************************)

\* A written start takes effect one clock later; the bus is not looked at.
StartLoad ==
  /\ start /\ ~loading
  /\ loading' = TRUE
  /\ load_done' = FALSE
  /\ start' = FALSE
  /\ header_buffer' = NoHeader
  /\ result_ram' = [m \in Miners |-> NoResult]
  /\ nonce_ram' = [m \in Miners |-> 0]
  /\ read_gold_nonce' = TRUE
  /\ stop' = FALSE
  /\ CoresClock
  /\ UNCHANGED <<readdata, loads>>

\* write && !loading: register 102 is the only one that can be written.
WriteControl(address, bit) ==
  /\ ~start /\ ~loading
  /\ start' = IF address = 102 THEN bit ELSE start
  /\ loads' = IF start' THEN loads + 1 ELSE loads
  /\ loads' <= MaxLoads
  /\ CoresClock /\ EstablishNonces
  /\ UNCHANGED <<header_buffer, loading, load_done, stop, read_gold_nonce,
                 result_ram, readdata>>

\* Slips: the cores are started by the nonce instead of the last byte; the
\* header can be written at any time.
WriteHeaderEarly(address, byte) ==
  /\ loading
  /\ header_buffer' = IF address \in HeaderAddrs
                      THEN [header_buffer EXCEPT ![address] = byte]
                      ELSE header_buffer
  /\ loading' = (address # LastAddr)
  /\ load_done' = (load_done \/ address = NonceAddr)
  /\ CoresClock /\ EstablishNonces
  /\ UNCHANGED <<start, stop, read_gold_nonce, result_ram, readdata, loads>>
WriteHeaderAnytime(address, byte) ==
  /\ ~start
  /\ header_buffer' = IF address \in HeaderAddrs
                      THEN [header_buffer EXCEPT ![address] = byte]
                      ELSE header_buffer
  /\ loading' = (loading /\ address # LastAddr)
  /\ load_done' = (load_done \/ (loading /\ address = LastAddr))
  /\ CoresClock /\ EstablishNonces
  /\ UNCHANGED <<start, stop, read_gold_nonce, result_ram, readdata, loads>>

\* write && loading: one byte of the header, the last one ends the load.
WriteHeader(address, byte) ==
  /\ loading
  /\ header_buffer' = IF address \in HeaderAddrs
                      THEN [header_buffer EXCEPT ![address] = byte]
                      ELSE header_buffer
  /\ loading' = (address # LastAddr)
  /\ load_done' = (load_done \/ address = LastAddr)
  /\ CoresClock /\ EstablishNonces
  /\ UNCHANGED <<start, stop, read_gold_nonce, result_ram, readdata, loads>>

Bit(b) == IF b THEN 1 ELSE 0

\* The readable registers other than the header, and what readdata becomes.
StateRegisters == {101, 102, 103}
StateValue(address) ==
  CASE address = 101 -> Bit(loading) + 2 * Bit(load_done)
    [] address = 102 -> Bit(start) + 2 * Bit(stop)
    [] address = 103 -> (readdata - (readdata % 2)) + Bit(read_gold_nonce)

\* read && !loading; an address without a register leaves readdata alone.
ReadRegister ==
  /\ ~start /\ ~loading
  /\ \/ \E a \in HeaderAddrs : readdata' = header_buffer[a]
     \/ \E a \in StateRegisters : readdata' = StateValue(a)
     \/ \E m \in Miners : readdata' \in {nonce_ram[m], result_ram[m].nonce,
                                         Bit(result_ram[m].hit)}
     \/ readdata' = readdata
  /\ CoresClock /\ EstablishNonces
  /\ UNCHANGED <<header_buffer, control, result_ram, loads>>

\* No access that the branches above take, in the stop state.
Refresh ==
  /\ ~(start /\ ~loading)
  /\ stop
  /\ result_ram' = Outputs
  /\ CoresClock /\ EstablishNonces
  /\ UNCHANGED <<header_buffer, control, readdata, loads>>

Ticket == \E m \in Miners : core[m].nonce_out.hit

\* A slip: a ticket stops a load as well.
PollWhileLoading ==
  /\ ~(start /\ ~loading)
  /\ ~stop
  /\ load_done' = FALSE
  /\ LET solved == read_gold_nonce /\ Ticket
     IN /\ result_ram' = IF solved THEN Outputs ELSE [m \in Miners |-> NoResult]
        /\ read_gold_nonce' = (read_gold_nonce /\ ~solved)
        /\ stop' = solved
  /\ CoresClock /\ EstablishNonces
  /\ UNCHANGED <<header_buffer, loading, start, readdata, loads>>

\* Any other clock: load_done ends, and a ticket enters the stop state.
Poll ==
  /\ ~(start /\ ~loading)
  /\ ~stop
  /\ load_done' = FALSE
  /\ LET solved == read_gold_nonce /\ Ticket /\ ~loading
     IN /\ result_ram' = IF solved THEN Outputs ELSE [m \in Miners |-> NoResult]
        /\ read_gold_nonce' = (read_gold_nonce /\ ~solved)
        /\ stop' = solved
  /\ CoresClock /\ EstablishNonces
  /\ UNCHANGED <<header_buffer, loading, start, readdata, loads>>

\* The bus: a write of any byte anywhere, a read of any register, or no access.
\* 96 stands for the addresses that no register has.
Next ==
  \/ StartLoad
  \/ \E a \in {96, 102}, bit \in BOOLEAN : WriteControl(a, bit)
  \/ \E a \in HeaderAddrs \cup {96}, b \in Bytes : WriteHeader(a, b)
  \/ ReadRegister
  \/ Refresh
  \/ Poll

Spec == Init /\ [][Next]_vars

\* The clock runs, and the host, far slower than the clock, leaves the bus idle
\* again and again: the two branches that need an idle bus are not starved.
Fairness == WF_vars(StartLoad) /\ SF_vars(Poll) /\ SF_vars(Refresh)

FairSpec == Spec /\ Fairness

----------------------------------------------------------------------------
(***************************************************************************)
(* Properties                                                              *)
(***************************************************************************)

Headers == [HeaderAddrs -> Bytes]
Results == [hit : BOOLEAN, nonce : Nonces]

\* The registers of miner_top hold values of their types; of a core, those that
\* miner_top sees or loads.
TypeOK ==
  /\ header_buffer \in Headers
  /\ <<loading, load_done, start, stop, read_gold_nonce>> \in
       BOOLEAN \X BOOLEAN \X BOOLEAN \X BOOLEAN \X BOOLEAN
  /\ nonce_ram \in [Miners -> Nonces]
  /\ result_ram \in [Miners -> Results]
  /\ readdata \in Nat
  /\ DOMAIN core = Miners
  /\ \A m \in Miners : /\ core[m].start \in BOOLEAN
                        /\ core[m].ticket \in BOOLEAN
                        /\ core[m].nonce \in Nonces
                        /\ core[m].golden_nonce \in Nonces
                        /\ core[m].nonce_out \in Results
  /\ loads \in Nat

\* The mode bits never contradict each other: the stop state is exactly the
\* state whose gold nonce is not to be read again, a load being in progress
\* excludes a finished load, a stop and another start, and a stop excludes a
\* header still being announced to the cores.
ModesConsistent ==
  /\ stop <=> ~read_gold_nonce
  /\ loading => ~load_done /\ ~stop /\ ~start
  /\ stop => ~load_done

\* A core that is not taking a header mines the header the host reads back:
\* however the load and its announcement interleave with bus accesses, no core
\* is left with a partial or an earlier header.
SettledCoreMinesHeader ==
  ~loading /\ ~load_done =>
    \A m \in Miners : ~core[m].start => core[m].midstate = Job(header_buffer)

\* Bus accesses that hold load_done restart a core every other clock, while the
\* nonces it tried between two starts, this many, are left in its pipelines.
RestartSpan == IF LOOP(LOOP_LOG2) = 1 THEN 2 ELSE 1

\* No nonce that a restart may have a core try again solves the header.
SolvedLater ==
  \A n \in Nonces :
    [job |-> Job(header_buffer), nonce |-> n] \in Golden =>
      (n - header_buffer[NonceAddr]) % NonceMod > RestartSpan

\* For the first header, a clock in the stop state without a bus access leaves
\* in every result the nonce of a valid hash, even though the flag of nonce_out
\* is a clock ahead of its nonce (fpgaminer_top.v:170) and was captured so.
RefreshShowsGolden ==
  [][ loads = 1 /\ SolvedLater /\ stop /\ stop' /\ result_ram' = Outputs =>
        \A m \in Miners :
          /\ result_ram'[m].hit
          /\ [job |-> Job(header_buffer), nonce |-> result_ram'[m].nonce] \in Golden
    ]_vars

Phase == IF loading THEN "load" ELSE IF stop THEN "stop" ELSE "search"

Phases == INSTANCE MinerPhases
            WITH phase <- Phase, header <- header_buffer, Header <- Headers

\* The device implements the promise: the stop state is left only by starting
\* another load, a load ends in the search, and the header changes in no other
\* way, whatever the host does on the bus.
ImplementsPhases == Phases!Spec

\* A ticket a core shows is brought to the host: the stop state is entered,
\* unless the host starts another header.
TicketStops ==
  (~loading /\ ~load_done /\ Ticket /\ loads = 1) ~> (stop \/ loading)

\* "When a miner has solved the block and nonce" (miner_top.v:366): in the stop
\* state the block in header_buffer is one that a nonce solves.
StopMeansSolved ==
  stop => \E n \in Nonces : [job |-> Job(header_buffer), nonce |-> n] \in Golden
=============================================================================
