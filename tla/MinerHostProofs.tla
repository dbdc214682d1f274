-------------------------- MODULE MinerHostProofs --------------------------
(***************************************************************************)
(* No program reaches the miner through the driver, for every device and   *)
(* every set of digits.                                                    *)
(***************************************************************************)
EXTENDS MinerHost, TLAPS

\* The device as it is powered up, its cores apart.
DeviceAtRest ==
  /\ loads = 0 /\ ~start /\ ~loading
  /\ header_buffer = NoHeader
  /\ readdata = 0

\* What can be read back was never written, a byte on its way to dev.segments is
\* for a writable digit, and the getwork program prints from the first digit on.
NothingToRead ==
  /\ task \in [Programs -> {"write", "store", "print", "idle"}]
  /\ digit \in [Programs -> Digits]
  /\ \A d \in DOMAIN segments : Readable(d) => segments[d] = 0
  /\ \A p \in Programs : task[p] = "store" => Writable(digit[p])
  /\ task[Getwork] = "print" => digit[Getwork] = 0
  /\ printed = 0

HostInv == DeviceAtRest /\ NothingToRead

\* A clock without an access leaves the device at rest.
LEMMA RestWithoutAccess == DeviceAtRest /\ NoAccess => DeviceAtRest'
  BY DEF DeviceAtRest, NoAccess, StartLoad, Refresh, Poll, control, NoHeader

\* So does a write that is not to the start register.
LEMMA RestUnderWrites ==
  ASSUME NEW a, NEW b, a # 102, DeviceAtRest, BusWrite(a, b)
  PROVE  DeviceAtRest'
  BY DEF DeviceAtRest, BusWrite, StartLoad, WriteControl, WriteHeader, NoHeader

\* What can be written cannot be read back.
LEMMA DigitRanges ==
  ASSUME MinerHostAssumption, NEW d \in Digits, Writable(d) PROVE ~Readable(d)
  BY DEF MinerHostAssumption, Writable, Readable

\* The host's steps, one by one.
LEMMA WriteDigitInv == ASSUME HostInv, NEW p \in Programs, WriteDigit(p) PROVE HostInv'
<1>. USE DEF HostInv
<1>1. digit[p] # 102
  BY DEF WriteDigit, Writable
<1>2. DeviceAtRest'
  BY <1>1, RestUnderWrites DEF WriteDigit
<1>3. NothingToRead'
  BY DEF WriteDigit, NothingToRead, Programs
<1>. QED
  BY <1>2, <1>3

LEMMA StoreDigitInv ==
  ASSUME MinerHostAssumption, HostInv, NEW p \in Programs, StoreDigit(p) PROVE HostInv'
<1>. USE DEF HostInv
<1>1. DeviceAtRest'
  BY RestWithoutAccess DEF StoreDigit
<1>2. \A d \in DOMAIN segments' : Readable(d) => segments'[d] = 0
  <2>1. Writable(digit[p]) /\ segments' = [segments EXCEPT ![digit[p]] = byte[p]]
    BY DEF StoreDigit, NothingToRead
  <2>2. ~Readable(digit[p])
    BY <2>1, DigitRanges DEF NothingToRead
  <2>. QED
    BY <2>1, <2>2 DEF NothingToRead
<1>3. task[p] = "store" /\ printed' = printed /\ Continue(p, "write", AfterWriting(p))
  BY DEF StoreDigit
<1>4. AfterWriting(p) \in {"print", "idle"} /\ 0 \in Digits
  BY DEF MinerHostAssumption, AfterWriting
<1>5. CASE \E e \in Digits : /\ digit' = [digit EXCEPT ![p] = e]
                             /\ task' = [task EXCEPT ![p] = "write"]
  BY <1>2, <1>3, <1>5, <1>1 DEF NothingToRead
<1>6. CASE /\ digit' = [digit EXCEPT ![p] = 0]
           /\ task' = [task EXCEPT ![p] = AfterWriting(p)]
  BY <1>2, <1>3, <1>4, <1>6, <1>1 DEF NothingToRead
<1>. QED
  BY <1>3, <1>5, <1>6 DEF Continue, Following

LEMMA RefusedInv ==
  ASSUME MinerHostAssumption, HostInv, NEW p \in Programs,
         WriteRefused(p) \/ ReadRefused(p)
  PROVE  HostInv'
<1>1. DeviceAtRest'
  BY RestWithoutAccess DEF HostInv, WriteRefused, ReadRefused
<1>2. 0 \in Digits /\ AfterWriting(p) \in {"print", "idle"}
  BY DEF MinerHostAssumption, AfterWriting
<1>3. /\ digit' = [digit EXCEPT ![p] = 0]
      /\ \E t \in {"print", "idle"} : task' = [task EXCEPT ![p] = t]
      /\ segments' = segments /\ printed' = printed
  BY <1>2 DEF WriteRefused, ReadRefused
<1>4. NothingToRead'
  BY <1>2, <1>3 DEF HostInv, NothingToRead
<1>. QED
  BY <1>1, <1>4 DEF HostInv

\* Only another program than getwork ever reads.
LEMMA ReadDigitInv ==
  ASSUME MinerHostAssumption, HostInv, NEW p \in Programs, ReadDigit(p) PROVE HostInv'
<1>1. DeviceAtRest'
  BY RestWithoutAccess DEF HostInv, ReadDigit
<1>2. p # Getwork
  BY DEF HostInv, NothingToRead, ReadDigit, Readable
<1>3. /\ digit' = [digit EXCEPT ![p] = 0] /\ task' = [task EXCEPT ![p] = "idle"]
      /\ printed' = printed /\ segments' = segments
  BY <1>2 DEF ReadDigit, Continue, Following
<1>4. NothingToRead'
  BY <1>2, <1>3 DEF MinerHostAssumption, HostInv, NothingToRead
<1>. QED
  BY <1>1, <1>4 DEF HostInv

LEMMA ProgramsInv ==
  ASSUME MinerHostAssumption, HostInv, RunGetwork \/ CallDriver PROVE HostInv'
<1>1. DeviceAtRest'
  BY RestWithoutAccess DEF HostInv, RunGetwork, CallDriver
<1>2. NothingToRead'
  BY DEF MinerHostAssumption, HostInv, NothingToRead, RunGetwork, CallDriver, Programs
<1>. QED
  BY <1>1, <1>2 DEF HostInv

\* With the segments that driver, client and device have
\* (MinerHostAssumption), the device at rest, nothing to read: the inductive invariant.
THEOREM HostInvariant ==
  ASSUME MinerHostAssumption PROVE HostSpec => []HostInv
<1>1. HostInit => HostInv
  BY DEF MinerHostAssumption, HostInit, Init, HostInv, DeviceAtRest, NothingToRead, Programs
<1>2. HostInv /\ [HostNext]_<<vars, hostVars>> => HostInv'
  <2>. SUFFICES ASSUME HostInv, [HostNext]_<<vars, hostVars>> PROVE HostInv'
    OBVIOUS
  <2>1. CASE UNCHANGED <<vars, hostVars>>
    BY <2>1 DEF vars, hostVars, HostInv, DeviceAtRest, NothingToRead
  <2>2. CASE NoAccess /\ UNCHANGED hostVars
    BY <2>2, RestWithoutAccess DEF hostVars, HostInv, NothingToRead
  <2>. QED
    BY <2>1, <2>2, WriteDigitInv, StoreDigitInv, RefusedInv, ReadDigitInv, ProgramsInv
       DEF HostNext
<1>. QED
  BY <1>1, <1>2, PTL DEF HostSpec

\* Whatever programs do through the driver, no load starts, no register is read,
\* nothing written can be read back and getwork prints nothing.
THEOREM HostNeverReaches ==
  ASSUME MinerHostAssumption PROVE HostSpec => []HostNeverReachesMiner
<1>1. HostInv => HostNeverReachesMiner
  BY DEF HostInv, DeviceAtRest, NothingToRead, HostNeverReachesMiner
<1>. QED
  BY <1>1, HostInvariant, PTL
=============================================================================
