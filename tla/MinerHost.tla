----------------------------- MODULE MinerHost -----------------------------
(***************************************************************************)
(* The host side of the miner: the character driver of miner_driver.c, the *)
(* getwork program and any other program that has the device open, on the  *)
(* bus of the device of MinerTop.  ioctl is unlocked: programs run through *)
(* the driver at the same time.                                            *)
(*                                                                         *)
(* A step is a clock of the device, with at most one host step beside it.  *)
(* Of the 100 bytes of dev.segments the model keeps those in Digits, and   *)
(* the loops of getwork.c go from one of them to the next.                 *)
(***************************************************************************)
EXTENDS MinerTop

CONSTANTS
  DATA_SIZE,   \* bytes of dev.segments
  Digits,      \* the segment numbers a program uses
  Getwork,     \* the getwork program
  Other        \* some other program

\* What the theorems assume of the constants.
MinerHostAssumption ==
  /\ DATA_SIZE \in Nat
  /\ Digits \subseteq 0 .. 255 /\ HeaderAddrs \cup {0} \subseteq Digits
  /\ Getwork # Other

VARIABLES
  segments,    \* dev.segments
  task,        \* what a program does: "write", "store", "print", "idle"
  digit,       \* vla.digit of its call
  byte,        \* vla.segments of its call
  printed      \* values this run of the getwork program has printed

hostVars == <<segments, task, digit, byte, printed>>

Programs == {Getwork, Other}

Follows(e, d) == e > d /\ \A f \in Digits : f > d => e <= f

HostInit ==
  /\ Init
  /\ segments = [d \in {e \in Digits : e < DATA_SIZE} |-> 0]
  /\ task = [p \in Programs |-> IF p = Getwork THEN "write" ELSE "idle"]
  /\ digit = [p \in Programs |-> 0]
  /\ byte = [p \in Programs |-> 0]
  /\ printed = 0

----------------------------------------------------------------------------
(***************************************************************************)
(* The bus                                                                 *)
(***************************************************************************)

\* A clock of the device without an access, and one with a byte written: a
\* write that comes in the clock that starts a load is lost.
NoAccess == StartLoad \/ Refresh \/ Poll

BusWrite(address, value) ==
  \/ StartLoad
  \/ WriteControl(address, value % 2 = 1)
  \/ WriteHeader(address, value)

----------------------------------------------------------------------------
(***************************************************************************)
(* The driver                                                              *)
(***************************************************************************)

\* The ranges the two calls accept; 100 is beyond the end of dev.segments.
Writable(d) == d <= 96
Readable(d) == 97 <= d /\ d <= 100

\* write_digit: the byte goes to the device and then to dev.segments.  The
\* getwork program takes it from beyond the end of its message, too.
WriteDigit(p) ==
  /\ task[p] = "write" /\ Writable(digit[p])
  /\ \E b \in Bytes : /\ BusWrite(digit[p], b)
                      /\ byte' = [byte EXCEPT ![p] = b]
  /\ task' = [task EXCEPT ![p] = "store"]
  /\ UNCHANGED <<segments, digit, printed>>

\* The getwork program goes on to the next digit below DATA_SIZE; a program
\* without one is done with its calls.
Following(p) == {e \in Digits : p = Getwork /\ Follows(e, digit[p]) /\ e < DATA_SIZE}

Continue(p, current, after) ==
  \/ \E e \in Following(p) : /\ digit' = [digit EXCEPT ![p] = e]
                             /\ task' = [task EXCEPT ![p] = current]
  \/ /\ Following(p) = {}
     /\ digit' = [digit EXCEPT ![p] = 0]
     /\ task' = [task EXCEPT ![p] = after]

AfterWriting(p) == IF p = Getwork THEN "print" ELSE "idle"

StoreDigit(p) ==
  /\ task[p] = "store"
  /\ segments' = [segments EXCEPT ![digit[p]] = byte[p]]
  /\ Continue(p, "write", AfterWriting(p))
  /\ NoAccess
  /\ UNCHANGED <<byte, printed>>

\* -EINVAL: write_segments returns, and main goes on to print_segment_info.
WriteRefused(p) ==
  /\ task[p] = "write" /\ ~Writable(digit[p])
  /\ task' = [task EXCEPT ![p] = AfterWriting(p)]
  /\ digit' = [digit EXCEPT ![p] = 0]
  /\ NoAccess
  /\ UNCHANGED <<segments, byte, printed>>

\* READ_DIGIT answers from dev.segments, or from what follows it in memory;
\* the device is not asked.
ReadDigit(p) ==
  /\ task[p] = "print" /\ Readable(digit[p])
  /\ byte' \in {[byte EXCEPT ![p] = b] :
                  b \in IF digit[p] < DATA_SIZE THEN {segments[digit[p]]} ELSE Bytes}
  /\ printed' = IF p = Getwork THEN printed + 1 ELSE printed
  /\ Continue(p, "print", "idle")
  /\ NoAccess
  /\ UNCHANGED segments

\* -EINVAL: print_segment_info returns, and main with it.
ReadRefused(p) ==
  /\ task[p] = "print" /\ ~Readable(digit[p])
  /\ task' = [task EXCEPT ![p] = "idle"]
  /\ digit' = [digit EXCEPT ![p] = 0]
  /\ NoAccess
  /\ UNCHANGED <<segments, byte, printed>>

----------------------------------------------------------------------------
(***************************************************************************)
(* The programs                                                            *)
(***************************************************************************)

\* The getwork program is started again; it writes and then prints.
RunGetwork ==
  /\ task[Getwork] = "idle"
  /\ task' = [task EXCEPT ![Getwork] = "write"]
  /\ printed' = 0
  /\ NoAccess
  /\ UNCHANGED <<segments, digit, byte>>

\* Another program makes a call of its own.
CallDriver ==
  /\ task[Other] = "idle"
  /\ \E d \in Digits : digit' = [digit EXCEPT ![Other] = d]
  /\ \E t \in {"write", "print"} : task' = [task EXCEPT ![Other] = t]
  /\ NoAccess
  /\ UNCHANGED <<segments, byte, printed>>

HostNext ==
  \/ \E p \in Programs :
       WriteDigit(p) \/ StoreDigit(p) \/ WriteRefused(p) \/ ReadDigit(p) \/ ReadRefused(p)
  \/ RunGetwork \/ CallDriver
  \/ NoAccess /\ UNCHANGED hostVars

HostSpec == HostInit /\ [][HostNext]_<<vars, hostVars>>

----------------------------------------------------------------------------
(***************************************************************************)
(* Properties                                                              *)
(***************************************************************************)

\* "Read and print the segment values" (getwork.c:35): print_segment_info does
\* not return without having printed one.
SegmentsPrinted ==
  [][ task[Getwork] = "print" /\ task'[Getwork] = "idle" => printed' > 0 ]_<<vars, hostVars>>

\* Whatever programs do through the driver, at the same time and for however
\* long, no load is ever started and no byte reaches a header, because the start
\* register lies beyond the writable digits; no register is read, what a program
\* can read back nobody can have written, and the getwork program prints nothing.
HostNeverReachesMiner ==
  /\ loads = 0 /\ ~loading /\ header_buffer = NoHeader
  /\ readdata = 0
  /\ \A d \in DOMAIN segments : Readable(d) => segments[d] = 0
  /\ printed = 0
=============================================================================
