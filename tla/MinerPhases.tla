---------------------------- MODULE MinerPhases ----------------------------
(***************************************************************************)
(* What miner_top promises its host: a header is loaded as a whole, mined  *)
(* until it is solved or replaced, and a solved header stays the one shown *)
(* until the host starts another.                                          *)
(***************************************************************************)
CONSTANTS
  Header,     \* the headers
  NoHeader    \* the header nothing was written to

VARIABLES
  phase,      \* "load", "search" or "stop"
  header      \* the header loaded or being loaded

vars == <<phase, header>>

Init == phase = "search" /\ header = NoHeader

\* The host asks for a new header.
Begin ==
  /\ phase # "load" /\ phase' = "load"
  /\ header' = NoHeader

\* A part of the header arrives; the last part starts the search.
Store ==
  /\ phase = "load" /\ phase' \in {"load", "search"}
  /\ header' \in Header

\* The search has found a ticket.
Solve ==
  /\ phase = "search" /\ phase' = "stop"
  /\ UNCHANGED header

Next == Begin \/ Store \/ Solve

Spec == Init /\ [][Next]_vars
=============================================================================
