----------------------------- MODULE MCMinerTop -----------------------------
(* Two cores of a SHA-256 of two rounds and one hasher; three header       *)
(* addresses: one of the midstate, the nonce and the last.                 *)
EXTENDS MinerTop

JobOf(b) == [a \in {0} |-> b]

\* Only the header whose midstate byte is 1 is solved, by one nonce: the one next
\* to the greater start nonce.
MCGolden == {[job |-> JobOf(1), nonce |-> 2]}
=============================================================================
