----------------------------- MODULE ActiveChain -----------------------------
(***************************************************************************)
(* What the block chain promises the rest of the node: the active tip      *)
(* moves along the block tree one block at a time, and the chain it stands *)
(* for never holds a block that breaks a consensus rule.                   *)
(***************************************************************************)
CONSTANTS
  Blocks,    \* the blocks of the tree
  Genesis,
  Parent,    \* [Blocks -> Blocks]
  Path,      \* a block with all its ancestors
  Bad        \* blocks that break a consensus rule when connected

VARIABLES
  tip,       \* the last block of the active chain
  up         \* the node runs

vars == <<tip, up>>

Valid(b) == Path[b] \cap Bad = {}

Init == tip = Genesis /\ up = TRUE

Extend ==
  /\ up /\ UNCHANGED up
  /\ tip' \in Blocks \ Bad
  /\ tip' # Genesis /\ Parent[tip'] = tip

Retract ==
  /\ up /\ UNCHANGED up
  /\ tip # Genesis /\ tip' = Parent[tip]

Stop == up /\ up' = FALSE /\ UNCHANGED tip

\* A restart may resume at another block, never on a chain with a bad one.
Start ==
  /\ ~up /\ up' = TRUE
  /\ tip' \in Blocks /\ Path[tip'] \cap Bad = {}

Next == Extend \/ Retract \/ Stop \/ Start

Spec == Init /\ [][Next]_vars
=============================================================================
