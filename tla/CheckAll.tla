------------------------------ MODULE CheckAll ------------------------------
(***************************************************************************)
(* What a CCheckQueue promises ConnectBlock: between two uses it holds     *)
(* nothing, and Wait returns whether all the checks added since the        *)
(* control was made succeed.                                               *)
(***************************************************************************)
CONSTANTS
  Checks,   \* verifications that may be added
  Fails     \* those whose operator() returns false

VARIABLES
  open,     \* a control exists
  added,    \* the checks added through it
  result    \* what the last Wait returned

vars == <<open, added, result>>

Init == ~open /\ added = {} /\ result = TRUE

Open == ~open /\ open' = TRUE /\ added' = {} /\ UNCHANGED result

Add ==
  /\ open
  /\ added' \in SUBSET Checks /\ added \subseteq added'
  /\ UNCHANGED <<open, result>>

Answer ==
  /\ open /\ open' = FALSE
  /\ result' = (added \cap Fails = {})
  /\ UNCHANGED added

\* The thread that waits is interrupted: nobody hears a verdict.
Abandon == open /\ open' = FALSE /\ UNCHANGED <<added, result>>

Next == Open \/ Add \/ Answer \/ Abandon

Spec == Init /\ [][Next]_vars
=============================================================================
