-------------------------- MODULE MCBlockDownload ---------------------------
(* One peer announces three blocks, another one of them.                   *)
EXTENDS BlockDownload

CONSTANTS p1, p2, h1, h2, h3

McKnows == [p \in {p1, p2} |-> IF p = p1 THEN {h1, h2, h3} ELSE {h1}]
=============================================================================
