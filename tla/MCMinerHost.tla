---------------------------- MODULE MCMinerHost ----------------------------
(* The device of MCMinerTop with a header of zeros that one nonce solves,  *)
(* so that the cores stop without a load; of the digits those at the       *)
(* limits: the header, the last writable one, the readable ones, the start *)
(* register.                                                               *)
EXTENDS MinerHost

MCHostGolden == {[job |-> [a \in {0} |-> 0], nonce |-> 3]}
=============================================================================
