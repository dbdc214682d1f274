--------------------------- MODULE MCCoreSearch ---------------------------
(* Two jobs, each with two golden nonces close together; the second job    *)
(* starts just below the wrap of the nonce counter.                        *)
EXTENDS CoreSearch

CONSTANTS A, B

Header(j, n) == [job |-> j, nonce |-> n]

MCHeaders == {Header(A, 2), Header(B, 253)}
MCGolden  == {Header(A, 3), Header(A, 5), Header(B, 255), Header(B, 0)}
=============================================================================
