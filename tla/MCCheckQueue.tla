---------------------------- MODULE MCCheckQueue ----------------------------
EXTENDS CheckQueue, TLC

CONSTANTS c1, c2

\* Workers are interchangeable.
Symmetry == Permutations(Workers)
=============================================================================
