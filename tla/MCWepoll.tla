------------------------------- MODULE MCWepoll ------------------------------
EXTENDS Wepoll, TLC

\* The threads are alike, and no temporal property is checked.
Symmetry == Permutations(Threads)
=============================================================================
