------------------------- MODULE MCParallelLRUClear -------------------------
(* Values for the constants of ParallelLRUClear.                            *)
EXTENDS ParallelLRUClear, TLC

CONSTANTS t1, t2, k1, k2

TwoThreads == {t1, t2}
TwoKeys == {k1, k2}
OneBin == [k \in Keys |-> 0]

ThreadSymmetry == Permutations(Threads)
=============================================================================
