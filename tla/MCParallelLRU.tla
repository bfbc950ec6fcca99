--------------------------- MODULE MCParallelLRU ---------------------------
(* Values for the constants of ParallelLRU.                                 *)
EXTENDS ParallelLRU

CONSTANTS t1, t2, k1, k2

TwoThreads == {t1, t2}
TwoKeys == {k1, k2}
TwoBins == [k \in Keys |-> IF k = k1 THEN 0 ELSE 1]

=============================================================================
