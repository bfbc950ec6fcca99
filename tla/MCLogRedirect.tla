---------------------------- MODULE MCLogRedirect ----------------------------
(* Instances of LogRedirect for TLC.                                        *)
EXTENDS LogRedirect, TLC

CONSTANTS t1, t2, t3

TwoThreads == {t1, t2}
ThreeThreads == {t1, t2, t3}

ThreadSymmetry == Permutations(Threads)

=============================================================================
