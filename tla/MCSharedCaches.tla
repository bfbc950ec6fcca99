--------------------------- MODULE MCSharedCaches ---------------------------
(* Instances of SharedCaches for TLC.                                       *)
EXTENDS SharedCaches

CONSTANTS t1, t2, m1, m2

TwoThreads == {t1, t2}
OneMovie == {m1}
TwoMovies == {m1, m2}

=============================================================================
