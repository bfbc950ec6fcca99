------------------------- MODULE MCTaskParallelLRU -------------------------
(* Values for the constants of TaskParallelLRU.                             *)
EXTENDS TaskParallelLRU

CONSTANTS t1, t2, w1, k1, k2, k3, none

TwoCallers == {t1, t2}
OneWorker == {w1}
ThreeKeys == {k1, k2, k3}

(* The getter of the first key gets the second key, and its own again; that *)
(* of the second spawns a task that gets nothing, that of the third none.   *)
Spawned == [k \in Keys |->
  CASE k = k1 -> {"other", "same"} [] k = k2 -> {"leaf"} [] k = k3 -> {}]
Needed == [n \in {"other", "same", "leaf"} |->
  CASE n = "other" -> k2 [] n = "same" -> k1 [] n = "leaf" -> none]

=============================================================================
