-------------------------- MODULE ParallelLRUClear --------------------------
(***************************************************************************)
(* What clear() does to the entries that were cached when it was called,   *)
(* and what the other operations leave for it.  The cache is that of       *)
(* ParallelLRU; three history variables, which no step of it reads,        *)
(* remember what each clear() found and whether there has been one.        *)
(***************************************************************************)
EXTENDS ParallelLRU

VARIABLES
  older,     (* older[t]: the keys with a value when t's last clear() was   *)
             (* called that have kept that very value since                 *)
  alone,     (* alone[t]: no other thread was in a call during that clear() *)
  keyedOnly  (* nobody has called clear() or changed the maximum, and no    *)
             (* pop() has stopped at its bound on full iterations           *)

clearVars == <<vars, older, alone, keyedOnly>>

WithValue == {k \in Keys : status[k] = "cached"}

OthersIdle(t) == \A u \in Threads \ {t} : pc[u] = "idle"

ClearInit ==
  /\ Init
  /\ older = [t \in Threads |-> {}]
  /\ alone = [t \in Threads |-> TRUE]
  /\ keyedOnly = TRUE

(* A pop() that ends because it is past its bound on full iterations.       *)
StopsCircling(t) == pc[t] = "nextBin" /\ pc'[t] = "idle" /\ rounds > MaxRounds

(* A value that is replaced is taken out first, so an entry that keeps its  *)
(* status keeps its value.                                                  *)
ClearNext ==
  /\ Next
  /\ older' = [t \in Threads |->
                 IF op'[t] = "clear" /\ op[t] # "clear" THEN WithValue
                 ELSE older[t] \cap WithValue']
  /\ alone' = [t \in Threads |->
                 IF op'[t] # "clear" THEN alone[t]
                 ELSE (op[t] # "clear" \/ alone[t]) /\ OthersIdle(t)']
  /\ keyedOnly' = (/\ keyedOnly
                   /\ maxCost' = maxCost
                   /\ \A t \in Threads : op'[t] # "clear" /\ ~ StopsCircling(t))

ClearSpec == ClearInit /\ [][ClearNext]_clearVars

-----------------------------------------------------------------------------
(* "Erases all cached items" (LRUCache.h:152): a clear() during which no    *)
(* other thread is in a call leaves nothing of what was there, second       *)
(* chances included.  One that overlaps other calls keeps no such promise:  *)
(* it stops when it finds another thread popping, and skips what others     *)
(* have locked.                                                             *)
ClearAloneErasesAll ==
  \A t \in Threads : op[t] # "clear" /\ alone[t] => older[t] = {}

(* Two threads that only get, set and erase never leave a cache that is     *)
(* above its limit behind: either of them that gives m_popMutex up leaves   *)
(* the cleanup to the other (LRUCache.inl:1288-1300).  The other must not   *)
(* be one that stops at the bound on iterations because the items it meets  *)
(* are used again and again, or whose argument of limitCost() is a maximum  *)
(* that has changed since.                                                  *)
TwoKeepLimit == keyedOnly => WithinLimitAtRest

=============================================================================
