---------------------------- MODULE ParallelLRU ----------------------------
(***************************************************************************)
(* IECorePreview::LRUCache with the Parallel policy, the cache behind both *)
(* SharedDecoders and SharedFrames.  Threads call the cache's operations   *)
(* concurrently.  An operation acquires a handle (bin lock, then item      *)
(* lock, both spin locks), works on the entry under the item lock, and may *)
(* end by popping entries until the cost is within the limit.              *)
(*                                                                         *)
(* A bin lock is held by acquire() only for a bounded piece of code that   *)
(* waits for nothing, so one turn of acquire()'s loop is one step; pop()   *)
(* keeps the bin lock from one visited item to the next, so it is a step   *)
(* per item and a step on each side of every gap between two bins.         *)
(***************************************************************************)
EXTENDS Integers, FiniteSets, FiniteSetsExt

CONSTANTS
  Threads,      (* the threads that call the cache                          *)
  Keys,         (* the keys they use                                        *)
  NumBins,      (* m_bins.size(): std::thread::hardware_concurrency()       *)
  BinOf,        (* BinOf[k]: the bin the hash sends key k to                *)
  Costs,        (* the costs getters and callers give to values             *)
  Limits,       (* the maximum costs setMaxCost is called with              *)
  FirstLimit,   (* the maximum cost given to the constructor                *)
  MaxRounds,    (* pop()'s bound on full iterations, 50 in the code         *)
  CacheErrors,  (* the constructor's cacheErrors                            *)
  Ops,          (* the operations the threads may call                      *)
  Budget        (* a bound on the number of calls a thread makes            *)

AllOps == {"get", "getIfCached", "set", "setIfUncached", "cached", "erase",
           "clear", "setMaxCost"}

Bins == 0 .. NumBins - 1

(* hardware_concurrency() may return 0; the code then indexes an empty     *)
(* vector, so at least one bin is assumed.  A process has finitely many     *)
(* threads; there may be infinitely many keys.                              *)
ASSUME ConstantsAssumption ==
  /\ IsFiniteSet(Threads)
  /\ Keys # {}
  /\ NumBins \in Nat \ {0}
  /\ BinOf \in [Keys -> Bins]
  /\ Costs \subseteq Nat
  /\ Limits \subseteq Nat
  /\ FirstLimit \in Nat
  /\ MaxRounds \in Nat
  /\ CacheErrors \in BOOLEAN
  /\ Ops \subseteq AllOps
  /\ Budget \in Nat

VARIABLES
  present,      (* the keys that have an Item in their bin                  *)
  status,       (* status[k]: CacheEntry::status() of k's item              *)
  cost,         (* cost[k]: CacheEntry::cost of a cached entry, else 0      *)
  used,         (* the keys whose item has recentlyUsed set                 *)
  readers,      (* readers[k]: the threads that hold k's item for reading   *)
  writers,      (* writers[k]: the threads that hold k's item for writing   *)
  currentCost,  (* Policy::currentCost                                      *)
  maxCost,      (* LRUCache::m_maxCost                                      *)
  popper,       (* the threads that hold m_popMutex                         *)
  binHeld,      (* whether the popper holds the lock of bin popBin          *)
  popBin,       (* m_popBinIndex                                            *)
  ahead,        (* the items from m_popIterator to the end of its bin       *)
  sentinel,     (* the bin whose end() is emptySentinel                     *)
  rounds,       (* numFullIterations                                        *)
  pc, op, key, mode, lim,  (* where each thread is in its call, and its     *)
                           (* operation, key, AcquireMode and cost limit    *)
  popped,       (* popped[t]: the cost of the entry t has popped and not    *)
                (* yet subtracted, 0 if that entry has no value             *)
  budget        (* budget[t]: the calls t may still make                    *)

storeVars == <<present, status, cost, used, readers, writers>>
costVars  == <<currentCost, maxCost>>
popVars   == <<popper, binHeld, popBin, ahead, sentinel, rounds>>
callVars  == <<op, key, mode, lim, popped, budget>>
vars      == <<storeVars, costVars, popVars, pc, callVars>>

-----------------------------------------------------------------------------
Statuses == {"uncached", "cached", "failed"}
Modes == {"Insert", "InsertWritable", "FindReadable", "FindWritable"}

PCs == {"idle", "acquire", "getter", "discard", "store", "publish", "touch",
        "erase", "leave", "readLimit", "limit", "pop", "lockBin", "scan",
        "nextBin", "discardPopped"}

(* Where a call works on the entry it holds.                                *)
WritingPCs == {"getter", "discard", "store", "publish", "erase"}
HoldingPCs == WritingPCs \cup {"touch", "leave"}

(* Where a thread is inside pop(), with m_popMutex held.                    *)
PoppingPCs == {"lockBin", "scan", "nextBin"}

AnyKey == CHOOSE k \in Keys : TRUE

ModeOf(o) ==
  CASE o = "set" -> "InsertWritable"
    [] o = "erase" -> "FindWritable"
    [] o \in {"getIfCached", "cached"} -> "FindReadable"
    [] OTHER -> "Insert"

(* What an operation does first with an entry it acquired in status s.      *)
OnAcquired(o, s) ==
  CASE o = "set" -> "discard"
    [] o = "erase" -> "erase"
    [] o = "get" /\ s = "uncached" -> "getter"
    [] o = "setIfUncached" /\ s = "uncached" -> "discard"
    [] o \in {"get", "getIfCached"} /\ s = "cached" -> "touch"
    [] OTHER -> "leave"

BinItems(b) == {k \in present : BinOf[k] = b}
BinFree(b) == ~ (binHeld /\ popBin = b)
Unlocked(k) == readers[k] = {} /\ writers[k] = {}

Goto(t, p) == pc' = [pc EXCEPT ![t] = p]

(* The call returns; its local variables go with it.                        *)
Return(t) ==
  /\ Goto(t, "idle")
  /\ op' = [op EXCEPT ![t] = "none"]
  /\ key' = [key EXCEPT ![t] = AnyKey]
  /\ mode' = [mode EXCEPT ![t] = "Insert"]
  /\ lim' = [lim EXCEPT ![t] = 0]
  /\ popped' = [popped EXCEPT ![t] = 0]
  /\ UNCHANGED budget

-----------------------------------------------------------------------------
Init ==
  /\ present = {}
  /\ status = [k \in Keys |-> "uncached"]
  /\ cost = [k \in Keys |-> 0]
  /\ used = {}
  /\ readers = [k \in Keys |-> {}]
  /\ writers = [k \in Keys |-> {}]
  /\ currentCost = 0
  /\ maxCost = FirstLimit
  /\ popper = {}
  /\ binHeld = FALSE
  /\ popBin = 0
  /\ ahead = {}
  /\ sentinel = 0
  /\ rounds = 0
  /\ pc = [t \in Threads |-> "idle"]
  /\ op = [t \in Threads |-> "none"]
  /\ key = [t \in Threads |-> AnyKey]
  /\ mode = [t \in Threads |-> "Insert"]
  /\ lim = [t \in Threads |-> 0]
  /\ popped = [t \in Threads |-> 0]
  /\ budget = [t \in Threads |-> Budget]

-----------------------------------------------------------------------------
(* Calls.                                                                   *)

Call(t, o) ==
  /\ pc[t] = "idle"
  /\ budget[t] > 0
  /\ o \in Ops
  /\ op' = [op EXCEPT ![t] = o]
  /\ budget' = [budget EXCEPT ![t] = @ - 1]

(* get, getIfCached, set, setIfUncached, cached and erase start by          *)
(* acquiring a handle.                                                      *)
CallKeyed(t) == \E o \in AllOps \ {"clear", "setMaxCost"}, k \in Keys :
  /\ Call(t, o)
  /\ Goto(t, "acquire")
  /\ key' = [key EXCEPT ![t] = k]
  /\ mode' = [mode EXCEPT ![t] = ModeOf(o)]
  /\ UNCHANGED <<storeVars, costVars, popVars, lim, popped>>

CallClear(t) ==
  /\ Call(t, "clear")
  /\ Goto(t, "pop")
  /\ UNCHANGED <<storeVars, costVars, popVars, key, mode, lim, popped>>

(* Only a lower maximum makes setMaxCost call limitCost; with a higher one  *)
(* there is nothing to discard and the call ends.                           *)
CallSetMaxCost(t) == \E m \in Limits :
  /\ m < maxCost
  /\ Call(t, "setMaxCost")
  /\ maxCost' = m
  /\ lim' = [lim EXCEPT ![t] = m]
  /\ Goto(t, "limit")
  /\ UNCHANGED <<storeVars, currentCost, popVars, key, mode, popped>>

RaiseMaxCost(t) == \E m \in Limits :
  /\ pc[t] = "idle" /\ budget[t] > 0 /\ "setMaxCost" \in Ops
  /\ m >= maxCost
  /\ maxCost' = m
  /\ budget' = [budget EXCEPT ![t] = @ - 1]
  /\ UNCHANGED <<storeVars, currentCost, popVars, pc, op, key, mode, lim, popped>>

-----------------------------------------------------------------------------
(* Handle::acquire().                                                       *)

Acquiring(t) == pc[t] = "acquire" /\ BinFree(BinOf[key[t]])

(* find() fails in a mode that does not insert.                             *)
AcquireMissing(t) ==
  /\ Acquiring(t)
  /\ key[t] \notin present
  /\ mode[t] \in {"FindReadable", "FindWritable"}
  /\ Return(t)
  /\ UNCHANGED <<storeVars, costVars, popVars>>

(* Inserting into the bin of m_popIterator leaves the iterator on its item  *)
(* (end() stays end()), but the new item, or a rehash, can change what      *)
(* lies between it and the end.                                             *)
AheadAfterInsert(k) ==
  IF BinOf[k] # popBin \/ ahead = {} THEN {ahead}
  ELSE {a \in SUBSET (BinItems(popBin) \cup {k}) : a \cap ahead # {}}

(* The item is inserted, and locked for writing, before anyone sees it.     *)
AcquireInsert(t) ==
  LET k == key[t] IN
  /\ Acquiring(t)
  /\ k \notin present
  /\ mode[t] \in {"Insert", "InsertWritable"}
  /\ present' = present \cup {k}
  /\ readers' = [readers EXCEPT ![k] = {}]
  /\ writers' = [writers EXCEPT ![k] = {t}]
  /\ ahead' \in AheadAfterInsert(k)
  /\ Goto(t, OnAcquired(op[t], "uncached"))
  /\ UNCHANGED <<status, cost, used, costVars,
                 popper, binHeld, popBin, sentinel, rounds, callVars>>

(* A reader that starts working whatever the entry's status.                *)
AcquireReadAnyStatus(t) ==
  LET k == key[t] IN
  /\ Acquiring(t)
  /\ k \in present
  /\ mode[t] \in {"Insert", "FindReadable"}
  /\ writers[k] = {}
  /\ readers' = [readers EXCEPT ![k] = @ \cup {t}]
  /\ Goto(t, OnAcquired(op[t], status[k]))
  /\ UNCHANGED <<present, status, cost, used, writers, costVars, popVars, callVars>>

(* The item is there and a read lock is free.                               *)
AcquireRead(t) ==
  LET k == key[t] IN
  /\ Acquiring(t)
  /\ k \in present
  /\ mode[t] \in {"Insert", "FindReadable"}
  /\ writers[k] = {}
  /\ ~ (mode[t] = "Insert" /\ status[k] = "uncached")
  /\ readers' = [readers EXCEPT ![k] = @ \cup {t}]
  /\ Goto(t, OnAcquired(op[t], status[k]))
  /\ UNCHANGED <<present, status, cost, used, writers, costVars, popVars, callVars>>

(* A read lock on an entry without a value is of no use to get: it is       *)
(* released and the loop starts again in mode InsertWritable.               *)
AcquireRetry(t) ==
  LET k == key[t] IN
  /\ Acquiring(t)
  /\ k \in present
  /\ mode[t] = "Insert"
  /\ writers[k] = {}
  /\ status[k] = "uncached"
  /\ mode' = [mode EXCEPT ![t] = "InsertWritable"]
  /\ UNCHANGED <<storeVars, costVars, popVars, pc, op, key, lim, popped, budget>>

AcquireWrite(t) ==
  LET k == key[t] IN
  /\ Acquiring(t)
  /\ k \in present
  /\ mode[t] \in {"InsertWritable", "FindWritable"}
  /\ Unlocked(k)
  /\ writers' = [writers EXCEPT ![k] = {t}]
  /\ Goto(t, OnAcquired(op[t], status[k]))
  /\ UNCHANGED <<present, status, cost, used, readers, costVars, popVars, callVars>>

(* Another thread has the item lock.  The loop spins, and a get that was    *)
(* cancelled meanwhile throws before the next turn.                         *)
AcquireCancelled(t) ==
  LET k == key[t] IN
  /\ Acquiring(t)
  /\ op[t] = "get"
  /\ k \in present
  /\ \/ writers[k] # {}
     \/ mode[t] = "InsertWritable" /\ readers[k] # {}
  /\ Return(t)
  /\ UNCHANGED <<storeVars, costVars, popVars>>

-----------------------------------------------------------------------------
(* Working on the entry under the item lock.                                *)

Release(t) ==
  /\ readers' = [readers EXCEPT ![key[t]] = @ \ {t}]
  /\ writers' = [writers EXCEPT ![key[t]] = @ \ {t}]

(* The getter ends: with a value, with an exception, or cancelled.          *)
GetterReturns(t) ==
  /\ pc[t] = "getter"
  /\ Goto(t, "discard")
  /\ UNCHANGED <<storeVars, costVars, popVars, callVars>>

GetterThrows(t) ==
  /\ pc[t] = "getter"
  /\ status' = [status EXCEPT ![key[t]] = IF CacheErrors THEN "failed" ELSE @]
  /\ Goto(t, "leave")
  /\ UNCHANGED <<present, cost, used, readers, writers, costVars, popVars, callVars>>

GetterCancelled(t) ==
  /\ pc[t] = "getter"
  /\ Goto(t, "leave")
  /\ UNCHANGED <<storeVars, costVars, popVars, callVars>>

(* An erase that forgets the entries without a value.                       *)
EraseCached(k) ==
  /\ currentCost' = currentCost - cost[k]
  /\ status' = [status EXCEPT ![k] = IF @ = "cached" THEN "uncached" ELSE @]
  /\ cost' = [cost EXCEPT ![k] = 0]

(* eraseInternal() on the entry of the handle.                              *)
EraseInternal(k) ==
  /\ currentCost' = currentCost - cost[k]
  /\ status' = [status EXCEPT ![k] = "uncached"]
  /\ cost' = [cost EXCEPT ![k] = 0]

(* A replaced value whose cost stays in the sum.                            *)
DiscardNothing(t) ==
  /\ pc[t] = "discard"
  /\ status' = [status EXCEPT ![key[t]] = "uncached"]
  /\ cost' = [cost EXCEPT ![key[t]] = 0]
  /\ Goto(t, "store")
  /\ UNCHANGED <<present, used, readers, writers, costVars, popVars, callVars>>

(* setInternal(): the old value goes first, then the new one comes in if    *)
(* its cost is not above the maximum.                                       *)
Discard(t) ==
  /\ pc[t] = "discard"
  /\ EraseInternal(key[t])
  /\ Goto(t, "store")
  /\ UNCHANGED <<present, used, readers, writers, maxCost, popVars, callVars>>

Store(t) == \E c \in Costs :
  /\ pc[t] = "store"
  /\ \/ /\ c > maxCost
        /\ UNCHANGED <<status, cost, currentCost>>
     \/ /\ c <= maxCost
        /\ status' = [status EXCEPT ![key[t]] = "cached"]
        /\ cost' = [cost EXCEPT ![key[t]] = c]
        /\ currentCost' = currentCost + c
  /\ Goto(t, "publish")
  /\ UNCHANGED <<present, used, readers, writers, maxCost, popVars, callVars>>

(* push() and release().  Nobody can read recentlyUsed in between: pop()    *)
(* reads it under the item lock.                                            *)
Publish(t) ==
  /\ pc[t] = "publish"
  /\ used' = used \cup {key[t]}
  /\ Release(t)
  /\ Goto(t, "readLimit")
  /\ key' = [key EXCEPT ![t] = AnyKey]
  /\ UNCHANGED <<present, status, cost, costVars, popVars, op, mode, lim, popped, budget>>

(* A hit: push(), and the handle is released as the call returns.           *)
Touch(t) ==
  /\ pc[t] = "touch"
  /\ used' = used \cup {key[t]}
  /\ Release(t)
  /\ Return(t)
  /\ UNCHANGED <<present, status, cost, costVars, popVars>>

(* erase(): the item stays in its bin, without a value.                     *)
Erase(t) ==
  /\ pc[t] = "erase"
  /\ EraseInternal(key[t])
  /\ Goto(t, "leave")
  /\ UNCHANGED <<present, used, readers, writers, maxCost, popVars, callVars>>

(* A call that ends without giving the item lock back.                      *)
LeaveLocked(t) ==
  /\ pc[t] = "leave"
  /\ Return(t)
  /\ UNCHANGED <<storeVars, costVars, popVars>>

(* The other ways a call ends with a handle: only the lock is released.     *)
Leave(t) ==
  /\ pc[t] = "leave"
  /\ Release(t)
  /\ Return(t)
  /\ UNCHANGED <<present, status, cost, used, costVars, popVars>>

-----------------------------------------------------------------------------
(* limitCost() and clear().                                                 *)

(* limitCost( m_maxCost ): the argument is read once.                       *)
ReadLimit(t) ==
  /\ pc[t] = "readLimit"
  /\ lim' = [lim EXCEPT ![t] = maxCost]
  /\ Goto(t, "limit")
  /\ UNCHANGED <<storeVars, costVars, popVars, op, key, mode, popped, budget>>

LimitExceeded(t) ==
  /\ pc[t] = "limit"
  /\ currentCost > lim[t]
  /\ Goto(t, "pop")
  /\ UNCHANGED <<storeVars, costVars, popVars, callVars>>

LimitMet(t) ==
  /\ pc[t] = "limit"
  /\ currentCost <= lim[t]
  /\ Return(t)
  /\ UNCHANGED <<storeVars, costVars, popVars>>

-----------------------------------------------------------------------------
(* pop().  A pop() that returns false ends limitCost() and clear() alike.   *)

ReleasePopMutex ==
  /\ popper' = {}
  /\ binHeld' = FALSE
  /\ rounds' = 0
  /\ sentinel' = 0

PopGivesUp(t) ==
  /\ pc[t] = "pop"
  /\ popper # {}
  /\ Return(t)
  /\ UNCHANGED <<storeVars, costVars, popVars>>

PopTakesMutex(t) ==
  /\ pc[t] = "pop"
  /\ popper = {}
  /\ popper' = {t}
  /\ Goto(t, "lockBin")
  /\ UNCHANGED <<storeVars, costVars, binHeld, popBin, ahead, sentinel, rounds, callVars>>

PopLocksBin(t) ==
  /\ pc[t] = "lockBin"
  /\ binHeld' = TRUE
  /\ sentinel' = popBin
  /\ Goto(t, "scan")
  /\ UNCHANGED <<storeVars, costVars, popper, popBin, ahead, rounds, callVars>>

(* The item m_popIterator is on is locked: skip it.                         *)
SkipItem(t, k) ==
  /\ ~ Unlocked(k)
  /\ ahead' = ahead \ {k}
  /\ sentinel' = popBin
  /\ UNCHANGED <<storeVars, costVars, popper, binHeld, popBin, rounds, pc, callVars>>

(* It was used recently: it gets a second chance.                           *)
SpareItem(t, k) ==
  /\ Unlocked(k)
  /\ k \in used
  /\ used' = used \ {k}
  /\ ahead' = ahead \ {k}
  /\ sentinel' = popBin
  /\ UNCHANGED <<present, status, cost, readers, writers, costVars,
                 popper, binHeld, popBin, rounds, pc, callVars>>

(* A pop that does not try the item lock.                                   *)
PopLockedItem(t, k) ==
  /\ k \notin used
  /\ popped' = [popped EXCEPT ![t] = cost[k]]
  /\ present' = present \ {k}
  /\ status' = [status EXCEPT ![k] = "uncached"]
  /\ cost' = [cost EXCEPT ![k] = 0]
  /\ ahead' = ahead \ {k}
  /\ ReleasePopMutex
  /\ Goto(t, "discardPopped")
  /\ UNCHANGED <<used, readers, writers, costVars, popBin, op, key, mode, lim, budget>>

(* A pop that leaves m_popIterator on the item it erased.                   *)
PopKeepsIterator(t, k) ==
  /\ Unlocked(k)
  /\ k \notin used
  /\ popped' = [popped EXCEPT ![t] = cost[k]]
  /\ present' = present \ {k}
  /\ status' = [status EXCEPT ![k] = "uncached"]
  /\ cost' = [cost EXCEPT ![k] = 0]
  /\ ReleasePopMutex
  /\ Goto(t, "discardPopped")
  /\ UNCHANGED <<used, readers, writers, costVars, popBin, ahead, op, key, mode, lim, budget>>

(* It is popped: copied, erased from the bin, and both locks go.            *)
PopItem(t, k) ==
  /\ Unlocked(k)
  /\ k \notin used
  /\ popped' = [popped EXCEPT ![t] = cost[k]]
  /\ present' = present \ {k}
  /\ status' = [status EXCEPT ![k] = "uncached"]
  /\ cost' = [cost EXCEPT ![k] = 0]
  /\ ahead' = ahead \ {k}
  /\ ReleasePopMutex
  /\ Goto(t, "discardPopped")
  /\ UNCHANGED <<used, readers, writers, costVars, popBin, op, key, mode, lim, budget>>

(* Bins are unordered: any item ahead of the iterator may be the one it is  *)
(* on.                                                                      *)
PopVisits(t) ==
  /\ pc[t] = "scan"
  /\ \E k \in ahead : SkipItem(t, k) \/ SpareItem(t, k) \/ PopItem(t, k)

(* An index that does not wrap after the last bin.                          *)
PopLeavesBinUnwrapped(t) ==
  /\ pc[t] = "scan"
  /\ ahead = {}
  /\ binHeld' = FALSE
  /\ popBin' = popBin + 1
  /\ Goto(t, "nextBin")
  /\ UNCHANGED <<storeVars, costVars, popper, ahead, sentinel, rounds, callVars>>

(* The end of the bin: its lock is released before the next one is taken.   *)
PopLeavesBin(t) ==
  /\ pc[t] = "scan"
  /\ ahead = {}
  /\ binHeld' = FALSE
  /\ popBin' = (popBin + 1) % NumBins
  /\ Goto(t, "nextBin")
  /\ UNCHANGED <<storeVars, costVars, popper, ahead, sentinel, rounds, callVars>>

(* Giving up at the first bin one comes back to, empty or not.              *)
BackAtSentinel == popBin = sentinel

(* m_popIterator == emptySentinel after the move to the next bin.           *)
FullCircle == popBin = sentinel /\ BinItems(popBin) = {}

(* Giving up after one round, when items had only been spared so far.       *)
OneRoundOnly == popBin = 0 /\ rounds > 0

RoundsExhausted == popBin = 0 /\ rounds > MaxRounds

PopEntersBin(t) ==
  /\ pc[t] = "nextBin"
  /\ ~ FullCircle /\ ~ RoundsExhausted
  /\ binHeld' = TRUE
  /\ ahead' = BinItems(popBin)
  /\ rounds' = IF popBin = 0 THEN rounds + 1 ELSE rounds
  /\ Goto(t, "scan")
  /\ UNCHANGED <<storeVars, costVars, popper, popBin, sentinel, callVars>>

PopFindsNothing(t) ==
  /\ pc[t] = "nextBin"
  /\ FullCircle \/ RoundsExhausted
  /\ ahead' = BinItems(popBin)
  /\ ReleasePopMutex
  /\ Return(t)
  /\ UNCHANGED <<storeVars, costVars, popBin>>

(* eraseInternal() on the popped copy, when the locks are gone.             *)
DiscardPopped(t) ==
  /\ pc[t] = "discardPopped"
  /\ currentCost' = currentCost - popped[t]
  /\ popped' = [popped EXCEPT ![t] = 0]
  /\ Goto(t, IF op[t] = "clear" THEN "pop" ELSE "limit")
  /\ UNCHANGED <<storeVars, maxCost, popVars, op, key, mode, lim, budget>>

-----------------------------------------------------------------------------
Calls(t) ==
  \/ CallKeyed(t) \/ CallClear(t) \/ CallSetMaxCost(t) \/ RaiseMaxCost(t)

AcquireStep(t) ==
  \/ AcquireMissing(t) \/ AcquireInsert(t) \/ AcquireRead(t)
  \/ AcquireRetry(t) \/ AcquireWrite(t)

EntryStep(t) ==
  \/ GetterReturns(t) \/ GetterThrows(t) \/ GetterCancelled(t)
  \/ Discard(t) \/ Store(t) \/ Publish(t) \/ Touch(t) \/ Erase(t) \/ Leave(t)

LimitStep(t) ==
  \/ ReadLimit(t) \/ LimitExceeded(t) \/ LimitMet(t) \/ DiscardPopped(t)

PopStep(t) ==
  \/ PopGivesUp(t) \/ PopTakesMutex(t) \/ PopLocksBin(t) \/ PopVisits(t)
  \/ PopLeavesBin(t) \/ PopEntersBin(t) \/ PopFindsNothing(t)

Work(t) == AcquireStep(t) \/ EntryStep(t) \/ LimitStep(t) \/ PopStep(t)

Next == \E t \in Threads : Calls(t) \/ AcquireCancelled(t) \/ Work(t)

Spec == Init /\ [][Next]_vars

(* A thread inside a call keeps running, and getters end; nothing makes a   *)
(* thread call the cache, or cancels a get that waits for a lock.           *)
FairSpec == Spec /\ \A t \in Threads : WF_vars(Work(t))

-----------------------------------------------------------------------------
(* Every variable has a value of its kind.                                  *)
TypeOK ==
  /\ present \subseteq Keys
  /\ status \in [Keys -> Statuses]
  /\ cost \in [Keys -> Nat]
  /\ used \subseteq Keys
  /\ readers \in [Keys -> SUBSET Threads]
  /\ writers \in [Keys -> SUBSET Threads]
  /\ currentCost \in Int
  /\ maxCost \in Nat
  /\ popper \subseteq Threads
  /\ binHeld \in BOOLEAN
  /\ popBin \in Bins
  /\ ahead \subseteq Keys
  /\ sentinel \in Bins
  /\ rounds \in Nat
  /\ pc \in [Threads -> PCs]
  /\ op \in [Threads -> AllOps \cup {"none"}]
  /\ key \in [Threads -> Keys]
  /\ mode \in [Threads -> Modes]
  /\ lim \in [Threads -> Nat]
  /\ popped \in [Threads -> Nat]
  /\ budget \in [Threads -> Nat]

(* At most one thread at a time computes or replaces the value of a key,    *)
(* and what a getter computes is the value of an entry that has none        *)
(* (LRUCache.inl:1133-1134 asserts it).  It takes the write lock, the       *)
(* InsertWritable retry and pop() keeping off locked items to get there.    *)
SingleFlight ==
  /\ \A t, u \in Threads :
       t # u /\ pc[t] \in WritingPCs /\ pc[u] \in HoldingPCs => key[t] # key[u]
  /\ \A t \in Threads : pc[t] = "getter" => status[key[t]] = "uncached"

(* A handle refers to an item that is still in its bin, and holds its lock: *)
(* pop() never destroys an item (or a locked mutex) someone is using.       *)
HandleValid == \A t \in Threads :
  pc[t] \in HoldingPCs =>
    /\ key[t] \in present
    /\ t \in readers[key[t]] \cup writers[key[t]]

(* m_popIterator survives from one pop() to the next while other threads    *)
(* insert: what it will visit are items of the bin m_popBinIndex names.     *)
PopIteratorValid == ahead \subseteq BinItems(popBin)

(* currentCost is the cost of all cached entries plus what has been popped  *)
(* but not yet subtracted.  As every term is a natural number, the size_t   *)
(* counter never wraps below zero.                                          *)
CostAccounted ==
  currentCost = MapThenSumSet(LAMBDA k : cost[k], present)
                + MapThenSumSet(LAMBDA t : popped[t], Threads)

(* When no call is in progress the cost is within the maximum: the baton    *)
(* passing of limitCost() never leaves the cleanup to nobody                *)
(* (LRUCache.inl:1288-1300).                                                *)
WithinLimitAtRest ==
  (\A t \in Threads : pc[t] = "idle") => currentCost <= maxCost

(* Every call returns: no thread spins forever on a lock, and no pop()      *)
(* circles forever.                                                         *)
CallsReturn == \A t \in Threads : pc[t] # "idle" ~> pc[t] = "idle"

-----------------------------------------------------------------------------
(* The policy's items and locks implement the contract: an entry's status   *)
(* is that of its item, an absent item being one without a value.           *)
Contract == INSTANCE CacheContract WITH entry <- status

(* Every step of the cache is a step of the contract.                       *)
ImplementsContract == Contract!Spec

=============================================================================
