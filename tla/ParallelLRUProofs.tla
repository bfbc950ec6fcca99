------------------------- MODULE ParallelLRUProofs -------------------------
(***************************************************************************)
(* Proofs about ParallelLRU, and about what ParallelLRUClear says of its   *)
(* clear() and its limit, for every value of the constants.                *)
(***************************************************************************)
EXTENDS ParallelLRUClear, FiniteSetTheorems, WellFoundedInduction, TLAPS

-----------------------------------------------------------------------------
(* Facts about the constants.                                               *)

(* There is a key, so the one AnyKey chooses is a key.                      *)
LEMMA AnyKeyIsKey == AnyKey \in Keys
  BY ConstantsAssumption DEF AnyKey

(* The bin after a bin is a bin.                                            *)
LEMMA NextBinIsBin ==
  ASSUME NEW b \in Bins
  PROVE  (b + 1) % NumBins \in Bins
  BY ConstantsAssumption DEF Bins

(* Every operation acquires its handle in one of the four modes.            *)
LEMMA ModeOfIsMode == \A o \in AllOps : ModeOf(o) \in Modes
  BY DEF AllOps, ModeOf, Modes

(* Every acquired handle leads somewhere.                                   *)
LEMMA OnAcquiredIsPC ==
  ASSUME NEW o, NEW s
  PROVE  OnAcquired(o, s) \in {"discard", "erase", "getter", "touch", "leave"}
  BY DEF OnAcquired

-----------------------------------------------------------------------------
(* Every variable always has a value of its kind: no step of any operation  *)
(* leaves the item store, the counters or a thread's locals malformed.      *)
THEOREM TypeCorrect == Spec => []TypeOK
<1> USE ConstantsAssumption, AnyKeyIsKey
<1>1. Init => TypeOK
  <2> SUFFICES ASSUME Init
               PROVE  TypeOK
    OBVIOUS
  <2>1. 0 \in Bins
    BY DEF Bins
  <2>2. pc \in [Threads -> PCs] /\ status \in [Keys -> Statuses] /\ mode \in [Threads -> Modes]
    BY DEF Init, PCs, Statuses, Modes
  <2>3. binHeld \in BOOLEAN
    BY DEF Init
  <2>4. QED
    BY <2>1, <2>2, <2>3 DEF Init, TypeOK
<1>2. TypeOK /\ [Next]_vars => TypeOK'
  <2> SUFFICES ASSUME TypeOK, [Next]_vars
               PROVE  TypeOK'
    OBVIOUS
  <2>1. ASSUME NEW t \in Threads, Calls(t)
        PROVE  TypeOK'
    <3>1. CASE CallKeyed(t)
      BY <3>1, ModeOfIsMode DEF CallKeyed, Call, Goto, TypeOK, PCs,
         storeVars, costVars, popVars
    <3>2. CASE CallClear(t)
      BY <3>2 DEF CallClear, Call, Goto, TypeOK, PCs, AllOps,
         storeVars, costVars, popVars
    <3>3. CASE CallSetMaxCost(t)
      BY <3>3 DEF CallSetMaxCost, Call, Goto, TypeOK, PCs, AllOps,
         storeVars, popVars
    <3>4. CASE RaiseMaxCost(t)
      BY <3>4 DEF RaiseMaxCost, TypeOK, storeVars, popVars
    <3>5. QED
      BY <2>1, <3>1, <3>2, <3>3, <3>4 DEF Calls
  <2>2. ASSUME NEW t \in Threads, AcquireStep(t) \/ AcquireCancelled(t)
        PROVE  TypeOK'
    <3> USE DEF TypeOK, storeVars, costVars, popVars, callVars, Goto
    <3>1. CASE AcquireMissing(t)
      BY <3>1 DEF AcquireMissing, Return, PCs, Modes
    <3>2. CASE AcquireInsert(t)
      <4>1. ahead' \subseteq Keys
        BY <3>2 DEF AcquireInsert, AheadAfterInsert, BinItems
      <4>2. pc' \in [Threads -> PCs]
        BY <3>2, OnAcquiredIsPC DEF AcquireInsert, PCs
      <4>3. QED
        BY <3>2, <4>1, <4>2 DEF AcquireInsert
    <3>3. CASE AcquireRead(t)
      <4>1. pc' \in [Threads -> PCs]
        BY <3>3, OnAcquiredIsPC DEF AcquireRead, PCs
      <4>2. QED
        BY <3>3, <4>1 DEF AcquireRead
    <3>4. CASE AcquireRetry(t)
      BY <3>4 DEF AcquireRetry, Modes
    <3>5. CASE AcquireWrite(t)
      <4>1. pc' \in [Threads -> PCs]
        BY <3>5, OnAcquiredIsPC DEF AcquireWrite, PCs
      <4>2. QED
        BY <3>5, <4>1 DEF AcquireWrite
    <3>6. CASE AcquireCancelled(t)
      BY <3>6 DEF AcquireCancelled, Return, PCs, Modes
    <3>7. QED
      BY <2>2, <3>1, <3>2, <3>3, <3>4, <3>5, <3>6 DEF AcquireStep
  <2>3. ASSUME NEW t \in Threads, EntryStep(t)
        PROVE  TypeOK'
    <3> USE DEF TypeOK, storeVars, costVars, popVars, callVars, Goto, PCs
    <3>1. CASE GetterReturns(t)
      BY <3>1 DEF GetterReturns
    <3>2. CASE GetterThrows(t)
      BY <3>2 DEF GetterThrows, Statuses
    <3>3. CASE GetterCancelled(t)
      BY <3>3 DEF GetterCancelled
    <3>4. CASE Discard(t)
      BY <3>4 DEF Discard, EraseInternal, Statuses
    <3>5. CASE Store(t)
      <4>1. pc' \in [Threads -> PCs]
        BY <3>5 DEF Store
      <4>2. /\ status' \in [Keys -> Statuses]
            /\ cost' \in [Keys -> Nat]
            /\ currentCost' \in Int
        <5>1. PICK c \in Costs :
                \/ UNCHANGED <<status, cost, currentCost>>
                \/ /\ status' = [status EXCEPT ![key[t]] = "cached"]
                   /\ cost' = [cost EXCEPT ![key[t]] = c]
                   /\ currentCost' = currentCost + c
          BY <3>5 DEF Store
        <5>2. c \in Nat
          OBVIOUS
        <5> QED BY <5>1, <5>2 DEF Statuses
      <4> QED BY <3>5, <4>1, <4>2 DEF Store
    <3>6. CASE Publish(t)
      BY <3>6 DEF Publish, Release
    <3>7. CASE Touch(t)
      BY <3>7 DEF Touch, Release, Return, Modes
    <3>8. CASE Erase(t)
      BY <3>8 DEF Erase, EraseInternal, Statuses
    <3>9. CASE Leave(t)
      BY <3>9 DEF Leave, Release, Return, Modes
    <3>10. QED
      BY <2>3, <3>1, <3>2, <3>3, <3>4, <3>5, <3>6, <3>7, <3>8, <3>9 DEF EntryStep
  <2>4. ASSUME NEW t \in Threads, LimitStep(t)
        PROVE  TypeOK'
    <3> USE DEF TypeOK, storeVars, costVars, popVars, callVars, Goto, PCs
    <3>1. CASE ReadLimit(t)
      BY <3>1 DEF ReadLimit
    <3>2. CASE LimitExceeded(t)
      BY <3>2 DEF LimitExceeded
    <3>3. CASE LimitMet(t)
      BY <3>3 DEF LimitMet, Return, Modes
    <3>4. CASE DiscardPopped(t)
      BY <3>4 DEF DiscardPopped
    <3>5. QED
      BY <2>4, <3>1, <3>2, <3>3, <3>4 DEF LimitStep
  <2>5. ASSUME NEW t \in Threads, PopStep(t)
        PROVE  TypeOK'
    <3> USE DEF TypeOK, storeVars, costVars, popVars, callVars, Goto, PCs
    <3>1. CASE PopGivesUp(t)
      BY <3>1 DEF PopGivesUp, Return, Modes
    <3>2. CASE PopTakesMutex(t)
      BY <3>2 DEF PopTakesMutex
    <3>3. CASE PopLocksBin(t)
      BY <3>3 DEF PopLocksBin
    <3>4. CASE PopVisits(t)
      <4>1. PICK k \in ahead : SkipItem(t, k) \/ SpareItem(t, k) \/ PopItem(t, k)
        BY <3>4 DEF PopVisits
      <4>2. CASE SkipItem(t, k)
        BY <4>2 DEF SkipItem
      <4>3. CASE SpareItem(t, k)
        BY <4>3 DEF SpareItem
      <4>4. CASE PopItem(t, k)
        <5>1. k \in Keys /\ 0 \in Bins
          BY DEF Bins
        <5>2. popped' \in [Threads -> Nat] /\ cost' \in [Keys -> Nat]
          BY <4>4, <5>1 DEF PopItem
        <5>3. status' \in [Keys -> Statuses] /\ present' \subseteq Keys /\ ahead' \subseteq Keys
          BY <4>4 DEF PopItem, Statuses
        <5>4. QED
          BY <4>4, <5>1, <5>2, <5>3 DEF PopItem, ReleasePopMutex
      <4>5. QED
        BY <4>1, <4>2, <4>3, <4>4
    <3>5. CASE PopLeavesBin(t)
      <4>1. popBin' \in Bins
        BY <3>5, NextBinIsBin DEF PopLeavesBin
      <4>2. QED
        BY <3>5, <4>1 DEF PopLeavesBin
    <3>6. CASE PopEntersBin(t)
      BY <3>6 DEF PopEntersBin, BinItems
    <3>7. CASE PopFindsNothing(t)
      <4>1. sentinel' \in Bins /\ ahead' \subseteq Keys
        BY <3>7 DEF PopFindsNothing, ReleasePopMutex, BinItems, Bins
      <4>2. QED
        BY <3>7, <4>1 DEF PopFindsNothing, ReleasePopMutex, Return, Modes
    <3>8. QED
      BY <2>5, <3>1, <3>2, <3>3, <3>4, <3>5, <3>6, <3>7 DEF PopStep
  <2>6. CASE UNCHANGED vars
    BY <2>6 DEF vars, storeVars, costVars, popVars, callVars, TypeOK
  <2>7. QED
    BY <2>1, <2>2, <2>3, <2>4, <2>5, <2>6 DEF Next, Work
<1>3. QED
  BY <1>1, <1>2, PTL DEF Spec

-----------------------------------------------------------------------------
(* The invariant behind the safety theorems.  An item lock is held by       *)
(* threads that are working on the item, for the kind of access they have;  *)
(* such a thread works on an item that is in its bin; and the status of an  *)
(* entry follows what its writer is doing.                                  *)

(* A read lock is held by a call that is about to return.                   *)
ReadLocks == \A k \in Keys : \A t \in readers[k] :
  pc[t] \in {"touch", "leave"} /\ key[t] = k

WriteLocks == \A k \in Keys : \A t \in writers[k] :
  pc[t] \in HoldingPCs /\ key[t] = k

Exclusive == \A k \in Keys :
  /\ \A t, u \in writers[k] : t = u
  /\ writers[k] # {} => readers[k] = {}

Holds == \A t \in Threads :
  /\ pc[t] \in HoldingPCs =>
       key[t] \in present /\ t \in readers[key[t]] \cup writers[key[t]]
  /\ pc[t] \in WritingPCs => t \in writers[key[t]]

AbsentIsUncached == \A k \in Keys \ present : status[k] = "uncached"

FillsEmptyEntry == \A t \in Threads :
  pc[t] \in {"getter", "store"} => status[key[t]] = "uncached"

(* An operation that writes acquires a write lock: the mode fits the        *)
(* operation, except that Insert may have become InsertWritable.            *)
ModeFitsOp == \A t \in Threads :
  pc[t] = "acquire" =>
    /\ op[t] \in AllOps \ {"clear", "setMaxCost"}
    /\ \/ mode[t] = ModeOf(op[t])
       \/ mode[t] = "InsertWritable" /\ ModeOf(op[t]) = "Insert"

IInv ==
  /\ ReadLocks
  /\ WriteLocks
  /\ Exclusive
  /\ Holds
  /\ AbsentIsUncached
  /\ FillsEmptyEntry
  /\ ModeFitsOp

(* Most steps neither touch an item nor move their thread into or out of    *)
(* the part of a call that holds one.                                       *)
LEMMA OutsideStep ==
  ASSUME TypeOK, IInv,
         NEW t \in Threads,
         NEW p \in PCs \ (HoldingPCs \cup {"acquire"}),
         pc[t] \notin HoldingPCs,
         pc' = [pc EXCEPT ![t] = p],
         \A u \in Threads \ {t} :
           key'[u] = key[u] /\ op'[u] = op[u] /\ mode'[u] = mode[u],
         UNCHANGED <<present, status, readers, writers>>
  PROVE  IInv'
<1>1. \A u \in Threads : pc'[u] = IF u = t THEN p ELSE pc[u]
  BY DEF TypeOK
<1>2. \A u \in Threads : pc'[u] \in HoldingPCs \cup {"acquire"} => u # t
  BY <1>1
<1>3. \A k \in Keys : t \notin readers[k] /\ t \notin writers[k]
  BY DEF IInv, ReadLocks, WriteLocks, HoldingPCs
<1>4. ReadLocks'
  BY <1>1, <1>3 DEF IInv, ReadLocks, TypeOK
<1>5. WriteLocks'
  BY <1>1, <1>3 DEF IInv, WriteLocks, TypeOK
<1>6. Holds'
  BY <1>1, <1>2 DEF IInv, Holds, TypeOK, HoldingPCs
<1>7. FillsEmptyEntry'
  BY <1>1, <1>2 DEF IInv, FillsEmptyEntry, TypeOK, HoldingPCs, WritingPCs
<1>8. ModeFitsOp'
  BY <1>1, <1>2 DEF IInv, ModeFitsOp, TypeOK
<1>9. Exclusive' /\ AbsentIsUncached'
  BY DEF IInv, Exclusive, AbsentIsUncached
<1>10. QED
  BY <1>4, <1>5, <1>6, <1>7, <1>8, <1>9 DEF IInv

(* A step that changes none of the variables the invariant is about.        *)
LEMMA SameStep ==
  ASSUME IInv,
         UNCHANGED <<present, status, readers, writers, pc, op, key, mode>>
  PROVE  IInv'
  BY DEF IInv, ReadLocks, WriteLocks, Exclusive, Holds, AbsentIsUncached,
     FillsEmptyEntry, ModeFitsOp

(* A call starts: its mode is that of its operation.                        *)
LEMMA CallKeyedKeepsInv ==
  ASSUME TypeOK, IInv, NEW t \in Threads, CallKeyed(t)
  PROVE  IInv'
<1> USE DEF TypeOK
<1>1. PICK o \in AllOps \ {"clear", "setMaxCost"}, k \in Keys :
        /\ Call(t, o)
        /\ Goto(t, "acquire")
        /\ key' = [key EXCEPT ![t] = k]
        /\ mode' = [mode EXCEPT ![t] = ModeOf(o)]
        /\ UNCHANGED <<storeVars, costVars, popVars, lim, popped>>
  BY DEF CallKeyed
<1>2. /\ pc[t] = "idle"
      /\ op' = [op EXCEPT ![t] = o]
      /\ pc' = [pc EXCEPT ![t] = "acquire"]
      /\ UNCHANGED <<present, status, readers, writers>>
  BY <1>1 DEF Call, Goto, storeVars
<1>3. \A k1 \in Keys : t \notin readers[k1] /\ t \notin writers[k1]
  BY <1>2 DEF IInv, ReadLocks, WriteLocks, HoldingPCs, WritingPCs
<1>4. ReadLocks'
  BY <1>1, <1>2, <1>3 DEF IInv, ReadLocks
<1>5. WriteLocks'
  BY <1>1, <1>2, <1>3 DEF IInv, WriteLocks
<1>6. Holds'
  BY <1>1, <1>2 DEF IInv, Holds, HoldingPCs, WritingPCs
<1>7. FillsEmptyEntry'
  BY <1>1, <1>2 DEF IInv, FillsEmptyEntry
<1>8. ModeFitsOp'
  BY <1>1, <1>2 DEF IInv, ModeFitsOp
<1>9. Exclusive' /\ AbsentIsUncached'
  BY <1>2 DEF IInv, Exclusive, AbsentIsUncached
<1>10. QED
  BY <1>4, <1>5, <1>6, <1>7, <1>8, <1>9 DEF IInv

(* acquire() returns with the write lock of an item nobody else had locked. *)
LEMMA AcquiredForWriting ==
  ASSUME TypeOK, IInv,
         NEW t \in Threads, NEW k \in Keys,
         pc[t] = "acquire", key[t] = k,
         writers[k] = {}, readers[k] = {},
         present' = present \cup {k},
         writers' = [writers EXCEPT ![k] = {t}],
         pc' = [pc EXCEPT ![t] = OnAcquired(op[t], status[k])],
         UNCHANGED <<status, readers, key, op, mode>>
  PROVE  IInv'
<1> USE DEF TypeOK
<1> DEFINE p == OnAcquired(op[t], status[k])
<1>1. p \in {"discard", "erase", "getter", "touch", "leave"}
  BY OnAcquiredIsPC
<1>2. p = "getter" => status[k] = "uncached"
  BY DEF OnAcquired
<1>3. \A u \in Threads : pc'[u] = IF u = t THEN p ELSE pc[u]
  OBVIOUS
<1>4. \A k1 \in Keys : writers'[k1] = IF k1 = k THEN {t} ELSE writers[k1]
  OBVIOUS
<1>5. \A k1 \in Keys : t \notin readers[k1] /\ t \notin writers[k1]
  BY DEF IInv, ReadLocks, WriteLocks, HoldingPCs, WritingPCs
<1> HIDE DEF p
<1>6. ReadLocks'
  BY <1>3, <1>5 DEF IInv, ReadLocks
<1>7. WriteLocks'
  BY <1>1, <1>3, <1>4, <1>5 DEF IInv, WriteLocks, HoldingPCs, WritingPCs
<1>8. Exclusive'
  BY <1>4 DEF IInv, Exclusive
<1>9. Holds'
  <2> SUFFICES ASSUME NEW u \in Threads
               PROVE  /\ pc'[u] \in HoldingPCs =>
                           key[u] \in present' /\ u \in readers[key[u]] \cup writers'[key[u]]
                      /\ pc'[u] \in WritingPCs => u \in writers'[key[u]]
    BY DEF Holds
  <2>1. CASE u = t
    BY <2>1, <1>4
  <2>2. CASE u # t
    <3>1. u \notin writers[k] /\ u \notin readers[k]
      OBVIOUS
    <3>2. QED
      BY <2>2, <3>1, <1>3, <1>4 DEF IInv, Holds
  <2>3. QED
    BY <2>1, <2>2
<1>10. AbsentIsUncached'
  BY DEF IInv, AbsentIsUncached
<1>11. FillsEmptyEntry'
  BY <1>1, <1>2, <1>3 DEF IInv, FillsEmptyEntry
<1>12. ModeFitsOp'
  BY <1>1, <1>3 DEF IInv, ModeFitsOp
<1>13. QED
  BY <1>6, <1>7, <1>8, <1>9, <1>10, <1>11, <1>12 DEF IInv

(* An item nobody has inserted has no lock holder.                          *)
LEMMA AbsentIsUnlocked ==
  ASSUME TypeOK, IInv, NEW k \in Keys, k \notin present
  PROVE  readers[k] = {} /\ writers[k] = {}
<1>1. \A t \in Threads : t \notin readers[k] /\ t \notin writers[k]
  BY DEF TypeOK, IInv, ReadLocks, WriteLocks, Holds, HoldingPCs
<1>2. QED
  BY <1>1 DEF TypeOK

LEMMA AcquireInsertKeepsInv ==
  ASSUME TypeOK, IInv, NEW t \in Threads, AcquireInsert(t)
  PROVE  IInv'
<1> DEFINE k == key[t]
<1>1. k \in Keys /\ k \notin present /\ pc[t] = "acquire"
  BY DEF TypeOK, AcquireInsert, Acquiring
<1>2. readers[k] = {} /\ writers[k] = {} /\ status[k] = "uncached"
  BY <1>1, AbsentIsUnlocked DEF IInv, AbsentIsUncached
<1>3. readers' = readers
  BY <1>1, <1>2 DEF AcquireInsert, TypeOK
<1>4. QED
  BY <1>1, <1>2, <1>3, AcquiredForWriting DEF AcquireInsert, Goto, callVars

LEMMA AcquireWriteKeepsInv ==
  ASSUME TypeOK, IInv, NEW t \in Threads, AcquireWrite(t)
  PROVE  IInv'
<1> DEFINE k == key[t]
<1>1. k \in Keys /\ present \cup {k} = present
  BY DEF TypeOK, AcquireWrite
<1>2. QED
  BY <1>1, AcquiredForWriting DEF AcquireWrite, Acquiring, Unlocked, Goto, callVars

(* A read lock is only ever taken by a call that will not write.            *)
LEMMA AcquireReadKeepsInv ==
  ASSUME TypeOK, IInv, NEW t \in Threads, AcquireRead(t)
  PROVE  IInv'
<1> USE DEF TypeOK
<1> DEFINE k == key[t]
           p == OnAcquired(op[t], status[k])
<1>1. /\ k \in Keys /\ k \in present /\ pc[t] = "acquire" /\ writers[k] = {}
      /\ readers' = [readers EXCEPT ![k] = @ \cup {t}]
      /\ pc' = [pc EXCEPT ![t] = p]
      /\ UNCHANGED <<present, status, writers, op, key, mode>>
  BY DEF AcquireRead, Acquiring, Goto, callVars
<1>2. p \in {"touch", "leave"}
  <2>1. \/ mode[t] = "FindReadable"
        \/ mode[t] = "Insert" /\ status[k] # "uncached"
    BY DEF AcquireRead
  <2>2. op[t] \in AllOps \ {"clear", "setMaxCost"} /\ mode[t] = ModeOf(op[t])
    BY <1>1, <2>1 DEF IInv, ModeFitsOp
  <2>3. CASE mode[t] = "FindReadable"
    BY <2>2, <2>3 DEF AllOps, ModeOf, OnAcquired
  <2>4. CASE mode[t] = "Insert" /\ status[k] # "uncached"
    BY <2>2, <2>4 DEF AllOps, ModeOf, OnAcquired
  <2>5. QED
    BY <2>1, <2>3, <2>4
<1>3. \A u \in Threads : pc'[u] = IF u = t THEN p ELSE pc[u]
  BY <1>1
<1>4. \A k1 \in Keys : readers'[k1] = IF k1 = k THEN readers[k] \cup {t} ELSE readers[k1]
  BY <1>1
<1>5. \A k1 \in Keys : t \notin readers[k1] /\ t \notin writers[k1]
  BY <1>1 DEF IInv, ReadLocks, WriteLocks, HoldingPCs, WritingPCs
<1> HIDE DEF p
<1>6. ReadLocks'
  BY <1>1, <1>2, <1>3, <1>4, <1>5 DEF IInv, ReadLocks
<1>7. WriteLocks'
  BY <1>1, <1>3, <1>5 DEF IInv, WriteLocks
<1>8. Exclusive'
  BY <1>1, <1>4 DEF IInv, Exclusive
<1>9. Holds'
  BY <1>1, <1>2, <1>3, <1>4 DEF IInv, Holds, WritingPCs
<1>10. AbsentIsUncached' /\ FillsEmptyEntry' /\ ModeFitsOp'
  BY <1>1, <1>2, <1>3 DEF IInv, AbsentIsUncached, FillsEmptyEntry, ModeFitsOp
<1>11. QED
  BY <1>6, <1>7, <1>8, <1>9, <1>10 DEF IInv

(* The retry releases what it took and only changes the mode.               *)
LEMMA AcquireRetryKeepsInv ==
  ASSUME TypeOK, IInv, NEW t \in Threads, AcquireRetry(t)
  PROVE  IInv'
<1>1. /\ pc[t] = "acquire" /\ mode[t] = "Insert"
      /\ mode' = [mode EXCEPT ![t] = "InsertWritable"]
      /\ UNCHANGED <<present, status, readers, writers, pc, op, key>>
  BY DEF AcquireRetry, Acquiring, storeVars
<1>2. ModeFitsOp'
  BY <1>1 DEF TypeOK, IInv, ModeFitsOp
<1>3. QED
  BY <1>1, <1>2 DEF IInv, ReadLocks, WriteLocks, Exclusive, Holds,
     AbsentIsUncached, FillsEmptyEntry

(* The holder of a write lock moves on, and may change its entry.           *)
LEMMA WriterStep ==
  ASSUME TypeOK, IInv,
         NEW t \in Threads,
         NEW p \in {"discard", "store", "publish", "leave"},
         NEW s \in Statuses,
         pc[t] \in WritingPCs,
         p = "store" => s = "uncached",
         pc' = [pc EXCEPT ![t] = p],
         status' = [status EXCEPT ![key[t]] = s],
         UNCHANGED <<present, readers, writers, key, op, mode>>
  PROVE  IInv'
<1> USE DEF TypeOK
<1>1. \A u \in Threads : pc'[u] = IF u = t THEN p ELSE pc[u]
  OBVIOUS
<1>2. t \in writers[key[t]] /\ key[t] \in present
  BY DEF IInv, Holds, HoldingPCs
<1>3. \A k \in Keys : t \notin readers[k]
  BY DEF IInv, ReadLocks, WritingPCs
<1>4. ReadLocks'
  BY <1>1, <1>3 DEF IInv, ReadLocks
<1>5. WriteLocks'
  BY <1>1 DEF IInv, WriteLocks, HoldingPCs, WritingPCs
<1>6. Holds'
  BY <1>1, <1>2 DEF IInv, Holds
<1>7. AbsentIsUncached'
  BY <1>2 DEF IInv, AbsentIsUncached
<1>8. FillsEmptyEntry'
  <2> SUFFICES ASSUME NEW u \in Threads, pc'[u] \in {"getter", "store"}
               PROVE  status'[key[u]] = "uncached"
    BY DEF FillsEmptyEntry
  <2>1. CASE u = t
    BY <2>1, <1>1
  <2>2. CASE u # t
    <3>1. u \in writers[key[u]] /\ status[key[u]] = "uncached"
      BY <2>2, <1>1 DEF IInv, Holds, FillsEmptyEntry, WritingPCs
    <3>2. key[u] # key[t]
      BY <2>2, <3>1, <1>2 DEF IInv, Exclusive
    <3>3. QED
      BY <3>1, <3>2
  <2>3. QED
    BY <2>1, <2>2
<1>9. Exclusive' /\ ModeFitsOp'
  BY <1>1 DEF IInv, Exclusive, ModeFitsOp
<1>10. QED
  BY <1>4, <1>5, <1>6, <1>7, <1>8, <1>9 DEF IInv

(* A handle is released, and its thread is done with the item.              *)
LEMMA ReleaseStep ==
  ASSUME TypeOK, IInv,
         NEW t \in Threads,
         NEW p \in PCs \ (HoldingPCs \cup {"acquire"}),
         Release(t),
         pc' = [pc EXCEPT ![t] = p],
         \A u \in Threads \ {t} :
           key'[u] = key[u] /\ op'[u] = op[u] /\ mode'[u] = mode[u],
         UNCHANGED <<present, status>>
  PROVE  IInv'
<1> USE DEF TypeOK
<1>1. \A u \in Threads : pc'[u] = IF u = t THEN p ELSE pc[u]
  OBVIOUS
<1>2. \A u \in Threads : pc'[u] \in HoldingPCs \cup {"acquire"} => u # t
  BY <1>1
<1>3. \A k \in Keys : readers'[k] \subseteq readers[k] /\ writers'[k] \subseteq writers[k]
  BY DEF Release
<1>4. \A k \in Keys : t \notin readers'[k] /\ t \notin writers'[k]
  BY DEF Release, IInv, ReadLocks, WriteLocks
<1>5. \A k \in Keys : \A u \in Threads \ {t} :
        /\ u \in readers[k] <=> u \in readers'[k]
        /\ u \in writers[k] <=> u \in writers'[k]
  BY DEF Release
<1>6. ReadLocks'
  BY <1>1, <1>3, <1>4 DEF IInv, ReadLocks
<1>7. WriteLocks'
  BY <1>1, <1>3, <1>4 DEF IInv, WriteLocks
<1>8. Exclusive'
  BY <1>3 DEF IInv, Exclusive
<1>9. Holds'
  BY <1>1, <1>2, <1>5 DEF IInv, Holds, HoldingPCs
<1>10. FillsEmptyEntry'
  BY <1>1, <1>2 DEF IInv, FillsEmptyEntry, HoldingPCs, WritingPCs
<1>11. ModeFitsOp' /\ AbsentIsUncached'
  BY <1>1, <1>2 DEF IInv, ModeFitsOp, AbsentIsUncached
<1>12. QED
  BY <1>6, <1>7, <1>8, <1>9, <1>10, <1>11 DEF IInv

(* pop() takes an item away: nobody holds it.                               *)
LEMMA PopItemKeepsInv ==
  ASSUME TypeOK, IInv, NEW t \in Threads, NEW k \in Keys,
         pc[t] = "scan", PopItem(t, k)
  PROVE  IInv'
<1> USE DEF TypeOK
<1>1. /\ readers[k] = {} /\ writers[k] = {}
      /\ present' = present \ {k}
      /\ status' = [status EXCEPT ![k] = "uncached"]
      /\ pc' = [pc EXCEPT ![t] = "discardPopped"]
      /\ UNCHANGED <<readers, writers, op, key, mode>>
  BY DEF PopItem, Unlocked, Goto
<1>2. \A u \in Threads : pc'[u] = IF u = t THEN "discardPopped" ELSE pc[u]
  BY <1>1
<1>3. \A k1 \in Keys : t \notin readers[k1] /\ t \notin writers[k1]
  BY DEF IInv, ReadLocks, WriteLocks, HoldingPCs, WritingPCs
<1>4. ReadLocks' /\ WriteLocks'
  BY <1>1, <1>2, <1>3 DEF IInv, ReadLocks, WriteLocks
<1>5. Holds'
  BY <1>1, <1>2 DEF IInv, Holds, HoldingPCs, WritingPCs
<1>6. AbsentIsUncached' /\ FillsEmptyEntry' /\ ModeFitsOp' /\ Exclusive'
  BY <1>1, <1>2 DEF IInv, AbsentIsUncached, FillsEmptyEntry, ModeFitsOp, Exclusive
<1>7. QED
  BY <1>4, <1>5, <1>6 DEF IInv

-----------------------------------------------------------------------------
(* The invariant is inductive.                                              *)

LEMMA InitIInv == Init => IInv
<1> SUFFICES ASSUME Init PROVE IInv
  OBVIOUS
<1>1. \A t \in Threads : pc[t] = "idle"
  BY DEF Init
<1>2. ReadLocks /\ WriteLocks /\ Exclusive /\ AbsentIsUncached
  BY DEF Init, ReadLocks, WriteLocks, Exclusive, AbsentIsUncached
<1>3. Holds /\ FillsEmptyEntry /\ ModeFitsOp
  BY <1>1 DEF Holds, FillsEmptyEntry, ModeFitsOp, HoldingPCs, WritingPCs
<1>4. QED
  BY <1>2, <1>3 DEF IInv

LEMMA CallsKeepInv ==
  ASSUME TypeOK, IInv, NEW t \in Threads, Calls(t)
  PROVE  IInv'
<1> USE DEF TypeOK, storeVars, HoldingPCs, WritingPCs, PCs
<1>1. CASE CallKeyed(t)
  BY <1>1, CallKeyedKeepsInv
<1>2. CASE CallClear(t)
  BY <1>2, OutsideStep DEF CallClear, Call, Goto
<1>3. CASE CallSetMaxCost(t)
  <2>1. /\ pc[t] = "idle"
        /\ pc' = [pc EXCEPT ![t] = "limit"]
        /\ op' = [op EXCEPT ![t] = "setMaxCost"]
        /\ UNCHANGED <<present, status, readers, writers, key, mode>>
    BY <1>3 DEF CallSetMaxCost, Call, Goto
  <2>2. QED
    BY <2>1, OutsideStep
<1>4. CASE RaiseMaxCost(t)
  BY <1>4, SameStep DEF RaiseMaxCost
<1>5. QED
  BY <1>1, <1>2, <1>3, <1>4 DEF Calls

LEMMA AcquireKeepsInv ==
  ASSUME TypeOK, IInv, NEW t \in Threads, AcquireStep(t) \/ AcquireCancelled(t)
  PROVE  IInv'
<1> USE DEF TypeOK, storeVars, HoldingPCs, WritingPCs, PCs
<1>1. CASE AcquireMissing(t)
  BY <1>1, OutsideStep DEF AcquireMissing, Acquiring, Return, Goto
<1>2. CASE AcquireCancelled(t)
  BY <1>2, OutsideStep DEF AcquireCancelled, Acquiring, Return, Goto
<1>3. QED
  BY <1>1, <1>2, AcquireInsertKeepsInv, AcquireReadKeepsInv, AcquireRetryKeepsInv,
     AcquireWriteKeepsInv DEF AcquireStep

LEMMA EntryKeepsInv ==
  ASSUME TypeOK, IInv, NEW t \in Threads, EntryStep(t)
  PROVE  IInv'
<1> USE DEF TypeOK, storeVars, callVars, HoldingPCs, WritingPCs, PCs, Statuses, Goto
<1>0. status[key[t]] \in Statuses /\ status = [status EXCEPT ![key[t]] = status[key[t]]]
  OBVIOUS
<1>1. CASE GetterReturns(t)
  BY <1>0, <1>1, WriterStep DEF GetterReturns
<1>2. CASE GetterThrows(t)
  BY <1>2, WriterStep DEF GetterThrows
<1>3. CASE GetterCancelled(t)
  BY <1>0, <1>3, WriterStep DEF GetterCancelled
<1>4. CASE Discard(t)
  BY <1>4, WriterStep DEF Discard, EraseInternal
<1>5. CASE Store(t)
  <2>1. PICK s \in Statuses :
          /\ pc[t] = "store" /\ pc' = [pc EXCEPT ![t] = "publish"]
          /\ status' = [status EXCEPT ![key[t]] = s]
          /\ UNCHANGED <<present, readers, writers, key, op, mode>>
    BY <1>0, <1>5 DEF Store
  <2>2. QED
    BY <2>1, WriterStep
<1>6. CASE Erase(t)
  BY <1>6, WriterStep DEF Erase, EraseInternal
<1>7. CASE Publish(t)
  BY <1>7, ReleaseStep DEF Publish
<1>8. CASE Touch(t)
  BY <1>8, ReleaseStep DEF Touch, Return
<1>9. CASE Leave(t)
  BY <1>9, ReleaseStep DEF Leave, Return
<1>10. QED
  BY <1>1, <1>2, <1>3, <1>4, <1>5, <1>6, <1>7, <1>8, <1>9 DEF EntryStep

LEMMA LimitKeepsInv ==
  ASSUME TypeOK, IInv, NEW t \in Threads, LimitStep(t)
  PROVE  IInv'
<1> USE DEF TypeOK, storeVars, callVars, HoldingPCs, WritingPCs, PCs, Goto
<1>1. CASE ReadLimit(t)
  BY <1>1, OutsideStep DEF ReadLimit
<1>2. CASE LimitExceeded(t)
  BY <1>2, OutsideStep DEF LimitExceeded
<1>3. CASE LimitMet(t)
  BY <1>3, OutsideStep DEF LimitMet, Return
<1>4. CASE DiscardPopped(t)
  BY <1>4, OutsideStep DEF DiscardPopped
<1>5. QED
  BY <1>1, <1>2, <1>3, <1>4 DEF LimitStep

LEMMA PopKeepsInv ==
  ASSUME TypeOK, IInv, NEW t \in Threads, PopStep(t)
  PROVE  IInv'
<1> USE DEF TypeOK, storeVars, callVars, HoldingPCs, WritingPCs, PCs, Goto
<1>1. CASE PopGivesUp(t)
  BY <1>1, OutsideStep DEF PopGivesUp, Return
<1>2. CASE PopTakesMutex(t)
  BY <1>2, OutsideStep DEF PopTakesMutex
<1>3. CASE PopLocksBin(t)
  BY <1>3, OutsideStep DEF PopLocksBin
<1>4. CASE PopVisits(t)
  <2>1. PICK k \in ahead : SkipItem(t, k) \/ SpareItem(t, k) \/ PopItem(t, k)
    BY <1>4 DEF PopVisits
  <2>2. CASE SkipItem(t, k)
    BY <2>2, SameStep DEF SkipItem
  <2>3. CASE SpareItem(t, k)
    BY <2>3, SameStep DEF SpareItem
  <2>4. CASE PopItem(t, k)
    BY <1>4, <2>4, PopItemKeepsInv DEF PopVisits
  <2>5. QED
    BY <2>1, <2>2, <2>3, <2>4
<1>5. CASE PopLeavesBin(t)
  BY <1>5, OutsideStep DEF PopLeavesBin
<1>6. CASE PopEntersBin(t)
  BY <1>6, OutsideStep DEF PopEntersBin
<1>7. CASE PopFindsNothing(t)
  BY <1>7, OutsideStep DEF PopFindsNothing, Return
<1>8. QED
  BY <1>1, <1>2, <1>3, <1>4, <1>5, <1>6, <1>7 DEF PopStep

LEMMA IInvInductive == Spec => []IInv
<1>1. TypeOK /\ IInv /\ [Next]_vars => IInv'
  <2> SUFFICES ASSUME TypeOK, IInv, [Next]_vars
               PROVE  IInv'
    OBVIOUS
  <2>1. CASE UNCHANGED vars
    BY <2>1, SameStep DEF vars, storeVars, callVars
  <2>2. CASE Next
    BY <2>2, CallsKeepInv, AcquireKeepsInv, EntryKeepsInv, LimitKeepsInv, PopKeepsInv
       DEF Next, Work
  <2>3. QED
    BY <2>1, <2>2
<1>2. QED
  BY <1>1, InitIInv, TypeCorrect, PTL DEF Spec

-----------------------------------------------------------------------------
(* However many threads call the cache, no two of them compute or replace   *)
(* the value of one key at the same time, and a getter only ever runs for   *)
(* an entry without a value: what LRUCache::get() asserts.                  *)
THEOREM SingleFlightHolds == Spec => []SingleFlight
<1>1. TypeOK /\ IInv => SingleFlight
  BY DEF TypeOK, IInv, Exclusive, Holds, FillsEmptyEntry, SingleFlight, HoldingPCs
<1>2. QED
  BY <1>1, TypeCorrect, IInvInductive, PTL

(* A handle always refers to an item that is in its bin and locked by the   *)
(* handle's thread: pop() never pulls an item from under a thread.          *)
THEOREM HandleValidHolds == Spec => []HandleValid
<1>1. IInv => HandleValid
  BY DEF IInv, Holds, HandleValid
<1>2. QED
  BY <1>1, IInvInductive, PTL

-----------------------------------------------------------------------------
(* m_popIterator stays valid between two calls of pop(), whatever other     *)
(* threads insert, pop, and rehash in between: it is at the end of the bin  *)
(* m_popBinIndex names, or on an item of it.                                *)
THEOREM PopIteratorStaysValid == Spec => []PopIteratorValid
<1>1. Init => PopIteratorValid
  BY DEF Init, PopIteratorValid
<1>2. TypeOK /\ PopIteratorValid /\ [Next]_vars => PopIteratorValid'
  <2> SUFFICES ASSUME TypeOK, PopIteratorValid, [Next]_vars
               PROVE  PopIteratorValid'
    OBVIOUS
  <2> USE DEF PopIteratorValid, BinItems
  <2>1. CASE UNCHANGED <<present, ahead, popBin>>
    BY <2>1
  <2>2. ASSUME NEW t \in Threads, AcquireInsert(t)
        PROVE  PopIteratorValid'
    <3>1. /\ present' = present \cup {key[t]}
          /\ popBin' = popBin
          /\ ahead' \in AheadAfterInsert(key[t])
          /\ key[t] \in Keys
      BY <2>2 DEF AcquireInsert, TypeOK
    <3>2. QED
      BY <3>1 DEF AheadAfterInsert
  <2>3. ASSUME NEW t \in Threads, PopVisits(t)
        PROVE  PopIteratorValid'
    <3>1. PICK k \in ahead : SkipItem(t, k) \/ SpareItem(t, k) \/ PopItem(t, k)
      BY <2>3 DEF PopVisits
    <3>2. QED
      BY <3>1 DEF SkipItem, SpareItem, PopItem, storeVars
  <2>4. ASSUME NEW t \in Threads,
               PopLeavesBin(t) \/ PopEntersBin(t) \/ PopFindsNothing(t)
        PROVE  PopIteratorValid'
    BY <2>4 DEF PopLeavesBin, PopEntersBin, PopFindsNothing, storeVars
  <2>5. ASSUME NEW t \in Threads, Calls(t)
        PROVE  UNCHANGED <<present, ahead, popBin>>
    BY <2>5 DEF Calls, CallKeyed, CallClear, CallSetMaxCost, RaiseMaxCost,
       storeVars, popVars
  <2>6. ASSUME NEW t \in Threads, AcquireStep(t) \/ AcquireCancelled(t), ~ AcquireInsert(t)
        PROVE  UNCHANGED <<present, ahead, popBin>>
    BY <2>6 DEF AcquireStep, AcquireMissing, AcquireRead, AcquireRetry, AcquireWrite,
       AcquireCancelled, storeVars, popVars
  <2>7. ASSUME NEW t \in Threads, EntryStep(t)
        PROVE  UNCHANGED <<present, ahead, popBin>>
    BY <2>7 DEF EntryStep, GetterReturns, GetterThrows, GetterCancelled, Discard,
       Store, Publish, Touch, Erase, Leave, storeVars, popVars
  <2>8. ASSUME NEW t \in Threads,
               \/ LimitStep(t)
               \/ PopGivesUp(t) \/ PopTakesMutex(t) \/ PopLocksBin(t)
        PROVE  UNCHANGED <<present, ahead, popBin>>
    BY <2>8 DEF LimitStep, ReadLimit, LimitExceeded, LimitMet, DiscardPopped,
       PopGivesUp, PopTakesMutex, PopLocksBin, storeVars, popVars
  <2>9. CASE UNCHANGED vars
    BY <2>1, <2>9 DEF vars, storeVars, popVars
  <2>10. QED
    BY <2>1, <2>2, <2>3, <2>4, <2>5, <2>6, <2>7, <2>8, <2>9 DEF Next, Work, PopStep
<1>3. QED
  BY <1>1, <1>2, TypeCorrect, PTL DEF Spec

-----------------------------------------------------------------------------
(* The cache implements its contract: every step of every operation is a    *)
(* step of CacheContract or does not touch entries and locks.               *)

LEMMA AcquireImplements ==
  ASSUME TypeOK, IInv, NEW t \in Threads, AcquireStep(t) \/ AcquireCancelled(t)
  PROVE  [Contract!Next]_(Contract!vars)
<1> USE DEF TypeOK, Contract!vars
<1> DEFINE k == key[t]
<1>1. CASE AcquireInsert(t)
  <2>1. readers[k] = {} /\ writers[k] = {}
    BY <1>1, AbsentIsUnlocked DEF AcquireInsert
  <2>2. Contract!HoldForWriting(t, k)
    BY <1>1, <2>1 DEF AcquireInsert, Contract!HoldForWriting, Contract!Free
  <2>3. QED
    BY <2>2 DEF Contract!Next
<1>2. CASE AcquireRead(t)
  BY <1>2 DEF AcquireRead, Contract!HoldForReading, Contract!Next
<1>3. CASE AcquireWrite(t)
  BY <1>3 DEF AcquireWrite, Unlocked, Contract!HoldForWriting, Contract!Free, Contract!Next
<1>4. CASE AcquireMissing(t) \/ AcquireRetry(t) \/ AcquireCancelled(t)
  BY <1>4 DEF AcquireMissing, AcquireRetry, AcquireCancelled, storeVars
<1>5. QED
  BY <1>1, <1>2, <1>3, <1>4 DEF AcquireStep

LEMMA EntryImplements ==
  ASSUME TypeOK, IInv, NEW t \in Threads, EntryStep(t)
  PROVE  [Contract!Next]_(Contract!vars)
<1> USE DEF TypeOK, Contract!vars
<1> DEFINE k == key[t]
<1>1. pc[t] \in HoldingPCs => t \in readers[k] \cup writers[k]
  BY DEF IInv, Holds
<1>2. pc[t] \in WritingPCs => writers[k] = {t}
  BY DEF IInv, Holds, Exclusive
<1>3. CASE Publish(t) \/ Touch(t) \/ Leave(t)
  <2>1. Contract!LetGo(t, k)
    BY <1>1, <1>3 DEF Publish, Touch, Leave, Release, HoldingPCs, WritingPCs,
       Contract!LetGo
  <2>2. QED
    BY <2>1 DEF Contract!Next
<1>4. CASE Discard(t) \/ Erase(t)
  <2>1. Contract!TakeOut(t, k)
    BY <1>2, <1>4 DEF Discard, Erase, EraseInternal, WritingPCs, Contract!TakeOut
  <2>2. QED
    BY <2>1 DEF Contract!Next
<1>5. CASE Store(t)
  <2>1. writers[k] = {t} /\ status[k] = "uncached"
    BY <1>2, <1>5 DEF Store, WritingPCs, IInv, FillsEmptyEntry
  <2>2. CASE status' = [status EXCEPT ![k] = "cached"]
    <3>1. Contract!Fill(t, k)
      BY <1>5, <2>1, <2>2 DEF Store, Contract!Fill
    <3>2. QED
      BY <3>1 DEF Contract!Next
  <2>3. QED
    BY <1>5, <2>2 DEF Store
<1>6. CASE GetterThrows(t)
  <2>1. writers[k] = {t} /\ status[k] = "uncached"
    BY <1>2, <1>6 DEF GetterThrows, WritingPCs, IInv, FillsEmptyEntry
  <2>2. CASE CacheErrors
    <3>1. Contract!Fill(t, k)
      BY <1>6, <2>1, <2>2 DEF GetterThrows, Contract!Fill
    <3>2. QED
      BY <3>1 DEF Contract!Next
  <2>3. CASE ~ CacheErrors
    BY <1>6, <2>3 DEF GetterThrows
  <2>4. QED
    BY <2>2, <2>3
<1>7. CASE GetterReturns(t) \/ GetterCancelled(t)
  BY <1>7 DEF GetterReturns, GetterCancelled, storeVars
<1>8. QED
  BY <1>3, <1>4, <1>5, <1>6, <1>7 DEF EntryStep

LEMMA PopImplements ==
  ASSUME TypeOK, NEW t \in Threads, PopStep(t)
  PROVE  [Contract!Next]_(Contract!vars)
<1> USE DEF Contract!vars
<1>1. CASE PopVisits(t)
  <2>1. PICK k \in ahead : SkipItem(t, k) \/ SpareItem(t, k) \/ PopItem(t, k)
    BY <1>1 DEF PopVisits
  <2>2. CASE PopItem(t, k)
    <3>1. Contract!Evict(k) /\ k \in Keys
      BY <2>2 DEF TypeOK, PopItem, Unlocked, Contract!Evict, Contract!Free
    <3>2. QED
      BY <3>1 DEF Contract!Next
  <2>3. QED
    BY <2>1, <2>2 DEF SkipItem, SpareItem, storeVars
<1>2. QED
  BY <1>1 DEF PopStep, PopGivesUp, PopTakesMutex, PopLocksBin, PopLeavesBin,
     PopEntersBin, PopFindsNothing, storeVars

(* What callers rely on holds of the Parallel policy: one thread at a time  *)
(* fills an entry, values are only replaced after they were taken out, an   *)
(* entry is stable while it is read, and entries in use are not evicted.    *)
THEOREM CacheImplementsContract == Spec => ImplementsContract
<1>1. Init => Contract!Init
  BY DEF Init, Contract!Init
<1>2. TypeOK /\ IInv /\ [Next]_vars => [Contract!Next]_(Contract!vars)
  <2> SUFFICES ASSUME TypeOK, IInv, [Next]_vars
               PROVE  [Contract!Next]_(Contract!vars)
    OBVIOUS
  <2>1. ASSUME NEW t \in Threads, Calls(t) \/ LimitStep(t)
        PROVE  UNCHANGED Contract!vars
    BY <2>1 DEF Calls, CallKeyed, CallClear, CallSetMaxCost, RaiseMaxCost, LimitStep,
       ReadLimit, LimitExceeded, LimitMet, DiscardPopped, storeVars, Contract!vars
  <2>2. CASE UNCHANGED vars
    BY <2>2 DEF vars, storeVars, Contract!vars
  <2>3. QED
    BY <2>1, <2>2, AcquireImplements, EntryImplements, PopImplements DEF Next, Work
<1>3. QED
  BY <1>1, <1>2, TypeCorrect, IInvInductive, PTL
     DEF Spec, ImplementsContract, Contract!Spec

-----------------------------------------------------------------------------
(* Sums over finite sets, for the cost of the cache.                        *)

(* A set of natural numbers with a member has a least one.                  *)
LEMMA LeastNumber ==
  ASSUME NEW S, S \subseteq Nat, S # {}
  PROVE  \E m \in S : \A n \in S : m <= n
<1> DEFINE R == {ss \in Nat \X Nat : ss[1] < ss[2]}
<1>1. IsWellFoundedOn(R, Nat)
  BY NatLessThanWellFounded, Zenon DEF OpToRel
<1>2. \E x \in S : \A y \in S : ~ (<<y, x>> \in R)
  <2> HIDE DEF R
  <2> QED BY <1>1, WFMin
<1>3. PICK m \in S : \A n \in S : ~ (<<n, m>> \in R)
  BY <1>2
<1>4. \A n \in S : m <= n
  <2> SUFFICES ASSUME NEW n \in S PROVE m <= n
    OBVIOUS
  <2>1. n < m => <<n, m>> \in R
    OBVIOUS
  <2> QED BY <1>3, <2>1
<1> QED BY <1>4

(* The sum of g[x] for the members x of S.                                  *)
Total(g, S) == MapThenSumSet(LAMBDA x : g[x], S)

(* m gives every subset of D the sum of g over it.                          *)
SumsOf(g, D, m) ==
  /\ m \in [SUBSET D -> Int]
  /\ m[{}] = 0
  /\ \A s \in SUBSET D : \A x \in s : m[s] = g[x] + m[s \ {x}]

LEMMA SumsExtend ==
  ASSUME NEW D, NEW x \in D, NEW g, \A y \in D : g[y] \in Int,
         NEW m, SumsOf(g, D \ {x}, m)
  PROVE  \E n : SumsOf(g, D, n)
<1> DEFINE n == [s \in SUBSET D |-> IF x \in s THEN g[x] + m[s \ {x}] ELSE m[s]]
<1>1. \A s \in SUBSET D : s \ {x} \in SUBSET (D \ {x}) /\ m[s \ {x}] \in Int
  BY DEF SumsOf
<1>2. n \in [SUBSET D -> Int]
  <2>1. ASSUME NEW s \in SUBSET D
        PROVE  (IF x \in s THEN g[x] + m[s \ {x}] ELSE m[s]) \in Int
    <3>1. CASE x \notin s
      <4>1. s \in SUBSET (D \ {x})
        BY <3>1
      <4> QED BY <3>1, <4>1 DEF SumsOf
    <3>2. CASE x \in s
      <4>1. g[x] \in Int /\ m[s \ {x}] \in Int
        BY <1>1
      <4> QED BY <3>2, <4>1
    <3> QED BY <3>1, <3>2
  <2> QED BY <2>1
<1>3. n[{}] = 0
  BY DEF SumsOf
<1>4. ASSUME NEW s \in SUBSET D, NEW y \in s
      PROVE  n[s] = g[y] + n[s \ {y}]
  <2>1. CASE x \notin s
    <3>1. s \in SUBSET (D \ {x}) /\ s \ {y} \in SUBSET D /\ x \notin s \ {y}
      BY <2>1
    <3>2. n[s] = m[s] /\ n[s \ {y}] = m[s \ {y}]
      BY <2>1, <3>1
    <3> QED BY <3>1, <3>2 DEF SumsOf
  <2>2. CASE x = y
    <3>1. s \ {y} \in SUBSET D /\ x \notin s \ {y}
      BY <2>2
    <3>2. n[s] = g[x] + m[s \ {x}] /\ n[s \ {y}] = m[s \ {y}]
      BY <2>2, <3>1
    <3> QED BY <2>2, <3>2
  <2>3. CASE x \in s /\ x # y
    <3> DEFINE r == s \ {x}
    <3>1. /\ s \ {y} \in SUBSET D /\ x \in s \ {y} /\ (s \ {y}) \ {x} = r \ {y}
          /\ r \in SUBSET (D \ {x}) /\ y \in r /\ r \ {y} \in SUBSET (D \ {x})
      BY <2>3
    <3>2. n[s] = g[x] + m[r] /\ n[s \ {y}] = g[x] + m[r \ {y}]
      BY <2>3, <3>1
    <3>3. m[r] = g[y] + m[r \ {y}] /\ m[r] \in Int /\ m[r \ {y}] \in Int
      BY <3>1 DEF SumsOf
    <3>4. g[x] \in Int /\ g[y] \in Int
      OBVIOUS
    <3> HIDE DEF r, n
    <3> QED BY <3>2, <3>3, <3>4
  <2> QED BY <2>1, <2>2, <2>3
<1>5. SumsOf(g, D, n)
  <2> HIDE DEF n
  <2> QED BY <1>2, <1>3, <1>4 DEF SumsOf
<1> QED BY <1>5

(* There are such sums over a finite set.                                   *)
LEMMA SumsExist ==
  ASSUME NEW D, IsFiniteSet(D), NEW g, \A x \in D : g[x] \in Int
  PROVE  \E m : SumsOf(g, D, m)
<1> DEFINE Lack == {E \in SUBSET D : ~ \E m : SumsOf(g, E, m)}
           Sizes == {Cardinality(E) : E \in Lack}
<1>1. \A E \in SUBSET D : IsFiniteSet(E) /\ Cardinality(E) \in Nat
  BY FS_Subset, FS_CardinalityType
<1>2. SUFFICES ASSUME Lack # {} PROVE FALSE
  OBVIOUS
<1>3. Sizes \subseteq Nat /\ Sizes # {}
  BY <1>1, <1>2
<1>4. PICK E \in Lack : \A F \in Lack : Cardinality(E) <= Cardinality(F)
  <2>1. \E n \in Sizes : \A k \in Sizes : n <= k
    <3> HIDE DEF Sizes
    <3> QED BY <1>3, LeastNumber
  <2> QED BY <2>1
<1>5. CASE E = {}
  <2> DEFINE m == [s \in SUBSET E |-> 0]
  <2>1. m \in [SUBSET E -> Int] /\ m[{}] = 0
    OBVIOUS
  <2>2. \A s \in SUBSET E : s = {}
    BY <1>5
  <2>3. SumsOf(g, E, m)
    BY <2>1, <2>2 DEF SumsOf
  <2> QED BY <1>4, <2>3
<1>6. ASSUME E # {} PROVE FALSE
  <2>1. PICK x \in E : TRUE
    BY <1>6
  <2>2. IsFiniteSet(E) /\ E \ {x} \in SUBSET D
    BY <1>1, <1>4
  <2>3. Cardinality(E \ {x}) = Cardinality(E) - 1 /\ Cardinality(E) \in Nat
    BY <2>1, <2>2, <1>1, FS_RemoveElement
  <2>4. E \ {x} \notin Lack
    BY <1>4, <2>3
  <2>5. PICK m : SumsOf(g, E \ {x}, m)
    BY <2>2, <2>4
  <2>6. \A y \in E : g[y] \in Int
    BY <1>4
  <2>7. \E n : SumsOf(g, E, n)
    BY <2>1, <2>5, <2>6, SumsExtend
  <2> QED BY <1>4, <2>7
<1> QED BY <1>5, <1>6

(* And MapThenSumSet computes them, in whatever order it takes the members. *)
LEMMA TotalIsSum ==
  ASSUME NEW D, IsFiniteSet(D), NEW g, NEW m, SumsOf(g, D, m)
  PROVE  Total(g, D) = m[D]
<1> DEFINE Pick(s) == CHOOSE x \in s : TRUE
           It(h) == [s \in SUBSET D |->
                       IF s = {} THEN 0 ELSE g[Pick(s)] + h[s \ {Pick(s)}]]
           iter == CHOOSE h : h = It(h)
<1>1. Total(g, D) = iter[D]
  BY DEF Total, MapThenSumSet, MapThenFoldSet
<1>2. m = It(m)
  <2>1. \A s \in SUBSET D : s # {} => Pick(s) \in s
    OBVIOUS
  <2>2. \A s \in SUBSET D :
          m[s] = IF s = {} THEN 0 ELSE g[Pick(s)] + m[s \ {Pick(s)}]
    <3> HIDE DEF Pick
    <3> QED BY <2>1 DEF SumsOf
  <2>3. m = [s \in SUBSET D |-> m[s]]
    BY DEF SumsOf
  <2> HIDE DEF Pick
  <2> QED BY <2>2, <2>3
<1>3. iter = It(iter)
  <2> HIDE DEF It
  <2> QED BY <1>2
<1>4. \A s \in SUBSET D : iter[s] = m[s]
  <2> DEFINE Differ == {s \in SUBSET D : iter[s] # m[s]}
             Sizes == {Cardinality(s) : s \in Differ}
  <2>1. \A s \in SUBSET D : IsFiniteSet(s) /\ Cardinality(s) \in Nat
    BY FS_Subset, FS_CardinalityType
  <2>2. SUFFICES ASSUME Differ # {} PROVE FALSE
    OBVIOUS
  <2>3. Sizes \subseteq Nat /\ Sizes # {}
    <3> HIDE DEF iter
    <3> QED BY <2>1, <2>2
  <2>4. PICK s \in Differ : \A r \in Differ : Cardinality(s) <= Cardinality(r)
    <3>1. \E n \in Sizes : \A k \in Sizes : n <= k
      <4> HIDE DEF Sizes
      <4> QED BY <2>3, LeastNumber
    <3> HIDE DEF Differ
    <3> QED BY <3>1
  <2> DEFINE x == Pick(s)
  <2> HIDE DEF iter
  <2>5. \A r \in SUBSET D : /\ iter[r] = It(iter)[r]
                            /\ m[r] = It(m)[r]
    <3> HIDE DEF It
    <3> QED BY <1>2, <1>3
  <2>6. s # {}
    BY <2>4, <2>5
  <2>7. x \in s
    BY <2>6
  <2>8. Cardinality(s \ {x}) = Cardinality(s) - 1 /\ Cardinality(s) \in Nat
    <3> HIDE DEF x
    <3> QED BY <2>1, <2>4, <2>7, FS_RemoveElement
  <2>9. s \ {x} \notin Differ /\ s \ {x} \in SUBSET D
    BY <2>4, <2>8
  <2>10. iter[s \ {x}] = m[s \ {x}]
    BY <2>9
  <2>11. iter[s] = m[s]
    <3>1. iter[s] = g[x] + iter[s \ {x}] /\ m[s] = g[x] + m[s \ {x}]
      BY <2>4, <2>5, <2>6
    <3> QED BY <3>1, <2>10
  <2> QED BY <2>4, <2>11
<1> HIDE DEF iter
<1> QED BY <1>1, <1>4

(* How the sum changes with its set and its function.                       *)
LEMMA TotalOfNone ==
  ASSUME NEW g
  PROVE  Total(g, {}) = 0
<1> DEFINE none == {}
<1>1. IsFiniteSet(none) /\ \A x \in none : g[x] \in Int
  BY FS_EmptySet
<1>2. PICK m : SumsOf(g, none, m)
  <2> HIDE DEF none
  <2> QED BY <1>1, SumsExist
<1>3. Total(g, none) = m[none]
  <2> HIDE DEF none
  <2> QED BY <1>1, <1>2, TotalIsSum
<1> QED BY <1>2, <1>3 DEF SumsOf

LEMMA TotalTakesOut ==
  ASSUME NEW D, IsFiniteSet(D), NEW g, \A x \in D : g[x] \in Int, NEW x \in D
  PROVE  /\ Total(g, D) \in Int
         /\ Total(g, D \ {x}) \in Int
         /\ Total(g, D) = g[x] + Total(g, D \ {x})
<1> DEFINE E == D \ {x}
<1>1. PICK m : SumsOf(g, D, m)
  BY SumsExist
<1>2. Total(g, D) = m[D]
  BY <1>1, TotalIsSum
<1>3. IsFiniteSet(E)
  BY FS_RemoveElement
<1>4. PICK n : SumsOf(g, E, n)
  <2>1. \A y \in E : g[y] \in Int
    OBVIOUS
  <2> HIDE DEF E
  <2> QED BY <2>1, <1>3, SumsExist
<1>5. SumsOf(g, E, [s \in SUBSET E |-> m[s]])
  BY <1>1 DEF SumsOf
<1>6. Total(g, E) = m[E]
  <2> DEFINE r == [s \in SUBSET E |-> m[s]]
  <2>1. r[E] = m[E]
    OBVIOUS
  <2>2. Total(g, E) = r[E]
    <3>1. SumsOf(g, E, r)
      BY <1>5
    <3> HIDE DEF r, E
    <3> QED BY <1>3, <3>1, TotalIsSum
  <2> QED BY <2>1, <2>2
<1> QED BY <1>1, <1>2, <1>6 DEF SumsOf

LEMMA TotalSame ==
  ASSUME NEW D, IsFiniteSet(D), NEW g, \A x \in D : g[x] \in Int,
         NEW h, \A x \in D : h[x] = g[x]
  PROVE  Total(h, D) = Total(g, D) /\ Total(g, D) \in Int
<1>1. PICK m : SumsOf(g, D, m)
  BY SumsExist
<1>2. SumsOf(h, D, m)
  BY <1>1 DEF SumsOf
<1>3. Total(g, D) = m[D] /\ Total(h, D) = m[D]
  BY <1>1, <1>2, TotalIsSum
<1> QED BY <1>1, <1>3 DEF SumsOf

LEMMA TotalUpdated ==
  ASSUME NEW D, IsFiniteSet(D), NEW g, \A x \in D : g[x] \in Int,
         NEW x \in D, NEW h, h[x] \in Int, \A y \in D \ {x} : h[y] = g[y]
  PROVE  Total(h, D) = Total(g, D) - g[x] + h[x]
<1>1. /\ Total(g, D) \in Int
      /\ Total(g, D \ {x}) \in Int
      /\ Total(g, D) = g[x] + Total(g, D \ {x})
  BY TotalTakesOut
<1>2. \A y \in D : h[y] \in Int
  OBVIOUS
<1>3. Total(h, D) = h[x] + Total(h, D \ {x})
  BY <1>2, TotalTakesOut
<1>4. Total(h, D \ {x}) = Total(g, D \ {x})
  <2> DEFINE E == D \ {x}
  <2>1. IsFiniteSet(E) /\ \A y \in E : g[y] \in Int /\ h[y] = g[y]
    BY FS_RemoveElement
  <2> HIDE DEF E
  <2>2. Total(h, E) = Total(g, E)
    BY <2>1, TotalSame
  <2> QED BY <2>2 DEF E
<1>5. g[x] \in Int
  OBVIOUS
<1> QED BY <1>1, <1>3, <1>4, <1>5

LEMMA TotalAdds ==
  ASSUME NEW D, IsFiniteSet(D), NEW g, NEW x, x \notin D,
         \A y \in D \cup {x} : g[y] \in Int
  PROVE  /\ Total(g, D \cup {x}) = Total(g, D) + g[x]
         /\ Total(g, D) \in Int
<1> DEFINE E == D \cup {x}
<1>1. IsFiniteSet(E) /\ x \in E /\ (\A y \in E : g[y] \in Int) /\ E \ {x} = D
  BY FS_AddElement
<1> HIDE DEF E
<1>2. /\ Total(g, E) = g[x] + Total(g, E \ {x})
      /\ Total(g, E \ {x}) \in Int
  BY <1>1, TotalTakesOut
<1>3. g[x] \in Int
  BY <1>1
<1>4. Total(g, E) = g[x] + Total(g, D) /\ Total(g, D) \in Int
  BY <1>1, <1>2
<1> QED BY <1>3, <1>4 DEF E

LEMMA TotalIsNatural ==
  ASSUME NEW D, IsFiniteSet(D), NEW g, \A x \in D : g[x] \in Nat
  PROVE  Total(g, D) \in Nat
<1>1. PICK m : SumsOf(g, D, m)
  BY SumsExist
<1>2. \A s \in SUBSET D : m[s] >= 0
  <2> DEFINE Negative == {s \in SUBSET D : ~ m[s] >= 0}
             Sizes == {Cardinality(s) : s \in Negative}
  <2>1. \A s \in SUBSET D : IsFiniteSet(s) /\ Cardinality(s) \in Nat
    BY FS_Subset, FS_CardinalityType
  <2>2. SUFFICES ASSUME Negative # {} PROVE FALSE
    OBVIOUS
  <2>3. Sizes \subseteq Nat /\ Sizes # {}
    BY <2>1, <2>2
  <2>4. PICK s \in Negative : \A r \in Negative : Cardinality(s) <= Cardinality(r)
    <3>1. \E n \in Sizes : \A k \in Sizes : n <= k
      <4> HIDE DEF Sizes
      <4> QED BY <2>3, LeastNumber
    <3> HIDE DEF Negative
    <3> QED BY <3>1
  <2>5. PICK x : x \in s
    <3>1. ~ m[s] >= 0
      BY <2>4
    <3>2. m[{}] = 0
      BY <1>1 DEF SumsOf
    <3>3. s # {}
      BY <3>1, <3>2
    <3> QED BY <3>3
  <2>6. Cardinality(s \ {x}) = Cardinality(s) - 1 /\ Cardinality(s) \in Nat
    BY <2>1, <2>4, <2>5, FS_RemoveElement
  <2>7. s \ {x} \notin Negative /\ s \ {x} \in SUBSET D
    BY <2>4, <2>6
  <2>8. m[s] = g[x] + m[s \ {x}] /\ m[s \ {x}] >= 0
    BY <1>1, <2>4, <2>5, <2>7 DEF SumsOf
  <2>9. m[s \ {x}] \in Int /\ g[x] \in Nat
    BY <1>1, <2>4, <2>5, <2>7 DEF SumsOf
  <2> QED BY <2>4, <2>8, <2>9
<1>3. Total(g, D) = m[D]
  BY <1>1, TotalIsSum
<1>4. m[D] \in Int
  BY <1>1 DEF SumsOf
<1> QED BY <1>2, <1>3, <1>4

-----------------------------------------------------------------------------
(* The cost of the cache.  An invariant about the cost of what is in the    *)
(* bins and of what has just been taken out of them.                        *)

LEMMA FiniteThreads == IsFiniteSet(Threads)
  BY ConstantsAssumption

(* An entry that is not cached counts for nothing, so a value that comes in *)
(* never adds to the cost of one that was left behind.                      *)
OnlyCachedCosts == \A k \in Keys : status[k] # "cached" => cost[k] = 0

(* A thread carries a popped cost only until it subtracts it.               *)
CarriesPopped == \A t \in Threads : pc[t] # "discardPopped" => popped[t] = 0

Sums == /\ IsFiniteSet(present)
        /\ currentCost = Total(cost, present) + Total(popped, Threads)

CInv == OnlyCachedCosts /\ CarriesPopped /\ Sums

(* A step that touches no cost.                                             *)
LEMMA SameCosts ==
  ASSUME TypeOK, CInv, NEW t \in Threads, NEW p \in PCs \ {"discardPopped"},
         pc[t] # "discardPopped",
         pc' = [pc EXCEPT ![t] = p],
         popped' = [popped EXCEPT ![t] = 0] \/ popped' = popped,
         UNCHANGED <<present, status, cost, currentCost>>
  PROVE  CInv'
<1>1. popped' = popped
  BY DEF TypeOK, CInv, CarriesPopped
<1>2. Sums'
  BY <1>1 DEF CInv, Sums
<1>3. OnlyCachedCosts' /\ CarriesPopped'
  BY <1>1 DEF CInv, OnlyCachedCosts, CarriesPopped, TypeOK
<1> QED BY <1>2, <1>3 DEF CInv

(* A step that changes the cost of an entry that has an item, and           *)
(* currentCost with it.                                                     *)
LEMMA EntryCosts ==
  ASSUME TypeOK, CInv, NEW t \in Threads, NEW k \in present, NEW c \in Nat,
         NEW s, s # "cached" => c = 0, NEW p \in PCs \ {"discardPopped"},
         pc[t] # "discardPopped",
         pc' = [pc EXCEPT ![t] = p],
         status' = [status EXCEPT ![k] = s],
         cost' = [cost EXCEPT ![k] = c],
         currentCost' = currentCost - cost[k] + c,
         UNCHANGED <<present, popped>>
  PROVE  CInv'
<1> USE DEF TypeOK
<1>1. /\ \A j \in present : cost[j] \in Int
      /\ cost'[k] = c
      /\ \A j \in present \ {k} : cost'[j] = cost[j]
      /\ IsFiniteSet(present)
  BY DEF CInv, Sums
<1>2. Total(cost', present) = Total(cost, present) - cost[k] + c
  <2> DEFINE h == cost'
  <2>1. h[k] = c /\ \A j \in present \ {k} : h[j] = cost[j]
    BY <1>1
  <2> HIDE DEF h
  <2>2. Total(h, present) = Total(cost, present) - cost[k] + h[k]
    BY <1>1, <2>1, TotalUpdated
  <2> QED BY <2>1, <2>2 DEF h
<1>3. Total(cost, present) \in Int /\ Total(popped, Threads) \in Int
  BY <1>1, TotalSame, FiniteThreads
<1>4. Sums'
  BY <1>1, <1>2, <1>3 DEF CInv, Sums
<1>5. OnlyCachedCosts' /\ CarriesPopped'
  BY DEF CInv, OnlyCachedCosts, CarriesPopped
<1> QED BY <1>4, <1>5 DEF CInv

LEMMA PoppedChanges ==
  ASSUME TypeOK, NEW t \in Threads, NEW c \in Nat, popped' = [popped EXCEPT ![t] = c]
  PROVE  Total(popped', Threads) = Total(popped, Threads) - popped[t] + c
<1> DEFINE h == popped'
<1>1. /\ \A u \in Threads : popped[u] \in Int
      /\ h[t] = c /\ h[t] \in Int
      /\ \A u \in Threads \ {t} : h[u] = popped[u]
  BY DEF TypeOK
<1> HIDE DEF h
<1>2. Total(h, Threads) = Total(popped, Threads) - popped[t] + h[t]
  BY <1>1, FiniteThreads, TotalUpdated
<1> QED BY <1>1, <1>2 DEF h

LEMMA CallsKeepCosts ==
  ASSUME TypeOK, CInv, NEW t \in Threads, Calls(t)
  PROVE  CInv'
<1> USE DEF TypeOK, storeVars, costVars, PCs
<1>1. CASE CallKeyed(t)
  BY <1>1, SameCosts DEF CallKeyed, Call, Goto
<1>2. CASE CallClear(t)
  BY <1>2, SameCosts DEF CallClear, Call, Goto
<1>3. CASE CallSetMaxCost(t)
  BY <1>3, SameCosts DEF CallSetMaxCost, Call, Goto
<1>4. CASE RaiseMaxCost(t)
  BY <1>4 DEF RaiseMaxCost, CInv, OnlyCachedCosts, CarriesPopped, Sums
<1> QED BY <1>1, <1>2, <1>3, <1>4 DEF Calls

LEMMA AcquireKeepsCosts ==
  ASSUME TypeOK, IInv, CInv, NEW t \in Threads, AcquireStep(t) \/ AcquireCancelled(t)
  PROVE  CInv'
<1> USE DEF TypeOK, storeVars, costVars, callVars
<1>0. /\ OnAcquired(op[t], status[key[t]]) \in PCs \ {"discardPopped"}
      /\ OnAcquired(op[t], "uncached") \in PCs \ {"discardPopped"}
      /\ {"idle", "acquire"} \subseteq PCs
  BY OnAcquiredIsPC DEF PCs
<1>1. CASE AcquireMissing(t) \/ AcquireCancelled(t)
  <2>1. /\ pc[t] # "discardPopped" /\ "idle" \in PCs \ {"discardPopped"}
        /\ pc' = [pc EXCEPT ![t] = "idle"]
        /\ popped' = [popped EXCEPT ![t] = 0]
        /\ UNCHANGED <<present, status, cost, currentCost>>
    BY <1>0, <1>1 DEF AcquireMissing, AcquireCancelled, Acquiring, Return, Goto
  <2> QED BY <2>1, SameCosts
<1>2. CASE AcquireRead(t) \/ AcquireWrite(t)
  <2>1. /\ pc[t] # "discardPopped"
        /\ pc' = [pc EXCEPT ![t] = OnAcquired(op[t], status[key[t]])]
        /\ UNCHANGED <<present, status, cost, currentCost, popped>>
    BY <1>2 DEF AcquireRead, AcquireWrite, Acquiring, Goto
  <2> QED BY <1>0, <2>1, SameCosts
<1>3. CASE AcquireRetry(t)
  BY <1>3 DEF AcquireRetry, CInv, OnlyCachedCosts, CarriesPopped, Sums
<1>4. CASE AcquireInsert(t)
  <2> DEFINE k == key[t]
             p == OnAcquired(op[t], "uncached")
  <2>1. /\ k \in Keys /\ k \notin present /\ present' = present \cup {k}
        /\ pc' = [pc EXCEPT ![t] = p] /\ pc[t] # "discardPopped"
        /\ UNCHANGED <<status, cost, currentCost, popped>>
    BY <1>4 DEF AcquireInsert, Acquiring, Goto
  <2>2. cost[k] = 0
    BY <2>1 DEF IInv, AbsentIsUncached, CInv, OnlyCachedCosts
  <2>3. /\ \A j \in present \cup {k} : cost[j] \in Int
        /\ IsFiniteSet(present)
    BY <2>1 DEF CInv, Sums
  <2>4. /\ Total(cost, present \cup {k}) = Total(cost, present) + cost[k]
        /\ Total(cost, present) \in Int
    BY <2>1, <2>3, TotalAdds
  <2>5. IsFiniteSet(present \cup {k})
    BY <2>3, FS_AddElement
  <2>6. Sums'
    BY <2>1, <2>2, <2>4, <2>5 DEF CInv, Sums
  <2>7. OnlyCachedCosts' /\ CarriesPopped'
    BY <1>0, <2>1 DEF CInv, OnlyCachedCosts, CarriesPopped
  <2> QED BY <2>6, <2>7 DEF CInv
<1> QED BY <1>1, <1>2, <1>3, <1>4 DEF AcquireStep

LEMMA EntryKeepsCosts ==
  ASSUME TypeOK, IInv, CInv, NEW t \in Threads, EntryStep(t)
  PROVE  CInv'
<1> USE DEF TypeOK, storeVars, costVars, callVars, Goto
<1>0. /\ {"idle", "discard", "leave", "store", "publish", "readLimit"} \subseteq PCs \ {"discardPopped"}
      /\ pc[t] \in HoldingPCs
      /\ pc[t] # "discardPopped"
      /\ key[t] \in present
  <2>1. pc[t] \in HoldingPCs
    BY DEF EntryStep, GetterReturns, GetterThrows, GetterCancelled, Discard, Store,
       Publish, Touch, Erase, Leave, HoldingPCs, WritingPCs
  <2>2. pc[t] # "discardPopped"
    BY <2>1 DEF HoldingPCs, WritingPCs
  <2> QED BY <2>1, <2>2 DEF PCs, IInv, Holds
<1>1. CASE GetterReturns(t) \/ GetterCancelled(t)
  BY <1>0, <1>1, SameCosts DEF GetterReturns, GetterCancelled
<1>2. CASE Publish(t)
  BY <1>0, <1>2, SameCosts DEF Publish
<1>3. CASE Touch(t) \/ Leave(t)
  <2>1. /\ pc' = [pc EXCEPT ![t] = "idle"]
        /\ popped' = [popped EXCEPT ![t] = 0]
        /\ UNCHANGED <<present, status, cost, currentCost>>
    BY <1>3 DEF Touch, Leave, Return
  <2> QED BY <1>0, <2>1, SameCosts
<1>4. CASE Discard(t) \/ Erase(t)
  <2>1. PICK p \in {"store", "leave"} : pc' = [pc EXCEPT ![t] = p]
    BY <1>4 DEF Discard, Erase
  <2>2. /\ currentCost' = currentCost - cost[key[t]] + 0
        /\ status' = [status EXCEPT ![key[t]] = "uncached"]
        /\ cost' = [cost EXCEPT ![key[t]] = 0]
        /\ UNCHANGED <<present, popped>>
    BY <1>4 DEF Discard, Erase, EraseInternal
  <2> QED BY <1>0, <2>1, <2>2, EntryCosts
<1>5. CASE GetterThrows(t)
  <2>1. status[key[t]] = "uncached" /\ cost[key[t]] = 0
    BY <1>5 DEF GetterThrows, IInv, FillsEmptyEntry, CInv, OnlyCachedCosts
  <2>2. PICK s \in {"failed", "uncached"} : status' = [status EXCEPT ![key[t]] = s]
    BY <1>5, <2>1 DEF GetterThrows
  <2>3. /\ currentCost' = currentCost - cost[key[t]] + 0
        /\ cost' = [cost EXCEPT ![key[t]] = 0]
        /\ pc' = [pc EXCEPT ![t] = "leave"]
        /\ UNCHANGED <<present, popped>>
    BY <1>5, <2>1 DEF GetterThrows
  <2> QED BY <1>0, <2>2, <2>3, EntryCosts
<1>6. CASE Store(t)
  <2>1. status[key[t]] = "uncached" /\ cost[key[t]] = 0
    BY <1>6 DEF Store, IInv, FillsEmptyEntry, CInv, OnlyCachedCosts
  <2>2. PICK c \in Costs :
          /\ \/ UNCHANGED <<status, cost, currentCost>>
             \/ /\ status' = [status EXCEPT ![key[t]] = "cached"]
                /\ cost' = [cost EXCEPT ![key[t]] = c]
                /\ currentCost' = currentCost + c
          /\ pc' = [pc EXCEPT ![t] = "publish"]
          /\ UNCHANGED <<present, popped>>
    BY <1>6 DEF Store
  <2>3. CASE UNCHANGED <<status, cost, currentCost>>
    BY <1>0, <2>2, <2>3, SameCosts
  <2>4. CASE /\ status' = [status EXCEPT ![key[t]] = "cached"]
             /\ cost' = [cost EXCEPT ![key[t]] = c]
             /\ currentCost' = currentCost + c
    <3>1. c \in Nat /\ currentCost' = currentCost - cost[key[t]] + c
      BY <2>1, <2>4, ConstantsAssumption
    <3> QED BY <1>0, <2>2, <2>4, <3>1, EntryCosts
  <2> QED BY <2>2, <2>3, <2>4
<1> QED BY <1>1, <1>2, <1>3, <1>4, <1>5, <1>6 DEF EntryStep

LEMMA LimitKeepsCosts ==
  ASSUME TypeOK, CInv, NEW t \in Threads, LimitStep(t)
  PROVE  CInv'
<1> USE DEF TypeOK, storeVars, costVars, callVars, Goto
<1>0. {"idle", "limit", "pop"} \subseteq PCs \ {"discardPopped"}
  BY DEF PCs
<1>1. CASE ReadLimit(t) \/ LimitExceeded(t)
  BY <1>0, <1>1, SameCosts DEF ReadLimit, LimitExceeded
<1>2. CASE LimitMet(t)
  BY <1>0, <1>2, SameCosts DEF LimitMet, Return
<1>3. CASE DiscardPopped(t)
  <2>1. /\ currentCost' = currentCost - popped[t]
        /\ popped' = [popped EXCEPT ![t] = 0]
        /\ pc' = [pc EXCEPT ![t] = IF op[t] = "clear" THEN "pop" ELSE "limit"]
        /\ UNCHANGED <<present, status, cost>>
    BY <1>3 DEF DiscardPopped
  <2>2. \A u \in Threads : popped[u] \in Int
    OBVIOUS
  <2>3. Total(popped', Threads) = Total(popped, Threads) - popped[t] + 0
    BY <2>1, PoppedChanges
  <2>4. Total(cost, present) \in Int /\ Total(popped, Threads) \in Int
    BY <2>2, TotalSame, FiniteThreads DEF CInv, Sums
  <2>5. Sums'
    BY <2>1, <2>2, <2>3, <2>4 DEF CInv, Sums
  <2>6. OnlyCachedCosts' /\ CarriesPopped'
    BY <2>1 DEF CInv, OnlyCachedCosts, CarriesPopped
  <2> QED BY <2>5, <2>6 DEF CInv
<1> QED BY <1>1, <1>2, <1>3 DEF LimitStep

(* pop() moves the cost of the entry from the bins to the thread.           *)
LEMMA PopItemKeepsCosts ==
  ASSUME TypeOK, CInv, NEW t \in Threads, NEW k \in present, pc[t] = "scan", PopItem(t, k)
  PROVE  CInv'
<1> USE DEF TypeOK
<1>1. /\ popped' = [popped EXCEPT ![t] = cost[k]]
      /\ present' = present \ {k}
      /\ status' = [status EXCEPT ![k] = "uncached"]
      /\ cost' = [cost EXCEPT ![k] = 0]
      /\ pc' = [pc EXCEPT ![t] = "discardPopped"]
      /\ currentCost' = currentCost
      /\ popped[t] = 0
  BY DEF PopItem, Goto, costVars, CInv, CarriesPopped
<1>2. IsFiniteSet(present) /\ IsFiniteSet(present \ {k})
  BY FS_RemoveElement DEF CInv, Sums
<1>3. /\ \A j \in present : cost[j] \in Int
      /\ \A j \in present \ {k} : cost'[j] = cost[j]
  BY <1>1
<1>4. /\ Total(cost, present) \in Int
      /\ Total(cost, present \ {k}) \in Int
      /\ Total(cost, present) = cost[k] + Total(cost, present \ {k})
  BY <1>2, <1>3, TotalTakesOut
<1>5. Total(cost', present \ {k}) = Total(cost, present \ {k})
  <2> DEFINE h == cost'
             E == present \ {k}
  <2>1. IsFiniteSet(E) /\ \A j \in E : cost[j] \in Int /\ h[j] = cost[j]
    BY <1>2, <1>3
  <2> HIDE DEF h, E
  <2>2. Total(h, E) = Total(cost, E)
    BY <2>1, TotalSame
  <2> QED BY <2>2 DEF h, E
<1>6. \A u \in Threads : popped[u] \in Int
  OBVIOUS
<1>7. Total(popped', Threads) = Total(popped, Threads) - popped[t] + cost[k]
  BY <1>1, PoppedChanges
<1>8. Total(popped, Threads) \in Int
  BY <1>6, TotalSame, FiniteThreads
<1>9. Sums'
  BY <1>1, <1>2, <1>4, <1>5, <1>7, <1>8 DEF CInv, Sums
<1>10. OnlyCachedCosts' /\ CarriesPopped'
  BY <1>1 DEF CInv, OnlyCachedCosts, CarriesPopped
<1> QED BY <1>9, <1>10 DEF CInv

LEMMA PopKeepsCosts ==
  ASSUME TypeOK, PopIteratorValid, CInv, NEW t \in Threads, PopStep(t)
  PROVE  CInv'
<1> USE DEF TypeOK, storeVars, costVars, callVars, Goto
<1>0. {"idle", "lockBin", "scan", "nextBin"} \subseteq PCs \ {"discardPopped"}
  BY DEF PCs
<1>1. CASE PopGivesUp(t) \/ PopFindsNothing(t)
  <2>1. /\ pc[t] # "discardPopped"
        /\ pc' = [pc EXCEPT ![t] = "idle"]
        /\ popped' = [popped EXCEPT ![t] = 0]
        /\ UNCHANGED <<present, status, cost, currentCost>>
    BY <1>1 DEF PopGivesUp, PopFindsNothing, Return
  <2> QED BY <1>0, <2>1, SameCosts
<1>2. CASE PopTakesMutex(t) \/ PopLocksBin(t)
  BY <1>0, <1>2, SameCosts DEF PopTakesMutex, PopLocksBin
<1>3. CASE PopLeavesBin(t) \/ PopEntersBin(t)
  BY <1>0, <1>3, SameCosts DEF PopLeavesBin, PopEntersBin
<1>4. CASE PopVisits(t)
  <2>1. PICK k \in ahead : SkipItem(t, k) \/ SpareItem(t, k) \/ PopItem(t, k)
    BY <1>4 DEF PopVisits
  <2>2. CASE SkipItem(t, k) \/ SpareItem(t, k)
    BY <2>2 DEF SkipItem, SpareItem, CInv, OnlyCachedCosts, CarriesPopped, Sums
  <2>3. CASE PopItem(t, k)
    BY <1>4, <2>3, PopItemKeepsCosts DEF PopVisits, PopIteratorValid, BinItems
  <2> QED BY <2>1, <2>2, <2>3
<1> QED BY <1>1, <1>2, <1>3, <1>4 DEF PopStep

LEMMA InitCosts == Init => CInv
<1> SUFFICES ASSUME Init PROVE CInv
  OBVIOUS
<1>1. OnlyCachedCosts /\ CarriesPopped
  BY DEF Init, OnlyCachedCosts, CarriesPopped
<1>2. IsFiniteSet(present) /\ Total(cost, present) = 0
  BY FS_EmptySet, TotalOfNone DEF Init
<1>3. Total(popped, Threads) = 0
  <2> DEFINE none == [t \in Threads |-> 0]
             sums == [s \in SUBSET Threads |-> 0]
  <2>1. SumsOf(none, Threads, sums)
    BY DEF SumsOf
  <2>2. sums[Threads] = 0 /\ popped = none
    BY DEF Init
  <2> HIDE DEF none, sums
  <2> QED BY <2>1, <2>2, TotalIsSum, FiniteThreads
<1>4. Sums
  BY <1>2, <1>3 DEF Init, Sums
<1> QED BY <1>1, <1>4 DEF CInv

LEMMA CInvInductive == Spec => []CInv
<1>1. TypeOK /\ IInv /\ PopIteratorValid /\ CInv /\ [Next]_vars => CInv'
  <2> SUFFICES ASSUME TypeOK, IInv, PopIteratorValid, CInv, [Next]_vars
               PROVE  CInv'
    OBVIOUS
  <2>1. CASE UNCHANGED vars
    BY <2>1 DEF vars, storeVars, costVars, callVars, CInv, OnlyCachedCosts,
       CarriesPopped, Sums
  <2> QED
    BY <2>1, CallsKeepCosts, AcquireKeepsCosts, EntryKeepsCosts, LimitKeepsCosts,
       PopKeepsCosts DEF Next, Work
<1> QED BY <1>1, InitCosts, TypeCorrect, IInvInductive, PopIteratorStaysValid, PTL DEF Spec

-----------------------------------------------------------------------------
(* Whatever gets, sets, erases, clears and pops overlap: currentCost is the *)
(* cost of what is in the bins and of what has been popped and not yet      *)
(* subtracted, so that no value is counted twice or forgotten ...           *)
THEOREM CostStaysAccounted == Spec => []CostAccounted
<1>1. CInv => CostAccounted
  BY DEF CInv, Sums, Total, CostAccounted
<1> QED BY <1>1, CInvInductive, PTL

(* ... and the size_t counter never wraps below zero.                       *)
THEOREM CostNeverWraps == Spec => [](currentCost >= 0)
<1>1. TypeOK /\ CInv => currentCost >= 0
  <2> SUFFICES ASSUME TypeOK, CInv PROVE currentCost >= 0
    OBVIOUS
  <2>1. IsFiniteSet(present) /\ (\A k \in present : cost[k] \in Nat)
        /\ \A t \in Threads : popped[t] \in Nat
    BY DEF TypeOK, CInv, Sums
  <2>2. Total(cost, present) \in Nat /\ Total(popped, Threads) \in Nat
    BY <2>1, TotalIsNatural, FiniteThreads
  <2> QED BY <2>2 DEF CInv, Sums
<1> QED BY <1>1, TypeCorrect, CInvInductive, PTL

-----------------------------------------------------------------------------
(* m_popMutex is held by the one thread that is inside pop(), and the       *)
(* number of full iterations is that thread's.                              *)
MutexHeld ==
  /\ \A t \in Threads : t \in popper <=> pc[t] \in PoppingPCs
  /\ \A t, u \in popper : t = u
  /\ (\A t \in Threads : pc[t] \notin {"scan", "nextBin"}) => rounds = 0

LEMMA InitMutex == Init => MutexHeld
  BY DEF Init, MutexHeld, PoppingPCs

(* A step that neither enters nor leaves pop().                             *)
LEMMA OutsidePop ==
  ASSUME TypeOK, MutexHeld, NEW t \in Threads, NEW p \in PCs \ PoppingPCs,
         pc[t] \notin PoppingPCs,
         pc' = [pc EXCEPT ![t] = p],
         UNCHANGED <<popper, rounds>>
  PROVE  MutexHeld'
<1>1. \A u \in Threads : pc'[u] = IF u = t THEN p ELSE pc[u]
  BY DEF TypeOK
<1> QED BY <1>1 DEF MutexHeld, PoppingPCs

LEMMA MutexStep ==
  ASSUME TypeOK, MutexHeld, [Next]_vars
  PROVE  MutexHeld'
<1> USE DEF TypeOK
<1>1. ASSUME NEW t \in Threads, PopStep(t)
      PROVE  MutexHeld'
  <2>1. CASE PopGivesUp(t)
    BY <2>1, OutsidePop DEF PopGivesUp, Return, Goto, popVars, PCs, PoppingPCs
  <2>2. CASE PopTakesMutex(t)
    BY <2>2 DEF PopTakesMutex, Goto, MutexHeld, PoppingPCs
  <2>3. CASE PopLocksBin(t)
    BY <2>3 DEF PopLocksBin, Goto, MutexHeld, PoppingPCs
  <2>4. CASE PopVisits(t)
    <3>1. PICK k \in ahead : SkipItem(t, k) \/ SpareItem(t, k) \/ PopItem(t, k)
      BY <2>4 DEF PopVisits
    <3>2. CASE SkipItem(t, k) \/ SpareItem(t, k)
      BY <3>2 DEF SkipItem, SpareItem, MutexHeld
    <3>3. CASE PopItem(t, k)
      BY <2>4, <3>3 DEF PopVisits, PopItem, ReleasePopMutex, Goto, MutexHeld, PoppingPCs
    <3> QED BY <3>1, <3>2, <3>3
  <2>5. CASE PopLeavesBin(t)
    BY <2>5 DEF PopLeavesBin, Goto, MutexHeld, PoppingPCs
  <2>6. CASE PopEntersBin(t)
    BY <2>6 DEF PopEntersBin, Goto, MutexHeld, PoppingPCs
  <2>7. CASE PopFindsNothing(t)
    BY <2>7 DEF PopFindsNothing, ReleasePopMutex, Return, Goto, MutexHeld, PoppingPCs
  <2> QED BY <1>1, <2>1, <2>2, <2>3, <2>4, <2>5, <2>6, <2>7 DEF PopStep
<1>2. ASSUME NEW t \in Threads, Calls(t)
      PROVE  MutexHeld'
  <2>1. CASE RaiseMaxCost(t)
    BY <2>1 DEF RaiseMaxCost, popVars, MutexHeld
  <2>2. PICK p \in {"acquire", "pop", "limit", "idle"} :
          /\ RaiseMaxCost(t) \/ (pc[t] = "idle" /\ pc' = [pc EXCEPT ![t] = p])
          /\ UNCHANGED <<popper, rounds>>
    BY <1>2 DEF Calls, CallKeyed, CallClear, CallSetMaxCost, RaiseMaxCost, Call, Goto, popVars
  <2> QED BY <2>1, <2>2, OutsidePop DEF PCs, PoppingPCs
<1>3. ASSUME NEW t \in Threads, AcquireStep(t) \/ AcquireCancelled(t)
      PROVE  MutexHeld'
  <2>1. CASE AcquireRetry(t)
    BY <2>1 DEF AcquireRetry, popVars, MutexHeld
  <2>2. CASE ~ AcquireRetry(t)
    <3>1. /\ pc[t] = "acquire"
          /\ \E p \in {"discard", "erase", "getter", "touch", "leave", "idle"} :
               pc' = [pc EXCEPT ![t] = p]
          /\ UNCHANGED <<popper, rounds>>
      BY <1>3, <2>2, OnAcquiredIsPC
         DEF AcquireStep, AcquireMissing, AcquireInsert, AcquireRead, AcquireWrite,
             AcquireCancelled, Acquiring, Return, Goto, popVars
    <3> QED BY <3>1, OutsidePop DEF PCs, PoppingPCs
  <2> QED BY <2>1, <2>2
<1>4. ASSUME NEW t \in Threads, EntryStep(t) \/ LimitStep(t)
      PROVE  MutexHeld'
  <2>1. /\ pc[t] \notin PoppingPCs
        /\ \E p \in {"discard", "store", "publish", "leave", "readLimit", "idle", "limit", "pop"} :
             pc' = [pc EXCEPT ![t] = p]
        /\ UNCHANGED <<popper, rounds>>
    BY <1>4 DEF EntryStep, GetterReturns, GetterThrows, GetterCancelled, Discard, Store,
       Publish, Touch, Erase, Leave, LimitStep, ReadLimit, LimitExceeded, LimitMet,
       DiscardPopped, Return, Goto, popVars, PoppingPCs
  <2> QED BY <2>1, OutsidePop DEF PCs, PoppingPCs
<1>5. CASE UNCHANGED vars
  BY <1>5 DEF vars, popVars, MutexHeld
<1> QED BY <1>1, <1>2, <1>3, <1>4, <1>5 DEF Next, Work

LEMMA MutexInvariant == Spec => []MutexHeld
  BY InitMutex, MutexStep, TypeCorrect, PTL DEF Spec

-----------------------------------------------------------------------------
(* The bins between two bins, going up and around.                          *)
Between(b, c) ==
  {d \in Bins : IF b < c THEN b < d /\ d < c ELSE d > b \/ d < c}

LEMMA NextBin ==
  ASSUME NEW b \in Bins
  PROVE  (b + 1) % NumBins = IF b + 1 = NumBins THEN 0 ELSE b + 1
  BY ConstantsAssumption DEF Bins

LEMMA BetweenNext ==
  ASSUME NEW b \in Bins, NEW c \in Bins, NEW d \in Between(b, (c + 1) % NumBins)
  PROVE  b # c /\ (d \in Between(b, c) \/ d = c)
<1> DEFINE n == (c + 1) % NumBins
<1>1. n = IF c + 1 = NumBins THEN 0 ELSE c + 1
  BY NextBin
<1>2. NumBins \in Nat /\ d \in Bins /\ IF b < n THEN b < d /\ d < n ELSE d > b \/ d < n
  BY ConstantsAssumption DEF Between
<1> HIDE DEF n
<1> QED BY <1>1, <1>2 DEF Between, Bins

LEMMA BetweenSame ==
  ASSUME NEW b \in Bins, NEW d \in Bins, d # b
  PROVE  d \in Between(b, b)
  BY DEF Between, Bins

(* While clear() runs alone: the bins between emptySentinel and the bin     *)
(* that pop() is in were found empty ...                                    *)
SweptIsEmpty(t) ==
  /\ pc[t] = "nextBin" =>
       \A k \in present : BinOf[k] \notin Between(sentinel, popBin)
  /\ pc[t] = "scan" /\ sentinel # popBin =>
       /\ \A k \in present : BinOf[k] \notin Between(sentinel, popBin)
       /\ BinItems(popBin) \subseteq ahead

(* The iterator has gone past k in this full iteration.                     *)
Passed(t, k) ==
  \/ BinOf[k] < popBin
  \/ pc[t] = "nextBin" /\ popBin = 0
  \/ pc[t] = "scan" /\ BinOf[k] = popBin /\ k \notin ahead

(* ... and the first full iteration has taken every second chance away from *)
(* what it passed, and the next ones have left nothing behind.              *)
SecondChancesGone(t) ==
  pc[t] \in {"scan", "nextBin"} =>
    /\ rounds >= 1 => \A k \in present : Passed(t, k) => k \notin used
    /\ rounds >= 2 => \A k \in present : k \notin used /\ ~ Passed(t, k)

InClear == {"pop", "lockBin", "scan", "nextBin", "discardPopped"}

ClearRunsAlone(t) == op[t] = "clear" /\ alone[t]

AloneInv == \A t \in Threads :
  /\ op[t] = "clear" => pc[t] \in InClear
  /\ ClearRunsAlone(t) => OthersIdle(t) /\ SweptIsEmpty(t) /\ SecondChancesGone(t)
  /\ op[t] # "clear" /\ alone[t] => older[t] = {}

-----------------------------------------------------------------------------
StepOf(t) == Calls(t) \/ AcquireCancelled(t) \/ Work(t)

(* A thread's step leaves the other threads where they are.                 *)
LEMMA StepsApart ==
  ASSUME TypeOK, NEW u \in Threads, StepOf(u)
  PROVE  \A t \in Threads \ {u} : pc'[t] = pc[t] /\ op'[t] = op[t]
<1> USE DEF TypeOK, callVars, Goto, Return
<1>1. CASE Calls(u)
  BY <1>1 DEF Calls, CallKeyed, CallClear, CallSetMaxCost, RaiseMaxCost, Call
<1>2. CASE AcquireStep(u) \/ AcquireCancelled(u)
  BY <1>2 DEF AcquireStep, AcquireMissing, AcquireInsert, AcquireRead, AcquireRetry,
     AcquireWrite, AcquireCancelled
<1>3. CASE EntryStep(u)
  BY <1>3 DEF EntryStep, GetterReturns, GetterThrows, GetterCancelled, Discard, Store,
     Publish, Touch, Erase, Leave
<1>4. CASE LimitStep(u)
  BY <1>4 DEF LimitStep, ReadLimit, LimitExceeded, LimitMet, DiscardPopped
<1>5. CASE PopStep(u)
  BY <1>5 DEF PopStep, PopGivesUp, PopTakesMutex, PopLocksBin, PopVisits, SkipItem,
     SpareItem, PopItem, PopLeavesBin, PopEntersBin, PopFindsNothing
<1> QED BY <1>1, <1>2, <1>3, <1>4, <1>5 DEF StepOf, Work

(* A thread that is in no call before and after its step has at most raised *)
(* the maximum.                                                             *)
LEMMA IdleStep ==
  ASSUME TypeOK, NEW u \in Threads, StepOf(u), pc[u] = "idle", pc'[u] = "idle"
  PROVE  UNCHANGED <<storeVars, popVars, pc, op, key, popped>>
<1>1. ~ Work(u) /\ ~ AcquireCancelled(u)
  BY DEF Work, AcquireStep, AcquireMissing, AcquireInsert, AcquireRead, AcquireRetry,
     AcquireWrite, AcquireCancelled, Acquiring,
     EntryStep, GetterReturns, GetterThrows, GetterCancelled, Discard, Store,
     Publish, Touch, Erase, Leave, LimitStep, ReadLimit, LimitExceeded, LimitMet,
     DiscardPopped, PopStep, PopGivesUp, PopTakesMutex, PopLocksBin, PopVisits,
     PopLeavesBin, PopEntersBin, PopFindsNothing
<1>2. RaiseMaxCost(u)
  BY <1>1 DEF StepOf, Calls, CallKeyed, CallClear, CallSetMaxCost, Call, Goto, TypeOK
<1> QED BY <1>2 DEF RaiseMaxCost

(* clear() only pops.                                                       *)
LEMMA ClearSteps ==
  ASSUME NEW t \in Threads, StepOf(t), pc[t] \in InClear
  PROVE  PopStep(t) \/ DiscardPopped(t)
  BY DEF StepOf, Calls, CallKeyed, CallClear, CallSetMaxCost, RaiseMaxCost, Call,
     Work, AcquireStep, AcquireMissing, AcquireInsert, AcquireRead, AcquireRetry,
     AcquireWrite, AcquireCancelled, Acquiring,
     EntryStep, GetterReturns, GetterThrows, GetterCancelled, Discard, Store,
     Publish, Touch, Erase, Leave, LimitStep, ReadLimit, LimitExceeded, LimitMet, InClear

(* It starts there.                                                         *)
LEMMA ClearStarts ==
  ASSUME TypeOK, NEW t \in Threads, StepOf(t), op[t] # "clear", op'[t] = "clear"
  PROVE  pc'[t] = "pop"
<1> USE DEF TypeOK, callVars, Goto, Return
<1>1. CASE Calls(t)
  BY <1>1 DEF Calls, CallKeyed, CallClear, CallSetMaxCost, RaiseMaxCost, Call
<1>2. CASE AcquireStep(t) \/ AcquireCancelled(t)
  BY <1>2 DEF AcquireStep, AcquireMissing, AcquireInsert, AcquireRead, AcquireRetry,
     AcquireWrite, AcquireCancelled
<1>3. CASE EntryStep(t)
  BY <1>3 DEF EntryStep, GetterReturns, GetterThrows, GetterCancelled, Discard, Store,
     Publish, Touch, Erase, Leave
<1>4. CASE LimitStep(t)
  BY <1>4 DEF LimitStep, ReadLimit, LimitExceeded, LimitMet, DiscardPopped
<1>5. CASE PopStep(t)
  BY <1>5 DEF PopStep, PopGivesUp, PopTakesMutex, PopLocksBin, PopVisits, SkipItem,
     SpareItem, PopItem, PopLeavesBin, PopEntersBin, PopFindsNothing
<1> QED BY <1>1, <1>2, <1>3, <1>4, <1>5 DEF StepOf, Work

(* Nobody else holds a lock while clear() runs alone.                       *)
LEMMA AloneUnlocked ==
  ASSUME TypeOK, IInv, MutexHeld, NEW t \in Threads, pc[t] \in InClear, OthersIdle(t)
  PROVE  /\ \A k \in Keys : Unlocked(k)
         /\ pc[t] = "pop" => popper = {}
<1>1. \A u \in Threads : pc[u] \notin HoldingPCs
  BY DEF OthersIdle, InClear, HoldingPCs, WritingPCs
<1>2. \A k \in Keys : readers[k] = {} /\ writers[k] = {}
  BY <1>1 DEF TypeOK, IInv, ReadLocks, WriteLocks, HoldingPCs
<1>3. pc[t] = "pop" => \A u \in Threads : pc[u] \notin PoppingPCs
  BY DEF OthersIdle, PoppingPCs
<1>4. pc[t] = "pop" => popper = {}
  BY <1>3 DEF MutexHeld, TypeOK
<1> QED BY <1>2, <1>4 DEF Unlocked

(* What a step of a clear() that runs alone does.                           *)
LEMMA ClearAloneStep ==
  ASSUME TypeOK, IInv, MutexHeld, PopIteratorValid,
         NEW t \in Threads, op[t] = "clear", pc[t] \in InClear, OthersIdle(t),
         SweptIsEmpty(t), SecondChancesGone(t),
         MaxRounds >= 1,
         PopStep(t) \/ DiscardPopped(t)
  PROVE  IF op'[t] = "clear"
         THEN pc'[t] \in InClear /\ SweptIsEmpty(t)' /\ SecondChancesGone(t)'
         ELSE present = {}
<1> USE DEF TypeOK, InClear, Goto, callVars
<1>1. CASE DiscardPopped(t) \/ PopTakesMutex(t)
  BY <1>1 DEF DiscardPopped, PopTakesMutex, SweptIsEmpty, SecondChancesGone
<1>2. CASE PopGivesUp(t)
  BY <1>2, AloneUnlocked DEF PopGivesUp
<1>3. CASE PopLocksBin(t)
  <2>1. rounds = 0
    BY <1>3 DEF PopLocksBin, MutexHeld, OthersIdle
  <2> QED BY <1>3, <2>1 DEF PopLocksBin, SweptIsEmpty, SecondChancesGone
<1>4. CASE PopVisits(t)
  <2>1. PICK k \in ahead : SkipItem(t, k) \/ SpareItem(t, k) \/ PopItem(t, k)
    BY <1>4 DEF PopVisits
  <2>2. k \in present /\ BinOf[k] = popBin /\ pc[t] = "scan" /\ Unlocked(k)
    BY <1>4, AloneUnlocked DEF PopVisits, PopIteratorValid, BinItems
  <2>3. CASE PopItem(t, k)
    BY <2>3 DEF PopItem, SweptIsEmpty, SecondChancesGone
  <2>4. CASE SpareItem(t, k)
    <3>1. /\ k \in used /\ used' = used \ {k} /\ ahead' = ahead \ {k} /\ sentinel' = popBin
          /\ UNCHANGED <<present, popBin, rounds, pc, op>>
      BY <2>4 DEF SpareItem
    <3>2. SweptIsEmpty(t)'
      BY <2>2, <3>1 DEF SweptIsEmpty
    <3>3. SecondChancesGone(t)'
      <4>1. rounds < 2
        BY <2>2, <3>1 DEF SecondChancesGone
      <4>2. \A j \in present : Passed(t, j)' /\ j \in used' => Passed(t, j)
        BY <2>2, <3>1 DEF Passed
      <4> QED BY <2>2, <3>1, <4>1, <4>2 DEF SecondChancesGone
    <3> QED BY <3>1, <3>2, <3>3
  <2> QED BY <2>1, <2>2, <2>3, <2>4 DEF SkipItem
<1>5. CASE PopLeavesBin(t)
  <2>1. /\ pc[t] = "scan" /\ ahead = {} /\ popBin' = (popBin + 1) % NumBins
        /\ pc' = [pc EXCEPT ![t] = "nextBin"] /\ pc'[t] = "nextBin" /\ op' = op
        /\ UNCHANGED <<present, used, ahead, sentinel, rounds>>
    BY <1>5 DEF PopLeavesBin, storeVars
  <2>2. SweptIsEmpty(t)'
    <3> SUFFICES ASSUME NEW k \in present, BinOf[k] \in Between(sentinel, popBin')
                 PROVE  FALSE
      BY <2>1 DEF SweptIsEmpty
    <3>1. sentinel # popBin /\ (BinOf[k] \in Between(sentinel, popBin) \/ BinOf[k] = popBin)
      BY <2>1, BetweenNext
    <3>2. k \in Keys
      OBVIOUS
    <3> QED BY <2>1, <3>1, <3>2 DEF SweptIsEmpty, BinItems
  <2>3. ASSUME NEW k \in present, Passed(t, k)' PROVE Passed(t, k)
    <3>1. BinOf[k] \in Bins /\ popBin' = IF popBin + 1 = NumBins THEN 0 ELSE popBin + 1
      BY <2>1, NextBin, ConstantsAssumption
    <3>2. BinOf[k] <= popBin
      BY <2>1, <2>3, <3>1, ConstantsAssumption DEF Passed, Bins
    <3> QED BY <2>1, <3>1, <3>2 DEF Passed, Bins
  <2>4. SecondChancesGone(t)'
    BY <2>1, <2>3 DEF SecondChancesGone
  <2> QED BY <2>1, <2>2, <2>4
<1>6. CASE PopEntersBin(t)
  <2>1. /\ pc[t] = "nextBin" /\ ~ FullCircle /\ ahead' = BinItems(popBin)
        /\ rounds' = IF popBin = 0 THEN rounds + 1 ELSE rounds
        /\ pc'[t] = "scan" /\ op' = op
        /\ UNCHANGED <<present, used, popBin, sentinel>>
    BY <1>6 DEF PopEntersBin, storeVars
  <2>2. SweptIsEmpty(t)'
    BY <2>1 DEF SweptIsEmpty, BinItems
  <2>3. \A k \in present : Passed(t, k)' => BinOf[k] < popBin
    BY <2>1 DEF Passed, BinItems
  <2>4. SecondChancesGone(t)'
    <3>1. CASE popBin = 0
      <4>1. \A k \in present : ~ Passed(t, k)' /\ Passed(t, k)
        BY <2>1, <2>3, <3>1, ConstantsAssumption DEF Passed, Bins
      <4> QED BY <2>1, <3>1, <4>1 DEF SecondChancesGone
    <3>2. CASE popBin # 0
      <4>1. \A k \in present : Passed(t, k)' => Passed(t, k)
        BY <2>3 DEF Passed
      <4> QED BY <2>1, <3>2, <4>1 DEF SecondChancesGone
    <3> QED BY <3>1, <3>2
  <2> QED BY <2>1, <2>2, <2>4
<1>7. CASE PopFindsNothing(t)
  <2>1. pc[t] = "nextBin" /\ op'[t] # "clear"
    BY <1>7 DEF PopFindsNothing, Return
  <2>2. CASE FullCircle
    <3> SUFFICES ASSUME NEW k \in present PROVE FALSE
      BY <2>1
    <3>1. BinOf[k] \in Bins /\ BinOf[k] # popBin
      BY <2>2, ConstantsAssumption DEF FullCircle, BinItems
    <3>2. BinOf[k] \in Between(sentinel, popBin)
      BY <2>2, <3>1, BetweenSame DEF FullCircle
    <3> QED BY <2>1, <3>2 DEF SweptIsEmpty
  <2>3. CASE RoundsExhausted
    <3>1. rounds >= 2 /\ popBin = 0
      BY <2>3, ConstantsAssumption DEF RoundsExhausted
    <3> QED BY <2>1, <3>1 DEF SecondChancesGone, Passed
  <2> QED BY <1>7, <2>2, <2>3 DEF PopFindsNothing
<1> QED BY <1>1, <1>2, <1>3, <1>4, <1>5, <1>6, <1>7 DEF PopStep

(* What a clear() that runs alone relies on, kept by every step.            *)
LEMMA AloneInvStep ==
  ASSUME TypeOK, IInv, MutexHeld, PopIteratorValid, AloneInv, ClearNext,
         MaxRounds >= 1
  PROVE  AloneInv'
<1>1. PICK u \in Threads : StepOf(u)
  BY DEF ClearNext, Next, StepOf
<1>2. \A t \in Threads \ {u} : pc'[t] = pc[t] /\ op'[t] = op[t]
  BY <1>1, StepsApart
<1>3. \A t \in Threads :
        /\ older'[t] = IF op'[t] = "clear" /\ op[t] # "clear" THEN WithValue
                       ELSE older[t] \cap WithValue'
        /\ alone'[t] <=> IF op'[t] # "clear" THEN alone[t]
                         ELSE (op[t] # "clear" \/ alone[t]) /\ OthersIdle(t)'
  BY DEF ClearNext
<1> SUFFICES ASSUME NEW t \in Threads
             PROVE  /\ op'[t] = "clear" => pc'[t] \in InClear
                    /\ ClearRunsAlone(t)' =>
                         OthersIdle(t)' /\ SweptIsEmpty(t)' /\ SecondChancesGone(t)'
                    /\ op'[t] # "clear" /\ alone'[t] => older'[t] = {}
  BY DEF AloneInv
<1>4. CASE op[t] # "clear" /\ op'[t] # "clear"
  BY <1>3, <1>4 DEF AloneInv, ClearRunsAlone
<1>5. CASE op[t] # "clear" /\ op'[t] = "clear"
  <2>1. pc'[t] = "pop"
    BY <1>1, <1>2, <1>5, ClearStarts
  <2> QED BY <1>3, <1>5, <2>1 DEF ClearRunsAlone, SweptIsEmpty, SecondChancesGone, InClear
<1>6. CASE op[t] = "clear"
  <2>1. pc[t] \in InClear
    BY <1>6 DEF AloneInv
  <2>2. CASE u # t
    <3>1. pc'[t] = pc[t] /\ op'[t] = op[t]
      BY <1>2, <2>2
    <3>2. ASSUME ClearRunsAlone(t)'
          PROVE  OthersIdle(t)' /\ SweptIsEmpty(t)' /\ SecondChancesGone(t)'
      <4>1. alone[t] /\ OthersIdle(t)'
        BY <1>3, <1>6, <3>1, <3>2 DEF ClearRunsAlone
      <4>2. OthersIdle(t) /\ SweptIsEmpty(t) /\ SecondChancesGone(t)
        BY <1>6, <4>1 DEF AloneInv, ClearRunsAlone
      <4>3. UNCHANGED <<storeVars, popVars, pc, op, key, popped>>
        BY <1>1, <2>2, <4>1, <4>2, IdleStep DEF OthersIdle
      <4>4. SweptIsEmpty(t)' /\ SecondChancesGone(t)'
        BY <4>2, <4>3 DEF SweptIsEmpty, SecondChancesGone, Passed, BinItems, storeVars, popVars
      <4> QED BY <4>1, <4>4
    <3> QED BY <1>6, <2>1, <3>1, <3>2
  <2>3. CASE u = t
    <3>1. PopStep(t) \/ DiscardPopped(t)
      BY <1>1, <2>1, <2>3, ClearSteps
    <3>2. op'[t] = "clear" => pc'[t] \in InClear
      BY <1>6, <2>1, <3>1
         DEF PopStep, PopGivesUp, PopTakesMutex, PopLocksBin, PopVisits, SkipItem,
             SpareItem, PopItem, PopLeavesBin, PopEntersBin, PopFindsNothing,
             DiscardPopped, Return, Goto, TypeOK, InClear
    <3>3. ASSUME alone'[t]
          PROVE  /\ op'[t] = "clear" =>
                      OthersIdle(t)' /\ SweptIsEmpty(t)' /\ SecondChancesGone(t)'
                 /\ op'[t] # "clear" => older'[t] = {}
      <4>1. alone[t] /\ (op'[t] = "clear" => OthersIdle(t)')
        BY <1>3, <1>6, <3>3
      <4>2. OthersIdle(t) /\ SweptIsEmpty(t) /\ SecondChancesGone(t)
        BY <1>6, <4>1 DEF AloneInv, ClearRunsAlone
      <4>3. /\ op'[t] = "clear" => SweptIsEmpty(t)' /\ SecondChancesGone(t)'
            /\ op'[t] # "clear" => present = {}
        BY <1>6, <2>1, <3>1, <4>2, ClearAloneStep
      <4>4. ASSUME op'[t] # "clear" PROVE older'[t] = {}
        <5>1. status' = status
          BY <1>6, <3>1, <4>4, <4>3
             DEF PopStep, PopGivesUp, PopTakesMutex, PopLocksBin, PopVisits, SkipItem,
                 SpareItem, PopItem, PopLeavesBin, PopEntersBin, PopFindsNothing,
                 DiscardPopped, storeVars, callVars
        <5>2. WithValue' = {}
          BY <4>3, <4>4, <5>1 DEF IInv, AbsentIsUncached, WithValue
        <5> QED BY <1>3, <4>4, <5>2
      <4> QED BY <4>1, <4>3, <4>4
    <3> QED BY <3>2, <3>3 DEF ClearRunsAlone
  <2> QED BY <2>2, <2>3
<1> QED BY <1>4, <1>5, <1>6

LEMMA ClearSpecRefines == ClearSpec => Spec
<1>1. ClearInit => Init
  BY DEF ClearInit
<1>2. [ClearNext]_clearVars => [Next]_vars
  BY DEF ClearNext, clearVars
<1> QED BY <1>1, <1>2, PTL DEF ClearSpec, Spec

(* However many threads there are, and whatever they did before: a clear()  *)
(* during which nobody else is in a call leaves none of the values it found *)
(* behind, neither recently used ones, to which pop() gives a second        *)
(* chance, nor those in bins m_popIterator is already past.                 *)
THEOREM ClearErasesAll ==
  ASSUME MaxRounds >= 1
  PROVE  ClearSpec => []ClearAloneErasesAll
<1>1. ClearInit => AloneInv
  BY DEF ClearInit, Init, AloneInv, ClearRunsAlone
<1>2. TypeOK /\ IInv /\ MutexHeld /\ PopIteratorValid /\ AloneInv /\ [ClearNext]_clearVars
      => AloneInv'
  <2> SUFFICES ASSUME TypeOK, IInv, MutexHeld, PopIteratorValid, AloneInv,
                      [ClearNext]_clearVars
               PROVE  AloneInv'
    OBVIOUS
  <2>1. CASE UNCHANGED clearVars
    <3>1. UNCHANGED <<present, used, popBin, ahead, sentinel, rounds, pc, op, older, alone>>
      BY <2>1 DEF clearVars, vars, storeVars, popVars, callVars
    <3> QED BY <3>1 DEF AloneInv, ClearRunsAlone, OthersIdle, SweptIsEmpty,
              SecondChancesGone, Passed, BinItems
  <2> QED BY <2>1, AloneInvStep
<1>3. AloneInv => ClearAloneErasesAll
  BY DEF AloneInv, ClearAloneErasesAll
<1>4. Spec => [](TypeOK /\ IInv /\ MutexHeld /\ PopIteratorValid)
  BY TypeCorrect, IInvInductive, MutexInvariant, PopIteratorStaysValid, PTL
<1> QED BY <1>1, <1>2, <1>3, <1>4, ClearSpecRefines, PTL DEF ClearSpec

-----------------------------------------------------------------------------
(* Where a call goes on until the cost is within its limit.                 *)
EvictingPCs == {"pop", "lockBin", "scan", "nextBin"}
LimitingPCs == EvictingPCs \cup {"limit", "discardPopped"}
InChargePCs == LimitingPCs \cup {"publish", "readLimit"}

(* No value costs more than the maximum, and limitCost() compares with it.  *)
NoneAboveLimit ==
  /\ \A k \in Keys : cost[k] <= maxCost
  /\ \A t \in Threads : popped[t] <= maxCost
  /\ \A t \in Threads : op[t] # "clear"
  /\ \A t \in Threads : pc[t] \in LimitingPCs => lim[t] = maxCost

(* A thread that wants to pop has something to pop.                         *)
SomethingToPop ==
  /\ \A t \in Threads : pc[t] \in EvictingPCs => present # {}
  /\ \A t, u \in Threads : t # u /\ pc[t] \in EvictingPCs /\ pc[u] \in EvictingPCs =>
       Total(cost, present) > maxCost

(* It is ahead of m_popIterator, no further than emptySentinel.             *)
ItemAhead == \A t \in Threads :
  /\ pc[t] = "scan" => \E k \in present :
       k \in ahead \/ BinOf[k] \in Between(popBin, sentinel) \cup {sentinel}
  /\ pc[t] = "nextBin" => \E k \in present :
       \/ BinOf[k] = popBin
       \/ popBin # sentinel /\ BinOf[k] \in Between(popBin, sentinel) \cup {sentinel}

SomeoneInCharge ==
  currentCost > maxCost => \E t \in Threads : pc[t] \in InChargePCs

KeptInv ==
  keyedOnly => NoneAboveLimit /\ SomethingToPop /\ ItemAhead /\ SomeoneInCharge

AtMostTwoThreads == \A s, t, u \in Threads : s = t \/ s = u \/ t = u

-----------------------------------------------------------------------------
LEMMA BetweenAhead ==
  ASSUME NEW b \in Bins, NEW c \in Bins, NEW d \in Between(b, c) \cup {c}
  PROVE  \/ d = (b + 1) % NumBins
         \/ /\ (b + 1) % NumBins # c
            /\ d \in Between((b + 1) % NumBins, c) \cup {c}
<1> DEFINE n == (b + 1) % NumBins
<1>1. n = IF b + 1 = NumBins THEN 0 ELSE b + 1
  BY NextBin
<1>2. NumBins \in Nat /\ d \in Bins /\ (d # c => IF b < c THEN b < d /\ d < c ELSE d > b \/ d < c)
  BY ConstantsAssumption DEF Between
<1> HIDE DEF n
<1> QED BY <1>1, <1>2 DEF Between, Bins

(* Of two threads, only the other one can carry a popped cost.              *)
LEMMA TwoTotals ==
  ASSUME TypeOK, AtMostTwoThreads, NEW t \in Threads
  PROVE  \/ Total(popped, Threads) = popped[t]
         \/ \E u \in Threads \ {t} : Total(popped, Threads) = popped[t] + popped[u]
<1>1. \A u \in Threads : popped[u] \in Int
  BY DEF TypeOK
<1> DEFINE R == Threads \ {t}
<1>2. /\ Total(popped, Threads) = popped[t] + Total(popped, R)
      /\ IsFiniteSet(R)
  BY <1>1, TotalTakesOut, FiniteThreads, FS_RemoveElement
<1>3. CASE R = {}
  <2>1. Total(popped, R) = 0
    BY <1>3, TotalOfNone
  <2> QED BY <1>1, <1>2, <2>1
<1>4. CASE R # {}
  <2>1. PICK u \in R : TRUE
    BY <1>4
  <2>2. R \ {u} = {}
    BY <2>1 DEF AtMostTwoThreads
  <2>3. \A v \in R : popped[v] \in Int
    BY <1>1
  <2>4. Total(popped, R) = popped[u] + Total(popped, R \ {u})
    <3> HIDE DEF R
    <3> QED BY <1>2, <2>1, <2>3, TotalTakesOut
  <2>5. Total(popped, R \ {u}) = 0
    BY <2>2, TotalOfNone
  <2>6. Total(popped, R) = popped[u]
    <3> HIDE DEF R
    <3> QED BY <2>1, <2>3, <2>4, <2>5
  <2> QED BY <1>2, <2>1, <2>6
<1> QED BY <1>3, <1>4

-----------------------------------------------------------------------------
(* A step of a keyed operation: what it may do to the costs and limits.     *)
LEMMA NoneAboveLimitStep ==
  ASSUME TypeOK, CInv, NoneAboveLimit, NEW u \in Threads, StepOf(u),
         maxCost' = maxCost, \A t \in Threads : op'[t] # "clear",
         PopIteratorValid
  PROVE  NoneAboveLimit'
<1> USE DEF TypeOK, Goto, Return, storeVars, costVars, callVars, LimitingPCs, EvictingPCs
<1>0. maxCost \in Nat
  OBVIOUS
<1>1. CASE Calls(u)
  <2>1. /\ UNCHANGED <<cost, popped, lim>>
        /\ \A t \in Threads : pc'[t] \in LimitingPCs => pc'[t] = pc[t]
    <3>1. CASE CallKeyed(u)
      BY <3>1 DEF CallKeyed, Call
    <3>2. CASE CallClear(u)
      BY <3>2 DEF CallClear, Call
    <3>3. CASE CallSetMaxCost(u)
      BY <3>3 DEF CallSetMaxCost, Call
    <3>4. CASE RaiseMaxCost(u)
      BY <3>4 DEF RaiseMaxCost
    <3> QED BY <1>1, <3>1, <3>2, <3>3, <3>4 DEF Calls
  <2> QED BY <2>1 DEF NoneAboveLimit
<1>2. CASE AcquireStep(u) \/ AcquireCancelled(u)
  <2>1. /\ UNCHANGED cost
        /\ \A t \in Threads : popped'[t] = popped[t] \/ popped'[t] = 0
        /\ \A t \in Threads : pc'[t] \in LimitingPCs => pc'[t] = pc[t] /\ lim'[t] = lim[t]
    <3>1. CASE AcquireMissing(u) \/ AcquireCancelled(u)
      BY <3>1 DEF AcquireMissing, AcquireCancelled
    <3>2. CASE AcquireRetry(u)
      BY <3>2 DEF AcquireRetry
    <3>3. CASE AcquireInsert(u) \/ AcquireRead(u) \/ AcquireWrite(u)
      <4>1. PICK p \in {"discard", "erase", "getter", "touch", "leave"} :
              pc' = [pc EXCEPT ![u] = p]
        BY <3>3, OnAcquiredIsPC DEF AcquireInsert, AcquireRead, AcquireWrite
      <4> QED BY <3>3, <4>1 DEF AcquireInsert, AcquireRead, AcquireWrite
    <3> QED BY <1>2, <3>1, <3>2, <3>3 DEF AcquireStep
  <2> QED BY <1>0, <2>1 DEF NoneAboveLimit
<1>3. CASE EntryStep(u)
  <2>1. /\ \A t \in Threads : popped'[t] = popped[t] \/ popped'[t] = 0
        /\ \A t \in Threads : pc'[t] \in LimitingPCs => pc'[t] = pc[t] /\ lim'[t] = lim[t]
    BY <1>3 DEF EntryStep, GetterReturns, GetterThrows, GetterCancelled, Discard, Store,
       Publish, Touch, Erase, Leave
  <2>2. \A k \in Keys : cost'[k] <= maxCost
    <3>1. CASE Store(u)
      BY <3>1, ConstantsAssumption DEF Store, NoneAboveLimit
    <3>2. CASE Discard(u) \/ Erase(u)
      BY <1>0, <3>2 DEF Discard, Erase, EraseInternal, NoneAboveLimit
    <3> QED
      BY <1>3, <3>1, <3>2 DEF EntryStep, GetterReturns, GetterThrows, GetterCancelled,
         Publish, Touch, Leave, NoneAboveLimit
  <2> QED BY <1>0, <2>1, <2>2 DEF NoneAboveLimit
<1>4. CASE LimitStep(u)
  <2>1. /\ UNCHANGED cost
        /\ \A t \in Threads : popped'[t] = popped[t] \/ popped'[t] = 0
        /\ \A t \in Threads : pc'[t] \in LimitingPCs =>
             \/ pc[t] \in LimitingPCs /\ lim'[t] = lim[t]
             \/ lim'[t] = maxCost
    BY <1>4 DEF LimitStep, ReadLimit, LimitExceeded, LimitMet, DiscardPopped
  <2> QED BY <1>0, <2>1 DEF NoneAboveLimit
<1>5. CASE PopStep(u)
  <2>1. CASE PopVisits(u)
    <3>1. PICK k \in ahead : SkipItem(u, k) \/ SpareItem(u, k) \/ PopItem(u, k)
      BY <2>1 DEF PopVisits
    <3>2. CASE SkipItem(u, k) \/ SpareItem(u, k)
      BY <3>2 DEF SkipItem, SpareItem, NoneAboveLimit
    <3>3. CASE PopItem(u, k)
      <4>1. /\ k \in Keys /\ pc[u] = "scan"
            /\ popped' = [popped EXCEPT ![u] = cost[k]]
            /\ cost' = [cost EXCEPT ![k] = 0]
            /\ pc' = [pc EXCEPT ![u] = "discardPopped"] /\ lim' = lim
        BY <2>1, <3>3 DEF PopVisits, PopItem
      <4> QED BY <1>0, <4>1 DEF NoneAboveLimit
    <3> QED BY <3>1, <3>2, <3>3
  <2>2. CASE ~ PopVisits(u)
    <3>1. /\ UNCHANGED cost
          /\ \A t \in Threads : popped'[t] = popped[t] \/ popped'[t] = 0
          /\ \A t \in Threads : pc'[t] \in LimitingPCs =>
               pc[t] \in LimitingPCs /\ lim'[t] = lim[t]
      BY <1>5, <2>2 DEF PopStep, PopGivesUp, PopTakesMutex, PopLocksBin, PopLeavesBin,
         PopEntersBin, PopFindsNothing
    <3> QED BY <1>0, <3>1 DEF NoneAboveLimit
  <2> QED BY <2>1, <2>2
<1> QED BY <1>1, <1>2, <1>3, <1>4, <1>5 DEF StepOf, Work

-----------------------------------------------------------------------------
(* How a thread gets to pop() ...                                           *)
LEMMA EntersEvicting ==
  ASSUME TypeOK, NEW u \in Threads, StepOf(u), op[u] # "clear", op'[u] # "clear",
         pc[u] \notin EvictingPCs, pc'[u] \in EvictingPCs
  PROVE  LimitExceeded(u)
<1> USE DEF TypeOK, Goto, Return, EvictingPCs
<1>1. CASE Calls(u)
  BY <1>1 DEF Calls, CallKeyed, CallClear, CallSetMaxCost, RaiseMaxCost, Call
<1>2. CASE AcquireStep(u) \/ AcquireCancelled(u)
  <2>1. \E p \in {"discard", "erase", "getter", "touch", "leave", "idle", "acquire"} : pc'[u] = p
    BY <1>2, OnAcquiredIsPC
       DEF AcquireStep, AcquireMissing, AcquireInsert, AcquireRead, AcquireWrite,
           AcquireRetry, AcquireCancelled, Acquiring
  <2> QED BY <2>1
<1>3. CASE EntryStep(u)
  BY <1>3 DEF EntryStep, GetterReturns, GetterThrows, GetterCancelled, Discard, Store,
     Publish, Touch, Erase, Leave
<1>4. CASE LimitStep(u)
  BY <1>4 DEF LimitStep, ReadLimit, LimitMet, DiscardPopped
<1>5. CASE PopStep(u)
  BY <1>5 DEF PopStep, PopGivesUp, PopTakesMutex, PopLocksBin, PopVisits,
     PopLeavesBin, PopEntersBin, PopFindsNothing
<1> QED BY <1>1, <1>2, <1>3, <1>4, <1>5 DEF StepOf, Work

(* ... and what it does there.                                              *)
LEMMA EvictingSteps ==
  ASSUME NEW u \in Threads, StepOf(u), pc[u] \in EvictingPCs
  PROVE  PopStep(u)
<1>1. PopStep(u) \/ DiscardPopped(u)
  BY ClearSteps DEF EvictingPCs, InClear
<1> QED BY <1>1 DEF DiscardPopped, EvictingPCs

(* A thread outside pop() adds an item, or leaves items and iterator alone. *)
LEMMA StepOutsidePop ==
  ASSUME NEW u \in Threads, StepOf(u), pc[u] \notin PoppingPCs
  PROVE  /\ \/ AcquireInsert(u)
            \/ UNCHANGED <<present, ahead>>
         /\ UNCHANGED <<popBin, sentinel>>
<1> USE DEF storeVars, popVars, PoppingPCs
<1>1. CASE Calls(u)
  BY <1>1 DEF Calls, CallKeyed, CallClear, CallSetMaxCost, RaiseMaxCost
<1>2. CASE AcquireStep(u) \/ AcquireCancelled(u)
  BY <1>2 DEF AcquireStep, AcquireMissing, AcquireInsert, AcquireRead, AcquireRetry,
     AcquireWrite, AcquireCancelled
<1>3. CASE EntryStep(u)
  BY <1>3 DEF EntryStep, GetterReturns, GetterThrows, GetterCancelled, Discard, Store,
     Publish, Touch, Erase, Leave
<1>4. CASE LimitStep(u)
  BY <1>4 DEF LimitStep, ReadLimit, LimitExceeded, LimitMet, DiscardPopped
<1>5. CASE PopStep(u)
  BY <1>5 DEF PopStep, PopGivesUp, PopTakesMutex, PopLocksBin, PopVisits,
     PopLeavesBin, PopEntersBin, PopFindsNothing
<1> QED BY <1>1, <1>2, <1>3, <1>4, <1>5 DEF StepOf, Work

(* Only a pop that finds something takes an item away.                      *)
LEMMA PopStepItems ==
  ASSUME TypeOK, PopIteratorValid, NEW u \in Threads, PopStep(u)
  PROVE  \/ UNCHANGED <<present, cost>>
         \/ \E k \in present :
              /\ PopItem(u, k) /\ present' = present \ {k} /\ pc'[u] = "discardPopped"
              /\ pc[u] = "scan"
<1>1. CASE PopVisits(u)
  <2>1. PICK k \in ahead : SkipItem(u, k) \/ SpareItem(u, k) \/ PopItem(u, k)
    BY <1>1 DEF PopVisits
  <2>2. k \in present
    BY DEF PopIteratorValid, BinItems
  <2> QED BY <1>1, <2>1, <2>2 DEF PopVisits, SkipItem, SpareItem, PopItem, Goto, storeVars, TypeOK
<1> QED BY <1>1 DEF PopStep, PopGivesUp, PopTakesMutex, PopLocksBin,
     PopLeavesBin, PopEntersBin, PopFindsNothing, storeVars

LEMMA SomethingToPopStep ==
  ASSUME TypeOK, CInv, MutexHeld, PopIteratorValid, AtMostTwoThreads,
         NoneAboveLimit, SomethingToPop, NEW u \in Threads, StepOf(u),
         \A t \in Threads : op'[t] # "clear"
  PROVE  SomethingToPop'
<1>1. \A t \in Threads \ {u} : pc'[t] = pc[t]
  BY StepsApart
<1>2. \A t \in Threads : popped[t] \in Int /\ popped[t] <= maxCost
  BY DEF TypeOK, NoneAboveLimit
<1>3. ASSUME pc[u] \notin EvictingPCs, pc'[u] \in EvictingPCs
      PROVE  SomethingToPop'
  <2>1. LimitExceeded(u)
    BY <1>3, EntersEvicting DEF NoneAboveLimit
  <2>2. /\ currentCost > maxCost /\ popped[u] = 0 /\ pc[u] = "limit"
        /\ UNCHANGED <<present, cost>>
    BY <2>1 DEF LimitExceeded, storeVars, NoneAboveLimit, LimitingPCs, CInv, CarriesPopped
  <2>3. currentCost = Total(cost, present) + Total(popped, Threads)
    BY DEF CInv, Sums
  <2>4. Total(cost, present) \in Int
    <3>1. IsFiniteSet(present) /\ \A k \in present : cost[k] \in Int
      BY DEF CInv, Sums, TypeOK
    <3> QED BY <3>1, TotalSame
  <2>5. Total(popped, Threads) <= maxCost /\ Total(popped, Threads) \in Int
    <3>1. Total(popped, Threads) = 0 \/ \E v \in Threads : Total(popped, Threads) = popped[v]
      BY <1>2, <2>2, TwoTotals
    <3> QED BY <1>2, <3>1 DEF TypeOK
  <2>6. Total(cost, present) > 0
    BY <2>2, <2>3, <2>4, <2>5 DEF TypeOK
  <2>7. present # {}
    BY <2>6, TotalOfNone
  <2>8. ASSUME NEW t \in Threads \ {u}, pc[t] \in EvictingPCs
        PROVE  Total(cost, present) > maxCost
    <3>1. popped[t] = 0
      BY <2>8 DEF EvictingPCs, CInv, CarriesPopped
    <3>2. \A v \in Threads \ {u} : v = t
      BY <2>8 DEF AtMostTwoThreads
    <3>3. Total(popped, Threads) = 0
      BY <2>2, <3>1, <3>2, TwoTotals
    <3> QED BY <2>2, <2>3, <2>4, <3>3 DEF TypeOK
  <2>9. \A t, v \in Threads : t # v => t = u \/ v = u
    BY DEF AtMostTwoThreads
  <2>10. UNCHANGED <<present, cost>> /\ maxCost' = maxCost
    BY <2>1 DEF LimitExceeded, storeVars, costVars
  <2> QED BY <1>1, <1>3, <2>7, <2>8, <2>9, <2>10 DEF SomethingToPop
<1>4. ASSUME pc[u] \notin EvictingPCs, pc'[u] \notin EvictingPCs
      PROVE  SomethingToPop'
  <2>1. present \subseteq present'
    <3>1. pc[u] \notin PoppingPCs
      BY <1>4 DEF EvictingPCs, PoppingPCs
    <3> QED BY <3>1, StepOutsidePop DEF AcquireInsert
  <2>2. \A t, v \in Threads : t # v => t = u \/ v = u
    BY DEF AtMostTwoThreads
  <2> QED BY <1>1, <1>4, <2>1, <2>2 DEF SomethingToPop
<1>5. ASSUME pc[u] \in EvictingPCs
      PROVE  SomethingToPop'
  <2>1. PopStep(u)
    BY <1>5, EvictingSteps
  <2>2. maxCost' = maxCost
    BY <2>1 DEF PopStep, PopGivesUp, PopTakesMutex, PopLocksBin, PopVisits, SkipItem,
       SpareItem, PopItem, PopLeavesBin, PopEntersBin, PopFindsNothing, costVars
  <2>3. CASE UNCHANGED <<present, cost>>
    <3>1. present' = present /\ Total(cost, present)' = Total(cost, present)
      BY <2>3
    <3> QED BY <1>1, <1>5, <2>2, <3>1 DEF SomethingToPop
  <2>4. ASSUME NEW k \in present, PopItem(u, k), present' = present \ {k},
               pc'[u] = "discardPopped", pc[u] = "scan"
        PROVE  SomethingToPop'
    <3>1. \A t, v \in Threads : t # v => t = u \/ v = u
      BY DEF AtMostTwoThreads
    <3>2. ASSUME NEW t \in Threads, pc'[t] \in EvictingPCs
          PROVE  present' # {}
      <4>1. t # u /\ pc[t] \in EvictingPCs
        BY <1>1, <2>4, <3>2 DEF EvictingPCs
      <4>2. Total(cost, present) > maxCost
        BY <1>5, <4>1 DEF SomethingToPop
      <4>3. IsFiniteSet(present) /\ \A j \in present : cost[j] \in Int
        BY DEF CInv, Sums, TypeOK
      <4>4. /\ Total(cost, present) = cost[k] + Total(cost, present \ {k})
            /\ Total(cost, present \ {k}) \in Int
        BY <4>3, TotalTakesOut
      <4>5. cost[k] <= maxCost /\ cost[k] \in Nat /\ maxCost \in Nat
        BY DEF NoneAboveLimit, TypeOK
      <4>6. Total(cost, present \ {k}) # 0
        BY <4>2, <4>4, <4>5
      <4> QED BY <2>4, <4>6, TotalOfNone
    <3>3. pc'[u] \notin EvictingPCs
      BY <2>4 DEF EvictingPCs
    <3> QED BY <3>1, <3>2, <3>3 DEF SomethingToPop
  <2> QED BY <2>1, <2>3, <2>4, PopStepItems
<1> QED BY <1>3, <1>4, <1>5

LEMMA ItemAheadStep ==
  ASSUME TypeOK, MutexHeld, PopIteratorValid, SomethingToPop, ItemAhead,
         NEW u \in Threads, StepOf(u)
  PROVE  ItemAhead'
<1>1. \A t \in Threads \ {u} : pc'[t] = pc[t]
  BY StepsApart
<1>2. ASSUME NEW t \in Threads \ {u}, pc[t] \in {"scan", "nextBin"}
      PROVE  /\ pc[t] = "scan" => \E k \in present' :
                  k \in ahead' \/ BinOf[k] \in Between(popBin', sentinel') \cup {sentinel'}
             /\ pc[t] = "nextBin" => \E k \in present' :
                  \/ BinOf[k] = popBin'
                  \/ popBin' # sentinel'
                     /\ BinOf[k] \in Between(popBin', sentinel') \cup {sentinel'}
  <2>1. pc[u] \notin PoppingPCs
    BY <1>2 DEF MutexHeld, PoppingPCs
  <2>2. UNCHANGED <<popBin, sentinel>> /\ (AcquireInsert(u) \/ UNCHANGED <<present, ahead>>)
    BY <2>1, StepOutsidePop
  <2>3. present \subseteq present'
    BY <2>2 DEF AcquireInsert
  <2>4. ahead # {} => \E k \in present' : k \in ahead'
    <3>1. CASE AcquireInsert(u)
      <4>1. ahead' \in AheadAfterInsert(key[u]) /\ present' = present \cup {key[u]}
        BY <3>1 DEF AcquireInsert
      <4> QED BY <4>1 DEF AheadAfterInsert, BinItems, PopIteratorValid
    <3>2. CASE UNCHANGED <<present, ahead>>
      BY <3>2 DEF PopIteratorValid, BinItems
    <3> QED BY <2>2, <3>1, <3>2
  <2>5. CASE pc[t] = "scan"
    <3>1. PICK k \in present : k \in ahead \/ BinOf[k] \in Between(popBin, sentinel) \cup {sentinel}
      BY <2>5 DEF ItemAhead
    <3> QED BY <2>2, <2>3, <2>4, <2>5, <3>1
  <2>6. CASE pc[t] = "nextBin"
    BY <2>2, <2>3, <2>6 DEF ItemAhead
  <2> QED BY <1>2, <2>5, <2>6
<1>3. ASSUME pc'[u] \in {"scan", "nextBin"}
      PROVE  /\ pc'[u] = "scan" => \E k \in present' :
                  k \in ahead' \/ BinOf[k] \in Between(popBin', sentinel') \cup {sentinel'}
             /\ pc'[u] = "nextBin" => \E k \in present' :
                  \/ BinOf[k] = popBin'
                  \/ popBin' # sentinel'
                     /\ BinOf[k] \in Between(popBin', sentinel') \cup {sentinel'}
  <2> USE DEF TypeOK, Goto, storeVars
  <2>0. pc[u] \in EvictingPCs
    <3>1. CASE Calls(u)
      BY <1>3, <3>1 DEF Calls, CallKeyed, CallClear, CallSetMaxCost, RaiseMaxCost, Call
    <3>2. CASE AcquireStep(u) \/ AcquireCancelled(u)
      <4>1. \E p \in {"discard", "erase", "getter", "touch", "leave", "idle", "acquire"} : pc'[u] = p
        BY <3>2, OnAcquiredIsPC
           DEF AcquireStep, AcquireMissing, AcquireInsert, AcquireRead, AcquireWrite,
               AcquireRetry, AcquireCancelled, Acquiring, Return
      <4> QED BY <1>3, <4>1
    <3>3. CASE EntryStep(u)
      BY <1>3, <3>3 DEF EntryStep, GetterReturns, GetterThrows, GetterCancelled, Discard,
         Store, Publish, Touch, Erase, Leave, Return
    <3>4. CASE LimitStep(u)
      BY <1>3, <3>4 DEF LimitStep, ReadLimit, LimitExceeded, LimitMet, DiscardPopped, Return
    <3>5. CASE PopStep(u)
      BY <3>5 DEF PopStep, PopGivesUp, PopTakesMutex, PopLocksBin, PopVisits,
         PopLeavesBin, PopEntersBin, PopFindsNothing, EvictingPCs
    <3> QED BY <3>1, <3>2, <3>3, <3>4, <3>5 DEF StepOf, Work
  <2>1. PopStep(u) /\ present # {}
    BY <2>0, EvictingSteps DEF SomethingToPop
  <2>2. \A k \in present : BinOf[k] \in Bins
    BY ConstantsAssumption
  <2>3. CASE PopLocksBin(u) \/ (PopVisits(u) /\ pc'[u] = "scan")
    <3>1. pc'[u] = "scan" /\ sentinel' = popBin /\ UNCHANGED <<present, popBin>>
      BY <2>3 DEF PopLocksBin, PopVisits, SkipItem, SpareItem, PopItem
    <3>2. \A k \in present : BinOf[k] \in Between(popBin, popBin) \cup {popBin}
      BY <2>2, BetweenSame
    <3> QED BY <2>1, <3>1, <3>2
  <2>4. CASE PopLeavesBin(u)
    <3>1. /\ pc[u] = "scan" /\ ahead = {} /\ popBin' = (popBin + 1) % NumBins
          /\ pc'[u] = "nextBin"
          /\ UNCHANGED <<present, sentinel>>
      BY <2>4 DEF PopLeavesBin
    <3>2. PICK k \in present : BinOf[k] \in Between(popBin, sentinel) \cup {sentinel}
      BY <3>1 DEF ItemAhead
    <3>3. \/ BinOf[k] = popBin'
          \/ popBin' # sentinel /\ BinOf[k] \in Between(popBin', sentinel) \cup {sentinel}
      BY <3>1, <3>2, BetweenAhead
    <3> QED BY <3>1, <3>3
  <2>5. CASE PopEntersBin(u)
    <3>1. /\ pc[u] = "nextBin" /\ ahead' = BinItems(popBin) /\ pc'[u] = "scan"
          /\ UNCHANGED <<present, popBin, sentinel>>
      BY <2>5 DEF PopEntersBin
    <3>2. PICK k \in present :
            \/ BinOf[k] = popBin
            \/ popBin # sentinel /\ BinOf[k] \in Between(popBin, sentinel) \cup {sentinel}
      BY <3>1 DEF ItemAhead
    <3> QED BY <3>1, <3>2 DEF BinItems
  <2> QED
    BY <1>3, <2>1, <2>3, <2>4, <2>5
       DEF PopStep, PopGivesUp, PopTakesMutex, PopFindsNothing, PopVisits, SkipItem,
           SpareItem, PopItem, Return
<1> QED BY <1>1, <1>2, <1>3 DEF ItemAhead

(* The cost only grows under a thread that will look at the limit.          *)
LEMMA CostGrows ==
  ASSUME TypeOK, NEW u \in Threads, StepOf(u), pc'[u] \notin InChargePCs
  PROVE  currentCost' \in Int /\ currentCost' <= currentCost
<1> USE DEF TypeOK, Goto, costVars
<1>1. CASE Calls(u)
  BY <1>1 DEF Calls, CallKeyed, CallClear, CallSetMaxCost, RaiseMaxCost
<1>2. CASE AcquireStep(u) \/ AcquireCancelled(u)
  BY <1>2 DEF AcquireStep, AcquireMissing, AcquireInsert, AcquireRead, AcquireRetry,
     AcquireWrite, AcquireCancelled
<1>3. CASE EntryStep(u)
  <2>1. ~ Store(u)
    BY DEF Store, InChargePCs
  <2>2. cost[key[u]] \in Nat
    OBVIOUS
  <2> QED
    BY <1>3, <2>1, <2>2 DEF EntryStep, GetterReturns, GetterThrows, GetterCancelled,
       Discard, Publish, Touch, Erase, Leave, EraseInternal
<1>4. CASE LimitStep(u)
  <2>1. popped[u] \in Nat
    OBVIOUS
  <2> QED BY <1>4, <2>1 DEF LimitStep, ReadLimit, LimitExceeded, LimitMet, DiscardPopped
<1>5. CASE PopStep(u)
  BY <1>5 DEF PopStep, PopGivesUp, PopTakesMutex, PopLocksBin, PopVisits, SkipItem,
     SpareItem, PopItem, PopLeavesBin, PopEntersBin, PopFindsNothing
<1> QED BY <1>1, <1>2, <1>3, <1>4, <1>5 DEF StepOf, Work

LEMMA LeavesCharge ==
  ASSUME TypeOK, NEW u \in Threads, StepOf(u), pc[u] \in InChargePCs, pc'[u] \notin InChargePCs
  PROVE  LimitMet(u) \/ PopGivesUp(u) \/ PopFindsNothing(u)
<1> USE DEF TypeOK, Goto, InChargePCs, LimitingPCs, EvictingPCs
<1>1. CASE Calls(u)
  BY <1>1 DEF Calls, CallKeyed, CallClear, CallSetMaxCost, RaiseMaxCost, Call
<1>2. CASE AcquireStep(u) \/ AcquireCancelled(u)
  BY <1>2 DEF AcquireStep, AcquireMissing, AcquireInsert, AcquireRead, AcquireRetry,
     AcquireWrite, AcquireCancelled, Acquiring
<1>3. CASE EntryStep(u)
  BY <1>3 DEF EntryStep, GetterReturns, GetterThrows, GetterCancelled, Discard, Store,
     Publish, Touch, Erase, Leave
<1>4. CASE LimitStep(u)
  BY <1>4 DEF LimitStep, ReadLimit, LimitExceeded, DiscardPopped
<1>5. CASE PopStep(u)
  BY <1>5 DEF PopStep, PopTakesMutex, PopLocksBin, PopVisits, SkipItem,
     SpareItem, PopItem, PopLeavesBin, PopEntersBin
<1> QED BY <1>1, <1>2, <1>3, <1>4, <1>5 DEF StepOf, Work

LEMMA SomeoneInChargeStep ==
  ASSUME TypeOK, MutexHeld, NoneAboveLimit, ItemAhead, SomeoneInCharge,
         NEW u \in Threads, StepOf(u), maxCost' = maxCost, ~ StopsCircling(u)
  PROVE  SomeoneInCharge'
<1> SUFFICES ASSUME currentCost' > maxCost, pc'[u] \notin InChargePCs
             PROVE  \E t \in Threads : pc'[t] \in InChargePCs
  BY DEF SomeoneInCharge
<1>1. \A t \in Threads \ {u} : pc'[t] = pc[t]
  BY StepsApart
<1>2. currentCost > maxCost
  BY CostGrows DEF TypeOK
<1>3. PICK t \in Threads : pc[t] \in InChargePCs
  BY <1>2 DEF SomeoneInCharge
<1>4. CASE t # u
  BY <1>1, <1>3, <1>4
<1>5. CASE t = u
  <2>1. CASE LimitMet(u)
    BY <1>2, <2>1 DEF LimitMet, NoneAboveLimit, LimitingPCs, TypeOK
  <2>2. CASE PopGivesUp(u)
    <3>1. PICK v \in popper : pc[u] = "pop"
      BY <2>2 DEF PopGivesUp
    <3>2. v \in Threads /\ v # u /\ pc[v] \in PoppingPCs
      BY <3>1 DEF MutexHeld, TypeOK, PoppingPCs
    <3> QED BY <1>1, <3>2 DEF InChargePCs, LimitingPCs, EvictingPCs, PoppingPCs
  <2>3. CASE PopFindsNothing(u)
    <3>1. pc[u] = "nextBin" /\ pc'[u] = "idle"
      BY <2>3 DEF PopFindsNothing, Return, Goto, TypeOK
    <3>2. ~ FullCircle
      BY <3>1 DEF ItemAhead, FullCircle, BinItems, TypeOK
    <3>3. rounds > MaxRounds
      BY <2>3, <3>2 DEF PopFindsNothing, RoundsExhausted
    <3> QED BY <3>1, <3>3 DEF StopsCircling
  <2> QED BY <1>3, <1>5, <2>1, <2>2, <2>3, LeavesCharge
<1> QED BY <1>4, <1>5

(* Of two threads that only use keyed operations, one is still in charge as *)
(* long as the cache is above its limit.  The invariant behind this: a      *)
(* thread in pop() always has an item ahead of it, because two threads only *)
(* meet in pop() when the entries in the bins alone are above the limit, so *)
(* that the first to take one away leaves another; nobody else takes items  *)
(* out of bins.                                                             *)
THEOREM TwoKeepTheLimit ==
  ASSUME AtMostTwoThreads
  PROVE  ClearSpec => []TwoKeepLimit
<1>1. ClearInit => KeptInv
  <2> SUFFICES ASSUME Init PROVE KeptInv
    BY DEF ClearInit
  <2>1. NoneAboveLimit
    BY ConstantsAssumption DEF Init, NoneAboveLimit, LimitingPCs, EvictingPCs
  <2>2. SomethingToPop /\ ItemAhead
    BY DEF Init, SomethingToPop, ItemAhead, EvictingPCs
  <2>3. SomeoneInCharge
    BY ConstantsAssumption DEF Init, SomeoneInCharge
  <2> QED BY <2>1, <2>2, <2>3 DEF KeptInv
<1>2. TypeOK /\ CInv /\ MutexHeld /\ PopIteratorValid /\ KeptInv /\ [ClearNext]_clearVars
      => KeptInv'
  <2> SUFFICES ASSUME TypeOK, CInv, MutexHeld, PopIteratorValid, KeptInv,
                      [ClearNext]_clearVars, keyedOnly'
               PROVE  (NoneAboveLimit /\ SomethingToPop /\ ItemAhead /\ SomeoneInCharge)'
    BY DEF KeptInv
  <2>1. CASE ClearNext
    <3>1. /\ keyedOnly /\ maxCost' = maxCost
          /\ \A t \in Threads : op'[t] # "clear" /\ ~ StopsCircling(t)
      BY <2>1 DEF ClearNext
    <3>2. NoneAboveLimit /\ SomethingToPop /\ ItemAhead /\ SomeoneInCharge
      BY <3>1 DEF KeptInv
    <3>3. PICK u \in Threads : StepOf(u)
      BY <2>1 DEF ClearNext, Next, StepOf
    <3>4. NoneAboveLimit'
      BY <3>1, <3>2, <3>3, NoneAboveLimitStep
    <3>5. SomethingToPop'
      BY <3>1, <3>2, <3>3, SomethingToPopStep
    <3>6. ItemAhead'
      BY <3>2, <3>3, ItemAheadStep
    <3>7. SomeoneInCharge'
      BY <3>1, <3>2, <3>3, SomeoneInChargeStep
    <3> QED BY <3>4, <3>5, <3>6, <3>7
  <2>2. CASE UNCHANGED clearVars
    <3>1. UNCHANGED <<vars, keyedOnly>>
      BY <2>2 DEF clearVars
    <3>2. NoneAboveLimit /\ SomethingToPop /\ ItemAhead /\ SomeoneInCharge
      BY <3>1 DEF KeptInv
    <3> QED BY <3>1, <3>2 DEF NoneAboveLimit, SomethingToPop, ItemAhead, SomeoneInCharge,
              vars, storeVars, costVars, popVars, callVars
  <2> QED BY <2>1, <2>2
<1>3. TypeOK /\ KeptInv => TwoKeepLimit
  BY DEF TypeOK, KeptInv, SomeoneInCharge, TwoKeepLimit, WithinLimitAtRest, InChargePCs,
     LimitingPCs, EvictingPCs
<1>4. Spec => [](TypeOK /\ CInv /\ MutexHeld /\ PopIteratorValid)
  BY TypeCorrect, CInvInductive, MutexInvariant, PopIteratorStaysValid, PTL
<1> QED BY <1>1, <1>2, <1>3, <1>4, ClearSpecRefines, PTL DEF ClearSpec

=============================================================================
