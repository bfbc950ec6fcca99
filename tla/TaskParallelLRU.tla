-------------------------- MODULE TaskParallelLRU --------------------------
(***************************************************************************)
(* LRUCache::get() over the TaskParallel policy: a thread that waits for   *)
(* an entry works on the tasks its getter has spawned, in an arena of the  *)
(* entry's TaskMutex, and such a task may get entries itself, the one      *)
(* being computed included.                                                *)
(*                                                                         *)
(* A thread is a stack of calls of get(): the lowest is its own, those     *)
(* above it are made by tasks it took while waiting in the call below.  A  *)
(* read lock is given back in the step that took it, as what is done with  *)
(* it waits for nothing; the spin locks of bins and of the execution state *)
(* cover single steps.  The bins, the order of pop() and costs other than  *)
(* 1 are those of the Parallel policy and are left to ParallelLRU.         *)
(***************************************************************************)
EXTENDS Integers, Sequences, FiniteSets

CONSTANTS
  Callers,    (* the threads that call get()                                *)
  Workers,    (* threads of TBB that only take tasks                        *)
  NoThread,   (* what is none of them                                       *)
  Keys,
  NoKey,      (* what is none of them                                       *)
  Tasks,      (* Tasks[k]: the tasks the getter of k spawns                 *)
  Needs,      (* Needs[n]: the key task n gets, or NoKey                    *)
  MaxEntries, (* maxCost, every entry costing 1                             *)
  Budget      (* a bound on the calls made                                  *)

Threads == Callers \cup Workers

ASSUME TaskParallelAssumption ==
  /\ NoThread \notin Threads /\ NoKey \notin Keys
  /\ DOMAIN Tasks = Keys
  /\ \A k \in Keys : \A n \in Tasks[k] : Needs[n] \in Keys \cup {NoKey}
  /\ MaxEntries \in Nat \ {0} /\ Budget \in Nat

VARIABLES
  item,       (* item[k]: "absent", or the status of k's entry              *)
  writer,     (* writer[k]: who holds the write lock of k's TaskMutex       *)
  executing,  (* executing[k]: its m_executionState is set                  *)
  pending,    (* pending[k]: the tasks of k's getter nobody has taken       *)
  stack,      (* stack[t]: the calls t is in                                *)
  calls       (* how many calls may still be made                           *)

vars == <<item, writer, executing, pending, stack, calls>>

-----------------------------------------------------------------------------
(* Calls.  "write" says that the call has seen the entry empty and retries  *)
(* as InsertWritable; "task" is the key whose getter has spawned the task   *)
(* that makes the call.                                                     *)
Get(k, task) == [pc |-> "acquire", key |-> k, write |-> FALSE, task |-> task]
Leaf(task) == [pc |-> "leaf", key |-> NoKey, write |-> FALSE, task |-> task]

Depth(t) == Len(stack[t])
Top(t) == stack[t][Depth(t)]
At(t, p) == stack[t] # <<>> /\ Top(t).pc = p

Push(t, call) == stack' = [stack EXCEPT ![t] = Append(@, call)]
Goto(t, p) == stack' = [stack EXCEPT ![t][Depth(t)].pc = p]
Return(t) == stack' = [stack EXCEPT ![t] = SubSeq(@, 1, Len(@) - 1)]

(* The task that was spawned as n by the getter of k.                       *)
CallOf(k, n) == IF Needs[n] = NoKey THEN Leaf(k) ELSE Get(Needs[n], k)

InCall(t, k, i) == stack[t][i].key = k /\ stack[t][i].pc \in {"execute", "inside"}

(* An observer that does not see the thread that calls execute().           *)
InArenaAsHelper(t, k) ==
  \E i \in DOMAIN stack[t] : stack[t][i].key = k /\ stack[t][i].pc = "inside"

(* ArenaObserver::containsThisThread(): the threads that wait in the arena  *)
(* and those that run one of its tasks.                                     *)
InArena(t, k) == \E i \in DOMAIN stack[t] : stack[t][i].task = k \/ InCall(t, k, i)

(* A group that does not count the tasks that were taken.                   *)
DoneWhenTaken(k) == pending[k] = {}

Running(k) == {t \in Threads : \E i \in DOMAIN stack[t] : stack[t][i].task = k}

(* No task of k's getter is waiting or running: task_group::wait() returns. *)
Done(k) == pending[k] = {} /\ Running(k) = {}

Init ==
  /\ item = [k \in Keys |-> "absent"]
  /\ writer = [k \in Keys |-> NoThread]
  /\ executing = [k \in Keys |-> FALSE]
  /\ pending = [k \in Keys |-> {}]
  /\ stack = [t \in Threads |-> <<>>]
  /\ calls = Budget

Call(t) == \E k \in Keys :
  /\ t \in Callers /\ stack[t] = <<>> /\ calls > 0
  /\ Push(t, Get(k, NoKey))
  /\ calls' = calls - 1
  /\ UNCHANGED <<item, writer, executing, pending>>

-----------------------------------------------------------------------------
(* Handle::acquire() and TaskMutex::ScopedLock::acquireOr().                *)

(* The lock is taken in passing; what is found is returned or thrown.       *)
AcquireHit(t) ==
  LET k == Top(t).key IN
  /\ At(t, "acquire") /\ ~Top(t).write
  /\ writer[k] = NoThread /\ item[k] \in {"cached", "failed"}
  /\ Return(t)
  /\ UNCHANGED <<item, writer, executing, pending, calls>>

(* The read lock is upgraded without regard to other readers.               *)
AcquireUpgrade(t) ==
  LET k == Top(t).key IN
  /\ At(t, "acquire") /\ ~Top(t).write
  /\ writer[k] = NoThread /\ item[k] = "uncached"
  /\ Goto(t, "locked")
  /\ UNCHANGED <<item, writer, executing, pending, calls>>

(* An old item without a value: the read lock is given back, and the call   *)
(* tries again for a write lock.                                            *)
AcquireRetry(t) ==
  LET k == Top(t).key IN
  /\ At(t, "acquire") /\ ~Top(t).write
  /\ writer[k] = NoThread /\ item[k] = "uncached"
  /\ stack' = [stack EXCEPT ![t][Depth(t)].write = TRUE]
  /\ UNCHANGED <<item, writer, executing, pending, calls>>

AcquireWrite(t) ==
  LET k == Top(t).key IN
  /\ At(t, "acquire") /\ (Top(t).write \/ item[k] = "absent")
  /\ writer[k] = NoThread
  /\ writer' = [writer EXCEPT ![k] = t]
  /\ item' = [item EXCEPT ![k] = IF @ = "absent" THEN "uncached" ELSE @]
  /\ Goto(t, "locked")
  /\ UNCHANGED <<executing, pending, calls>>

(* The lock is taken, but this thread works for who has it: a WorkerRead    *)
(* lock, under which the getter is run again, and nothing stored.           *)
MayNest(t) ==
  LET k == Top(t).key IN ~Top(t).write /\ executing[k] /\ InArena(t, k)

AcquireNested(t) ==
  /\ At(t, "acquire") /\ writer[Top(t).key] # NoThread
  /\ MayNest(t)
  /\ Goto(t, "nested")
  /\ UNCHANGED <<item, writer, executing, pending, calls>>

NestedReturns(t) ==
  /\ At(t, "nested")
  /\ Return(t)
  /\ UNCHANGED <<item, writer, executing, pending, calls>>

(* There is work, and the caller has not been cancelled.  Without work the  *)
(* lock is tried again, which changes nothing.                              *)
AcceptWork(t) ==
  LET k == Top(t).key IN
  /\ At(t, "acquire") /\ writer[k] # NoThread
  /\ ~MayNest(t) /\ executing[k]
  /\ Goto(t, "join")
  /\ UNCHANGED <<item, writer, executing, pending, calls>>

(* The check of the canceller after every turn without the lock.            *)
Cancelled(t) ==
  /\ \/ At(t, "acquire") /\ writer[Top(t).key] # NoThread /\ ~MayNest(t)
     \/ At(t, "inside") /\ Done(Top(t).key)
  /\ Return(t)
  /\ UNCHANGED <<item, writer, executing, pending, calls>>

JoinArena(t) ==
  /\ At(t, "join")
  /\ Goto(t, "inside")
  /\ UNCHANGED <<item, writer, executing, pending, calls>>

(* A thread that waits in an arena takes a task of that arena, no other.    *)
TakeTask(t) ==
  LET k == Top(t).key IN
  /\ At(t, "execute") \/ At(t, "inside")
  /\ \E n \in pending[k] :
       /\ pending' = [pending EXCEPT ![k] = @ \ {n}]
       /\ Push(t, CallOf(k, n))
  /\ UNCHANGED <<item, writer, executing, calls>>

WorkerTakesTask(t) == \E k \in Keys : \E n \in pending[k] :
  /\ t \in Workers /\ stack[t] = <<>>
  /\ pending' = [pending EXCEPT ![k] = @ \ {n}]
  /\ Push(t, CallOf(k, n))
  /\ UNCHANGED <<item, writer, executing, calls>>

LeafReturns(t) ==
  /\ At(t, "leaf")
  /\ Return(t)
  /\ UNCHANGED <<item, writer, executing, pending, calls>>

LeaveArena(t) ==
  /\ At(t, "inside") /\ Done(Top(t).key)
  /\ Goto(t, "acquire")
  /\ UNCHANGED <<item, writer, executing, pending, calls>>

-----------------------------------------------------------------------------
(* get() with the write lock.                                               *)

Unlock(k) == writer' = [writer EXCEPT ![k] = NoThread]

(* Somebody else has filled the entry since it was seen empty.              *)
FoundFilled(t) ==
  LET k == Top(t).key IN
  /\ At(t, "locked") /\ item[k] # "uncached"
  /\ Unlock(k)
  /\ Return(t)
  /\ UNCHANGED <<item, executing, pending, calls>>

(* The getter is called without a second look at the entry.                 *)
ComputeAgain(t) ==
  /\ At(t, "locked") /\ Tasks[Top(t).key] = {}
  /\ Goto(t, "computed")
  /\ UNCHANGED <<item, writer, executing, pending, calls>>

(* A getter that spawns no tasks is called as it is.                        *)
ComputeAlone(t) ==
  LET k == Top(t).key IN
  /\ At(t, "locked") /\ item[k] = "uncached"
  /\ Tasks[k] = {}
  /\ Goto(t, "computed")
  /\ UNCHANGED <<item, writer, executing, pending, calls>>

(* TaskMutex::ScopedLock::execute(), from the new execution state to the    *)
(* one that is given up.                                                    *)
BeginExecute(t) ==
  LET k == Top(t).key IN
  /\ At(t, "locked") /\ item[k] = "uncached"
  /\ Tasks[k] # {}
  /\ executing' = [executing EXCEPT ![k] = TRUE]
  /\ Goto(t, "spawn")
  /\ UNCHANGED <<item, writer, pending, calls>>

(* Tasks that nobody spawned.                                               *)
RunGetterOfAll(t) ==
  /\ At(t, "spawn")
  /\ pending' = [pending EXCEPT ![Top(t).key] = UNION {Tasks[k] : k \in Keys}]
  /\ Goto(t, "execute")
  /\ UNCHANGED <<item, writer, executing, calls>>

RunGetter(t) ==
  /\ At(t, "spawn")
  /\ pending' = [pending EXCEPT ![Top(t).key] = Tasks[Top(t).key]]
  /\ Goto(t, "execute")
  /\ UNCHANGED <<item, writer, executing, calls>>

(* Who has the old state, or is still in its arena, finds nothing to do     *)
(* there, and goes back to trying the lock.                                 *)
SentBack(call, k) ==
  IF call.key = k /\ call.pc \in {"join", "inside"} THEN [call EXCEPT !.pc = "acquire"] ELSE call

EndExecute(t) ==
  LET k == Top(t).key IN
  /\ At(t, "execute") /\ Done(k)
  /\ executing' = [executing EXCEPT ![k] = FALSE]
  /\ stack' = [u \in Threads |->
       IF u = t THEN [stack[t] EXCEPT ![Depth(t)].pc = "computed"]
       ELSE [i \in DOMAIN stack[u] |-> SentBack(stack[u][i], k)]]
  /\ UNCHANGED <<item, writer, pending, calls>>

(* The getter has returned a value or thrown, or it was cancelled.          *)
Store(t) == \E s \in {"cached", "failed"} :
  /\ At(t, "computed")
  /\ item' = [item EXCEPT ![Top(t).key] = s]
  /\ Goto(t, "stored")
  /\ UNCHANGED <<writer, executing, pending, calls>>

GetterCancelled(t) ==
  /\ At(t, "computed")
  /\ Unlock(Top(t).key)
  /\ Return(t)
  /\ UNCHANGED <<item, executing, pending, calls>>

(* A getter that throws leaves its entry locked.                            *)
ReleaseValue(t) ==
  LET k == Top(t).key IN
  /\ At(t, "stored")
  /\ IF item[k] = "cached" THEN Unlock(k) /\ Goto(t, "limit")
     ELSE UNCHANGED writer /\ Return(t)
  /\ UNCHANGED <<item, executing, pending, calls>>

Release(t) ==
  LET k == Top(t).key IN
  /\ At(t, "stored")
  /\ Unlock(k)
  /\ IF item[k] = "cached" THEN Goto(t, "limit") ELSE Return(t)
  /\ UNCHANGED <<item, executing, pending, calls>>

(* limitCost(): pop() takes an item whose lock it gets; it gives up when    *)
(* another thread is popping or there is no such item.                      *)
Cached == {k \in Keys : item[k] = "cached"}
Poppable == {k \in Keys : item[k] # "absent" /\ writer[k] = NoThread}

Pop(t) == \E k \in Poppable :
  /\ At(t, "limit") /\ Cardinality(Cached) > MaxEntries
  /\ item' = [item EXCEPT ![k] = "absent"]
  /\ UNCHANGED <<writer, executing, pending, stack, calls>>

Limited(t) ==
  /\ At(t, "limit")
  /\ \/ Cardinality(Cached) <= MaxEntries \/ Poppable = {}
     \/ \E u \in Threads \ {t} : At(u, "limit")
  /\ Return(t)
  /\ UNCHANGED <<item, writer, executing, pending, calls>>

-----------------------------------------------------------------------------
Acquire(t) ==
  \/ AcquireHit(t) \/ AcquireRetry(t) \/ AcquireWrite(t)
  \/ AcquireNested(t) \/ NestedReturns(t)

Help(t) ==
  \/ AcceptWork(t) \/ JoinArena(t)
  \/ TakeTask(t) \/ LeafReturns(t) \/ LeaveArena(t)

Compute(t) ==
  \/ FoundFilled(t) \/ ComputeAlone(t)
  \/ BeginExecute(t) \/ RunGetter(t) \/ EndExecute(t)
  \/ Store(t) \/ GetterCancelled(t) \/ Release(t)
  \/ Pop(t) \/ Limited(t)

Work(t) == Acquire(t) \/ Help(t) \/ Compute(t)

Next == \E t \in Threads :
  Call(t) \/ Work(t) \/ Cancelled(t) \/ WorkerTakesTask(t)

Spec == Init /\ [][Next]_vars

(* Every thread that is in a call keeps running; nobody has to call, to     *)
(* cancel, or to be given to an arena as a worker.                          *)
FairSpec == Spec /\ \A t \in Threads : WF_vars(Work(t))

-----------------------------------------------------------------------------
WritingPCs == {"locked", "spawn", "execute", "computed", "stored"}
PCs == WritingPCs \cup {"acquire", "nested", "join", "inside", "limit", "leaf"}

CallRecords ==
  [pc : PCs, key : Keys \cup {NoKey}, write : BOOLEAN, task : Keys \cup {NoKey}]

(* Every variable has a value of its kind.                                  *)
TypeOK ==
  /\ item \in [Keys -> {"absent", "uncached", "cached", "failed"}]
  /\ writer \in [Keys -> Threads \cup {NoThread}]
  /\ executing \in [Keys -> BOOLEAN]
  /\ pending \in [Keys -> SUBSET (UNION {Tasks[k] : k \in Keys})]
  /\ \A t \in Threads : stack[t] \in Seq(CallRecords)
  /\ calls \in Nat
  /\ \A k \in Keys : pending[k] \subseteq Tasks[k]

(* Everybody's calls at one of the positions.                               *)
CallsAt(k, pcs) == UNION {
  {t} \X {i \in DOMAIN stack[t] : stack[t][i].key = k /\ stack[t][i].pc \in pcs} : t \in Threads}

(* An entry is computed by one call, which has its write lock, however deep *)
(* in whose stack it is, and finds the entry still empty when it has the    *)
(* value: "this would indicate that another thread somehow loaded the same  *)
(* thing as us, which is not the intention" (LRUCache.inl:1133-1134).       *)
SingleFlight == \A k \in Keys :
  LET w == CallsAt(k, WritingPCs)
  IN /\ Cardinality(w) <= 1
     /\ writer[k] = NoThread <=> w = {}
     /\ \A c \in w : c[1] = writer[k]
     /\ CallsAt(k, {"spawn", "execute", "computed"}) # {} => item[k] = "uncached"

(* "These readers are protected only by the original write lock held by the *)
(* caller of execute()" (TaskMutex.h:237-239): while a call has a           *)
(* WorkerRead lock the write lock is held by a thread that is waiting for   *)
(* the tasks, and the entry cannot be stored or destroyed.                  *)
WorkerReadProtected == \A k \in Keys :
  CallsAt(k, {"nested"}) # {} => executing[k] /\ CallsAt(k, {"execute"}) # {}

(* A thread never waits for tasks among which is one it is in the middle    *)
(* of: "we use this to detect recursion" (TaskMutex.h:341-343).             *)
NeverWaitsForItself == \A t \in Threads : \A i \in DOMAIN stack[t] :
  stack[t][i].pc \in {"join", "inside"}
    => \A j \in 1 .. i - 1 :
         stack[t][j + 1].task # stack[t][i].key /\ ~InCall(t, stack[t][i].key, j)

(* "threads waiting on the cache can still perform useful work", and get    *)
(* back: every call returns, whoever works for whom.  The callers are       *)
(* alike, so it is enough to say it of one of them.                         *)
CallsReturn ==
  LET t == CHOOSE u \in Callers : TRUE IN stack[t] # <<>> ~> stack[t] = <<>>

-----------------------------------------------------------------------------
(* The policy keeps the contract that ParallelLRU keeps.                    *)
Contract == INSTANCE CacheContract WITH
  entry <- [k \in Keys |-> IF item[k] = "absent" THEN "uncached" ELSE item[k]],
  readers <- [k \in Keys |-> {}],
  writers <- [k \in Keys |-> {writer[k]} \ {NoThread}]

(* Every step of the cache is a step of the contract.                       *)
ImplementsContract == Contract!Spec

=============================================================================
