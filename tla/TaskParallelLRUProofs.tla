----------------------- MODULE TaskParallelLRUProofs -----------------------
(* Theorems about TaskParallelLRU, for any threads, keys and tasks, getters *)
(* that get any keys, and calls nested to any depth.                        *)
EXTENDS TaskParallelLRU, FiniteSetTheorems, TLAPS

Types ==
  /\ item \in [Keys -> {"absent", "uncached", "cached", "failed"}]
  /\ writer \in [Keys -> Threads \cup {NoThread}]
  /\ executing \in [Keys -> BOOLEAN]
  /\ pending \in [Keys -> SUBSET (UNION {Tasks[k] : k \in Keys})]
  /\ \A k \in Keys : pending[k] \subseteq Tasks[k]
  /\ stack \in [Threads -> Seq(CallRecords)]
  /\ calls \in Nat

(* Only the top of a stack moves: every other call waits in an arena, and   *)
(* what is above it is a task of that arena.                                *)
Stacked == \A t \in Threads : \A i \in 1 .. Depth(t) :
  /\ stack[t][i].pc # "leaf" => stack[t][i].key \in Keys
  /\ i < Depth(t) => stack[t][i].pc \in {"execute", "inside"}
                       /\ stack[t][i + 1].task = stack[t][i].key

(* Position i of t's stack is a call for k that is at p.                    *)
CallIs(t, i, k, p) == i \in 1 .. Depth(t) /\ stack[t][i].key = k /\ stack[t][i].pc = p

(* The write lock of an entry has one call, and it is that thread's.        *)
OneOwner == \A k \in Keys : \A t, u \in Threads : \A i, j \in Nat : \A p, q \in WritingPCs :
  CallIs(t, i, k, p) /\ CallIs(u, j, k, q) => t = u /\ i = j

OwnerHasLock == \A k \in Keys :
  /\ \A t \in Threads : \A i \in Nat : \A p \in WritingPCs :
       CallIs(t, i, k, p) => writer[k] = t
  /\ writer[k] # NoThread =>
       \E t \in Threads : \E i \in Nat : \E p \in WritingPCs : CallIs(t, i, k, p)

(* From the look at the entry until its value is stored it stays empty.     *)
OwnedEntry == \A k \in Keys : \A t \in Threads : \A i \in Nat :
  /\ \A p \in {"spawn", "execute", "computed"} : CallIs(t, i, k, p) => item[k] = "uncached"
  /\ CallIs(t, i, k, "stored") => item[k] \in {"cached", "failed"}

(* There is an execution state as long as the getter is spawning or waiting *)
(* for tasks, and there are tasks only while it waits.                      *)
Waited(k) == \E t \in Threads : \E i \in Nat : CallIs(t, i, k, "execute")

Executions == \A k \in Keys : executing[k] <=>
  \E t \in Threads : \E i \in Nat : \E p \in {"spawn", "execute"} : CallIs(t, i, k, p)

TasksWaitedFor ==
  /\ \A k \in Keys : pending[k] # {} => Waited(k)
  /\ \A t \in Threads : \A i \in 1 .. Depth(t) :
       stack[t][i].task # NoKey => Waited(stack[t][i].task)

(* A WorkerRead lock is had inside a task of the getter.                    *)
NestedInTask == \A t \in Threads : \A i \in 1 .. Depth(t) :
  stack[t][i].pc = "nested" => \E j \in 1 .. i : stack[t][j].task = stack[t][i].key

(* A call that waits in an arena, or for a write lock, is not inside a task *)
(* of that arena, nor above a call that waits there.                        *)
Outside(t, i) ==
  /\ \A j \in 1 .. i : stack[t][j].task # stack[t][i].key
  /\ \A j \in 1 .. i - 1 : ~InCall(t, stack[t][i].key, j)

WaitsOutside == \A t \in Threads : \A i \in 1 .. Depth(t) :
  stack[t][i].pc \in {"join", "inside"} \/ stack[t][i].write => Outside(t, i)

IInv ==
  /\ Types /\ Stacked /\ OneOwner /\ OwnerHasLock /\ OwnedEntry
  /\ Executions /\ TasksWaitedFor /\ NestedInTask /\ WaitsOutside

-----------------------------------------------------------------------------
(* What the three ways of changing a stack do to the calls in it.           *)
LEMMA PCsAreApart ==
  /\ WritingPCs \subseteq PCs
  /\ {"acquire", "nested", "join", "inside", "limit", "leaf"} \subseteq PCs
  /\ {"acquire", "nested", "join", "inside", "limit", "leaf"} \cap WritingPCs = {}
BY DEF PCs, WritingPCs

LEMMA TopIsCall ==
  ASSUME Types, NEW t \in Threads, stack[t] # <<>>
  PROVE  Depth(t) \in Nat \ {0} /\ Top(t) = stack[t][Depth(t)] /\ Top(t) \in CallRecords
BY DEF Types, Depth, Top

LEMMA CallsAreCalls ==
  ASSUME Types, NEW t \in Threads, NEW i \in 1 .. Depth(t)
  PROVE  /\ stack[t][i] \in CallRecords
         /\ stack[t][i].pc \in PCs /\ stack[t][i].key \in Keys \cup {NoKey}
         /\ stack[t][i].write \in BOOLEAN /\ stack[t][i].task \in Keys \cup {NoKey}
<1>1. stack[t][i] \in CallRecords
  BY DEF Types, Depth
<1> QED BY <1>1 DEF CallRecords

(* Only t's stack changes.                                                  *)
Others(t) == \A u \in Threads \ {t} : stack'[u] = stack[u]

Replaced(t, c) ==
  /\ Len(stack'[t]) = Len(stack[t])
  /\ \A i \in 1 .. Len(stack[t]) : stack'[t][i] = IF i = Len(stack[t]) THEN c ELSE stack[t][i]

Pushed(t, c) ==
  /\ Len(stack'[t]) = Len(stack[t]) + 1
  /\ \A i \in 1 .. Len(stack[t]) : stack'[t][i] = stack[t][i]
  /\ stack'[t][Len(stack[t]) + 1] = c

Popped(t) ==
  /\ Len(stack'[t]) = Len(stack[t]) - 1
  /\ \A i \in 1 .. Len(stack[t]) - 1 : stack'[t][i] = stack[t][i]

LEMMA PushEffect ==
  ASSUME Types, NEW t \in Threads, NEW c \in CallRecords, Push(t, c)
  PROVE  stack' \in [Threads -> Seq(CallRecords)] /\ Others(t) /\ Pushed(t, c)
<1>1. stack' = [stack EXCEPT ![t] = Append(stack[t], c)] /\ stack[t] \in Seq(CallRecords)
  BY DEF Types, Push
<1>2. Append(stack[t], c) \in Seq(CallRecords)
  BY <1>1
<1>3. stack'[t] = Append(stack[t], c)
  BY <1>1 DEF Types
<1> QED BY <1>1, <1>2, <1>3 DEF Types, Others, Pushed

LEMMA ReturnEffect ==
  ASSUME Types, NEW t \in Threads, stack[t] # <<>>, Return(t)
  PROVE  stack' \in [Threads -> Seq(CallRecords)] /\ Others(t) /\ Popped(t)
<1>1. stack' = [stack EXCEPT ![t] = SubSeq(stack[t], 1, Len(stack[t]) - 1)]
      /\ stack[t] \in Seq(CallRecords)
  BY DEF Types, Return
<1>2. Len(stack[t]) \in Nat \ {0}
  BY <1>1
<1>3. SubSeq(stack[t], 1, Len(stack[t]) - 1) \in Seq(CallRecords)
  BY <1>1, <1>2
<1>4. stack'[t] = SubSeq(stack[t], 1, Len(stack[t]) - 1)
  BY <1>1 DEF Types
<1>5. Others(t) /\ stack' \in [Threads -> Seq(CallRecords)]
  BY <1>1, <1>3 DEF Types, Others
<1>6. Popped(t)
  <2> DEFINE s == stack[t]
             n == Len(stack[t]) - 1
  <2>1. s \in Seq(CallRecords) /\ n \in Nat /\ n <= Len(s) /\ stack'[t] = SubSeq(s, 1, n)
    BY <1>1, <1>2, <1>4
  <2>2. Len(stack'[t]) = n /\ \A i \in 1 .. n : stack'[t][i] = s[i]
    <3> HIDE DEF s, n
    <3> QED BY <2>1
  <2> QED BY <2>2 DEF Popped
<1> QED BY <1>5, <1>6

LEMMA ReplaceEffect ==
  ASSUME Types, NEW t \in Threads, stack[t] # <<>>, NEW c \in CallRecords,
         stack' = [stack EXCEPT ![t] = [stack[t] EXCEPT ![Depth(t)] = c]]
  PROVE  stack' \in [Threads -> Seq(CallRecords)] /\ Others(t) /\ Replaced(t, c)
<1>1. stack[t] \in Seq(CallRecords) /\ Depth(t) = Len(stack[t]) /\ Depth(t) \in Nat \ {0}
  BY DEF Types, Depth
<1>2. [stack[t] EXCEPT ![Depth(t)] = c] \in Seq(CallRecords)
  BY <1>1
<1>3. stack'[t] = [stack[t] EXCEPT ![Depth(t)] = c]
  BY DEF Types
<1> QED BY <1>1, <1>2, <1>3 DEF Types, Others, Replaced

(* What Goto(t, p) puts at the top.                                         *)
LEMMA GotoEffect ==
  ASSUME Types, NEW t \in Threads, stack[t] # <<>>, NEW p \in PCs, Goto(t, p)
  PROVE  /\ stack' \in [Threads -> Seq(CallRecords)] /\ Others(t)
         /\ \E c \in CallRecords :
              /\ Replaced(t, c)
              /\ c.pc = p /\ c.key = Top(t).key /\ c.write = Top(t).write /\ c.task = Top(t).task
<1> DEFINE c == [Top(t) EXCEPT !.pc = p]
<1>1. Top(t) \in CallRecords
  BY TopIsCall
<1>2. c \in CallRecords /\ c.pc = p /\ c.key = Top(t).key /\ c.write = Top(t).write
      /\ c.task = Top(t).task
  BY <1>1 DEF CallRecords
<1>3. stack' = [stack EXCEPT ![t] = [stack[t] EXCEPT ![Depth(t)] = c]]
  BY DEF Goto, Top
<1> HIDE DEF c
<1> QED BY <1>2, <1>3, ReplaceEffect
-----------------------------------------------------------------------------
(* What they do to the calls that have a write lock, and to the parts of    *)
(* the invariant that only the stacks matter to.                            *)
SameWriting == \A u \in Threads : \A j \in Nat : \A k \in Keys : \A q \in WritingPCs :
  CallIs(u, j, k, q)' <=> CallIs(u, j, k, q)

TopBecomes(t, p) == \A u \in Threads : \A j \in Nat : \A k \in Keys : \A q \in WritingPCs :
  CallIs(u, j, k, q)' <=>
    (IF u = t /\ j = Depth(t) THEN k = Top(t).key /\ q = p ELSE CallIs(u, j, k, q))

(* A task that is running after a step was running or waiting before it.    *)
TasksKnown == \A u \in Threads : \A i \in 1 .. Len(stack'[u]) :
  \/ stack'[u][i].task = NoKey
  \/ \E j \in 1 .. Depth(u) : stack[u][j].task = stack'[u][i].task
  \/ pending[stack'[u][i].task] # {}

StackInv == Stacked /\ NestedInTask /\ WaitsOutside

LEMMA TopIs ==
  ASSUME Types, NEW t \in Threads, stack[t] # <<>>, NEW k, NEW p
  PROVE  CallIs(t, Depth(t), k, p) <=> (k = Top(t).key /\ p = Top(t).pc)
BY TopIsCall DEF CallIs

LEMMA ReplacedCalls ==
  ASSUME Types, NEW t \in Threads, stack[t] # <<>>, NEW c \in CallRecords,
         Others(t), Replaced(t, c), c.key = Top(t).key
  PROVE  TopBecomes(t, c.pc)
<1>1. SUFFICES ASSUME NEW u \in Threads, NEW j \in Nat, NEW k \in Keys, NEW q \in WritingPCs
      PROVE  CallIs(u, j, k, q)' <=>
        (IF u = t /\ j = Depth(t) THEN k = Top(t).key /\ q = c.pc ELSE CallIs(u, j, k, q))
  BY DEF TopBecomes
<1>2. Depth(t) \in Nat \ {0} /\ Depth(u) = Len(stack[u]) /\ Depth(t) = Len(stack[t])
  BY TopIsCall DEF Depth
<1>3. CASE u # t
  BY <1>3 DEF CallIs, Others, Depth
<1>4. CASE u = t /\ j = Depth(t)
  BY <1>2, <1>4 DEF CallIs, Replaced, Depth
<1>5. CASE u = t /\ j # Depth(t)
  BY <1>2, <1>5 DEF CallIs, Replaced, Depth
<1> QED BY <1>3, <1>4, <1>5

LEMMA ReplacedInv ==
  ASSUME IInv, NEW t \in Threads, stack[t] # <<>>, NEW c \in CallRecords,
         Others(t), Replaced(t, c), c.key = Top(t).key, c.task = Top(t).task,
         Top(t).pc # "leaf",
         c.pc \in {"join", "inside"} \/ c.write => Outside(t, Depth(t)),
         c.pc = "nested" => \E j \in 1 .. Depth(t) : stack[t][j].task = c.key
  PROVE  StackInv' /\ TasksKnown
<1> DEFINE n == Depth(t)
<1>1. n \in Nat \ {0} /\ Top(t) = stack[t][n] /\ n = Len(stack[t]) /\ n = Len(stack'[t])
  BY TopIsCall DEF IInv, Depth, Replaced
<1>2. \A i \in 1 .. n : stack'[t][i] = IF i = n THEN c ELSE stack[t][i]
  BY DEF Replaced, Depth
<1>3. \A u \in Threads \ {t} : stack'[u] = stack[u]
  BY DEF Others
<1>4. \A u \in Threads : Len(stack'[u]) = Len(stack[u])
  BY <1>1, <1>3
<1>5. \A u \in Threads : \A i \in 1 .. Len(stack[u]) :
        stack'[u][i].key = stack[u][i].key /\ stack'[u][i].task = stack[u][i].task
  BY <1>1, <1>2, <1>3
<1> HIDE DEF n
<1>6. Stacked'
  <2> SUFFICES ASSUME NEW u \in Threads, NEW i \in 1 .. Len(stack[u])
               PROVE  /\ stack'[u][i].pc # "leaf" => stack'[u][i].key \in Keys
                      /\ i < Len(stack[u]) => stack'[u][i].pc \in {"execute", "inside"}
                           /\ stack'[u][i + 1].task = stack'[u][i].key
    BY <1>4 DEF Stacked, Depth
  <2>1. /\ stack[u][i].pc # "leaf" => stack[u][i].key \in Keys
        /\ i < Len(stack[u]) => stack[u][i].pc \in {"execute", "inside"}
             /\ stack[u][i + 1].task = stack[u][i].key
    BY DEF IInv, Stacked, Depth
  <2>2. i < Len(stack[u]) => i + 1 \in 1 .. Len(stack[u])
    BY DEF IInv, Types
  <2>3. i < Len(stack[u]) => stack'[u][i].pc = stack[u][i].pc
    <3>1. ASSUME u = t, i < Len(stack[u]) PROVE stack'[t][i].pc = stack[t][i].pc
      <4>1. i \in 1 .. Len(stack[t]) /\ i < Len(stack[t])
        BY <3>1
      <4>2. Len(stack[t]) = n /\ n \in Nat
        BY <1>1
      <4>3. i \in 1 .. n /\ i # n
        BY <4>1, <4>2
      <4> QED BY <1>2, <4>3
    <3>2. CASE u # t
      BY <1>3, <3>2
    <3> QED BY <3>1, <3>2
  <2>4. CASE u = t /\ i = n
    BY <1>1, <1>5, <2>1, <2>2, <2>3, <2>4
  <2>5. CASE ~ (u = t /\ i = n)
    <3>1. stack'[u][i] = stack[u][i]
      BY <1>1, <1>2, <1>3, <2>5
    <3> QED BY <1>5, <2>1, <2>2, <3>1
  <2> QED BY <2>4, <2>5
<1>7. NestedInTask'
  <2> SUFFICES ASSUME NEW u \in Threads, NEW i \in 1 .. Len(stack[u]), stack'[u][i].pc = "nested"
               PROVE  \E j \in 1 .. i : stack[u][j].task = stack[u][i].key
    BY <1>4, <1>5 DEF NestedInTask, Depth
  <2>1. CASE u = t /\ i = n
    BY <1>1, <1>2, <2>1 DEF n
  <2>2. CASE ~ (u = t /\ i = n)
    <3>1. stack'[u][i] = stack[u][i]
      BY <1>1, <1>2, <1>3, <2>2
    <3> QED BY <3>1 DEF IInv, NestedInTask, Depth
  <2> QED BY <2>1, <2>2
<1>8. WaitsOutside'
  <2> SUFFICES ASSUME NEW u \in Threads, NEW i \in 1 .. Len(stack[u]),
                      stack'[u][i].pc \in {"join", "inside"} \/ stack'[u][i].write
               PROVE  Outside(u, i)'
    BY <1>4 DEF WaitsOutside, Depth
  <2>1. Outside(u, i)
    <3>1. CASE u = t /\ i = n
      BY <1>1, <1>2, <3>1 DEF n
    <3>2. CASE ~ (u = t /\ i = n)
      <4>1. stack'[u][i] = stack[u][i]
        BY <1>1, <1>2, <1>3, <3>2
      <4> QED BY <4>1 DEF IInv, WaitsOutside, Depth
    <3> QED BY <3>1, <3>2
  <2>2. \A j \in 1 .. i : j \in 1 .. Len(stack[u])
    BY DEF IInv, Types
  <2>3. \A j \in 1 .. i - 1 : stack'[u][j] = stack[u][j]
    <3>1. ASSUME u = t, NEW j \in 1 .. i - 1 PROVE stack'[t][j] = stack[t][j]
      <4>1. i \in 1 .. Len(stack[t])
        BY <3>1
      <4>2. Len(stack[t]) = n /\ n \in Nat
        BY <1>1
      <4>3. j \in 1 .. n /\ j # n
        BY <3>1, <4>1, <4>2
      <4> QED BY <1>2, <4>3
    <3>2. CASE u # t
      BY <1>3, <3>2
    <3> QED BY <3>1, <3>2
  <2> QED BY <1>5, <2>1, <2>2, <2>3 DEF Outside, InCall
<1>9. TasksKnown
  BY <1>4, <1>5 DEF TasksKnown, Depth
<1> QED BY <1>6, <1>7, <1>8, <1>9 DEF StackInv

LEMMA PushedCalls ==
  ASSUME Types, NEW t \in Threads, NEW c \in CallRecords,
         Others(t), Pushed(t, c), c.pc \notin WritingPCs
  PROVE  SameWriting
<1>1. SUFFICES ASSUME NEW u \in Threads, NEW j \in Nat, NEW k \in Keys, NEW q \in WritingPCs
      PROVE  CallIs(u, j, k, q)' <=> CallIs(u, j, k, q)
  BY DEF SameWriting
<1>2. CASE u # t
  BY <1>2 DEF CallIs, Others, Depth
<1>3. CASE u = t
  <2>1. Len(stack[t]) \in Nat
    BY DEF Types
  <2>2. CASE j \in 1 .. Len(stack[t])
    BY <1>3, <2>1, <2>2 DEF CallIs, Pushed, Depth
  <2>3. CASE j = Len(stack[t]) + 1
    BY <1>3, <2>1, <2>3 DEF CallIs, Pushed, Depth
  <2>4. CASE j \notin 1 .. Len(stack[t]) + 1
    BY <1>3, <2>1, <2>4 DEF CallIs, Pushed, Depth
  <2> QED BY <2>1, <2>2, <2>3, <2>4
<1> QED BY <1>2, <1>3

(* A call is made by a caller, or for a task of the arena it waits in.      *)
LEMMA PushedInv ==
  ASSUME IInv, NEW t \in Threads, NEW c \in CallRecords, Others(t), Pushed(t, c),
         (c.pc = "acquire" /\ c.key \in Keys) \/ c.pc = "leaf", ~ c.write,
         stack[t] # <<>> => Top(t).pc \in {"execute", "inside"} /\ c.task = Top(t).key,
         c.task = NoKey \/ pending[c.task] # {}
  PROVE  StackInv' /\ TasksKnown
<1> DEFINE n == Len(stack[t])
<1>1. n \in Nat /\ Len(stack'[t]) = n + 1 /\ stack'[t][n + 1] = c
  BY DEF IInv, Types, Pushed
<1>2. \A i \in 1 .. n : stack'[t][i] = stack[t][i]
  BY DEF Pushed
<1>3. \A u \in Threads \ {t} : stack'[u] = stack[u]
  BY DEF Others
<1>4. n # 0 => stack[t][n].pc \in {"execute", "inside"} /\ c.task = stack[t][n].key
  BY DEF IInv, Types, Top, Depth
<1>5. \A u \in Threads : Len(stack[u]) \in Nat
  BY DEF IInv, Types
<1> HIDE DEF n
<1>6. ASSUME NEW u \in Threads, NEW i \in 1 .. Len(stack'[u])
      PROVE  \/ u = t /\ i = n + 1
             \/ i \in 1 .. Len(stack[u]) /\ stack'[u][i] = stack[u][i]
  <2>1. CASE u = t
    BY <1>1, <1>2, <2>1 DEF n
  <2>2. CASE u # t
    BY <1>3, <2>2
  <2> QED BY <2>1, <2>2
<1>7. Stacked'
  <2> SUFFICES ASSUME NEW u \in Threads, NEW i \in 1 .. Len(stack'[u])
               PROVE  /\ stack'[u][i].pc # "leaf" => stack'[u][i].key \in Keys
                      /\ i < Len(stack'[u]) => stack'[u][i].pc \in {"execute", "inside"}
                           /\ stack'[u][i + 1].task = stack'[u][i].key
    BY DEF Stacked, Depth
  <2>1. CASE u = t /\ i = n + 1
    BY <1>1, <2>1
  <2>2. CASE u = t /\ i = n /\ n # 0
    <3>1. stack'[t][n] = stack[t][n] /\ n \in 1 .. Len(stack[t])
      BY <1>1, <1>2, <2>2 DEF n
    <3> QED BY <1>1, <1>4, <2>2, <3>1 DEF IInv, Stacked, Depth
  <2>3. CASE u = t /\ i < n
    <3>1. /\ stack'[t][i] = stack[t][i] /\ i \in 1 .. Len(stack[t])
          /\ stack'[t][i + 1] = stack[t][i + 1]
      BY <1>1, <1>2, <2>3 DEF n
    <3> QED BY <1>1, <2>3, <3>1 DEF IInv, Stacked, Depth, n
  <2>4. CASE u # t
    BY <1>3, <2>4 DEF IInv, Stacked, Depth
  <2> QED BY <1>1, <2>1, <2>2, <2>3, <2>4
<1>8. NestedInTask'
  <2> SUFFICES ASSUME NEW u \in Threads, NEW i \in 1 .. Len(stack'[u]), stack'[u][i].pc = "nested"
               PROVE  \E j \in 1 .. i : stack'[u][j].task = stack'[u][i].key
    BY DEF NestedInTask, Depth
  <2>1. i \in 1 .. Len(stack[u]) /\ stack'[u][i] = stack[u][i]
    BY <1>1, <1>6
  <2>2. PICK j \in 1 .. i : stack[u][j].task = stack[u][i].key
    BY <2>1 DEF IInv, NestedInTask, Depth
  <2>3. stack'[u][j] = stack[u][j]
    <3>1. CASE u = t
      BY <1>2, <1>5, <2>1, <3>1 DEF n
    <3>2. CASE u # t
      BY <1>3, <3>2
    <3> QED BY <3>1, <3>2
  <2> QED BY <2>1, <2>2, <2>3
<1>9. WaitsOutside'
  <2> SUFFICES ASSUME NEW u \in Threads, NEW i \in 1 .. Len(stack'[u]),
                      stack'[u][i].pc \in {"join", "inside"} \/ stack'[u][i].write
               PROVE  Outside(u, i)'
    BY DEF WaitsOutside, Depth
  <2>1. i \in 1 .. Len(stack[u]) /\ stack'[u][i] = stack[u][i]
    BY <1>1, <1>6
  <2>2. Outside(u, i)
    BY <2>1 DEF IInv, WaitsOutside, Depth
  <2>3. \A j \in 1 .. i : stack'[u][j] = stack[u][j]
    <3>1. CASE u = t
      BY <1>2, <1>5, <2>1, <3>1 DEF n
    <3>2. CASE u # t
      BY <1>3, <3>2
    <3> QED BY <3>1, <3>2
  <2>4. i \in Nat
    BY <2>1
  <2>5. \A j \in 1 .. i : stack'[u][j].task # stack'[u][i].key
    BY <2>1, <2>2, <2>3 DEF Outside
  <2>6. ASSUME NEW j \in 1 .. i - 1 PROVE ~ InCall(u, stack[u][i].key, j)'
    <3>1. stack'[u][j] = stack[u][j] /\ ~ InCall(u, stack[u][i].key, j)
      BY <2>2, <2>3, <2>4 DEF Outside
    <3> QED BY <2>1, <3>1 DEF InCall
  <2> QED BY <2>1, <2>5, <2>6 DEF Outside
<1>10. TasksKnown
  <2> SUFFICES ASSUME NEW u \in Threads, NEW i \in 1 .. Len(stack'[u])
               PROVE  \/ stack'[u][i].task = NoKey
                      \/ \E j \in 1 .. Depth(u) : stack[u][j].task = stack'[u][i].task
                      \/ pending[stack'[u][i].task] # {}
    BY DEF TasksKnown
  <2>1. CASE u = t /\ i = n + 1
    BY <1>1, <2>1
  <2>2. CASE i \in 1 .. Len(stack[u]) /\ stack'[u][i] = stack[u][i]
    BY <2>2 DEF Depth
  <2> QED BY <1>6, <2>1, <2>2
<1> QED BY <1>7, <1>8, <1>9, <1>10 DEF StackInv

LEMMA PoppedCalls ==
  ASSUME Types, NEW t \in Threads, stack[t] # <<>>, Others(t), Popped(t)
  PROVE  /\ TopBecomes(t, "limit")
         /\ Top(t).pc \notin WritingPCs => SameWriting
<1>1. Len(stack[t]) \in Nat \ {0} /\ Depth(t) = Len(stack[t])
  BY DEF Types, Depth
<1>2. ASSUME NEW u \in Threads, NEW j \in Nat, NEW k \in Keys, NEW q \in WritingPCs
      PROVE  CallIs(u, j, k, q)' <=> CallIs(u, j, k, q) /\ ~ (u = t /\ j = Depth(t))
  <2>1. CASE u # t
    BY <2>1 DEF CallIs, Others, Depth
  <2>2. CASE u = t
    BY <1>1, <2>2 DEF CallIs, Popped, Depth
  <2> QED BY <2>1, <2>2
<1>3. TopBecomes(t, "limit")
  BY <1>2, PCsAreApart DEF TopBecomes
<1>4. ASSUME Top(t).pc \notin WritingPCs PROVE SameWriting
  BY <1>2, <1>4, TopIs DEF SameWriting
<1> QED BY <1>3, <1>4

LEMMA PoppedInv ==
  ASSUME IInv, NEW t \in Threads, stack[t] # <<>>, Others(t), Popped(t)
  PROVE  StackInv' /\ TasksKnown
<1>1. Len(stack[t]) \in Nat \ {0} /\ Len(stack'[t]) = Len(stack[t]) - 1
  BY DEF IInv, Types, Popped
<1>2. ASSUME NEW u \in Threads, NEW i \in 1 .. Len(stack'[u])
      PROVE  /\ i \in 1 .. Len(stack[u]) /\ i \in Nat
             /\ \A j \in 1 .. i : stack'[u][j] = stack[u][j]
             /\ i < Len(stack'[u]) => i < Len(stack[u]) /\ stack'[u][i + 1] = stack[u][i + 1]
  <2>1. CASE u = t
    BY <1>1, <2>1 DEF Popped
  <2>2. CASE u # t
    BY <2>2 DEF Others, IInv, Types
  <2> QED BY <2>1, <2>2
<1>3. ASSUME NEW u \in Threads, NEW i \in 1 .. Len(stack'[u])
      PROVE  stack'[u][i] = stack[u][i]
  BY <1>2
<1>4. Stacked'
  <2> SUFFICES ASSUME NEW u \in Threads, NEW i \in 1 .. Len(stack'[u])
               PROVE  /\ stack'[u][i].pc # "leaf" => stack'[u][i].key \in Keys
                      /\ i < Len(stack'[u]) => /\ stack'[u][i].pc \in {"execute", "inside"}
                                               /\ stack'[u][i + 1].task = stack'[u][i].key
    BY DEF Stacked, Depth
  <2>1. /\ stack[u][i].pc # "leaf" => stack[u][i].key \in Keys
        /\ i < Len(stack[u]) => stack[u][i].pc \in {"execute", "inside"}
                                 /\ stack[u][i + 1].task = stack[u][i].key
    BY <1>2 DEF IInv, Stacked, Depth
  <2> QED BY <1>2, <1>3, <2>1
<1>5. NestedInTask'
  <2> SUFFICES ASSUME NEW u \in Threads, NEW i \in 1 .. Len(stack'[u]), stack'[u][i].pc = "nested"
               PROVE  \E j \in 1 .. i : stack'[u][j].task = stack'[u][i].key
    BY DEF NestedInTask, Depth
  <2>1. PICK j \in 1 .. i : stack[u][j].task = stack[u][i].key
    BY <1>2, <1>3 DEF IInv, NestedInTask, Depth
  <2>2. stack'[u][j] = stack[u][j]
    BY <1>2
  <2> QED BY <1>3, <2>1, <2>2
<1>6. WaitsOutside'
  <2> SUFFICES ASSUME NEW u \in Threads, NEW i \in 1 .. Len(stack'[u]),
                      stack'[u][i].pc \in {"join", "inside"} \/ stack'[u][i].write
               PROVE  Outside(u, i)'
    BY DEF WaitsOutside, Depth
  <2>1. Outside(u, i)
    BY <1>2, <1>3 DEF IInv, WaitsOutside, Depth
  <2>2. i \in Nat /\ \A j \in 1 .. i : stack'[u][j] = stack[u][j]
    BY <1>2
  <2>3. stack'[u][i] = stack[u][i] /\ \A j \in 1 .. i - 1 : stack'[u][j] = stack[u][j]
    BY <2>2
  <2> QED BY <2>1, <2>2, <2>3 DEF Outside, InCall
<1>7. TasksKnown
  BY <1>2, <1>3 DEF TasksKnown, Depth
<1> QED BY <1>4, <1>5, <1>6, <1>7 DEF StackInv
-----------------------------------------------------------------------------
(* The steps of a thread's own stack.                                       *)
Typed == stack' \in [Threads -> Seq(CallRecords)]

LEMMA GotoStep ==
  ASSUME IInv, NEW t \in Threads, stack[t] # <<>>, NEW p \in PCs, Goto(t, p),
         Top(t).pc # "leaf", p # "leaf",
         p \in {"join", "inside"} => Outside(t, Depth(t)),
         p = "nested" => \E j \in 1 .. Depth(t) : stack[t][j].task = Top(t).key
  PROVE  /\ Typed /\ StackInv' /\ TasksKnown /\ TopBecomes(t, p)
         /\ p \notin WritingPCs /\ Top(t).pc \notin WritingPCs => SameWriting
<1>1. PICK c \in CallRecords :
        /\ Replaced(t, c)
        /\ c.pc = p /\ c.key = Top(t).key /\ c.write = Top(t).write /\ c.task = Top(t).task
  BY GotoEffect DEF IInv
<1>2. Typed /\ Others(t)
  BY GotoEffect DEF IInv, Typed
<1>3. Depth(t) \in 1 .. Depth(t) /\ Top(t) = stack[t][Depth(t)]
  BY TopIsCall DEF IInv
<1>4. c.write => Outside(t, Depth(t))
  BY <1>1, <1>3 DEF IInv, WaitsOutside
<1>5. StackInv' /\ TasksKnown
  BY <1>1, <1>2, <1>4, ReplacedInv
<1>6. TopBecomes(t, p)
  BY <1>1, <1>2, ReplacedCalls DEF IInv
<1>7. ASSUME p \notin WritingPCs, Top(t).pc \notin WritingPCs PROVE SameWriting
  BY <1>6, <1>7, TopIs DEF TopBecomes, SameWriting, IInv
<1> QED BY <1>2, <1>5, <1>6, <1>7

LEMMA ReturnStep ==
  ASSUME IInv, NEW t \in Threads, stack[t] # <<>>, Return(t)
  PROVE  /\ Typed /\ StackInv' /\ TasksKnown /\ TopBecomes(t, "limit")
         /\ Top(t).pc \notin WritingPCs => SameWriting
BY ReturnEffect, PoppedCalls, PoppedInv DEF IInv, Typed

LEMMA PushStep ==
  ASSUME IInv, NEW t \in Threads, NEW c \in CallRecords, Push(t, c),
         (c.pc = "acquire" /\ c.key \in Keys) \/ c.pc = "leaf", ~ c.write,
         stack[t] # <<>> => Top(t).pc \in {"execute", "inside"} /\ c.task = Top(t).key,
         c.task = NoKey \/ pending[c.task] # {}
  PROVE  Typed /\ StackInv' /\ TasksKnown /\ SameWriting
<1>1. Typed /\ Others(t) /\ Pushed(t, c)
  BY PushEffect DEF IInv, Typed
<1>2. c.pc \notin WritingPCs
  BY DEF WritingPCs
<1> QED BY <1>1, <1>2, PushedCalls, PushedInv DEF IInv

(* A task that waits is taken with the call that it makes.                  *)
LEMMA TaskCall ==
  ASSUME IInv, NEW k \in Keys, NEW n \in pending[k]
  PROVE  /\ CallOf(k, n) \in CallRecords /\ CallOf(k, n).task = k /\ ~ CallOf(k, n).write
         /\ \/ CallOf(k, n).pc = "acquire" /\ CallOf(k, n).key \in Keys
            \/ CallOf(k, n).pc = "leaf"
<1>1. Needs[n] \in Keys \cup {NoKey}
  BY TaskParallelAssumption DEF IInv, Types
<1>2. CASE Needs[n] = NoKey
  BY <1>2, PCsAreApart DEF CallOf, Leaf, CallRecords
<1>3. CASE Needs[n] # NoKey
  BY <1>1, <1>3, PCsAreApart DEF CallOf, Get, CallRecords
<1> QED BY <1>2, <1>3

(* The tasks of a key that nobody holds for writing are all done.           *)
LEMMA NoWriterNoTask ==
  ASSUME IInv, NEW k \in Keys, writer[k] = NoThread
  PROVE  ~ Waited(k)
BY TaskParallelAssumption DEF IInv, OwnerHasLock, Waited, WritingPCs

-----------------------------------------------------------------------------
(* The rest of the invariant after a step that leaves the write locks alone.*)
LEMMA TasksWaitedForKept ==
  ASSUME IInv, Typed, TasksKnown, \A k \in Keys : Waited(k) => Waited(k)',
         \A k \in Keys : pending'[k] \subseteq pending[k]
  PROVE  TasksWaitedFor'
<1>1. ASSUME NEW k \in Keys, pending'[k] # {} PROVE Waited(k)'
  BY <1>1 DEF IInv, TasksWaitedFor
<1>2. ASSUME NEW u \in Threads, NEW i \in 1 .. Len(stack'[u]), NEW k \in Keys,
             stack'[u][i].task = k
      PROVE  Waited(k)'
  <2>1. k # NoKey
    BY TaskParallelAssumption
  <2>2. Waited(k)
    BY <1>2, <2>1 DEF IInv, TasksWaitedFor, TasksKnown
  <2> QED BY <2>2
<1>3. ASSUME NEW u \in Threads, NEW i \in 1 .. Len(stack'[u])
      PROVE  stack'[u][i].task \in Keys \cup {NoKey}
  <2>1. stack'[u] \in Seq(CallRecords)
    BY DEF Typed
  <2>2. stack'[u][i] \in CallRecords
    BY <2>1
  <2> QED BY <2>2 DEF CallRecords
<1> QED BY <1>1, <1>2, <1>3 DEF TasksWaitedFor, Depth

LEMMA QuietStep ==
  ASSUME IInv, Types', StackInv', TasksKnown, SameWriting,
         writer' = writer, executing' = executing,
         \A k \in Keys : item'[k] = item[k] \/ writer[k] = NoThread,
         \A k \in Keys : pending'[k] \subseteq pending[k]
  PROVE  IInv'
<1>1. {"spawn", "execute", "computed", "stored", "locked"} = WritingPCs
  BY DEF WritingPCs
<1>2. OneOwner'
  BY DEF IInv, OneOwner, SameWriting
<1>3. OwnerHasLock'
  BY DEF IInv, OwnerHasLock, SameWriting
<1>4. OwnedEntry'
  <2> SUFFICES ASSUME NEW k \in Keys, NEW t \in Threads, NEW i \in Nat, NEW q \in WritingPCs,
                      CallIs(t, i, k, q)
               PROVE  /\ q \in {"spawn", "execute", "computed"} => item'[k] = "uncached"
                      /\ q = "stored" => item'[k] \in {"cached", "failed"}
    BY <1>1 DEF OwnedEntry, SameWriting
  <2>1. item'[k] = item[k]
    BY TaskParallelAssumption DEF IInv, OwnerHasLock
  <2> QED BY <2>1 DEF IInv, OwnedEntry
<1>5. Executions'
  BY <1>1 DEF IInv, Executions, SameWriting
<1>6. TasksWaitedFor'
  <2>1. \A k \in Keys : Waited(k) => Waited(k)'
    BY <1>1 DEF Waited, SameWriting
  <2> QED BY <2>1, TasksWaitedForKept DEF Types, Typed
<1> QED BY <1>2, <1>3, <1>4, <1>5, <1>6 DEF IInv, StackInv

(* Steps that take the write lock, give it back, or go on with it.          *)
LEMMA EnterStep ==
  ASSUME IInv, Types', StackInv', TasksKnown, NEW t \in Threads, stack[t] # <<>>,
         NEW k \in Keys, k = Top(t).key, Top(t).pc \notin WritingPCs, writer[k] = NoThread,
         TopBecomes(t, "locked"), writer' = [writer EXCEPT ![k] = t],
         \A m \in Keys : m # k => item'[m] = item[m], UNCHANGED <<executing, pending>>
  PROVE  IInv'
<1>1. {"spawn", "execute", "computed", "stored", "locked"} = WritingPCs
  BY DEF WritingPCs
<1>2. Depth(t) \in Nat
  BY TopIsCall DEF IInv
<1>3. \A u \in Threads, j \in Nat, q \in WritingPCs : ~ CallIs(u, j, k, q)
  BY TaskParallelAssumption DEF IInv, OwnerHasLock
<1>4. \A u \in Threads, j \in Nat, m \in Keys, q \in WritingPCs :
        CallIs(u, j, m, q)' <=>
          CallIs(u, j, m, q) \/ (u = t /\ j = Depth(t) /\ m = k /\ q = "locked")
  BY TopIs DEF TopBecomes, IInv
<1>5. OneOwner'
  <2> SUFFICES ASSUME NEW m \in Keys, NEW u \in Threads, NEW v \in Threads, NEW i \in Nat,
                      NEW j \in Nat, NEW q \in WritingPCs, NEW r \in WritingPCs,
                      CallIs(u, i, m, q)', CallIs(v, j, m, r)'
               PROVE  u = v /\ i = j
    BY DEF OneOwner
  <2>1. CASE m = k
    BY <1>3, <1>4, <2>1
  <2>2. CASE m # k
    <3>1. CallIs(u, i, m, q) /\ CallIs(v, j, m, r)
      BY <1>4, <2>2
    <3> QED BY <3>1 DEF IInv, OneOwner
  <2> QED BY <2>1, <2>2
<1>6. OwnerHasLock'
  <2>1. ASSUME NEW m \in Keys, NEW u \in Threads, NEW j \in Nat, NEW q \in WritingPCs,
               CallIs(u, j, m, q)'
        PROVE  writer'[m] = u
    BY <2>1, <1>3, <1>4 DEF IInv, Types, OwnerHasLock
  <2>2. ASSUME NEW m \in Keys, writer'[m] # NoThread
        PROVE  \E u \in Threads : \E j \in Nat : \E q \in WritingPCs : CallIs(u, j, m, q)'
    <3>1. CASE m = k
      BY <1>1, <1>2, <1>4, <3>1
    <3>2. CASE m # k
      BY <1>4, <2>2, <3>2 DEF IInv, Types, OwnerHasLock
    <3> QED BY <3>1, <3>2
  <2> QED BY <2>1, <2>2 DEF OwnerHasLock
<1>7. OwnedEntry'
  BY <1>1, <1>3, <1>4 DEF IInv, OwnedEntry
<1>8. Executions'
  BY <1>1, <1>4 DEF IInv, Executions
<1>9. TasksWaitedFor'
  <2>1. \A m \in Keys : Waited(m) => Waited(m)'
    BY <1>1, <1>4 DEF Waited
  <2> QED BY <2>1, TasksWaitedForKept DEF Types, Typed
<1> QED BY <1>5, <1>6, <1>7, <1>8, <1>9 DEF IInv, StackInv

LEMMA LeaveStep ==
  ASSUME IInv, Types', StackInv', TasksKnown, NEW t \in Threads, stack[t] # <<>>,
         NEW k \in Keys, k = Top(t).key, Top(t).pc \in {"locked", "computed", "stored"},
         TopBecomes(t, "limit"), Unlock(k), UNCHANGED <<item, executing, pending>>
  PROVE  IInv'
<1>1. {"spawn", "execute", "computed", "stored", "locked"} = WritingPCs
  BY DEF WritingPCs
<1>2. Depth(t) \in Nat
  BY TopIsCall DEF IInv
<1>3. CallIs(t, Depth(t), k, Top(t).pc)
  BY TopIs DEF IInv
<1>4. \A u \in Threads, j \in Nat, q \in WritingPCs :
        CallIs(u, j, k, q) => u = t /\ j = Depth(t) /\ q = Top(t).pc
  <2>1. \A u \in Threads, j \in Nat, q \in WritingPCs : CallIs(u, j, k, q) => u = t /\ j = Depth(t)
    BY <1>1, <1>2, <1>3 DEF IInv, OneOwner
  <2> QED BY <2>1, TopIs DEF IInv
<1>5. \A u \in Threads, j \in Nat, m \in Keys, q \in WritingPCs :
        CallIs(u, j, m, q)' <=> CallIs(u, j, m, q) /\ m # k
  <2>1. "limit" \notin WritingPCs
    BY DEF WritingPCs
  <2>2. \A m, q : CallIs(t, Depth(t), m, q) <=> m = k /\ q = Top(t).pc
    BY TopIs DEF IInv
  <2> SUFFICES ASSUME NEW u \in Threads, NEW j \in Nat, NEW m \in Keys, NEW q \in WritingPCs
               PROVE  CallIs(u, j, m, q)' <=> CallIs(u, j, m, q) /\ m # k
    OBVIOUS
  <2>3. CASE u = t /\ j = Depth(t)
    <3>1. ~ CallIs(u, j, m, q)'
      BY <2>1, <2>3 DEF TopBecomes
    <3>2. CallIs(u, j, m, q) => m = k
      BY <2>2, <2>3
    <3> QED BY <3>1, <3>2
  <2>4. CASE ~ (u = t /\ j = Depth(t))
    <3>1. CallIs(u, j, m, q)' <=> CallIs(u, j, m, q)
      BY <2>4 DEF TopBecomes
    <3>2. CallIs(u, j, m, q) => m # k
      BY <1>4, <2>4
    <3> QED BY <3>1, <3>2
  <2> QED BY <2>3, <2>4
<1>6. OneOwner'
  <2> SUFFICES ASSUME NEW m \in Keys, NEW u \in Threads, NEW v \in Threads, NEW i \in Nat,
                      NEW j \in Nat, NEW p \in WritingPCs, NEW q \in WritingPCs,
                      CallIs(u, i, m, p)', CallIs(v, j, m, q)'
               PROVE  u = v /\ i = j
    BY DEF OneOwner
  <2>1. CallIs(u, i, m, p) /\ CallIs(v, j, m, q)
    BY <1>5
  <2> QED BY <2>1 DEF IInv, OneOwner
<1>7. OwnerHasLock'
  BY <1>5 DEF IInv, Types, OwnerHasLock, Unlock
<1>8. OwnedEntry'
  <2> SUFFICES ASSUME NEW m \in Keys, NEW u \in Threads, NEW j \in Nat
               PROVE  /\ \A p \in {"spawn", "execute", "computed"} :
                           CallIs(u, j, m, p)' => item[m] = "uncached"
                      /\ CallIs(u, j, m, "stored")' => item[m] \in {"cached", "failed"}
    BY DEF OwnedEntry, CallIs
  <2>1. \A p \in WritingPCs : CallIs(u, j, m, p)' => CallIs(u, j, m, p)
    BY <1>5
  <2> QED BY <1>1, <2>1 DEF IInv, OwnedEntry
<1>9. Executions'
  <2>1. ~ executing[k]
    BY <1>1, <1>4 DEF IInv, Executions
  <2> QED BY <1>1, <1>5, <2>1 DEF IInv, Executions
<1>10. TasksWaitedFor'
  <2>1. \A m \in Keys : Waited(m) => Waited(m)'
    BY <1>1, <1>4, <1>5 DEF Waited
  <2> QED BY <2>1, TasksWaitedForKept DEF Types, Typed
<1> QED BY <1>6, <1>7, <1>8, <1>9, <1>10 DEF IInv, StackInv

LEMMA GoOnStep ==
  ASSUME IInv, Types', StackInv', TasksKnown, NEW t \in Threads, stack[t] # <<>>,
         NEW k \in Keys, k = Top(t).key, NEW p \in WritingPCs, Top(t).pc \in WritingPCs,
         TopBecomes(t, p), writer' = writer,
         \A m \in Keys : m # k => item'[m] = item[m] /\ executing'[m] = executing[m]
                                    /\ pending'[m] = pending[m],
         p \in {"spawn", "execute", "computed"} => item'[k] = "uncached",
         p = "stored" => item'[k] \in {"cached", "failed"},
         executing'[k] <=> p \in {"spawn", "execute"},
         pending'[k] # {} => p = "execute",
         Top(t).pc = "execute" => Done(k)
  PROVE  IInv'
<1>1. {"spawn", "execute", "computed", "stored", "locked"} = WritingPCs
  BY DEF WritingPCs
<1>2. Depth(t) \in Nat
  BY TopIsCall DEF IInv
<1>3. CallIs(t, Depth(t), k, Top(t).pc)
  BY TopIs DEF IInv
<1>4. \A u \in Threads, j \in Nat, q \in WritingPCs :
        CallIs(u, j, k, q) => u = t /\ j = Depth(t)
  BY <1>1, <1>2, <1>3 DEF IInv, OneOwner
<1>5. \A u \in Threads, j \in Nat, m \in Keys, q \in WritingPCs :
        CallIs(u, j, m, q)' <=>
          IF m = k THEN u = t /\ j = Depth(t) /\ q = p ELSE CallIs(u, j, m, q)
  BY <1>4, TopIs DEF TopBecomes, IInv
<1>6. OneOwner'
  BY <1>5 DEF IInv, OneOwner
<1>7. OwnerHasLock'
  <2>1. writer[k] = t
    BY <1>2, <1>3 DEF IInv, OwnerHasLock
  <2> QED BY <1>2, <1>5, <2>1 DEF IInv, OwnerHasLock
<1>8. OwnedEntry'
  BY <1>1, <1>5 DEF IInv, OwnedEntry
<1>9. Executions'
  <2>1. ASSUME NEW m \in Keys, m # k
        PROVE  executing'[m] <=> \E u \in Threads : \E j \in Nat : \E q \in {"spawn", "execute"} :
                                   CallIs(u, j, m, q)'
    BY <1>1, <1>5, <2>1 DEF IInv, Executions
  <2>2. executing'[k] <=> \E u \in Threads : \E j \in Nat : \E q \in {"spawn", "execute"} :
                            CallIs(u, j, k, q)'
    BY <1>1, <1>2, <1>5
  <2> QED BY <2>1, <2>2 DEF Executions
<1>10. ASSUME NEW m \in Keys, m # k, Waited(m) PROVE Waited(m)'
  BY <1>1, <1>5, <1>10 DEF Waited
<1>11. p = "execute" => Waited(k)'
  BY <1>1, <1>2, <1>5 DEF Waited
<1>12. ASSUME Top(t).pc # "execute" PROVE ~ Waited(k)
  <2>1. ~ CallIs(t, Depth(t), k, "execute")
    BY <1>12, TopIs DEF IInv
  <2> QED BY <1>1, <1>4, <2>1 DEF Waited
<1>13. ASSUME NEW u \in Threads, NEW i \in 1 .. Len(stack'[u])
       PROVE  stack'[u][i].task # k
  <2>1. k # NoKey
    BY TaskParallelAssumption
  <2>2. ~ (\E j \in 1 .. Depth(u) : stack[u][j].task = k)
    <3>1. CASE Top(t).pc = "execute"
      BY <3>1 DEF Done, Running, Depth, IInv, Types
    <3>2. CASE Top(t).pc # "execute"
      BY <1>12, <2>1, <3>2 DEF IInv, TasksWaitedFor
    <3> QED BY <3>1, <3>2
  <2>3. pending[k] = {}
    BY <1>12 DEF IInv, TasksWaitedFor, Done
  <2> QED BY <2>1, <2>2, <2>3 DEF TasksKnown
<1>14. TasksWaitedFor'
  <2>1. ASSUME NEW m \in Keys, pending'[m] # {} PROVE Waited(m)'
    BY <1>10, <1>11, <2>1 DEF IInv, TasksWaitedFor
  <2>2. ASSUME NEW u \in Threads, NEW i \in 1 .. Len(stack'[u]), NEW m \in Keys,
               stack'[u][i].task = m
        PROVE  Waited(m)'
    <3>1. m # NoKey /\ m # k
      BY <1>13, <2>2, TaskParallelAssumption
    <3>2. Waited(m)
      BY <2>2, <3>1 DEF IInv, TasksWaitedFor, TasksKnown
    <3> QED BY <1>10, <3>1, <3>2
  <2>3. ASSUME NEW u \in Threads, NEW i \in 1 .. Len(stack'[u])
        PROVE  stack'[u][i].task \in Keys \cup {NoKey}
    <3>1. stack'[u] \in Seq(CallRecords)
      BY DEF Types
    <3>2. stack'[u][i] \in CallRecords
      BY <3>1
    <3> QED BY <3>2 DEF CallRecords
  <2> QED BY <2>1, <2>2, <2>3 DEF TasksWaitedFor, Depth
<1> QED BY <1>6, <1>7, <1>8, <1>9, <1>14 DEF IInv, StackInv

-----------------------------------------------------------------------------
(* The actions.                                                             *)
LEMMA AtTop ==
  ASSUME IInv, NEW t \in Threads, NEW p, At(t, p)
  PROVE  /\ stack[t] # <<>> /\ Top(t).pc = p
         /\ p # "leaf" => Top(t).key \in Keys
<1>1. stack[t] # <<>> /\ Top(t).pc = p
  BY DEF At
<1>2. Depth(t) \in 1 .. Depth(t) /\ Top(t) = stack[t][Depth(t)]
  BY <1>1, TopIsCall DEF IInv
<1> QED BY <1>1, <1>2 DEF IInv, Stacked

LEMMA TypedIsTypes ==
  ASSUME IInv, Typed, UNCHANGED <<item, writer, executing, pending, calls>>
  PROVE  Types'
BY DEF IInv, Types, Typed

(* Steps of a call that has no write lock, before and after.                *)
LEMMA QuietGoto ==
  ASSUME IInv, NEW t \in Threads, NEW p \in PCs \ WritingPCs, Goto(t, p), stack[t] # <<>>,
         Top(t).pc \in PCs \ WritingPCs, Top(t).pc # "leaf", p # "leaf",
         p \in {"join", "inside"} => Outside(t, Depth(t)),
         p = "nested" => \E j \in 1 .. Depth(t) : stack[t][j].task = Top(t).key,
         UNCHANGED <<item, writer, executing, pending, calls>>
  PROVE  IInv'
<1>1. Typed /\ StackInv' /\ TasksKnown /\ SameWriting
  BY GotoStep
<1> QED BY <1>1, QuietStep, TypedIsTypes

LEMMA QuietReturn ==
  ASSUME IInv, NEW t \in Threads, stack[t] # <<>>, Top(t).pc \notin WritingPCs, Return(t),
         UNCHANGED <<item, writer, executing, pending, calls>>
  PROVE  IInv'
<1>1. Typed /\ StackInv' /\ TasksKnown /\ SameWriting
  BY ReturnStep
<1> QED BY <1>1, QuietStep, TypedIsTypes

LEMMA CallKeepsInv == ASSUME IInv, NEW t \in Threads, Call(t) PROVE IInv'
<1>1. PICK k \in Keys : Push(t, Get(k, NoKey))
  BY DEF Call
<1>2. Get(k, NoKey) \in CallRecords /\ Get(k, NoKey).pc = "acquire" /\ Get(k, NoKey).key \in Keys
      /\ ~ Get(k, NoKey).write /\ Get(k, NoKey).task = NoKey
  BY PCsAreApart DEF Get, CallRecords
<1>3. Typed /\ StackInv' /\ TasksKnown /\ SameWriting
  BY <1>1, <1>2, PushStep DEF Call
<1>4. Types'
  BY <1>3 DEF IInv, Types, Typed, Call
<1> QED BY <1>3, <1>4, QuietStep DEF Call

LEMMA TaskTakenKeepsInv ==
  ASSUME IInv, NEW t \in Threads, NEW k \in Keys, NEW n \in pending[k],
         Push(t, CallOf(k, n)), pending' = [pending EXCEPT ![k] = @ \ {n}],
         stack[t] # <<>> => Top(t).pc \in {"execute", "inside"} /\ k = Top(t).key,
         UNCHANGED <<item, writer, executing, calls>>
  PROVE  IInv'
<1>1. Typed /\ StackInv' /\ TasksKnown /\ SameWriting
  BY TaskCall, PushStep
<1>2. \A m \in Keys : pending'[m] \subseteq pending[m]
  BY DEF IInv, Types
<1>3. Types'
  BY <1>1, <1>2 DEF IInv, Types, Typed
<1> QED BY <1>1, <1>2, <1>3, QuietStep

LEMMA TakeTaskKeepsInv == ASSUME IInv, NEW t \in Threads, TakeTask(t) PROVE IInv'
<1>1. /\ stack[t] # <<>> /\ Top(t).pc \in {"execute", "inside"} /\ Top(t).key \in Keys
  BY AtTop DEF TakeTask
<1> QED BY <1>1, TaskTakenKeepsInv DEF TakeTask

LEMMA WorkerTakesTaskKeepsInv == ASSUME IInv, NEW t \in Threads, WorkerTakesTask(t) PROVE IInv'
BY TaskTakenKeepsInv DEF WorkerTakesTask

LEMMA AcquireRetryKeepsInv == ASSUME IInv, NEW t \in Threads, AcquireRetry(t) PROVE IInv'
<1> DEFINE k == Top(t).key
           n == Depth(t)
           c == [Top(t) EXCEPT !.write = TRUE]
<1>1. stack[t] # <<>> /\ Top(t).pc = "acquire" /\ k \in Keys
  BY AtTop DEF AcquireRetry
<1>2. Top(t) \in CallRecords /\ Top(t) = stack[t][n] /\ n \in Nat \ {0}
  BY <1>1, TopIsCall DEF IInv
<1>3. c \in CallRecords /\ c.pc = "acquire" /\ c.key = k /\ c.task = Top(t).task
  BY <1>1, <1>2 DEF CallRecords
<1>4. stack' = [stack EXCEPT ![t] = [stack[t] EXCEPT ![n] = c]]
  BY DEF AcquireRetry, Top
<1>5. ~ Waited(k)
  BY <1>1, NoWriterNoTask DEF AcquireRetry
<1> HIDE DEF k, n, c
<1>6. \A j \in 1 .. n : stack[t][j].task # k
  BY <1>1, <1>5, TaskParallelAssumption DEF IInv, TasksWaitedFor, n
<1>7. \A j \in 1 .. n - 1 : ~ InCall(t, k, j)
  <2> SUFFICES ASSUME NEW j \in 1 .. n - 1, InCall(t, k, j) PROVE FALSE
    OBVIOUS
  <2>1. j \in 1 .. n /\ j < n /\ j + 1 \in 1 .. n
    BY <1>2
  <2>2. stack[t][j].key = k /\ stack[t][j + 1].task = stack[t][j].key
    BY <2>1 DEF InCall, IInv, Stacked, n
  <2> QED BY <1>6, <2>1, <2>2
<1>8. Outside(t, n)
  BY <1>2, <1>6, <1>7 DEF Outside, k
<1>9. Typed /\ Others(t) /\ Replaced(t, c)
  BY <1>1, <1>3, <1>4, ReplaceEffect DEF IInv, Typed, n
<1>10. StackInv' /\ TasksKnown
  BY <1>1, <1>3, <1>8, <1>9, ReplacedInv DEF k, n
<1>11. SameWriting
  <2>1. TopBecomes(t, "acquire")
    BY <1>1, <1>3, <1>9, ReplacedCalls DEF IInv, k
  <2> QED BY <1>1, <2>1, TopIs, PCsAreApart DEF TopBecomes, SameWriting, IInv
<1> QED BY <1>9, <1>10, <1>11, QuietStep, TypedIsTypes DEF AcquireRetry

LEMMA AcquireNestedKeepsInv == ASSUME IInv, NEW t \in Threads, AcquireNested(t) PROVE IInv'
<1> DEFINE k == Top(t).key
<1>1. stack[t] # <<>> /\ Top(t).pc = "acquire" /\ k \in Keys
  BY AtTop DEF AcquireNested
<1>2. Depth(t) \in Nat \ {0} /\ Top(t) = stack[t][Depth(t)] /\ DOMAIN stack[t] = 1 .. Depth(t)
  BY <1>1, TopIsCall DEF IInv, Types, Depth
<1>3. InArena(t, k)
  BY DEF AcquireNested, MayNest
<1>4. \E j \in 1 .. Depth(t) : stack[t][j].task = k
  <2>1. PICK i \in 1 .. Depth(t) : stack[t][i].task = k \/ InCall(t, k, i)
    BY <1>2, <1>3 DEF InArena
  <2>2. CASE InCall(t, k, i)
    <3>1. i < Depth(t) /\ i + 1 \in 1 .. Depth(t) /\ stack[t][i].key = k
      BY <1>1, <1>2, <2>1, <2>2 DEF InCall
    <3>2. stack[t][i + 1].task = k
      BY <3>1 DEF IInv, Stacked
    <3> QED BY <3>1, <3>2
  <2> QED BY <2>1, <2>2
<1> QED BY <1>1, <1>4, PCsAreApart, QuietGoto DEF AcquireNested

LEMMA AcceptWorkKeepsInv == ASSUME IInv, NEW t \in Threads, AcceptWork(t) PROVE IInv'
<1> DEFINE k == Top(t).key
<1>1. stack[t] # <<>> /\ Top(t).pc = "acquire" /\ k \in Keys
  BY AtTop DEF AcceptWork
<1>2. Depth(t) \in Nat \ {0} /\ Top(t) = stack[t][Depth(t)] /\ DOMAIN stack[t] = 1 .. Depth(t)
  BY <1>1, TopIsCall DEF IInv, Types, Depth
<1>3. Outside(t, Depth(t))
  <2>1. CASE Top(t).write
    BY <1>2, <2>1 DEF IInv, WaitsOutside
  <2>2. CASE ~ Top(t).write
    <3>1. ~ InArena(t, k)
      BY <2>2 DEF AcceptWork, MayNest
    <3> QED BY <1>2, <3>1 DEF InArena, Outside
  <2> QED BY <2>1, <2>2
<1> QED BY <1>1, <1>3, PCsAreApart, QuietGoto DEF AcceptWork

LEMMA JoinArenaKeepsInv == ASSUME IInv, NEW t \in Threads, JoinArena(t) PROVE IInv'
<1>1. stack[t] # <<>> /\ Top(t).pc = "join"
  BY AtTop DEF JoinArena
<1>2. Depth(t) \in 1 .. Depth(t) /\ Top(t) = stack[t][Depth(t)]
  BY <1>1, TopIsCall DEF IInv
<1>3. Outside(t, Depth(t))
  BY <1>1, <1>2 DEF IInv, WaitsOutside
<1> QED BY <1>1, <1>3, PCsAreApart, QuietGoto DEF JoinArena

LEMMA LeaveArenaKeepsInv == ASSUME IInv, NEW t \in Threads, LeaveArena(t) PROVE IInv'
BY AtTop, PCsAreApart, QuietGoto DEF LeaveArena

LEMMA ReturnsKeepInv ==
  ASSUME IInv, NEW t \in Threads,
         AcquireHit(t) \/ NestedReturns(t) \/ LeafReturns(t) \/ Cancelled(t) \/ Limited(t)
  PROVE  IInv'
<1>1. At(t, "acquire") \/ At(t, "nested") \/ At(t, "leaf") \/ At(t, "inside") \/ At(t, "limit")
  BY DEF AcquireHit, NestedReturns, LeafReturns, Cancelled, Limited
<1>2. stack[t] # <<>> /\ Top(t).pc \notin WritingPCs
  BY <1>1, AtTop, PCsAreApart
<1> QED BY <1>2, QuietReturn DEF AcquireHit, NestedReturns, LeafReturns, Cancelled, Limited

LEMMA PopKeepsInv == ASSUME IInv, NEW t \in Threads, Pop(t) PROVE IInv'
<1>1. PICK k \in Poppable : item' = [item EXCEPT ![k] = "absent"]
  BY DEF Pop
<1>2. UNCHANGED <<writer, executing, pending, stack, calls>>
  BY DEF Pop
<1>3. k \in Keys /\ writer[k] = NoThread
  BY <1>1 DEF Poppable
<1>4. Types'
  BY <1>1, <1>2, <1>3 DEF IInv, Types
<1>5. StackInv' /\ SameWriting
  BY <1>2 DEF IInv, StackInv, Stacked, NestedInTask, WaitsOutside, Outside, InCall, Depth,
     SameWriting, CallIs
<1>6. TasksKnown
  BY <1>2 DEF TasksKnown, Depth
<1>7. \A m \in Keys : item'[m] = item[m] \/ writer[m] = NoThread
  BY <1>1, <1>3 DEF IInv, Types
<1> QED BY <1>2, <1>4, <1>5, <1>6, <1>7, QuietStep

LEMMA AcquireWriteKeepsInv == ASSUME IInv, NEW t \in Threads, AcquireWrite(t) PROVE IInv'
<1>1. stack[t] # <<>> /\ Top(t).pc = "acquire" /\ Top(t).key \in Keys
  BY AtTop DEF AcquireWrite
<1>2. Typed /\ StackInv' /\ TasksKnown /\ TopBecomes(t, "locked")
  BY <1>1, GotoStep, PCsAreApart DEF AcquireWrite, WritingPCs
<1>3. Types'
  BY <1>1, <1>2 DEF IInv, Types, Typed, AcquireWrite
<1>4. \A m \in Keys : m # Top(t).key => item'[m] = item[m]
  BY <1>1 DEF AcquireWrite, IInv, Types
<1> QED BY <1>1, <1>2, <1>3, <1>4, EnterStep, PCsAreApart DEF AcquireWrite

LEMMA LeavesKeepInv ==
  ASSUME IInv, NEW t \in Threads, FoundFilled(t) \/ GetterCancelled(t) \/ Release(t)
  PROVE  IInv'
<1>1. stack[t] # <<>> /\ Top(t).pc \in {"locked", "computed", "stored"} /\ Top(t).key \in Keys
  BY AtTop DEF FoundFilled, GetterCancelled, Release
<1>2. /\ Unlock(Top(t).key) /\ UNCHANGED <<item, executing, pending, calls>>
      /\ Return(t) \/ Goto(t, "limit")
  BY DEF FoundFilled, GetterCancelled, Release
<1>3. Typed /\ StackInv' /\ TasksKnown /\ TopBecomes(t, "limit")
  BY <1>1, <1>2, GotoStep, ReturnStep, PCsAreApart
<1>4. Types'
  BY <1>1, <1>2, <1>3 DEF IInv, Types, Typed, Unlock
<1> QED BY <1>1, <1>2, <1>3, <1>4, LeaveStep

(* What the thread that has the write lock of an entry knows.               *)
LEMMA TopOwns ==
  ASSUME IInv, NEW t \in Threads, stack[t] # <<>>, NEW k \in Keys, k = Top(t).key,
         Top(t).pc \in WritingPCs
  PROVE  /\ writer[k] = t
         /\ executing[k] <=> Top(t).pc \in {"spawn", "execute"}
         /\ Top(t).pc # "execute" => pending[k] = {}
         /\ Top(t).pc \in {"spawn", "execute", "computed"} => item[k] = "uncached"
         /\ Top(t).pc = "stored" => item[k] \in {"cached", "failed"}
<1>1. {"spawn", "execute", "computed", "stored", "locked"} = WritingPCs
  BY DEF WritingPCs
<1>2. Depth(t) \in Nat
  BY TopIsCall DEF IInv
<1>3. CallIs(t, Depth(t), k, Top(t).pc)
  BY TopIs DEF IInv
<1>4. \A u \in Threads, j \in Nat, q \in WritingPCs :
        CallIs(u, j, k, q) => u = t /\ j = Depth(t) /\ q = Top(t).pc
  <2>1. \A u \in Threads, j \in Nat, q \in WritingPCs : CallIs(u, j, k, q) => u = t /\ j = Depth(t)
    BY <1>1, <1>2, <1>3 DEF IInv, OneOwner
  <2> QED BY <2>1, TopIs DEF IInv
<1>5. writer[k] = t
  BY <1>2, <1>3 DEF IInv, OwnerHasLock
<1>6. executing[k] <=> Top(t).pc \in {"spawn", "execute"}
  BY <1>1, <1>2, <1>3, <1>4 DEF IInv, Executions
<1>7. Top(t).pc # "execute" => pending[k] = {}
  BY <1>1, <1>4 DEF IInv, TasksWaitedFor, Waited
<1>8. /\ Top(t).pc \in {"spawn", "execute", "computed"} => item[k] = "uncached"
      /\ Top(t).pc = "stored" => item[k] \in {"cached", "failed"}
  BY <1>2, <1>3 DEF IInv, OwnedEntry
<1> QED BY <1>5, <1>6, <1>7, <1>8

LEMMA ComputeAloneKeepsInv == ASSUME IInv, NEW t \in Threads, ComputeAlone(t) PROVE IInv'
<1>1. stack[t] # <<>> /\ Top(t).pc = "locked" /\ Top(t).key \in Keys
  BY AtTop DEF ComputeAlone
<1>2. Typed /\ StackInv' /\ TasksKnown /\ TopBecomes(t, "computed")
  BY <1>1, GotoStep, PCsAreApart DEF ComputeAlone, WritingPCs
<1>3. Types'
  BY <1>2, TypedIsTypes DEF ComputeAlone
<1>4. ~ executing[Top(t).key] /\ pending[Top(t).key] = {}
  BY <1>1, TopOwns DEF WritingPCs
<1> QED BY <1>1, <1>2, <1>3, <1>4, GoOnStep DEF ComputeAlone, WritingPCs

LEMMA BeginExecuteKeepsInv == ASSUME IInv, NEW t \in Threads, BeginExecute(t) PROVE IInv'
<1>1. stack[t] # <<>> /\ Top(t).pc = "locked" /\ Top(t).key \in Keys
  BY AtTop DEF BeginExecute
<1>2. Typed /\ StackInv' /\ TasksKnown /\ TopBecomes(t, "spawn")
  BY <1>1, GotoStep, PCsAreApart DEF BeginExecute, WritingPCs
<1>3. Types'
  BY <1>1, <1>2 DEF IInv, Types, Typed, BeginExecute
<1>4. pending[Top(t).key] = {}
  BY <1>1, TopOwns DEF WritingPCs
<1>5. executing'[Top(t).key] /\ \A m \in Keys : m # Top(t).key => executing'[m] = executing[m]
  BY <1>1 DEF BeginExecute, IInv, Types
<1> QED BY <1>1, <1>2, <1>3, <1>4, <1>5, GoOnStep DEF BeginExecute, WritingPCs

LEMMA RunGetterKeepsInv == ASSUME IInv, NEW t \in Threads, RunGetter(t) PROVE IInv'
<1>1. stack[t] # <<>> /\ Top(t).pc = "spawn" /\ Top(t).key \in Keys
  BY AtTop DEF RunGetter
<1>2. Typed /\ StackInv' /\ TasksKnown /\ TopBecomes(t, "execute")
  BY <1>1, GotoStep, PCsAreApart DEF RunGetter, WritingPCs
<1>3. pending' = [pending EXCEPT ![Top(t).key] = Tasks[Top(t).key]]
      /\ UNCHANGED <<item, writer, executing, calls>>
  BY DEF RunGetter
<1>4. Types'
  BY <1>1, <1>2, <1>3 DEF IInv, Types, Typed
<1>5. \A m \in Keys : m # Top(t).key => pending'[m] = pending[m]
  BY <1>1, <1>3 DEF IInv, Types
<1>6. executing[Top(t).key] /\ item[Top(t).key] = "uncached"
  BY <1>1, TopOwns DEF WritingPCs
<1> QED BY <1>1, <1>2, <1>3, <1>4, <1>5, <1>6, GoOnStep DEF WritingPCs

LEMMA StoreKeepsInv == ASSUME IInv, NEW t \in Threads, Store(t) PROVE IInv'
<1>1. stack[t] # <<>> /\ Top(t).pc = "computed" /\ Top(t).key \in Keys
  BY AtTop DEF Store
<1>2. Typed /\ StackInv' /\ TasksKnown /\ TopBecomes(t, "stored")
  BY <1>1, GotoStep, PCsAreApart DEF Store, WritingPCs
<1>3. PICK s \in {"cached", "failed"} : item' = [item EXCEPT ![Top(t).key] = s]
  BY DEF Store
<1>4. UNCHANGED <<writer, executing, pending, calls>>
  BY DEF Store
<1>5. Types'
  BY <1>1, <1>2, <1>3, <1>4 DEF IInv, Types, Typed
<1>6. item'[Top(t).key] = s /\ \A m \in Keys : m # Top(t).key => item'[m] = item[m]
  BY <1>1, <1>3 DEF IInv, Types
<1>7. ~ executing[Top(t).key] /\ pending[Top(t).key] = {}
  BY <1>1, TopOwns DEF WritingPCs
<1> QED BY <1>1, <1>2, <1>4, <1>5, <1>6, <1>7, GoOnStep DEF WritingPCs

(* Everybody who waits in the arena of k is sent back; as no task of k is   *)
(* left, they are all at the top of their stacks.                           *)
LEMMA EndExecuteEffect ==
  ASSUME IInv, NEW t \in Threads, EndExecute(t)
  PROVE  /\ Typed
         /\ \A u \in Threads : Len(stack'[u]) = Len(stack[u])
         /\ \A u \in Threads : \A i \in 1 .. Len(stack[u]) :
              /\ stack'[u][i].key = stack[u][i].key
              /\ stack'[u][i].write = stack[u][i].write
              /\ stack'[u][i].task = stack[u][i].task
              /\ stack'[u][i].pc = IF u = t /\ i = Depth(t) THEN "computed"
                                   ELSE IF /\ u # t /\ stack[u][i].key = Top(t).key
                                           /\ stack[u][i].pc \in {"join", "inside"}
                                   THEN "acquire" ELSE stack[u][i].pc
<1> DEFINE k == Top(t).key
           c == [Top(t) EXCEPT !.pc = "computed"]
<1>1. stack[t] # <<>>
  BY AtTop DEF EndExecute
<1>2. Top(t) \in CallRecords /\ Top(t) = stack[t][Depth(t)] /\ Depth(t) \in Nat \ {0}
      /\ Depth(t) = Len(stack[t])
  BY <1>1, TopIsCall DEF IInv, Depth
<1>3. c \in CallRecords /\ c.pc = "computed" /\ c.key = k /\ c.write = Top(t).write
      /\ c.task = Top(t).task
  BY <1>2, PCsAreApart DEF CallRecords, WritingPCs
<1>4. stack' = [u \in Threads |->
        IF u = t THEN [stack[t] EXCEPT ![Depth(t)] = c]
        ELSE [i \in DOMAIN stack[u] |-> SentBack(stack[u][i], k)]]
  BY <1>2 DEF EndExecute
<1> HIDE DEF k, c
<1>5. ASSUME NEW call \in CallRecords
      PROVE  /\ SentBack(call, k) \in CallRecords
             /\ SentBack(call, k).key = call.key /\ SentBack(call, k).write = call.write
             /\ SentBack(call, k).task = call.task
             /\ SentBack(call, k).pc =
                  IF call.key = k /\ call.pc \in {"join", "inside"} THEN "acquire" ELSE call.pc
  BY PCsAreApart DEF SentBack, CallRecords
<1>6. ASSUME NEW u \in Threads, u # t
      PROVE  /\ stack'[u] \in Seq(CallRecords) /\ Len(stack'[u]) = Len(stack[u])
             /\ \A i \in 1 .. Len(stack[u]) : stack'[u][i] = SentBack(stack[u][i], k)
  <2>1. stack[u] \in Seq(CallRecords) /\ DOMAIN stack[u] = 1 .. Len(stack[u])
        /\ Len(stack[u]) \in Nat
    BY DEF IInv, Types
  <2>2. stack'[u] = [i \in 1 .. Len(stack[u]) |-> SentBack(stack[u][i], k)]
    BY <1>4, <1>6, <2>1
  <2>3. \A i \in 1 .. Len(stack[u]) : SentBack(stack[u][i], k) \in CallRecords
    BY <1>5, <2>1
  <2> QED BY <2>1, <2>2, <2>3
<1>7. /\ stack'[t] \in Seq(CallRecords) /\ Len(stack'[t]) = Len(stack[t])
      /\ \A i \in 1 .. Len(stack[t]) : stack'[t][i] = IF i = Depth(t) THEN c ELSE stack[t][i]
  <2>1. stack[t] \in Seq(CallRecords) /\ stack'[t] = [stack[t] EXCEPT ![Depth(t)] = c]
    BY <1>4 DEF IInv, Types
  <2> QED BY <1>2, <1>3, <2>1
<1>8. Typed
  BY <1>4, <1>6, <1>7 DEF Typed
<1>9. ASSUME NEW u \in Threads, NEW i \in 1 .. Len(stack[u]) PROVE stack[u][i] \in CallRecords
  BY DEF IInv, Types
<1>10. \A u \in Threads : Len(stack'[u]) = Len(stack[u])
  BY <1>6, <1>7
<1>11. ASSUME NEW u \in Threads, NEW i \in 1 .. Len(stack[u])
       PROVE  /\ stack'[u][i].key = stack[u][i].key
              /\ stack'[u][i].write = stack[u][i].write
              /\ stack'[u][i].task = stack[u][i].task
              /\ stack'[u][i].pc = IF u = t /\ i = Depth(t) THEN "computed"
                                   ELSE IF /\ u # t /\ stack[u][i].key = k
                                           /\ stack[u][i].pc \in {"join", "inside"}
                                   THEN "acquire" ELSE stack[u][i].pc
  <2>1. CASE u = t /\ i = Depth(t)
    BY <1>2, <1>3, <1>7, <2>1 DEF k
  <2>2. CASE u = t /\ i # Depth(t)
    BY <1>7, <2>2
  <2>3. CASE u # t
    <3>1. stack'[u][i] = SentBack(stack[u][i], k)
      BY <1>6, <2>3
    <3> QED BY <1>5, <1>9, <2>3, <3>1
  <2> QED BY <2>1, <2>2, <2>3
<1> QED BY <1>8, <1>10, <1>11 DEF k

LEMMA EndExecuteKeepsInv == ASSUME IInv, NEW t \in Threads, EndExecute(t) PROVE IInv'
<1> DEFINE k == Top(t).key
<1>1. stack[t] # <<>> /\ Top(t).pc = "execute" /\ k \in Keys
  BY AtTop DEF EndExecute
<1>2. \A u \in Threads : Len(stack'[u]) = Len(stack[u]) /\ Len(stack[u]) \in Nat
  BY EndExecuteEffect DEF IInv, Types
<1>3. \A u \in Threads : \A i \in 1 .. Len(stack[u]) :
        /\ stack'[u][i].key = stack[u][i].key /\ stack'[u][i].task = stack[u][i].task
        /\ stack'[u][i].write = stack[u][i].write
  BY EndExecuteEffect
<1>4. \A u \in Threads : \A i \in 1 .. Len(stack[u]) :
        stack'[u][i].pc = IF u = t /\ i = Depth(t) THEN "computed"
                          ELSE IF u # t /\ stack[u][i].key = k /\ stack[u][i].pc \in {"join", "inside"}
                          THEN "acquire" ELSE stack[u][i].pc
  BY EndExecuteEffect
<1>5. Done(k) /\ executing' = [executing EXCEPT ![k] = FALSE]
      /\ UNCHANGED <<item, writer, pending, calls>>
  BY DEF EndExecute
<1>6. Depth(t) = Len(stack[t]) /\ Depth(t) \in Nat \ {0} /\ Top(t) = stack[t][Depth(t)]
  BY <1>1, TopIsCall DEF IInv, Depth
<1>7. \A u \in Threads : \A i \in 1 .. Len(stack[u]) : stack[u][i].task # k
  BY <1>5 DEF Done, Running, IInv, Types
<1> HIDE DEF k
<1>8. Stacked'
  <2> SUFFICES ASSUME NEW u \in Threads, NEW i \in 1 .. Len(stack[u])
               PROVE  /\ stack'[u][i].pc # "leaf" => stack'[u][i].key \in Keys
                      /\ i < Len(stack[u]) => stack'[u][i].pc \in {"execute", "inside"}
                           /\ stack'[u][i + 1].task = stack'[u][i].key
    BY <1>2 DEF Stacked, Depth
  <2>1. /\ stack[u][i].pc # "leaf" => stack[u][i].key \in Keys
        /\ i < Len(stack[u]) => stack[u][i].pc \in {"execute", "inside"}
             /\ stack[u][i + 1].task = stack[u][i].key
    BY DEF IInv, Stacked, Depth
  <2>2. i < Len(stack[u]) => i + 1 \in 1 .. Len(stack[u])
    BY <1>2
  <2>3. stack'[u][i].pc # "leaf" => stack'[u][i].key \in Keys
    <3>1. CASE u = t /\ i = Depth(t)
      BY <1>1, <1>3, <1>6, <3>1 DEF k
    <3>2. CASE ~ (u = t /\ i = Depth(t))
      BY <1>3, <1>4, <2>1, <3>2
    <3> QED BY <3>1, <3>2
  <2>4. i < Len(stack[u]) => stack'[u][i].pc = stack[u][i].pc
    BY <1>4, <1>6, <1>7, <2>1, <2>2
  <2> QED BY <1>3, <2>1, <2>2, <2>3, <2>4
<1>9. NestedInTask'
  <2> SUFFICES ASSUME NEW u \in Threads, NEW i \in 1 .. Len(stack[u]), stack'[u][i].pc = "nested"
               PROVE  \E j \in 1 .. i : stack'[u][j].task = stack'[u][i].key
    BY <1>2 DEF NestedInTask, Depth
  <2>1. stack[u][i].pc = "nested"
    BY <1>4
  <2>2. PICK j \in 1 .. i : stack[u][j].task = stack[u][i].key
    BY <2>1 DEF IInv, NestedInTask, Depth
  <2>3. j \in 1 .. Len(stack[u])
    BY <1>2
  <2> QED BY <1>3, <2>2, <2>3
<1>10. WaitsOutside'
  <2> SUFFICES ASSUME NEW u \in Threads, NEW i \in 1 .. Len(stack[u]),
                      stack'[u][i].pc \in {"join", "inside"} \/ stack'[u][i].write
               PROVE  Outside(u, i)'
    BY <1>2 DEF WaitsOutside, Depth
  <2>1. Outside(u, i)
    <3>1. stack[u][i].pc \in {"join", "inside"} \/ stack[u][i].write
      BY <1>3, <1>4
    <3> QED BY <3>1 DEF IInv, WaitsOutside, Depth
  <2>2. i \in Nat /\ (\A j \in 1 .. i : j \in 1 .. Len(stack[u]))
        /\ \A j \in 1 .. i - 1 : j \in 1 .. Len(stack[u])
    BY <1>2
  <2>3. \A j \in 1 .. i : stack'[u][j].task # stack'[u][i].key
    BY <1>3, <2>1, <2>2 DEF Outside
  <2>4. ASSUME NEW j \in 1 .. i - 1
        PROVE  ~ (/\ stack'[u][j].key = stack[u][i].key
                  /\ stack'[u][j].pc \in {"execute", "inside"})
    <3>1. ~ (stack[u][j].key = stack[u][i].key /\ stack[u][j].pc \in {"execute", "inside"})
      BY <2>1 DEF Outside, InCall
    <3> QED BY <1>3, <1>4, <2>2, <3>1
  <2> QED BY <1>3, <2>3, <2>4 DEF Outside, InCall
<1>11. TasksKnown
  BY <1>2, <1>3 DEF TasksKnown, Depth
<1>12. TopBecomes(t, "computed")
  <2> SUFFICES ASSUME NEW u \in Threads, NEW j \in Nat, NEW m \in Keys, NEW q \in WritingPCs
               PROVE  CallIs(u, j, m, q)' <=>
                 (IF u = t /\ j = Depth(t) THEN m = k /\ q = "computed" ELSE CallIs(u, j, m, q))
    BY DEF TopBecomes, k
  <2>1. CASE u = t /\ j = Depth(t)
    BY <1>2, <1>3, <1>4, <1>6, <2>1 DEF CallIs, Depth, k
  <2>2. CASE ~ (u = t /\ j = Depth(t))
    BY <1>2, <1>3, <1>4, <2>2 DEF CallIs, Depth, WritingPCs
  <2> QED BY <2>1, <2>2
<1>13. Types'
  BY <1>1, <1>5, EndExecuteEffect DEF IInv, Types, Typed
<1>14. ~ executing'[k] /\ \A m \in Keys : m # k => executing'[m] = executing[m]
  BY <1>1, <1>5 DEF IInv, Types
<1>15. item[k] = "uncached" /\ pending[k] = {}
  BY <1>1, <1>5, TopOwns DEF WritingPCs, Done, k
<1> QED BY <1>1, <1>5, <1>8, <1>9, <1>10, <1>11, <1>12, <1>13, <1>14, <1>15, GoOnStep
        DEF WritingPCs, StackInv, k

LEMMA InitialInv == Init => IInv
<1> SUFFICES ASSUME Init PROVE IInv
  OBVIOUS
<1>1. \A t \in Threads : stack[t] = <<>> /\ Depth(t) = 0
  BY DEF Init, Depth
<1>2. Types
  BY TaskParallelAssumption DEF Init, Types
<1>3. \A t \in Threads, i \in Nat, k \in Keys : \A p : ~ CallIs(t, i, k, p)
  BY <1>1 DEF CallIs
<1>4. Stacked /\ NestedInTask /\ WaitsOutside
  BY <1>1 DEF Stacked, NestedInTask, WaitsOutside
<1>5. OneOwner /\ OwnerHasLock /\ OwnedEntry /\ Executions /\ TasksWaitedFor
  BY <1>1, <1>3 DEF Init, OneOwner, OwnerHasLock, OwnedEntry, Executions, TasksWaitedFor
<1> QED BY <1>2, <1>4, <1>5 DEF IInv

LEMMA NextActions ==
  ASSUME Next
  PROVE  \E t \in Threads :
    \/ Call(t)
    \/ AcquireHit(t) \/ AcquireRetry(t) \/ AcquireWrite(t) \/ AcquireNested(t)
    \/ NestedReturns(t) \/ AcceptWork(t) \/ JoinArena(t) \/ TakeTask(t) \/ LeafReturns(t)
    \/ LeaveArena(t)
    \/ FoundFilled(t) \/ ComputeAlone(t) \/ BeginExecute(t) \/ RunGetter(t) \/ EndExecute(t)
    \/ Store(t) \/ GetterCancelled(t) \/ Release(t) \/ Pop(t) \/ Limited(t)
    \/ Cancelled(t) \/ WorkerTakesTask(t)
BY DEF Next, Work, Acquire, Help, Compute

LEMMA StepKeepsInv == IInv /\ [Next]_vars => IInv'
<1>1. ASSUME IInv, Next PROVE IInv'
  BY <1>1, NextActions, CallKeepsInv, ReturnsKeepInv, AcquireRetryKeepsInv,
     AcquireWriteKeepsInv,
     AcquireNestedKeepsInv, AcceptWorkKeepsInv, JoinArenaKeepsInv, TakeTaskKeepsInv,
     LeaveArenaKeepsInv, LeavesKeepInv, ComputeAloneKeepsInv, BeginExecuteKeepsInv,
     RunGetterKeepsInv, EndExecuteKeepsInv, StoreKeepsInv, PopKeepsInv, WorkerTakesTaskKeepsInv
<1>2. ASSUME IInv, UNCHANGED vars PROVE IInv'
  <2>1. UNCHANGED <<item, writer, executing, pending, stack, calls>>
    BY <1>2 DEF vars
  <2>2. Types'
    BY <1>2, <2>1 DEF IInv, Types
  <2>3. StackInv' /\ SameWriting
    BY <1>2, <2>1 DEF IInv, StackInv, Stacked, NestedInTask, WaitsOutside, Outside, InCall,
       Depth,
       SameWriting, CallIs
  <2>4. TasksKnown
    BY <2>1 DEF TasksKnown, Depth
  <2> QED BY <1>2, <2>1, <2>2, <2>3, <2>4, QuietStep
<1> QED BY <1>1, <1>2

LEMMA Invariant == Spec => []IInv
BY InitialInv, StepKeepsInv, PTL DEF Spec

-----------------------------------------------------------------------------
(* Every variable keeps its kind, however deep calls are nested.            *)
THEOREM TypeCorrect == Spec => []TypeOK
<1>1. IInv => TypeOK
  BY DEF IInv, Types, TypeOK
<1> QED BY <1>1, Invariant, PTL

(* An entry is computed by one call at a time, the one that has its write   *)
(* lock, and stays empty until that call stores the value.                  *)
LEMMA CallsAtIs ==
  ASSUME IInv, NEW k, NEW pcs
  PROVE  \A c : c \in CallsAt(k, pcs) <=>
           \E t \in Threads, i \in Nat : c = <<t, i>> /\ \E p \in pcs : CallIs(t, i, k, p)
<1>1. \A t \in Threads : DOMAIN stack[t] = 1 .. Depth(t) /\ Depth(t) \in Nat
  BY DEF IInv, Types, Depth
<1> QED BY <1>1 DEF CallsAt, CallIs

THEOREM OneComputation == Spec => []SingleFlight
<1>1. ASSUME IInv, NEW k \in Keys
      PROVE  LET w == CallsAt(k, WritingPCs)
             IN /\ Cardinality(w) <= 1
                /\ writer[k] = NoThread <=> w = {}
                /\ \A c \in w : c[1] = writer[k]
                /\ CallsAt(k, {"spawn", "execute", "computed"}) # {} => item[k] = "uncached"
  <2> DEFINE w == CallsAt(k, WritingPCs)
  <2>1. \A c : c \in w <=>
          \E t \in Threads, i \in Nat : c = <<t, i>> /\ \E p \in WritingPCs : CallIs(t, i, k, p)
    BY <1>1, CallsAtIs
  <2> HIDE DEF w
  <2>2. \A c, d \in w : c = d
    BY <1>1, <2>1 DEF IInv, OneOwner
  <2>3. Cardinality(w) <= 1
    <3>1. CASE w = {}
      <4>1. Cardinality(w) = 0
        BY <3>1, FS_EmptySet
      <4> QED BY <4>1
    <3>2. CASE w # {}
      <4>1. PICK c : w = {c}
        BY <2>2, <3>2
      <4>2. Cardinality(w) = 1
        BY <4>1, FS_Singleton
      <4> QED BY <4>2
    <3> QED BY <3>1, <3>2
  <2>4. \A c \in w : c[1] = writer[k] /\ c[1] \in Threads
    BY <1>1, <2>1 DEF IInv, OwnerHasLock
  <2>5. writer[k] = NoThread <=> w = {}
    <3>1. ASSUME w = {} PROVE writer[k] = NoThread
      BY <1>1, <2>1, <3>1 DEF IInv, OwnerHasLock
    <3>2. ASSUME w # {} PROVE writer[k] # NoThread
      BY <2>4, <3>2, TaskParallelAssumption
    <3> QED BY <3>1, <3>2
  <2>6. CallsAt(k, {"spawn", "execute", "computed"}) # {} => item[k] = "uncached"
    <3>1. ASSUME NEW c \in CallsAt(k, {"spawn", "execute", "computed"}) PROVE item[k] = "uncached"
      BY <1>1, CallsAtIs DEF IInv, OwnedEntry
    <3> QED BY <3>1
  <2> QED BY <2>3, <2>4, <2>5, <2>6 DEF w
<1>2. IInv => SingleFlight
  BY <1>1 DEF SingleFlight
<1> QED BY <1>2, Invariant, PTL

(* A WorkerRead lock is only ever had while the caller of execute() holds   *)
(* the write lock and waits for the task (TaskMutex.h:237-239).             *)
THEOREM WorkersAreProtected == Spec => []WorkerReadProtected
<1>1. ASSUME IInv, NEW k \in Keys, CallsAt(k, {"nested"}) # {}
      PROVE  executing[k] /\ CallsAt(k, {"execute"}) # {}
  <2>1. PICK t \in Threads, i \in Nat : CallIs(t, i, k, "nested")
    BY <1>1, CallsAtIs
  <2>2. i \in 1 .. Depth(t) /\ stack[t][i].pc = "nested" /\ stack[t][i].key = k
    BY <2>1 DEF CallIs
  <2>3. PICK j \in 1 .. i : stack[t][j].task = k
    BY <1>1, <2>2 DEF IInv, NestedInTask
  <2>4. j \in 1 .. Depth(t)
    <3>1. Depth(t) \in Nat
      BY <1>1 DEF IInv, Types, Depth
    <3> QED BY <2>2, <3>1
  <2>5. Waited(k)
    BY <1>1, <2>3, <2>4, TaskParallelAssumption DEF IInv, TasksWaitedFor
  <2>6. PICK u \in Threads, l \in Nat : CallIs(u, l, k, "execute")
    BY <2>5 DEF Waited
  <2>7. executing[k]
    BY <1>1, <2>6 DEF IInv, Executions
  <2>8. <<u, l>> \in CallsAt(k, {"execute"})
    BY <1>1, <2>6, CallsAtIs
  <2> QED BY <2>7, <2>8
<1>2. IInv => WorkerReadProtected
  BY <1>1 DEF WorkerReadProtected
<1> QED BY <1>2, Invariant, PTL

(* No thread waits in an arena for a task that it is itself in the middle   *)
(* of (TaskMutex.h:341-343).                                                *)
THEOREM NoSelfWait == Spec => []NeverWaitsForItself
<1>1. ASSUME IInv, NEW t \in Threads, NEW i \in DOMAIN stack[t],
             stack[t][i].pc \in {"join", "inside"}, NEW j \in 1 .. i - 1
      PROVE  stack[t][j + 1].task # stack[t][i].key /\ ~ InCall(t, stack[t][i].key, j)
  <2>1. i \in 1 .. Depth(t) /\ i \in Nat
    BY <1>1 DEF IInv, Types, Depth
  <2>2. Outside(t, i)
    BY <1>1, <2>1 DEF IInv, WaitsOutside
  <2>3. j + 1 \in 1 .. i
    BY <1>1, <2>1
  <2> QED BY <1>1, <2>2, <2>3 DEF Outside
<1>2. IInv => NeverWaitsForItself
  BY <1>1 DEF NeverWaitsForItself
<1> QED BY <1>2, Invariant, PTL

-----------------------------------------------------------------------------
(* The policy implements CacheContract.                                     *)
LEMMA ContractStep ==
  ASSUME IInv, [Next]_vars
  PROVE  [Contract!Next]_(Contract!vars)
<1> USE DEF IInv, Types, Contract!vars
<1>1. CASE UNCHANGED <<item, writer>>
  BY <1>1
<1>2. ASSUME NEW t \in Threads, AcquireWrite(t) PROVE Contract!Next
  <2>1. PICK k \in Keys :
          /\ writer[k] = NoThread /\ writer' = [writer EXCEPT ![k] = t]
          /\ item' = [item EXCEPT ![k] = IF @ = "absent" THEN "uncached" ELSE @]
    BY <1>2, AtTop DEF AcquireWrite
  <2>2. \A m \in Keys : /\ {writer'[m]} \ {NoThread} = IF m = k THEN {t} ELSE {writer[m]} \ {NoThread}
                       /\ (IF item'[m] = "absent" THEN "uncached" ELSE item'[m])
                            = (IF item[m] = "absent" THEN "uncached" ELSE item[m])
    BY <2>1, TaskParallelAssumption
  <2>3. Contract!HoldForWriting(t, k)
    BY <2>1, <2>2 DEF Contract!HoldForWriting, Contract!Free
  <2> QED BY <2>3 DEF Contract!Next
<1>3. ASSUME NEW t \in Threads, FoundFilled(t) \/ GetterCancelled(t) \/ Release(t)
      PROVE  Contract!Next
  <2>1. PICK k \in Keys :
          /\ stack[t] # <<>> /\ Top(t).pc \in WritingPCs /\ k = Top(t).key
          /\ writer' = [writer EXCEPT ![k] = NoThread] /\ item' = item
    BY <1>3, AtTop DEF FoundFilled, GetterCancelled, Release, Unlock, WritingPCs
  <2>2. writer[k] = t
    BY <2>1, TopOwns
  <2>3. /\ {writer[k]} \ {NoThread} = {t}
        /\ \A m \in Keys : {writer'[m]} \ {NoThread}
                            = IF m = k THEN {} ELSE {writer[m]} \ {NoThread}
    BY <2>1, <2>2, TaskParallelAssumption
  <2>4. Contract!LetGo(t, k)
    <3> DEFINE entry == [m \in Keys |-> IF item[m] = "absent" THEN "uncached" ELSE item[m]]
               none == [m \in Keys |-> {}]
               w == [m \in Keys |-> {writer[m]} \ {NoThread}]
    <3>1. [m \in Keys |-> IF item'[m] = "absent" THEN "uncached" ELSE item'[m]] = entry
      BY <2>1
    <3>2. none = [none EXCEPT ![k] = none[k] \ {t}]
      OBVIOUS
    <3>3. [m \in Keys |-> {writer'[m]} \ {NoThread}] = [w EXCEPT ![k] = w[k] \ {t}]
      BY <2>3
    <3>4. t \in none[k] \cup w[k]
      BY <2>3
    <3> QED BY <3>1, <3>2, <3>3, <3>4 DEF Contract!LetGo
  <2> QED BY <2>4 DEF Contract!Next
<1>4. ASSUME NEW t \in Threads, Store(t) PROVE Contract!Next
  <2>1. PICK k \in Keys :
          stack[t] # <<>> /\ Top(t).pc = "computed" /\ k = Top(t).key /\ writer' = writer
    BY <1>4, AtTop DEF Store
  <2>2. PICK s \in {"cached", "failed"} : item' = [item EXCEPT ![k] = s]
    BY <1>4, <2>1 DEF Store
  <2>3. writer[k] = t /\ item[k] = "uncached"
    BY <2>1, TopOwns DEF WritingPCs
  <2>4. Contract!Fill(t, k)
    BY <2>1, <2>2, <2>3, TaskParallelAssumption DEF Contract!Fill
  <2> QED BY <2>4 DEF Contract!Next
<1>5. ASSUME NEW t \in Threads, Pop(t) PROVE Contract!Next
  <2>1. PICK k \in Keys : writer[k] = NoThread /\ item' = [item EXCEPT ![k] = "absent"]
    BY <1>5 DEF Pop, Poppable
  <2>2. writer' = writer
    BY <1>5 DEF Pop
  <2>3. Contract!Evict(k)
    BY <2>1, <2>2 DEF Contract!Evict, Contract!Free
  <2> QED BY <2>1, <2>3 DEF Contract!Next
<1>6. CASE UNCHANGED vars
  BY <1>1, <1>6 DEF vars
<1>7. ASSUME NEW t \in Threads,
             \/ Call(t) \/ AcquireHit(t) \/ AcquireRetry(t) \/ AcquireNested(t)
             \/ NestedReturns(t) \/ AcceptWork(t) \/ JoinArena(t) \/ TakeTask(t)
             \/ LeafReturns(t) \/ LeaveArena(t) \/ ComputeAlone(t) \/ BeginExecute(t)
             \/ RunGetter(t) \/ EndExecute(t) \/ Limited(t) \/ Cancelled(t)
             \/ WorkerTakesTask(t)
      PROVE  UNCHANGED <<item, writer>>
  BY <1>7 DEF Call, AcquireHit, AcquireRetry, AcquireNested, NestedReturns, AcceptWork,
       JoinArena, TakeTask, LeafReturns, LeaveArena, ComputeAlone, BeginExecute, RunGetter,
       EndExecute, Limited, Cancelled, WorkerTakesTask
<1>8. CASE Next
  BY <1>1, <1>2, <1>3, <1>4, <1>5, <1>7, <1>8, NextActions
<1> QED BY <1>6, <1>8

(* Every behaviour of the TaskParallel policy, tasks that get entries of    *)
(* the cache included, is one of CacheContract.                             *)
THEOREM CacheImplementsContract == Spec => ImplementsContract
<1>1. Init => Contract!Init
  BY DEF Init, Contract!Init
<1>2. IInv /\ [Next]_vars => [Contract!Next]_(Contract!vars)
  BY ContractStep
<1> QED BY <1>1, <1>2, Invariant, PTL DEF Spec, ImplementsContract, Contract!Spec
====
