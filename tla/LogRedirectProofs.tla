-------------------------- MODULE LogRedirectProofs --------------------------
(* Theorems about LogRedirect, for any threads, dumps of any length and any  *)
(* number of probes and messages.                                           *)
EXTENDS LogRedirect, FiniteSetTheorems, TLAPS

(* In the dump the lambda is in place, or is about to be replaced.          *)
InstalledPCs == {"dump", "dumping", "restore", "restoring"}

Types ==
  /\ callback \in Callbacks
  /\ mutex = {} \/ \E t \in Threads : mutex = {t}
  /\ pc \in [Threads -> {"idle", "logging"} \cup ProbingPCs]
  /\ saved \in [Threads -> Callbacks] /\ target \in [Threads -> Callbacks]
  /\ dumped \in [Threads -> 0 .. Lines] /\ collected \in [Threads -> Nat]
  /\ budget \in [Threads -> Nat]
  /\ apart \in BOOLEAN

(* What the position of a thread tells of its dump.                         *)
Dump(t) ==
  /\ collected[t] <= dumped[t]
  /\ pc[t] \notin InstalledPCs \cup {"return"} => dumped[t] = 0
  /\ pc[t] = "dumping" => dumped[t] < Lines
  /\ pc[t] \in {"restore", "restoring", "return"} => dumped[t] = Lines

(* As long as no two probes have overlapped there is one probe at a time,   *)
(* and its position tells which callback is installed and which is saved.   *)
OneProbe == \A t, u \in Threads : pc[t] \in ProbingPCs /\ pc[u] \in ProbingPCs => t = u

Borrowed(t) ==
  /\ pc[t] \in ProbingPCs \ {"return"} => saved[t] = User
  /\ pc[t] \in InstalledPCs => callback = t
  /\ pc[t] = "dumping" => target[t] = t
  /\ collected[t] = dumped[t]

NoneBorrows ==
  (\A t \in Threads : pc[t] \notin InstalledPCs) => callback = User

Apart == apart => OneProbe /\ NoneBorrows /\ \A t \in Threads : Borrowed(t)

IInv == Types /\ (\A t \in Threads : Dump(t)) /\ Apart

-----------------------------------------------------------------------------
LEMMA ReadableIsCallback ==
  ASSUME IInv
  PROVE  /\ Readable \subseteq Callbacks
         /\ (\A t \in Threads : pc[t] \notin {"installing", "restoring"}) => Readable = {callback}
BY DEF IInv, Types, Readable, Incoming, Assigning, Callbacks

LEMMA InitialInv == Init => IInv
BY LogRedirectAssumption
   DEF Init, IInv, Types, Dump, Apart, OneProbe, NoneBorrows, Borrowed, Callbacks,
       ProbingPCs, InstalledPCs

(* Steps of the probe that only go on.                                      *)
LEMMA GoesOn ==
  ASSUME IInv, NEW t \in Threads, NEW p, Goto(t, p),
         UNCHANGED <<callback, mutex, saved, target, dumped, collected, budget, apart>>,
         \/ pc[t] = "install" /\ p = "installing"
         \/ pc[t] = "dump" /\ p = "restore" /\ dumped[t] = Lines
         \/ pc[t] = "restore" /\ p = "restoring"
  PROVE  IInv'
<1>1. pc' = [pc EXCEPT ![t] = p] /\ pc \in [Threads -> {"idle", "logging"} \cup ProbingPCs]
  BY DEF Goto, IInv, Types
<1>2. Types'
  BY <1>1 DEF IInv, Types, Callbacks, ProbingPCs
<1>3. \A u \in Threads : Dump(u)'
  BY <1>1 DEF IInv, Dump, InstalledPCs
<1>4. Apart'
  BY <1>1 DEF IInv, Apart, OneProbe, NoneBorrows, Borrowed, ProbingPCs, InstalledPCs
<1> QED BY <1>2, <1>3, <1>4 DEF IInv

LEMMA LogKeepsInv == ASSUME IInv, NEW t \in Threads, Log(t) \/ Logged(t) PROVE IInv'
<1>1. PICK c \in Callbacks, b \in Nat, p \in {"logging", "idle"} :
        /\ pc[t] \in {"idle", "logging"} /\ pc' = [pc EXCEPT ![t] = p]
        /\ budget' = [budget EXCEPT ![t] = b]
        /\ target' = [target EXCEPT ![t] = c]
        /\ mutex' = {} \/ mutex' = {t}
        /\ UNCHANGED <<callback, saved, dumped, collected, apart>>
  <2>1. CASE Log(t)
    <3>1. PICK c \in Readable : target' = [target EXCEPT ![t] = c]
      BY <2>1 DEF Log, CallBegins
    <3>2. c \in Callbacks
      BY ReadableIsCallback
    <3>3. budget[t] - 1 \in Nat
      BY <2>1 DEF Log, IInv, Types
    <3> QED BY <2>1, <3>1, <3>2, <3>3 DEF Log, CallBegins, Goto
  <2>2. CASE Logged(t)
    <3>1. User \in Callbacks /\ budget[t] \in Nat /\ budget = [budget EXCEPT ![t] = budget[t]]
      BY DEF Callbacks, IInv, Types
    <3> QED BY <2>2, <3>1 DEF Logged, CallEnds, Goto
  <2> QED BY <2>1, <2>2
<1>2. Types'
  BY <1>1 DEF IInv, Types, ProbingPCs
<1>3. \A u \in Threads : Dump(u)'
  BY <1>1 DEF IInv, Types, Dump, InstalledPCs
<1>4. Apart'
  BY <1>1 DEF IInv, Types, Apart, OneProbe, NoneBorrows, Borrowed, ProbingPCs, InstalledPCs
<1> QED BY <1>2, <1>3, <1>4 DEF IInv

LEMMA SaveKeepsInv == ASSUME IInv, NEW t \in Threads, SaveCallback(t) PROVE IInv'
<1>1. PICK c \in Readable : saved' = [saved EXCEPT ![t] = c]
  BY DEF SaveCallback
<1>2. c \in Callbacks
  BY ReadableIsCallback
<1>3. /\ pc[t] = "idle" /\ pc' = [pc EXCEPT ![t] = "install"]
      /\ budget[t] > 0 /\ budget' = [budget EXCEPT ![t] = budget[t] - 1]
      /\ apart' = (apart /\ \A u \in Threads : pc[u] \notin ProbingPCs)
      /\ UNCHANGED <<callback, mutex, target, dumped, collected>>
  BY DEF SaveCallback, Goto
<1>4. Types'
  <2>1. apart' \in BOOLEAN
    BY <1>3
  <2>2. budget' \in [Threads -> Nat]
    BY <1>3 DEF IInv, Types
  <2> QED BY <1>1, <1>2, <1>3, <2>1, <2>2 DEF IInv, Types, ProbingPCs
<1>5. \A u \in Threads : Dump(u)'
  BY <1>3 DEF IInv, Types, Dump, InstalledPCs
<1>6. ASSUME apart' PROVE OneProbe' /\ NoneBorrows' /\ \A u \in Threads : Borrowed(u)'
  <2>1. apart /\ \A u \in Threads : pc[u] \notin ProbingPCs
    BY <1>3, <1>6
  <2>2. callback = User /\ c = User
    <3>1. callback = User
      BY <2>1 DEF IInv, Apart, NoneBorrows, ProbingPCs, InstalledPCs
    <3>2. Readable = {callback}
      BY <2>1, ReadableIsCallback DEF ProbingPCs
    <3> QED BY <3>1, <3>2
  <2>3. OneProbe'
    BY <1>3, <2>1 DEF IInv, Types, OneProbe, ProbingPCs
  <2>4. NoneBorrows'
    BY <1>3, <2>2 DEF NoneBorrows
  <2>5. \A u \in Threads : Borrowed(u)'
    BY <1>1, <1>3, <2>1, <2>2 DEF IInv, Types, Apart, Borrowed, ProbingPCs, InstalledPCs
  <2> QED BY <2>3, <2>4, <2>5
<1> QED BY <1>4, <1>5, <1>6 DEF IInv, Apart

LEMMA InstallKeepsInv == ASSUME IInv, NEW t \in Threads, EndInstall(t) PROVE IInv'
<1>1. /\ pc[t] = "installing" /\ pc' = [pc EXCEPT ![t] = "dump"] /\ callback' = t
      /\ UNCHANGED <<mutex, saved, target, dumped, collected, budget, apart>>
  BY DEF EndInstall, Goto
<1>2. Types'
  BY <1>1 DEF IInv, Types, Callbacks, ProbingPCs
<1>3. \A u \in Threads : Dump(u)'
  BY <1>1 DEF IInv, Types, Dump, InstalledPCs
<1>4. Apart'
  BY <1>1 DEF IInv, Types, Apart, OneProbe, NoneBorrows, Borrowed, ProbingPCs, InstalledPCs
<1> QED BY <1>2, <1>3, <1>4 DEF IInv

(* What the thread calls is its own lambda: nobody else is assigning.       *)
LEMMA DumpLineKeepsInv == ASSUME IInv, NEW t \in Threads, DumpLine(t) PROVE IInv'
<1>1. PICK c \in Readable : target' = [target EXCEPT ![t] = c]
  BY DEF DumpLine, CallBegins
<1>2. c \in Callbacks
  BY ReadableIsCallback
<1>3. /\ pc[t] = "dump" /\ pc' = [pc EXCEPT ![t] = "dumping"] /\ dumped[t] < Lines
      /\ mutex' = {t}
      /\ UNCHANGED <<callback, saved, dumped, collected, budget, apart>>
  BY DEF DumpLine, CallBegins, Goto
<1>4. Types'
  BY <1>1, <1>2, <1>3 DEF IInv, Types, ProbingPCs
<1>5. \A u \in Threads : Dump(u)'
  BY <1>3 DEF IInv, Types, Dump, InstalledPCs
<1>6. ASSUME apart PROVE c = t
  <2>1. \A u \in Threads : pc[u] \notin {"installing", "restoring"}
    BY <1>3, <1>6 DEF IInv, Apart, OneProbe, ProbingPCs
  <2>2. callback = t
    BY <1>3, <1>6 DEF IInv, Apart, Borrowed, InstalledPCs
  <2> QED BY <2>1, <2>2, ReadableIsCallback
<1>7. Apart'
  BY <1>1, <1>3, <1>6
     DEF IInv, Types, Apart, OneProbe, NoneBorrows, Borrowed, ProbingPCs, InstalledPCs
<1> QED BY <1>4, <1>5, <1>7 DEF IInv

LEMMA LineDumpedKeepsInv == ASSUME IInv, NEW t \in Threads, LineDumped(t) PROVE IInv'
<1>1. /\ pc[t] = "dumping" /\ pc' = [pc EXCEPT ![t] = "dump"]
      /\ dumped' = [dumped EXCEPT ![t] = dumped[t] + 1]
      /\ collected' = [collected EXCEPT ![t] =
           IF target[t] = t THEN collected[t] + 1 ELSE collected[t]]
      /\ mutex' = {} /\ target' = [target EXCEPT ![t] = User]
      /\ UNCHANGED <<callback, saved, budget, apart>>
  BY DEF LineDumped, CallEnds, Goto
<1>2. dumped[t] \in Nat /\ dumped[t] < Lines /\ collected[t] \in Nat /\ collected[t] <= dumped[t]
  BY <1>1, LogRedirectAssumption DEF IInv, Types, Dump
<1>3. Types'
  <2>1. dumped' \in [Threads -> 0 .. Lines]
    BY <1>1, <1>2, LogRedirectAssumption DEF IInv, Types
  <2>2. collected' \in [Threads -> Nat]
    BY <1>1, <1>2 DEF IInv, Types
  <2> QED BY <1>1, <2>1, <2>2 DEF IInv, Types, Callbacks, ProbingPCs
<1>4. \A u \in Threads : Dump(u)'
  BY <1>1, <1>2 DEF IInv, Types, Dump, InstalledPCs
<1>5. Apart'
  BY <1>1, <1>2 DEF IInv, Types, Apart, OneProbe, NoneBorrows, Borrowed, ProbingPCs, InstalledPCs
<1> QED BY <1>3, <1>4, <1>5 DEF IInv

LEMMA RestoreKeepsInv == ASSUME IInv, NEW t \in Threads, EndRestore(t) PROVE IInv'
<1>1. /\ pc[t] = "restoring" /\ pc' = [pc EXCEPT ![t] = "return"] /\ callback' = saved[t]
      /\ UNCHANGED <<mutex, saved, target, dumped, collected, budget, apart>>
  BY DEF EndRestore, Goto
<1>2. Types'
  BY <1>1 DEF IInv, Types, Callbacks, ProbingPCs
<1>3. \A u \in Threads : Dump(u)'
  BY <1>1 DEF IInv, Types, Dump, InstalledPCs
<1>4. Apart'
  BY <1>1 DEF IInv, Types, Apart, OneProbe, NoneBorrows, Borrowed, ProbingPCs, InstalledPCs
<1> QED BY <1>2, <1>3, <1>4 DEF IInv

LEMMA ReturnKeepsInv == ASSUME IInv, NEW t \in Threads, ProbeReturns(t) PROVE IInv'
<1>1. /\ pc[t] = "return" /\ pc' = [pc EXCEPT ![t] = "idle"]
      /\ saved' = [saved EXCEPT ![t] = User]
      /\ dumped' = [dumped EXCEPT ![t] = 0] /\ collected' = [collected EXCEPT ![t] = 0]
      /\ UNCHANGED <<callback, mutex, target, budget, apart>>
  BY DEF ProbeReturns, Goto
<1>2. Types'
  BY <1>1, LogRedirectAssumption DEF IInv, Types, Callbacks, ProbingPCs
<1>3. \A u \in Threads : Dump(u)'
  BY <1>1 DEF IInv, Types, Dump, InstalledPCs
<1>4. Apart'
  BY <1>1 DEF IInv, Types, Apart, OneProbe, NoneBorrows, Borrowed, ProbingPCs, InstalledPCs
<1> QED BY <1>2, <1>3, <1>4 DEF IInv

LEMMA StepKeepsInv == IInv /\ [Next]_vars => IInv'
<1> SUFFICES ASSUME IInv, [Next]_vars PROVE IInv'
  OBVIOUS
<1>1. ASSUME NEW t \in Threads, Log(t) \/ Logged(t) PROVE IInv'
  BY <1>1, LogKeepsInv
<1>2. ASSUME NEW t \in Threads, SaveCallback(t) PROVE IInv'
  BY <1>2, SaveKeepsInv
<1>3. ASSUME NEW t \in Threads, BeginInstall(t) \/ DumpDone(t) \/ BeginRestore(t) PROVE IInv'
  BY <1>3, GoesOn DEF BeginInstall, DumpDone, BeginRestore
<1>4. ASSUME NEW t \in Threads, Probe(t) PROVE IInv'
  BY <1>3, <1>4, InstallKeepsInv, DumpLineKeepsInv, LineDumpedKeepsInv, RestoreKeepsInv,
     ReturnKeepsInv DEF Probe
<1>5. CASE UNCHANGED vars
  BY <1>5 DEF vars, IInv, Types, Dump, Apart, OneProbe, NoneBorrows, Borrowed
<1> QED BY <1>1, <1>2, <1>4, <1>5 DEF Next

LEMMA Invariant == Spec => []IInv
BY InitialInv, StepKeepsInv, PTL DEF Spec

-----------------------------------------------------------------------------
(* Every variable keeps its kind, and one thread at a time calls the        *)
(* callback (log.cpp's mutex).                                              *)
THEOREM TypeCorrect == Spec => []TypeOK
<1>1. IInv => TypeOK
  <2> SUFFICES ASSUME IInv PROVE TypeOK
    OBVIOUS
  <2>1. mutex \subseteq Threads /\ Cardinality(mutex) <= 1
    <3>1. CASE mutex = {}
      <4>1. Cardinality(mutex) = 0
        BY <3>1, FS_EmptySet
      <4> QED BY <3>1, <4>1
    <3>2. CASE mutex # {}
      <4>1. PICK t \in Threads : mutex = {t}
        BY <3>2 DEF IInv, Types
      <4>2. Cardinality(mutex) = 1
        BY <4>1, FS_Singleton
      <4> QED BY <4>1, <4>2
    <3> QED BY <3>1, <3>2
  <2>2. \A t \in Threads : collected[t] \in 0 .. dumped[t]
    BY LogRedirectAssumption DEF IInv, Types, Dump
  <2> QED BY <2>1, <2>2 DEF IInv, Types, TypeOK
<1> QED BY <1>1, Invariant, PTL

(* Probes that do not overlap give the user's callback back, whatever the   *)
(* other threads log in between (decoder.cpp:466-473).                      *)
THEOREM CallbackIsRestored == Spec => []RestoredIfApart
<1>1. IInv => RestoredIfApart
  BY DEF IInv, Apart, NoneBorrows, RestoredIfApart, InstalledPCs, ProbingPCs
<1> QED BY <1>1, Invariant, PTL

(* Such a probe collects every line of its dump.                            *)
THEOREM ProbeIsComplete == Spec => []ProbeCompleteIfApart
<1>1. IInv => ProbeCompleteIfApart
  BY DEF IInv, Apart, Borrowed, Dump, ProbeCompleteIfApart
<1> QED BY <1>1, Invariant, PTL

=============================================================================
