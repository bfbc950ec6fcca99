----------------------------- MODULE LogRedirect -----------------------------
(***************************************************************************)
(* ilp_movie's log callback is one global std::function.  Decoder::Open()  *)
(* borrows it: to collect av_dump_format()'s lines for Probe() it saves    *)
(* the callback, installs a lambda that writes to a local stream, and puts *)
(* the saved callback back.  SharedDecoders opens different movies on      *)
(* different threads, while others log.                                    *)
(*                                                                         *)
(* A mutex serialises the calls of the callback, but SetLogCallback() and  *)
(* GetLogCallback() do not take it, so an assignment lasts from one step   *)
(* to another and whoever reads meanwhile may find either value or neither *)
(* (a data race).  The log level is left out: libav's default, initLog's   *)
(* and the probe's are all kInfo.                                          *)
(***************************************************************************)
EXTENDS Integers, FiniteSets

CONSTANTS
  Threads,  (* the threads that open decoders and log                       *)
  User,     (* the callback Startup::initLog() installs                     *)
  Torn,     (* a std::function read in the middle of an assignment          *)
  Lines,    (* how many lines av_dump_format() logs                         *)
  Budget    (* a bound on how often a thread opens or logs                  *)

ASSUME LogRedirectAssumption ==
  /\ User # Torn /\ User \notin Threads /\ Torn \notin Threads
  /\ Lines \in Nat /\ Budget \in Nat

VARIABLES
  callback,  (* IlpLogCallback: User, or the thread whose Open() made it    *)
  mutex,     (* the threads that hold the mutex of log.cpp                  *)
  pc,        (* where each thread is                                        *)
  saved,     (* saved[t]: push_cb                                           *)
  target,    (* target[t]: the callback t is calling                        *)
  dumped,    (* dumped[t]: the lines t's av_dump_format() has logged        *)
  collected, (* collected[t]: how many of them are in t's stream            *)
  budget,
  apart      (* history: no two probes have overlapped                      *)

vars == <<callback, mutex, pc, saved, target, dumped, collected,
          budget, apart>>

Callbacks == Threads \cup {User, Torn}

(* Where a thread is between GetLogCallback() and the return of the probe.  *)
ProbingPCs == {"install", "installing", "dump", "dumping", "restore",
               "restoring", "return"}

Goto(t, p) == pc' = [pc EXCEPT ![t] = p]

Init ==
  /\ callback = User
  /\ mutex = {}
  /\ pc = [t \in Threads |-> "idle"]
  /\ saved = [t \in Threads |-> User]
  /\ target = [t \in Threads |-> User]
  /\ dumped = [t \in Threads |-> 0]
  /\ collected = [t \in Threads |-> 0]
  /\ budget = [t \in Threads |-> Budget]
  /\ apart = TRUE

(* What reading the std::function can give.                                 *)
Incoming(t) == IF pc[t] = "installing" THEN t ELSE saved[t]
Assigning == {t \in Threads : pc[t] \in {"installing", "restoring"}}
Readable == {callback} \cup
  (IF Assigning = {} THEN {} ELSE {Incoming(t) : t \in Assigning} \cup {Torn})

-----------------------------------------------------------------------------
(* Calling the callback: LogMsg() and IlpMovieAvLogCallback().              *)

(* A call of the callback without the mutex.                                *)
CallUnlocked(t, p) ==
  /\ mutex' = mutex \cup {t}
  /\ target' \in {[target EXCEPT ![t] = c] : c \in Readable}
  /\ Goto(t, p)

CallBegins(t, p) ==
  /\ mutex = {}
  /\ mutex' = {t}
  /\ target' \in {[target EXCEPT ![t] = c] : c \in Readable}
  /\ Goto(t, p)

CallEnds(t, p) ==
  /\ mutex' = {}
  /\ target' = [target EXCEPT ![t] = User]
  /\ Goto(t, p)

(* Any function of ilp_movie, or a libav thread, logs a message.            *)
Log(t) ==
  /\ pc[t] = "idle" /\ budget[t] > 0
  /\ budget' = [budget EXCEPT ![t] = @ - 1]
  /\ CallBegins(t, "logging")
  /\ UNCHANGED <<callback, saved, dumped, collected, apart>>

Logged(t) ==
  /\ pc[t] = "logging"
  /\ CallEnds(t, "idle")
  /\ UNCHANGED <<callback, saved, dumped, collected, budget, apart>>

-----------------------------------------------------------------------------
(* The probe of Decoder::Open().                                            *)

(* push_cb = GetLogCallback().                                              *)
SaveCallback(t) ==
  /\ pc[t] = "idle" /\ budget[t] > 0
  /\ budget' = [budget EXCEPT ![t] = @ - 1]
  /\ saved' \in {[saved EXCEPT ![t] = c] : c \in Readable}
  /\ apart' = (apart /\ \A u \in Threads : pc[u] \notin ProbingPCs)
  /\ Goto(t, "install")
  /\ UNCHANGED <<callback, mutex, target, dumped, collected>>

(* SetLogCallback() with the lambda, from its first write to its last.      *)
BeginInstall(t) ==
  /\ pc[t] = "install"
  /\ Goto(t, "installing")
  /\ UNCHANGED <<callback, mutex, saved, target, dumped, collected, budget, apart>>

EndInstall(t) ==
  /\ pc[t] = "installing"
  /\ callback' = t
  /\ Goto(t, "dump")
  /\ UNCHANGED <<mutex, saved, target, dumped, collected, budget, apart>>

(* av_dump_format() logs line by line.                                      *)
DumpLine(t) ==
  /\ pc[t] = "dump" /\ dumped[t] < Lines
  /\ CallBegins(t, "dumping")
  /\ UNCHANGED <<callback, saved, dumped, collected, budget, apart>>

LineDumped(t) ==
  /\ pc[t] = "dumping"
  /\ dumped' = [dumped EXCEPT ![t] = @ + 1]
  /\ collected' = [collected EXCEPT ![t] = IF target[t] = t THEN @ + 1 ELSE @]
  /\ CallEnds(t, "dump")
  /\ UNCHANGED <<callback, saved, budget, apart>>

(* Restoring with some lines still to come.                                 *)
DumpDoneEarly(t) ==
  /\ pc[t] = "dump"
  /\ Goto(t, "restore")
  /\ UNCHANGED <<callback, mutex, saved, target, dumped, collected, budget, apart>>

DumpDone(t) ==
  /\ pc[t] = "dump" /\ dumped[t] = Lines
  /\ Goto(t, "restore")
  /\ UNCHANGED <<callback, mutex, saved, target, dumped, collected, budget, apart>>

(* SetLogCallback( push_cb ).                                               *)
BeginRestore(t) ==
  /\ pc[t] = "restore"
  /\ Goto(t, "restoring")
  /\ UNCHANGED <<callback, mutex, saved, target, dumped, collected, budget, apart>>

(* A probe that leaves its lambda installed.                                *)
EndRestoreForgotten(t) ==
  /\ pc[t] = "restoring"
  /\ Goto(t, "return")
  /\ UNCHANGED <<callback, mutex, saved, target, dumped, collected, budget, apart>>

EndRestore(t) ==
  /\ pc[t] = "restoring"
  /\ callback' = saved[t]
  /\ Goto(t, "return")
  /\ UNCHANGED <<mutex, saved, target, dumped, collected, budget, apart>>

(* The probe's text is taken and the local stream destroyed.                *)
ProbeReturns(t) ==
  /\ pc[t] = "return"
  /\ Goto(t, "idle")
  /\ saved' = [saved EXCEPT ![t] = User]
  /\ dumped' = [dumped EXCEPT ![t] = 0]
  /\ collected' = [collected EXCEPT ![t] = 0]
  /\ UNCHANGED <<callback, mutex, target, budget, apart>>

-----------------------------------------------------------------------------
Probe(t) ==
  \/ BeginInstall(t) \/ EndInstall(t) \/ DumpLine(t) \/ LineDumped(t)
  \/ DumpDone(t) \/ BeginRestore(t) \/ EndRestore(t) \/ ProbeReturns(t)

Next == \E t \in Threads :
  Log(t) \/ Logged(t) \/ SaveCallback(t) \/ Probe(t)

Spec == Init /\ [][Next]_vars

-----------------------------------------------------------------------------
(* Every variable has a value of its kind; one thread at a time calls the   *)
(* callback.                                                                *)
TypeOK ==
  /\ callback \in Callbacks
  /\ mutex \subseteq Threads /\ Cardinality(mutex) <= 1
  /\ pc \in [Threads -> {"idle", "logging"} \cup ProbingPCs]
  /\ saved \in [Threads -> Callbacks] /\ target \in [Threads -> Callbacks]
  /\ dumped \in [Threads -> 0 .. Lines]
  /\ \A t \in Threads : collected[t] \in 0 .. dumped[t]
  /\ budget \in [Threads -> Nat]
  /\ apart \in BOOLEAN

(* Probes that do not overlap leave the user's callback installed, whatever *)
(* other threads log meanwhile (decoder.cpp:466-473).                       *)
RestoredIfApart ==
  apart /\ (\A t \in Threads : pc[t] \notin ProbingPCs) => callback = User

(* Probes that do not overlap miss no line of their dump.                   *)
ProbeCompleteIfApart == \A t \in Threads :
  apart /\ pc[t] = "return" => collected[t] = Lines

(* "Initialize logging so that Gaffer picks up log messages from the        *)
(* ilp_movie function calls" (startup.cpp:22): when no decoder is being     *)
(* opened, messages go to the callback initLog() installed.                 *)
GafferHearsMessages ==
  (\A t \in Threads : pc[t] \notin ProbingPCs) => callback = User

=============================================================================
