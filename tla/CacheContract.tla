--------------------------- MODULE CacheContract ---------------------------
(***************************************************************************)
(* What a caller of LRUCache may rely on, whatever the policy: an entry is *)
(* filled by one thread at a time, a value or a cached failure is only     *)
(* replaced after it was taken out, an entry does not change under a       *)
(* thread that reads it, and only an entry nobody holds is evicted.        *)
(***************************************************************************)
CONSTANTS Threads, Keys

VARIABLES
  entry,    (* entry[k]: "uncached", "cached" or "failed"                   *)
  readers,  (* readers[k]: the threads that hold k's entry for reading      *)
  writers   (* writers[k]: the thread that holds it for writing, if any     *)

vars == <<entry, readers, writers>>

Statuses == {"uncached", "cached", "failed"}

Init ==
  /\ entry = [k \in Keys |-> "uncached"]
  /\ readers = [k \in Keys |-> {}]
  /\ writers = [k \in Keys |-> {}]

Free(k) == readers[k] = {} /\ writers[k] = {}

HoldForReading(t, k) ==
  /\ writers[k] = {}
  /\ readers' = [readers EXCEPT ![k] = @ \cup {t}]
  /\ UNCHANGED <<entry, writers>>

HoldForWriting(t, k) ==
  /\ Free(k)
  /\ writers' = [writers EXCEPT ![k] = {t}]
  /\ UNCHANGED <<entry, readers>>

(* The only way to a value or a failure is from an entry that has neither.  *)
Fill(t, k) == \E s \in {"cached", "failed"} :
  /\ writers[k] = {t}
  /\ entry[k] = "uncached"
  /\ entry' = [entry EXCEPT ![k] = s]
  /\ UNCHANGED <<readers, writers>>

TakeOut(t, k) ==
  /\ writers[k] = {t}
  /\ entry' = [entry EXCEPT ![k] = "uncached"]
  /\ UNCHANGED <<readers, writers>>

LetGo(t, k) ==
  /\ t \in readers[k] \cup writers[k]
  /\ readers' = [readers EXCEPT ![k] = @ \ {t}]
  /\ writers' = [writers EXCEPT ![k] = @ \ {t}]
  /\ UNCHANGED entry

Evict(k) ==
  /\ Free(k)
  /\ entry' = [entry EXCEPT ![k] = "uncached"]
  /\ UNCHANGED <<readers, writers>>

Next == \E k \in Keys :
  \/ Evict(k)
  \/ \E t \in Threads :
       \/ HoldForReading(t, k) \/ HoldForWriting(t, k)
       \/ Fill(t, k) \/ TakeOut(t, k) \/ LetGo(t, k)

Spec == Init /\ [][Next]_vars
=============================================================================
