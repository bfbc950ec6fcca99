---------------------------- MODULE SharedCaches ----------------------------
(***************************************************************************)
(* The two caches every AvReader node shares, and how the nodes use them.  *)
(* Compute threads ask SharedFrames for a frame of a movie; its getter     *)
(* asks SharedDecoders for the movie's decoder, whose getter opens the     *)
(* file.  Meanwhile files are replaced, and setting a refreshCount plug    *)
(* clears first the frames and then the decoders, for all nodes.           *)
(*                                                                         *)
(* Each cache is what CacheContract promises: one thread fills an entry    *)
(* while the others wait, and only entries nobody is filling are evicted.  *)
(* What ends limitCost() and clear() early is taken from ParallelLRU:      *)
(* another thread is popping.                                              *)
(*                                                                         *)
(* Four of the variables are history: which version of every file the user *)
(* asked to see, and which entries came in behind the back of a refresh.   *)
(***************************************************************************)
EXTENDS Integers, FiniteSets

CONSTANTS
  Threads,      (* the compute threads                                      *)
  Movies,       (* the decoder keys in use: file name and filter graph      *)
  Frames,       (* the frame numbers asked for                              *)
  MaxDecoders,  (* maxCost of SharedDecoders, 200 in the code               *)
  MaxFrames,    (* maxCost of SharedFrames, 200 in the code                 *)
  MaxVersion,   (* a bound: with this version of a file no more are written *)
  Budget,       (* a bound on the requests made                             *)
  MaxRefreshes  (* a bound on how often a plug is set                       *)

ASSUME SharedCachesAssumption ==
  /\ IsFiniteSet(Threads) /\ IsFiniteSet(Movies)
  /\ Movies # {} /\ Frames # {}
  /\ Movies \cap (Movies \X Frames) = {}
  /\ MaxDecoders \in Nat \ {0} /\ MaxFrames \in Nat \ {0}
  /\ MaxVersion \in Nat \ {0} /\ Budget \in Nat /\ MaxRefreshes \in Nat

VARIABLES
  disk,       (* disk[m]: the version of m's file                           *)
  decoders,   (* decoders[m]: the entry of SharedDecoders for m             *)
  frames,     (* frames[k]: the entry of SharedFrames for k = <<m, n>>      *)
  pc,         (* pc[t]: where compute thread t is                           *)
  want,       (* want[t]: the frame t works on, as <<movie, frame number>>  *)
  using,      (* using[t]: the decoder entry t got or is making             *)
  request,    (* request[t]: what t needs: "frame", or only a "decoder"     *)
  refresh,    (* where _plugSet is                                          *)
  requests,   (* the requests the threads may still make                    *)
  refreshes,  (* how many times a plug was set                              *)
  asked,      (* the files as they were when refreshCount was last set      *)
  due,        (* those as they were when the last completed refresh began   *)
  overlap,    (* the threads whose request was in progress in a refresh     *)
  stray       (* the keys whose entry a refresh could not clear: put in by  *)
              (* an overlapping request, or left when clear() ended early   *)

vars == <<disk, decoders, frames, pc, want, using, request, refresh,
          requests, refreshes, asked, due, overlap, stray>>

FrameKeys == Movies \X Frames

(* A decoder entry names its Decoder object by a number, and an entry with  *)
(* an error has none; the entry of a frame says if there is a decoded one   *)
(* in the same way.  Every entry remembers which version of the file it was  *)
(* made from.                                                               *)
NoEntry == [state |-> "none", version |-> 0, decoder |-> 0]
Loading == [state |-> "loading", version |-> 0, decoder |-> 0]
Cached(v, d) == [state |-> "cached", version |-> v, decoder |-> d]

Entries == {NoEntry, Loading}
             \cup [state : {"cached"}, version : Nat, decoder : Nat]

AnyKey == CHOOSE k \in FrameKeys : TRUE

Movie(t) == want[t][1]

Init ==
  /\ disk = [m \in Movies |-> 1]
  /\ decoders = [m \in Movies |-> NoEntry]
  /\ frames = [k \in FrameKeys |-> NoEntry]
  /\ pc = [t \in Threads |-> "idle"]
  /\ want = [t \in Threads |-> AnyKey]
  /\ using = [t \in Threads |-> NoEntry]
  /\ request = [t \in Threads |-> "frame"]
  /\ refresh = "idle"
  /\ requests = Budget
  /\ refreshes = 0
  /\ asked = [m \in Movies |-> 0] /\ due = [m \in Movies |-> 0]
  /\ overlap = {} /\ stray = {}

Goto(t, p) == pc' = [pc EXCEPT ![t] = p]

Return(t) ==
  /\ Goto(t, "idle")
  /\ want' = [want EXCEPT ![t] = AnyKey]
  /\ using' = [using EXCEPT ![t] = NoEntry]
  /\ request' = [request EXCEPT ![t] = "frame"]

-----------------------------------------------------------------------------
CachedKeys(cache) == {k \in DOMAIN cache : cache[k].state = "cached"}

AtLimit(p) == {t \in Threads : pc[t] = p}

(* The history, which every step keeps.                                     *)
AllCached == CachedKeys(frames) \cup CachedKeys(decoders)

(* The thread that takes the step, if it is a compute thread's.             *)
Movers == {t \in Threads : pc'[t] # pc[t]}

(* A request for a frame of a stray decoder carries it on.                  *)
UsesStray(t) ==
  /\ pc[t] = "decoder" /\ pc'[t] # "decoder"
  /\ Movie(t) \in CachedKeys(decoders) \cap stray

History ==
  LET busy == {t \in Threads : pc'[t] # "idle"}
      left == IF refresh = "clearDecoders"
              THEN IF AtLimit("limitDecoders") # {} THEN CachedKeys(decoders) ELSE {}
              ELSE IF AtLimit("limitFrames") # {} THEN CachedKeys(frames) ELSE {}
  IN
  /\ asked' = IF refresh = "idle" /\ refresh' = "clearFrames" THEN disk ELSE asked
  /\ due' = IF refresh = "clearDecoders" /\ refresh' = "idle" THEN asked ELSE due
  /\ overlap' = IF refresh' # "idle" THEN busy
                ELSE busy \cap (overlap \cup {t \in Movers : UsesStray(t)})
  /\ stray' = AllCached' \cap
       (stray \cup (IF refresh' # refresh THEN left ELSE {})
              \cup (IF Movers \cap overlap # {} THEN AllCached' \ AllCached ELSE {}))

-----------------------------------------------------------------------------
(* Requests.                                                                *)

(* _retrieveFrame and _retrieveDecoder: an image plug needs a frame;        *)
(* fileValid, availableFrames or probe needs only a decoder.  A held frame  *)
(* takes _retrieveFrame two or three of these requests in a row.            *)
Request(t) == \E k \in FrameKeys, r \in {"frame", "decoder"} :
  /\ pc[t] = "idle" /\ requests > 0
  /\ Goto(t, r)
  /\ want' = [want EXCEPT ![t] = k]
  /\ request' = [request EXCEPT ![t] = r]
  /\ requests' = requests - 1
  /\ UNCHANGED <<disk, decoders, frames, using, refresh, refreshes>>
  /\ History

(* Entries with an error are not given out.                                 *)
FrameHitDecoded(t) ==
  /\ pc[t] = "frame"
  /\ frames[want[t]].state = "cached" /\ frames[want[t]].decoder # 0
  /\ Return(t)
  /\ UNCHANGED <<disk, decoders, frames, refresh, requests, refreshes>>
  /\ History

(* SharedFrames::get(): a hit returns the entry, a frame or an error.       *)
FrameHit(t) ==
  /\ pc[t] = "frame"
  /\ frames[want[t]].state = "cached"
  /\ Return(t)
  /\ UNCHANGED <<disk, decoders, frames, refresh, requests, refreshes>>
  /\ History

FrameMiss(t) ==
  /\ pc[t] = "frame"
  /\ frames[want[t]].state = "none"
  /\ frames' = [frames EXCEPT ![want[t]] = Loading]
  /\ Goto(t, "decoder")
  /\ UNCHANGED <<disk, decoders, want, using, request, refresh, requests, refreshes>>
  /\ History

-----------------------------------------------------------------------------
(* SharedDecoders::get(), from the frame getter or for a plug.              *)

(* What a thread does with a decoder entry: the frame getter decodes if     *)
(* there is a decoder, and has an entry with an error otherwise.            *)
HaveDecoder(t, e) ==
  \/ request[t] = "decoder" /\ Return(t)
  \/ /\ request[t] = "frame"
     /\ Goto(t, IF e.decoder # 0 THEN "decode" ELSE "storeError")
     /\ using' = [using EXCEPT ![t] = e]
     /\ UNCHANGED <<want, request>>

DecoderHit(t) ==
  /\ pc[t] = "decoder"
  /\ decoders[Movie(t)].state = "cached"
  /\ HaveDecoder(t, decoders[Movie(t)])
  /\ UNCHANGED <<disk, decoders, frames, refresh, requests, refreshes>>
  /\ History

DecoderMiss(t) ==
  /\ pc[t] = "decoder"
  /\ decoders[Movie(t)].state = "none"
  /\ decoders' = [decoders EXCEPT ![Movie(t)] = Loading]
  /\ Goto(t, "open")
  /\ UNCHANGED <<disk, frames, want, using, request, refresh, requests, refreshes>>
  /\ History

(* A Decoder object is freed with the last entry that has it, so a new one  *)
(* may have the place of an old one, but not of one that is in use.         *)
NewDecoder ==
  LET used == {decoders[m].decoder : m \in Movies} \cup {using[t].decoder : t \in Threads}
  IN CHOOSE d \in 1 .. Cardinality(used) + 1 : d \notin used

(* A getter that throws for a file it cannot open, before its entry is      *)
(* given a status.                                                          *)
OpenDecoderThrows(t) == \E d \in {0, NewDecoder} :
  /\ pc[t] = "open"
  /\ IF d = 0 THEN Return(t)
     ELSE /\ using' = [using EXCEPT ![t] = Cached(disk[Movie(t)], d)]
          /\ Goto(t, "storeDecoder")
          /\ UNCHANGED <<want, request>>
  /\ UNCHANGED <<disk, decoders, frames, refresh, requests, refreshes>>
  /\ History

(* The getter opens the file as it is now.  A file that cannot be opened,   *)
(* or has no video, gives an entry with an error, which is cached as well.  *)
OpenDecoder(t) == \E d \in {0, NewDecoder} :
  /\ pc[t] = "open"
  /\ using' = [using EXCEPT ![t] = Cached(disk[Movie(t)], d)]
  /\ Goto(t, "storeDecoder")
  /\ UNCHANGED <<disk, decoders, frames, want, request, refresh, requests, refreshes>>
  /\ History

StoreDecoder(t) ==
  /\ pc[t] = "storeDecoder"
  /\ decoders' = [decoders EXCEPT ![Movie(t)] = using[t]]
  /\ Goto(t, "limitDecoders")
  /\ UNCHANGED <<disk, frames, want, using, request, refresh, requests, refreshes>>
  /\ History

-----------------------------------------------------------------------------
(* The rest of the frame getter.                                            *)

(* Decoder::DecodeVideoFrame() on the shared Decoder object, from its first *)
(* statement to its last.                                                   *)
BeginDecode(t) ==
  /\ pc[t] = "decode"
  /\ Goto(t, "decoding")
  /\ UNCHANGED <<disk, decoders, frames, want, using, request, refresh, requests, refreshes>>
  /\ History

EndDecode(t) ==
  /\ pc[t] = "decoding"
  /\ \/ Goto(t, "storeFrame")
     \/ Goto(t, "storeError")
  /\ UNCHANGED <<disk, decoders, frames, want, using, request, refresh, requests, refreshes>>
  /\ History

(* The frame, or the error, is the entry.                                   *)
StoreFrame(t) ==
  LET d == IF pc[t] = "storeFrame" THEN 1 ELSE 0 IN
  /\ pc[t] \in {"storeFrame", "storeError"}
  /\ frames' = [frames EXCEPT ![want[t]] = Cached(using[t].version, d)]
  /\ Goto(t, "limitFrames")
  /\ UNCHANGED <<disk, decoders, want, using, request, refresh, requests, refreshes>>
  /\ History

-----------------------------------------------------------------------------
(* limitCost(), by the thread that put an entry in: while there are too     *)
(* many (every entry costs 1) some entry goes that nobody is filling.  The  *)
(* thread gives up if another one is popping from the same cache.           *)
EvictDecoder(t) == \E m \in CachedKeys(decoders) :
  /\ pc[t] = "limitDecoders"
  /\ Cardinality(CachedKeys(decoders)) > MaxDecoders
  /\ decoders' = [decoders EXCEPT ![m] = NoEntry]
  /\ UNCHANGED <<disk, frames, pc, want, using, request, refresh, requests, refreshes>>
  /\ History

DecodersLimited(t) ==
  /\ pc[t] = "limitDecoders"
  /\ \/ Cardinality(CachedKeys(decoders)) <= MaxDecoders
     \/ AtLimit("limitDecoders") # {t}
     \/ refresh = "clearDecoders"
  /\ HaveDecoder(t, using[t])
  /\ UNCHANGED <<disk, decoders, frames, refresh, requests, refreshes>>
  /\ History

(* An eviction that marks the entry as empty but keeps its value.           *)
EvictFrameState(t) == \E k \in CachedKeys(frames) :
  /\ pc[t] = "limitFrames"
  /\ Cardinality(CachedKeys(frames)) > MaxFrames
  /\ frames' = [frames EXCEPT ![k].state = "none"]
  /\ UNCHANGED <<disk, decoders, pc, want, using, request, refresh, requests, refreshes>>
  /\ History

EvictFrame(t) == \E k \in CachedKeys(frames) :
  /\ pc[t] = "limitFrames"
  /\ Cardinality(CachedKeys(frames)) > MaxFrames
  /\ frames' = [frames EXCEPT ![k] = NoEntry]
  /\ UNCHANGED <<disk, decoders, pc, want, using, request, refresh, requests, refreshes>>
  /\ History

FramesLimited(t) ==
  /\ pc[t] = "limitFrames"
  /\ \/ Cardinality(CachedKeys(frames)) <= MaxFrames
     \/ AtLimit("limitFrames") # {t}
     \/ refresh \in {"clearFrames", "clearOnlyFrames"}
  /\ Return(t)
  /\ UNCHANGED <<disk, decoders, frames, refresh, requests, refreshes>>
  /\ History

-----------------------------------------------------------------------------
(* _plugSet: a refreshCount plug clears SharedFrames and then               *)
(* SharedDecoders, a filterGraph plug only SharedFrames.                    *)
SetPlug == \E first \in {"clearFrames", "clearOnlyFrames"} :
  /\ refresh = "idle" /\ refreshes < MaxRefreshes
  /\ refresh' = first
  /\ refreshes' = refreshes + 1
  /\ UNCHANGED <<disk, decoders, frames, pc, want, using, request, requests>>
  /\ History

(* A clear that drops what threads are still filling.                       *)
ClearFrameWhileLoading ==
  /\ refresh \in {"clearFrames", "clearOnlyFrames"}
  /\ \E k \in {f \in FrameKeys : frames[f].state # "none"} :
       frames' = [frames EXCEPT ![k] = NoEntry]
  /\ UNCHANGED <<disk, decoders, pc, want, using, request, refresh, requests, refreshes>>
  /\ History

(* clear() pops one entry after the other, until there is none that nobody  *)
(* is filling, or until it finds another thread popping.                    *)
ClearFrame ==
  /\ refresh \in {"clearFrames", "clearOnlyFrames"}
  /\ \E k \in CachedKeys(frames) : frames' = [frames EXCEPT ![k] = NoEntry]
  /\ UNCHANGED <<disk, decoders, pc, want, using, request, refresh, requests, refreshes>>
  /\ History

(* A refresh that does not clear the frames.                                *)
FramesNotCleared ==
  /\ refresh \in {"clearFrames", "clearOnlyFrames"}
  /\ refresh' = IF refresh = "clearFrames" THEN "clearDecoders" ELSE "idle"
  /\ UNCHANGED <<disk, decoders, frames, pc, want, using, request, requests, refreshes>>
  /\ History

FramesCleared ==
  /\ refresh \in {"clearFrames", "clearOnlyFrames"}
  /\ CachedKeys(frames) = {} \/ AtLimit("limitFrames") # {}
  /\ refresh' = IF refresh = "clearFrames" THEN "clearDecoders" ELSE "idle"
  /\ UNCHANGED <<disk, decoders, frames, pc, want, using, request, requests, refreshes>>
  /\ History

ClearDecoder ==
  /\ refresh = "clearDecoders"
  /\ \E m \in CachedKeys(decoders) : decoders' = [decoders EXCEPT ![m] = NoEntry]
  /\ UNCHANGED <<disk, frames, pc, want, using, request, refresh, requests, refreshes>>
  /\ History

DecodersCleared ==
  /\ refresh = "clearDecoders"
  /\ CachedKeys(decoders) = {} \/ AtLimit("limitDecoders") # {}
  /\ refresh' = "idle"
  /\ UNCHANGED <<disk, decoders, frames, pc, want, using, request, requests, refreshes>>
  /\ History

(* Somebody puts a new version of a movie file in the place of the old one. *)
Replace == \E m \in Movies :
  /\ \A o \in Movies : disk[o] < MaxVersion
  /\ disk' = [disk EXCEPT ![m] = @ + 1]
  /\ UNCHANGED <<decoders, frames, pc, want, using, request, refresh, requests, refreshes>>
  /\ History

-----------------------------------------------------------------------------
GetFrame(t) ==
  \/ FrameHit(t) \/ FrameMiss(t) \/ BeginDecode(t) \/ EndDecode(t)
  \/ StoreFrame(t) \/ EvictFrame(t) \/ FramesLimited(t)

GetDecoder(t) ==
  \/ DecoderHit(t) \/ DecoderMiss(t) \/ OpenDecoder(t) \/ StoreDecoder(t)
  \/ EvictDecoder(t) \/ DecodersLimited(t)

Refresh ==
  \/ SetPlug
  \/ ClearFrame \/ FramesCleared \/ ClearDecoder \/ DecodersCleared

Next ==
  \/ \E t \in Threads : Request(t) \/ GetFrame(t) \/ GetDecoder(t)
  \/ Refresh
  \/ Replace

Spec == Init /\ [][Next]_vars

(* Threads that are computing keep running; nothing obliges anyone to ask,  *)
(* to set plugs or to write files.                                          *)
FairSpec == Spec /\ \A t \in Threads : WF_vars(GetFrame(t) \/ GetDecoder(t))

-----------------------------------------------------------------------------
LoadingFramePCs == {"decode", "decoding", "storeFrame", "storeError"}
LoadingDecoderPCs == {"open", "storeDecoder"}
PCs == {"idle", "frame", "decoder", "limitDecoders", "limitFrames"}
         \cup LoadingFramePCs \cup LoadingDecoderPCs

(* Every variable has a value of its kind; an entry without a value keeps   *)
(* nothing of the one it had.                                               *)
TypeOK ==
  /\ disk \in [Movies -> 1 .. MaxVersion]
  /\ decoders \in [Movies -> Entries]
  /\ frames \in [FrameKeys -> Entries]
  /\ pc \in [Threads -> PCs]
  /\ want \in [Threads -> FrameKeys]
  /\ using \in [Threads -> Entries]
  /\ request \in [Threads -> {"frame", "decoder"}]
  /\ refresh \in {"idle", "clearFrames", "clearOnlyFrames", "clearDecoders"}
  /\ requests \in Nat /\ refreshes \in Nat
  /\ asked \in [Movies -> Nat] /\ due \in [Movies -> Nat]
  /\ overlap \subseteq Threads /\ stray \subseteq Movies \cup FrameKeys

(* The threads that are filling an entry of either cache.  The frame getter *)
(* keeps its entry while it waits for, opens or limits the decoders.        *)
FrameLoaders(k) == {t \in Threads :
  /\ want[t] = k
  /\ \/ pc[t] \in LoadingFramePCs
     \/ request[t] = "frame"
        /\ pc[t] \in LoadingDecoderPCs \cup {"decoder", "limitDecoders"}}

DecoderLoaders(m) == {t \in Threads : Movie(t) = m /\ pc[t] \in LoadingDecoderPCs}

(* A frame is decoded, and a movie opened, by one thread at a time, and an  *)
(* entry others wait for always has a thread that will complete it, however *)
(* requests, evictions and clears interleave (SharedFrames.cpp:22-38,       *)
(* SharedDecoders.cpp:19-40 called from LRUCache::get()).                   *)
OneLoaderPerEntry ==
  /\ \A k \in FrameKeys : Cardinality(FrameLoaders(k)) =
       (IF frames[k].state = "loading" THEN 1 ELSE 0)
  /\ \A m \in Movies : Cardinality(DecoderLoaders(m)) =
       (IF decoders[m].state = "loading" THEN 1 ELSE 0)

(* Who waits for whom: a request that finds its entry being made waits for  *)
(* the thread that makes it, and may be making a frame itself.              *)
WaitsFor(t, u) ==
  \/ pc[t] = "frame" /\ frames[want[t]].state = "loading" /\ u \in FrameLoaders(want[t])
  \/ pc[t] = "decoder" /\ decoders[Movie(t)].state = "loading" /\ u \in DecoderLoaders(Movie(t))

CanGoOn(t) ==
  /\ pc[t] = "frame" => frames[want[t]].state # "loading"
  /\ pc[t] = "decoder" => decoders[Movie(t)].state # "loading"

(* No circle of waiting: whoever waits for an entry of either cache waits   *)
(* for a thread that can go on, or for one that itself waits for such a     *)
(* thread, because a frame's getter asks for a decoder and a decoder's for  *)
(* nothing (SharedFrames.cpp:22-38).                                        *)
WaitsForWorker == \A t \in Threads : ~ CanGoOn(t) =>
  \E u \in Threads : WaitsFor(t, u) /\
    (CanGoOn(u) \/ \E v \in Threads : WaitsFor(u, v) /\ CanGoOn(v))

(* A Decoder has one read position per stream, so two threads must not be   *)
(* decoding with it at the same time (README.md:29).                        *)
DecoderNotShared == \A t, u \in Threads :
  t # u /\ pc[t] = "decoding" /\ pc[u] = "decoding"
    => using[t].decoder # using[u].decoder

(* Every request returns: the getter of one cache calling into the other    *)
(* never leaves two threads waiting for each other, and a failure to open   *)
(* or decode leaves nobody waiting.  The threads are alike, so it is enough *)
(* to say it of one of them.                                                *)
RequestsReturn ==
  LET t == CHOOSE u \in Threads : TRUE IN pc[t] # "idle" ~> pc[t] = "idle"

(* An entry that is older than the last refresh, however the plugs are set, *)
(* the limits reached and the files replaced, is one that an overlapping    *)
(* request put in or that clear() left because another thread was popping:  *)
(* a refresh nobody overlaps shows new files, which takes both clears of    *)
(* _plugSet, each frame's cache depending on the decoder's.                 *)
StaleHasCause == refresh = "idle" =>
  /\ \A k \in CachedKeys(frames) \ stray : frames[k].version >= due[k[1]]
  /\ \A m \in CachedKeys(decoders) \ stray : decoders[m].version >= due[m]

(* "This clears the cache every time the refresh count is updated, so we    *)
(* don't have entries from old files hanging around."                       *)
(* (av_reader.cpp:684-685): once a refresh is over and no request is in     *)
(* progress, no cached frame is older than the refresh.                     *)
FreshAfterRefresh ==
  refresh = "idle" /\ (\A t \in Threads : pc[t] = "idle")
    => \A k \in CachedKeys(frames) : frames[k].version >= due[k[1]]

=============================================================================
