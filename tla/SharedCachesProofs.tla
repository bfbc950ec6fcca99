-------------------------- MODULE SharedCachesProofs --------------------------
(* Theorems about SharedCaches, for any threads, movies, frames and limits,  *)
(* any number of requests, refreshes and versions of a file.                *)
EXTENDS SharedCaches, FiniteSetTheorems, TLAPS

Types ==
  /\ disk \in [Movies -> 1 .. MaxVersion]
  /\ decoders \in [Movies -> Entries]
  /\ frames \in [FrameKeys -> Entries]
  /\ pc \in [Threads -> PCs]
  /\ want \in [Threads -> FrameKeys]
  /\ using \in [Threads -> Entries]
  /\ request \in [Threads -> {"frame", "decoder"}]
  /\ refresh \in {"idle", "clearFrames", "clearOnlyFrames", "clearDecoders"}
  /\ requests \in Nat /\ refreshes \in Nat

HistoryTypes ==
  /\ asked \in [Movies -> Nat] /\ due \in [Movies -> Nat]
  /\ overlap \subseteq Threads /\ stray \subseteq Movies \cup FrameKeys

(* A request for a decoder does not reach the frames, and a thread has an   *)
(* entry of the decoders' cache from the moment it opened or found it.      *)
HoldingPCs == {"storeDecoder", "limitDecoders"} \cup LoadingFramePCs

Positions == \A t \in Threads :
  /\ pc[t] \in {"frame", "limitFrames"} \cup LoadingFramePCs => request[t] = "frame"
  /\ pc[t] \in HoldingPCs => using[t].state = "cached"

(* An entry is in the making exactly as long as one thread makes it.        *)
LoadsFrame(t) ==
  \/ pc[t] \in LoadingFramePCs
  \/ request[t] = "frame" /\ pc[t] \in LoadingDecoderPCs \cup {"decoder", "limitDecoders"}
LoadsDecoder(t) == pc[t] \in LoadingDecoderPCs

FrameMakers ==
  /\ \A t \in Threads : LoadsFrame(t) => frames[want[t]].state = "loading"
  /\ \A t, u \in Threads :
       LoadsFrame(t) /\ LoadsFrame(u) /\ want[t] = want[u] => t = u
  /\ \A k \in FrameKeys : frames[k].state = "loading" =>
       \E t \in Threads : LoadsFrame(t) /\ want[t] = k

DecoderMakers ==
  /\ \A t \in Threads : LoadsDecoder(t) => decoders[Movie(t)].state = "loading"
  /\ \A t, u \in Threads :
       LoadsDecoder(t) /\ LoadsDecoder(u) /\ Movie(t) = Movie(u) => t = u
  /\ \A m \in Movies : decoders[m].state = "loading" =>
       \E t \in Threads : LoadsDecoder(t) /\ Movie(t) = m

(* What is older than the last complete refresh is stray, or in the hands   *)
(* of a thread whose request overlapped one.  While a refresh is going on   *)
(* every request in progress overlaps it, and after the first clear every   *)
(* frame that is left is stray.                                             *)
FileTimes == \A m \in Movies : due[m] <= asked[m] /\ asked[m] <= disk[m]

Overlapping == refresh # "idle" => \A t \in Threads : pc[t] # "idle" => t \in overlap

FramesLeft == refresh = "clearDecoders" => CachedKeys(frames) \subseteq stray

HeldFresh == \A t \in Threads \ overlap :
  pc[t] \in HoldingPCs => using[t].version >= due[Movie(t)]

FramesFresh == \A k \in CachedKeys(frames) \ stray : frames[k].version >= due[k[1]]
DecodersFresh == \A m \in CachedKeys(decoders) \ stray : decoders[m].version >= due[m]

Fresh == FileTimes /\ Overlapping /\ FramesLeft /\ HeldFresh /\ FramesFresh /\ DecodersFresh

IInv == Types /\ HistoryTypes /\ Positions /\ FrameMakers /\ DecoderMakers /\ Fresh

-----------------------------------------------------------------------------
(* Keys and entries.                                                        *)
LEMMA AnyKeyIsKey == AnyKey \in FrameKeys
<1>1. PICK m \in Movies, n \in Frames : TRUE
  BY SharedCachesAssumption
<1>2. <<m, n>> \in FrameKeys
  BY DEF FrameKeys
<1> QED BY <1>2 DEF AnyKey

LEMMA KeyHasMovie == \A k \in FrameKeys : k[1] \in Movies
BY DEF FrameKeys

LEMMA EntryKinds ==
  /\ NoEntry \in Entries /\ NoEntry.state = "none"
  /\ Loading \in Entries /\ Loading.state = "loading"
  /\ \A v, d \in Nat : Cached(v, d) \in Entries /\ Cached(v, d).state = "cached"
                         /\ Cached(v, d).version = v
  /\ \A e \in Entries : e.state \in {"none", "loading", "cached"}
                          /\ e.version \in Nat /\ e.decoder \in Nat
BY DEF Entries, NoEntry, Loading, Cached

LEMMA DecodersAreFinite ==
  ASSUME NEW S, IsFiniteSet(S), NEW f
  PROVE  IsFiniteSet({f[x].decoder : x \in S})
<1> DEFINE T == {f[x].decoder : x \in S}
           g == [x \in S |-> f[x].decoder]
<1>1. g \in Surjection(S, T)
  BY DEF Surjection
<1> QED BY <1>1, FS_Surjection

(* There is always a number for a new Decoder object.                       *)
LEMMA NewDecoderExists == ASSUME Types PROVE NewDecoder \in Nat
<1> DEFINE inCache == {decoders[m].decoder : m \in Movies}
           inUse == {using[t].decoder : t \in Threads}
           used == inCache \cup inUse
           n == Cardinality(used)
<1>1. IsFiniteSet(used)
  <2>1. IsFiniteSet(inCache)
    BY SharedCachesAssumption, DecodersAreFinite
  <2>2. IsFiniteSet(inUse)
    BY SharedCachesAssumption, DecodersAreFinite
  <2> QED BY <2>1, <2>2, FS_Union
<1>2. n \in Nat
  BY <1>1, FS_CardinalityType
<1>3. IsFiniteSet(1 .. n + 1) /\ Cardinality(1 .. n + 1) = n + 1
  <2> HIDE DEF n
  <2> QED BY <1>2, FS_Interval
<1>4. \E d \in 1 .. n + 1 : d \notin used
  <2> SUFFICES ASSUME 1 .. n + 1 \subseteq used PROVE FALSE
    OBVIOUS
  <2>1. Cardinality(1 .. n + 1) <= n
    BY <1>1, FS_Subset
  <2> HIDE DEF n
  <2> QED BY <1>2, <1>3, <2>1
<1>5. NewDecoder = CHOOSE d \in 1 .. n + 1 : d \notin used
  BY DEF NewDecoder
<1> HIDE DEF n, used
<1> QED BY <1>2, <1>4, <1>5

LEMMA InitialInv == Init => IInv
<1> SUFFICES ASSUME Init PROVE IInv
  OBVIOUS
<1>1. Types
  BY SharedCachesAssumption, AnyKeyIsKey, EntryKinds DEF Init, Types, PCs
<1>2. HistoryTypes
  BY DEF Init, HistoryTypes
<1>3. Positions
  BY DEF Init, Positions, HoldingPCs, LoadingFramePCs
<1>4. FrameMakers
  BY EntryKinds DEF Init, FrameMakers, LoadsFrame, LoadingFramePCs, LoadingDecoderPCs
<1>5. DecoderMakers
  BY EntryKinds DEF Init, DecoderMakers, LoadsDecoder, LoadingDecoderPCs
<1>6. Fresh
  BY EntryKinds, <1>1 DEF Init, Fresh, FileTimes, Overlapping, FramesLeft, HeldFresh,
     FramesFresh,
     DecodersFresh, CachedKeys, HoldingPCs, LoadingFramePCs
<1> QED BY <1>1, <1>2, <1>3, <1>4, <1>5, <1>6 DEF IInv
-----------------------------------------------------------------------------
(* The kinds of the variables, and where a thread is in its request.        *)
LEMMA NextActions ==
  ASSUME Next
  PROVE  \/ \E t \in Threads :
              \/ Request(t) \/ FrameHit(t) \/ FrameMiss(t) \/ BeginDecode(t)
              \/ EndDecode(t) \/ StoreFrame(t) \/ EvictFrame(t) \/ FramesLimited(t)
              \/ DecoderHit(t) \/ DecoderMiss(t) \/ OpenDecoder(t) \/ StoreDecoder(t)
              \/ EvictDecoder(t) \/ DecodersLimited(t)
         \/ SetPlug \/ ClearFrame \/ FramesCleared \/ ClearDecoder \/ DecodersCleared
         \/ Replace
BY DEF Next, GetFrame, GetDecoder, Refresh

LEMMA HaveDecoderTypes ==
  ASSUME Types, NEW t \in Threads, NEW e \in Entries, HaveDecoder(t, e)
  PROVE  /\ pc' \in [Threads -> PCs] /\ want' \in [Threads -> FrameKeys]
         /\ using' \in [Threads -> Entries]
         /\ request' \in [Threads -> {"frame", "decoder"}]
<1>1. CASE request[t] = "decoder" /\ Return(t)
  BY <1>1, AnyKeyIsKey, EntryKinds DEF Types, Return, Goto, PCs
<1>2. CASE /\ Goto(t, IF e.decoder # 0 THEN "decode" ELSE "storeError")
           /\ using' = [using EXCEPT ![t] = e]
           /\ UNCHANGED <<want, request>>
  BY <1>2 DEF Types, Goto, PCs, LoadingFramePCs
<1> QED BY <1>1, <1>2 DEF HaveDecoder

LEMMA TypesKept == ASSUME IInv, Next PROVE Types'
<1> USE DEF IInv, Types
<1>1. ASSUME NEW t \in Threads, Request(t) PROVE Types'
  BY <1>1, AnyKeyIsKey, EntryKinds, KeyHasMovie
     DEF Request, Goto, Movie, PCs, LoadingFramePCs, LoadingDecoderPCs
<1>2. ASSUME NEW t \in Threads, FrameHit(t) PROVE Types'
  BY <1>2, AnyKeyIsKey, EntryKinds, KeyHasMovie
     DEF FrameHit, Goto, Return, Movie, PCs, LoadingFramePCs, LoadingDecoderPCs
<1>3. ASSUME NEW t \in Threads, FrameMiss(t) PROVE Types'
  BY <1>3, AnyKeyIsKey, EntryKinds, KeyHasMovie
     DEF FrameMiss, Goto, Movie, PCs, LoadingFramePCs, LoadingDecoderPCs
<1>4. ASSUME NEW t \in Threads, BeginDecode(t) PROVE Types'
  BY <1>4, AnyKeyIsKey, EntryKinds, KeyHasMovie
     DEF BeginDecode, Goto, Movie, PCs, LoadingFramePCs, LoadingDecoderPCs
<1>5. ASSUME NEW t \in Threads, EndDecode(t) PROVE Types'
  <2>1. pc' = [pc EXCEPT ![t] = "storeFrame"] \/ pc' = [pc EXCEPT ![t] = "storeError"]
    BY <1>5 DEF EndDecode, Goto
  <2>2. pc' \in [Threads -> PCs]
    BY <2>1 DEF PCs, LoadingFramePCs
  <2> QED BY <1>5, <2>2 DEF EndDecode
<1>6. ASSUME NEW t \in Threads, StoreFrame(t) PROVE Types'
  BY <1>6, EntryKinds
     DEF StoreFrame, Goto, Movie, PCs, LoadingFramePCs, LoadingDecoderPCs
<1>7. ASSUME NEW t \in Threads, EvictFrame(t) PROVE Types'
  BY <1>7, AnyKeyIsKey, EntryKinds, KeyHasMovie
     DEF EvictFrame, CachedKeys, Movie, PCs, LoadingFramePCs, LoadingDecoderPCs
<1>8. ASSUME NEW t \in Threads, FramesLimited(t) PROVE Types'
  BY <1>8, AnyKeyIsKey, EntryKinds, KeyHasMovie
     DEF FramesLimited, Goto, Return, Movie, PCs, LoadingFramePCs, LoadingDecoderPCs
<1>9. ASSUME NEW t \in Threads, DecoderHit(t) PROVE Types'
  <2>1. decoders[Movie(t)] \in Entries
    BY KeyHasMovie DEF Movie
  <2>2. HaveDecoder(t, decoders[Movie(t)])
    BY <1>9 DEF DecoderHit
  <2> QED BY <1>9, <2>1, <2>2, HaveDecoderTypes DEF DecoderHit
<1>10. ASSUME NEW t \in Threads, DecoderMiss(t) PROVE Types'
  BY <1>10, AnyKeyIsKey, EntryKinds, KeyHasMovie
     DEF DecoderMiss, Goto, Movie, PCs, LoadingFramePCs, LoadingDecoderPCs
<1>11. ASSUME NEW t \in Threads, OpenDecoder(t) PROVE Types'
  BY <1>11, NewDecoderExists, EntryKinds, KeyHasMovie
     DEF OpenDecoder, Goto, Movie, PCs, LoadingFramePCs, LoadingDecoderPCs
<1>12. ASSUME NEW t \in Threads, StoreDecoder(t) PROVE Types'
  BY <1>12, AnyKeyIsKey, EntryKinds, KeyHasMovie
     DEF StoreDecoder, Goto, Movie, PCs, LoadingFramePCs, LoadingDecoderPCs
<1>13. ASSUME NEW t \in Threads, EvictDecoder(t) PROVE Types'
  BY <1>13, AnyKeyIsKey, EntryKinds, KeyHasMovie
     DEF EvictDecoder, CachedKeys, Movie, PCs, LoadingFramePCs, LoadingDecoderPCs
<1>14. ASSUME NEW t \in Threads, DecodersLimited(t) PROVE Types'
  <2>1. using[t] \in Entries
    BY KeyHasMovie DEF Movie
  <2>2. HaveDecoder(t, using[t])
    BY <1>14 DEF DecodersLimited
  <2> QED BY <1>14, <2>1, <2>2, HaveDecoderTypes DEF DecodersLimited
<1>15. ASSUME SetPlug PROVE Types'
  BY <1>15, EntryKinds DEF SetPlug, CachedKeys
<1>16. ASSUME ClearFrame PROVE Types'
  BY <1>16, EntryKinds DEF ClearFrame, CachedKeys
<1>17. ASSUME FramesCleared PROVE Types'
  BY <1>17, EntryKinds DEF FramesCleared, CachedKeys
<1>18. ASSUME ClearDecoder PROVE Types'
  BY <1>18, EntryKinds DEF ClearDecoder, CachedKeys
<1>19. ASSUME DecodersCleared PROVE Types'
  BY <1>19, EntryKinds DEF DecodersCleared, CachedKeys
<1>20. ASSUME Replace PROVE Types'
  <2>1. PICK m \in Movies : disk[m] < MaxVersion /\ disk' = [disk EXCEPT ![m] = @ + 1]
    BY <1>20 DEF Replace
  <2>2. disk[m] + 1 \in 1 .. MaxVersion
    BY <2>1, SharedCachesAssumption
  <2> QED BY <1>20, <2>1, <2>2 DEF Replace
<1> QED BY <1>1, <1>2, <1>3, <1>4, <1>5, <1>6, <1>7, <1>8, <1>9, <1>10, <1>11, <1>12, <1>13,
           <1>14, <1>15, <1>16, <1>17, <1>18, <1>19, <1>20, NextActions

-----------------------------------------------------------------------------
(* Who makes an entry.                                                      *)
LEMMA PositionsAfterDecoder ==
  ASSUME IInv, NEW t \in Threads, NEW e \in Entries, e.state = "cached",
         pc[t] \in {"decoder", "limitDecoders"}, HaveDecoder(t, e)
  PROVE  Positions'
<1>1. CASE request[t] = "decoder" /\ Return(t)
  BY <1>1 DEF IInv, Types, Positions, HoldingPCs, LoadingFramePCs, Return, Goto
<1>2. CASE /\ request[t] = "frame"
           /\ Goto(t, IF e.decoder # 0 THEN "decode" ELSE "storeError")
           /\ using' = [using EXCEPT ![t] = e]
           /\ UNCHANGED <<want, request>>
  BY <1>2 DEF IInv, Types, Positions, HoldingPCs, LoadingFramePCs, Goto
<1> QED BY <1>1, <1>2 DEF HaveDecoder

SameFrameLoads == \A u \in Threads :
  LoadsFrame(u)' = LoadsFrame(u) /\ (LoadsFrame(u) => want'[u] = want[u])
SameDecoderLoads == \A u \in Threads :
  LoadsDecoder(u)' = LoadsDecoder(u) /\ (LoadsDecoder(u) => want'[u] = want[u])
SameLoads == SameFrameLoads /\ SameDecoderLoads

LEMMA LoadsAfterDecoder ==
  ASSUME IInv, NEW t \in Threads, NEW e \in Entries,
         pc[t] \in {"decoder", "limitDecoders"}, HaveDecoder(t, e)
  PROVE  SameLoads
<1> USE DEF IInv, Types, SameLoads, SameFrameLoads, SameDecoderLoads,
        LoadsFrame, LoadsDecoder, LoadingFramePCs, LoadingDecoderPCs
<1>1. CASE request[t] = "decoder" /\ Return(t)
  BY <1>1 DEF Return, Goto
<1>2. CASE /\ request[t] = "frame"
           /\ Goto(t, IF e.decoder # 0 THEN "decode" ELSE "storeError")
           /\ UNCHANGED <<want, request>>
  BY <1>2 DEF Goto
<1> QED BY <1>1, <1>2 DEF HaveDecoder

LEMMA SameFrameMakers ==
  ASSUME IInv, SameFrameLoads,
         \A k \in FrameKeys : frames'[k].state = "loading" <=> frames[k].state = "loading"
  PROVE  FrameMakers'
<1>1. \A u \in Threads : LoadsFrame(u)' => LoadsFrame(u) /\ want'[u] = want[u]
  BY DEF SameFrameLoads
<1>2. \A u \in Threads : LoadsFrame(u) => LoadsFrame(u)' /\ want'[u] = want[u]
  BY DEF SameFrameLoads
<1>3. \A u \in Threads : want[u] \in FrameKeys
  BY DEF IInv, Types
<1> QED BY <1>1, <1>2, <1>3 DEF IInv, FrameMakers

LEMMA SameDecoderMakers ==
  ASSUME IInv, SameDecoderLoads,
         \A m \in Movies : decoders'[m].state = "loading" <=> decoders[m].state = "loading"
  PROVE  DecoderMakers'
<1>1. \A u \in Threads : LoadsDecoder(u)' => LoadsDecoder(u) /\ Movie(u)' = Movie(u)
  BY DEF SameDecoderLoads, Movie
<1>2. \A u \in Threads : LoadsDecoder(u) => LoadsDecoder(u)' /\ Movie(u)' = Movie(u)
  BY DEF SameDecoderLoads, Movie
<1>3. \A u \in Threads : Movie(u) \in Movies
  BY KeyHasMovie DEF IInv, Types, Movie
<1> QED BY <1>1, <1>2, <1>3 DEF IInv, DecoderMakers

LEMMA PositionsKept == ASSUME IInv, Next PROVE Positions'
<1> USE DEF IInv, Types, Positions
<1>1. ASSUME NEW t \in Threads, Request(t) PROVE Positions'
  BY <1>1, EntryKinds
     DEF Request, Goto, HoldingPCs, LoadingFramePCs
<1>2. ASSUME NEW t \in Threads, FrameHit(t) PROVE Positions'
  BY <1>2, EntryKinds
     DEF FrameHit, Goto, Return, HoldingPCs, LoadingFramePCs
<1>3. ASSUME NEW t \in Threads, FrameMiss(t) PROVE Positions'
  BY <1>3, EntryKinds
     DEF FrameMiss, Goto, HoldingPCs, LoadingFramePCs
<1>4. ASSUME NEW t \in Threads, BeginDecode(t) PROVE Positions'
  BY <1>4, EntryKinds
     DEF BeginDecode, Goto, HoldingPCs, LoadingFramePCs
<1>5. ASSUME NEW t \in Threads, EndDecode(t) PROVE Positions'
  BY <1>5, EntryKinds
     DEF EndDecode, Goto, HoldingPCs, LoadingFramePCs
<1>6. ASSUME NEW t \in Threads, StoreFrame(t) PROVE Positions'
  BY <1>6, EntryKinds
     DEF StoreFrame, Goto, HoldingPCs, LoadingFramePCs
<1>7. ASSUME NEW t \in Threads, EvictFrame(t) PROVE Positions'
  BY <1>7, EntryKinds
     DEF EvictFrame, CachedKeys, HoldingPCs, LoadingFramePCs
<1>8. ASSUME NEW t \in Threads, FramesLimited(t) PROVE Positions'
  BY <1>8, EntryKinds
     DEF FramesLimited, Goto, Return, HoldingPCs, LoadingFramePCs
<1>9. ASSUME NEW t \in Threads, DecoderHit(t) PROVE Positions'
  <2>1. decoders[Movie(t)] \in Entries
    BY KeyHasMovie DEF Movie
  <2> QED BY <1>9, <2>1, PositionsAfterDecoder DEF DecoderHit
<1>10. ASSUME NEW t \in Threads, DecoderMiss(t) PROVE Positions'
  BY <1>10, EntryKinds
     DEF DecoderMiss, Goto, HoldingPCs, LoadingFramePCs
<1>11. ASSUME NEW t \in Threads, OpenDecoder(t) PROVE Positions'
  <2>1. PICK d \in {0, NewDecoder} : using' = [using EXCEPT ![t] = Cached(disk[Movie(t)], d)]
    BY <1>11 DEF OpenDecoder
  <2>2. Cached(disk[Movie(t)], d).state = "cached"
    BY <2>1 DEF Cached
  <2> QED BY <1>11, <2>1, <2>2 DEF OpenDecoder, Goto, HoldingPCs, LoadingFramePCs
<1>12. ASSUME NEW t \in Threads, StoreDecoder(t) PROVE Positions'
  BY <1>12, EntryKinds
     DEF StoreDecoder, Goto, HoldingPCs, LoadingFramePCs
<1>13. ASSUME NEW t \in Threads, EvictDecoder(t) PROVE Positions'
  BY <1>13, EntryKinds
     DEF EvictDecoder, CachedKeys, HoldingPCs, LoadingFramePCs
<1>14. ASSUME NEW t \in Threads, DecodersLimited(t) PROVE Positions'
  <2>1. using[t].state = "cached"
    BY <1>14 DEF DecodersLimited, HoldingPCs
  <2> QED BY <1>14, <2>1, PositionsAfterDecoder DEF DecodersLimited
<1>15. ASSUME SetPlug PROVE Positions'
  BY <1>15 DEF SetPlug, HoldingPCs, LoadingFramePCs
<1>16. ASSUME ClearFrame PROVE Positions'
  BY <1>16, EntryKinds
     DEF ClearFrame, CachedKeys, HoldingPCs, LoadingFramePCs
<1>17. ASSUME FramesCleared PROVE Positions'
  BY <1>17 DEF FramesCleared, HoldingPCs, LoadingFramePCs
<1>18. ASSUME ClearDecoder PROVE Positions'
  BY <1>18, EntryKinds
     DEF ClearDecoder, CachedKeys, HoldingPCs, LoadingFramePCs
<1>19. ASSUME DecodersCleared PROVE Positions'
  BY <1>19 DEF DecodersCleared, HoldingPCs, LoadingFramePCs
<1>20. ASSUME Replace PROVE Positions'
  BY <1>20 DEF Replace, HoldingPCs, LoadingFramePCs
<1> QED BY <1>1, <1>2, <1>3, <1>4, <1>5, <1>6, <1>7, <1>8, <1>9, <1>10, <1>11, <1>12, <1>13,
           <1>14, <1>15, <1>16, <1>17, <1>18, <1>19, <1>20, NextActions

(* All steps but four leave the makers as they are.                         *)
LEMMA MakersStay ==
  ASSUME IInv, Next,
         \A t \in Threads : ~ FrameMiss(t) /\ ~ StoreFrame(t) /\ ~ DecoderMiss(t) /\ ~ StoreDecoder(t)
  PROVE  SameLoads
<1> USE DEF IInv, Types, SameLoads, SameFrameLoads, SameDecoderLoads
<1>1. ASSUME NEW t \in Threads, Request(t) PROVE SameLoads
  BY <1>1 DEF Request, Goto, Positions, LoadsFrame, LoadsDecoder, LoadingFramePCs,
     LoadingDecoderPCs
<1>2. ASSUME NEW t \in Threads, FrameHit(t) PROVE SameLoads
  BY <1>2 DEF FrameHit, Goto, Return, Positions, LoadsFrame, LoadsDecoder, LoadingFramePCs,
     LoadingDecoderPCs
<1>3. ASSUME NEW t \in Threads, BeginDecode(t) PROVE SameLoads
  BY <1>3 DEF BeginDecode, Goto, Positions, LoadsFrame, LoadsDecoder, LoadingFramePCs,
     LoadingDecoderPCs
<1>4. ASSUME NEW t \in Threads, EndDecode(t) PROVE SameLoads
  BY <1>4 DEF EndDecode, Goto, Positions, LoadsFrame, LoadsDecoder, LoadingFramePCs,
     LoadingDecoderPCs
<1>5. ASSUME NEW t \in Threads, EvictFrame(t) PROVE SameLoads
  BY <1>5 DEF EvictFrame, Positions, LoadsFrame, LoadsDecoder, LoadingFramePCs,
     LoadingDecoderPCs
<1>6. ASSUME NEW t \in Threads, FramesLimited(t) PROVE SameLoads
  BY <1>6 DEF FramesLimited, Goto, Return, Positions, LoadsFrame, LoadsDecoder,
     LoadingFramePCs, LoadingDecoderPCs
<1>7. ASSUME NEW t \in Threads, DecoderHit(t) PROVE SameLoads
  <2>1. decoders[Movie(t)] \in Entries
    BY KeyHasMovie DEF Movie
  <2> QED BY <1>7, <2>1, LoadsAfterDecoder DEF DecoderHit
<1>8. ASSUME NEW t \in Threads, OpenDecoder(t) PROVE SameLoads
  BY <1>8 DEF OpenDecoder, Goto, Positions, LoadsFrame, LoadsDecoder, LoadingFramePCs,
     LoadingDecoderPCs
<1>9. ASSUME NEW t \in Threads, EvictDecoder(t) PROVE SameLoads
  BY <1>9 DEF EvictDecoder, Positions, LoadsFrame, LoadsDecoder, LoadingFramePCs,
     LoadingDecoderPCs
<1>10. ASSUME NEW t \in Threads, DecodersLimited(t) PROVE SameLoads
  BY <1>10, LoadsAfterDecoder DEF DecodersLimited
<1>11. ASSUME SetPlug PROVE SameLoads
  BY <1>11 DEF SetPlug, Positions, LoadsFrame, LoadsDecoder, LoadingFramePCs,
     LoadingDecoderPCs
<1>12. ASSUME ClearFrame PROVE SameLoads
  BY <1>12 DEF ClearFrame, Positions, LoadsFrame, LoadsDecoder, LoadingFramePCs,
     LoadingDecoderPCs
<1>13. ASSUME FramesCleared PROVE SameLoads
  BY <1>13 DEF FramesCleared, Positions, LoadsFrame, LoadsDecoder, LoadingFramePCs,
     LoadingDecoderPCs
<1>14. ASSUME ClearDecoder PROVE SameLoads
  BY <1>14 DEF ClearDecoder, Positions, LoadsFrame, LoadsDecoder, LoadingFramePCs,
     LoadingDecoderPCs
<1>15. ASSUME DecodersCleared PROVE SameLoads
  BY <1>15 DEF DecodersCleared, Positions, LoadsFrame, LoadsDecoder, LoadingFramePCs,
     LoadingDecoderPCs
<1>16. ASSUME Replace PROVE SameLoads
  BY <1>16 DEF Replace, Positions, LoadsFrame, LoadsDecoder, LoadingFramePCs,
     LoadingDecoderPCs
<1> QED BY <1>1, <1>2, <1>3, <1>4, <1>5, <1>6, <1>7, <1>8, <1>9, <1>10, <1>11, <1>12, <1>13,
           <1>14, <1>15, <1>16, NextActions

(* Only entries that nobody makes are dropped.                              *)
LEMMA FramesOnlyDropped ==
  ASSUME IInv, Next, \A t \in Threads : ~ FrameMiss(t) /\ ~ StoreFrame(t)
  PROVE  \A k \in FrameKeys : frames'[k] = frames[k]
           \/ (frames[k].state = "cached" /\ frames'[k] = NoEntry)
<1> USE DEF IInv, Types
<1>1. \/ frames' = frames
      \/ \E k \in CachedKeys(frames) : frames' = [frames EXCEPT ![k] = NoEntry]
  BY NextActions DEF Request, FrameHit, BeginDecode, EndDecode, EvictFrame, FramesLimited,
     DecoderHit, DecoderMiss, OpenDecoder, StoreDecoder, EvictDecoder, DecodersLimited,
     SetPlug, ClearFrame, FramesCleared, ClearDecoder, DecodersCleared, Replace
<1> QED BY <1>1 DEF CachedKeys

LEMMA DecodersOnlyDropped ==
  ASSUME IInv, Next, \A t \in Threads : ~ DecoderMiss(t) /\ ~ StoreDecoder(t)
  PROVE  \A m \in Movies : decoders'[m] = decoders[m]
           \/ (decoders[m].state = "cached" /\ decoders'[m] = NoEntry)
<1> USE DEF IInv, Types
<1>1. \/ decoders' = decoders
      \/ \E m \in CachedKeys(decoders) : decoders' = [decoders EXCEPT ![m] = NoEntry]
  BY NextActions DEF Request, FrameHit, FrameMiss, BeginDecode, EndDecode, StoreFrame,
     EvictFrame, FramesLimited, DecoderHit, OpenDecoder, EvictDecoder, DecodersLimited,
     SetPlug, ClearFrame, FramesCleared, ClearDecoder, DecodersCleared, Replace
<1> QED BY <1>1 DEF CachedKeys

LEMMA FrameMakersKept == ASSUME IInv, Next PROVE FrameMakers'
<1> USE DEF IInv, Types
<1>1. ASSUME NEW t \in Threads, FrameMiss(t) PROVE FrameMakers'
  <2>1. ~ LoadsFrame(t)
    BY <1>1 DEF FrameMiss, LoadsFrame, LoadingFramePCs, LoadingDecoderPCs
  <2>2. LoadsFrame(t)' /\ want' = want /\ request' = request
    BY <1>1 DEF FrameMiss, Goto, Positions, LoadsFrame
  <2>3. \A u \in Threads \ {t} : LoadsFrame(u)' = LoadsFrame(u)
    BY <1>1 DEF FrameMiss, Goto, LoadsFrame
  <2>4. frames[want[t]].state = "none" /\ frames' = [frames EXCEPT ![want[t]] = Loading]
    BY <1>1 DEF FrameMiss
  <2>5. \A k \in FrameKeys : frames'[k] = IF k = want[t] THEN Loading ELSE frames[k]
    BY <2>4
  <2>6. \A u \in Threads \ {t} : LoadsFrame(u) => frames[want[u]].state = "loading" /\ want[u] # want[t]
    BY <2>4 DEF FrameMakers
  <2>7. \A u \in Threads : LoadsFrame(u)' => frames'[want'[u]].state = "loading"
    BY <2>2, <2>3, <2>5, <2>6, EntryKinds
  <2>8. \A k \in FrameKeys : frames'[k].state = "loading" =>
          k = want[t] \/ (\E u \in Threads \ {t} : LoadsFrame(u) /\ want[u] = k)
    BY <2>1, <2>5 DEF FrameMakers
  <2> QED BY <2>2, <2>3, <2>6, <2>7, <2>8 DEF FrameMakers
<1>2. ASSUME NEW t \in Threads, StoreFrame(t) PROVE FrameMakers'
  <2>1. LoadsFrame(t) /\ want' = want /\ request' = request
    BY <1>2 DEF StoreFrame, LoadsFrame, LoadingFramePCs
  <2>2. ~ LoadsFrame(t)'
    BY <1>2 DEF StoreFrame, Goto, LoadsFrame, LoadingFramePCs, LoadingDecoderPCs
  <2>3. \A u \in Threads \ {t} : LoadsFrame(u)' = LoadsFrame(u)
    BY <1>2 DEF StoreFrame, Goto, LoadsFrame
  <2>4. PICK e \in Entries : e.state = "cached" /\ frames' = [frames EXCEPT ![want[t]] = e]
    <3> DEFINE d == IF pc[t] = "storeFrame" THEN 1 ELSE 0
    <3>1. frames' = [frames EXCEPT ![want[t]] = Cached(using[t].version, d)]
      BY <1>2 DEF StoreFrame
    <3>2. using[t] \in Entries
      BY DEF IInv, Types
    <3>3. using[t].version \in Nat /\ d \in Nat
      BY <3>2 DEF Entries, NoEntry, Loading
    <3> HIDE DEF d
    <3> QED BY <3>1, <3>3, EntryKinds
  <2>5. \A k \in FrameKeys : frames'[k] = IF k = want[t] THEN e ELSE frames[k]
    BY <2>4
  <2> QED BY <2>1, <2>2, <2>3, <2>4, <2>5 DEF FrameMakers
<1>3. ASSUME NEW t \in Threads, DecoderMiss(t) \/ StoreDecoder(t) PROVE FrameMakers'
  <2>1. SameFrameLoads /\ frames' = frames
    BY <1>3 DEF DecoderMiss, StoreDecoder, Goto, SameFrameLoads, LoadsFrame,
                LoadingFramePCs, LoadingDecoderPCs
  <2> QED BY <2>1, SameFrameMakers
<1>4. ASSUME \A t \in Threads : ~ FrameMiss(t) /\ ~ StoreFrame(t) /\ ~ DecoderMiss(t) /\ ~ StoreDecoder(t)
      PROVE  FrameMakers'
  <2>1. SameFrameLoads
    BY <1>4, MakersStay DEF SameLoads
  <2>2. \A k \in FrameKeys : frames'[k].state = "loading" <=> frames[k].state = "loading"
    BY <1>4, FramesOnlyDropped, EntryKinds
  <2> QED BY <2>1, <2>2, SameFrameMakers
<1> QED BY <1>1, <1>2, <1>3, <1>4

LEMMA DecoderMakersKept == ASSUME IInv, Next PROVE DecoderMakers'
<1> USE DEF IInv, Types
<1>1. ASSUME NEW t \in Threads, DecoderMiss(t) PROVE DecoderMakers'
  <2>1. ~ LoadsDecoder(t) /\ LoadsDecoder(t)' /\ want' = want
    BY <1>1 DEF DecoderMiss, Goto, LoadsDecoder, LoadingDecoderPCs
  <2>2. \A u \in Threads : Movie(u)' = Movie(u) /\ Movie(u) \in Movies
    BY <2>1, KeyHasMovie DEF Movie
  <2>3. \A u \in Threads \ {t} : LoadsDecoder(u)' = LoadsDecoder(u)
    BY <1>1 DEF DecoderMiss, Goto, LoadsDecoder
  <2>4. decoders[Movie(t)].state = "none" /\ decoders' = [decoders EXCEPT ![Movie(t)] = Loading]
    BY <1>1 DEF DecoderMiss
  <2>5. \A m \in Movies : decoders'[m] = IF m = Movie(t) THEN Loading ELSE decoders[m]
    BY <2>4
  <2>6. \A u \in Threads \ {t} :
          LoadsDecoder(u) => decoders[Movie(u)].state = "loading" /\ Movie(u) # Movie(t)
    BY <2>4 DEF DecoderMakers
  <2>7. \A u \in Threads : LoadsDecoder(u)' => decoders'[Movie(u)'].state = "loading"
    <3> SUFFICES ASSUME NEW u \in Threads, LoadsDecoder(u)'
                 PROVE  decoders'[Movie(u)].state = "loading"
      BY <2>2
    <3>1. CASE u = t
      BY <3>1, <2>2, <2>5, EntryKinds
    <3>2. CASE u # t
      BY <3>2, <2>2, <2>3, <2>5, <2>6
    <3> QED BY <3>1, <3>2
  <2>8. \A m \in Movies : decoders'[m].state = "loading" =>
          m = Movie(t) \/ (\E u \in Threads \ {t} : LoadsDecoder(u) /\ Movie(u) = m)
    BY <2>1, <2>5 DEF DecoderMakers
  <2> QED BY <2>1, <2>2, <2>3, <2>6, <2>7, <2>8 DEF DecoderMakers
<1>2. ASSUME NEW t \in Threads, StoreDecoder(t) PROVE DecoderMakers'
  <2>1. LoadsDecoder(t) /\ ~ LoadsDecoder(t)' /\ want' = want
    BY <1>2 DEF StoreDecoder, Goto, LoadsDecoder, LoadingDecoderPCs
  <2>2. \A u \in Threads : Movie(u)' = Movie(u) /\ Movie(u) \in Movies
    BY <2>1, KeyHasMovie DEF Movie
  <2>3. \A u \in Threads \ {t} : LoadsDecoder(u)' = LoadsDecoder(u)
    BY <1>2 DEF StoreDecoder, Goto, LoadsDecoder
  <2>4. using[t].state = "cached" /\ decoders' = [decoders EXCEPT ![Movie(t)] = using[t]]
    BY <1>2 DEF StoreDecoder, Positions, HoldingPCs
  <2>5. \A m \in Movies : decoders'[m] = IF m = Movie(t) THEN using[t] ELSE decoders[m]
    BY <2>4
  <2> QED BY <2>1, <2>2, <2>3, <2>4, <2>5 DEF DecoderMakers
<1>3. ASSUME NEW t \in Threads, FrameMiss(t) \/ StoreFrame(t) PROVE DecoderMakers'
  <2>1. SameDecoderLoads /\ decoders' = decoders
    BY <1>3 DEF FrameMiss, StoreFrame, Goto, SameDecoderLoads, LoadsDecoder,
       LoadingDecoderPCs
  <2> QED BY <2>1, SameDecoderMakers
<1>4. ASSUME \A t \in Threads : ~ FrameMiss(t) /\ ~ StoreFrame(t) /\ ~ DecoderMiss(t) /\ ~ StoreDecoder(t)
      PROVE  DecoderMakers'
  <2>1. SameDecoderLoads
    BY <1>4, MakersStay DEF SameLoads
  <2>2. \A m \in Movies : decoders'[m].state = "loading" <=> decoders[m].state = "loading"
    BY <1>4, DecodersOnlyDropped, EntryKinds
  <2> QED BY <2>1, <2>2, SameDecoderMakers
<1> QED BY <1>1, <1>2, <1>3, <1>4

-----------------------------------------------------------------------------
(* The history.                                                             *)
LEMMA HistoryIsKept == Next => History
BY NextActions DEF Request, FrameHit, FrameMiss, BeginDecode, EndDecode, StoreFrame,
   EvictFrame, FramesLimited, DecoderHit, DecoderMiss, OpenDecoder, StoreDecoder,
   EvictDecoder, DecodersLimited, SetPlug, ClearFrame, FramesCleared, ClearDecoder,
   DecodersCleared, Replace

LEMMA HistoryTypesKept == ASSUME IInv, Types', History PROVE HistoryTypes'
<1>1. AllCached' \subseteq Movies \cup FrameKeys
  BY DEF Types, AllCached, CachedKeys
<1>2. stray' \subseteq AllCached' /\ overlap' \subseteq Threads
  BY DEF History
<1>3. asked' \in {asked, disk} /\ due' \in {due, asked}
  BY DEF History
<1> QED BY <1>1, <1>2, <1>3, SharedCachesAssumption DEF IInv, Types, HistoryTypes

(* What a step puts into the caches, and what threads hold after it.        *)
FramesStored == \A k \in FrameKeys : frames'[k].state = "cached" =>
  \/ frames'[k] = frames[k]
  \/ \E t \in Movers :
       /\ pc[t] \in HoldingPCs /\ want[t] = k
       /\ frames[k].state # "cached" /\ frames'[k].version = using[t].version

DecodersStored == \A m \in Movies : decoders'[m].state = "cached" =>
  \/ decoders'[m] = decoders[m]
  \/ \E t \in Movers :
       /\ pc[t] \in HoldingPCs /\ Movie(t) = m
       /\ decoders[m].state # "cached" /\ decoders'[m].version = using[t].version

Held == \A t \in Threads : pc'[t] \in HoldingPCs =>
  /\ want'[t] = want[t]
  /\ \/ pc[t] \in HoldingPCs /\ using'[t] = using[t]
     \/ using'[t].version = disk[Movie(t)]
     \/ /\ pc[t] = "decoder" /\ decoders[Movie(t)].state = "cached"
        /\ using'[t] = decoders[Movie(t)]

FilesAge == \A m \in Movies : disk[m] <= disk'[m]

LEMMA FreshKept ==
  ASSUME IInv, Types', History, refresh' = refresh,
         FramesStored, DecodersStored, Held, FilesAge
  PROVE  Fresh'
<1> USE DEF IInv, Types, HistoryTypes, Fresh
<1>1. asked' = asked /\ due' = due
  BY DEF History
<1>2. refresh # "idle" => overlap' = {t \in Threads : pc'[t] # "idle"}
  BY DEF History
<1>3. \A k \in AllCached' : k \in stray => k \in stray'
  BY DEF History
<1>4. \A t \in Movers \cap overlap, k \in AllCached' : k \notin AllCached => k \in stray'
  BY DEF History
<1>5. \A k \in FrameKeys : /\ k \in AllCached' <=> frames'[k].state = "cached"
                           /\ k \in AllCached <=> frames[k].state = "cached"
                           /\ k \in CachedKeys(frames) <=> frames[k].state = "cached"
                           /\ k \in CachedKeys(frames') <=> frames'[k].state = "cached"
  BY SharedCachesAssumption DEF AllCached, CachedKeys, FrameKeys
<1>6. \A m \in Movies : /\ m \in AllCached' <=> decoders'[m].state = "cached"
                        /\ m \in AllCached <=> decoders[m].state = "cached"
                        /\ m \in CachedKeys(decoders) <=> decoders[m].state = "cached"
                        /\ m \in CachedKeys(decoders') <=> decoders'[m].state = "cached"
  BY SharedCachesAssumption DEF AllCached, CachedKeys, FrameKeys
<1>7. CachedKeys(frames') \subseteq FrameKeys /\ CachedKeys(decoders') \subseteq Movies
  BY DEF CachedKeys
<1>8. FileTimes'
  <2> SUFFICES ASSUME NEW m \in Movies PROVE due[m] <= asked[m] /\ asked[m] <= disk'[m]
    BY <1>1 DEF FileTimes
  <2>1. due[m] \in Nat /\ asked[m] \in Nat /\ disk[m] \in Int /\ disk'[m] \in Int
    BY SharedCachesAssumption
  <2> QED BY <2>1 DEF FileTimes, FilesAge
<1>9. Overlapping'
  BY <1>2 DEF Overlapping
<1>10. FramesLeft'
  <2> SUFFICES ASSUME refresh = "clearDecoders", NEW k \in CachedKeys(frames') PROVE k \in stray'
    BY DEF FramesLeft
  <2>1. k \in FrameKeys /\ frames'[k].state = "cached" /\ k \in AllCached'
    BY <1>5, <1>7
  <2>2. CASE frames'[k] = frames[k]
    BY <2>1, <2>2, <1>3, <1>5 DEF FramesLeft
  <2>3. CASE frames'[k] # frames[k]
    <3>1. PICK t \in Movers : pc[t] \in HoldingPCs /\ frames[k].state # "cached"
      BY <2>1, <2>3 DEF FramesStored
    <3>2. t \in Movers \cap overlap
      BY <3>1 DEF Overlapping, Movers, HoldingPCs, LoadingFramePCs
    <3> QED BY <2>1, <3>1, <3>2, <1>4, <1>5
  <2> QED BY <2>2, <2>3
<1>11. HeldFresh'
  <2> SUFFICES ASSUME NEW t \in Threads, t \notin overlap', pc'[t] \in HoldingPCs
               PROVE  using'[t].version >= due[Movie(t)]
    BY <1>1 DEF HeldFresh, Held, Movie
  <2>1. pc'[t] # "idle" /\ pc'[t] # "decoder"
    BY DEF HoldingPCs, LoadingFramePCs
  <2>2. refresh = "idle" /\ t \notin overlap /\ ~ (t \in Movers /\ UsesStray(t))
    BY <1>2, <2>1 DEF History
  <2>3. Movie(t) \in Movies
    BY KeyHasMovie DEF Movie
  <2>4. due[Movie(t)] \in Nat /\ asked[Movie(t)] \in Nat /\ disk[Movie(t)] \in Nat
    BY <2>3, SharedCachesAssumption
  <2>5. CASE pc[t] \in HoldingPCs /\ using'[t] = using[t]
    BY <2>2, <2>5 DEF HeldFresh
  <2>6. CASE using'[t].version = disk[Movie(t)]
    BY <2>3, <2>4, <2>6 DEF FileTimes
  <2>7. CASE /\ pc[t] = "decoder" /\ decoders[Movie(t)].state = "cached"
             /\ using'[t] = decoders[Movie(t)]
    <3>1. Movie(t) \in CachedKeys(decoders) \ stray
      BY <2>1, <2>2, <2>3, <2>7, <1>6 DEF Movers, UsesStray
    <3> QED BY <2>7, <3>1 DEF DecodersFresh
  <2> QED BY <2>5, <2>6, <2>7 DEF Held
<1>12. FramesFresh'
  <2> SUFFICES ASSUME NEW k \in CachedKeys(frames'), k \notin stray'
               PROVE  frames'[k].version >= due[k[1]]
    BY <1>1 DEF FramesFresh
  <2>1. k \in FrameKeys /\ frames'[k].state = "cached" /\ k \in AllCached' /\ k \notin stray
    BY <1>3, <1>5, <1>7
  <2>2. CASE frames'[k] = frames[k]
    BY <2>1, <2>2, <1>5 DEF FramesFresh
  <2>3. CASE frames'[k] # frames[k]
    <3>1. PICK t \in Movers : pc[t] \in HoldingPCs /\ want[t] = k /\ frames[k].state # "cached"
                                /\ frames'[k].version = using[t].version
      BY <2>1, <2>3 DEF FramesStored
    <3>2. t \in Threads \ overlap
      BY <2>1, <3>1, <1>4, <1>5 DEF Movers
    <3> QED BY <3>1, <3>2 DEF HeldFresh, Movie
  <2> QED BY <2>2, <2>3
<1>13. DecodersFresh'
  <2> SUFFICES ASSUME NEW m \in CachedKeys(decoders'), m \notin stray'
               PROVE  decoders'[m].version >= due[m]
    BY <1>1 DEF DecodersFresh
  <2>1. m \in Movies /\ decoders'[m].state = "cached" /\ m \in AllCached' /\ m \notin stray
    BY <1>3, <1>6, <1>7
  <2>2. CASE decoders'[m] = decoders[m]
    BY <2>1, <2>2, <1>6 DEF DecodersFresh
  <2>3. CASE decoders'[m] # decoders[m]
    <3>1. PICK t \in Movers : pc[t] \in HoldingPCs /\ Movie(t) = m /\ decoders[m].state # "cached"
                                /\ decoders'[m].version = using[t].version
      BY <2>1, <2>3 DEF DecodersStored
    <3>2. t \in Threads \ overlap
      BY <2>1, <3>1, <1>4, <1>6 DEF Movers
    <3> QED BY <3>1, <3>2 DEF HeldFresh
  <2> QED BY <2>2, <2>3
<1> QED BY <1>8, <1>9, <1>10, <1>11, <1>12, <1>13

LEMMA FramesAreStored == ASSUME IInv, Next PROVE FramesStored
<1> USE DEF IInv, Types
<1>1. ASSUME NEW t \in Threads, FrameMiss(t) PROVE FramesStored
  BY <1>1, EntryKinds DEF FrameMiss, FramesStored
<1>2. ASSUME NEW t \in Threads, StoreFrame(t) PROVE FramesStored
  <2>1. t \in Movers /\ pc[t] \in HoldingPCs
    BY <1>2 DEF StoreFrame, Goto, Movers, HoldingPCs, LoadingFramePCs
  <2>2. frames[want[t]].state # "cached"
    BY <1>2 DEF StoreFrame, FrameMakers, LoadsFrame, LoadingFramePCs
  <2>3. PICK d \in {0, 1} : frames' = [frames EXCEPT ![want[t]] = Cached(using[t].version, d)]
    BY <1>2 DEF StoreFrame
  <2>4. Cached(using[t].version, d).version = using[t].version
    BY DEF Cached
  <2> QED BY <2>1, <2>2, <2>3, <2>4 DEF FramesStored
<1>3. ASSUME \A t \in Threads : ~ FrameMiss(t) /\ ~ StoreFrame(t) PROVE FramesStored
  BY <1>3, FramesOnlyDropped, EntryKinds DEF FramesStored
<1> QED BY <1>1, <1>2, <1>3

LEMMA DecodersAreStored == ASSUME IInv, Next PROVE DecodersStored
<1> USE DEF IInv, Types
<1>1. ASSUME NEW t \in Threads, DecoderMiss(t) PROVE DecodersStored
  BY <1>1, EntryKinds DEF DecoderMiss, DecodersStored
<1>2. ASSUME NEW t \in Threads, StoreDecoder(t) PROVE DecodersStored
  <2>1. t \in Movers /\ pc[t] \in HoldingPCs
    BY <1>2 DEF StoreDecoder, Goto, Movers, HoldingPCs
  <2>2. decoders[Movie(t)].state # "cached"
    BY <1>2 DEF StoreDecoder, DecoderMakers, LoadsDecoder, LoadingDecoderPCs
  <2>3. decoders' = [decoders EXCEPT ![Movie(t)] = using[t]]
    BY <1>2 DEF StoreDecoder
  <2> QED BY <2>1, <2>2, <2>3 DEF DecodersStored
<1>3. ASSUME \A t \in Threads : ~ DecoderMiss(t) /\ ~ StoreDecoder(t) PROVE DecodersStored
  BY <1>3, DecodersOnlyDropped, EntryKinds DEF DecodersStored
<1> QED BY <1>1, <1>2, <1>3

LEMMA HeldAfterDecoder ==
  ASSUME IInv, NEW t \in Threads, NEW e, HaveDecoder(t, e),
         \/ (e = using[t] /\ pc[t] \in HoldingPCs)
         \/ (pc[t] = "decoder" /\ decoders[Movie(t)].state = "cached" /\ e = decoders[Movie(t)])
  PROVE  Held
<1> USE DEF IInv, Types, Held
<1>1. CASE Return(t)
  BY <1>1 DEF Return, Goto, HoldingPCs, LoadingFramePCs
<1>2. CASE /\ Goto(t, IF e.decoder # 0 THEN "decode" ELSE "storeError")
           /\ using' = [using EXCEPT ![t] = e]
           /\ UNCHANGED <<want, request>>
  BY <1>2 DEF Goto
<1> QED BY <1>1, <1>2 DEF HaveDecoder

LEMMA HeldAfter == ASSUME IInv, Next PROVE Held
<1> USE DEF IInv, Types
<1>1. ASSUME NEW t \in Threads, Request(t) PROVE Held
  BY <1>1 DEF Request, Goto, Held, HoldingPCs, LoadingFramePCs
<1>2. ASSUME NEW t \in Threads, FrameHit(t) PROVE Held
  BY <1>2 DEF FrameHit, Goto, Return, Held, HoldingPCs, LoadingFramePCs
<1>3. ASSUME NEW t \in Threads, FrameMiss(t) PROVE Held
  BY <1>3 DEF FrameMiss, Goto, Held, HoldingPCs, LoadingFramePCs
<1>4. ASSUME NEW t \in Threads, BeginDecode(t) PROVE Held
  BY <1>4 DEF BeginDecode, Goto, Held, HoldingPCs, LoadingFramePCs
<1>5. ASSUME NEW t \in Threads, EndDecode(t) PROVE Held
  BY <1>5 DEF EndDecode, Goto, Held, HoldingPCs, LoadingFramePCs
<1>6. ASSUME NEW t \in Threads, StoreFrame(t) PROVE Held
  BY <1>6 DEF StoreFrame, Goto, Held, HoldingPCs, LoadingFramePCs
<1>7. ASSUME NEW t \in Threads, EvictFrame(t) PROVE Held
  BY <1>7 DEF EvictFrame, Held, HoldingPCs, LoadingFramePCs
<1>8. ASSUME NEW t \in Threads, FramesLimited(t) PROVE Held
  BY <1>8 DEF FramesLimited, Goto, Return, Held, HoldingPCs, LoadingFramePCs
<1>9. ASSUME NEW t \in Threads, DecoderHit(t) PROVE Held
  BY <1>9, HeldAfterDecoder DEF DecoderHit
<1>10. ASSUME NEW t \in Threads, DecoderMiss(t) PROVE Held
  BY <1>10 DEF DecoderMiss, Goto, Held, HoldingPCs, LoadingFramePCs
<1>11. ASSUME NEW t \in Threads, OpenDecoder(t) PROVE Held
  <2>1. PICK d \in {0, NewDecoder} : using' = [using EXCEPT ![t] = Cached(disk[Movie(t)], d)]
    BY <1>11 DEF OpenDecoder
  <2>2. Cached(disk[Movie(t)], d).version = disk[Movie(t)]
    BY DEF Cached
  <2>3. using'[t].version = disk[Movie(t)]
    BY <2>1, <2>2
  <2> QED BY <1>11, <2>1, <2>3 DEF OpenDecoder, Goto, Held
<1>12. ASSUME NEW t \in Threads, StoreDecoder(t) PROVE Held
  BY <1>12 DEF StoreDecoder, Goto, Held, HoldingPCs, LoadingFramePCs
<1>13. ASSUME NEW t \in Threads, EvictDecoder(t) PROVE Held
  BY <1>13 DEF EvictDecoder, Held, HoldingPCs, LoadingFramePCs
<1>14. ASSUME NEW t \in Threads, DecodersLimited(t) PROVE Held
  BY <1>14, HeldAfterDecoder DEF DecodersLimited, HoldingPCs
<1>15. ASSUME SetPlug PROVE Held
  BY <1>15 DEF SetPlug, Held
<1>16. ASSUME ClearFrame PROVE Held
  BY <1>16 DEF ClearFrame, Held
<1>17. ASSUME FramesCleared PROVE Held
  BY <1>17 DEF FramesCleared, Held
<1>18. ASSUME ClearDecoder PROVE Held
  BY <1>18 DEF ClearDecoder, Held
<1>19. ASSUME DecodersCleared PROVE Held
  BY <1>19 DEF DecodersCleared, Held
<1>20. ASSUME Replace PROVE Held
  BY <1>20 DEF Replace, Held
<1> QED BY <1>1, <1>2, <1>3, <1>4, <1>5, <1>6, <1>7, <1>8, <1>9, <1>10, <1>11, <1>12, <1>13,
           <1>14, <1>15, <1>16, <1>17, <1>18, <1>19, <1>20, NextActions

LEMMA FilesOnlyAge == ASSUME IInv, Next, Types' PROVE FilesAge
<1> SUFFICES ASSUME NEW m \in Movies PROVE disk[m] <= disk'[m]
  BY DEF FilesAge
<1>1. disk[m] \in Int /\ disk'[m] \in Int
  BY SharedCachesAssumption DEF IInv, Types
<1>2. CASE disk' = disk
  BY <1>1, <1>2
<1>3. CASE Replace
  BY <1>1, <1>3 DEF IInv, Types, Replace
<1> QED BY <1>2, <1>3, NextActions DEF Request, FrameHit, FrameMiss, BeginDecode, EndDecode,
           StoreFrame, EvictFrame, FramesLimited, DecoderHit, DecoderMiss, OpenDecoder,
           StoreDecoder, EvictDecoder, DecodersLimited, SetPlug, ClearFrame, FramesCleared,
           ClearDecoder, DecodersCleared

LEMMA FreshInRefresh ==
  ASSUME IInv, Types', History, SetPlug \/ FramesCleared \/ DecodersCleared
  PROVE  Fresh'
<1> USE DEF IInv, Types, HistoryTypes, Fresh
<1>1. UNCHANGED <<disk, decoders, frames, pc, want, using>>
  BY DEF SetPlug, FramesCleared, DecodersCleared
<1>2. CachedKeys(frames') = CachedKeys(frames) /\ CachedKeys(decoders') = CachedKeys(decoders)
      /\ AllCached' = AllCached
  BY <1>1 DEF AllCached
<1>3. stray \cap AllCached \subseteq stray'
  BY <1>2 DEF History
<1>4. refresh' # "idle" => overlap' = {t \in Threads : pc'[t] # "idle"}
  BY DEF History
<1>5. Overlapping'
  BY <1>4 DEF Overlapping
<1>6. CASE SetPlug
  <2>1. refresh = "idle" /\ refresh' # "idle" /\ refresh' # "clearDecoders"
    BY <1>6 DEF SetPlug
  <2>2. asked' \in {asked, disk} /\ due' = due
    BY <2>1 DEF History
  <2>3. FileTimes'
    <3> SUFFICES ASSUME NEW m \in Movies PROVE due[m] <= asked'[m] /\ asked'[m] <= disk[m]
      BY <1>1, <2>2 DEF FileTimes
    <3>1. due[m] \in Nat /\ asked[m] \in Nat /\ disk[m] \in Nat
      BY SharedCachesAssumption
    <3> QED BY <2>2, <3>1 DEF FileTimes
  <2>4. HeldFresh'
    BY <1>1, <1>4, <2>1 DEF HeldFresh, HoldingPCs, LoadingFramePCs
  <2>5. FramesLeft'
    BY <2>1 DEF FramesLeft
  <2>6. FramesFresh' /\ DecodersFresh'
    BY <1>1, <1>2, <1>3, <2>2 DEF FramesFresh, DecodersFresh, AllCached
  <2> QED BY <1>5, <2>3, <2>4, <2>5, <2>6
<1>7. CASE FramesCleared
  <2>1. refresh \in {"clearFrames", "clearOnlyFrames"} /\ refresh' \in {"clearDecoders", "idle"}
    BY <1>7 DEF FramesCleared
  <2>2. asked' = asked /\ due' = due
    BY <2>1 DEF History
  <2>3. FileTimes'
    BY <1>1, <2>2 DEF FileTimes
  <2>4. HeldFresh'
    <3>1. \A t \in Threads : pc[t] # "idle" => t \in overlap'
      BY <1>1, <2>1 DEF History, Overlapping
    <3> QED BY <1>1, <3>1 DEF HeldFresh, HoldingPCs, LoadingFramePCs
  <2>5. FramesLeft'
    <3>1. CASE CachedKeys(frames) = {}
      BY <1>2, <3>1 DEF FramesLeft
    <3>2. CASE AtLimit("limitFrames") # {}
      <4>1. CachedKeys(frames) \subseteq stray'
        BY <1>2, <2>1, <3>2 DEF History, AllCached
      <4> QED BY <1>2, <4>1 DEF FramesLeft
    <3> QED BY <1>7, <3>1, <3>2 DEF FramesCleared
  <2>6. FramesFresh' /\ DecodersFresh'
    BY <1>1, <1>2, <1>3, <2>2 DEF FramesFresh, DecodersFresh, AllCached
  <2> QED BY <1>5, <2>3, <2>4, <2>5, <2>6
<1>8. CASE DecodersCleared
  <2>1. refresh = "clearDecoders" /\ refresh' = "idle"
    BY <1>8 DEF DecodersCleared
  <2>2. asked' = asked /\ due' = asked
    BY <2>1 DEF History
  <2>3. FileTimes'
    <3> SUFFICES ASSUME NEW m \in Movies PROVE asked[m] <= asked[m] /\ asked[m] <= disk[m]
      BY <1>1, <2>2 DEF FileTimes
    <3> QED BY DEF FileTimes
  <2>4. HeldFresh'
    <3>1. \A t \in Threads : pc[t] # "idle" => t \in overlap'
      BY <1>1, <2>1 DEF History, Overlapping
    <3> QED BY <1>1, <3>1 DEF HeldFresh, HoldingPCs, LoadingFramePCs
  <2>5. FramesLeft'
    BY <2>1 DEF FramesLeft
  <2>6. CachedKeys(decoders) \subseteq stray'
    <3>1. CASE CachedKeys(decoders) = {}
      BY <3>1
    <3>2. CASE AtLimit("limitDecoders") # {}
      BY <1>2, <2>1, <3>2 DEF History, AllCached
    <3> QED BY <1>8, <3>1, <3>2 DEF DecodersCleared
  <2>7. CachedKeys(frames) \subseteq stray'
    BY <1>3, <2>1 DEF FramesLeft, AllCached
  <2>8. FramesFresh' /\ DecodersFresh'
    BY <1>2, <2>6, <2>7 DEF FramesFresh, DecodersFresh
  <2> QED BY <1>5, <2>3, <2>4, <2>5, <2>8
<1> QED BY <1>6, <1>7, <1>8

LEMMA StepKeepsInv == IInv /\ [Next]_vars => IInv'
<1>1. ASSUME IInv, Next PROVE IInv'
  <2>1. Types' /\ History /\ HistoryTypes'
    BY <1>1, TypesKept, HistoryIsKept, HistoryTypesKept
  <2>2. Positions' /\ FrameMakers' /\ DecoderMakers'
    BY <1>1, PositionsKept, FrameMakersKept, DecoderMakersKept
  <2>3. Fresh'
    <3>1. CASE SetPlug \/ FramesCleared \/ DecodersCleared
      BY <1>1, <2>1, <3>1, FreshInRefresh
    <3>2. CASE refresh' = refresh
      BY <1>1, <2>1, <3>2, FreshKept, FramesAreStored, DecodersAreStored, HeldAfter,
         FilesOnlyAge
    <3> QED BY <1>1, <3>1, <3>2, NextActions DEF Request, FrameHit, FrameMiss, BeginDecode,
               EndDecode, StoreFrame, EvictFrame, FramesLimited, DecoderHit, DecoderMiss,
               OpenDecoder, StoreDecoder, EvictDecoder, DecodersLimited, ClearFrame,
               ClearDecoder, Replace
  <2> QED BY <2>1, <2>2, <2>3 DEF IInv
<1>2. ASSUME IInv, UNCHANGED vars PROVE IInv'
  BY <1>2 DEF vars, IInv, Types, HistoryTypes, Positions, FrameMakers, DecoderMakers,
     LoadsFrame,
     LoadsDecoder, Movie, Fresh, FileTimes, Overlapping, FramesLeft, HeldFresh, FramesFresh,
     DecodersFresh, CachedKeys
<1> QED BY <1>1, <1>2

LEMMA Invariant == Spec => []IInv
BY InitialInv, StepKeepsInv, PTL DEF Spec

-----------------------------------------------------------------------------
(* Every variable keeps its kind, for any number of threads, movies and     *)
(* frames.                                                                  *)
THEOREM TypeCorrect == Spec => []TypeOK
<1>1. IInv => TypeOK
  BY DEF IInv, Types, HistoryTypes, TypeOK
<1> QED BY <1>1, Invariant, PTL

(* Every entry that others wait for has exactly one thread that makes it,   *)
(* however requests, evictions and clears of the two caches interleave.     *)
THEOREM OneMaker == Spec => []OneLoaderPerEntry
<1>1. ASSUME IInv, NEW k \in FrameKeys
      PROVE  Cardinality(FrameLoaders(k)) = (IF frames[k].state = "loading" THEN 1 ELSE 0)
  <2>1. FrameLoaders(k) = {t \in Threads : LoadsFrame(t) /\ want[t] = k}
    BY DEF FrameLoaders, LoadsFrame
  <2>2. CASE frames[k].state = "loading"
    <3>1. PICK t \in Threads : LoadsFrame(t) /\ want[t] = k
      BY <1>1, <2>2 DEF IInv, FrameMakers
    <3>2. FrameLoaders(k) = {t}
      BY <1>1, <2>1, <3>1 DEF IInv, FrameMakers
    <3> QED BY <2>2, <3>2, FS_Singleton
  <2>3. CASE frames[k].state # "loading"
    <3>1. FrameLoaders(k) = {}
      BY <1>1, <2>1, <2>3 DEF IInv, FrameMakers
    <3> QED BY <2>3, <3>1, FS_EmptySet
  <2> QED BY <2>2, <2>3
<1>2. ASSUME IInv, NEW m \in Movies
      PROVE  Cardinality(DecoderLoaders(m)) = (IF decoders[m].state = "loading" THEN 1 ELSE 0)
  <2>1. DecoderLoaders(m) = {t \in Threads : LoadsDecoder(t) /\ Movie(t) = m}
    BY DEF DecoderLoaders, LoadsDecoder
  <2>2. CASE decoders[m].state = "loading"
    <3>1. PICK t \in Threads : LoadsDecoder(t) /\ Movie(t) = m
      BY <1>2, <2>2 DEF IInv, DecoderMakers
    <3>2. DecoderLoaders(m) = {t}
      BY <1>2, <2>1, <3>1 DEF IInv, DecoderMakers
    <3> QED BY <2>2, <3>2, FS_Singleton
  <2>3. CASE decoders[m].state # "loading"
    <3>1. DecoderLoaders(m) = {}
      BY <1>2, <2>1, <2>3 DEF IInv, DecoderMakers
    <3> QED BY <2>3, <3>1, FS_EmptySet
  <2> QED BY <2>2, <2>3
<1>3. IInv => OneLoaderPerEntry
  BY <1>1, <1>2 DEF OneLoaderPerEntry
<1> QED BY <1>3, Invariant, PTL

(* No circle of waiting threads, however many there are: a chain of them    *)
(* has at most one that makes a frame before it ends at one that can go on. *)
THEOREM NoCircleOfWaiting == Spec => []WaitsForWorker
<1>1. ASSUME IInv, NEW t \in Threads, pc[t] = "decoder", ~ CanGoOn(t)
      PROVE  \E u \in Threads : WaitsFor(t, u) /\ CanGoOn(u)
  <2>1. Movie(t) \in Movies /\ decoders[Movie(t)].state = "loading"
    BY <1>1, KeyHasMovie DEF CanGoOn, Movie, IInv, Types
  <2>2. PICK u \in Threads : LoadsDecoder(u) /\ Movie(u) = Movie(t)
    BY <1>1, <2>1 DEF IInv, DecoderMakers
  <2>3. CanGoOn(u)
    BY <2>2 DEF LoadsDecoder, LoadingDecoderPCs, CanGoOn
  <2>4. WaitsFor(t, u)
    BY <1>1, <2>1, <2>2 DEF WaitsFor, DecoderLoaders, LoadsDecoder
  <2> QED BY <2>3, <2>4
<1>2. ASSUME IInv, NEW t \in Threads, pc[t] = "frame", ~ CanGoOn(t)
      PROVE  \E u \in Threads : WaitsFor(t, u) /\ (CanGoOn(u) \/ pc[u] = "decoder")
  <2>1. want[t] \in FrameKeys /\ frames[want[t]].state = "loading"
    BY <1>2 DEF CanGoOn, IInv, Types
  <2>2. PICK u \in Threads : LoadsFrame(u) /\ want[u] = want[t]
    BY <1>2, <2>1 DEF IInv, FrameMakers
  <2>3. CanGoOn(u) \/ pc[u] = "decoder"
    BY <2>2 DEF LoadsFrame, LoadingFramePCs, LoadingDecoderPCs, CanGoOn
  <2>4. WaitsFor(t, u)
    BY <1>2, <2>1, <2>2 DEF WaitsFor, FrameLoaders, LoadsFrame
  <2> QED BY <2>3, <2>4
<1>3. ASSUME NEW t \in Threads, ~ CanGoOn(t)
      PROVE  pc[t] \in {"frame", "decoder"}
  BY <1>3 DEF CanGoOn
<1>4. IInv => WaitsForWorker
  <2> SUFFICES ASSUME IInv, NEW t \in Threads, ~ CanGoOn(t)
               PROVE  \E u \in Threads : WaitsFor(t, u) /\
                        (CanGoOn(u) \/ \E v \in Threads : WaitsFor(u, v) /\ CanGoOn(v))
    BY DEF WaitsForWorker
  <2>1. CASE pc[t] = "decoder"
    BY <1>1, <2>1
  <2>2. CASE pc[t] = "frame"
    <3>1. PICK u \in Threads : WaitsFor(t, u) /\ (CanGoOn(u) \/ pc[u] = "decoder")
      BY <1>2, <2>2
    <3>2. CanGoOn(u) \/ \E v \in Threads : WaitsFor(u, v) /\ CanGoOn(v)
      BY <1>1, <3>1
    <3> QED BY <3>1, <3>2
  <2> QED BY <1>3, <2>1, <2>2
<1> QED BY <1>4, Invariant, PTL

(* Nothing older than the last complete refresh is cached but what a        *)
(* request that overlapped a refresh put in, or what a clear() that gave up *)
(* left behind (av_reader.cpp:684-690).                                     *)
THEOREM StaleIsExplained == Spec => []StaleHasCause
<1>1. IInv => StaleHasCause
  BY DEF IInv, Fresh, FramesFresh, DecodersFresh, StaleHasCause
<1> QED BY <1>1, Invariant, PTL

=============================================================================
