-------------------------- MODULE ReaderNodesProofs --------------------------
(* Theorems about ReaderNodes, for all readers, files, plugs and limits.    *)
EXTENDS ReaderNodes, FiniteSetTheorems, TLAPS

(* What a refresh leaves behind: nothing in the shared caches is older than *)
(* anybody's last refresh.                                                  *)
SharedFresh ==
  \A e \in decoders \cup frames : e.version \in Versions
    /\ \A q \in Readers : e.version >= reloaded[q]

NothingNewer ==
  /\ disk \in Versions
  /\ reloaded \in [Readers -> Versions]
  /\ \A q \in Readers : reloaded[q] <= disk

(* What the value of a plug says of the time it was computed at: the count  *)
(* of refreshes in its key is not ahead of its maker's, and with the count  *)
(* the maker has now it is not older than the maker's refresh.              *)
Count(k) == k[2]["refreshCount"]

FreshValue(e) ==
  /\ e.maker \in Readers
  /\ "refreshCount" \in DOMAIN e.key[2]
  /\ Count(e.key) \in Nat /\ Count(e.key) <= plugs[e.maker].refreshCount
  /\ e.value.kind # "error"
  /\ Count(e.key) = plugs[e.maker].refreshCount /\ e.value.kind # "unset"
       => e.value.version >= reloaded[e.maker]

ValuesFresh == \A e \in values : FreshValue(e)

Plugs ==
  /\ plugs \in [Readers -> PlugValues]
  /\ changes \in 0 .. MaxChanges
  /\ \A r \in Readers : plugs[r].refreshCount <= changes

TileHasReader == tile.phase = "window" => tile.reader \in Readers

IInv == Plugs /\ NothingNewer /\ SharedFresh /\ ValuesFresh /\ TileHasReader

-----------------------------------------------------------------------------
(* Caches.                                                                  *)

LEMMA EntryIsThere ==
  ASSUME NEW cache, NEW k, Has(cache, k)
  PROVE  Entry(cache, k) \in cache /\ Entry(cache, k).key = k
BY DEF Has, Entry

LEMMA InsertAddsOnlyNew ==
  ASSUME NEW cache, NEW new, NEW limit, NEW s \in Insert(cache, new, limit)
  PROVE  s \subseteq cache \cup new
BY DEF Insert

-----------------------------------------------------------------------------
(* Versions.                                                                *)

LEMMA VersionsAreNumbers == Versions \subseteq Nat
BY ReaderNodesAssumption DEF Versions

(* What the shared caches give out is as new as what they hold.             *)
LEMMA DecoderIsFresh ==
  ASSUME NothingNewer, SharedFresh, NEW f
  PROVE  /\ DecoderEntry(f).version \in Versions
         /\ \A q \in Readers : DecoderEntry(f).version >= reloaded[q]
<1>1. CASE Has(decoders, f)
  BY <1>1, EntryIsThere DEF DecoderEntry, SharedFresh
<1>2. CASE ~Has(decoders, f)
  BY <1>2, VersionsAreNumbers DEF DecoderEntry, NothingNewer
<1> QED BY <1>1, <1>2

LEMMA FrameIsFresh ==
  ASSUME NothingNewer, SharedFresh, NEW f, NEW s, NEW n
  PROVE  /\ FrameEntry(f, s, n).version \in Versions
         /\ \A q \in Readers : FrameEntry(f, s, n).version >= reloaded[q]
<1>1. CASE Has(frames, <<f, s, n>>)
  BY <1>1, EntryIsThere DEF FrameEntry, SharedFresh
<1>2. CASE ~Has(frames, <<f, s, n>>)
  <2>1. FrameEntry(f, s, n).version = DecoderEntry(f).version
    BY <1>2 DEF FrameEntry
  <2> QED BY <2>1, DecoderIsFresh
<1> QED BY <1>1, <1>2

-----------------------------------------------------------------------------
(* What an AvReader computes.                                               *)

(* A record of a result which, unless it is no value at all, is not older   *)
(* than anybody's last refresh.                                             *)
Result(v) ==
  /\ v = [kind |-> v.kind, version |-> v.version, nb |-> v.nb, data |-> v.data]
  /\ v.kind \notin {"unset", "error"} => \A q \in Readers : v.version >= reloaded[q]

LEMMA ResultsOf ==
  ASSUME NEW v, NEW n, NEW d, \A q \in Readers : v >= reloaded[q]
  PROVE  Result(Value(v, n, d)) /\ Result(Default(v))
BY DEF Result, Value, Default

LEMMA NoResults == Result(Unset) /\ \A v : Result(Raised(v))
BY DEF Result, Unset, Raised

LEMMA WithoutData ==
  ASSUME NEW k, NEW w, NEW m, NEW d
  PROVE  [[kind |-> k, version |-> w, nb |-> m, data |-> d] EXCEPT !.data = 0]
           = [kind |-> k, version |-> w, nb |-> m, data |-> 0]
OBVIOUS

LEMMA NoDataIsResult ==
  ASSUME NEW v, Result(v)
  PROVE  Result([v EXCEPT !.data = 0])
<1> DEFINE w == [kind |-> v.kind, version |-> v.version, nb |-> v.nb, data |-> 0]
<1>1. PICK k, u, m, d : v = [kind |-> k, version |-> u, nb |-> m, data |-> d]
  BY Zenon DEF Result
<1>2. [v EXCEPT !.data = 0] = [kind |-> k, version |-> u, nb |-> m, data |-> 0]
  BY <1>1, WithoutData, Zenon
<1>3. v.kind = k /\ v.version = u /\ v.nb = m
  BY <1>1
<1>4. [v EXCEPT !.data = 0] = w
  BY <1>2, <1>3, Zenon
<1>5. Result(w)
  BY DEF Result
<1> QED BY <1>4, <1>5

LEMMA FileValidIsFresh ==
  ASSUME NothingNewer, SharedFresh, NEW r
  PROVE  Result(ComputeFileValid(r))
<1>1. \A q \in Readers : Decoder(r).version >= reloaded[q]
  BY DecoderIsFresh DEF Decoder
<1>2. Result(Value(Decoder(r).version, 0, 0))
  BY <1>1, ResultsOf
<1> QED BY <1>2, NoResults DEF ComputeFileValid

LEMMA AvailableIsFresh ==
  ASSUME NothingNewer, SharedFresh, NEW r
  PROVE  Result(ComputeAvailableFrames(r))
<1> DEFINE w == Decoder(r).version
           c == Movies[w].count
<1>1. \A q \in Readers : w >= reloaded[q]
  BY DecoderIsFresh DEF Decoder
<1>2. Result(Value(w, 0, c)) /\ Result(Default(w))
  BY <1>1, ResultsOf
<1> QED BY <1>2, NoResults DEF ComputeAvailableFrames

(* An exception is not kept: one from availableFrames is a new one.         *)
LEMMA AvailableRaised ==
  ASSUME NothingNewer, SharedFresh, ValuesFresh, NEW r, AvailableFrames(r).kind = "error"
  PROVE  Result(AvailableFrames(r))
<1> DEFINE k == AvHash(r, "availableFrames", 0)
<1>1. ~Has(values, k)
  <2> SUFFICES ASSUME Has(values, k) PROVE FALSE
    OBVIOUS
  <2>1. Entry(values, k) \in values
    BY EntryIsThere
  <2>2. Entry(values, k).value.kind = "error"
    BY DEF AvailableFrames
  <2> QED BY <2>1, <2>2 DEF ValuesFresh, FreshValue
<1>2. AvailableFrames(r) = ComputeAvailableFrames(r)
  BY <1>1 DEF AvailableFrames
<1> QED BY <1>2, AvailableIsFresh

(* A held frame comes from SharedFrames, even if the number it is found by  *)
(* comes from an older value of availableFrames.                            *)
LEMMA RetrievedIsFresh ==
  ASSUME Plugs, NothingNewer, SharedFresh, ValuesFresh,
         NEW r \in Readers, NEW n, NEW b
  PROVE  Result(RetrieveFrame(r, n, b))
<1> DEFINE mode == Mode(r, b)
           e == FrameOf(r, n)
           h == FrameOf(r, HeldFrame(AvailableFrames(r).data, n))
<1>1. \A m : \A q \in Readers : FrameOf(r, m).version >= reloaded[q]
  BY FrameIsFresh DEF FrameOf
<1>2. Result(Shown(e)) /\ Result(Default(e.version)) /\ Result(Raised(e.version))
  <2>1. \A q \in Readers : e.version >= reloaded[q]
    BY <1>1
  <2> QED BY <2>1, ResultsOf, NoResults DEF Shown
<1>3. Result(Held(r, n))
  <2>1. \A q \in Readers : h.version >= reloaded[q]
    BY <1>1
  <2>2. Result(Shown(h)) /\ Result(Raised(h.version))
    BY <2>1, ResultsOf, NoResults DEF Shown
  <2> QED BY <2>2, AvailableRaised DEF Held
<1>4. mode \in {"Error", "Black", "Hold"}
  BY DEF Mode, Plugs, PlugValues
<1> QED BY <1>2, <1>3, <1>4, NoResults DEF RetrieveFrame

LEMMA ComputedIsFresh ==
  ASSUME Plugs, NothingNewer, SharedFresh, ValuesFresh,
         NEW r \in Readers, NEW out, NEW n
  PROVE  Result(AvCompute(r, out, n))
<1> DEFINE f == RetrieveFrame(r, n, FALSE)
<1>1. Result(f) /\ Result(RetrieveFrame(r, n, TRUE))
  BY RetrievedIsFresh
<1>2. Result([f EXCEPT !.data = 0])
  BY <1>1, NoDataIsResult
<1> QED BY <1>1, <1>2, FileValidIsFresh, AvailableIsFresh, NoResults DEF AvCompute

-----------------------------------------------------------------------------
(* Values of plugs.                                                         *)

LEMMA HashHasCount ==
  ASSUME Plugs, NEW r \in Readers, NEW out, NEW n,
         "refreshCount" \in HashedPlugs(out)
  PROVE  /\ "refreshCount" \in DOMAIN AvHash(r, out, n)[2]
         /\ Count(AvHash(r, out, n)) = plugs[r].refreshCount
         /\ Count(AvHash(r, out, n)) \in Nat
<1>1. plugs[r].refreshCount \in Nat
  <2>1. plugs[r].refreshCount \in 0 .. MaxChanges
    BY DEF Plugs, PlugValues
  <2> QED BY <2>1
<1>2. AvHash(r, out, n)[2] = [p \in HashedPlugs(out) |-> plugs[r][p]]
  BY DEF AvHash
<1> QED BY <1>1, <1>2 DEF Count

(* A value that is kept under the hash of the reader that computed it.      *)
LEMMA KeptIsFresh ==
  ASSUME Plugs, NEW r \in Readers, NEW out, NEW n,
         "refreshCount" \in HashedPlugs(out), NEW v, Result(v)
  PROVE  \A e \in Kept(r, AvHash(r, out, n), v) : FreshValue(e)
<1> DEFINE k == AvHash(r, out, n)
<1> SUFFICES ASSUME NEW e \in Kept(r, k, v) PROVE FreshValue(e)
  OBVIOUS
<1>1. v.kind # "error" /\ e = [key |-> k, value |-> v, maker |-> r]
  BY DEF Kept
<1>2. e.key = k /\ e.value = v /\ e.maker = r
  BY <1>1
<1>3. /\ "refreshCount" \in DOMAIN k[2] /\ Count(k) \in Nat
      /\ Count(k) = plugs[r].refreshCount
  BY HashHasCount
<1>4. Count(k) <= plugs[r].refreshCount
  BY <1>3
<1>5. v.kind # "unset" => v.version >= reloaded[r]
  BY <1>1 DEF Result
<1> HIDE DEF k
<1> QED BY <1>1, <1>2, <1>3, <1>4, <1>5 DEF FreshValue

LEMMA AvailableIsKeptFresh ==
  ASSUME Plugs, NothingNewer, SharedFresh, ValuesFresh, NEW r \in Readers,
         ~Has(values, AvHash(r, "availableFrames", 0))
  PROVE  \A e \in Kept(r, AvHash(r, "availableFrames", 0), AvailableFrames(r)) :
           FreshValue(e)
<1>1. Result(AvailableFrames(r))
  BY AvailableIsFresh DEF AvailableFrames
<1>2. "refreshCount" \in HashedPlugs("availableFrames")
  BY DEF HashedPlugs
<1> QED BY <1>1, <1>2, KeptIsFresh
-----------------------------------------------------------------------------
(* Steps.                                                                   *)

LEMMA KeptNewIsFresh ==
  ASSUME Plugs, NothingNewer, SharedFresh, ValuesFresh, NEW r \in Readers, NEW m, NEW b,
         NEW new, \A e \in new : FreshValue(e), Retrieve(r, m, b, new)
  PROVE  /\ \A e \in values' : FreshValue(e)
         /\ \A e \in decoders' \cup frames' : e.version \in Versions
              /\ \A q \in Readers : e.version >= reloaded[q]
<1> DEFINE k == AvHash(r, "availableFrames", 0)
           available == AvailableFrames(r)
           holds == Holds(r, m, b)
           held == FrameOf(r, HeldFrame(available.data, m))
           asked == {FrameOf(r, m)} \cup (IF holds /\ available.data > 0 THEN {held} ELSE {})
           pulled == IF holds THEN Kept(r, k, available) ELSE {}
           more == new \cup (IF Has(values, k) THEN {} ELSE pulled)
           opened == IF asked \subseteq frames /\ (~holds \/ Has(values, k))
                     THEN {} ELSE {Decoder(r)}
<1>1. /\ frames' \in Insert(frames, asked, MaxFrames)
      /\ decoders' \in Insert(decoders, opened, MaxDecoders)
      /\ values' \in Insert(values, more, MaxValues)
  BY DEF Retrieve
<1>2. \A e \in more : FreshValue(e)
  BY AvailableIsKeptFresh
<1>3. \A e \in values' : FreshValue(e)
  <2>1. values' \subseteq values \cup more
    BY <1>1, InsertAddsOnlyNew
  <2> QED BY <1>2, <2>1 DEF ValuesFresh
<1>4. \A e \in asked \cup opened : e.version \in Versions
              /\ \A q \in Readers : e.version >= reloaded[q]
  <2>1. \A i : FrameOf(r, i).version \in Versions
               /\ \A q \in Readers : FrameOf(r, i).version >= reloaded[q]
    BY FrameIsFresh DEF FrameOf
  <2>2. /\ Decoder(r).version \in Versions
        /\ \A q \in Readers : Decoder(r).version >= reloaded[q]
    BY DecoderIsFresh DEF Decoder
  <2>3. \A e \in asked : e = FrameOf(r, m) \/ e = held
    OBVIOUS
  <2>4. \A e \in opened : e = Decoder(r)
    OBVIOUS
  <2> QED BY <2>1, <2>2, <2>3, <2>4
<1>5. frames' \subseteq frames \cup asked /\ decoders' \subseteq decoders \cup opened
  BY <1>1, InsertAddsOnlyNew
<1> QED BY <1>3, <1>4, <1>5 DEF SharedFresh

LEMMA CountIsNumber ==
  ASSUME NEW p \in PlugValues
  PROVE  p.refreshCount \in 0 .. MaxChanges /\ p.refreshCount \in Nat
<1>1. p.refreshCount \in 0 .. MaxChanges
  BY DEF PlugValues
<1> QED BY <1>1

(* What a step keeps that changes neither plugs nor files.                  *)
LEMMA SamePlugs ==
  ASSUME Plugs, NothingNewer, UNCHANGED <<plugs, disk, reloaded, changes>>
  PROVE  Plugs' /\ NothingNewer' /\ \A e : FreshValue(e) => FreshValue(e)'
BY DEF Plugs, NothingNewer, FreshValue, Versions

LEMMA RetrieveKeeps ==
  ASSUME Plugs, NothingNewer, SharedFresh, ValuesFresh, NEW r \in Readers, NEW m, NEW b,
         NEW new, \A e \in new : FreshValue(e), Retrieve(r, m, b, new),
         UNCHANGED <<plugs, disk, reloaded, changes>>
  PROVE  Plugs' /\ NothingNewer' /\ SharedFresh' /\ ValuesFresh'
<1>1. \A e \in values' : FreshValue(e)
  BY KeptNewIsFresh
<1>2. \A e \in decoders' \cup frames' : e.version \in Versions
        /\ \A q \in Readers : e.version >= reloaded[q]
  BY KeptNewIsFresh
<1>3. SharedFresh'
  BY <1>2 DEF SharedFresh, Versions
<1>4. Plugs' /\ NothingNewer' /\ \A e : FreshValue(e) => FreshValue(e)'
  BY SamePlugs
<1>5. ValuesFresh'
  BY <1>1, <1>4 DEF ValuesFresh
<1> QED BY <1>3, <1>4, <1>5

(* A value that is pulled is that of an AvReader, under its hash.           *)
LEMMA PulledIsFresh ==
  ASSUME Plugs, NothingNewer, SharedFresh, ValuesFresh, NEW r \in Readers,
         NEW out, NEW n, "refreshCount" \in HashedPlugs(out),
         Compute(r, out, n).kind # "unset"
  PROVE  \A e \in Kept(r, Hash(r, out, n), Compute(r, out, n)) : FreshValue(e)
<1> DEFINE m == ScopeFrame(r, out, n)
<1>1. ~IsBlack(r, out, n)
  BY DEF Compute, Unset
<1>2. Hash(r, out, n) = AvHash(r, out, m) /\ Compute(r, out, n) = AvCompute(r, out, m)
  BY <1>1 DEF Hash, Compute
<1>3. Result(AvCompute(r, out, m))
  BY ComputedIsFresh
<1> QED BY <1>2, <1>3, KeptIsFresh
-----------------------------------------------------------------------------
(* The invariant.                                                           *)

LEMMA InitialFresh == Init => IInv
<1> SUFFICES ASSUME Init PROVE IInv
  OBVIOUS
<1>1. \A r \in Readers : plugs[r] \in FirstPlugs
  BY DEF Init
<1>2. Plugs
  BY <1>1, ReaderNodesAssumption DEF Init, Plugs
<1>3. NothingNewer
  BY ReaderNodesAssumption DEF Init, NothingNewer, Versions
<1>4. SharedFresh /\ ValuesFresh
  BY DEF Init, SharedFresh, ValuesFresh
<1>5. TileHasReader
  BY DEF Init, TileHasReader, NoTile
<1> QED BY <1>2, <1>3, <1>4, <1>5 DEF IInv

LEMMA PullImageKeeps == ASSUME IInv, NEW r \in Readers, PullImage(r) PROVE IInv'
<1>1. PICK out \in Outputs \cap {"format", "dataWindow", "metadata", "channelNames"},
          n \in Frames :
        /\ Compute(r, out, n).kind # "unset"
        /\ Retrieve(r, ScopeFrame(r, out, n), out = "format",
                    Kept(r, Hash(r, out, n), Compute(r, out, n)))
        /\ UNCHANGED <<plugs, disk, tile, reloaded, changes>>
  BY DEF PullImage
<1>2. "refreshCount" \in HashedPlugs(out)
  BY DEF HashedPlugs
<1>3. \A e \in Kept(r, Hash(r, out, n), Compute(r, out, n)) : FreshValue(e)
  BY <1>1, <1>2, PulledIsFresh DEF IInv
<1>4. Plugs' /\ NothingNewer' /\ SharedFresh' /\ ValuesFresh'
  BY <1>1, <1>3, RetrieveKeeps DEF IInv
<1> QED BY <1>1, <1>4 DEF IInv, TileHasReader

LEMMA PullFileKeeps == ASSUME IInv, NEW r \in Readers, PullFile(r) PROVE IInv'
<1>1. PICK out \in Outputs \cap {"availableFrames", "fileValid", "probe"}, n \in Frames :
        /\ Compute(r, out, n).kind # "unset"
        /\ decoders' \in Insert(decoders, {Decoder(r)}, MaxDecoders)
        /\ values' \in Insert(values, Kept(r, Hash(r, out, n), Compute(r, out, n)), MaxValues)
        /\ UNCHANGED <<plugs, disk, frames, tile, reloaded, changes>>
  BY DEF PullFile
<1> DEFINE kept == Kept(r, Hash(r, out, n), Compute(r, out, n))
<1>2. "refreshCount" \in HashedPlugs(out)
  BY DEF HashedPlugs
<1>3. \A e \in kept : FreshValue(e)
  BY <1>1, <1>2, PulledIsFresh DEF IInv
<1>4. decoders' \subseteq decoders \cup {Decoder(r)} /\ values' \subseteq values \cup kept
  BY <1>1, InsertAddsOnlyNew
<1>5. Plugs' /\ NothingNewer' /\ \A e : FreshValue(e) => FreshValue(e)'
  BY <1>1, SamePlugs DEF IInv
<1>6. SharedFresh'
  <2>1. /\ Decoder(r).version \in Versions
        /\ \A q \in Readers : Decoder(r).version >= reloaded[q]
    BY DecoderIsFresh DEF Decoder, IInv
  <2> QED BY <1>1, <1>4, <2>1 DEF IInv, SharedFresh, Versions
<1>7. ValuesFresh'
  <2> HIDE DEF kept
  <2> QED BY <1>3, <1>4, <1>5 DEF IInv, ValuesFresh
<1> QED BY <1>1, <1>5, <1>6, <1>7 DEF IInv, TileHasReader

LEMMA TakeFrameKeeps == ASSUME IInv, NEW r \in Readers, TakeFrame(r) PROVE IInv'
<1>1. PICK n \in Frames :
        LET m == ScopeFrame(r, "channelData", n)
            f == RetrieveFrame(r, m, FALSE)
        IN /\ Retrieve(r, m, FALSE, {})
           /\ tile' = IF f.kind = "value"
                      THEN [phase |-> "window", reader |-> r, n |-> m, frame |-> f]
                      ELSE NoTile
           /\ UNCHANGED <<plugs, disk, reloaded, changes>>
  BY DEF TakeFrame
<1>2. Plugs' /\ NothingNewer' /\ SharedFresh' /\ ValuesFresh'
  <2>1. Retrieve(r, ScopeFrame(r, "channelData", n), FALSE, {})
    BY <1>1
  <2>2. UNCHANGED <<plugs, disk, reloaded, changes>>
    BY <1>1
  <2>3. PICK none : none = {} /\ Retrieve(r, ScopeFrame(r, "channelData", n), FALSE, none)
    BY <2>1
  <2>4. \A e \in none : FreshValue(e)
    BY <2>3
  <2> QED BY <2>2, <2>3, <2>4, RetrieveKeeps DEF IInv
<1>3. TileHasReader'
  <2>1. tile' = NoTile \/ tile'.reader = r
    BY <1>1
  <2> QED BY <2>1 DEF TileHasReader, NoTile
<1> QED BY <1>2, <1>3 DEF IInv

LEMMA TakeWindowKeeps == ASSUME IInv, TakeWindow PROVE IInv'
<1> DEFINE r == tile.reader
           v == AvCompute(r, "dataWindow", tile.n)
<1>1. r \in Readers
  BY DEF TakeWindow, IInv, TileHasReader
<1>2. tile' = NoTile /\ UNCHANGED <<plugs, disk, reloaded, changes>>
  BY DEF TakeWindow
<1>3. TileHasReader'
  BY <1>2 DEF TileHasReader, NoTile
<1>4. CASE UNCHANGED <<frames, decoders, values>>
  <2>1. Plugs' /\ NothingNewer' /\ \A e : FreshValue(e) => FreshValue(e)'
    BY <1>2, SamePlugs DEF IInv
  <2>2. SharedFresh' /\ ValuesFresh'
    BY <1>2, <1>4, <2>1 DEF IInv, SharedFresh, ValuesFresh, Versions
  <2> QED BY <1>3, <2>1, <2>2 DEF IInv
<1>5. CASE Retrieve(r, tile.n, FALSE, Kept(r, Window, v))
  <2>1. "refreshCount" \in HashedPlugs("dataWindow")
    BY DEF HashedPlugs
  <2>2. Result(v)
    BY <1>1, ComputedIsFresh DEF IInv
  <2>3. \A e \in Kept(r, Window, v) : FreshValue(e)
    BY <1>1, <2>1, <2>2, KeptIsFresh DEF IInv, Window
  <2>4. Plugs' /\ NothingNewer' /\ SharedFresh' /\ ValuesFresh'
    BY <1>1, <1>2, <1>5, <2>3, RetrieveKeeps DEF IInv
  <2> QED BY <1>3, <2>4 DEF IInv
<1> QED BY <1>4, <1>5 DEF TakeWindow
(* Setting the plugs of a reader.                                           *)
LEMMA PlugsStay ==
  ASSUME Plugs, NEW r \in Readers, changes < MaxChanges, changes' = changes + 1,
         NEW p, p \in PlugValues, plugs' = [plugs EXCEPT ![r] = p],
         p.refreshCount <= plugs[r].refreshCount + 1
  PROVE  Plugs'
<1>1. plugs' \in [Readers -> PlugValues]
  BY DEF Plugs
<1>2. changes' \in 0 .. MaxChanges
  BY ReaderNodesAssumption DEF Plugs
<1>3. ASSUME NEW q \in Readers PROVE plugs'[q].refreshCount <= changes'
  <2>1. plugs[q].refreshCount \in Nat /\ p.refreshCount \in Nat /\ changes \in Nat
    BY CountIsNumber, ReaderNodesAssumption DEF Plugs
  <2>2. plugs[q].refreshCount <= changes /\ plugs[r].refreshCount <= changes
    BY DEF Plugs
  <2>3. plugs[r].refreshCount \in Nat
    BY CountIsNumber DEF Plugs
  <2>4. plugs'[q] = IF q = r THEN p ELSE plugs[q]
    BY DEF Plugs
  <2> QED BY <2>1, <2>2, <2>3, <2>4
<1> QED BY <1>1, <1>2, <1>3 DEF Plugs

LEMMA RefreshKeeps == ASSUME IInv, NEW r \in Readers, Refresh(r) PROVE IInv'
<1> DEFINE p == [plugs[r] EXCEPT !.refreshCount = @ + 1]
<1>1. /\ plugs' = [plugs EXCEPT ![r] = p]
      /\ frames' = {} /\ decoders' = {}
      /\ reloaded' = [reloaded EXCEPT ![r] = disk]
      /\ changes < MaxChanges /\ changes' = changes + 1
      /\ UNCHANGED <<disk, values, tile>>
  BY DEF Refresh, Editable
<1>2. plugs[r] \in PlugValues /\ plugs[r].refreshCount <= changes /\ changes \in 0 .. MaxChanges
  BY DEF IInv, Plugs
<1>3. plugs[r].refreshCount + 1 \in 0 .. MaxChanges
  BY <1>1, <1>2, CountIsNumber, ReaderNodesAssumption
<1>4. p \in PlugValues /\ p.refreshCount = plugs[r].refreshCount + 1
  BY <1>2, <1>3 DEF PlugValues
<1>5. Plugs'
  <2> HIDE DEF p
  <2>1. p.refreshCount <= plugs[r].refreshCount + 1
    BY <1>3, <1>4
  <2> QED BY <1>1, <1>4, <2>1, PlugsStay DEF IInv
<1>6. NothingNewer' /\ reloaded'[r] = disk
  BY <1>1, VersionsAreNumbers DEF IInv, NothingNewer, Versions
<1>7. SharedFresh'
  BY <1>1 DEF SharedFresh
<1>8. ValuesFresh'
  <2> SUFFICES ASSUME NEW e \in values PROVE FreshValue(e)'
    BY <1>1 DEF ValuesFresh
  <2> HIDE DEF p
  <2>1. FreshValue(e)
    BY DEF IInv, ValuesFresh
  <2>2. CASE e.maker = r
    <3>1. plugs'[e.maker].refreshCount = plugs[r].refreshCount + 1
      BY <1>1, <1>4, <2>2 DEF IInv, Plugs
    <3>2. plugs[r].refreshCount \in Nat
      BY <1>2, CountIsNumber
    <3> QED BY <2>1, <2>2, <3>1, <3>2 DEF FreshValue, Count
  <2>3. CASE e.maker # r
    <3>1. e.maker \in Readers
      BY <2>1 DEF FreshValue
    <3>2. plugs'[e.maker] = plugs[e.maker]
      BY <1>1, <2>3, <3>1 DEF IInv, Plugs
    <3>3. reloaded'[e.maker] = reloaded[e.maker]
      BY <1>1, <2>3, <3>1 DEF IInv, NothingNewer
    <3> QED BY <2>1, <3>2, <3>3 DEF FreshValue, Count
  <2> QED BY <2>2, <2>3
<1>9. TileHasReader'
  BY <1>1 DEF IInv, TileHasReader
<1> QED BY <1>5, <1>6, <1>7, <1>8, <1>9 DEF IInv

(* Plugs that are set with the count of refreshes as it is.                 *)
LEMMA SameCount ==
  ASSUME IInv, NEW r \in Readers, NEW p \in PlugValues,
         p.refreshCount = plugs[r].refreshCount,
         changes < MaxChanges, changes' = changes + 1,
         plugs' = [plugs EXCEPT ![r] = p],
         frames' \subseteq frames, UNCHANGED <<disk, decoders, values, tile, reloaded>>
  PROVE  IInv'
<1>1. p.refreshCount <= plugs[r].refreshCount + 1
  BY CountIsNumber
<1>2. Plugs'
  BY <1>1, PlugsStay DEF IInv
<1>3. NothingNewer' /\ SharedFresh' /\ TileHasReader'
  BY DEF IInv, NothingNewer, SharedFresh, TileHasReader, Versions
<1>4. ValuesFresh'
  <2> SUFFICES ASSUME NEW e \in values PROVE FreshValue(e)'
    BY DEF ValuesFresh
  <2>1. FreshValue(e)
    BY DEF IInv, ValuesFresh
  <2>2. e.maker \in Readers
    BY <2>1 DEF FreshValue
  <2>3. plugs'[e.maker].refreshCount = plugs[e.maker].refreshCount
    BY <2>2 DEF IInv, Plugs
  <2> QED BY <2>1, <2>3 DEF FreshValue, Count
<1> QED BY <1>2, <1>3, <1>4 DEF IInv

LEMMA SetFilterGraphKeeps == ASSUME IInv, NEW r \in Readers, SetFilterGraph(r) PROVE IInv'
<1>1. PICK f \in Filters :
        /\ changes < MaxChanges
        /\ plugs' = [plugs EXCEPT ![r].filterGraph = f]
        /\ frames' = {} /\ changes' = changes + 1
        /\ UNCHANGED <<disk, decoders, values, tile, reloaded>>
  BY DEF SetFilterGraph, Editable
<1> DEFINE p == [plugs[r] EXCEPT !.filterGraph = f]
<1>2. plugs[r] \in PlugValues
  BY DEF IInv, Plugs
<1>3. p \in PlugValues /\ p.refreshCount = plugs[r].refreshCount
  BY <1>2 DEF PlugValues
<1>4. plugs' = [plugs EXCEPT ![r] = p]
  BY <1>1
<1> HIDE DEF p
<1> QED BY <1>1, <1>3, <1>4, SameCount

LEMMA SetPlugsKeeps == ASSUME IInv, NEW r \in Readers, SetPlugs(r) PROVE IInv'
<1>1. PICK s \in Settings :
        /\ changes < MaxChanges
        /\ plugs' = [plugs EXCEPT ![r] =
             [s EXCEPT !.refreshCount = plugs[r].refreshCount,
                       !.filterGraph = plugs[r].filterGraph]]
        /\ changes' = changes + 1
        /\ UNCHANGED <<disk, decoders, frames, values, tile, reloaded>>
  BY DEF SetPlugs, Editable
<1> DEFINE p == [s EXCEPT !.refreshCount = plugs[r].refreshCount,
                          !.filterGraph = plugs[r].filterGraph]
<1>2. plugs[r] \in PlugValues /\ s \in PlugValues
  BY ReaderNodesAssumption DEF IInv, Plugs
<1>3. p \in PlugValues /\ p.refreshCount = plugs[r].refreshCount
  BY <1>2 DEF PlugValues
<1>4. plugs' = [plugs EXCEPT ![r] = p]
  BY <1>1
<1> HIDE DEF p
<1> QED BY <1>1, <1>3, <1>4, SameCount

LEMMA ReplaceKeeps == ASSUME IInv, Replace PROVE IInv'
<1>1. changes < MaxChanges /\ disk' = disk + 1 /\ disk + 1 \in Versions
  BY DEF Replace
<1>2. changes' = changes + 1 /\ UNCHANGED <<plugs, decoders, frames, values, tile, reloaded>>
  BY DEF Replace
<1>3. Plugs'
  <2>1. changes' \in 0 .. MaxChanges
    BY <1>1, <1>2, ReaderNodesAssumption DEF IInv, Plugs
  <2>2. \A r \in Readers : plugs[r].refreshCount <= changes + 1
    <3>1. \A r \in Readers : plugs[r].refreshCount \in Nat
      BY CountIsNumber DEF IInv, Plugs
    <3>2. changes \in Nat
      BY ReaderNodesAssumption DEF IInv, Plugs
    <3> QED BY <3>1, <3>2 DEF IInv, Plugs
  <2> QED BY <1>2, <2>1, <2>2 DEF IInv, Plugs
<1>4. NothingNewer'
  BY <1>1, <1>2, VersionsAreNumbers DEF IInv, NothingNewer, Versions
<1>5. SharedFresh' /\ TileHasReader'
  BY <1>2 DEF IInv, SharedFresh, TileHasReader, Versions
<1>6. ValuesFresh'
  BY <1>2 DEF IInv, ValuesFresh, FreshValue
<1> QED BY <1>3, <1>4, <1>5, <1>6 DEF IInv

LEMMA StepKeeps == IInv /\ [Next]_vars => IInv'
<1> SUFFICES ASSUME IInv, [Next]_vars PROVE IInv'
  OBVIOUS
<1>1. ASSUME NEW r \in Readers, PullImage(r) PROVE IInv'
  BY <1>1, PullImageKeeps
<1>2. ASSUME NEW r \in Readers, PullFile(r) PROVE IInv'
  BY <1>2, PullFileKeeps
<1>3. ASSUME NEW r \in Readers, TakeFrame(r) PROVE IInv'
  BY <1>3, TakeFrameKeeps
<1>4. ASSUME NEW r \in Readers, Refresh(r) PROVE IInv'
  BY <1>4, RefreshKeeps
<1>5. ASSUME NEW r \in Readers, SetFilterGraph(r) PROVE IInv'
  BY <1>5, SetFilterGraphKeeps
<1>6. ASSUME NEW r \in Readers, SetPlugs(r) PROVE IInv'
  BY <1>6, SetPlugsKeeps
<1>7. CASE TakeWindow
  BY <1>7, TakeWindowKeeps
<1>8. CASE Replace
  BY <1>8, ReplaceKeeps
<1>9. CASE UNCHANGED vars
  BY <1>9 DEF vars, IInv, Plugs, NothingNewer, SharedFresh, ValuesFresh, FreshValue,
              TileHasReader, Versions
<1> QED BY <1>1, <1>2, <1>3, <1>4, <1>5, <1>6, <1>7, <1>8, <1>9 DEF Next

(* In every state of every behaviour the shared caches hold nothing that is *)
(* older than a refresh of any reader, and no reader's own value with its   *)
(* present count of refreshes is older than its last one.                   *)
THEOREM Freshness == Spec => []IInv
BY InitialFresh, StepKeeps, PTL DEF Spec

LEMMA FreshImpliesReloaded == IInv => ReloadedUnlessShared
<1> SUFFICES ASSUME IInv, NEW r \in Readers
             PROVE  /\ \A e \in decoders \cup frames : e.version >= reloaded[r]
                    /\ \A e \in values : \A out \in Outputs, n \in Frames :
                         e.maker = r /\ e.key = Hash(r, out, n) /\ e.value.kind # "unset"
                           => e.value.version >= reloaded[r]
  BY DEF ReloadedUnlessShared
<1>1. \A e \in decoders \cup frames : e.version >= reloaded[r]
  BY DEF IInv, SharedFresh
<1>2. ASSUME NEW e \in values, NEW out \in Outputs, NEW n \in Frames,
             e.maker = r, e.key = Hash(r, out, n), e.value.kind # "unset"
      PROVE  e.value.version >= reloaded[r]
  <2>1. FreshValue(e)
    BY DEF IInv, ValuesFresh
  <2>2. ~IsBlack(r, out, n)
    <3>1. IsBlack(r, out, n) => e.key[2] = <<>>
      BY <1>2 DEF Hash
    <3>2. "refreshCount" \in DOMAIN e.key[2]
      BY <2>1 DEF FreshValue
    <3>3. "refreshCount" \notin DOMAIN <<>>
      OBVIOUS
    <3> QED BY <3>1, <3>2, <3>3
  <2> DEFINE m == ScopeFrame(r, out, n)
  <2>3. e.key = AvHash(r, out, m)
    BY <1>2, <2>2 DEF Hash
  <2>4. AvHash(r, out, m)[2] = [p \in HashedPlugs(out) |-> plugs[r][p]]
    BY DEF AvHash
  <2>5. "refreshCount" \in HashedPlugs(out)
    BY <2>1, <2>3, <2>4 DEF FreshValue
  <2>6. Count(e.key) = plugs[r].refreshCount
    BY <2>3, <2>5, HashHasCount DEF IInv
  <2> QED BY <1>2, <2>1, <2>6 DEF FreshValue
<1> QED BY <1>1, <1>2

(* After its refresh a reader is given nothing older than it that the       *)
(* shared caches hold or it computed itself, for all files and limits.      *)
THEOREM Reloaded == Spec => []ReloadedUnlessShared
BY Freshness, FreshImpliesReloaded, PTL
-----------------------------------------------------------------------------
(* Types: what is not of the freshness is that a cache has one entry for a  *)
(* key and keeps its limit, and that a tile has a frame.                    *)

Unique(cache) == \A e, f \in cache : e.key = f.key => e = f

Cache(cache, limit) == Unique(cache) /\ Cardinality(cache) <= limit

Caches ==
  Cache(decoders, MaxDecoders) /\ Cache(frames, MaxFrames) /\ Cache(values, MaxValues)

TileHasFrame == tile # NoTile => tile.reader \in Readers /\ tile.frame.kind = "value"

LEMMA TypesFollow == IInv /\ Caches /\ TileHasFrame => TypeOK
BY DEF IInv, Plugs, NothingNewer, Caches, Cache, Unique, TileHasFrame, TypeOK

LEMMA InsertKeepsLimit ==
  ASSUME NEW cache, NEW new, NEW limit \in Nat, Unique(cache \cup new),
         NEW s \in Insert(cache, new, limit)
  PROVE  Cache(s, limit)
<1> DEFINE all == cache \cup new
           size == IF Cardinality(all) <= limit THEN Cardinality(all) ELSE limit
<1>1. s \subseteq all /\ Cardinality(s) = size
  BY DEF Insert
<1>2. size <= limit
  OBVIOUS
<1> QED BY <1>1, <1>2 DEF Cache, Unique

(* An entry that is looked up has its key: it is the cached one or new.     *)
LEMMA OneDecoder ==
  ASSUME Unique(decoders), NEW f
  PROVE  Unique(decoders \cup {DecoderEntry(f)})
<1>1. CASE Has(decoders, f)
  BY <1>1, EntryIsThere DEF DecoderEntry, Unique
<1>2. CASE ~Has(decoders, f)
  <2>1. DecoderEntry(f).key = f
    BY <1>2 DEF DecoderEntry
  <2> QED BY <1>2, <2>1 DEF Has, Unique
<1> QED BY <1>1, <1>2

LEMMA FrameOfKey ==
  ASSUME NEW r, NEW n
  PROVE  LET k == <<plugs[r].filterGraph, plugs[r].videoStream, n>>
         IN /\ FrameOf(r, n).key = k
            /\ Has(frames, k) => FrameOf(r, n) \in frames
<1> DEFINE k == <<plugs[r].filterGraph, plugs[r].videoStream, n>>
<1>1. CASE Has(frames, k)
  <2>1. FrameOf(r, n) = Entry(frames, k)
    BY <1>1 DEF FrameOf, FrameEntry
  <2>2. Entry(frames, k) \in frames /\ Entry(frames, k).key = k
    <3> HIDE DEF k
    <3> QED BY <1>1, EntryIsThere
  <2> QED BY <2>1, <2>2
<1>2. CASE ~Has(frames, k)
  BY <1>2 DEF FrameOf, FrameEntry
<1> QED BY <1>1, <1>2

LEMMA OneFrame ==
  ASSUME Unique(frames), NEW r, NEW asked,
         \A e \in asked : \E n : e = FrameOf(r, n)
  PROVE  Unique(frames \cup asked)
<1> SUFFICES ASSUME NEW e \in frames \cup asked, NEW f \in asked, e.key = f.key
             PROVE  e = f
  BY DEF Unique
<1>1. PICK n : f = FrameOf(r, n)
  OBVIOUS
<1> DEFINE k == <<plugs[r].filterGraph, plugs[r].videoStream, n>>
<1>2. f.key = k /\ (Has(frames, k) => f \in frames)
  BY <1>1, FrameOfKey
<1>3. CASE e \in frames
  BY <1>2, <1>3 DEF Has, Unique
<1>4. CASE e \in asked
  <2>1. PICK m : e = FrameOf(r, m)
    BY <1>4
  <2>2. e.key = <<plugs[r].filterGraph, plugs[r].videoStream, m>>
    BY <2>1, FrameOfKey
  <2>3. m = n
    BY <1>2, <2>2
  <2> QED BY <1>1, <2>1, <2>3
<1> QED BY <1>3, <1>4

(* The values that a retrieval keeps have hashes that nothing is kept for.  *)
LEMMA RetrieveKeepsCaches ==
  ASSUME Caches, NEW r, NEW m, NEW b, NEW k, NEW v, NEW new,
         new = {} \/ (new = Kept(r, k, v) /\ ~Has(values, k) /\ k[1] # "availableFrames"),
         Retrieve(r, m, b, new)
  PROVE  Caches'
<1> DEFINE a == AvHash(r, "availableFrames", 0)
           available == AvailableFrames(r)
           holds == Holds(r, m, b)
           held == FrameOf(r, HeldFrame(available.data, m))
           asked == {FrameOf(r, m)} \cup (IF holds /\ available.data > 0 THEN {held} ELSE {})
           pulled == IF holds THEN Kept(r, a, available) ELSE {}
           more == new \cup (IF Has(values, a) THEN {} ELSE pulled)
           opened == IF asked \subseteq frames /\ (~holds \/ Has(values, a))
                     THEN {} ELSE {Decoder(r)}
<1>1. /\ frames' \in Insert(frames, asked, MaxFrames)
      /\ decoders' \in Insert(decoders, opened, MaxDecoders)
      /\ values' \in Insert(values, more, MaxValues)
  BY DEF Retrieve
<1>2. Unique(frames \cup asked)
  BY OneFrame DEF Caches, Cache
<1>3. Unique(decoders \cup opened)
  <2>1. Unique(decoders) /\ Unique(decoders \cup {Decoder(r)})
    BY OneDecoder DEF Caches, Cache, Decoder
  <2> QED BY <2>1 DEF Unique
<1>4. Unique(values \cup more)
  <2>1. a[1] = "availableFrames"
    BY DEF AvHash
  <2> HIDE DEF a
  <2>2. \A e \in Kept(r, k, v) : e = [key |-> k, value |-> v, maker |-> r]
    BY DEF Kept
  <2>3. \A e \in Kept(r, a, available) : e = [key |-> a, value |-> available, maker |-> r]
    BY DEF Kept
  <2>4. \A e \in more : \/ /\ e = [key |-> k, value |-> v, maker |-> r]
                           /\ ~Has(values, k) /\ k[1] # "availableFrames"
                        \/ e = [key |-> a, value |-> available, maker |-> r] /\ ~Has(values, a)
    BY <2>2, <2>3
  <2>5. \A e \in more : \A f \in values : e.key # f.key
    BY <2>4 DEF Has
  <2>6. \A e, f \in more : e.key = f.key => e = f
    BY <2>1, <2>4
  <2> HIDE DEF more
  <2> QED BY <2>5, <2>6 DEF Caches, Cache, Unique
<1>5. MaxFrames \in Nat /\ MaxDecoders \in Nat /\ MaxValues \in Nat
  BY ReaderNodesAssumption
<1> HIDE DEF asked, opened, more
<1>6. Cache(frames', MaxFrames)
  BY <1>1, <1>2, <1>5, InsertKeepsLimit
<1>7. Cache(decoders', MaxDecoders)
  BY <1>1, <1>3, <1>5, InsertKeepsLimit
<1>8. Cache(values', MaxValues)
  BY <1>1, <1>4, <1>5, InsertKeepsLimit
<1> QED BY <1>6, <1>7, <1>8 DEF Caches, Cache, Unique
LEMMA HashHasOutput ==
  ASSUME NEW r, NEW out, NEW n
  PROVE  Hash(r, out, n)[1] = out
BY DEF Hash, AvHash

LEMMA StepKeepsTypes ==
  ASSUME IInv, Caches, TileHasFrame, [Next]_vars
  PROVE  Caches' /\ TileHasFrame'
<1>1. ASSUME NEW r \in Readers, PullImage(r) PROVE Caches' /\ TileHasFrame'
  <2>1. PICK out \in Outputs \cap {"format", "dataWindow", "metadata", "channelNames"},
            n \in Frames :
          /\ ~Has(values, Hash(r, out, n))
          /\ Retrieve(r, ScopeFrame(r, out, n), out = "format",
                      Kept(r, Hash(r, out, n), Compute(r, out, n)))
          /\ UNCHANGED tile
    BY <1>1 DEF PullImage
  <2>2. Hash(r, out, n)[1] # "availableFrames"
    BY HashHasOutput
  <2>3. Caches'
    BY <2>1, <2>2, RetrieveKeepsCaches
  <2> QED BY <2>1, <2>3 DEF TileHasFrame, NoTile, Unset
<1>2. ASSUME NEW r \in Readers, PullFile(r) PROVE Caches' /\ TileHasFrame'
  <2>1. PICK k, v :
          /\ ~Has(values, k)
          /\ decoders' \in Insert(decoders, {Decoder(r)}, MaxDecoders)
          /\ values' \in Insert(values, Kept(r, k, v), MaxValues)
          /\ UNCHANGED <<frames, tile>>
    BY <1>2, Zenon DEF PullFile
  <2>2. Unique(decoders \cup {Decoder(r)})
    BY OneDecoder DEF Caches, Cache, Decoder
  <2>3. Unique(values \cup Kept(r, k, v))
    <3>1. \A e \in Kept(r, k, v) : e = [key |-> k, value |-> v, maker |-> r]
      BY DEF Kept
    <3> QED BY <2>1, <3>1 DEF Caches, Cache, Unique, Has
  <2>4. Cache(decoders', MaxDecoders) /\ Cache(values', MaxValues)
    BY <2>1, <2>2, <2>3, InsertKeepsLimit, ReaderNodesAssumption
  <2>5. Cache(frames', MaxFrames)
    BY <2>1 DEF Caches, Cache, Unique
  <2> QED BY <2>1, <2>4, <2>5 DEF Caches, Cache, Unique, TileHasFrame, NoTile, Unset
<1>3. ASSUME NEW r \in Readers, TakeFrame(r) PROVE Caches' /\ TileHasFrame'
  <2>1. PICK n \in Frames :
          LET m == ScopeFrame(r, "channelData", n)
              f == RetrieveFrame(r, m, FALSE)
          IN /\ Retrieve(r, m, FALSE, {})
             /\ tile' = IF f.kind = "value"
                        THEN [phase |-> "window", reader |-> r, n |-> m, frame |-> f]
                        ELSE NoTile
    BY <1>3 DEF TakeFrame
  <2>2. PICK none : none = {} /\ Retrieve(r, ScopeFrame(r, "channelData", n), FALSE, none)
    BY <2>1
  (* Any key and any value will do: nothing is kept.                        *)
  <2> DEFINE k == Window
             v == Unset
  <2>3. none = {} \/ (none = Kept(r, k, v) /\ ~Has(values, k) /\ k[1] # "availableFrames")
    BY <2>2
  <2> HIDE DEF k, v
  <2>4. Caches'
    BY <2>2, <2>3, RetrieveKeepsCaches
  <2>5. TileHasFrame'
    BY <2>1 DEF TileHasFrame
  <2> QED BY <2>4, <2>5
<1>4. CASE TakeWindow
  <2>1. tile' = NoTile
    BY <1>4 DEF TakeWindow
  <2>2. CASE UNCHANGED <<frames, decoders, values>>
    BY <2>1, <2>2 DEF Caches, Cache, Unique, TileHasFrame, NoTile, Unset
  <2>3. CASE ~Has(values, Window)
    <3>1. Window[1] # "availableFrames"
      BY DEF Window, AvHash
    <3>2. Caches'
      BY <1>4, <2>3, <3>1, RetrieveKeepsCaches DEF TakeWindow
    <3> QED BY <2>1, <3>2 DEF TileHasFrame, NoTile, Unset
  <2> QED BY <1>4, <2>2, <2>3 DEF TakeWindow
<1>5. ASSUME UNCHANGED <<values, tile>>, decoders' = {} \/ UNCHANGED decoders,
             frames' = {} \/ UNCHANGED frames
      PROVE  Caches' /\ TileHasFrame'
  <2>1. Cache({}, MaxDecoders) /\ Cache({}, MaxFrames)
    BY FS_EmptySet, ReaderNodesAssumption DEF Cache, Unique
  <2>2. Caches'
    BY <1>5, <2>1 DEF Caches, Cache, Unique
  <2> QED BY <1>5, <2>2 DEF TileHasFrame, NoTile, Unset
<1>6. ASSUME NEW r \in Readers, Refresh(r) PROVE Caches' /\ TileHasFrame'
  BY <1>5, <1>6 DEF Refresh
<1>7. ASSUME NEW r \in Readers, SetFilterGraph(r) PROVE Caches' /\ TileHasFrame'
  BY <1>5, <1>7 DEF SetFilterGraph
<1>8. ASSUME NEW r \in Readers, SetPlugs(r) PROVE Caches' /\ TileHasFrame'
  BY <1>5, <1>8 DEF SetPlugs
<1>9. CASE Replace
  BY <1>5, <1>9 DEF Replace
<1>10. CASE UNCHANGED vars
  BY <1>5, <1>10 DEF vars
<1> QED BY <1>1, <1>2, <1>3, <1>4, <1>6, <1>7, <1>8, <1>9, <1>10 DEF Next

LEMMA InitialTypes == Init => Caches /\ TileHasFrame
<1> SUFFICES ASSUME Init PROVE Caches /\ TileHasFrame
  OBVIOUS
<1>1. Cache({}, MaxDecoders) /\ Cache({}, MaxFrames) /\ Cache({}, MaxValues)
  BY FS_EmptySet, ReaderNodesAssumption DEF Cache, Unique
<1> QED BY <1>1 DEF Init, Caches, TileHasFrame

(* Every variable keeps its kind, the caches one entry for a key and their  *)
(* limits, whatever is pulled, set and replaced.                            *)
THEOREM TypeCorrect == Spec => []TypeOK
<1>1. Init => IInv /\ Caches /\ TileHasFrame
  BY InitialFresh, InitialTypes
<1>2. (IInv /\ Caches /\ TileHasFrame) /\ [Next]_vars
        => (IInv /\ Caches /\ TileHasFrame)'
  BY StepKeeps, StepKeepsTypes
<1> QED BY <1>1, <1>2, TypesFollow, PTL DEF Spec

=============================================================================
