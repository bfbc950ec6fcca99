------------------------ MODULE ReaderNodesValueProofs ------------------------
(***************************************************************************)
(* Theorems about what the readers show.  Everything a cache holds is a    *)
(* function of its key and of the versions of the file it was made from:   *)
(* that is the invariant, from which follow that a hash says all a value   *)
(* depends on, that held frames play forward, that masked frames are those *)
(* of the boundary, and that a tile fits the data window it is cut with.   *)
(***************************************************************************)
EXTENDS ReaderNodesProofs

(* The versions the file has had so far.                                    *)
Past == {v \in Versions : 1 <= v /\ v <= disk}

-----------------------------------------------------------------------------
(* What an AvReader with plugs p would compute from given versions of the   *)
(* file: v that of the frame asked for, h that of the frame held instead,   *)
(* u that of the decoder which told the number of frames.                   *)

OpenAt(v, f) == Movies[v].width[f] > 0

WidthAt(v, f, s, n) ==
  IF OpenAt(v, f) /\ s = "best" /\ n \in (1 .. Movies[v].count) \ Movies[v].broken
  THEN Movies[v].width[f] ELSE 0

HeldAt(h, u, p, n) ==
  LET m == HeldFrame(Movies[u].count, n)
      w == WidthAt(h, p.filterGraph, p.videoStream, m)
  IN IF Movies[u].count = 0 \/ w = 0 THEN Raised(h) ELSE Value(h, m, w)

ModeAt(p, b) ==
  IF b /\ p.missingFrameMode = "Black" THEN "Hold" ELSE p.missingFrameMode

RetrieveAt(v, h, u, p, n, b) ==
  LET w == WidthAt(v, p.filterGraph, p.videoStream, n)
  IN IF p.fileName = "" \/ p.videoStream = "unparsable" THEN Unset
     ELSE IF w > 0 THEN Value(v, n, w)
     ELSE CASE ModeAt(p, b) = "Black" -> Default(v)
            [] ModeAt(p, b) = "Hold"  -> HeldAt(h, u, p, n)
            [] ModeAt(p, b) = "Error" -> Raised(v)

FileValidAt(v, p) ==
  IF p.fileName = "" THEN Unset
  ELSE IF OpenAt(v, p.filterGraph) THEN Value(v, 0, 0) ELSE Raised(v)

AvailableAt(v, p) ==
  IF p.fileName = "" \/ p.videoStream = "unparsable" THEN Unset
  ELSE IF ~ OpenAt(v, p.filterGraph) THEN Raised(v)
  ELSE IF p.videoStream # "best" THEN Default(v)
  ELSE Value(v, 0, Movies[v].count)

ComputeAt(v, h, u, p, out, n) ==
  CASE out \in {"fileValid", "probe"} -> FileValidAt(v, p)
    [] out = "availableFrames" -> AvailableAt(v, p)
    [] out = "format" -> RetrieveAt(v, h, u, p, n, TRUE)
    [] out = "dataWindow" -> RetrieveAt(v, h, u, p, n, FALSE)
    [] out \in {"metadata", "channelNames"} ->
         [RetrieveAt(v, h, u, p, n, FALSE) EXCEPT !.data = 0]
    [] OTHER -> Unset

(* AvReader::hash() of a reader with plugs p.                               *)
KeyOf(p, out, n) ==
  <<out, [x \in HashedPlugs(out) |-> p[x]], IF HashesFrame(out) THEN n ELSE 0>>

(* The outputs values are kept of.                                          *)
KeptOutputs == {"format", "dataWindow", "metadata", "channelNames",
                "availableFrames", "fileValid", "probe"}

-----------------------------------------------------------------------------
(* The inductive invariant.                                                 *)

DecodersAt == \A e \in decoders :
  e.version \in Past /\ e.open = OpenAt(e.version, e.key)

FramesAt == \A e \in frames :
  /\ e.version \in Past
  /\ \E f, s, n : e.key = <<f, s, n>> /\ e.width = WidthAt(e.version, f, s, n)

ValueAt(e) == \E p \in PlugValues, out \in KeptOutputs, v, h, u \in Past : \E n :
  e.key = KeyOf(p, out, n) /\ e.value = ComputeAt(v, h, u, p, out, n)

ValuesAt == \A e \in values : ValueAt(e)

(* The tile in progress is of a frame its reader took with the plugs and    *)
(* since the refresh it still has.                                          *)
TileAt == tile # NoTile =>
  /\ tile.phase = "window" /\ tile.reader \in Readers
  /\ tile.frame.kind = "value" /\ tile.frame.version >= reloaded[tile.reader]
  /\ \E v, h, u \in Past :
       tile.frame = RetrieveAt(v, h, u, plugs[tile.reader], tile.n, FALSE)

Began == disk \in Nat /\ disk >= 1

VInv == IInv /\ Began /\ DecodersAt /\ FramesAt /\ ValuesAt /\ TileAt

-----------------------------------------------------------------------------
(* What the shared caches give out.                                         *)

(* A version the file has had, as new as every refresh, and the one on disk *)
(* if the shared caches have none but that.                                 *)
Source(v) ==
  /\ v \in Past
  /\ \A q \in Readers : v >= reloaded[q]
  /\ (\A e \in decoders \cup frames : e.version = disk) => v = disk

LEMMA DiskIsPast ==
  ASSUME NothingNewer, Began
  PROVE  disk \in Past /\ Source(disk)
<1>1. disk \in Past
  BY DEF NothingNewer, Began, Past
<1>2. \A q \in Readers : disk >= reloaded[q]
  BY VersionsAreNumbers DEF NothingNewer, Versions
<1> QED BY <1>1, <1>2 DEF Source

LEMMA DecoderAt ==
  ASSUME NothingNewer, Began, SharedFresh, DecodersAt, NEW f
  PROVE  LET d == DecoderEntry(f)
         IN /\ d.key = f /\ Source(d.version)
            /\ d.open = OpenAt(d.version, f)
<1>1. CASE Has(decoders, f)
  <2>1. DecoderEntry(f) \in decoders /\ DecoderEntry(f).key = f
    BY <1>1, EntryIsThere DEF DecoderEntry
  <2>2. Source(DecoderEntry(f).version)
    BY <2>1 DEF Source, DecodersAt, SharedFresh
  <2> QED BY <2>1, <2>2 DEF DecodersAt
<1>2. CASE ~ Has(decoders, f)
  <2>1. DecoderEntry(f) = [key |-> f, version |-> disk, open |-> OpenAt(disk, f)]
    BY <1>2 DEF DecoderEntry, OpenAt
  <2> QED BY <2>1, DiskIsPast
<1> QED BY <1>1, <1>2

LEMMA FrameAt ==
  ASSUME NothingNewer, Began, SharedFresh, DecodersAt, FramesAt, NEW r, NEW n
  PROVE  LET e == FrameOf(r, n)
             f == plugs[r].filterGraph
             s == plugs[r].videoStream
         IN /\ e.key = <<f, s, n>> /\ e.key[3] = n /\ Source(e.version)
            /\ e.width = WidthAt(e.version, f, s, n)
<1> DEFINE f == plugs[r].filterGraph
           s == plugs[r].videoStream
           e == FrameEntry(f, s, n)
           k == <<f, s, n>>
<1>1. e.key = k /\ Source(e.version) /\ e.width = WidthAt(e.version, f, s, n)
  <2>1. CASE Has(frames, k)
    <3>1. e \in frames /\ e.key = k
      <4>1. e = Entry(frames, k)
        BY <2>1 DEF FrameEntry
      <4> HIDE DEF e, k
      <4> QED BY <2>1, <4>1, EntryIsThere
    <3> HIDE DEF e
    <3>2. PICK f1, s1, n1 : e.key = <<f1, s1, n1>> /\ e.width = WidthAt(e.version, f1, s1, n1)
      BY <3>1 DEF FramesAt
    <3>3. f1 = f /\ s1 = s /\ n1 = n
      BY <3>1, <3>2
    <3>4. Source(e.version)
      BY <3>1 DEF Source, FramesAt, SharedFresh
    <3> QED BY <3>1, <3>2, <3>3, <3>4
  <2>2. CASE ~ Has(frames, k)
    <3> DEFINE d == DecoderEntry(f)
               v == d.version
    <3>1. Source(v) /\ d.open = OpenAt(v, f)
      BY DecoderAt
    <3>2. e = [key |-> k, version |-> v,
               width |-> IF d.open /\ s = "best" /\ n \in (1 .. Movies[v].count) \ Movies[v].broken
                         THEN Movies[v].width[f] ELSE 0]
      BY <2>2 DEF FrameEntry
    <3>3. e = [key |-> k, version |-> v, width |-> WidthAt(v, f, s, n)]
      BY <3>1, <3>2, Zenon DEF WidthAt
    <3> HIDE DEF e, v
    <3> QED BY <3>1, <3>3
  <2> QED BY <2>1, <2>2
<1> HIDE DEF e
<1>2. FrameOf(r, n) = e
  BY DEF FrameOf, e
<1>3. k[3] = n
  OBVIOUS
<1> QED BY <1>1, <1>2, <1>3

-----------------------------------------------------------------------------
(* Keys.                                                                    *)

LEMMA KeyOfReader ==
  ASSUME NEW r, NEW out, NEW n
  PROVE  AvHash(r, out, n) = KeyOf(plugs[r], out, n)
BY Zenon DEF AvHash, KeyOf

LEMMA KeysAgree ==
  ASSUME NEW p, NEW q, NEW out, NEW out1, NEW n, NEW m,
         KeyOf(p, out, n) = KeyOf(q, out1, m)
  PROVE  /\ out1 = out
         /\ \A x \in HashedPlugs(out) : p[x] = q[x]
         /\ HashesFrame(out) => m = n
<1> DEFINE a == [x \in HashedPlugs(out) |-> p[x]]
           b == [x \in HashedPlugs(out1) |-> q[x]]
           i == IF HashesFrame(out) THEN n ELSE 0
           j == IF HashesFrame(out1) THEN m ELSE 0
<1>1. <<out, a, i>> = <<out1, b, j>>
  BY Zenon DEF KeyOf
<1>2. out = out1 /\ a = b /\ i = j
  <2> HIDE DEF a, b, i, j
  <2> QED BY <1>1
<1>3. \A x \in HashedPlugs(out) : a[x] = p[x] /\ b[x] = q[x]
  BY <1>2
<1> QED BY <1>2, <1>3

(* The plugs a value depends on, all but the filter graph of some, are      *)
(* hashed.                                                                  *)
LEMMA SamePlugsSameKey ==
  ASSUME NEW p, NEW q, NEW out \in KeptOutputs, NEW n, NEW m,
         KeyOf(p, out, n) = KeyOf(q, out, m)
  PROVE  /\ p.fileName = q.fileName
         /\ out \notin {"fileValid", "probe"} => p.videoStream = q.videoStream
         /\ out \notin {"fileValid", "probe", "availableFrames"} =>
              p.missingFrameMode = q.missingFrameMode /\ n = m
         /\ out \notin FilterBlind => p.filterGraph = q.filterGraph
<1>1. /\ \A x \in HashedPlugs(out) : p[x] = q[x]
      /\ HashesFrame(out) => m = n
  BY KeysAgree
<1>2. "fileName" \in HashedPlugs(out)
  BY DEF KeptOutputs, HashedPlugs
<1>3. out \notin {"fileValid", "probe"} => "videoStream" \in HashedPlugs(out)
  BY DEF KeptOutputs, HashedPlugs
<1>4. out \notin {"fileValid", "probe", "availableFrames"} =>
        "missingFrameMode" \in HashedPlugs(out) /\ HashesFrame(out)
  BY DEF KeptOutputs, HashedPlugs, HashesFrame, ImageOutputs
<1>5. out \notin FilterBlind => "filterGraph" \in HashedPlugs(out)
  BY DEF KeptOutputs, HashedPlugs, FilterBlind
<1> QED BY <1>1, <1>2, <1>3, <1>4, <1>5

-----------------------------------------------------------------------------
(* What an AvReader computes is ComputeAt of its plugs.                     *)

LEMMA KindsDiffer ==
  /\ \A v : Raised(v).kind = "error" /\ Raised(v).version = v
  /\ \A v : Default(v).kind = "default" /\ Default(v).version = v /\ Default(v).data = 0
  /\ \A v, n, d : /\ Value(v, n, d).kind = "value" /\ Value(v, n, d).version = v
                  /\ Value(v, n, d).nb = n /\ Value(v, n, d).data = d
  /\ Unset.kind = "unset"
BY DEF Raised, Default, Value, Unset

LEMMA FileValidIsAt ==
  ASSUME NothingNewer, Began, SharedFresh, DecodersAt, NEW r
  PROVE  ComputeFileValid(r) = FileValidAt(Decoder(r).version, plugs[r])
         /\ Source(Decoder(r).version)
<1>1. /\ Source(Decoder(r).version)
      /\ Decoder(r).open = OpenAt(Decoder(r).version, plugs[r].filterGraph)
  BY DecoderAt DEF Decoder
<1> QED BY <1>1, Zenon DEF ComputeFileValid, FileValidAt, NoFile

LEMMA AvailableIsAt ==
  ASSUME NothingNewer, Began, SharedFresh, DecodersAt, NEW r
  PROVE  ComputeAvailableFrames(r) = AvailableAt(Decoder(r).version, plugs[r])
<1>1. Decoder(r).open = OpenAt(Decoder(r).version, plugs[r].filterGraph)
  BY DecoderAt DEF Decoder
<1> QED BY <1>1, Zenon DEF ComputeAvailableFrames, AvailableAt, NoFile, NoStream

(* availableFrames may come from Gaffer's cache, made with another filter   *)
(* graph, which its hash leaves out.                                        *)
LEMMA AvailableNow ==
  ASSUME NothingNewer, Began, SharedFresh, ValuesFresh, DecodersAt, ValuesAt,
         NEW r, ~ NoFile(r), ~ NoStream(r)
  PROVE  \E u \in Past :
           \/ AvailableFrames(r) = Raised(u) /\ u = Decoder(r).version
                /\ ~ OpenAt(u, plugs[r].filterGraph)
           \/ AvailableFrames(r) = Default(u) /\ plugs[r].videoStream # "best"
           \/ AvailableFrames(r) = Value(u, 0, Movies[u].count)
                /\ plugs[r].videoStream = "best"
<1> DEFINE k == AvHash(r, "availableFrames", 0)
<1>1. CASE ~ Has(values, k)
  <2> DEFINE u == Decoder(r).version
  <2>1. AvailableFrames(r) = AvailableAt(u, plugs[r])
    BY <1>1, AvailableIsAt DEF AvailableFrames
  <2>2. u \in Past
    BY FileValidIsAt DEF Source
  <2> HIDE DEF u
  <2>3. \/ AvailableFrames(r) = Raised(u) /\ ~ OpenAt(u, plugs[r].filterGraph)
        \/ AvailableFrames(r) = Default(u) /\ plugs[r].videoStream # "best"
        \/ AvailableFrames(r) = Value(u, 0, Movies[u].count) /\ plugs[r].videoStream = "best"
    BY <2>1, Zenon DEF AvailableAt, NoFile, NoStream
  <2> QED BY <2>2, <2>3 DEF u
<1>2. CASE Has(values, k)
  <2>1. PICK e \in values : e.key = k /\ e = Entry(values, k)
    BY <1>2, EntryIsThere
  <2>2. AvailableFrames(r) = e.value
    BY <1>2, <2>1, Zenon DEF AvailableFrames
  <2>0. PICK p \in PlugValues, out \in KeptOutputs, v, h, u \in Past : \E n :
          e.key = KeyOf(p, out, n) /\ e.value = ComputeAt(v, h, u, p, out, n)
    BY <2>1 DEF ValuesAt, ValueAt
  <2>3. PICK n : e.key = KeyOf(p, out, n) /\ e.value = ComputeAt(v, h, u, p, out, n)
    BY <2>0
  <2>4. KeyOf(p, out, n) = KeyOf(plugs[r], "availableFrames", 0)
    BY <2>1, <2>3, KeyOfReader
  <2>5. out = "availableFrames"
    BY <2>4, KeysAgree
  <2>6. p.fileName = plugs[r].fileName /\ p.videoStream = plugs[r].videoStream
    BY <2>4, <2>5, SamePlugsSameKey
  <2>7. e.value = AvailableAt(v, p)
    BY <2>3, <2>5 DEF ComputeAt
  <2>8. e.value.kind # "error"
    BY <2>1 DEF ValuesFresh, FreshValue
  <2>9. OpenAt(v, p.filterGraph)
    <3>1. ~ OpenAt(v, p.filterGraph) => e.value = Raised(v)
      BY <2>6, <2>7, Zenon DEF AvailableAt, NoFile, NoStream
    <3> QED BY <2>8, <3>1, KindsDiffer
  <2>10. \/ e.value = Default(v) /\ plugs[r].videoStream # "best"
         \/ e.value = Value(v, 0, Movies[v].count) /\ plugs[r].videoStream = "best"
    BY <2>6, <2>7, <2>9, Zenon DEF AvailableAt, NoFile, NoStream
  <2> QED BY <2>2, <2>10
<1> QED BY <1>1, <1>2

LEMMA HeldIsAt ==
  ASSUME NothingNewer, Began, SharedFresh, ValuesFresh, DecodersAt, FramesAt, ValuesAt,
         NEW r, ~ NoFile(r), ~ NoStream(r), NEW n
  PROVE  \E h, u \in Past :
           /\ Source(h) /\ (AvailableFrames(r).version = disk => u = disk)
           /\ Held(r, n) = HeldAt(h, u, plugs[r], n)
<1> DEFINE a == AvailableFrames(r)
           f == plugs[r].filterGraph
           s == plugs[r].videoStream
<1>1. PICK u \in Past :
        \/ a = Raised(u) /\ u = Decoder(r).version /\ ~ OpenAt(u, f)
        \/ a = Default(u) /\ s # "best"
        \/ a = Value(u, 0, Movies[u].count) /\ s = "best"
  BY AvailableNow
<1>2. a.version = u
  BY <1>1, KindsDiffer
<1>3. CASE a = Raised(u) /\ u = Decoder(r).version /\ ~ OpenAt(u, f)
  <2>1. Held(r, n) = Raised(u)
    BY <1>3, KindsDiffer DEF Held
  <2>2. HeldAt(u, u, plugs[r], n) = Raised(u)
    BY <1>3 DEF HeldAt, WidthAt
  <2>3. Source(u)
    BY <1>3, FileValidIsAt
  <2> QED BY <1>2, <2>1, <2>2, <2>3
<1>4. CASE a = Default(u) /\ s # "best"
  <2> DEFINE e == FrameOf(r, HeldFrame(0, n))
  <2>1. Held(r, n) = Raised(e.version)
    BY <1>4, KindsDiffer DEF Held
  <2>2. Source(e.version)
    BY FrameAt
  <2>3. HeldAt(e.version, u, plugs[r], n) = Raised(e.version)
    <3> HIDE DEF e
    <3> QED BY <1>4 DEF HeldAt, WidthAt
  <2> HIDE DEF e
  <2>4. e.version \in Past
    BY <2>2 DEF Source
  <2> QED BY <1>2, <2>1, <2>2, <2>3, <2>4
<1>5. CASE a = Value(u, 0, Movies[u].count) /\ s = "best"
  <2> DEFINE m == HeldFrame(Movies[u].count, n)
             e == FrameOf(r, m)
             h == e.version
  <2>1. a.kind = "value" /\ a.data = Movies[u].count
    BY <1>5, KindsDiffer
  <2>2. Held(r, n) = IF Movies[u].count = 0 \/ e.width = 0 THEN Raised(h) ELSE Shown(e)
    BY <2>1 DEF Held
  <2>3. e.key[3] = m /\ Source(h) /\ e.width = WidthAt(h, f, s, m)
    BY FrameAt
  <2>4. Shown(e) = Value(h, m, WidthAt(h, f, s, m))
    BY <2>3, Zenon DEF Shown
  <2>5. Held(r, n) = HeldAt(h, u, plugs[r], n)
    BY <2>2, <2>3, <2>4, Zenon DEF HeldAt
  <2> HIDE DEF h
  <2>6. h \in Past
    BY <2>3 DEF Source
  <2> QED BY <1>2, <2>3, <2>5, <2>6
<1> QED BY <1>1, <1>3, <1>4, <1>5

LEMMA RetrievedIsAt ==
  ASSUME Plugs, NothingNewer, Began, SharedFresh, ValuesFresh, DecodersAt, FramesAt, ValuesAt,
         NEW r \in Readers, NEW n, NEW b
  PROVE  \E v, h, u \in Past :
           /\ Source(v) /\ Source(h) /\ (AvailableFrames(r).version = disk => u = disk)
           /\ RetrieveFrame(r, n, b) = RetrieveAt(v, h, u, plugs[r], n, b)
<1> DEFINE e == FrameOf(r, n)
           v == e.version
           f == plugs[r].filterGraph
           s == plugs[r].videoStream
<1>1. e.key[3] = n /\ Source(v) /\ e.width = WidthAt(v, f, s, n)
  BY FrameAt
<1>2. Shown(e) = Value(v, n, WidthAt(v, f, s, n))
  BY <1>1, Zenon DEF Shown
<1>3. v \in Past
  BY <1>1 DEF Source
<1>4. CASE NoFile(r) \/ NoStream(r)
  <2>1. RetrieveFrame(r, n, b) = Unset
    BY <1>4 DEF RetrieveFrame
  <2>2. RetrieveAt(v, v, disk, plugs[r], n, b) = Unset
    BY <1>4 DEF RetrieveAt, NoFile, NoStream
  <2> HIDE DEF v
  <2> QED BY <1>1, <1>3, <2>1, <2>2, DiskIsPast
<1>5. CASE ~ NoFile(r) /\ ~ NoStream(r)
  <2>1. PICK h, u \in Past :
          /\ Source(h) /\ (AvailableFrames(r).version = disk => u = disk)
          /\ Held(r, n) = HeldAt(h, u, plugs[r], n)
    BY <1>5, HeldIsAt
  <2>2. Mode(r, b) = ModeAt(plugs[r], b)
    BY DEF Mode, ModeAt
  <2>3. ~ (plugs[r].fileName = "" \/ plugs[r].videoStream = "unparsable")
    BY <1>5 DEF NoFile, NoStream
  <2> DEFINE w == WidthAt(v, f, s, n)
             mode == ModeAt(plugs[r], b)
  <2>4. ASSUME w > 0
        PROVE  RetrieveFrame(r, n, b) = RetrieveAt(v, h, u, plugs[r], n, b)
    <3>1. RetrieveFrame(r, n, b) = Shown(e)
      BY <1>1, <1>5, <2>4 DEF RetrieveFrame
    <3>2. RetrieveAt(v, h, u, plugs[r], n, b) = Value(v, n, w)
      BY <2>3, <2>4, Zenon DEF RetrieveAt
    <3> QED BY <1>2, <3>1, <3>2
  <2>5. ASSUME ~ (w > 0)
        PROVE  RetrieveFrame(r, n, b) = RetrieveAt(v, h, u, plugs[r], n, b)
    <3>1. mode \in {"Error", "Black", "Hold"}
      BY DEF ModeAt, Plugs, PlugValues
    <3>2. RetrieveFrame(r, n, b) =
            CASE mode = "Black" -> Default(v)
              [] mode = "Hold"  -> HeldAt(h, u, plugs[r], n)
              [] mode = "Error" -> Raised(v)
      BY <1>1, <1>5, <2>1, <2>2, <2>5 DEF RetrieveFrame
    <3>3. RetrieveAt(v, h, u, plugs[r], n, b) =
            CASE mode = "Black" -> Default(v)
              [] mode = "Hold"  -> HeldAt(h, u, plugs[r], n)
              [] mode = "Error" -> Raised(v)
      BY <2>3, <2>5 DEF RetrieveAt
    <3> HIDE DEF v, mode
    <3> QED BY <3>1, <3>2, <3>3
  <2> HIDE DEF v, w, mode
  <2>6. RetrieveFrame(r, n, b) = RetrieveAt(v, h, u, plugs[r], n, b)
    BY <2>4, <2>5
  <2> QED BY <1>1, <1>3, <2>1, <2>6
<1> QED BY <1>4, <1>5

LEMMA ComputedIsAt ==
  ASSUME Plugs, NothingNewer, Began, SharedFresh, ValuesFresh, DecodersAt, FramesAt, ValuesAt,
         NEW r \in Readers, NEW out, NEW n
  PROVE  \E v, h, u \in Past : AvCompute(r, out, n) = ComputeAt(v, h, u, plugs[r], out, n)
<1>1. PICK v, h, u \in Past :
        RetrieveFrame(r, n, FALSE) = RetrieveAt(v, h, u, plugs[r], n, FALSE)
  BY RetrievedIsAt
<1>2. PICK v1, h1, u1 \in Past :
        RetrieveFrame(r, n, TRUE) = RetrieveAt(v1, h1, u1, plugs[r], n, TRUE)
  BY RetrievedIsAt
<1> DEFINE d == Decoder(r).version
<1>3. d \in Past /\ ComputeFileValid(r) = FileValidAt(d, plugs[r])
      /\ ComputeAvailableFrames(r) = AvailableAt(d, plugs[r])
  BY FileValidIsAt, AvailableIsAt DEF Source
<1> HIDE DEF d
<1>4. CASE out \in {"fileValid", "probe"}
  <2>1. AvCompute(r, out, n) = ComputeAt(d, d, d, plugs[r], out, n)
    BY <1>3, <1>4 DEF AvCompute, ComputeAt
  <2> QED BY <1>3, <2>1
<1>5. CASE out = "availableFrames"
  <2>1. AvCompute(r, out, n) = ComputeAt(d, d, d, plugs[r], out, n)
    BY <1>3, <1>5 DEF AvCompute, ComputeAt
  <2> QED BY <1>3, <2>1
<1>6. CASE out = "format"
  <2>1. AvCompute(r, out, n) = ComputeAt(v1, h1, u1, plugs[r], out, n)
    BY <1>2, <1>6 DEF AvCompute, ComputeAt
  <2> QED BY <2>1
<1>7. CASE out \in {"dataWindow", "metadata", "channelNames"}
  <2>1. AvCompute(r, out, n) = ComputeAt(v, h, u, plugs[r], out, n)
    BY <1>1, <1>7 DEF AvCompute, ComputeAt
  <2> QED BY <2>1
<1>8. CASE out \notin KeptOutputs
  <2>1. AvCompute(r, out, n) = Unset /\ ComputeAt(d, d, d, plugs[r], out, n) = Unset
    BY <1>8 DEF AvCompute, ComputeAt, KeptOutputs
  <2> QED BY <1>3, <2>1
<1> QED BY <1>4, <1>5, <1>6, <1>7, <1>8 DEF KeptOutputs

-----------------------------------------------------------------------------
(* Steps.                                                                   *)

VPart == DecodersAt /\ FramesAt /\ ValuesAt

LEMMA KeptIsAt ==
  ASSUME IInv, Began, VPart, NEW r \in Readers, NEW out \in KeptOutputs, NEW n
  PROVE  \A e \in Kept(r, AvHash(r, out, n), AvCompute(r, out, n)) : ValueAt(e)
<1>1. PICK v, h, u \in Past : AvCompute(r, out, n) = ComputeAt(v, h, u, plugs[r], out, n)
  BY ComputedIsAt DEF IInv, VPart
<1>2. AvHash(r, out, n) = KeyOf(plugs[r], out, n) /\ plugs[r] \in PlugValues
  BY KeyOfReader DEF IInv, Plugs
<1> DEFINE k == AvHash(r, out, n)
           c == AvCompute(r, out, n)
<1> SUFFICES ASSUME NEW e \in Kept(r, k, c) PROVE ValueAt(e)
  OBVIOUS
<1> HIDE DEF k, c
<1>3. e.key = k /\ e.value = c
  BY DEF Kept
<1>4. e.key = KeyOf(plugs[r], out, n)
  BY <1>2, <1>3 DEF k
<1>5. e.value = ComputeAt(v, h, u, plugs[r], out, n)
  BY <1>1, <1>3 DEF c
<1> QED BY <1>2, <1>4, <1>5 DEF ValueAt

LEMMA PulledIsAt ==
  ASSUME IInv, Began, VPart, NEW r \in Readers, NEW out \in KeptOutputs, NEW n,
         Compute(r, out, n).kind # "unset"
  PROVE  \A e \in Kept(r, Hash(r, out, n), Compute(r, out, n)) : ValueAt(e)
<1>1. ~ IsBlack(r, out, n)
  BY DEF Compute, Unset
<1>2. /\ Hash(r, out, n) = AvHash(r, out, ScopeFrame(r, out, n))
      /\ Compute(r, out, n) = AvCompute(r, out, ScopeFrame(r, out, n))
  BY <1>1 DEF Hash, Compute
<1> QED BY <1>2, KeptIsAt

(* New entries of the shared caches are as the old ones.                    *)
LEMMA NewShared ==
  ASSUME IInv, Began, VPart, NEW r, UNCHANGED disk,
         NEW opened, \A e \in opened : e = Decoder(r),
         NEW asked, \A e \in asked : \E n : e = FrameOf(r, n),
         decoders' \subseteq decoders \cup opened, frames' \subseteq frames \cup asked
  PROVE  DecodersAt' /\ FramesAt'
<1>1. Past' = Past
  BY DEF Past, Versions
<1>2. ASSUME NEW e \in decoders'
      PROVE  e.version \in Past /\ e.open = OpenAt(e.version, e.key)
  <2>1. CASE e \in decoders
    BY <2>1 DEF VPart, DecodersAt
  <2>2. CASE e \in opened
    BY <2>2, DecoderAt DEF Decoder, IInv, VPart, Source
  <2> QED BY <1>2, <2>1, <2>2
<1>3. ASSUME NEW e \in frames'
      PROVE  e.version \in Past
             /\ \E f, s, n : e.key = <<f, s, n>> /\ e.width = WidthAt(e.version, f, s, n)
  <2>1. CASE e \in frames
    BY <2>1 DEF VPart, FramesAt
  <2>2. CASE e \in asked
    <3>1. PICK n : e = FrameOf(r, n)
      BY <2>2
    <3>2. /\ e.key = <<plugs[r].filterGraph, plugs[r].videoStream, n>> /\ Source(e.version)
          /\ e.width = WidthAt(e.version, plugs[r].filterGraph, plugs[r].videoStream, n)
      BY <3>1, FrameAt DEF IInv, VPart
    <3> QED BY <3>2 DEF Source
  <2> QED BY <1>3, <2>1, <2>2
<1>4. DecodersAt'
  BY <1>1, <1>2 DEF DecodersAt
<1>5. FramesAt'
  BY <1>1, <1>3 DEF FramesAt
<1> QED BY <1>4, <1>5

LEMMA ValuesStay ==
  ASSUME IInv, Began, UNCHANGED disk, \A e \in values' : ValueAt(e)
  PROVE  ValuesAt'
<1>1. Past' = Past
  BY DEF Past, Versions
<1> QED BY <1>1 DEF ValuesAt, ValueAt

LEMMA RetrieveAtKeeps ==
  ASSUME IInv, Began, VPart, NEW r \in Readers, NEW m, NEW b,
         NEW new, \A e \in new : ValueAt(e), Retrieve(r, m, b, new), UNCHANGED disk
  PROVE  VPart'
<1> DEFINE k == AvHash(r, "availableFrames", 0)
           available == AvailableFrames(r)
           holds == Holds(r, m, b)
           held == FrameOf(r, HeldFrame(available.data, m))
           asked == {FrameOf(r, m)} \cup (IF holds /\ available.data > 0 THEN {held} ELSE {})
           pulled == IF holds THEN Kept(r, k, available) ELSE {}
           more == new \cup (IF Has(values, k) THEN {} ELSE pulled)
           opened == IF asked \subseteq frames /\ (~holds \/ Has(values, k))
                     THEN {} ELSE {Decoder(r)}
<1>1. /\ frames' \in Insert(frames, asked, MaxFrames)
      /\ decoders' \in Insert(decoders, opened, MaxDecoders)
      /\ values' \in Insert(values, more, MaxValues)
  BY DEF Retrieve
<1>2. \A e \in more : ValueAt(e)
  <2>1. \A e \in Kept(r, k, AvCompute(r, "availableFrames", 0)) : ValueAt(e)
    BY KeptIsAt DEF KeptOutputs
  <2>2. ~ Has(values, k) => available = AvCompute(r, "availableFrames", 0)
    BY DEF AvailableFrames, AvCompute
  <2> HIDE DEF k, available
  <2> QED BY <2>1, <2>2
<1>3. \A e \in asked : \E n : e = FrameOf(r, n)
  OBVIOUS
<1>4. \A e \in opened : e = Decoder(r)
  OBVIOUS
<1> HIDE DEF asked, opened, more
<1>5. /\ frames' \subseteq frames \cup asked /\ decoders' \subseteq decoders \cup opened
      /\ values' \subseteq values \cup more
  BY <1>1, InsertAddsOnlyNew
<1>6. DecodersAt' /\ FramesAt'
  BY <1>3, <1>4, <1>5, NewShared
<1>7. \A e \in values' : ValueAt(e)
  BY <1>2, <1>5 DEF VPart, ValuesAt
<1>8. ValuesAt'
  BY <1>7, ValuesStay
<1> QED BY <1>6, <1>8 DEF VPart

(* A step that changes neither the file, nor the tile, nor what its reader  *)
(* has set, keeps what is known of the tile.                                *)
LEMMA TileStays ==
  ASSUME Began, TileAt, UNCHANGED tile, disk' \in Nat, disk' >= disk,
         tile # NoTile => plugs'[tile.reader] = plugs[tile.reader]
                          /\ reloaded'[tile.reader] = reloaded[tile.reader]
  PROVE  TileAt'
<1> SUFFICES ASSUME tile # NoTile
             PROVE  /\ tile.phase = "window" /\ tile.reader \in Readers
                    /\ tile.frame.kind = "value"
                    /\ tile.frame.version >= reloaded'[tile.reader]
                    /\ \E v, h, u \in Past' :
                         tile.frame = RetrieveAt(v, h, u, plugs'[tile.reader], tile.n, FALSE)
  BY DEF TileAt, NoTile, Unset
<1>1. PICK v, h, u \in Past :
        tile.frame = RetrieveAt(v, h, u, plugs[tile.reader], tile.n, FALSE)
  BY DEF TileAt
<1>2. Past \subseteq Past'
  BY VersionsAreNumbers DEF Past, Began, Versions
<1> QED BY <1>1, <1>2 DEF TileAt

LEMMA NoTileAt == ASSUME tile' = NoTile PROVE TileAt'
BY DEF TileAt, NoTile, Unset

LEMMA PullImageKeepsAt == ASSUME VInv, NEW r \in Readers, PullImage(r) PROVE VPart' /\ TileAt'
<1>1. PICK out \in Outputs \cap {"format", "dataWindow", "metadata", "channelNames"},
          n \in Frames :
        /\ Compute(r, out, n).kind # "unset"
        /\ Retrieve(r, ScopeFrame(r, out, n), out = "format",
                    Kept(r, Hash(r, out, n), Compute(r, out, n)))
        /\ UNCHANGED <<plugs, disk, tile, reloaded, changes>>
  BY DEF PullImage
<1>2. \A e \in Kept(r, Hash(r, out, n), Compute(r, out, n)) : ValueAt(e)
  BY <1>1, PulledIsAt DEF VInv, VPart, KeptOutputs
<1>3. VPart'
  BY <1>1, <1>2, RetrieveAtKeeps DEF VInv, VPart
<1>4. disk' \in Nat /\ disk' >= disk
  BY <1>1 DEF VInv, Began
<1> QED BY <1>1, <1>3, <1>4, TileStays DEF VInv

LEMMA PullFileKeepsAt == ASSUME VInv, NEW r \in Readers, PullFile(r) PROVE VPart' /\ TileAt'
<1>1. PICK out \in Outputs \cap {"availableFrames", "fileValid", "probe"}, n \in Frames :
        /\ Compute(r, out, n).kind # "unset"
        /\ decoders' \in Insert(decoders, {Decoder(r)}, MaxDecoders)
        /\ values' \in Insert(values, Kept(r, Hash(r, out, n), Compute(r, out, n)), MaxValues)
        /\ UNCHANGED <<plugs, disk, frames, tile, reloaded, changes>>
  BY DEF PullFile
<1> DEFINE kept == Kept(r, Hash(r, out, n), Compute(r, out, n))
           opened == {Decoder(r)}
           asked == {FrameOf(r, 0)}
<1>2. \A e \in kept : ValueAt(e)
  BY <1>1, PulledIsAt DEF VInv, VPart, KeptOutputs
<1> HIDE DEF kept
<1>3. decoders' \subseteq decoders \cup opened /\ values' \subseteq values \cup kept
  BY <1>1, InsertAddsOnlyNew DEF kept
<1>4. DecodersAt' /\ FramesAt'
  <2>1. \A e \in opened : e = Decoder(r)
    OBVIOUS
  <2>2. \A e \in asked : \E i : e = FrameOf(r, i)
    OBVIOUS
  <2>3. frames' \subseteq frames \cup asked
    BY <1>1
  <2> HIDE DEF opened, asked
  <2> QED BY <1>1, <1>3, <2>1, <2>2, <2>3, NewShared DEF VInv, VPart
<1>5. \A e \in values' : ValueAt(e)
  BY <1>2, <1>3 DEF VInv, ValuesAt
<1>6. ValuesAt'
  BY <1>1, <1>5, ValuesStay DEF VInv
<1>7. disk' \in Nat /\ disk' >= disk
  BY <1>1 DEF VInv, Began
<1> QED BY <1>1, <1>4, <1>6, <1>7, TileStays DEF VInv, VPart

LEMMA TakeFrameKeepsAt == ASSUME VInv, NEW r \in Readers, TakeFrame(r) PROVE VPart' /\ TileAt'
<1>1. PICK n \in Frames :
        LET m == ScopeFrame(r, "channelData", n)
            f == RetrieveFrame(r, m, FALSE)
        IN /\ Retrieve(r, m, FALSE, {})
           /\ tile' = IF f.kind = "value"
                      THEN [phase |-> "window", reader |-> r, n |-> m, frame |-> f]
                      ELSE NoTile
           /\ UNCHANGED <<plugs, disk, reloaded, changes>>
  BY DEF TakeFrame
<1> DEFINE m == ScopeFrame(r, "channelData", n)
           f == RetrieveFrame(r, m, FALSE)
<1>2. VPart'
  <2>1. PICK none : none = {} /\ Retrieve(r, m, FALSE, none)
    BY <1>1
  <2>2. \A e \in none : ValueAt(e)
    BY <2>1
  <2> HIDE DEF m
  <2> QED BY <1>1, <2>1, <2>2, RetrieveAtKeeps DEF VInv, VPart
<1>3. CASE f.kind # "value"
  <2>1. tile' = NoTile
    BY <1>1, <1>3
  <2> QED BY <1>2, <2>1, NoTileAt
<1>4. CASE f.kind = "value"
  <2>1. tile' = [phase |-> "window", reader |-> r, n |-> m, frame |-> f]
    BY <1>1, <1>4
  <2>2. PICK v, h, u \in Past : f = RetrieveAt(v, h, u, plugs[r], m, FALSE)
    BY RetrievedIsAt DEF VInv, IInv
  <2>3. f.version >= reloaded[r]
    <3>1. Result(f)
      BY RetrievedIsFresh DEF VInv, IInv
    <3> QED BY <1>4, <3>1 DEF Result
  <2>4. UNCHANGED <<plugs, disk, reloaded>>
    BY <1>1
  <2> HIDE DEF f, m
  <2>5. tile'.phase = "window" /\ tile'.reader = r /\ tile'.n = m /\ tile'.frame = f
    BY <2>1
  <2>6. Past' = Past
    BY <2>4 DEF Past, Versions
  <2>7. TileAt'
    BY <1>4, <2>2, <2>3, <2>4, <2>5, <2>6 DEF TileAt
  <2> QED BY <1>2, <2>7
<1> QED BY <1>3, <1>4

LEMMA TakeWindowKeepsAt == ASSUME VInv, TakeWindow PROVE VPart' /\ TileAt'
<1> DEFINE r == tile.reader
           v == AvCompute(r, "dataWindow", tile.n)
<1>1. r \in Readers
  BY DEF TakeWindow, VInv, IInv, TileHasReader
<1>2. tile' = NoTile /\ UNCHANGED disk
  BY DEF TakeWindow
<1>3. TileAt'
  BY <1>2, NoTileAt
<1>4. CASE UNCHANGED <<frames, decoders, values>>
  <2>1. Past' = Past
    BY <1>2 DEF Past, Versions
  <2>2. DecodersAt' /\ FramesAt' /\ ValuesAt'
    BY <1>4, <2>1 DEF VInv, DecodersAt, FramesAt, ValuesAt, ValueAt
  <2> QED BY <1>3, <2>2 DEF VPart
<1>5. CASE Retrieve(r, tile.n, FALSE, Kept(r, Window, v))
  <2>1. \A e \in Kept(r, Window, v) : ValueAt(e)
    BY <1>1, KeptIsAt DEF VInv, VPart, Window, KeptOutputs
  <2> HIDE DEF v
  <2>2. VPart'
    BY <1>1, <1>2, <1>5, <2>1, RetrieveAtKeeps DEF VInv, VPart
  <2> QED BY <1>3, <2>2
<1> QED BY <1>4, <1>5 DEF TakeWindow

(* Setting plugs and replacing the file.                                    *)
LEMMA ChangesKeepAt ==
  ASSUME VInv, UNCHANGED <<values, tile>>, disk' \in Nat, disk' >= disk,
         decoders' \subseteq decoders, frames' \subseteq frames,
         tile # NoTile => plugs'[tile.reader] = plugs[tile.reader]
                          /\ reloaded'[tile.reader] = reloaded[tile.reader]
  PROVE  VPart' /\ TileAt'
<1>1. Past \subseteq Past'
  BY VersionsAreNumbers DEF Past, VInv, Began, Versions
<1>2. DecodersAt' /\ FramesAt'
  BY <1>1 DEF VInv, DecodersAt, FramesAt
<1>3. ASSUME NEW e \in values PROVE ValueAt(e)'
  <2>1. PICK p \in PlugValues, out \in KeptOutputs, v, h, u \in Past : \E n :
          e.key = KeyOf(p, out, n) /\ e.value = ComputeAt(v, h, u, p, out, n)
    BY DEF VInv, ValuesAt, ValueAt
  <2> QED BY <1>1, <2>1 DEF ValueAt
<1>4. ValuesAt'
  BY <1>3 DEF ValuesAt
<1>5. TileAt'
  BY TileStays DEF VInv
<1> QED BY <1>2, <1>4, <1>5 DEF VPart

LEMMA EditKeepsAt ==
  ASSUME VInv, NEW r \in Readers, Refresh(r) \/ SetFilterGraph(r) \/ SetPlugs(r)
  PROVE  VPart' /\ TileAt' /\ UNCHANGED disk
<1>1. /\ Editable(r) /\ UNCHANGED <<disk, values, tile>>
      /\ decoders' \subseteq decoders /\ frames' \subseteq frames
      /\ \E p : plugs' = [plugs EXCEPT ![r] = p]
      /\ reloaded' = reloaded \/ reloaded' = [reloaded EXCEPT ![r] = disk]
  <2>1. CASE Refresh(r)
    BY <2>1 DEF Refresh
  <2>2. CASE SetFilterGraph(r)
    BY <2>2 DEF SetFilterGraph
  <2>3. CASE SetPlugs(r)
    BY <2>3 DEF SetPlugs
  <2> QED BY <2>1, <2>2, <2>3
<1>2. tile # NoTile => tile.reader # r /\ tile.reader \in Readers
  BY <1>1 DEF VInv, TileAt, Editable
<1>3. tile # NoTile => plugs'[tile.reader] = plugs[tile.reader]
                       /\ reloaded'[tile.reader] = reloaded[tile.reader]
  BY <1>1, <1>2 DEF VInv, IInv, Plugs, NothingNewer
<1>4. disk' \in Nat /\ disk' >= disk
  BY <1>1 DEF VInv, Began
<1> QED BY <1>1, <1>3, <1>4, ChangesKeepAt

LEMMA ReplaceKeepsAt == ASSUME VInv, Replace PROVE VPart' /\ TileAt' /\ Began'
<1>1. disk' = disk + 1 /\ UNCHANGED <<plugs, decoders, frames, values, tile, reloaded>>
  BY DEF Replace
<1>2. disk' \in Nat /\ disk' >= disk /\ Began'
  BY <1>1 DEF VInv, Began
<1>3. VPart' /\ TileAt'
  BY <1>1, <1>2, ChangesKeepAt
<1> QED BY <1>2, <1>3

LEMMA StepKeepsAt == ASSUME VInv, [Next]_vars PROVE VInv'
<1>1. IInv'
  BY StepKeeps DEF VInv
<1>2. CASE Replace
  BY <1>1, <1>2, ReplaceKeepsAt DEF VInv, VPart
<1>3. ASSUME UNCHANGED disk, VPart', TileAt' PROVE VInv'
  BY <1>1, <1>3 DEF VInv, VPart, Began
<1>4. ASSUME NEW r \in Readers, PullImage(r) PROVE VInv'
  BY <1>3, <1>4, PullImageKeepsAt DEF PullImage
<1>5. ASSUME NEW r \in Readers, PullFile(r) PROVE VInv'
  BY <1>3, <1>5, PullFileKeepsAt DEF PullFile
<1>6. ASSUME NEW r \in Readers, TakeFrame(r) PROVE VInv'
  BY <1>3, <1>6, TakeFrameKeepsAt DEF TakeFrame
<1>7. CASE TakeWindow
  BY <1>3, <1>7, TakeWindowKeepsAt DEF TakeWindow
<1>8. ASSUME NEW r \in Readers, Refresh(r) \/ SetFilterGraph(r) \/ SetPlugs(r) PROVE VInv'
  BY <1>3, <1>8, EditKeepsAt
<1>9. CASE UNCHANGED vars
  <2>1. UNCHANGED <<plugs, disk, decoders, frames, values, tile, reloaded>>
    BY <1>9 DEF vars
  <2>2. disk' \in Nat /\ disk' >= disk
    BY <2>1 DEF VInv, Began
  <2> QED BY <1>3, <2>1, <2>2, ChangesKeepAt
<1> QED BY <1>2, <1>4, <1>5, <1>6, <1>7, <1>8, <1>9 DEF Next

LEMMA InitialAt == Init => VInv
<1> SUFFICES ASSUME Init PROVE VInv
  OBVIOUS
<1>1. DecodersAt /\ FramesAt /\ ValuesAt /\ TileAt /\ Began
  BY DEF Init, DecodersAt, FramesAt, ValuesAt, TileAt, Began
<1> QED BY <1>1, InitialFresh DEF VInv

(* In every state everything the caches hold is a function of its key and   *)
(* of versions the file has had.                                            *)
THEOREM ValuesOfKeys == Spec => []VInv
BY InitialAt, StepKeepsAt, PTL DEF Spec


-----------------------------------------------------------------------------
(* The properties.                                                          *)

LEMMA WidthsAreNumbers ==
  ASSUME NEW v \in Past, NEW f \in Filters
  PROVE  Movies[v].width[f] \in Nat /\ Movies[v].count \in Nat
BY ReaderNodesAssumption DEF Past, Versions

LEMMA PlugRanges ==
  ASSUME NEW p \in PlugValues
  PROVE  /\ p.filterGraph \in Filters
         /\ \A b \in BOOLEAN : ModeAt(p, b) \in {"Error", "Black", "Hold"}
         /\ p.missingFrameMode \in {"Error", "Black", "Hold"}
BY DEF PlugValues, ModeAt

(* The frame asked for is there in version v.                               *)
Shows(v, p, n) == WidthAt(v, p.filterGraph, p.videoStream, n) > 0

Missing(p) == p.fileName = "" \/ p.videoStream = "unparsable"

(* What is retrieved for all outputs but the format.                        *)
TakeAt(v, h, u, p, n) == RetrieveAt(v, h, u, p, n, FALSE)

(* The ways this ends: with nothing to look for, with the frame itself, the *)
(* one held in its place or none to hold, and without a frame.              *)
Ends(y, v, h, u, p, n) ==
  LET f == p.filterGraph
      m == HeldFrame(Movies[u].count, n)
      hold == p.missingFrameMode = "Hold"
  IN \/ Missing(p) /\ y = Unset
     \/ ~ Missing(p) /\ Shows(v, p, n) /\ y = Value(v, n, Movies[v].width[f])
     \/ /\ ~ Missing(p) /\ ~ Shows(v, p, n) /\ hold
        /\ Movies[u].count # 0 /\ Shows(h, p, m) /\ y = Value(h, m, Movies[h].width[f])
     \/ ~ Missing(p) /\ ~ Shows(v, p, n) /\ hold /\ y = Raised(h)
          /\ (Movies[u].count = 0 \/ ~ Shows(h, p, m))
     \/ ~ Missing(p) /\ ~ Shows(v, p, n) /\ ~ hold /\ y \in {Default(v), Raised(v)}

LEMMA WaysToEnd ==
  ASSUME NEW v \in Past, NEW h \in Past, NEW u, NEW p \in PlugValues, NEW n
  PROVE  Ends(TakeAt(v, h, u, p, n), v, h, u, p, n)
<1> DEFINE f == p.filterGraph
           s == p.videoStream
           m == HeldFrame(Movies[u].count, n)
           w == WidthAt(v, f, s, n)
           y == WidthAt(h, f, s, m)
           mode == p.missingFrameMode
           x == TakeAt(v, h, u, p, n)
<1>1. f \in Filters /\ mode \in {"Error", "Black", "Hold"}
  BY PlugRanges
<1>2. /\ w > 0 => w = Movies[v].width[f]
      /\ y = 0 \/ (y > 0 /\ y = Movies[h].width[f])
  BY <1>1, WidthsAreNumbers DEF WidthAt, OpenAt
<1>3. HeldAt(h, u, p, n) = IF Movies[u].count = 0 \/ y = 0 THEN Raised(h) ELSE Value(h, m, y)
  BY Zenon DEF HeldAt
<1>4. Missing(p) => x = Unset
  BY DEF TakeAt, RetrieveAt, Missing
<1>5. ~ Missing(p) /\ w > 0 => x = Value(v, n, w)
  BY Zenon DEF TakeAt, RetrieveAt, Missing
<1>6. ~ Missing(p) /\ ~ (w > 0) => x = CASE mode = "Black" -> Default(v)
                                         [] mode = "Hold"  -> HeldAt(h, u, p, n)
                                         [] mode = "Error" -> Raised(v)
  BY DEF TakeAt, RetrieveAt, ModeAt, Missing
<1>7. Shows(v, p, n) = (w > 0) /\ Shows(h, p, m) = (y > 0)
  BY Zenon DEF Shows
<1> HIDE DEF w, y, mode, x, m
<1>8. ~ Missing(p) /\ ~ (w > 0) =>
        x = IF mode = "Hold" THEN HeldAt(h, u, p, n)
            ELSE IF mode = "Black" THEN Default(v) ELSE Raised(v)
  BY <1>1, <1>6
<1>9. \/ Missing(p) /\ x = Unset
      \/ ~ Missing(p) /\ w > 0 /\ x = Value(v, n, Movies[v].width[f])
      \/ /\ ~ Missing(p) /\ ~ (w > 0) /\ mode = "Hold"
         /\ Movies[u].count # 0 /\ y > 0 /\ x = Value(h, m, Movies[h].width[f])
      \/ ~ Missing(p) /\ ~ (w > 0) /\ mode = "Hold" /\ x = Raised(h)
           /\ (Movies[u].count = 0 \/ ~ (y > 0))
      \/ ~ Missing(p) /\ ~ (w > 0) /\ mode # "Hold" /\ x \in {Default(v), Raised(v)}
  BY <1>2, <1>3, <1>4, <1>5, <1>8
<1> QED BY <1>7, <1>9, Zenon DEF Ends, x, m, mode

(* Nothing else of the plugs counts.                                        *)
FormatAt(v, h, u, p, n) == RetrieveAt(v, h, u, p, n, TRUE)

LEMMA RetrieveAtSame ==
  ASSUME NEW p, NEW q, NEW v, NEW h, NEW u, NEW n,
         p.fileName = q.fileName, p.videoStream = q.videoStream,
         p.missingFrameMode = q.missingFrameMode, p.filterGraph = q.filterGraph
  PROVE  /\ TakeAt(v, h, u, p, n) = TakeAt(v, h, u, q, n)
         /\ FormatAt(v, h, u, p, n) = FormatAt(v, h, u, q, n)
<1> DEFINE Of(file, stream, w, mode, held) ==
             IF file = "" \/ stream = "unparsable" THEN Unset
             ELSE IF w > 0 THEN Value(v, n, w)
             ELSE CASE mode = "Black" -> Default(v)
                    [] mode = "Hold"  -> held
                    [] mode = "Error" -> Raised(v)
           Width(r) == WidthAt(v, r.filterGraph, r.videoStream, n)
<1>1. \A r : TakeAt(v, h, u, r, n) =
        Of(r.fileName, r.videoStream, Width(r), ModeAt(r, FALSE), HeldAt(h, u, r, n))
  BY Zenon DEF TakeAt, RetrieveAt
<1>2. \A r : FormatAt(v, h, u, r, n) =
        Of(r.fileName, r.videoStream, Width(r), ModeAt(r, TRUE), HeldAt(h, u, r, n))
  BY Zenon DEF FormatAt, RetrieveAt
<1>3. HeldAt(h, u, p, n) = HeldAt(h, u, q, n) /\ Width(p) = Width(q)
  BY Zenon DEF HeldAt
<1>4. ModeAt(p, TRUE) = ModeAt(q, TRUE) /\ ModeAt(p, FALSE) = ModeAt(q, FALSE)
  BY DEF ModeAt
<1> HIDE DEF Of
<1> QED BY <1>1, <1>2, <1>3, <1>4, Zenon

(* An entry that is found under a hash of a reader: there is a value, not a *)
(* black image, and it is of the same plugs as far as they are hashed.      *)
LEMMA FoundUnderHash ==
  ASSUME VInv, NEW r \in Readers, NEW out, NEW n, Has(values, Hash(r, out, n))
  PROVE  LET k == Hash(r, out, n)
             m == ScopeFrame(r, out, n)
             e == Entry(values, k)
         IN /\ ~ IsBlack(r, out, n) /\ out \in KeptOutputs
            /\ e \in values /\ e.key = k /\ k = KeyOf(plugs[r], out, m)
            /\ e.value.kind # "error"
            /\ \E p \in PlugValues, v, h, u \in Past : \E i :
                 /\ KeyOf(p, out, i) = KeyOf(plugs[r], out, m)
                 /\ e.value = ComputeAt(v, h, u, p, out, i)
<1> DEFINE k == Hash(r, out, n)
           m == ScopeFrame(r, out, n)
<1>1. PICK e \in values : e = Entry(values, k) /\ e.key = k
  BY EntryIsThere
<1>2. FreshValue(e) /\ ValueAt(e)
  BY DEF VInv, IInv, ValuesFresh, ValuesAt
<1>3. ~ IsBlack(r, out, n)
  <2>1. IsBlack(r, out, n) => e.key[2] = <<>>
    BY <1>1 DEF Hash
  <2>2. "refreshCount" \in DOMAIN e.key[2]
    BY <1>2 DEF FreshValue
  <2>3. "refreshCount" \notin DOMAIN <<>>
    OBVIOUS
  <2> QED BY <2>1, <2>2, <2>3
<1>4. k = KeyOf(plugs[r], out, m)
  BY <1>3, KeyOfReader, Zenon DEF Hash
<1> HIDE DEF k, m
<1>5. PICK p \in PlugValues, o \in KeptOutputs, v, h, u \in Past : \E i :
        e.key = KeyOf(p, o, i) /\ e.value = ComputeAt(v, h, u, p, o, i)
  BY <1>2 DEF ValueAt
<1>6. PICK i : e.key = KeyOf(p, o, i) /\ e.value = ComputeAt(v, h, u, p, o, i)
  BY <1>5
<1>7. o = out
  BY <1>1, <1>4, <1>6, KeysAgree
<1>8. e.value.kind # "error"
  BY <1>2 DEF FreshValue
<1>9. KeyOf(p, out, i) = KeyOf(plugs[r], out, m) /\ e.value = ComputeAt(v, h, u, p, out, i)
  BY <1>1, <1>4, <1>6, <1>7
<1> QED BY <1>1, <1>3, <1>4, <1>5, <1>7, <1>8, <1>9 DEF k, m

(* A retrieval of a reader, with the versions it takes things from.         *)
LEMMA Retrieved ==
  ASSUME VInv, NEW r \in Readers, NEW n
  PROVE  \E v, h, u \in Past :
           /\ Source(v) /\ Source(h) /\ (AvailableFrames(r).version = disk => u = disk)
           /\ RetrieveFrame(r, n, FALSE) = TakeAt(v, h, u, plugs[r], n)
BY RetrievedIsAt DEF VInv, IInv, TakeAt

(* What the tile's frame and its window have in common: both are retrieved  *)
(* of the same frame with the same plugs, and if they show something it is  *)
(* of the file on disk.                                                     *)
LEMMA TileFits == VInv => TileFitsFrame
<1> DEFINE r == tile.reader
           n == tile.n
           p == plugs[r]
           f == p.filterGraph
           s == p.videoStream
           w == IF Has(values, Window) THEN Entry(values, Window)
                ELSE [value |-> AvCompute(r, "dataWindow", n), maker |-> r]
           x == w.value
<1> SUFFICES ASSUME VInv, tile # NoTile, reloaded[r] = disk, w.maker = r
             PROVE  \/ x.kind = "value" /\ x.data = tile.frame.data
                    \/ x.kind # "value" /\ p.missingFrameMode = "Hold" /\ disk > 1
  BY DEF TileFitsFrame
<1>1. /\ r \in Readers /\ tile.frame.kind = "value" /\ tile.frame.version >= disk
      /\ \E v, h, u \in Past : tile.frame = TakeAt(v, h, u, p, n)
  BY DEF VInv, TileAt, TakeAt
<1>2. p \in PlugValues
  BY <1>1 DEF VInv, IInv, Plugs
<1>3. \A v \in Past : v >= disk => v = disk
  BY VersionsAreNumbers DEF Past, VInv, Began, Versions
<1>4. disk \in Past
  BY DiskIsPast DEF VInv, IInv
<1>5. /\ x.kind # "unset" => x.kind # "error" \/ ~ Has(values, Window)
      /\ \E v, h, u \in Past :
           /\ x = TakeAt(v, h, u, p, n)
           /\ Has(values, Window) => (x.kind # "unset" => x.version >= disk) /\ x.kind # "error"
           /\ ~ Has(values, Window) => v = disk /\ h = disk
  <2>1. CASE Has(values, Window)
    <3>1. PICK e \in values : e = Entry(values, Window) /\ e.key = Window /\ x = e.value
                              /\ e.maker = r
      BY <2>1, EntryIsThere
    <3>2. FreshValue(e) /\ ValueAt(e)
      BY DEF VInv, IInv, ValuesFresh, ValuesAt
    <3>3. Window = KeyOf(p, "dataWindow", n)
      BY KeyOfReader DEF Window
    <3>4. x.kind # "error" /\ (x.kind # "unset" => x.version >= disk)
      <4>1. "refreshCount" \in HashedPlugs("dataWindow")
        BY DEF HashedPlugs
      <4>2. Count(Window) = p.refreshCount
        BY <1>1, <4>1, HashHasCount DEF VInv, IInv, Window
      <4> HIDE DEF p, x
      <4> QED BY <3>1, <3>2, <4>2 DEF FreshValue, p
    <3>5. PICK q \in PlugValues, o \in KeptOutputs, v, h, u \in Past : \E i :
            e.key = KeyOf(q, o, i) /\ e.value = ComputeAt(v, h, u, q, o, i)
      BY <3>2 DEF ValueAt
    <3>6. PICK i : e.key = KeyOf(q, o, i) /\ e.value = ComputeAt(v, h, u, q, o, i)
      BY <3>5
    <3> HIDE DEF p, n, x
    <3>7. KeyOf(p, "dataWindow", n) = KeyOf(q, o, i)
      BY <3>1, <3>3, <3>6
    <3>8. o = "dataWindow" /\ i = n
      BY <3>7, KeysAgree DEF HashesFrame, ImageOutputs
    <3>9. x = TakeAt(v, h, u, q, n)
      BY <3>1, <3>6, <3>8 DEF ComputeAt, TakeAt
    <3>10. /\ q.fileName = p.fileName /\ q.videoStream = p.videoStream
           /\ q.missingFrameMode = p.missingFrameMode /\ q.filterGraph = p.filterGraph
      BY <3>7, <3>8, SamePlugsSameKey DEF KeptOutputs, FilterBlind
    <3>11. x = TakeAt(v, h, u, p, n)
      BY <3>9, <3>10, RetrieveAtSame
    <3> QED BY <2>1, <3>4, <3>5, <3>11
  <2>2. CASE ~ Has(values, Window)
    <3>1. x = RetrieveFrame(r, n, FALSE)
      BY <2>2 DEF AvCompute
    <3> HIDE DEF x
    <3>2. PICK v, h, u \in Past :
            Source(v) /\ Source(h) /\ RetrieveFrame(r, n, FALSE) = TakeAt(v, h, u, p, n)
      <4>1. \E v, h, u \in Past :
              Source(v) /\ Source(h) /\ RetrieveFrame(r, n, FALSE) = TakeAt(v, h, u, plugs[r], n)
        <5>1. PICK v, h, u \in Past :
                /\ Source(v) /\ Source(h) /\ (AvailableFrames(r).version = disk => u = disk)
                /\ RetrieveFrame(r, n, FALSE) = TakeAt(v, h, u, plugs[r], n)
          BY <1>1, Retrieved
        <5> HIDE DEF r, n
        <5> QED BY <5>1
      <4> QED BY <4>1 DEF p
    <3>3. v = disk /\ h = disk
      BY <1>1, <1>3, <3>2 DEF Source
    <3> QED BY <2>2, <3>1, <3>2, <3>3
  <2> QED BY <2>1, <2>2
<1>6. PICK v, h, u \in Past :
        /\ x = TakeAt(v, h, u, p, n)
        /\ Has(values, Window) => (x.kind # "unset" => x.version >= disk) /\ x.kind # "error"
        /\ ~ Has(values, Window) => v = disk /\ h = disk
  BY <1>5
<1>7. PICK v1, h1, u1 \in Past : tile.frame = TakeAt(v1, h1, u1, p, n)
  BY <1>1
<1> HIDE DEF x, p, n, w, f, s
<1>8. Ends(x, v, h, u, p, n) /\ Ends(tile.frame, v1, h1, u1, p, n)
  BY <1>2, <1>6, <1>7, WaysToEnd
<1> DEFINE width == Movies[disk].width[f]
           hold == p.missingFrameMode = "Hold"
<1>9. /\ ~ Missing(p) /\ tile.frame.data = width
      /\ Shows(disk, p, n) \/ hold
  BY <1>1, <1>3, <1>8, KindsDiffer DEF Ends, f
<1>10. x.kind = "value" => x.data = width
  BY <1>3, <1>6, <1>8, KindsDiffer DEF Ends, f
<1>11. x.kind # "value" => hold
  <2> SUFFICES ASSUME x.kind # "value", ~ hold PROVE FALSE
    OBVIOUS
  <2>1. ~ Shows(v, p, n) /\ x \in {Default(v), Raised(v)}
    BY <1>8, <1>9, KindsDiffer DEF Ends
  <2>2. x.version = v /\ x.kind # "unset"
    BY <2>1, KindsDiffer
  <2>3. v = disk
    BY <1>3, <1>6, <2>2
  <2> QED BY <1>9, <2>1, <2>3
<1>12. disk = 1 => x = tile.frame
  <2>1. disk = 1 => \A c \in Past : c = 1
    BY VersionsAreNumbers DEF Past, Versions
  <2> QED BY <1>6, <1>7, <2>1
<1>13. disk = 1 \/ disk > 1
  BY DEF VInv, Began
<1> QED BY <1>1, <1>9, <1>10, <1>11, <1>12, <1>13 DEF f

(* Held frames.                                                             *)
LEMMA HeldIsBefore ==
  ASSUME NEW c \in Nat, c # 0, NEW n \in Int, NEW m \in Int, n <= m
  PROVE  /\ HeldFrame(c, n) <= n \/ HeldFrame(c, n) = 1
         /\ HeldFrame(c, n) <= HeldFrame(c, m)
         /\ n < m /\ n <= c => n <= HeldFrame(c, m)
         /\ m >= 1 => HeldFrame(c, n) <= m
BY DEF HeldFrame

LEMMA HoldPlays == VInv => HoldPlaysForward
<1> SUFFICES ASSUME VInv, NEW r \in Readers, plugs[r].missingFrameMode = "Hold", AllOfDisk(r),
                    NEW n \in Frames, NEW m \in Frames,
                    RetrieveFrame(r, n, FALSE).kind = "value"
             PROVE  LET now == RetrieveFrame(r, n, FALSE)
                        later == RetrieveFrame(r, m, FALSE)
                    IN /\ now.nb <= n \/ now.nb = 1
                       /\ n <= m /\ later.kind = "value" => now.nb <= later.nb
  BY DEF HoldPlaysForward
<1> DEFINE p == plugs[r]
           c == Movies[disk].count
           IsShown(i) == Shows(disk, p, i)
<1>1. \A i : RetrieveFrame(r, i, FALSE) = TakeAt(disk, disk, disk, p, i)
  <2> SUFFICES ASSUME NEW i PROVE RetrieveFrame(r, i, FALSE) = TakeAt(disk, disk, disk, p, i)
    OBVIOUS
  <2>1. PICK v, h, u \in Past :
          /\ Source(v) /\ Source(h) /\ (AvailableFrames(r).version = disk => u = disk)
          /\ RetrieveFrame(r, i, FALSE) = TakeAt(v, h, u, p, i)
    BY Retrieved
  <2>2. v = disk /\ h = disk /\ u = disk
    BY <2>1 DEF AllOfDisk, Source
  <2> QED BY <2>1, <2>2
<1>2. p \in PlugValues /\ disk \in Past
  BY DiskIsPast DEF VInv, IInv, Plugs
<1>3. n \in Int /\ m \in Int
  BY ReaderNodesAssumption
<1>4. c \in Nat
  BY <1>2, WidthsAreNumbers, PlugRanges
<1>5. \A i \in {n, m} : IsShown(i) => i >= 1 /\ i <= c
  BY <1>3, <1>4 DEF Shows, WidthAt
<1> DEFINE now == TakeAt(disk, disk, disk, p, n)
           later == TakeAt(disk, disk, disk, p, m)
<1>6. Ends(now, disk, disk, disk, p, n) /\ Ends(later, disk, disk, disk, p, m)
  BY <1>2, WaysToEnd
<1> HIDE DEF p, now, later, IsShown, c
<1>7. now.kind = "value"
  BY <1>1 DEF now
<1>8. (IsShown(n) /\ now.nb = n) \/ (~ IsShown(n) /\ c # 0 /\ now.nb = HeldFrame(c, n))
  BY <1>6, <1>7, KindsDiffer DEF Ends, IsShown, c
<1>9. later.kind = "value" =>
        (IsShown(m) /\ later.nb = m) \/ (~ IsShown(m) /\ c # 0 /\ later.nb = HeldFrame(c, m))
  BY <1>6, KindsDiffer DEF Ends, IsShown, c
<1>10. now.nb <= n \/ now.nb = 1
  <2>1. CASE now.nb = n
    BY <1>3, <2>1
  <2>2. CASE c # 0 /\ now.nb = HeldFrame(c, n)
    <3>1. HeldFrame(c, n) <= n \/ HeldFrame(c, n) = 1
      BY <1>3, <1>4, <2>2, HeldIsBefore
    <3> QED BY <2>2, <3>1
  <2> QED BY <1>8, <2>1, <2>2
<1>11. ASSUME n <= m, later.kind = "value" PROVE now.nb <= later.nb
  <2>1. CASE IsShown(n) /\ IsShown(m)
    BY <1>8, <1>9, <1>11, <2>1
  <2>2. CASE IsShown(n) /\ ~ IsShown(m)
    <3>1. n < m /\ n <= c
      <4>1. n # m
        BY <2>2
      <4> QED BY <1>3, <1>5, <1>11, <2>2, <4>1
    <3> QED BY <1>3, <1>4, <1>8, <1>9, <1>11, <2>2, <3>1, HeldIsBefore
  <2>3. CASE ~ IsShown(n) /\ IsShown(m)
    BY <1>3, <1>4, <1>5, <1>8, <1>9, <1>11, <2>3, HeldIsBefore
  <2>4. CASE ~ IsShown(n) /\ ~ IsShown(m)
    BY <1>3, <1>4, <1>8, <1>9, <1>11, <2>4, HeldIsBefore
  <2> QED BY <2>1, <2>2, <2>3, <2>4
<1>12. RetrieveFrame(r, n, FALSE) = now /\ RetrieveFrame(r, m, FALSE) = later
  BY <1>1, Zenon DEF now, later
<1> QED BY <1>10, <1>11, <1>12, Zenon

(* Masked frames.  There is no value under the hash of a black image.       *)
LEMMA Masks == VInv => MaskedAsBoundary
<1> DEFINE first(r) == plugs[r].startFrame
           last(r) == plugs[r].endFrame
<1> SUFFICES ASSUME VInv, NEW r \in Readers, NEW n \in Frames, NEW out \in Outputs,
                    first(r) <= last(r), FrameMaskMode(r, n) # "None", Masked(out),
                    NEW bound, bound = IF n < first(r) THEN first(r) ELSE last(r)
             PROVE  \/ Pulled(r, out, n) = Pulled(r, out, bound)
                    \/ /\ FrameMaskMode(r, n) = "BlackOutside" /\ Pulled(r, out, n) = Unset
                       /\ out \notin {"format", "dataWindow"}
  BY DEF MaskedAsBoundary
<1>1. /\ first(r) \in Int /\ last(r) \in Int /\ n \in Int
      /\ plugs[r].startMode \in {"None", "BlackOutside", "ClampToFrame"}
      /\ plugs[r].endMode \in {"None", "BlackOutside", "ClampToFrame"}
  BY ReaderNodesAssumption DEF VInv, IInv, Plugs, PlugValues
<1>2. FrameMaskMode(r, n) \in {"BlackOutside", "ClampToFrame"} /\ (n < first(r) \/ n > last(r))
  BY <1>1 DEF FrameMaskMode
<1>3. bound \in Int /\ first(r) <= bound /\ bound <= last(r)
      /\ Clamp(n, first(r), last(r)) = bound
  BY <1>1, <1>2 DEF Clamp
<1>4. FrameMaskMode(r, bound) = "None"
  BY <1>1, <1>3 DEF FrameMaskMode
<1>5. ~ IsBlack(r, out, bound) /\ ScopeFrame(r, out, bound) = bound
  BY <1>4 DEF IsBlack, ScopeFrame, ScopeMode
<1>6. CASE FrameMaskMode(r, n) = "ClampToFrame" \/ ClampBlack(out)
  <2>1. ScopeMode(r, out, n) = "ClampToFrame"
    BY <1>2, <1>6 DEF ScopeMode
  <2>2. ~ IsBlack(r, out, n) /\ ScopeFrame(r, out, n) = bound
    BY <1>3, <2>1 DEF IsBlack, ScopeFrame
  <2>3. /\ Hash(r, out, n) = Hash(r, out, bound)
        /\ Compute(r, out, n) = Compute(r, out, bound)
    BY <1>5, <2>2 DEF Hash, Compute
  <2> QED BY <2>3, Zenon DEF Pulled
<1>7. CASE ~ (FrameMaskMode(r, n) = "ClampToFrame" \/ ClampBlack(out))
  <2>1. FrameMaskMode(r, n) = "BlackOutside" /\ IsBlack(r, out, n)
    BY <1>2, <1>7 DEF IsBlack, ScopeMode
  <2>2. ~ Has(values, Hash(r, out, n))
    BY <2>1, FoundUnderHash
  <2>3. Pulled(r, out, n) = Unset
    BY <2>1, <2>2 DEF Pulled, Compute
  <2> QED BY <1>7, <2>1, <2>3 DEF ClampBlack
<1> QED BY <1>6, <1>7

(* A file that cannot be opened with a filter graph shows nothing, and all  *)
(* graphs it can be opened with show the same frames.                       *)
LEMMA NothingShownIfClosed ==
  ASSUME NEW v, NEW p, NEW n, Shows(v, p, n)
  PROVE  /\ OpenAt(v, p.filterGraph) /\ p.videoStream = "best"
         /\ n \in (1 .. Movies[v].count) \ Movies[v].broken
<1>1. WidthAt(v, p.filterGraph, p.videoStream, n) # 0
  BY DEF Shows
<1> QED BY <1>1, Zenon DEF WidthAt

LEMMA OpenShows ==
  ASSUME NEW v, NEW p, NEW n, OpenAt(v, p.filterGraph), p.videoStream = "best",
         n \in (1 .. Movies[v].count) \ Movies[v].broken
  PROVE  Shows(v, p, n)
<1>1. WidthAt(v, p.filterGraph, p.videoStream, n) = Movies[v].width[p.filterGraph]
  BY Zenon DEF WidthAt
<1> QED BY <1>1 DEF Shows, OpenAt

LEMMA OpenShowsSame ==
  ASSUME NEW v, NEW p, NEW q, p.videoStream = q.videoStream,
         OpenAt(v, p.filterGraph), OpenAt(v, q.filterGraph)
  PROVE  \A n : Shows(v, p, n) <=> Shows(v, q, n)
<1>1. \A n : Shows(v, p, n) => Shows(v, q, n)
  BY NothingShownIfClosed, OpenShows
<1>2. \A n : Shows(v, q, n) => Shows(v, p, n)
  BY NothingShownIfClosed, OpenShows
<1> QED BY <1>1, <1>2

LEMMA DataDropped ==
  /\ \A v, n, d : [Value(v, n, d) EXCEPT !.data = 0] = Value(v, n, 0)
  /\ \A v : [Default(v) EXCEPT !.data = 0].kind = "default"
  /\ \A v : [Raised(v) EXCEPT !.data = 0].kind = "error"
BY DEF Value, Default, Raised

(* What is kept under the hash a reader has now was computed of the same    *)
(* plugs, as far as they are hashed, and of the only version of the file.   *)
LEMMA KeptIsCurrent == VInv => CachedIsCurrent
<1> SUFFICES ASSUME VInv, disk = 1, NEW r \in Readers, NEW out \in Outputs, NEW n \in Frames,
                    Has(values, Hash(r, out, n))
             PROVE  LET x == Entry(values, Hash(r, out, n)).value
                    IN \/ x = Compute(r, out, n)
                       \/ out \in FilterBlind /\ (x.kind = "default" \/ ~ Decoder(r).open)
  BY DEF CachedIsCurrent
<1> DEFINE p == plugs[r]
           m == ScopeFrame(r, out, n)
           x == Entry(values, Hash(r, out, n)).value
           now == Compute(r, out, n)
           open == Decoder(r).open
<1>1. \A v \in Past : v = 1
  BY VersionsAreNumbers DEF Past, Versions
<1>2. p \in PlugValues /\ 1 \in Past
  BY DiskIsPast DEF VInv, IInv, Plugs
<1>3. ~ IsBlack(r, out, n) /\ out \in KeptOutputs /\ x.kind # "error"
  BY FoundUnderHash
<1>4. PICK q \in PlugValues, v, h, u \in Past : \E i :
        KeyOf(q, out, i) = KeyOf(p, out, m) /\ x = ComputeAt(v, h, u, q, out, i)
  BY FoundUnderHash
<1>5. PICK i : KeyOf(q, out, i) = KeyOf(p, out, m) /\ x = ComputeAt(1, 1, 1, q, out, i)
  BY <1>1, <1>4
<1>6. now = ComputeAt(1, 1, 1, p, out, m)
  <2>1. now = AvCompute(r, out, m)
    BY <1>3 DEF Compute
  <2> HIDE DEF m, now
  <2>2. PICK v1, h1, u1 \in Past : AvCompute(r, out, m) = ComputeAt(v1, h1, u1, p, out, m)
    BY ComputedIsAt DEF VInv, IInv
  <2> QED BY <1>1, <2>1, <2>2
<1>7. open = OpenAt(1, p.filterGraph)
  <2>1. open = OpenAt(Decoder(r).version, p.filterGraph) /\ Decoder(r).version \in Past
    BY DecoderAt DEF VInv, IInv, Decoder, Source
  <2> QED BY <1>1, <2>1
<1> HIDE DEF p, m, x, now, open
<1>8. /\ q.fileName = p.fileName
      /\ out \notin {"fileValid", "probe"} => q.videoStream = p.videoStream
      /\ out \notin {"fileValid", "probe", "availableFrames"} =>
           q.missingFrameMode = p.missingFrameMode /\ i = m
      /\ out \notin FilterBlind => q.filterGraph = p.filterGraph
  BY <1>3, <1>5, SamePlugsSameKey
<1>9. CASE out \in {"format", "dataWindow", "metadata"}
  <2>1. /\ TakeAt(1, 1, 1, q, m) = TakeAt(1, 1, 1, p, m)
        /\ FormatAt(1, 1, 1, q, m) = FormatAt(1, 1, 1, p, m)
    BY <1>8, <1>9, RetrieveAtSame DEF FilterBlind
  <2>2. i = m
    BY <1>8, <1>9
  <2>3. x = now
    BY <1>5, <1>6, <1>9, <2>1, <2>2 DEF ComputeAt, TakeAt, FormatAt
  <2> QED BY <2>3 DEF x, now
<1>10. CASE out \in {"fileValid", "probe"}
  <2>1. x = FileValidAt(1, q) /\ now = FileValidAt(1, p)
    BY <1>5, <1>6, <1>10 DEF ComputeAt
  <2>2. open => x = now
    <3>1. x # Raised(1)
      BY <1>3, KindsDiffer
    <3> QED BY <1>7, <1>8, <2>1, <3>1 DEF FileValidAt
  <2> QED BY <1>10, <2>2 DEF FilterBlind, x, now, open
<1>11. CASE out = "availableFrames"
  <2>1. x = AvailableAt(1, q) /\ now = AvailableAt(1, p)
    BY <1>5, <1>6, <1>11 DEF ComputeAt
  <2>2. open => x = now
    <3>1. x # Raised(1)
      BY <1>3, KindsDiffer
    <3>2. q.videoStream = p.videoStream
      BY <1>8, <1>11
    <3> QED BY <1>7, <1>8, <2>1, <3>1, <3>2 DEF AvailableAt
  <2> QED BY <1>11, <2>2 DEF FilterBlind, x, now, open
<1>12. CASE out = "channelNames"
  <2> DEFINE a == TakeAt(1, 1, 1, q, m)
             b == TakeAt(1, 1, 1, p, m)
  <2>1. /\ q.videoStream = p.videoStream /\ q.missingFrameMode = p.missingFrameMode
        /\ q.fileName = p.fileName /\ i = m
    BY <1>8, <1>12
  <2>2. x = [a EXCEPT !.data = 0] /\ now = [b EXCEPT !.data = 0]
    BY <1>5, <1>6, <1>12, <2>1 DEF ComputeAt, TakeAt
  <2>3. Ends(a, 1, 1, 1, q, m) /\ Ends(b, 1, 1, 1, p, m)
    BY <1>2, WaysToEnd
  <2> HIDE DEF a, b
  <2>4. \A j : Shows(1, q, j) => OpenAt(1, q.filterGraph)
    BY NothingShownIfClosed
  <2>5. OpenAt(1, q.filterGraph) /\ open => \A j : Shows(1, q, j) <=> Shows(1, p, j)
    BY <1>7, <2>1, OpenShowsSame
  <2>6. Missing(q) = Missing(p)
    BY <2>1, Zenon DEF Missing
  <2>7. CASE a = Unset /\ Missing(q)
    <3>1. b = Unset
      BY <2>3, <2>6, <2>7 DEF Ends
    <3> QED BY <2>2, <2>7, <3>1 DEF x, now
  <2>8. CASE ~ Missing(q) /\ Shows(1, q, m) /\ a = Value(1, m, Movies[1].width[q.filterGraph])
    <3>1. open => b = Value(1, m, Movies[1].width[p.filterGraph])
      BY <2>3, <2>4, <2>5, <2>6, <2>8 DEF Ends
    <3>2. open => x = now
      BY <2>2, <2>8, <3>1, DataDropped
    <3> QED BY <1>12, <3>2 DEF FilterBlind, x, now, open
  <2> DEFINE j == HeldFrame(Movies[1].count, m)
  <2>9. CASE /\ ~ Missing(q) /\ ~ Shows(1, q, m) /\ q.missingFrameMode = "Hold"
             /\ Movies[1].count # 0 /\ Shows(1, q, j)
             /\ a = Value(1, j, Movies[1].width[q.filterGraph])
    <3> HIDE DEF j
    <3>1. open => ~ Shows(1, p, m) /\ Shows(1, p, j)
      BY <2>4, <2>5, <2>9
    <3>2. open => b = Value(1, j, Movies[1].width[p.filterGraph])
      BY <2>1, <2>3, <2>6, <2>9, <3>1 DEF Ends, j
    <3>3. open => x = now
      BY <2>2, <2>9, <3>2, DataDropped
    <3> QED BY <1>12, <3>3 DEF FilterBlind, x, now, open
  <2>10. CASE a \in {Default(1), Raised(1)}
    <3>1. x.kind = "default"
      BY <1>3, <2>2, <2>10, DataDropped
    <3> QED BY <1>12, <3>1 DEF FilterBlind, x
  <2> QED BY <2>3, <2>7, <2>8, <2>9, <2>10 DEF Ends
<1> QED BY <1>3, <1>9, <1>10, <1>11, <1>12 DEF KeptOutputs

(* In every state of every behaviour, what Gaffer's cache holds under a     *)
(* hash is what would be computed, as long as the file is not replaced: the *)
(* hashes of both nodes say all that counts, the filter graph of some apart.*)
THEOREM HashesSayAll == Spec => []CachedIsCurrent
BY ValuesOfKeys, KeptIsCurrent, PTL

(* A tile is cut with a data window of its own frame, or, while frames are  *)
(* held and the file was replaced, with none.                               *)
THEOREM TilesFit == Spec => []TileFitsFrame
BY ValuesOfKeys, TileFits, PTL

(* Played forward, held frames never go back and never run ahead, for all   *)
(* files: whichever frames are broken and however many there are.           *)
THEOREM HeldPlayForward == Spec => []HoldPlaysForward
BY ValuesOfKeys, HoldPlays, PTL

(* Outside of its range a reader shows what the boundary shows, whatever    *)
(* the range and whatever the caches hold: the values under two hashes that *)
(* should be equal, and none under that of a black image.                   *)
THEOREM MaskShowsBoundary == Spec => []MaskedAsBoundary
BY ValuesOfKeys, Masks, PTL

=============================================================================
