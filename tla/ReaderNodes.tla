---------------------------- MODULE ReaderNodes ----------------------------
(***************************************************************************)
(* MovieReader nodes, each with the AvReader inside it, and the three      *)
(* caches their images go through: Gaffer's, which keeps the value of a    *)
(* plug under the hash the node gives it, SharedFrames and SharedDecoders. *)
(* The two shared caches are atomic here (SharedCaches has their inside);  *)
(* what this module is about is which frame a plug shows, under which hash *)
(* its value is kept, and what is left of an old file after a refresh.     *)
(*                                                                         *)
(* All readers have the same file, which may be replaced on disk.  A value *)
(* is abstracted to the version of the file it was made from, the number   *)
(* of the frame, and the one figure that is compared: a frame's width, or  *)
(* the number of available frames.                                         *)
(***************************************************************************)
EXTENDS Integers, FiniteSets

CONSTANTS
  Readers,     (* the MovieReader nodes                                     *)
  NoReader,    (* what is none of them                                      *)
  Frames,      (* the frames of the contexts in which plugs are pulled      *)
  Outputs,     (* the plugs that are pulled                                 *)
  Filters,     (* the filter graphs that are set                            *)
  Movies,      (* Movies[v]: version v of the file: the number of frames it *)
               (* says it has, those that cannot be decoded, and the width  *)
               (* each filter graph gives them, 0 if it cannot be opened    *)
  FirstPlugs,  (* what the plugs of the readers may be set to at first      *)
  Settings,    (* what they may be set to later                             *)
  MaxDecoders, MaxFrames,  (* the limits of the shared caches, 200 each     *)
  MaxValues,   (* a bound on Gaffer's cache                                 *)
  MaxChanges   (* a bound on how often a plug is set or the file replaced   *)

ImageOutputs == {"viewNames", "format", "dataWindow", "metadata", "deep",
                 "sampleOffsets", "channelNames", "channelData"}
AllOutputs == ImageOutputs \cup {"availableFrames", "fileValid", "probe"}

(* The plugs of MovieReader, which are those of its AvReader too, and the   *)
(* range of frames it shows.                                                *)
PlugValues ==
  [fileName : {"", "movie"}, refreshCount : 0 .. MaxChanges,
   missingFrameMode : {"Error", "Black", "Hold"},
   videoStream : {"best", "absent", "unparsable"}, filterGraph : Filters,
   startMode : {"None", "BlackOutside", "ClampToFrame"}, startFrame : Int,
   endMode : {"None", "BlackOutside", "ClampToFrame"}, endFrame : Int]

ASSUME ReaderNodesAssumption ==
  /\ NoReader \notin Readers /\ Frames \subseteq Int /\ Outputs \subseteq AllOutputs
  /\ FirstPlugs \cup Settings \subseteq PlugValues
  /\ \A p \in FirstPlugs : p.refreshCount = 0
  /\ DOMAIN Movies \subseteq Nat /\ 1 \in DOMAIN Movies
  /\ \A v \in DOMAIN Movies :
       Movies[v].count \in Nat /\ Movies[v].width \in [Filters -> Nat]
  /\ MaxDecoders \in Nat \ {0} /\ MaxFrames \in Nat \ {0}
  /\ MaxValues \in Nat \ {0} /\ MaxChanges \in Nat

VARIABLES
  plugs,     (* plugs[r]: the input plugs of reader r                       *)
  disk,      (* the version of the file on disk                             *)
  decoders,  (* the entries of SharedDecoders                               *)
  frames,    (* the entries of SharedFrames                                 *)
  values,    (* the entries of Gaffer's cache                               *)
  tile,      (* the computation of a tile that is in progress               *)
  reloaded,  (* reloaded[r]: the version on disk when r was last refreshed  *)
  changes    (* how often a plug was set or the file replaced               *)

vars == <<plugs, disk, decoders, frames, values, tile, reloaded, changes>>

Versions == DOMAIN Movies

(* An entry of a cache that has an entry for the key.                       *)
Has(cache, k) == \E e \in cache : e.key = k
Entry(cache, k) == CHOOSE e \in cache : e.key = k

(* A cache that never drops an entry for a new one.                          *)
InsertUnlimited(cache, new, limit) == {cache \cup new}

(* What a cache may hold after new entries: as much as its limit allows.    *)
(* Old entries go first; which of them is open.                             *)
Insert(cache, new, limit) ==
  LET all == cache \cup new
      size == IF Cardinality(all) <= limit THEN Cardinality(all) ELSE limit
  IN {s \in SUBSET all : Cardinality(s) = size /\ (s \subseteq new \/ new \subseteq s)}

-----------------------------------------------------------------------------
(* The shared caches.                                                       *)

(* SharedDecoders::get(): a hit, or the file opened as it is now; a decoder *)
(* that could not be opened is an entry as well.                            *)
DecoderEntry(filter) ==
  IF Has(decoders, filter) THEN Entry(decoders, filter)
  ELSE [key |-> filter, version |-> disk,
        open |-> Movies[disk].width[filter] > 0]

(* SharedFrames::get(): a hit, or the frame decoded.                        *)
FrameEntry(filter, stream, n) ==
  LET k == <<filter, stream, n>>
      d == DecoderEntry(filter)
      m == Movies[d.version]
  IN IF Has(frames, k) THEN Entry(frames, k)
     ELSE [key |-> k, version |-> d.version,
           width |-> IF d.open /\ stream = "best" /\ n \in (1 .. m.count) \ m.broken
                     THEN m.width[filter] ELSE 0]

-----------------------------------------------------------------------------
(* Hashes.                                                                  *)

(* Hashes of images that leave out how missing frames are shown.            *)
HashedPlugsNoMode(out) ==
  IF out \in {"fileValid", "probe"} THEN {"fileName", "refreshCount"}
  ELSE {"fileName", "refreshCount", "videoStream", "filterGraph"}

(* The hash of the data window leaves out the filter graph.                 *)
HashedPlugsNoFilter(out) ==
  IF out \in {"fileValid", "probe"} THEN {"fileName", "refreshCount"}
  ELSE {"fileName", "refreshCount", "videoStream", "missingFrameMode"}

(* The plugs of AvReader whose hashes are part of the hash of an output.    *)
HashedPlugs(out) ==
  CASE out \in {"fileValid", "probe"} -> {"fileName", "refreshCount"}
    [] out = "availableFrames" -> {"fileName", "refreshCount", "videoStream"}
    [] out \in {"channelNames", "sampleOffsets"} ->
         {"fileName", "refreshCount", "videoStream", "missingFrameMode"}
    [] out \in {"format", "dataWindow", "metadata", "channelData"} ->
         {"fileName", "refreshCount", "videoStream", "missingFrameMode", "filterGraph"}
    [] OTHER -> {}

HashesFrame(out) == out \in ImageOutputs \ {"viewNames", "deep"}

(* The hash of an AvReader's output in a context with frame n.  It has      *)
(* nothing of the node itself: equal settings give equal hashes.            *)
AvHash(r, out, n) ==
  <<out, [p \in HashedPlugs(out) |-> plugs[r][p]], IF HashesFrame(out) THEN n ELSE 0>>

-----------------------------------------------------------------------------
(* What an AvReader computes.                                               *)

Unset == [kind |-> "unset", version |-> 0, nb |-> 0, data |-> 0]
Raised(v) == [kind |-> "error", version |-> v, nb |-> 0, data |-> 0]
Default(v) == [kind |-> "default", version |-> v, nb |-> 0, data |-> 0]
Value(v, n, d) == [kind |-> "value", version |-> v, nb |-> n, data |-> d]

(* _retrieveDecoder and _retrieveFrame return nothing without a file name,  *)
(* _retrieveFrame and availableFrames nothing without a stream to look for. *)
NoFile(r) == plugs[r].fileName = ""
NoStream(r) == plugs[r].videoStream = "unparsable"

Decoder(r) == DecoderEntry(plugs[r].filterGraph)

ComputeFileValid(r) ==
  IF NoFile(r) THEN Unset
  ELSE IF Decoder(r).open THEN Value(Decoder(r).version, 0, 0)
  ELSE Raised(Decoder(r).version)

ComputeAvailableFrames(r) ==
  IF NoFile(r) \/ NoStream(r) THEN Unset
  ELSE IF ~Decoder(r).open THEN Raised(Decoder(r).version)
  ELSE IF plugs[r].videoStream # "best" THEN Default(Decoder(r).version)
  ELSE Value(Decoder(r).version, 0, Movies[Decoder(r).version].count)

(* getValue() of availableFrames, which goes through Gaffer's cache.        *)
AvailableFrames(r) ==
  LET k == AvHash(r, "availableFrames", 0)
  IN IF Has(values, k) THEN Entry(values, k).value ELSE ComputeAvailableFrames(r)

FrameOf(r, n) == FrameEntry(plugs[r].filterGraph, plugs[r].videoStream, n)

(* A search that finds the frame after n.                                   *)
HeldFrameAfter(count, n) ==
  IF n < 1 THEN 1 ELSE IF n + 1 <= count THEN n + 1 ELSE count

(* The frame before n among those the decoder says it has, or the first.    *)
HeldFrame(count, n) ==
  IF n <= 1 THEN 1 ELSE IF n - 1 <= count THEN n - 1 ELSE count

(* The missing-frame mode of a retrieval; for "format" black frames hold.   *)
Mode(r, holdForBlack) ==
  IF holdForBlack /\ plugs[r].missingFrameMode = "Black" THEN "Hold"
  ELSE plugs[r].missingFrameMode

Shown(e) == Value(e.version, e.key[3], e.width)

Held(r, n) ==
  LET a == AvailableFrames(r)
      e == FrameOf(r, HeldFrame(a.data, n))
  IN IF a.kind = "error" THEN a
     ELSE IF a.data = 0 \/ e.width = 0 THEN Raised(e.version)
     ELSE Shown(e)

RetrieveFrame(r, n, holdForBlack) ==
  LET e == FrameOf(r, n)
      mode == Mode(r, holdForBlack)
  IN IF NoFile(r) \/ NoStream(r) THEN Unset
     ELSE IF e.width > 0 THEN Shown(e)
     ELSE CASE mode = "Black" -> Default(e.version)
            [] mode = "Hold"  -> Held(r, n)
            [] mode = "Error" -> Raised(e.version)

(* compute(), computeFormat(), computeDataWindow() and so on.  The pixel    *)
(* format is always the same, so channel names and metadata do not tell the *)
(* width; the view names, "deep" and the sample offsets are constants.      *)
AvCompute(r, out, n) ==
  CASE out \in {"fileValid", "probe"} -> ComputeFileValid(r)
    [] out = "availableFrames" -> ComputeAvailableFrames(r)
    [] out = "format" -> RetrieveFrame(r, n, TRUE)
    [] out = "dataWindow" -> RetrieveFrame(r, n, FALSE)
    [] out \in {"metadata", "channelNames"} -> [RetrieveFrame(r, n, FALSE) EXCEPT !.data = 0]
    [] OTHER -> Unset

-----------------------------------------------------------------------------
(* What a MovieReader makes of it.                                          *)

(* Only the format is that of the boundary.                                 *)
ClampBlackFormat(out) == out = "format"

(* Outputs that hold the frame at the boundary where the image is black.    *)
ClampBlack(out) == out \in {"viewNames", "format", "dataWindow", "fileValid"}

FrameMaskMode(r, n) ==
  IF n < plugs[r].startFrame THEN plugs[r].startMode
  ELSE IF n > plugs[r].endFrame THEN plugs[r].endMode
  ELSE "None"

(* Imath::clamp().                                                          *)
Clamp(n, low, high) == IF n < low THEN low ELSE IF n > high THEN high ELSE n

Masked(out) == out \notin {"availableFrames", "probe"}

(* FrameMaskScope: the mode for an output, whether the output is black, and *)
(* the frame it is evaluated at otherwise.                                  *)
ScopeMode(r, out, n) ==
  IF ~Masked(out) THEN "None"
  ELSE IF FrameMaskMode(r, n) = "BlackOutside" /\ ClampBlack(out) THEN "ClampToFrame"
  ELSE FrameMaskMode(r, n)

IsBlack(r, out, n) == ScopeMode(r, out, n) = "BlackOutside"

ScopeFrame(r, out, n) ==
  IF ScopeMode(r, out, n) = "ClampToFrame"
  THEN Clamp(n, plugs[r].startFrame, plugs[r].endFrame)
  ELSE n

Hash(r, out, n) ==
  IF IsBlack(r, out, n) THEN <<out, <<>>, -1>>
  ELSE AvHash(r, out, ScopeFrame(r, out, n))

Compute(r, out, n) ==
  IF IsBlack(r, out, n) THEN Unset
  ELSE AvCompute(r, out, ScopeFrame(r, out, n))

(* getValue() of an output of a MovieReader.                                *)
Pulled(r, out, n) ==
  IF Has(values, Hash(r, out, n)) THEN Entry(values, Hash(r, out, n)).value
  ELSE Compute(r, out, n)
-----------------------------------------------------------------------------
(* Actions.                                                                 *)

NoTile == [phase |-> "none", reader |-> NoReader, n |-> 0, frame |-> Unset]

Init ==
  /\ plugs \in [Readers -> FirstPlugs]
  /\ disk = 1
  /\ decoders = {} /\ frames = {} /\ values = {}
  /\ tile = NoTile
  /\ reloaded = [r \in Readers |-> 1]
  /\ changes = 0

(* The value of a plug is kept unless computing it raised an exception.     *)
Kept(r, k, v) == IF v.kind = "error" THEN {} ELSE {[key |-> k, value |-> v, maker |-> r]}

Holds(r, n, holdForBlack) ==
  FrameOf(r, n).width = 0 /\ Mode(r, holdForBlack) = "Hold"

(* What retrieving frame n puts into the three caches, with the new values. *)
Retrieve(r, n, holdForBlack, new) ==
  LET available == AvailableFrames(r)
      holds == Holds(r, n, holdForBlack)
      asked == {FrameOf(r, n)} \cup
                 (IF holds /\ available.data > 0
                  THEN {FrameOf(r, HeldFrame(available.data, n))} ELSE {})
      pulled == IF holds THEN Kept(r, AvHash(r, "availableFrames", 0), available) ELSE {}
      k == AvHash(r, "availableFrames", 0)
  IN /\ frames' \in Insert(frames, asked, MaxFrames)
     /\ decoders' \in Insert(decoders,
          IF asked \subseteq frames /\ (~holds \/ Has(values, k)) THEN {} ELSE {Decoder(r)},
          MaxDecoders)
     /\ values' \in Insert(values, new \cup (IF Has(values, k) THEN {} ELSE pulled), MaxValues)

(* An output is pulled whose value is not cached; a hit changes nothing,    *)
(* nor does an output that needs no file.                                   *)
PullImage(r) == \E out \in Outputs \cap {"format", "dataWindow", "metadata", "channelNames"},
                  n \in Frames :
  LET v == Compute(r, out, n)
      k == Hash(r, out, n)
  IN /\ ~Has(values, k) /\ v.kind # "unset"
     /\ Retrieve(r, ScopeFrame(r, out, n), out = "format", Kept(r, k, v))
     /\ UNCHANGED <<plugs, disk, tile, reloaded, changes>>

PullFile(r) == \E out \in Outputs \cap {"availableFrames", "fileValid", "probe"}, n \in Frames :
  LET v == Compute(r, out, n)
      k == Hash(r, out, n)
  IN /\ ~Has(values, k) /\ v.kind # "unset"
     /\ decoders' \in Insert(decoders, {Decoder(r)}, MaxDecoders)
     /\ values' \in Insert(values, Kept(r, k, v), MaxValues)
     /\ UNCHANGED <<plugs, disk, frames, tile, reloaded, changes>>

(* computeChannelData, in two steps: it takes the frame, and then the data  *)
(* window from the node's own plug.  Without a frame there is a default     *)
(* tile or an exception.                                                    *)
TakeFrame(r) == \E n \in Frames :
  LET m == ScopeFrame(r, "channelData", n)
      f == RetrieveFrame(r, m, FALSE)
  IN /\ tile = NoTile
     /\ ~IsBlack(r, "channelData", n) /\ f.kind # "unset"
     /\ Retrieve(r, m, FALSE, {})
     /\ tile' = IF f.kind = "value"
                THEN [phase |-> "window", reader |-> r, n |-> m, frame |-> f]
                ELSE NoTile
     /\ UNCHANGED <<plugs, disk, reloaded, changes>>

(* The tile is cut out with the window, unless that is empty or missing:    *)
(* then there is an exception.                                              *)
Window == AvHash(tile.reader, "dataWindow", tile.n)

TakeWindow ==
  LET r == tile.reader
  IN /\ tile.phase = "window"
     /\ IF Has(values, Window) THEN UNCHANGED <<frames, decoders, values>>
        ELSE Retrieve(r, tile.n, FALSE, Kept(r, Window, AvCompute(r, "dataWindow", tile.n)))
     /\ tile' = NoTile
     /\ UNCHANGED <<plugs, disk, reloaded, changes>>

(* The plugs of a reader are set only while nothing computes with them.     *)
Editable(r) == (tile.phase = "window" => tile.reader # r) /\ changes < MaxChanges

(* A refresh that keeps the decoders.                                       *)
RefreshKeepsDecoders(r) ==
  /\ Editable(r)
  /\ plugs' = [plugs EXCEPT ![r].refreshCount = @ + 1]
  /\ frames' = {}
  /\ reloaded' = [reloaded EXCEPT ![r] = disk]
  /\ changes' = changes + 1
  /\ UNCHANGED <<disk, decoders, values, tile>>

(* Setting refreshCount, by one more, clears the frames and the decoders of *)
(* all readers.                                                             *)
Refresh(r) ==
  /\ Editable(r)
  /\ plugs' = [plugs EXCEPT ![r].refreshCount = @ + 1]
  /\ frames' = {} /\ decoders' = {}
  /\ reloaded' = [reloaded EXCEPT ![r] = disk]
  /\ changes' = changes + 1
  /\ UNCHANGED <<disk, values, tile>>

SetFilterGraph(r) == \E f \in Filters \ {plugs[r].filterGraph} :
  /\ Editable(r)
  /\ plugs' = [plugs EXCEPT ![r].filterGraph = f]
  /\ frames' = {}
  /\ changes' = changes + 1
  /\ UNCHANGED <<disk, decoders, values, tile, reloaded>>

(* The other plugs, which have no handler.                                  *)
SetPlugs(r) == \E p \in Settings :
  /\ Editable(r)
  /\ plugs' = [plugs EXCEPT ![r] =
       [p EXCEPT !.refreshCount = plugs[r].refreshCount, !.filterGraph = plugs[r].filterGraph]]
  /\ changes' = changes + 1
  /\ UNCHANGED <<disk, decoders, frames, values, tile, reloaded>>

(* Another file is written in the place of the old one.                     *)
Replace ==
  /\ disk + 1 \in Versions /\ changes < MaxChanges
  /\ disk' = disk + 1
  /\ changes' = changes + 1
  /\ UNCHANGED <<plugs, decoders, frames, values, tile, reloaded>>

Next ==
  \/ \E r \in Readers :
       \/ PullImage(r) \/ PullFile(r) \/ TakeFrame(r)
       \/ Refresh(r) \/ SetFilterGraph(r) \/ SetPlugs(r)
  \/ TakeWindow
  \/ Replace

Spec == Init /\ [][Next]_vars

-----------------------------------------------------------------------------
(* Every variable has a value of its kind; a cache has one entry for a key  *)
(* and no more entries than its limit, and a tile is of a frame.             *)
TypeOK ==
  /\ plugs \in [Readers -> PlugValues]
  /\ disk \in Versions /\ reloaded \in [Readers -> Versions]
  /\ changes \in 0 .. MaxChanges
  /\ \A cache \in {decoders, frames, values} :
       \A e, f \in cache : e.key = f.key => e = f
  /\ Cardinality(decoders) <= MaxDecoders /\ Cardinality(frames) <= MaxFrames
  /\ Cardinality(values) <= MaxValues
  /\ tile # NoTile => tile.reader \in Readers /\ tile.frame.kind = "value"

(* Outputs whose hash leaves out the filter graph their decoder has.        *)
FilterBlind == {"channelNames", "availableFrames", "fileValid", "probe"}

(* A hash says all a value depends on, whatever the plugs were set to in    *)
(* between, by any reader: as long as the file stays as it is, the value    *)
(* kept under a hash is the one that would be computed now (hash, hashX and *)
(* computeX of both nodes).  The exception are outputs that do not hash the *)
(* filter graph: they may differ while it cannot be opened, or when it      *)
(* could not be.                                                            *)
CachedIsCurrent == disk = 1 =>
  \A r \in Readers, out \in Outputs, n \in Frames : Has(values, Hash(r, out, n)) =>
    LET v == Entry(values, Hash(r, out, n)).value
    IN \/ v = Compute(r, out, n)
       \/ out \in FilterBlind /\ (v.kind = "default" \/ ~Decoder(r).open)

(* "May be incremented to force a reload if the file has changed on disk"   *)
(* (MovieReaderUI.py:51-53): after a reader's refresh nothing older than it *)
(* is in the shared caches, nor among the values the reader itself computed *)
(* and would be given for one of its outputs.  Values that another reader   *)
(* computed when its refreshCount was the same may well be older.           *)
ReloadedUnlessShared == \A r \in Readers :
  /\ \A e \in decoders \cup frames : e.version >= reloaded[r]
  /\ \A e \in values : \A out \in Outputs, n \in Frames :
       e.maker = r /\ e.key = Hash(r, out, n) /\ e.value.kind # "unset"
         => e.value.version >= reloaded[r]

(* computeChannelData copies rows of the frame it took as they lie in the   *)
(* data window it asks for afterwards: there is one and it is that of the   *)
(* frame, whatever is set, dropped or cleared in between, if the reader was *)
(* refreshed since the file was replaced and no other reader computed it.   *)
(* After a replacement a reader that holds may have no window: the frame it *)
(* took was found by a count of frames that another reader cached.          *)
TileFitsFrame ==
  LET r == tile.reader
      w == IF Has(values, Window) THEN Entry(values, Window)
           ELSE [value |-> AvCompute(r, "dataWindow", tile.n), maker |-> r]
  IN tile # NoTile /\ reloaded[r] = disk /\ w.maker = r
       => \/ w.value.kind = "value" /\ w.value.data = tile.frame.data
          \/ w.value.kind # "value" /\ plugs[r].missingFrameMode = "Hold" /\ disk > 1

(* Everything cached is of the file as it is on disk.                       *)
AllOfDisk(r) ==
  /\ \A e \in decoders \cup frames : e.version = disk
  /\ AvailableFrames(r).version = disk

(* "It can also hold the last valid frame" (MovieReaderUI.py:69): played    *)
(* forward, a reader that holds frames never goes back and never runs ahead.*)
HoldPlaysForward == \A r \in Readers : plugs[r].missingFrameMode = "Hold" /\ AllOfDisk(r) =>
  \A n, m \in Frames :
    LET now == RetrieveFrame(r, n, FALSE)
        later == RetrieveFrame(r, m, FALSE)
    IN now.kind = "value" =>
         /\ now.nb <= n \/ now.nb = 1
         /\ n <= m /\ later.kind = "value" => now.nb <= later.nb

(* Frames "can be clamped to the start frame, or return a black image which *)
(* matches the data window and display window of the start frame", and so   *)
(* for the end frame (MovieReaderUI.py:86-90): with a range in order, a     *)
(* masked frame shows what the boundary frame shows, or has its windows.    *)
MaskedAsBoundary == \A r \in Readers, n \in Frames, out \in Outputs :
  LET mode == FrameMaskMode(r, n)
      bound == IF n < plugs[r].startFrame THEN plugs[r].startFrame ELSE plugs[r].endFrame
  IN /\ plugs[r].startFrame <= plugs[r].endFrame
     /\ mode # "None" /\ Masked(out)
     => \/ Pulled(r, out, n) = Pulled(r, out, bound)
        \/ mode = "BlackOutside" /\ Pulled(r, out, n) = Unset
           /\ out \notin {"format", "dataWindow"}

=============================================================================
