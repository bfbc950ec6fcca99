-------------------------- MODULE VideoDecoderProofs --------------------------
(***************************************************************************)
(* Theorems about VideoDecoder: type correctness, what the Decoder knows   *)
(* of the streams of the open file, and, for every file whose frames have  *)
(* time stamps the seek target tells apart, that a call never gives the    *)
(* picture of another frame and finds every frame of the stream.           *)
(***************************************************************************)
EXTENDS VideoDecoder, FiniteSetTheorems, WellFoundedInduction, TLAPS

-----------------------------------------------------------------------------
(* The inductive invariant.                                                 *)

DecodePCs == {"seek", "read", "receive", "filter", "pull"}

(* A call that decodes has a stream and a frame of the file.                *)
Called == pc \in DecodePCs => stream \in StreamSet /\ want \in AllFrames

(* Only a frame the target lies in goes into the filter graph, and the loop *)
(* of a new call starts without the flush of the one before.                *)
Filtered == pc = "filter" => picture \in AllFrames /\ Covers(picture)
Restarted == pc \notin {"read", "receive", "filter", "pull"} => ~ flushed

(* How far Open() is: what of the file and its streams is there.            *)
Closed == file = 0 /\ ~ url /\ best = -1 /\ headers = {} /\ streams = NoStream
OpenFileHas(s) ==
  /\ file # 0 /\ url /\ best = Best
  /\ headers = s
  /\ streams = [r \in StreamSet |-> IF r \in s THEN file ELSE 0]
Opened ==
  /\ pc = "open" => Closed
  /\ pc = "openStreams" => OpenFileHas(headers) /\ headers \subseteq StreamSet
  /\ pc \notin {"open", "openStreams"} => Closed \/ OpenFileHas(StreamSet)

(* TypeOK, in the parts the steps change.                                   *)
FileTypes == opens \in Nat /\ file \in 0 .. opens /\ url \in BOOLEAN
BestTypes == best \in Nat \cup {-1}
StreamTypes == streams \in [StreamSet -> Nat] /\ headers \subseteq StreamSet
PositionTypes == position \in 1 .. Len(Packets) + 1
CodecTypes == codec \in [StreamSet -> [held : SUBSET AllFrames, drained : BOOLEAN]]
GraphTypes == graph \in [StreamSet -> Seq(AllFrames)]
LoopTypes ==
  /\ pc \in {"idle", "open", "openStreams", "seek", "read", "receive", "filter", "pull"}
  /\ flushed \in BOOLEAN /\ faulty \in BOOLEAN
  /\ budget \in Nat
ArgumentTypes == stream \in Nat /\ want \in 0 .. FrameCount + 1
FrameTypes == picture \in 0 .. FrameCount /\ result \in 0 .. FrameCount

Types ==
  /\ FileTypes /\ BestTypes /\ StreamTypes
  /\ PositionTypes /\ CodecTypes /\ GraphTypes
  /\ LoopTypes /\ ArgumentTypes /\ FrameTypes

IInv == Types /\ Called /\ Filtered /\ Restarted /\ Opened

(* The frame a call looks for, as long as nothing failed: it is still to be *)
(* read, or in the codec, or in the graph.                                  *)
ToBeRead == \E i \in DOMAIN Packets :
  i >= position /\ Packets[i].stream = stream /\ Packets[i].frame = want
InCodec == want \in codec[stream].held
InGraph == \E i \in 1 .. Len(graph[stream]) : graph[stream][i] = want

Ahead ==
  /\ pc = "read" => ~ flushed /\ (ToBeRead \/ InCodec)
  /\ pc = "receive" => InCodec \/ (~ flushed /\ ToBeRead)
  /\ pc \in {"read", "receive"} => (codec[stream].drained <=> flushed)
  /\ pc = "pull" => InGraph

FindInv == IInv /\ (~ faulty => Ahead)

-----------------------------------------------------------------------------
(* The smallest and the largest element of a set of numbers.                *)

LEMMA MinIsMember ==
  ASSUME NEW S, S \subseteq Nat, S # {}
  PROVE  Min(S) \in S /\ \A x \in S : Min(S) <= x
<1> DEFINE R == {ss \in Nat \X Nat : ss[1] < ss[2]}
<1>1. IsWellFoundedOn(R, Nat)
  BY NatLessThanWellFounded, Zenon DEF OpToRel
<1>2. \E x \in S : \A y \in S : ~ (<<y, x>> \in R)
  <2> HIDE DEF R
  <2> QED BY <1>1, WFMin
<1>3. PICK x \in S : \A y \in S : ~ (<<y, x>> \in R)
  BY <1>2
<1>4. \A y \in S : x <= y
  <2> SUFFICES ASSUME NEW y \in S PROVE x <= y
    OBVIOUS
  <2>1. y < x => <<y, x>> \in R
    OBVIOUS
  <2>2. ~ (y < x)
    BY <1>3, <2>1
  <2> QED BY <2>2
<1> HIDE DEF R
<1>5. \E m \in S : \A y \in S : m =< y
  BY <1>4
<1> QED BY <1>5, Zenon DEF Min

LEMMA MaxIsMember ==
  ASSUME NEW n \in Nat, NEW S, S \subseteq 1 .. n, S # {}
  PROVE  Max(S) \in S /\ \A x \in S : Max(S) >= x
<1> DEFINE T == {n - x : x \in S}
<1>1. T \subseteq Nat /\ T # {}
  OBVIOUS
<1>2. Min(T) \in T /\ \A x \in T : Min(T) <= x
  <2> HIDE DEF T
  <2> QED BY <1>1, MinIsMember
<1>3. PICK m \in S : Min(T) = n - m
  BY <1>2
<1>4. \A x \in S : m >= x
  <2> SUFFICES ASSUME NEW x \in S PROVE m >= x
    OBVIOUS
  <2>1. n - x \in T
    OBVIOUS
  <2>2. n - m <= n - x
    BY <1>2, <1>3, <2>1
  <2> QED BY <2>2
<1>5. \E y \in S : \A x \in S : y >= x
  BY <1>4
<1> QED BY <1>5, Zenon DEF Max

(* The constants, as the steps need them.                                   *)

LEMMA Constants ==
  ASSUME VideoDecoderAssumption
  PROVE  /\ FrameCount \in Nat /\ FrameCount > 0
         /\ Best \in Nat /\ CodecDelay \in Nat /\ Budget \in Nat
         /\ Len(Packets) \in Nat /\ DOMAIN Packets = 1 .. Len(Packets)
         /\ DOMAIN Streams \subseteq Nat
         /\ StreamSet \subseteq Nat
         /\ AllFrames = 1 .. FrameCount
<1>1. Packets \in Seq([stream : Nat, frame : AllFrames, key : BOOLEAN])
  BY DEF VideoDecoderAssumption
<1>2. Len(Packets) \in Nat /\ DOMAIN Packets = 1 .. Len(Packets)
  <2> DEFINE P == [stream : Nat, frame : AllFrames, key : BOOLEAN]
  <2> HIDE DEF P
  <2>1. Packets \in Seq(P)
    BY <1>1 DEF P
  <2> QED BY <2>1
<1>3. Streams \in Seq(Nat)
  BY DEF VideoDecoderAssumption
<1>4. DOMAIN Streams \subseteq Nat /\ StreamSet \subseteq Nat
  BY <1>3 DEF StreamSet
<1>5. FrameCount \in Nat /\ FrameCount > 0
  BY DEF VideoDecoderAssumption
<1>6. Best \in Nat /\ CodecDelay \in Nat /\ Budget \in Nat
  BY DEF VideoDecoderAssumption
<1> QED BY <1>2, <1>4, <1>5, <1>6 DEF AllFrames

LEMMA IndicesAndFrames ==
  ASSUME VideoDecoderAssumption
  PROVE  /\ \A i \in DOMAIN Packets : i \in Nat
         /\ \A f \in AllFrames : f \in Nat \ {0}
<1>1. ASSUME NEW n \in Nat, NEW S, S = 1 .. n, NEW i \in S
      PROVE  i \in Nat \ {0}
  BY <1>1
<1>2. ASSUME NEW i \in DOMAIN Packets PROVE i \in Nat \ {0}
  BY <1>1, <1>2, Constants
<1>3. ASSUME NEW f \in AllFrames PROVE f \in Nat \ {0}
  BY <1>1, <1>3, Constants
<1> QED BY <1>2, <1>3

LEMMA PacketFrames ==
  ASSUME VideoDecoderAssumption, NEW i \in DOMAIN Packets
  PROVE  Packets[i].frame \in AllFrames
<1> DEFINE P == [stream : Nat, frame : AllFrames, key : BOOLEAN]
<1>1. Packets \in Seq(P)
  BY DEF VideoDecoderAssumption
<1>2. Packets[i] \in P
  <2> HIDE DEF P
  <2> QED BY <1>1
<1> QED BY <1>2

(* What the code takes of them: the stream to be opened next, the packet a  *)
(* seek goes to and the frame a codec gives.                                *)

LEMMA NextUnopened ==
  ASSUME VideoDecoderAssumption, Unopened # {}
  PROVE  Streams[Min(Unopened)] \in StreamSet
<1>1. Unopened \subseteq Nat
  BY Constants DEF Unopened
<1>2. Min(Unopened) \in Unopened
  BY <1>1, MinIsMember
<1> QED BY <1>2 DEF Unopened, StreamSet

LEMMA SeekGoesToPoint ==
  ASSUME VideoDecoderAssumption, NEW s, NEW ts, SeekPoints(s, ts) # {}
  PROVE  Max(SeekPoints(s, ts)) \in SeekPoints(s, ts)
<1>1. Len(Packets) \in Nat /\ SeekPoints(s, ts) \subseteq 1 .. Len(Packets)
  BY Constants DEF SeekPoints
<1> DEFINE S == SeekPoints(s, ts)
<1>2. S # {} /\ S \subseteq 1 .. Len(Packets)
  BY <1>1
<1> HIDE DEF S
<1>3. Max(S) \in S
  BY <1>1, <1>2, MaxIsMember
<1> QED BY <1>3 DEF S

LEMMA CodecGivesHeld ==
  ASSUME VideoDecoderAssumption, CodecTypes, stream \in StreamSet, CodecReady
  PROVE  Min(codec[stream].held) \in codec[stream].held
<1>1. codec[stream].held \subseteq AllFrames /\ AllFrames \subseteq Nat
  BY Constants DEF CodecTypes
<1>2. ASSUME codec[stream].held = {} PROVE FALSE
  <2>1. Cardinality(codec[stream].held) = 0
    BY <1>2, FS_EmptySet
  <2> QED BY <2>1, Constants DEF CodecReady
<1> DEFINE S == codec[stream].held
<1>3. S # {} /\ S \subseteq Nat
  BY <1>1, <1>2
<1> HIDE DEF S
<1>4. Min(S) \in S
  BY <1>3, MinIsMember
<1> QED BY <1>4 DEF S

LEMMA DrainedCodecGivesAll ==
  ASSUME VideoDecoderAssumption, CodecTypes, stream \in StreamSet,
         codec[stream].drained, ~ CodecReady
  PROVE  codec[stream].held = {}
<1>1. codec[stream].held \subseteq 1 .. FrameCount /\ FrameCount \in Nat
  BY Constants DEF CodecTypes
<1>2. IsFiniteSet(codec[stream].held)
  <2>1. IsFiniteSet(1 .. FrameCount)
    BY <1>1, FS_Interval
  <2> QED BY <1>1, <2>1, FS_Subset
<1>3. Cardinality(codec[stream].held) \in Nat
  BY <1>2, FS_CardinalityType
<1>4. Cardinality(codec[stream].held) = 0
  BY <1>3 DEF CodecReady
<1> QED BY <1>2, <1>4, FS_EmptySet

-----------------------------------------------------------------------------
(* The invariant is kept.                                                   *)

LEMMA InitialInv == ASSUME VideoDecoderAssumption PROVE Init => IInv
<1> SUFFICES ASSUME Init PROVE IInv
  OBVIOUS
<1>1. FileTypes
  <2>1. opens \in Nat /\ file \in 0 .. opens
    BY DEF Init
  <2>2. url \in BOOLEAN
    BY DEF Init
  <2> QED BY <2>1, <2>2 DEF FileTypes
<1>2. StreamTypes
  BY DEF Init, StreamTypes, NoStream
<1>3. PositionTypes
  BY Constants DEF Init, PositionTypes
<1>4. CodecTypes
  BY DEF Init, CodecTypes, EmptyCodec
<1>5. GraphTypes
  BY DEF Init, GraphTypes
<1>6. LoopTypes
  BY Constants DEF Init, LoopTypes
<1>7. ArgumentTypes
  BY Constants DEF Init, ArgumentTypes
<1>8. FrameTypes
  BY Constants DEF Init, FrameTypes
<1>9. BestTypes
  BY DEF Init, BestTypes
<1>10. Called /\ Filtered /\ Restarted /\ Opened
  BY DEF Init, Called, Filtered, Restarted, Opened, Closed, DecodePCs
<1> QED BY <1>1, <1>2, <1>3, <1>4, <1>5, <1>6, <1>7, <1>8, <1>9, <1>10 DEF IInv, Types

LEMMA OpenKeeps ==
  ASSUME VideoDecoderAssumption, IInv, Open
  PROVE  IInv'
<1>1. FileTypes'
  <2>1. file' = 0 /\ url' = FALSE /\ opens' = opens
    BY DEF Open, CloseImpl
  <2>2. opens' \in Nat /\ file' \in 0 .. opens'
    BY <2>1 DEF IInv, Types, FileTypes
  <2>3. url' \in BOOLEAN
    BY <2>1
  <2> QED BY <2>2, <2>3 DEF FileTypes
<1>2. StreamTypes'
  BY DEF Open, IInv, Types, StreamTypes, fileVars, CloseImpl, NoStream
<1>3. PositionTypes'
  BY DEF Open, IInv, Types, PositionTypes, readVars
<1>4. CodecTypes'
  BY DEF Open, IInv, Types, CodecTypes, readVars
<1>5. GraphTypes'
  BY DEF Open, IInv, Types, GraphTypes, readVars
<1>6. LoopTypes'
  <2>1. pc' = "open" /\ faulty' = FALSE /\ flushed' = flushed
    BY DEF Open, callVars
  <2>2. budget' \in Nat
    BY DEF Open, IInv, Types, LoopTypes
  <2> QED BY <2>1, <2>2 DEF IInv, Types, LoopTypes
<1>7. ArgumentTypes'
  BY DEF Open, IInv, Types, ArgumentTypes, callVars
<1>8. FrameTypes'
  BY DEF Open, IInv, Types, FrameTypes, callVars
<1>9. BestTypes'
  BY DEF Open, IInv, Types, BestTypes, fileVars, CloseImpl
<1>10. Called' /\ Filtered' /\ Restarted'
  BY DEF Open, IInv, Called, Filtered, Restarted, DecodePCs, callVars, Covers, Timestamp
<1>11. Opened'
  BY DEF Open, IInv, Opened, CloseImpl, Closed
<1> QED BY <1>1, <1>2, <1>3, <1>4, <1>5, <1>6, <1>7, <1>8, <1>9, <1>10, <1>11 DEF IInv,
           Types

LEMMA CloseKeeps ==
  ASSUME VideoDecoderAssumption, IInv, Close
  PROVE  IInv'
<1>1. FileTypes'
  <2>1. file' = 0 /\ url' = FALSE /\ opens' = opens
    BY DEF Close, CloseImpl
  <2>2. opens' \in Nat /\ file' \in 0 .. opens'
    BY <2>1 DEF IInv, Types, FileTypes
  <2>3. url' \in BOOLEAN
    BY <2>1
  <2> QED BY <2>2, <2>3 DEF FileTypes
<1>2. StreamTypes'
  BY DEF Close, IInv, Types, StreamTypes, fileVars, CloseImpl, NoStream
<1>3. PositionTypes'
  BY DEF Close, IInv, Types, PositionTypes, readVars
<1>4. CodecTypes'
  BY DEF Close, IInv, Types, CodecTypes, readVars
<1>5. GraphTypes'
  BY DEF Close, IInv, Types, GraphTypes, readVars
<1>6. LoopTypes'
  BY DEF Close, IInv, Types, LoopTypes, callVars
<1>7. ArgumentTypes'
  BY DEF Close, IInv, Types, ArgumentTypes, callVars
<1>8. FrameTypes'
  BY DEF Close, IInv, Types, FrameTypes, callVars
<1>9. BestTypes'
  BY DEF Close, IInv, Types, BestTypes, fileVars, CloseImpl
<1>10. Called' /\ Filtered' /\ Restarted'
  BY DEF Close, IInv, Called, Filtered, Restarted, DecodePCs, callVars, Covers, Timestamp
<1>11. Opened'
  BY DEF Close, IInv, Opened, CloseImpl, Closed, Types, LoopTypes
<1> QED BY <1>1, <1>2, <1>3, <1>4, <1>5, <1>6, <1>7, <1>8, <1>9, <1>10, <1>11 DEF IInv,
           Types

LEMMA DecodeKeeps ==
  ASSUME VideoDecoderAssumption, IInv, Decode
  PROVE  IInv'
<1>1. FileTypes'
  BY DEF Decode, IInv, Types, FileTypes, fileVars
<1>2. StreamTypes'
  BY DEF Decode, IInv, Types, StreamTypes, fileVars
<1>3. PositionTypes'
  BY DEF Decode, IInv, Types, PositionTypes, readVars
<1>4. CodecTypes'
  BY DEF Decode, IInv, Types, CodecTypes, readVars
<1>5. GraphTypes'
  BY DEF Decode, IInv, Types, GraphTypes, readVars
<1>6. LoopTypes'
  <2>1. budget' \in Nat /\ faulty' = FALSE
    BY DEF Decode, IInv, Types, LoopTypes
  <2>2. (pc' = "seek" /\ flushed' = flushed) \/ (pc' = "idle" /\ flushed' = FALSE)
    BY DEF Decode, Returns
  <2> QED BY <2>1, <2>2 DEF IInv, Types, LoopTypes
<1>7. ArgumentTypes'
  BY Constants DEF Decode, IInv, Types, ArgumentTypes, callVars
<1>8. FrameTypes'
  <2>1. (picture' = picture /\ result' = result) \/ (picture' = 0 /\ result' = 0)
    BY DEF Decode, Returns
  <2> QED BY <2>1, Constants DEF IInv, Types, FrameTypes
<1>9. BestTypes'
  BY DEF Decode, IInv, Types, BestTypes, fileVars
<1>10. Called' /\ Filtered' /\ Restarted'
  BY DEF Decode, IInv, Called, Filtered, Restarted, DecodePCs, callVars, Covers, Timestamp,
     Returns
<1>11. Opened'
  BY DEF Decode, IInv, Opened, Closed, OpenFileHas, fileVars, Returns
<1> QED BY <1>1, <1>2, <1>3, <1>4, <1>5, <1>6, <1>7, <1>8, <1>9, <1>10, <1>11 DEF IInv,
           Types

LEMMA OpenFileKeeps ==
  ASSUME VideoDecoderAssumption, IInv, OpenFile
  PROVE  IInv'
<1>1. FileTypes'
  BY DEF OpenFile, IInv, Types, FileTypes, fileVars
<1>2. StreamTypes'
  BY DEF OpenFile, IInv, Types, StreamTypes, fileVars
<1>3. PositionTypes'
  BY Constants DEF OpenFile, IInv, Types, PositionTypes, readVars
<1>4. CodecTypes'
  BY DEF OpenFile, IInv, Types, CodecTypes, readVars
<1>5. GraphTypes'
  BY DEF OpenFile, IInv, Types, GraphTypes, readVars
<1>6. LoopTypes'
  BY DEF OpenFile, IInv, Types, LoopTypes, callVars
<1>7. ArgumentTypes'
  BY DEF OpenFile, IInv, Types, ArgumentTypes, callVars
<1>8. FrameTypes'
  BY DEF OpenFile, IInv, Types, FrameTypes, callVars
<1>9. BestTypes'
  BY Constants DEF OpenFile, IInv, Types, BestTypes, fileVars
<1>10. Called' /\ Filtered' /\ Restarted'
  BY DEF OpenFile, IInv, Called, Filtered, Restarted, DecodePCs, callVars, Covers, Timestamp
<1>11. Opened'
  BY DEF OpenFile, IInv, Opened, Closed, OpenFileHas, Types, FileTypes, StreamTypes,
     fileVars, NoStream
<1> QED BY <1>1, <1>2, <1>3, <1>4, <1>5, <1>6, <1>7, <1>8, <1>9, <1>10, <1>11 DEF IInv,
           Types

LEMMA OpenStreamKeeps ==
  ASSUME VideoDecoderAssumption, IInv, OpenStream
  PROVE  IInv'
<1>0. Streams[Min(Unopened)] \in StreamSet
  BY NextUnopened DEF OpenStream
<1>1. FileTypes'
  BY DEF OpenStream, IInv, Types, FileTypes, fileVars
<1>2. StreamTypes'
  BY <1>0 DEF OpenStream, IInv, Types, StreamTypes, fileVars, FileTypes
<1>3. PositionTypes'
  BY <1>0 DEF OpenStream, IInv, Types, PositionTypes, readVars
<1>4. CodecTypes'
  BY <1>0 DEF OpenStream, IInv, Types, CodecTypes, readVars, EmptyCodec
<1>5. GraphTypes'
  BY <1>0 DEF OpenStream, IInv, Types, GraphTypes, readVars
<1>6. LoopTypes'
  BY DEF OpenStream, IInv, Types, LoopTypes, callVars
<1>7. ArgumentTypes'
  BY DEF OpenStream, IInv, Types, ArgumentTypes, callVars
<1>8. FrameTypes'
  BY DEF OpenStream, IInv, Types, FrameTypes, callVars
<1>9. BestTypes'
  BY DEF OpenStream, IInv, Types, BestTypes, fileVars
<1>10. Called' /\ Filtered' /\ Restarted'
  BY DEF OpenStream, IInv, Called, Filtered, Restarted, DecodePCs, callVars, Covers,
     Timestamp
<1>11. Opened'
  BY <1>0 DEF OpenStream, IInv, Opened, Closed, OpenFileHas, Types, FileTypes, StreamTypes,
     fileVars, NoStream
<1> QED BY <1>1, <1>2, <1>3, <1>4, <1>5, <1>6, <1>7, <1>8, <1>9, <1>10, <1>11 DEF IInv,
           Types

LEMMA OpenSucceedsKeeps ==
  ASSUME VideoDecoderAssumption, IInv, OpenSucceeds
  PROVE  IInv'
<1>1. FileTypes'
  BY DEF OpenSucceeds, IInv, Types, FileTypes, fileVars
<1>2. StreamTypes'
  BY DEF OpenSucceeds, IInv, Types, StreamTypes, fileVars
<1>3. PositionTypes'
  BY DEF OpenSucceeds, IInv, Types, PositionTypes, readVars
<1>4. CodecTypes'
  BY DEF OpenSucceeds, IInv, Types, CodecTypes, readVars
<1>5. GraphTypes'
  BY DEF OpenSucceeds, IInv, Types, GraphTypes, readVars
<1>6. LoopTypes'
  BY DEF OpenSucceeds, IInv, Types, LoopTypes, callVars
<1>7. ArgumentTypes'
  BY DEF OpenSucceeds, IInv, Types, ArgumentTypes, callVars
<1>8. FrameTypes'
  BY DEF OpenSucceeds, IInv, Types, FrameTypes, callVars
<1>9. BestTypes'
  BY DEF OpenSucceeds, IInv, Types, BestTypes, fileVars
<1>10. Called' /\ Filtered' /\ Restarted'
  BY DEF OpenSucceeds, IInv, Called, Filtered, Restarted, DecodePCs, callVars, Covers,
     Timestamp
<1>11. Opened'
  <2>1. OpenFileHas(headers) /\ pc' = "idle"
    BY DEF OpenSucceeds, IInv, Opened
  <2>2. headers = StreamSet
    <3>1. \A s \in StreamSet : streams[s] # 0
      BY DEF OpenSucceeds, Unopened, StreamSet
    <3> QED BY <2>1, <3>1 DEF OpenFileHas, IInv, Types, StreamTypes
  <2>3. OpenFileHas(StreamSet)
    BY <2>1, <2>2
  <2> QED BY <2>1, <2>3 DEF OpenSucceeds, Opened, OpenFileHas, fileVars
<1> QED BY <1>1, <1>2, <1>3, <1>4, <1>5, <1>6, <1>7, <1>8, <1>9, <1>10, <1>11 DEF IInv,
           Types

LEMMA OpenFailsKeeps ==
  ASSUME VideoDecoderAssumption, IInv, OpenFails
  PROVE  IInv'
<1>1. FileTypes'
  <2>1. file' = 0 /\ url' = FALSE /\ opens' = opens
    BY DEF OpenFails, CloseImpl
  <2>2. opens' \in Nat /\ file' \in 0 .. opens'
    BY <2>1 DEF IInv, Types, FileTypes
  <2>3. url' \in BOOLEAN
    BY <2>1
  <2> QED BY <2>2, <2>3 DEF FileTypes
<1>2. StreamTypes'
  BY DEF OpenFails, IInv, Types, StreamTypes, fileVars, CloseImpl, NoStream
<1>3. PositionTypes'
  BY DEF OpenFails, IInv, Types, PositionTypes, readVars
<1>4. CodecTypes'
  BY DEF OpenFails, IInv, Types, CodecTypes, readVars
<1>5. GraphTypes'
  BY DEF OpenFails, IInv, Types, GraphTypes, readVars
<1>6. LoopTypes'
  BY DEF OpenFails, IInv, Types, LoopTypes, callVars
<1>7. ArgumentTypes'
  BY DEF OpenFails, IInv, Types, ArgumentTypes, callVars
<1>8. FrameTypes'
  BY DEF OpenFails, IInv, Types, FrameTypes, callVars
<1>9. BestTypes'
  BY DEF OpenFails, IInv, Types, BestTypes, fileVars, CloseImpl
<1>10. Called' /\ Filtered' /\ Restarted'
  BY DEF OpenFails, IInv, Called, Filtered, Restarted, DecodePCs, callVars, Covers,
     Timestamp
<1>11. Opened'
  BY DEF OpenFails, IInv, Opened, CloseImpl, Closed
<1> QED BY <1>1, <1>2, <1>3, <1>4, <1>5, <1>6, <1>7, <1>8, <1>9, <1>10, <1>11 DEF IInv,
           Types

LEMMA SeekKeeps ==
  ASSUME VideoDecoderAssumption, IInv, Seek
  PROVE  IInv'
<1>0. Max(SeekPoints(stream, Timestamp)) \in 1 .. Len(Packets)
  <2>1. Max(SeekPoints(stream, Timestamp)) \in SeekPoints(stream, Timestamp)
    BY SeekGoesToPoint DEF Seek
  <2> QED BY <2>1, Constants DEF SeekPoints
<1>1. FileTypes'
  BY DEF Seek, IInv, Types, FileTypes, fileVars
<1>2. StreamTypes'
  BY DEF Seek, IInv, Types, StreamTypes, fileVars
<1>3. PositionTypes'
  BY <1>0, Constants DEF Seek, IInv, Types, PositionTypes, readVars, Called, DecodePCs
<1>4. CodecTypes'
  BY DEF Seek, IInv, Types, CodecTypes, readVars, EmptyCodec, Called, DecodePCs
<1>5. GraphTypes'
  BY DEF Seek, IInv, Types, GraphTypes, readVars
<1>6. LoopTypes'
  BY DEF Seek, IInv, Types, LoopTypes, callVars
<1>7. ArgumentTypes'
  BY DEF Seek, IInv, Types, ArgumentTypes, callVars
<1>8. FrameTypes'
  BY DEF Seek, IInv, Types, FrameTypes, callVars
<1>9. BestTypes'
  BY DEF Seek, IInv, Types, BestTypes, fileVars
<1>10. Called' /\ Filtered' /\ Restarted'
  BY DEF Seek, IInv, Called, Filtered, Restarted, DecodePCs, callVars, Covers, Timestamp
<1>11. Opened'
  BY DEF Seek, IInv, Opened, Closed, OpenFileHas, fileVars
<1> QED BY <1>1, <1>2, <1>3, <1>4, <1>5, <1>6, <1>7, <1>8, <1>9, <1>10, <1>11 DEF IInv,
           Types

LEMMA SeekFailsKeeps ==
  ASSUME VideoDecoderAssumption, IInv, SeekFails
  PROVE  IInv'
<1>1. FileTypes'
  BY DEF SeekFails, IInv, Types, FileTypes, fileVars
<1>2. StreamTypes'
  BY DEF SeekFails, IInv, Types, StreamTypes, fileVars
<1>3. PositionTypes'
  BY DEF SeekFails, IInv, Types, PositionTypes, readVars
<1>4. CodecTypes'
  BY DEF SeekFails, IInv, Types, CodecTypes, readVars
<1>5. GraphTypes'
  BY DEF SeekFails, IInv, Types, GraphTypes, readVars
<1>6. LoopTypes'
  BY DEF SeekFails, IInv, Types, LoopTypes, callVars, Returns
<1>7. ArgumentTypes'
  BY DEF SeekFails, IInv, Types, ArgumentTypes, callVars
<1>8. FrameTypes'
  BY Constants DEF SeekFails, IInv, Types, FrameTypes, callVars, Returns
<1>9. BestTypes'
  BY DEF SeekFails, IInv, Types, BestTypes, fileVars
<1>10. Called' /\ Filtered' /\ Restarted'
  BY DEF SeekFails, IInv, Called, Filtered, Restarted, DecodePCs, callVars, Covers,
     Timestamp, Returns
<1>11. Opened'
  BY DEF SeekFails, IInv, Opened, Closed, OpenFileHas, fileVars, Returns
<1> QED BY <1>1, <1>2, <1>3, <1>4, <1>5, <1>6, <1>7, <1>8, <1>9, <1>10, <1>11 DEF IInv,
           Types

LEMMA ReadPacketKeeps ==
  ASSUME VideoDecoderAssumption, IInv, ReadPacket
  PROVE  IInv'
<1>1. FileTypes'
  BY DEF ReadPacket, IInv, Types, FileTypes, fileVars
<1>2. StreamTypes'
  BY DEF ReadPacket, IInv, Types, StreamTypes, fileVars
<1>3. PositionTypes'
  <2>1. position \in 1 .. Len(Packets) /\ position' = position + 1
    BY Constants DEF ReadPacket
  <2> QED BY <2>1, Constants DEF PositionTypes
<1>4. CodecTypes'
  <2>1. Packets[position].frame \in AllFrames
    BY PacketFrames DEF ReadPacket
  <2> DEFINE f == Packets[position].frame
  <2> HIDE DEF f
  <2>2. codec' = codec \/ codec' = [codec EXCEPT ![stream].held = @ \cup {f}]
    BY DEF ReadPacket, f
  <2>3. f \in AllFrames
    BY <2>1 DEF f
  <2>4. stream \in StreamSet /\ CodecTypes
    BY DEF ReadPacket, IInv, Types, Called, DecodePCs
  <2> DEFINE c == [codec[stream] EXCEPT !.held = @ \cup {f}]
  <2>5. c \in [held : SUBSET AllFrames, drained : BOOLEAN]
    BY <2>3, <2>4 DEF CodecTypes
  <2>6. codec' = codec \/ codec' = [codec EXCEPT ![stream] = c]
    BY <2>2
  <2> HIDE DEF c
  <2> QED BY <2>4, <2>5, <2>6 DEF CodecTypes
<1>5. GraphTypes'
  BY DEF ReadPacket, IInv, Types, GraphTypes, readVars
<1>6. LoopTypes'
  BY DEF ReadPacket, IInv, Types, LoopTypes, callVars
<1>7. ArgumentTypes'
  BY DEF ReadPacket, IInv, Types, ArgumentTypes, callVars
<1>8. FrameTypes'
  BY DEF ReadPacket, IInv, Types, FrameTypes, callVars
<1>9. BestTypes'
  BY DEF ReadPacket, IInv, Types, BestTypes, fileVars
<1>10. Called' /\ Filtered' /\ Restarted'
  BY DEF ReadPacket, IInv, Called, Filtered, Restarted, DecodePCs, callVars, Covers,
     Timestamp, Types, LoopTypes
<1>11. Opened'
  BY DEF ReadPacket, IInv, Opened, Closed, OpenFileHas, fileVars
<1> QED BY <1>1, <1>2, <1>3, <1>4, <1>5, <1>6, <1>7, <1>8, <1>9, <1>10, <1>11 DEF IInv,
           Types

LEMMA DrainAtEndKeeps ==
  ASSUME VideoDecoderAssumption, IInv, DrainAtEnd
  PROVE  IInv'
<1>1. FileTypes'
  BY DEF DrainAtEnd, IInv, Types, FileTypes, fileVars
<1>2. StreamTypes'
  BY DEF DrainAtEnd, IInv, Types, StreamTypes, fileVars
<1>3. PositionTypes'
  BY DEF DrainAtEnd, IInv, Types, PositionTypes, readVars
<1>4. CodecTypes'
  BY DEF DrainAtEnd, IInv, Types, CodecTypes, readVars, Called, DecodePCs
<1>5. GraphTypes'
  BY DEF DrainAtEnd, IInv, Types, GraphTypes, readVars
<1>6. LoopTypes'
  BY DEF DrainAtEnd, IInv, Types, LoopTypes, callVars
<1>7. ArgumentTypes'
  BY DEF DrainAtEnd, IInv, Types, ArgumentTypes, callVars
<1>8. FrameTypes'
  BY DEF DrainAtEnd, IInv, Types, FrameTypes, callVars
<1>9. BestTypes'
  BY DEF DrainAtEnd, IInv, Types, BestTypes, fileVars
<1>10. Called' /\ Filtered' /\ Restarted'
  BY DEF DrainAtEnd, IInv, Called, Filtered, Restarted, DecodePCs, callVars, Covers,
     Timestamp
<1>11. Opened'
  BY DEF DrainAtEnd, IInv, Opened, Closed, OpenFileHas, fileVars
<1> QED BY <1>1, <1>2, <1>3, <1>4, <1>5, <1>6, <1>7, <1>8, <1>9, <1>10, <1>11 DEF IInv,
           Types

LEMMA SendFailsKeeps ==
  ASSUME VideoDecoderAssumption, IInv, SendFails
  PROVE  IInv'
<1>1. FileTypes'
  BY DEF SendFails, IInv, Types, FileTypes, fileVars
<1>2. StreamTypes'
  BY DEF SendFails, IInv, Types, StreamTypes, fileVars
<1>3. PositionTypes'
  BY DEF SendFails, IInv, Types, PositionTypes, readVars
<1>4. CodecTypes'
  BY DEF SendFails, IInv, Types, CodecTypes, readVars
<1>5. GraphTypes'
  BY DEF SendFails, IInv, Types, GraphTypes, readVars
<1>6. LoopTypes'
  BY DEF SendFails, IInv, Types, LoopTypes, callVars, Returns
<1>7. ArgumentTypes'
  BY DEF SendFails, IInv, Types, ArgumentTypes, callVars
<1>8. FrameTypes'
  BY Constants DEF SendFails, IInv, Types, FrameTypes, callVars, Returns
<1>9. BestTypes'
  BY DEF SendFails, IInv, Types, BestTypes, fileVars
<1>10. Called' /\ Filtered' /\ Restarted'
  BY DEF SendFails, IInv, Called, Filtered, Restarted, DecodePCs, callVars, Covers,
     Timestamp, Returns
<1>11. Opened'
  BY DEF SendFails, IInv, Opened, Closed, OpenFileHas, fileVars, Returns
<1> QED BY <1>1, <1>2, <1>3, <1>4, <1>5, <1>6, <1>7, <1>8, <1>9, <1>10, <1>11 DEF IInv,
           Types

LEMMA ReceiveFrameKeeps ==
  ASSUME VideoDecoderAssumption, IInv, ReceiveFrame
  PROVE  IInv'
<1>0. Min(codec[stream].held) \in codec[stream].held
  BY CodecGivesHeld DEF ReceiveFrame, IInv, Types, Called, DecodePCs
<1>1. FileTypes'
  BY DEF ReceiveFrame, IInv, Types, FileTypes, fileVars
<1>2. StreamTypes'
  BY DEF ReceiveFrame, IInv, Types, StreamTypes, fileVars
<1>3. PositionTypes'
  BY DEF ReceiveFrame, IInv, Types, PositionTypes, readVars
<1>4. CodecTypes'
  BY <1>0 DEF ReceiveFrame, IInv, Types, CodecTypes, readVars, Called, DecodePCs
<1>5. GraphTypes'
  BY DEF ReceiveFrame, IInv, Types, GraphTypes, readVars
<1>6. LoopTypes'
  BY DEF ReceiveFrame, IInv, Types, LoopTypes, callVars
<1>7. ArgumentTypes'
  BY DEF ReceiveFrame, IInv, Types, ArgumentTypes, callVars
<1>8. FrameTypes'
  <2>1. codec[stream].held \subseteq AllFrames
    BY DEF ReceiveFrame, IInv, Types, CodecTypes, Called, DecodePCs
  <2>2. Min(codec[stream].held) \in 0 .. FrameCount
    BY <1>0, <2>1, Constants
  <2>3. picture' \in {picture, Min(codec[stream].held)} /\ result' = result
    BY DEF ReceiveFrame
  <2> QED BY <2>2, <2>3 DEF IInv, Types, FrameTypes
<1>9. BestTypes'
  BY DEF ReceiveFrame, IInv, Types, BestTypes, fileVars
<1>10. Called' /\ Filtered' /\ Restarted'
  BY <1>0 DEF ReceiveFrame, IInv, Called, Filtered, Restarted, DecodePCs, callVars, Covers,
     Timestamp, Types, LoopTypes, CodecTypes
<1>11. Opened'
  BY DEF ReceiveFrame, IInv, Opened, Closed, OpenFileHas, fileVars
<1> QED BY <1>1, <1>2, <1>3, <1>4, <1>5, <1>6, <1>7, <1>8, <1>9, <1>10, <1>11 DEF IInv,
           Types

LEMMA ReceiveNothingKeeps ==
  ASSUME VideoDecoderAssumption, IInv, ReceiveNothing
  PROVE  IInv'
<1>1. FileTypes'
  BY DEF ReceiveNothing, IInv, Types, FileTypes, fileVars
<1>2. StreamTypes'
  BY DEF ReceiveNothing, IInv, Types, StreamTypes, fileVars
<1>3. PositionTypes'
  BY DEF ReceiveNothing, IInv, Types, PositionTypes, readVars
<1>4. CodecTypes'
  BY DEF ReceiveNothing, IInv, Types, CodecTypes, readVars
<1>5. GraphTypes'
  BY DEF ReceiveNothing, IInv, Types, GraphTypes, readVars
<1>6. LoopTypes'
  BY DEF ReceiveNothing, IInv, Types, LoopTypes, callVars
<1>7. ArgumentTypes'
  BY DEF ReceiveNothing, IInv, Types, ArgumentTypes, callVars
<1>8. FrameTypes'
  BY DEF ReceiveNothing, IInv, Types, FrameTypes, callVars
<1>9. BestTypes'
  BY DEF ReceiveNothing, IInv, Types, BestTypes, fileVars
<1>10. Called' /\ Filtered' /\ Restarted'
  BY DEF ReceiveNothing, IInv, Called, Filtered, Restarted, DecodePCs, callVars, Covers,
     Timestamp
<1>11. Opened'
  BY DEF ReceiveNothing, IInv, Opened, Closed, OpenFileHas, fileVars
<1> QED BY <1>1, <1>2, <1>3, <1>4, <1>5, <1>6, <1>7, <1>8, <1>9, <1>10, <1>11 DEF IInv,
           Types

LEMMA ReceiveFailsKeeps ==
  ASSUME VideoDecoderAssumption, IInv, ReceiveFails
  PROVE  IInv'
<1>1. FileTypes'
  BY DEF ReceiveFails, IInv, Types, FileTypes, fileVars
<1>2. StreamTypes'
  BY DEF ReceiveFails, IInv, Types, StreamTypes, fileVars
<1>3. PositionTypes'
  BY DEF ReceiveFails, IInv, Types, PositionTypes, readVars
<1>4. CodecTypes'
  BY DEF ReceiveFails, IInv, Types, CodecTypes, readVars
<1>5. GraphTypes'
  BY DEF ReceiveFails, IInv, Types, GraphTypes, readVars
<1>6. LoopTypes'
  BY DEF ReceiveFails, IInv, Types, LoopTypes, callVars, Returns
<1>7. ArgumentTypes'
  BY DEF ReceiveFails, IInv, Types, ArgumentTypes, callVars
<1>8. FrameTypes'
  BY Constants DEF ReceiveFails, IInv, Types, FrameTypes, callVars, Returns
<1>9. BestTypes'
  BY DEF ReceiveFails, IInv, Types, BestTypes, fileVars
<1>10. Called' /\ Filtered' /\ Restarted'
  BY DEF ReceiveFails, IInv, Called, Filtered, Restarted, DecodePCs, callVars, Covers,
     Timestamp, Returns
<1>11. Opened'
  BY DEF ReceiveFails, IInv, Opened, Closed, OpenFileHas, fileVars, Returns
<1> QED BY <1>1, <1>2, <1>3, <1>4, <1>5, <1>6, <1>7, <1>8, <1>9, <1>10, <1>11 DEF IInv,
           Types

LEMMA NotFoundKeeps ==
  ASSUME VideoDecoderAssumption, IInv, NotFound
  PROVE  IInv'
<1>1. FileTypes'
  BY DEF NotFound, IInv, Types, FileTypes, fileVars
<1>2. StreamTypes'
  BY DEF NotFound, IInv, Types, StreamTypes, fileVars
<1>3. PositionTypes'
  BY DEF NotFound, IInv, Types, PositionTypes, readVars
<1>4. CodecTypes'
  BY DEF NotFound, IInv, Types, CodecTypes, readVars
<1>5. GraphTypes'
  BY DEF NotFound, IInv, Types, GraphTypes, readVars
<1>6. LoopTypes'
  BY DEF NotFound, IInv, Types, LoopTypes, callVars, Returns
<1>7. ArgumentTypes'
  BY DEF NotFound, IInv, Types, ArgumentTypes, callVars
<1>8. FrameTypes'
  BY Constants DEF NotFound, IInv, Types, FrameTypes, callVars, Returns
<1>9. BestTypes'
  BY DEF NotFound, IInv, Types, BestTypes, fileVars
<1>10. Called' /\ Filtered' /\ Restarted'
  BY DEF NotFound, IInv, Called, Filtered, Restarted, DecodePCs, callVars, Covers,
     Timestamp, Returns
<1>11. Opened'
  BY DEF NotFound, IInv, Opened, Closed, OpenFileHas, fileVars, Returns
<1> QED BY <1>1, <1>2, <1>3, <1>4, <1>5, <1>6, <1>7, <1>8, <1>9, <1>10, <1>11 DEF IInv,
           Types

LEMMA PushFrameKeeps ==
  ASSUME VideoDecoderAssumption, IInv, PushFrame
  PROVE  IInv'
<1>1. FileTypes'
  BY DEF PushFrame, IInv, Types, FileTypes, fileVars
<1>2. StreamTypes'
  BY DEF PushFrame, IInv, Types, StreamTypes, fileVars
<1>3. PositionTypes'
  BY DEF PushFrame, IInv, Types, PositionTypes, readVars
<1>4. CodecTypes'
  BY DEF PushFrame, IInv, Types, CodecTypes, readVars
<1>5. GraphTypes'
  BY DEF PushFrame, IInv, Types, GraphTypes, readVars, Called, DecodePCs, Filtered
<1>6. LoopTypes'
  BY DEF PushFrame, IInv, Types, LoopTypes, callVars
<1>7. ArgumentTypes'
  BY DEF PushFrame, IInv, Types, ArgumentTypes, callVars
<1>8. FrameTypes'
  BY DEF PushFrame, IInv, Types, FrameTypes, callVars
<1>9. BestTypes'
  BY DEF PushFrame, IInv, Types, BestTypes, fileVars
<1>10. Called' /\ Filtered' /\ Restarted'
  BY DEF PushFrame, IInv, Called, Filtered, Restarted, DecodePCs, callVars, Covers,
     Timestamp
<1>11. Opened'
  BY DEF PushFrame, IInv, Opened, Closed, OpenFileHas, fileVars
<1> QED BY <1>1, <1>2, <1>3, <1>4, <1>5, <1>6, <1>7, <1>8, <1>9, <1>10, <1>11 DEF IInv,
           Types

LEMMA PullFrameKeeps ==
  ASSUME VideoDecoderAssumption, IInv, PullFrame
  PROVE  IInv'
<1>1. FileTypes'
  BY DEF PullFrame, IInv, Types, FileTypes, fileVars
<1>2. StreamTypes'
  BY DEF PullFrame, IInv, Types, StreamTypes, fileVars
<1>3. PositionTypes'
  BY DEF PullFrame, IInv, Types, PositionTypes, readVars
<1>4. CodecTypes'
  BY DEF PullFrame, IInv, Types, CodecTypes, readVars
<1>5. GraphTypes'
  BY DEF PullFrame, IInv, Types, GraphTypes, readVars, Called, DecodePCs
<1>6. LoopTypes'
  BY DEF PullFrame, IInv, Types, LoopTypes, callVars, Returns
<1>7. ArgumentTypes'
  BY DEF PullFrame, IInv, Types, ArgumentTypes, callVars
<1>8. FrameTypes'
  <2>1. graph[stream] \in Seq(AllFrames) /\ graph[stream] # <<>>
    BY DEF PullFrame, IInv, Types, GraphTypes, Called, DecodePCs
  <2>2. Head(graph[stream]) \in AllFrames
    BY <2>1
  <2>4. (picture' = picture /\ result' = result)
          \/ (picture' = 0 /\ result' = Head(graph[stream]))
    BY DEF PullFrame, Returns
  <2>5. FrameTypes /\ 0 \in 0 .. FrameCount
    BY Constants DEF IInv, Types
  <2> DEFINE h == Head(graph[stream])
  <2> HIDE DEF h
  <2>3. h \in AllFrames
    BY <2>2 DEF h
  <2>6. h \in 0 .. FrameCount
    BY <2>3, Constants
  <2>7. (picture' = picture /\ result' = result) \/ (picture' = 0 /\ result' = h)
    BY <2>4 DEF h
  <2> QED BY <2>5, <2>6, <2>7 DEF FrameTypes
<1>9. BestTypes'
  BY DEF PullFrame, IInv, Types, BestTypes, fileVars
<1>10. Called' /\ Filtered' /\ Restarted'
  BY DEF PullFrame, IInv, Called, Filtered, Restarted, DecodePCs, callVars, Covers,
     Timestamp, Returns
<1>11. Opened'
  BY DEF PullFrame, IInv, Opened, Closed, OpenFileHas, fileVars, Returns
<1> QED BY <1>1, <1>2, <1>3, <1>4, <1>5, <1>6, <1>7, <1>8, <1>9, <1>10, <1>11 DEF IInv,
           Types

LEMMA PullNothingKeeps ==
  ASSUME VideoDecoderAssumption, IInv, PullNothing
  PROVE  IInv'
<1>1. FileTypes'
  BY DEF PullNothing, IInv, Types, FileTypes, fileVars
<1>2. StreamTypes'
  BY DEF PullNothing, IInv, Types, StreamTypes, fileVars
<1>3. PositionTypes'
  BY DEF PullNothing, IInv, Types, PositionTypes, readVars
<1>4. CodecTypes'
  BY DEF PullNothing, IInv, Types, CodecTypes, readVars
<1>5. GraphTypes'
  BY DEF PullNothing, IInv, Types, GraphTypes, readVars
<1>6. LoopTypes'
  BY DEF PullNothing, IInv, Types, LoopTypes, callVars
<1>7. ArgumentTypes'
  BY DEF PullNothing, IInv, Types, ArgumentTypes, callVars
<1>8. FrameTypes'
  BY DEF PullNothing, IInv, Types, FrameTypes, callVars
<1>9. BestTypes'
  BY DEF PullNothing, IInv, Types, BestTypes, fileVars
<1>10. Called' /\ Filtered' /\ Restarted'
  BY DEF PullNothing, IInv, Called, Filtered, Restarted, DecodePCs, callVars, Covers,
     Timestamp
<1>11. Opened'
  BY DEF PullNothing, IInv, Opened, Closed, OpenFileHas, fileVars
<1> QED BY <1>1, <1>2, <1>3, <1>4, <1>5, <1>6, <1>7, <1>8, <1>9, <1>10, <1>11 DEF IInv,
           Types

LEMMA FilterFailsKeeps ==
  ASSUME VideoDecoderAssumption, IInv, FilterFails
  PROVE  IInv'
<1>1. FileTypes'
  BY DEF FilterFails, IInv, Types, FileTypes, fileVars
<1>2. StreamTypes'
  BY DEF FilterFails, IInv, Types, StreamTypes, fileVars
<1>3. PositionTypes'
  BY DEF FilterFails, IInv, Types, PositionTypes, readVars
<1>4. CodecTypes'
  BY DEF FilterFails, IInv, Types, CodecTypes, readVars
<1>5. GraphTypes'
  <2>1. stream \in StreamSet /\ graph[stream] \in Seq(AllFrames)
    BY DEF FilterFails, IInv, Types, GraphTypes, Called, DecodePCs
  <2>2. graph' = graph
          \/ (graph[stream] # <<>> /\ graph' = [graph EXCEPT ![stream] = Tail(@)])
    BY DEF FilterFails
  <2>3. graph[stream] # <<>> => Tail(graph[stream]) \in Seq(AllFrames)
    BY <2>1
  <2>4. GraphTypes
    BY DEF IInv, Types
  <2> DEFINE rest == Tail(graph[stream])
  <2> HIDE DEF rest
  <2>5. graph' = graph
          \/ (rest \in Seq(AllFrames) /\ graph' = [graph EXCEPT ![stream] = rest])
    BY <2>2, <2>3 DEF rest
  <2> QED BY <2>4, <2>5 DEF GraphTypes
<1>6. LoopTypes'
  BY DEF FilterFails, IInv, Types, LoopTypes, callVars, Returns
<1>7. ArgumentTypes'
  BY DEF FilterFails, IInv, Types, ArgumentTypes, callVars
<1>8. FrameTypes'
  BY Constants DEF FilterFails, IInv, Types, FrameTypes, callVars, Returns
<1>9. BestTypes'
  BY DEF FilterFails, IInv, Types, BestTypes, fileVars
<1>10. Called' /\ Filtered' /\ Restarted'
  BY DEF FilterFails, IInv, Called, Filtered, Restarted, DecodePCs, callVars, Covers,
     Timestamp, Returns
<1>11. Opened'
  BY DEF FilterFails, IInv, Opened, Closed, OpenFileHas, fileVars, Returns
<1> QED BY <1>1, <1>2, <1>3, <1>4, <1>5, <1>6, <1>7, <1>8, <1>9, <1>10, <1>11 DEF IInv,
           Types

LEMMA NextActions ==
  ASSUME Next
  PROVE  \/ Open \/ Close \/ Decode
         \/ OpenFile \/ OpenStream \/ OpenSucceeds \/ OpenFails
         \/ Seek \/ SeekFails
         \/ ReadPacket \/ DrainAtEnd \/ SendFails
         \/ ReceiveFrame \/ ReceiveNothing \/ ReceiveFails \/ NotFound
         \/ PushFrame \/ PullFrame \/ PullNothing \/ FilterFails
BY DEF Next, OpenStep, DecodeStep

LEMMA StutterKeeps ==
  ASSUME IInv, UNCHANGED vars
  PROVE  IInv'
<1>1. Types'
  BY DEF IInv, Types, FileTypes, BestTypes, StreamTypes, PositionTypes, CodecTypes,
         GraphTypes, LoopTypes, ArgumentTypes, FrameTypes, vars, fileVars, readVars, callVars
<1>2. Called' /\ Filtered' /\ Restarted' /\ Opened'
  BY DEF IInv, Called, Filtered, Restarted, Opened, Closed, OpenFileHas, Covers, Timestamp,
         vars, fileVars, readVars, callVars
<1> QED BY <1>1, <1>2 DEF IInv

LEMMA StepKeepsInv ==
  ASSUME VideoDecoderAssumption, IInv, [Next]_vars
  PROVE  IInv'
BY NextActions, StutterKeeps, OpenKeeps, CloseKeeps, DecodeKeeps, OpenFileKeeps,
   OpenStreamKeeps, OpenSucceedsKeeps, OpenFailsKeeps, SeekKeeps, SeekFailsKeeps,
   ReadPacketKeeps, DrainAtEndKeeps, SendFailsKeeps, ReceiveFrameKeeps, ReceiveNothingKeeps,
   ReceiveFailsKeeps, NotFoundKeeps, PushFrameKeeps, PullFrameKeeps, PullNothingKeeps,
   FilterFailsKeeps

THEOREM Invariant == ASSUME VideoDecoderAssumption PROVE Spec => []IInv
BY InitialInv, StepKeepsInv, PTL DEF Spec

-----------------------------------------------------------------------------
(* The invariant gives what the properties say of a state.                  *)

(* TypeOK holds for every file, whatever fails.                             *)
THEOREM TypeCorrect == ASSUME VideoDecoderAssumption PROVE Spec => []TypeOK
<1>1. IInv => TypeOK
  BY Zenon DEF IInv, Types, FileTypes, BestTypes, StreamTypes, PositionTypes, CodecTypes,
         GraphTypes, LoopTypes, ArgumentTypes, FrameTypes, TypeOK
<1> QED BY <1>1, Invariant, PTL

(* The streams of a Decoder are those of the file that is open, all of them *)
(* or none, after every sequence of Open(), which may fail at any point,    *)
(* Close() and DecodeVideoFrame() (decoder.cpp:362-503).                    *)
THEOREM StreamsAreOfOpenFile ==
  ASSUME VideoDecoderAssumption PROVE Spec => []StreamsOfOpenFile
<1>1. ASSUME IInv PROVE StreamsOfOpenFile
  <2>1. headers \subseteq StreamSet /\ (Closed \/ OpenFileHas(headers))
    BY <1>1 DEF IInv, Types, StreamTypes, LoopTypes, Opened, Closed, OpenFileHas
  <2>2. \A s \in StreamSet : streams[s] \in {0, file}
    BY <2>1 DEF Closed, OpenFileHas, NoStream
  <2>3. headers = {s \in StreamSet : streams[s] # 0}
    BY <2>1 DEF Closed, OpenFileHas, NoStream
  <2>4. ASSUME pc \notin {"open", "openStreams"}
        PROVE  /\ url <=> (file # 0)
               /\ headers = (IF url THEN StreamSet ELSE {})
               /\ best = (IF url THEN Best ELSE -1)
    BY <1>1, <2>4 DEF IInv, Opened, Closed, OpenFileHas
  <2> QED BY <2>2, <2>3, <2>4 DEF StreamsOfOpenFile
<1> QED BY <1>1, Invariant, PTL

-----------------------------------------------------------------------------
(* What a call returns.                                                     *)

LEMMA OnlyTheWantedIsCovered ==
  ASSUME TargetsTellFramesApart, want \in AllFrames, NEW f \in AllFrames
  PROVE  Covers(f) <=> f = want
BY DEF TargetsTellFramesApart, Covers, Timestamp

LEMMA GraphHeadAndTail ==
  ASSUME IInv, pc = "pull", graph[stream] # <<>>
  PROVE  /\ Head(graph[stream]) \in AllFrames
         /\ Len(graph[stream]) \in Nat \ {0}
         /\ Head(graph[stream]) = graph[stream][1]
         /\ Len(Tail(graph[stream])) = Len(graph[stream]) - 1
         /\ \A i \in 1 .. Len(graph[stream]) - 1 :
              Tail(graph[stream])[i] = graph[stream][i + 1]
<1>1. stream \in StreamSet /\ graph[stream] \in Seq(AllFrames)
  BY DEF IInv, Types, GraphTypes, Called, DecodePCs
<1> QED BY <1>1

(* Only the frame that matches is taken out of the graph.                   *)
LEMMA OthersAreNotReturned ==
  ASSUME VideoDecoderAssumption, TargetsTellFramesApart, IInv, Next,
         pc # "idle", pc' = "idle", pc \notin {"open", "openStreams"}
  PROVE  result' = 0 \/ (result' = want /\ PullFrame)
<1>1. CASE PullFrame
  <2>1. Head(graph[stream]) \in AllFrames /\ want \in AllFrames
    BY <1>1, GraphHeadAndTail DEF PullFrame, IInv, Called, DecodePCs
  <2>2. Covers(Head(graph[stream])) /\ result' = Head(graph[stream])
    BY <1>1 DEF PullFrame, Returns
  <2> QED BY <1>1, <2>1, <2>2, OnlyTheWantedIsCovered
<1>2. CASE ~ PullFrame
  <2>1. SeekFails \/ SendFails \/ ReceiveFails \/ NotFound \/ FilterFails
    BY <1>2, NextActions DEF Open, Close, Decode, OpenFile, OpenStream, OpenSucceeds,
       OpenFails, Seek,
       ReadPacket, DrainAtEnd, ReceiveFrame, ReceiveNothing, PushFrame, PullNothing
  <2>2. result' = 0
    BY <2>1 DEF SeekFails, SendFails, ReceiveFails, NotFound, FilterFails, Returns
  <2> QED BY <2>2
<1> QED BY <1>1, <1>2

(* NoOtherFrame: of a file whose frames the targets tell apart, no call     *)
(* returns another frame than the one it was asked for, whatever fails and  *)
(* whatever calls before have left in the codecs and graphs                 *)
(* (decoder.cpp:580-595).                                                   *)
THEOREM NoOtherFrameReturned ==
  ASSUME VideoDecoderAssumption, TargetsTellFramesApart
  PROVE  Spec => NoOtherFrame
<1>1. ASSUME IInv, [Next]_vars
      PROVE  [pc # "idle" /\ pc' = "idle" /\ pc \notin {"open", "openStreams"}
                => result' \in {0, want}]_vars
  BY <1>1, OthersAreNotReturned
<1>2. Spec => [][Next]_vars
  BY DEF Spec
<1> QED BY <1>1, <1>2, Invariant, PTL DEF NoOtherFrame

-----------------------------------------------------------------------------
(* While nothing fails, the frame a call looks for stays ahead.             *)

LEMMA SeekIsBefore ==
  ASSUME VideoDecoderAssumption, KeyFramesLead, IInv, pc = "seek"
  PROVE  /\ SeekPoints(stream, Timestamp) # {}
         /\ \E i \in DOMAIN Packets :
              /\ i >= Max(SeekPoints(stream, Timestamp))
              /\ Packets[i].stream = stream /\ Packets[i].frame = want
<1>1. stream \in StreamSet /\ want \in AllFrames
  BY DEF IInv, Called, DecodePCs
<1> DEFINE S == SeekPoints(stream, Timestamp)
<1>2. S # {}
  BY <1>1 DEF KeyFramesLead, Timestamp
<1>3. PICK i \in DOMAIN Packets :
        Packets[i].stream = stream /\ Packets[i].frame = want /\ \A j \in S : j <= i
  BY <1>1 DEF KeyFramesLead, Timestamp
<1>4. Max(S) \in S
  BY <1>2, SeekGoesToPoint
<1>5. Max(S) \in DOMAIN Packets /\ Max(S) <= i
  BY <1>3, <1>4 DEF SeekPoints
<1>6. i \in Nat /\ Max(S) \in Nat
  <2> HIDE DEF S
  <2> QED BY <1>3, <1>5, IndicesAndFrames
<1>7. i >= Max(S)
  <2> HIDE DEF S
  <2> QED BY <1>5, <1>6
<1> QED BY <1>2, <1>3, <1>7

LEMMA SeekFinds ==
  ASSUME VideoDecoderAssumption, KeyFramesLead, FindInv, Seek
  PROVE  ~ faulty' => Ahead'
<1>1. /\ position' = Max(SeekPoints(stream, Timestamp))
      /\ pc' = "read" /\ stream' = stream /\ want' = want /\ flushed' = flushed
  BY DEF Seek, callVars
<1>2. PICK i \in DOMAIN Packets :
        /\ i >= Max(SeekPoints(stream, Timestamp))
        /\ Packets[i].stream = stream /\ Packets[i].frame = want
  BY SeekIsBefore DEF Seek, FindInv
<1>3. ToBeRead'
  BY <1>1, <1>2 DEF ToBeRead
<1>4. ~ flushed
  BY DEF Seek, FindInv, IInv, Restarted
<1>5. stream \in StreamSet
  BY DEF Seek, FindInv, IInv, Called, DecodePCs
<1>6. codec'[stream] = EmptyCodec
  BY <1>5 DEF Seek, FindInv, IInv, Types, CodecTypes
<1>7. codec'[stream'].drained = FALSE
  BY <1>1, <1>6 DEF EmptyCodec
<1> QED BY <1>1, <1>3, <1>4, <1>7 DEF Ahead

LEMMA ReadPacketFinds ==
  ASSUME VideoDecoderAssumption, FindInv, ReadPacket
  PROVE  ~ faulty' => Ahead'
<1> DEFINE p == Packets[position]
<1>1. /\ pc = "read" /\ ~ flushed /\ position \in DOMAIN Packets
      /\ position' = position + 1 /\ flushed' = flushed /\ faulty' = faulty
      /\ stream' = stream /\ want' = want
  BY DEF ReadPacket, callVars
<1> SUFFICES ASSUME ~ faulty PROVE Ahead'
  BY <1>1
<1>2. (ToBeRead \/ InCodec) /\ ~ codec[stream].drained
  BY <1>1 DEF FindInv, Ahead
<1>3. stream \in StreamSet /\ CodecTypes
  BY <1>1 DEF FindInv, IInv, Called, DecodePCs, Types
<1>4. ToBeRead => ToBeRead' \/ (p.stream = stream /\ p.frame = want)
  <2> SUFFICES ASSUME ToBeRead PROVE ToBeRead' \/ (p.stream = stream /\ p.frame = want)
    OBVIOUS
  <2>1. PICK i \in DOMAIN Packets :
          i >= position /\ Packets[i].stream = stream /\ Packets[i].frame = want
    BY DEF ToBeRead
  <2>2. i = position \/ i >= position + 1
    BY <1>1, <2>1, Constants
  <2> QED BY <1>1, <2>1, <2>2 DEF ToBeRead
<1>5. CASE p.stream # stream
  <2>1. codec' = codec /\ pc' = pc
    BY <1>5 DEF ReadPacket
  <2>2. InCodec => InCodec'
    BY <1>1, <2>1 DEF InCodec
  <2>3. (ToBeRead' \/ InCodec') /\ ~ codec'[stream'].drained
    BY <1>1, <1>2, <1>4, <1>5, <2>1, <2>2
  <2> QED BY <1>1, <2>1, <2>3 DEF Ahead
<1>6. CASE p.stream = stream
  <2>1. pc' = "receive" /\ codec' = [codec EXCEPT ![stream].held = @ \cup {p.frame}]
    BY <1>6 DEF ReadPacket
  <2> DEFINE f == p.frame
  <2> HIDE DEF p, f
  <2>2. codec' = [codec EXCEPT ![stream].held = @ \cup {f}]
    BY <2>1 DEF f, p
  <2>3. codec'[stream].held = codec[stream].held \cup {f}
          /\ codec'[stream].drained = codec[stream].drained
    BY <1>3, <2>2 DEF CodecTypes
  <2>4. InCodec => InCodec'
    BY <1>1, <2>3 DEF InCodec
  <2>5. p.frame = want => InCodec'
    BY <1>1, <2>3 DEF InCodec, f
  <2>6. (ToBeRead' \/ InCodec') /\ ~ codec'[stream'].drained
    BY <1>1, <1>2, <1>4, <2>3, <2>4, <2>5
  <2> QED BY <1>1, <2>1, <2>6 DEF Ahead
<1> QED BY <1>5, <1>6

LEMMA DrainFinds ==
  ASSUME VideoDecoderAssumption, FindInv, DrainAtEnd
  PROVE  ~ faulty' => Ahead'
<1>1. /\ pc = "read" /\ ~ flushed /\ flushed' = TRUE /\ pc' = "receive"
      /\ stream' = stream /\ want' = want
      /\ faulty' = (faulty \/ position \in DOMAIN Packets)
  BY DEF DrainAtEnd
<1> SUFFICES ASSUME ~ faulty, position \notin DOMAIN Packets PROVE Ahead'
  BY <1>1
<1>2. ToBeRead \/ InCodec
  BY <1>1 DEF FindInv, Ahead
<1>3. stream \in StreamSet /\ CodecTypes /\ PositionTypes
  BY <1>1 DEF FindInv, IInv, Called, DecodePCs, Types
<1>4. ~ ToBeRead
  BY <1>3, Constants DEF ToBeRead, PositionTypes
<1>5. codec' = [codec EXCEPT ![stream].drained = TRUE]
  BY DEF DrainAtEnd
<1>6. codec'[stream].held = codec[stream].held /\ codec'[stream].drained = TRUE
  BY <1>3, <1>5 DEF CodecTypes
<1>7. InCodec'
  BY <1>1, <1>2, <1>4, <1>6 DEF InCodec
<1> QED BY <1>1, <1>6, <1>7 DEF Ahead

LEMMA ReceiveFrameFinds ==
  ASSUME VideoDecoderAssumption, TargetsTellFramesApart, FindInv, ReceiveFrame
  PROVE  ~ faulty' => Ahead'
<1> DEFINE f == Min(codec[stream].held)
<1>1. /\ pc = "receive" /\ position' = position /\ flushed' = flushed
      /\ stream' = stream /\ want' = want /\ faulty' = faulty
      /\ (Covers(f) /\ pc' = "filter") \/ (~ Covers(f) /\ pc' = "receive")
  BY DEF ReceiveFrame
<1> SUFFICES ASSUME ~ faulty, pc' = "receive", ~ Covers(f) PROVE Ahead'
  BY <1>1 DEF Ahead
<1>2. (InCodec \/ (~ flushed /\ ToBeRead)) /\ (codec[stream].drained <=> flushed)
  BY <1>1 DEF FindInv, Ahead
<1>3. stream \in StreamSet /\ want \in AllFrames /\ CodecTypes
  BY <1>1 DEF FindInv, IInv, Called, DecodePCs, Types
<1>4. f \in codec[stream].held
  BY <1>3, CodecGivesHeld DEF ReceiveFrame
<1>5. f \in AllFrames
  BY <1>3, <1>4 DEF CodecTypes
<1>6. f # want
  <2> HIDE DEF f
  <2> QED BY <1>3, <1>5, OnlyTheWantedIsCovered
<1>7. codec' = [codec EXCEPT ![stream].held = @ \ {f}]
  BY DEF ReceiveFrame
<1>8. codec'[stream].held = codec[stream].held \ {f}
        /\ codec'[stream].drained = codec[stream].drained
  <2> HIDE DEF f
  <2> QED BY <1>3, <1>7 DEF CodecTypes
<1>9. InCodec => InCodec'
  <2> HIDE DEF f
  <2> QED BY <1>1, <1>6, <1>8 DEF InCodec
<1>10. ToBeRead => ToBeRead'
  BY <1>1 DEF ToBeRead
<1> QED BY <1>1, <1>2, <1>8, <1>9, <1>10 DEF Ahead

LEMMA ReceiveNothingFinds ==
  ASSUME VideoDecoderAssumption, FindInv, ReceiveNothing
  PROVE  ~ faulty' => Ahead'
<1>1. /\ pc = "receive" /\ pc' = "read" /\ ~ CodecReady
      /\ UNCHANGED <<position, codec, stream, want, flushed, faulty>>
  BY DEF ReceiveNothing, readVars, callVars
<1> SUFFICES ASSUME ~ faulty PROVE Ahead'
  BY <1>1
<1>2. (InCodec \/ (~ flushed /\ ToBeRead)) /\ (codec[stream].drained <=> flushed)
  BY <1>1 DEF FindInv, Ahead
<1>3. stream \in StreamSet /\ CodecTypes
  BY <1>1 DEF FindInv, IInv, Called, DecodePCs, Types
<1>4. codec[stream].drained => ~ InCodec
  BY <1>1, <1>3, DrainedCodecGivesAll DEF InCodec
<1>5. ~ flushed
  BY <1>2, <1>4
<1>6. (ToBeRead => ToBeRead') /\ (InCodec => InCodec')
  BY <1>1 DEF ToBeRead, InCodec
<1> QED BY <1>1, <1>2, <1>5, <1>6 DEF Ahead

LEMMA PushFrameFinds ==
  ASSUME VideoDecoderAssumption, TargetsTellFramesApart, FindInv, PushFrame
  PROVE  ~ faulty' => Ahead'
<1>1. /\ pc = "filter" /\ pc' = "pull" /\ stream' = stream /\ want' = want
      /\ graph' = [graph EXCEPT ![stream] = Append(@, picture)]
  BY DEF PushFrame, callVars
<1>2. /\ stream \in StreamSet /\ want \in AllFrames /\ GraphTypes
      /\ picture \in AllFrames /\ Covers(picture)
  BY <1>1 DEF FindInv, IInv, Called, DecodePCs, Types, Filtered
<1>3. picture = want
  BY <1>2, OnlyTheWantedIsCovered
<1>4. graph[stream] \in Seq(AllFrames)
  BY <1>2 DEF GraphTypes
<1>5. graph'[stream] = Append(graph[stream], picture)
  BY <1>1, <1>2 DEF GraphTypes
<1> DEFINE g == graph[stream]
           n == Len(g) + 1
<1>6. n \in 1 .. Len(Append(g, picture)) /\ Append(g, picture)[n] = picture
  <2> HIDE DEF g
  <2>1. g \in Seq(AllFrames)
    BY <1>4 DEF g
  <2> QED BY <2>1, <1>2
<1>7. InGraph'
  <2> HIDE DEF n
  <2> QED BY <1>1, <1>3, <1>5, <1>6 DEF InGraph
<1> QED BY <1>1, <1>7 DEF Ahead

LEMMA PullFrameFinds ==
  ASSUME VideoDecoderAssumption, TargetsTellFramesApart, FindInv, PullFrame
  PROVE  ~ faulty' => Ahead' /\ (pc' = "idle" => result' = want)
<1> DEFINE f == Head(graph[stream])
<1>1. /\ pc = "pull" /\ graph[stream] # <<>> /\ faulty' = faulty
      /\ stream' = stream /\ want' = want
      /\ graph' = [graph EXCEPT ![stream] = Tail(@)]
      /\ (Covers(f) /\ pc' = "idle" /\ result' = f) \/ (~ Covers(f) /\ pc' = pc)
  BY DEF PullFrame, Returns
<1> SUFFICES ASSUME ~ faulty PROVE Ahead' /\ (pc' = "idle" => result' = want)
  BY <1>1
<1>2. stream \in StreamSet /\ want \in AllFrames /\ GraphTypes /\ IInv
  BY <1>1 DEF FindInv, IInv, Called, DecodePCs, Types
<1>3. f \in AllFrames
  BY <1>1, <1>2, GraphHeadAndTail
<1>4. Covers(f) <=> f = want
  <2> HIDE DEF f
  <2> QED BY <1>2, <1>3, OnlyTheWantedIsCovered
<1>5. CASE f = want
  <2>1. pc' = "idle" /\ result' = want
    BY <1>1, <1>4, <1>5
  <2> QED BY <2>1 DEF Ahead
<1>6. CASE f # want
  <2>1. pc' = "pull"
    BY <1>1, <1>4, <1>6
  <2>2. PICK i \in 1 .. Len(graph[stream]) : graph[stream][i] = want
    BY <1>1 DEF FindInv, Ahead, InGraph
  <2>3. i # 1
    BY <1>1, <1>2, <1>6, <2>2, GraphHeadAndTail
  <2> DEFINE rest == Tail(graph[stream])
  <2>4. i - 1 \in 1 .. Len(rest) /\ rest[i - 1] = want
    <3>1. Len(graph[stream]) \in Nat /\ Len(rest) = Len(graph[stream]) - 1
      BY <1>1, <1>2, GraphHeadAndTail
    <3>2. i - 1 \in 1 .. Len(graph[stream]) - 1 /\ (i - 1) + 1 = i
      BY <2>2, <2>3, <3>1
    <3>3. rest[i - 1] = graph[stream][(i - 1) + 1]
      BY <1>1, <1>2, <3>2, GraphHeadAndTail
    <3> QED BY <2>2, <3>1, <3>2, <3>3
  <2>5. graph'[stream'] = rest
    BY <1>1, <1>2 DEF GraphTypes
  <2>6. InGraph'
    <3> HIDE DEF rest
    <3> QED BY <1>1, <2>4, <2>5 DEF InGraph
  <2> QED BY <2>1, <2>6 DEF Ahead
<1> QED BY <1>5, <1>6

(* A call that ends without a failure has come to the frame it looked for.  *)
LEMMA OthersFind ==
  ASSUME VideoDecoderAssumption, KeyFramesLead, FindInv,
         \/ Open \/ Close \/ Decode \/ OpenFile \/ OpenStream \/ OpenSucceeds \/ OpenFails
         \/ SeekFails \/ SendFails \/ ReceiveFails \/ NotFound \/ PullNothing \/ FilterFails
  PROVE  ~ faulty' => pc' \notin {"read", "receive", "pull"}
                       /\ (pc # "idle" /\ pc' = "idle" => pc \in {"open", "openStreams"})
<1>1. CASE Open \/ Close \/ Decode \/ OpenFile \/ OpenStream \/ OpenSucceeds \/ OpenFails
  BY <1>1 DEF Open, Close, Decode, OpenFile, OpenStream, OpenSucceeds, OpenFails, Returns
<1>2. CASE SeekFails
  BY <1>2, SeekIsBefore DEF SeekFails, FindInv
<1>3. CASE SendFails
  <2>1. ASSUME ~ faulty' PROVE FALSE
    <3>1. pc = "read" /\ ~ flushed /\ ~ faulty /\ codec[stream].drained
      BY <1>3, <2>1 DEF SendFails
    <3> QED BY <3>1 DEF FindInv, Ahead
  <2> QED BY <2>1
<1>4. CASE ReceiveFails \/ PullNothing \/ FilterFails
  BY <1>4 DEF ReceiveFails, PullNothing, FilterFails
<1>5. CASE NotFound
  BY <1>5 DEF NotFound, FindInv, Ahead
<1> QED BY <1>1, <1>2, <1>3, <1>4, <1>5

LEMMA FindInvKept ==
  ASSUME VideoDecoderAssumption, TargetsTellFramesApart, KeyFramesLead, FindInv, [Next]_vars
  PROVE  FindInv'
<1>1. IInv'
  BY StepKeepsInv DEF FindInv
<1>2. ASSUME Next PROVE ~ faulty' => Ahead'
  <2>1. CASE Seek \/ ReadPacket \/ DrainAtEnd \/ ReceiveFrame \/ ReceiveNothing \/ PushFrame
             \/ PullFrame
    BY <2>1, SeekFinds, ReadPacketFinds, DrainFinds, ReceiveFrameFinds, ReceiveNothingFinds,
       PushFrameFinds, PullFrameFinds
  <2>2. CASE ~ (Seek \/ ReadPacket \/ DrainAtEnd \/ ReceiveFrame \/ ReceiveNothing
                \/ PushFrame \/ PullFrame)
    <3>1. ~ faulty' => pc' \notin {"read", "receive", "pull"}
      BY <1>2, <2>2, NextActions, OthersFind
    <3> QED BY <3>1 DEF Ahead
  <2> QED BY <2>1, <2>2
<1>3. ASSUME UNCHANGED vars PROVE ~ faulty' => Ahead'
  BY <1>3 DEF FindInv, Ahead, ToBeRead, InCodec, InGraph, vars, fileVars, readVars, callVars
<1> QED BY <1>1, <1>2, <1>3 DEF FindInv

(* FrameFound: of a file whose frames the targets tell apart and whose key  *)
(* frames lead, a call finds every frame of a stream if libav does not fail *)
(* and the graph holds nothing back, whatever was called before, whatever   *)
(* the order of the packets and whatever the codec holds back to reorder    *)
(* them (decoder.hpp:22-23, decoder.cpp:520-640).                           *)
THEOREM EveryFrameIsFound ==
  ASSUME VideoDecoderAssumption, TargetsTellFramesApart, KeyFramesLead
  PROVE  Spec => FrameFound
<1>1. Init => FindInv
  BY InitialInv DEF FindInv, Ahead, Init
<1>2. FindInv /\ [Next]_vars => FindInv'
  BY FindInvKept
<1>3. ASSUME FindInv, [Next]_vars
      PROVE  [pc # "idle" /\ pc' = "idle" /\ pc \notin {"open", "openStreams"} /\ ~ faulty'
                => result' = want]_vars
  <2> SUFFICES ASSUME Next, pc # "idle", pc' = "idle",
                      pc \notin {"open", "openStreams"}, ~ faulty'
               PROVE  result' = want
    BY <1>3
  <2>1. CASE PullFrame
    BY <1>3, <2>1, PullFrameFinds
  <2>2. CASE ~ PullFrame
    <3>1. ~ (Seek \/ ReadPacket \/ DrainAtEnd \/ ReceiveFrame \/ ReceiveNothing \/ PushFrame)
      BY DEF Seek, ReadPacket, DrainAtEnd, ReceiveFrame, ReceiveNothing, PushFrame
    <3> QED BY <1>3, <2>2, <3>1, NextActions, OthersFind
  <2> QED BY <2>1, <2>2
<1> QED BY <1>1, <1>2, <1>3, PTL DEF Spec, FrameFound

-----------------------------------------------------------------------------
(* The hypothesis on the times holds for every file of constant frame rate  *)
(* whose time base is a multiple of the rate.                               *)

LEMMA QuotientOfProduct ==
  ASSUME NEW a \in Nat, NEW q \in Nat, q > 0
  PROVE  (a * q) \div q = a
OBVIOUS

LEMMA ProductIsPositive ==
  ASSUME NEW a \in Nat \ {0}, NEW b \in Nat \ {0}
  PROVE  a * b \in Nat /\ a * b > 0
OBVIOUS

LEMMA MultiplesApart ==
  ASSUME NEW m \in Nat \ {0}, NEW n \in Nat \ {0}, NEW d \in Nat \ {0}
  PROVE  (m - 1) * d <= (n - 1) * d /\ (n - 1) * d < (m - 1) * d + d <=> m = n
<1>1. ASSUME m < n PROVE ~ ((n - 1) * d < (m - 1) * d + d)
  <2>1. n - 1 >= m /\ n - 1 \in Nat
    BY <1>1
  <2>2. (n - 1) * d >= m * d
    BY <2>1
  <2>3. (m - 1) * d + d = m * d
    OBVIOUS
  <2> QED BY <2>2, <2>3
<1>2. ASSUME n < m PROVE ~ ((m - 1) * d <= (n - 1) * d)
  <2>1. m - 1 >= n /\ (n - 1) * d = n * d - d
    BY <1>2
  <2>2. (m - 1) * d >= n * d
    BY <2>1
  <2>3. n * d \in Nat /\ (m - 1) * d \in Nat
    OBVIOUS
  <2> QED BY <2>1, <2>2, <2>3
<1>3. ASSUME m = n PROVE (m - 1) * d <= (n - 1) * d /\ (n - 1) * d < (m - 1) * d + d
  <2>1. (m - 1) * d \in Nat
    OBVIOUS
  <2> QED BY <1>3, <2>1
<1> QED BY <1>1, <1>2, <1>3

(* With d ticks to a frame, FrameToPts() gives the start of every frame     *)
(* exactly (decoder.cpp:183-189).                                           *)
THEOREM ConstantRateTellsApart ==
  ASSUME VideoDecoderAssumption, NEW d \in Nat \ {0},
         FrameRate[2] * TimeBase[2] = d * (FrameRate[1] * TimeBase[1]),
         \A f \in AllFrames : Pts[f] = StartTime + (f - 1) * d /\ Duration[f] = d
  PROVE  TargetsTellFramesApart
<1> DEFINE q == FrameRate[1] * TimeBase[1]
<1>1. FrameRate[1] \in Nat \ {0} /\ FrameRate[2] \in Nat \ {0}
      /\ TimeBase[1] \in Nat \ {0} /\ TimeBase[2] \in Nat \ {0} /\ StartTime \in Int
  BY DEF VideoDecoderAssumption
<1>2. q \in Nat /\ q > 0
  BY <1>1, ProductIsPositive
<1>3. ASSUME NEW i \in Nat PROVE FrameToPts(i) = StartTime + i * d
  <2>1. i * FrameRate[2] * TimeBase[2] = i * (FrameRate[2] * TimeBase[2])
    BY <1>1
  <2>2. i * (FrameRate[2] * TimeBase[2]) = i * (d * q)
    OBVIOUS
  <2> HIDE DEF q
  <2>3. i * (d * q) = (i * d) * q
    BY <1>2
  <2>4. i * d \in Nat
    OBVIOUS
  <2>5. ((i * d) * q) \div q = i * d
    BY <1>2, <2>4, QuotientOfProduct
  <2> QED BY <2>1, <2>2, <2>3, <2>5 DEF FrameToPts, q
<1>4. ASSUME NEW n \in AllFrames, NEW f \in AllFrames
      PROVE  Pts[f] <= FrameToPts(n - 1) /\ FrameToPts(n - 1) < Pts[f] + Duration[f] <=> f = n
  <2>1. n \in Nat \ {0} /\ f \in Nat \ {0}
    BY <1>4, IndicesAndFrames
  <2>2. FrameToPts(n - 1) = StartTime + (n - 1) * d
    BY <1>3, <2>1
  <2>3. Pts[f] = StartTime + (f - 1) * d /\ Duration[f] = d
    BY <1>4
  <2>4. (f - 1) * d <= (n - 1) * d /\ (n - 1) * d < (f - 1) * d + d <=> f = n
    BY <2>1, MultiplesApart
  <2>5. (f - 1) * d \in Int /\ (n - 1) * d \in Int
    BY <2>1
  <2> DEFINE x == (f - 1) * d
             y == (n - 1) * d
  <2> HIDE DEF x, y
  <2>6. x \in Int /\ y \in Int /\ (x <= y /\ y < x + d <=> f = n)
    BY <2>4, <2>5 DEF x, y
  <2>7. FrameToPts(n - 1) = StartTime + y /\ Pts[f] = StartTime + x /\ Duration[f] = d
    BY <2>2, <2>3 DEF x, y
  <2>8. StartTime \in Int /\ d \in Int
    BY <1>1
  <2>9. /\ StartTime + x <= StartTime + y <=> x <= y
        /\ StartTime + y < StartTime + x + d <=> y < x + d
    BY <2>6, <2>8
  <2> QED BY <2>6, <2>7, <2>9
<1> QED BY <1>4 DEF TargetsTellFramesApart

=============================================================================
