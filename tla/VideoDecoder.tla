----------------------------- MODULE VideoDecoder -----------------------------
(***************************************************************************)
(* ilp_movie::Decoder: opens a movie file, with a codec and a filter graph *)
(* per video stream, and decodes single frames out of order by seeking to  *)
(* the key frame before and decoding forward until the frame comes out.    *)
(* Between two calls a Decoder keeps its read position, and its codecs and *)
(* filter graphs keep the frames that went in and did not come out.        *)
(*                                                                         *)
(* libav is external and modelled by how the code uses it: a demuxer with  *)
(* a read position; codecs that reorder, holding back up to CodecDelay     *)
(* frames, and that refuse packets once drained; filter graphs that are    *)
(* queues and may hold frames back; and every call may fail.               *)
(***************************************************************************)
EXTENDS Integers, Sequences, FiniteSets, FiniteSetsExt

CONSTANTS
  Streams,      (* the video streams, in the order of the file              *)
  Best,         (* the one av_find_best_stream() chooses                    *)
  FrameCount,   (* AVStream::nb_frames                                      *)
  FrameRate,    (* FrameRate and TimeBase: <<numerator, denominator>>       *)
  TimeBase,
  StartTime,    (* AVStream::start_time                                     *)
  Pts,          (* Pts[f]: the time stamp of frame f in the file            *)
  Duration,     (* Duration[f]: its pkt_duration                            *)
  Packets,      (* the packets of the file, in the order they are read      *)
  CodecDelay,   (* how many frames a codec holds back to reorder them       *)
  Budget        (* a bound on the calls of Open, Close and DecodeVideoFrame *)

AllFrames == 1 .. FrameCount

ASSUME VideoDecoderAssumption ==
  /\ Streams \in Seq(Nat)
  /\ Best \in Nat
  /\ FrameCount \in Nat \ {0}
  /\ FrameRate \in (Nat \ {0}) \X (Nat \ {0})
  /\ TimeBase \in (Nat \ {0}) \X (Nat \ {0})
  /\ StartTime \in Int
  /\ Pts \in [AllFrames -> Int] /\ Duration \in [AllFrames -> Nat]
  /\ Packets \in Seq([stream : Nat, frame : AllFrames, key : BOOLEAN])
  /\ CodecDelay \in Nat
  /\ Budget \in Nat

VARIABLES
  file,       (* the number of the AVFormatContext, 0 for none              *)
  streams,    (* streams[s]: the AVFormatContext the Stream of s refers to, *)
              (* 0 if s is not in _video_streams                            *)
  headers,    (* the streams in _video_stream_headers                       *)
  best,       (* _best_video_stream                                         *)
  url,        (* whether _url is set: IsOpen()                              *)
  position,   (* the index of the next packet av_read_frame() returns       *)
  codec,      (* codec[s]: the frames inside, and whether it is drained     *)
  graph,      (* graph[s]: the frames in the filter graph                   *)
  pc,         (* where the call is                                          *)
  stream, want,        (* DecodeVideoFrame's index and frame_nb             *)
  flushed,    (* ret < 0 in its loop: the flush packet was sent             *)
  picture,    (* the frame the codec put into dec_frame, 0 for none         *)
  result,     (* the frame the last DecodeVideoFrame returned, 0 for false  *)
  opens,      (* the number of AVFormatContexts made                        *)
  faulty,     (* history: in this call of ours libav failed, or the filter  *)
              (* graph held a frame back                                    *)
  budget

fileVars == <<file, streams, headers, best, url, opens>>
readVars == <<position, codec, graph>>
callVars == <<stream, want, flushed, picture, result>>
vars == <<fileVars, readVars, pc, callVars, faulty, budget>>

-----------------------------------------------------------------------------
StreamSet == {Streams[i] : i \in DOMAIN Streams}

EmptyCodec == [held |-> {}, drained |-> FALSE]

(* Stream::FrameToPts(), for a zero-based index: the quotient is truncated. *)
FrameToPts(index) ==
  StartTime + (index * FrameRate[2] * TimeBase[2]) \div (FrameRate[1] * TimeBase[1])

Timestamp == FrameToPts(want - 1)

(* The seek target lies within the time frame f is shown.                   *)
Covers(f) == Pts[f] <= Timestamp /\ Timestamp < Pts[f] + Duration[f]

(* External: where AVSEEK_FLAG_BACKWARD can go for a time stamp.            *)
SeekPoints(s, ts) ==
  {i \in DOMAIN Packets :
     Packets[i].stream = s /\ Packets[i].key /\ Pts[Packets[i].frame] <= ts}

NoStream == [s \in StreamSet |-> 0]

Init ==
  /\ file = 0
  /\ streams = NoStream
  /\ headers = {}
  /\ best = -1
  /\ url = FALSE
  /\ position = 1
  /\ codec = [s \in StreamSet |-> EmptyCodec]
  /\ graph = [s \in StreamSet |-> <<>>]
  /\ pc = "idle"
  /\ stream = 0 /\ want = 1
  /\ flushed = FALSE /\ picture = 0 /\ result = 0
  /\ opens = 0
  /\ faulty = FALSE
  /\ budget = Budget

-----------------------------------------------------------------------------
(* Open() and Close().                                                      *)

(* A Close that keeps the streams of the file it closes.                    *)
CloseFileOnly ==
  /\ url' = FALSE
  /\ file' = 0
  /\ best' = -1
  /\ headers' = {}
  /\ UNCHANGED streams

CloseImpl ==
  /\ url' = FALSE
  /\ file' = 0
  /\ best' = -1
  /\ headers' = {}
  /\ streams' = NoStream

Close ==
  /\ pc = "idle" /\ budget > 0
  /\ budget' = budget - 1
  /\ CloseImpl
  /\ UNCHANGED <<opens, readVars, pc, callVars, faulty>>

(* Open() closes what was open, then opens the file and finds its streams.  *)
Open ==
  /\ pc = "idle" /\ budget > 0
  /\ budget' = budget - 1
  /\ pc' = "open"
  /\ faulty' = FALSE
  /\ CloseImpl
  /\ UNCHANGED <<opens, readVars, callVars>>

OpenFile ==
  /\ pc = "open"
  /\ url' = TRUE
  /\ file' = opens + 1
  /\ opens' = opens + 1
  /\ best' = Best
  /\ position' = 1
  /\ pc' = "openStreams"
  /\ UNCHANGED <<streams, headers, codec, graph, callVars, faulty, budget>>

(* The streams that are still to be opened.                                 *)
Unopened == {i \in DOMAIN Streams : streams[Streams[i]] = 0}

OpenStream ==
  LET s == Streams[Min(Unopened)] IN
  /\ pc = "openStreams"
  /\ Unopened # {}
  /\ streams' = [streams EXCEPT ![s] = file]
  /\ headers' = headers \cup {s}
  /\ codec' = [codec EXCEPT ![s] = EmptyCodec]
  /\ graph' = [graph EXCEPT ![s] = <<>>]
  /\ UNCHANGED <<file, best, url, opens, position, pc, callVars, faulty, budget>>

OpenSucceeds ==
  /\ pc = "openStreams"
  /\ Unopened = {}
  /\ pc' = "idle"
  /\ UNCHANGED <<fileVars, readVars, callVars, faulty, budget>>

(* An Open that fails and leaves the error code for the best stream.        *)
OpenFailsUnclosed ==
  /\ pc \in {"open", "openStreams"}
  /\ pc' = "idle"
  /\ faulty' = TRUE
  /\ best' = -2
  /\ UNCHANGED <<file, streams, headers, url, opens, readVars, callVars, budget>>

(* The file, one of its streams, codecs or filter graphs cannot be opened.  *)
OpenFails ==
  /\ pc \in {"open", "openStreams"}
  /\ pc' = "idle"
  /\ faulty' = TRUE
  /\ CloseImpl
  /\ UNCHANGED <<opens, readVars, callVars, budget>>

-----------------------------------------------------------------------------
(* DecodeVideoFrame().                                                      *)

Returns(f) ==
  /\ pc' = "idle"
  /\ result' = f
  /\ flushed' = FALSE /\ picture' = 0

(* The stream index -1 stands for the best stream.                          *)
Decode == \E index \in StreamSet \cup {-1}, n \in 0 .. FrameCount + 1 :
  LET s == IF index = -1 THEN best ELSE index IN
  /\ pc = "idle" /\ budget > 0
  /\ budget' = budget - 1
  /\ faulty' = FALSE
  /\ want' = n
  /\ \/ /\ s \in StreamSet /\ streams[s] # 0
        /\ n \in AllFrames
        /\ stream' = s
        /\ pc' = "seek"
        /\ UNCHANGED <<flushed, picture, result>>
     \/ /\ ~ (s \in StreamSet /\ streams[s] # 0 /\ n \in AllFrames)
        /\ Returns(0)
        /\ UNCHANGED stream
  /\ UNCHANGED <<fileVars, readVars>>

(* A seek that leaves the codec as it is.                                   *)
SeekWithoutFlush ==
  /\ pc = "seek"
  /\ SeekPoints(stream, Timestamp) # {}
  /\ position' = Max(SeekPoints(stream, Timestamp))
  /\ pc' = "read"
  /\ UNCHANGED <<fileVars, codec, graph, callVars, faulty, budget>>

(* av_seek_frame() and FlushCodec().                                        *)
Seek ==
  /\ pc = "seek"
  /\ SeekPoints(stream, Timestamp) # {}
  /\ position' = Max(SeekPoints(stream, Timestamp))
  /\ codec' = [codec EXCEPT ![stream] = EmptyCodec]
  /\ pc' = "read"
  /\ UNCHANGED <<fileVars, graph, callVars, faulty, budget>>

SeekFails ==
  /\ pc = "seek"
  /\ faulty' = (SeekPoints(stream, Timestamp) # {})
  /\ Returns(0)
  /\ UNCHANGED <<fileVars, readVars, stream, want, budget>>

(* av_read_frame(): a packet of another stream is ignored, one of ours is   *)
(* sent to the codec.                                                       *)
ReadPacket ==
  LET p == Packets[position] IN
  /\ pc = "read" /\ ~ flushed
  /\ position \in DOMAIN Packets
  /\ position' = position + 1
  /\ \/ /\ p.stream # stream
        /\ UNCHANGED <<codec, pc>>
     \/ /\ p.stream = stream
        /\ ~ codec[stream].drained
        /\ codec' = [codec EXCEPT ![stream].held = @ \cup {p.frame}]
        /\ pc' = "receive"
  /\ UNCHANGED <<fileVars, graph, callVars, faulty, budget>>

(* The codec does not take the packet; a drained one never does.            *)
SendFails ==
  /\ pc = "read" /\ ~ flushed
  /\ faulty' = (faulty \/ ~ codec[stream].drained)
  /\ Returns(0)
  /\ UNCHANGED <<fileVars, readVars, stream, want, budget>>

(* A loop that ends with the file and leaves the codec's last frames in it. *)
StopAtEnd ==
  /\ pc = "read" /\ ~ flushed
  /\ faulty' = (faulty \/ position \in DOMAIN Packets)
  /\ Returns(0)
  /\ UNCHANGED <<fileVars, readVars, stream, want, budget>>

(* At the end of the file, and after an error, the codec gets the flush     *)
(* packet and gives all it holds.                                           *)
DrainAtEnd ==
  /\ pc = "read" /\ ~ flushed
  /\ ~ codec[stream].drained
  /\ faulty' = (faulty \/ position \in DOMAIN Packets)
  /\ flushed' = TRUE
  /\ codec' = [codec EXCEPT ![stream].drained = TRUE]
  /\ pc' = "receive"
  /\ UNCHANGED <<fileVars, position, graph, stream, want, picture, result, budget>>

(* avcodec_receive_frame(): the frames come out in the order they are       *)
(* shown.  One the target does not lie in is dropped.                       *)
CodecReady ==
  LET c == codec[stream] IN
  Cardinality(c.held) > (IF c.drained THEN 0 ELSE CodecDelay)

ReceiveFrame ==
  LET f == Min(codec[stream].held) IN
  /\ pc = "receive"
  /\ CodecReady
  /\ codec' = [codec EXCEPT ![stream].held = @ \ {f}]
  /\ IF Covers(f) THEN picture' = f /\ pc' = "filter"
     ELSE UNCHANGED <<picture, pc>>
  /\ UNCHANGED <<fileVars, position, graph, stream, want, flushed, result, faulty, budget>>

(* A loop that starts over when the flush packet gave no frame.             *)
ReceiveAgain ==
  /\ pc = "receive"
  /\ ~ CodecReady
  /\ pc' = "read"
  /\ flushed' = FALSE
  /\ position' = 1
  /\ codec' = [codec EXCEPT ![stream].drained = FALSE]
  /\ UNCHANGED <<fileVars, graph, stream, want, picture, result, faulty, budget>>

(* AVERROR(EAGAIN) or AVERROR_EOF: back to reading, unless the flush packet *)
(* was the last.                                                            *)
ReceiveNothing ==
  /\ pc = "receive"
  /\ ~ CodecReady
  /\ pc' = "read"
  /\ UNCHANGED <<fileVars, readVars, callVars, faulty, budget>>

ReceiveFails ==
  /\ pc = "receive"
  /\ faulty' = TRUE
  /\ Returns(0)
  /\ UNCHANGED <<fileVars, readVars, stream, want, budget>>

(* The loop ends after the flush packet: the frame was not found.           *)
NotFound ==
  /\ pc = "read" /\ flushed
  /\ Returns(0)
  /\ UNCHANGED <<fileVars, readVars, stream, want, faulty, budget>>

(* FilterFrames(): the frame is pushed into the graph ...                   *)
PushFrame ==
  /\ pc = "filter"
  /\ graph' = [graph EXCEPT ![stream] = Append(@, picture)]
  /\ pc' = "pull"
  /\ UNCHANGED <<fileVars, position, codec, callVars, faulty, budget>>

(* Taking whatever the graph gives first.                                   *)
PullAnyFrame ==
  /\ pc = "pull"
  /\ graph[stream] # <<>>
  /\ graph' = [graph EXCEPT ![stream] = Tail(@)]
  /\ Returns(Head(graph[stream]))
  /\ UNCHANGED <<fileVars, position, codec, stream, want, faulty, budget>>

(* ... and what the graph gives is taken until it is the one wanted, whose  *)
(* picture is copied.  This ends all the loops.                             *)
PullFrame ==
  LET f == Head(graph[stream]) IN
  /\ pc = "pull"
  /\ graph[stream] # <<>>
  /\ graph' = [graph EXCEPT ![stream] = Tail(@)]
  /\ IF Covers(f) THEN Returns(f) ELSE UNCHANGED <<pc, result, flushed, picture>>
  /\ UNCHANGED <<fileVars, position, codec, stream, want, faulty, budget>>

(* The graph has no frame to give, or holds what it has back for want of    *)
(* more input: on with the next frame of the codec.                         *)
PullNothing ==
  /\ pc = "pull"
  /\ faulty' = TRUE
  /\ picture' = 0
  /\ pc' = "receive"
  /\ UNCHANGED <<fileVars, readVars, stream, want, flushed, result, budget>>

(* Filtering fails before or after a frame left the graph, or the picture   *)
(* cannot be copied.                                                        *)
FilterFails ==
  /\ pc \in {"filter", "pull"}
  /\ \/ UNCHANGED graph
     \/ /\ graph[stream] # <<>>
        /\ graph' = [graph EXCEPT ![stream] = Tail(@)]
  /\ faulty' = TRUE
  /\ Returns(0)
  /\ UNCHANGED <<fileVars, position, codec, stream, want, budget>>

-----------------------------------------------------------------------------
OpenStep == OpenFile \/ OpenStream \/ OpenSucceeds \/ OpenFails

DecodeStep ==
  \/ Seek \/ SeekFails
  \/ ReadPacket \/ DrainAtEnd \/ SendFails
  \/ ReceiveFrame \/ ReceiveNothing \/ ReceiveFails \/ NotFound
  \/ PushFrame \/ PullFrame \/ PullNothing \/ FilterFails

Next == Open \/ Close \/ Decode \/ OpenStep \/ DecodeStep

Spec == Init /\ [][Next]_vars

(* A call keeps running until it returns.                                   *)
FairSpec == Spec /\ WF_vars(OpenStep \/ DecodeStep)

-----------------------------------------------------------------------------
(* Every variable has a value of its kind.                                  *)
TypeOK ==
  /\ file \in 0 .. opens /\ opens \in Nat
  /\ streams \in [StreamSet -> Nat]
  /\ headers \subseteq StreamSet
  /\ best \in Nat \cup {-1}
  /\ url \in BOOLEAN
  /\ position \in 1 .. Len(Packets) + 1
  /\ codec \in [StreamSet -> [held : SUBSET AllFrames, drained : BOOLEAN]]
  /\ graph \in [StreamSet -> Seq(AllFrames)]
  /\ pc \in {"idle", "open", "openStreams", "seek", "read", "receive", "filter", "pull"}
  /\ stream \in Nat
  /\ want \in 0 .. FrameCount + 1
  /\ flushed \in BOOLEAN /\ faulty \in BOOLEAN
  /\ picture \in 0 .. FrameCount /\ result \in 0 .. FrameCount
  /\ budget \in Nat

(* What the Decoder knows of streams is of the file that is open, complete  *)
(* once Open() is over, and gone after a Close() or an Open() that failed   *)
(* half-way: nothing refers to an AVFormatContext that was closed           *)
(* (decoder.cpp:362-503).                                                   *)
StreamsOfOpenFile ==
  /\ \A s \in StreamSet : streams[s] \in {0, file}
  /\ headers = {s \in StreamSet : streams[s] # 0}
  /\ pc \notin {"open", "openStreams"} =>
       /\ url <=> (file # 0)
       /\ headers = (IF url THEN StreamSet ELSE {})
       /\ best = (IF url THEN Best ELSE -1)

(* What NoOtherFrame and FrameFound rest on in the file.                    *)

(* The time Stream::FrameToPts() gives for a frame lies within the time     *)
(* that frame is shown, and within no other's: the files Decoder is made    *)
(* for, with one frame after the other at the rate of the stream.           *)
TargetsTellFramesApart == \A n, f \in AllFrames :
  Pts[f] <= FrameToPts(n - 1) /\ FrameToPts(n - 1) < Pts[f] + Duration[f] <=> f = n

(* Every stream has every frame, with a key frame shown no later, and those *)
(* key frames are encoded no later either: decoding from them finds it.     *)
KeyFramesLead == \A s \in StreamSet, n \in AllFrames :
  /\ SeekPoints(s, FrameToPts(n - 1)) # {}
  /\ \E i \in DOMAIN Packets :
       /\ Packets[i].stream = s /\ Packets[i].frame = n
       /\ \A j \in SeekPoints(s, FrameToPts(n - 1)) : j <= i

(* "Seek should return valid frames for the inclusive range: [first,        *)
(* first + count - 1]" (decoder.hpp:22-23): if no libav call fails and no   *)
(* filter holds a frame back, a call on an open decoder and a frame of the  *)
(* stream finds it, whatever was decoded before, in which order, with which *)
(* failures, and whatever is still in the codec and the graph.              *)
FrameFound ==
  [][pc # "idle" /\ pc' = "idle" /\ pc \notin {"open", "openStreams"} /\ ~ faulty'
       => result' = want]_vars

(* A picture is never that of another frame, even when libav fails and      *)
(* frames were left in the codec or the filter graph by the call before.    *)
NoOtherFrame ==
  [][pc # "idle" /\ pc' = "idle" /\ pc \notin {"open", "openStreams"}
       => result' \in {0, want}]_vars

(* Every call returns: the loop of DecodeVideoFrame ends with the file.     *)
CallReturns == pc # "idle" ~> pc = "idle"

=============================================================================
