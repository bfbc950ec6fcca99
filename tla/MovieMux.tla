------------------------------ MODULE MovieMux ------------------------------
(***************************************************************************)
(* MovieWriter::executeSequence() writing one movie through a MuxContext:  *)
(* an output file, an encoder and a filter graph.  Frames go through the   *)
(* graph, the encoder and into the file one after the other; MuxFinish()   *)
(* drains the graph and the encoder, writes the trailer and closes.  Every *)
(* failure the code reports ends in an exception, which destroys the       *)
(* MuxContext; some failures it does not report.                           *)
(*                                                                         *)
(* libav is external: a filter graph is a queue that may hold frames back  *)
(* until it is flushed, an encoder a queue that holds EncoderDelay frames  *)
(* back, a file takes packets with increasing time stamps only, and every  *)
(* call may fail.                                                          *)
(***************************************************************************)
EXTENDS Integers, Sequences

CONSTANTS
  FrameLists,    (* the frames executeSequence() may be given, floats that  *)
                 (* are counted in halves                                   *)
  EncoderDelay,  (* how many frames the encoder holds back                  *)
  CapDelay       (* AV_CODEC_CAP_DELAY: the encoder has to be flushed       *)

ASSUME MovieMuxAssumption ==
  /\ FrameLists \subseteq Seq(Nat)
  /\ EncoderDelay \in Nat
  /\ CapDelay \in BOOLEAN
  /\ EncoderDelay > 0 => CapDelay

VARIABLES
  pc,        (* where executeSequence is                                    *)
  frames,    (* its argument                                                *)
  next,      (* the index of the frame it is at                             *)
  output,    (* the AVFormatContext: its file is open, has its header, its  *)
             (* trailer, is closed                                          *)
  owned,     (* impl->ofmt_ctx is set: the deleter knows the file           *)
  graph,     (* the time stamps of the frames in the filter graph           *)
  ended,     (* the graph has been given the end of the stream              *)
  encoder,   (* the time stamps of the frames in the encoder                *)
  drained,   (* the encoder has been given the flush frame                  *)
  packet,    (* the time stamp in enc_pkt, or Blank                         *)
  packets,   (* the time stamps of the packets in the file                  *)
  outcome,   (* how executeSequence ended                                   *)
  failed     (* history: some call of libav has failed                      *)

fileVars == <<output, owned>>
codecVars == <<graph, ended, encoder, drained, packet>>
vars == <<pc, frames, next, fileVars, codecVars, packets, outcome, failed>>

Blank == -1

Init ==
  /\ pc = "idle"
  /\ frames \in FrameLists
  /\ next = 1
  /\ output = "none" /\ owned = FALSE
  /\ graph = <<>> /\ ended = FALSE
  /\ encoder = <<>> /\ drained = FALSE
  /\ packet = Blank /\ packets = <<>>
  /\ outcome = "none"
  /\ failed = FALSE

(* static_cast<int>(frame)                                                  *)
FrameNb(f) == f \div 2

-----------------------------------------------------------------------------
(* The exception a failure ends in destroys the MuxContext, whose deleter   *)
(* closes the file if the context knows it.                                 *)
DestroyNothing == UNCHANGED output

Destroy == output' = IF owned /\ output # "none" THEN "closed" ELSE output

Throw ==
  /\ pc' = "over"
  /\ outcome' = "exception"
  /\ Destroy
  /\ UNCHANGED <<frames, next, owned, codecVars, packets>>

(* No frames, no input, an unknown codec or a bad one of its settings.      *)
BadNode ==
  /\ pc = "idle"
  /\ Throw
  /\ UNCHANGED failed

(* An executeSequence without the check for an empty vector.                *)
ExecuteUnchecked ==
  /\ pc = "idle"
  /\ pc' = "image"
  /\ UNCHANGED <<frames, next, fileVars, codecVars, packets, outcome, failed>>

Execute ==
  /\ pc = "idle"
  /\ frames # <<>>
  /\ pc' = "image"
  /\ UNCHANGED <<frames, next, fileVars, codecVars, packets, outcome, failed>>

(* The image of the next frame; the first one makes the MuxContext.         *)
GetImage ==
  /\ pc = "image"
  /\ next <= Len(frames)
  /\ pc' = IF owned THEN "frame" ELSE "open"
  /\ UNCHANGED <<frames, next, fileVars, codecVars, packets, outcome, failed>>

(* There is no image, it lacks a channel or has another size than the first *)
(* one.                                                                     *)
BadImage ==
  /\ pc \in {"image", "frame"}
  /\ next <= Len(frames)
  /\ Throw
  /\ UNCHANGED failed

-----------------------------------------------------------------------------
(* MakeMuxContext() and OpenOutputFile().                                   *)

OpenFile ==
  /\ pc = "open" /\ output = "none"
  /\ output' = "opened"
  /\ UNCHANGED <<pc, frames, next, owned, codecVars, packets, outcome, failed>>

WriteHeader ==
  /\ pc = "open" /\ output = "opened"
  /\ output' = "started"
  /\ UNCHANGED <<pc, frames, next, owned, codecVars, packets, outcome, failed>>

(* OpenOutputFile hands the context over only at its very end.              *)
HandOver ==
  /\ pc = "open" /\ output = "started"
  /\ owned' = TRUE
  /\ pc' = "graph"
  /\ UNCHANGED <<frames, next, output, codecVars, packets, outcome, failed>>

(* The format, stream, codec or its options, the file, its header or format *)
(* options, or the filter graph.                                            *)
OpenFails ==
  /\ pc \in {"open", "graph"}
  /\ Throw
  /\ failed' = TRUE

MakeGraph ==
  /\ pc = "graph"
  /\ pc' = "frame"
  /\ UNCHANGED <<frames, next, fileVars, codecVars, packets, outcome, failed>>

-----------------------------------------------------------------------------
(* MuxWriteFrame(), and MuxFinish() with the end of the stream in the place *)
(* of a frame: FilterFrames() ...                                           *)

(* A frame that is counted twice.                                           *)
PushSkipsFrame ==
  /\ pc = "frame"
  /\ graph' = Append(graph, FrameNb(frames[next]))
  /\ next' = next + 2
  /\ pc' = "pull"
  /\ UNCHANGED <<frames, fileVars, ended, encoder, drained, packet, packets, outcome, failed>>

PushFrame ==
  /\ pc = "frame"
  /\ graph' = Append(graph, FrameNb(frames[next]))
  /\ next' = next + 1
  /\ pc' = "pull"
  /\ UNCHANGED <<frames, fileVars, ended, encoder, drained, packet, packets, outcome, failed>>

FlushFilter ==
  /\ pc = "image" /\ next > Len(frames)
  /\ ended' = TRUE
  /\ pc' = "pull"
  /\ UNCHANGED <<frames, next, fileVars, graph, encoder, drained, packet, packets, outcome, failed>>

(* Allocation, pushing, pulling, or sending to the encoder fails.           *)
FilterFails ==
  /\ \/ pc \in {"frame", "pull", "flushEncoder"}
     \/ pc = "image" /\ next > Len(frames)
  /\ Throw
  /\ failed' = TRUE

(* ... until the graph has no more, or holds back what it has.              *)
PullNothing ==
  /\ pc = "pull"
  /\ ended => graph = <<>>
  /\ pc' = IF ended THEN "flushEncoder" ELSE "image"
  /\ UNCHANGED <<frames, next, fileVars, codecVars, packets, outcome, failed>>

(* ... each frame going through EncodeWriteFrame().                         *)
PullFrame ==
  /\ pc = "pull"
  /\ graph # <<>>
  /\ encoder' = Append(encoder, Head(graph))
  /\ graph' = Tail(graph)
  /\ packet' = Blank
  /\ pc' = "receive"
  /\ UNCHANGED <<frames, next, fileVars, ended, drained, packets, outcome, failed>>

(* A MuxFinish that does not flush the encoder.                             *)
NoFlush ==
  /\ pc = "flushEncoder"
  /\ pc' = "trailer"
  /\ UNCHANGED <<frames, next, fileVars, codecVars, packets, outcome, failed>>

FlushEncoder ==
  /\ pc = "flushEncoder"
  /\ drained' = CapDelay
  /\ pc' = IF CapDelay THEN "receive" ELSE "trailer"
  /\ packet' = Blank
  /\ UNCHANGED <<frames, next, fileVars, graph, ended, encoder, packets, outcome, failed>>

-----------------------------------------------------------------------------
(* The loop of EncodeWriteFrame().                                          *)

PacketReady == Len(encoder) > (IF drained THEN 0 ELSE EncoderDelay)

(* EncodeWriteFrame() returns true.                                         *)
Encoded == pc' = IF drained THEN "trailer" ELSE "pull"

ReceivePacket ==
  /\ pc = "receive"
  /\ PacketReady
  /\ packet' = Head(encoder)
  /\ encoder' = Tail(encoder)
  /\ pc' = "write"
  /\ UNCHANGED <<frames, next, fileVars, graph, ended, drained, packets, outcome, failed>>

(* The encoder cannot encode a frame; the blank packet is written.          *)
ReceiveFails ==
  /\ pc = "receive"
  /\ PacketReady
  /\ encoder' = Tail(encoder)
  /\ pc' = "write"
  /\ failed' = TRUE
  /\ UNCHANGED <<frames, next, fileVars, graph, ended, drained, packet, packets, outcome>>

ReceiveNothing ==
  /\ pc = "receive"
  /\ ~ PacketReady
  /\ Encoded
  /\ UNCHANGED <<frames, next, fileVars, codecVars, packets, outcome, failed>>

(* av_interleaved_write_frame(): a blank packet is discarded, the others    *)
(* have to have increasing time stamps.                                     *)
Increasing == \A i \in DOMAIN packets : packets[i] < packet

WritePacket ==
  /\ pc = "write"
  /\ \/ packet = Blank /\ UNCHANGED packets
     \/ packet # Blank /\ Increasing /\ packets' = Append(packets, packet)
  /\ packet' = Blank
  /\ pc' = "receive"
  /\ UNCHANGED <<frames, next, fileVars, graph, ended, encoder, drained, outcome, failed>>

(* A loop that keeps trying to write.                                       *)
WriteAgain ==
  /\ pc = "write"
  /\ failed' = TRUE
  /\ UNCHANGED <<pc, frames, next, fileVars, codecVars, packets, outcome>>

(* An error ends the loop, and EncodeWriteFrame() returns true.             *)
WriteFails ==
  /\ pc = "write"
  /\ packet' = Blank
  /\ Encoded
  /\ failed' = (failed \/ packet = Blank \/ Increasing)
  /\ UNCHANGED <<frames, next, fileVars, graph, ended, encoder, drained, packets, outcome>>

-----------------------------------------------------------------------------
(* The end of MuxFinish().                                                  *)

WriteTrailer ==
  /\ pc = "trailer"
  /\ output' = "ended"
  /\ pc' = "close"
  /\ UNCHANGED <<frames, next, owned, codecVars, packets, outcome, failed>>

CloseFile ==
  /\ pc = "close"
  /\ output' = "closed"
  /\ outcome' = "finished"
  /\ pc' = "over"
  /\ UNCHANGED <<frames, next, owned, codecVars, packets, failed>>

FinishFails ==
  /\ pc \in {"trailer", "close"}
  /\ Throw
  /\ failed' = TRUE

-----------------------------------------------------------------------------
Step ==
  \/ Execute \/ BadNode \/ GetImage \/ BadImage
  \/ OpenFile \/ WriteHeader \/ HandOver \/ MakeGraph \/ OpenFails
  \/ PushFrame \/ FlushFilter \/ PullNothing \/ PullFrame \/ FilterFails
  \/ FlushEncoder
  \/ ReceivePacket \/ ReceiveFails \/ ReceiveNothing
  \/ WritePacket \/ WriteFails
  \/ WriteTrailer \/ CloseFile \/ FinishFails

Over == pc = "over" /\ UNCHANGED vars

Next == Step \/ Over

Spec == Init /\ [][Next]_vars

(* The thread that executes the task keeps running.                         *)
FairSpec == Spec /\ WF_vars(Step)

-----------------------------------------------------------------------------
Outputs == {"none", "opened", "started", "ended", "closed"}

(* Every variable has a value of its kind.                                  *)
TypeOK ==
  /\ pc \in {"idle", "image", "open", "graph", "frame", "pull", "flushEncoder",
             "receive", "write", "trailer", "close", "over"}
  /\ frames \in Seq(Nat)
  /\ next \in 1 .. Len(frames) + 1
  /\ output \in Outputs
  /\ owned \in BOOLEAN /\ ended \in BOOLEAN /\ drained \in BOOLEAN
  /\ graph \in Seq(Nat) /\ encoder \in Seq(Nat) /\ packets \in Seq(Nat)
  /\ packet \in Nat \cup {Blank}
  /\ outcome \in {"none", "finished", "exception"}
  /\ failed \in BOOLEAN

Numbers == [i \in DOMAIN frames |-> FrameNb(frames[i])]

NumbersIncrease == \A i, j \in DOMAIN frames : i < j => Numbers[i] < Numbers[j]

(* A movie of whole frame numbers that is reported finished without any     *)
(* failure has all its frames in their order, whatever the graph and the    *)
(* encoder hold back until MuxFinish() (mux.cpp:664-706).                   *)
CompleteIfNoFailure ==
  outcome = "finished" /\ ~ failed /\ NumbersIncrease => packets = Numbers

(* The MuxContext exists whenever it is dereferenced: the loop makes one    *)
(* before the first frame, and MuxFinish() is not reached without a frame   *)
(* (movie_writer.cpp:199, 291-343).                                         *)
ContextExists ==
  pc \in {"frame", "pull", "flushEncoder", "receive", "write", "trailer", "close"}
    \/ (pc = "image" /\ next > Len(frames))
  => owned

(* When executeSequence() is over, by an exception at any point or not, no  *)
(* file is open that a MuxContext knows ("The resources are automatically   *)
(* freed when this context is destroyed", mux.hpp:373-374).                 *)
FileReleased == outcome # "none" /\ owned => output = "closed"

(* executeSequence() returns or throws.                                     *)
SequenceEnds == <>(pc = "over")

(* "Returns true if successful, otherwise false" (mux.hpp:428) of           *)
(* MuxFinish(): a movie reported finished has all its frames.               *)
FinishedIsComplete == outcome = "finished" => packets = Numbers

=============================================================================
