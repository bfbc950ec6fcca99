--------------------------- MODULE MovieMuxProofs ---------------------------
(***************************************************************************)
(* Proofs about MovieMux, for all sequences of frames, all delays of the   *)
(* encoder, and filter graphs that hold back as much as they like.         *)
(***************************************************************************)
EXTENDS MovieMux, TLAPS

-----------------------------------------------------------------------------
(* The inductive invariant has three parts: TypeOK; Places, which says what *)
(* a position in the code tells of the rest of the state; and Flow, which   *)
(* says where every frame is that has been pushed.                          *)

Places ==
  /\ pc = "idle" => next = 1
  /\ pc \notin {"idle", "over"} => frames # <<>>
  /\ pc \in {"open", "graph", "frame"} => next <= Len(frames)
  /\ pc \in {"graph", "frame", "pull", "flushEncoder", "receive", "write",
             "trailer", "close"} => owned
  /\ pc = "image" /\ next > 1 => owned
  /\ owned => output # "none"
  /\ pc # "over" => outcome = "none"
  /\ outcome # "none" /\ owned => output = "closed"
  /\ ended => next > Len(frames) /\ pc \notin {"idle", "image", "open", "graph", "frame"}
  /\ drained => pc \notin {"idle", "image", "open", "graph", "frame", "pull"}
  /\ pc \in {"flushEncoder", "trailer", "close"} \/ drained \/ outcome = "finished"
       => ended /\ graph = <<>>
  /\ packet # Blank => pc = "write"

(* How many frames are in enc_pkt.                                          *)
InPacket == IF packet = Blank THEN 0 ELSE 1

(* The frames that have been pushed are, in their order, in the file, in    *)
(* enc_pkt, in the encoder and in the graph.                                *)
InOrder ==
  /\ next - 1 = Len(packets) + InPacket + Len(encoder) + Len(graph)
  /\ \A i \in 1 .. Len(packets) : packets[i] = Numbers[i]
  /\ packet # Blank => packet = Numbers[Len(packets) + 1]
  /\ \A i \in 1 .. Len(encoder) : encoder[i] = Numbers[Len(packets) + InPacket + i]
  /\ \A i \in 1 .. Len(graph) :
       graph[i] = Numbers[Len(packets) + InPacket + Len(encoder) + i]

(* Outside of EncodeWriteFrame()'s loop the encoder has only what it may    *)
(* hold back, and nothing once it has been flushed.                         *)
Settled ==
  /\ pc \notin {"receive", "write", "trailer", "close", "over"}
       => Len(encoder) <= EncoderDelay
  /\ pc \in {"trailer", "close"} \/ outcome = "finished" => encoder = <<>>

Flow == ~ failed /\ NumbersIncrease => InOrder /\ Settled

IInv == TypeOK /\ Places /\ Flow

-----------------------------------------------------------------------------
(* The invariant holds before executeSequence() starts.                     *)
LEMMA InitIInv == Init => IInv
<1> SUFFICES ASSUME Init
             PROVE  IInv
  OBVIOUS
<1> USE MovieMuxAssumption
<1>1. TypeOK
  <2>1. frames \in Seq(Nat)
    BY DEF Init
  <2>2. Len(frames) \in Nat
    BY <2>1
  <2>3. next \in 1 .. Len(frames) + 1
    BY <2>2 DEF Init
  <2>4. graph \in Seq(Nat) /\ encoder \in Seq(Nat) /\ packets \in Seq(Nat)
    BY DEF Init
  <2> QED
    BY <2>1, <2>3, <2>4 DEF Init, TypeOK, Outputs
<1>2. Places
  BY DEF Init, Places, Blank
<1>3. InOrder /\ Settled
  BY DEF Init, InOrder, InPacket, Settled, Blank
<1> QED
  BY <1>1, <1>2, <1>3 DEF IInv, Flow

(* What an exception does to the types and the places, whatever threw it.   *)
LEMMA ThrowKeepsPlaces ==
  ASSUME TypeOK, Places, Throw, failed' \in BOOLEAN, pc \notin {"over", "write"}
  PROVE  TypeOK' /\ Places'
<1>1. TypeOK'
  BY DEF TypeOK, Throw, Destroy, codecVars, Outputs
<1>2. Places'
  BY DEF TypeOK, Places, Throw, Destroy, codecVars, Outputs
<1> QED
  BY <1>1, <1>2

(* A sequence without its first element, and one with an element more.      *)
LEMMA HeadTail ==
  ASSUME NEW S, NEW s \in Seq(S), s # <<>>
  PROVE  /\ Head(s) \in S /\ Head(s) = s[1]
         /\ Tail(s) \in Seq(S)
         /\ Len(s) \in Nat \ {0}
         /\ Len(Tail(s)) = Len(s) - 1
         /\ \A i \in 1 .. Len(Tail(s)) : Tail(s)[i] = s[i + 1]
  OBVIOUS

LEMMA AppendOne ==
  ASSUME NEW S, NEW s \in Seq(S), NEW e \in S
  PROVE  /\ Append(s, e) \in Seq(S)
         /\ Len(s) \in Nat
         /\ Len(Append(s, e)) = Len(s) + 1
         /\ \A i \in 1 .. Len(s) : Append(s, e)[i] = s[i]
         /\ Append(s, e)[Len(s) + 1] = e
  OBVIOUS

(* The number of a frame is a natural number.                               *)
LEMMA FrameNbIsNat == \A f \in Nat : FrameNb(f) \in Nat
  BY DEF FrameNb

-----------------------------------------------------------------------------
(* Every step keeps the types and the places.                               *)
LEMMA StepKeepsPlaces ==
  ASSUME TypeOK, Places, Step
  PROVE  TypeOK' /\ Places'
<1> USE MovieMuxAssumption
<1>1. CASE Execute
  <2>1. TypeOK'
    BY <1>1 DEF Execute, TypeOK, fileVars, codecVars
  <2>2. Places'
    BY <1>1 DEF Execute, TypeOK, Places, fileVars, codecVars
  <2> QED
    BY <2>1, <2>2
<1>2. CASE GetImage
  BY <1>2 DEF GetImage, TypeOK, Places, fileVars, codecVars
<1>3. CASE OpenFile
  BY <1>3 DEF OpenFile, TypeOK, Places, Outputs, codecVars
<1>4. CASE WriteHeader
  BY <1>4 DEF WriteHeader, TypeOK, Places, Outputs, codecVars
<1>5. CASE HandOver
  BY <1>5 DEF HandOver, TypeOK, Places, codecVars
<1>6. CASE MakeGraph
  BY <1>6 DEF MakeGraph, TypeOK, Places, fileVars, codecVars
<1>7. CASE PushFrame
  <2>1. frames[next] \in Nat /\ next \in Nat /\ next <= Len(frames)
    BY <1>7 DEF PushFrame, TypeOK, Places
  <2>2. FrameNb(frames[next]) \in Nat
    BY <2>1, FrameNbIsNat
  <2>3. graph' \in Seq(Nat)
    BY <1>7, <2>2, AppendOne DEF PushFrame, TypeOK
  <2>4. next' \in 1 .. Len(frames) + 1 /\ next' = next + 1
    BY <1>7, <2>1 DEF PushFrame, TypeOK
  <2>5. TypeOK'
    BY <1>7, <2>3, <2>4 DEF PushFrame, TypeOK, fileVars
  <2>6. Places'
    BY <1>7, <2>1, <2>4 DEF PushFrame, TypeOK, Places, fileVars
  <2> QED
    BY <2>5, <2>6
<1>8. CASE FlushFilter
  BY <1>8 DEF FlushFilter, TypeOK, Places, fileVars
<1>9. CASE PullNothing
  BY <1>9 DEF PullNothing, TypeOK, Places, fileVars, codecVars
<1>10. CASE PullFrame
  <2>1. Head(graph) \in Nat /\ Tail(graph) \in Seq(Nat)
    BY <1>10, HeadTail DEF PullFrame, TypeOK
  <2>2. encoder' \in Seq(Nat) /\ graph' \in Seq(Nat)
    BY <1>10, <2>1, AppendOne DEF PullFrame, TypeOK
  <2>3. TypeOK'
    BY <1>10, <2>2 DEF PullFrame, TypeOK, fileVars
  <2>4. Places'
    BY <1>10 DEF PullFrame, TypeOK, Places, fileVars
  <2> QED
    BY <2>3, <2>4
<1>11. CASE FlushEncoder
  BY <1>11 DEF FlushEncoder, TypeOK, Places, fileVars
<1>12. CASE ReceivePacket
  <2>1. encoder # <<>>
    BY <1>12 DEF ReceivePacket, PacketReady, TypeOK
  <2>2. Head(encoder) \in Nat /\ Tail(encoder) \in Seq(Nat)
    BY <2>1, HeadTail DEF TypeOK
  <2>3. TypeOK'
    BY <1>12, <2>2 DEF ReceivePacket, TypeOK, fileVars
  <2>4. Places'
    BY <1>12 DEF ReceivePacket, TypeOK, Places, fileVars
  <2> QED
    BY <2>3, <2>4
<1>13. CASE ReceiveFails
  <2>1. encoder # <<>>
    BY <1>13 DEF ReceiveFails, PacketReady, TypeOK
  <2>2. Tail(encoder) \in Seq(Nat)
    BY <2>1, HeadTail DEF TypeOK
  <2>3. TypeOK'
    BY <1>13, <2>2 DEF ReceiveFails, TypeOK, fileVars
  <2>4. Places'
    BY <1>13 DEF ReceiveFails, TypeOK, Places, fileVars
  <2> QED
    BY <2>3, <2>4
<1>14. CASE ReceiveNothing
  BY <1>14 DEF ReceiveNothing, Encoded, TypeOK, Places, fileVars, codecVars
<1>15. CASE WritePacket
  <2>1. packets' \in Seq(Nat)
    <3>1. CASE packet = Blank
      BY <1>15, <3>1 DEF WritePacket, TypeOK
    <3>2. CASE packet # Blank
      <4>1. packet \in Nat /\ packets \in Seq(Nat) /\ packets' = Append(packets, packet)
        BY <1>15, <3>2 DEF WritePacket, TypeOK
      <4> QED
        BY <4>1, AppendOne
    <3> QED
      BY <3>1, <3>2
  <2>2. TypeOK'
    BY <1>15, <2>1 DEF WritePacket, TypeOK, fileVars
  <2>3. Places'
    BY <1>15 DEF WritePacket, TypeOK, Places, fileVars
  <2> QED
    BY <2>2, <2>3
<1>16. CASE WriteFails
  <2>1. failed' \in BOOLEAN
    BY <1>16 DEF WriteFails
  <2>2. TypeOK'
    BY <1>16, <2>1 DEF WriteFails, Encoded, TypeOK, fileVars
  <2>3. Places'
    BY <1>16 DEF WriteFails, Encoded, TypeOK, Places, fileVars
  <2> QED
    BY <2>2, <2>3
<1>17. CASE WriteTrailer
  BY <1>17 DEF WriteTrailer, TypeOK, Places, Outputs, codecVars
<1>18. CASE CloseFile
  BY <1>18 DEF CloseFile, TypeOK, Places, Outputs, codecVars
<1>19. CASE BadNode \/ BadImage \/ OpenFails \/ FilterFails \/ FinishFails
  <2>1. Throw /\ failed' \in BOOLEAN /\ pc \notin {"over", "write"}
    BY <1>19 DEF BadNode, BadImage, OpenFails, FilterFails, FinishFails, TypeOK
  <2> QED
    BY <2>1, ThrowKeepsPlaces
<1> QED
  BY <1>1, <1>2, <1>3, <1>4, <1>5, <1>6, <1>7, <1>8, <1>9, <1>10, <1>11, <1>12,
     <1>13, <1>14, <1>15, <1>16, <1>17, <1>18, <1>19 DEF Step

-----------------------------------------------------------------------------
(* Every step keeps track of the frames.  A step that moves none of them    *)
(* and one that reports a failure are easy.                                 *)

LEMMA FlowOfSame ==
  ASSUME Flow, UNCHANGED <<frames, next, graph, encoder, packet, packets>>,
         ~ failed' => ~ failed,
         ~ failed /\ NumbersIncrease => Settled'
  PROVE  Flow'
<1> SUFFICES ASSUME ~ failed', NumbersIncrease'
             PROVE  InOrder' /\ Settled'
  BY DEF Flow
<1>1. NumbersIncrease /\ Numbers' = Numbers
  BY DEF NumbersIncrease, Numbers, FrameNb
<1>2. InOrder /\ InPacket' = InPacket
  BY <1>1 DEF Flow, InPacket
<1>3. InOrder'
  BY <1>1, <1>2 DEF InOrder
<1> QED
  BY <1>1, <1>3

(* A frame is pushed: the graph has it as its last one.                     *)
LEMMA PushKeepsFlow ==
  ASSUME TypeOK, Places, Flow, PushFrame
  PROVE  Flow'
<1> SUFFICES ASSUME ~ failed', NumbersIncrease'
             PROVE  InOrder' /\ Settled'
  BY DEF Flow
<1> DEFINE number == FrameNb(frames[next])
<1>1. /\ Numbers' = Numbers /\ InPacket' = InPacket
      /\ UNCHANGED <<encoder, packet, packets>>
      /\ graph' = Append(graph, number) /\ next' = next + 1
  BY DEF PushFrame, Numbers, InPacket, FrameNb
<1>2. InOrder /\ Settled
  BY DEF Flow, PushFrame, NumbersIncrease, Numbers, FrameNb
<1>3. frames[next] \in Nat /\ next \in DOMAIN frames /\ next \in Nat
  BY DEF TypeOK, Places, PushFrame
<1>4. number \in Nat /\ Numbers[next] = number
  BY <1>3, FrameNbIsNat DEF Numbers
<1> HIDE DEF number
<1>5. /\ Len(packets) \in Nat /\ Len(encoder) \in Nat /\ InPacket \in {0, 1}
      /\ graph \in Seq(Nat)
  BY DEF TypeOK, InPacket
<1>6. /\ Len(graph) \in Nat /\ Len(graph') = Len(graph) + 1
      /\ \A i \in 1 .. Len(graph) : graph'[i] = graph[i]
      /\ graph'[Len(graph) + 1] = number
  BY <1>1, <1>4, <1>5, AppendOne
<1>7. next = Len(packets) + InPacket + Len(encoder) + Len(graph) + 1
  <2>1. next - 1 = Len(packets) + InPacket + Len(encoder) + Len(graph)
    BY <1>2 DEF InOrder
  <2> QED
    BY <2>1, <1>3, <1>5, <1>6
<1>8. next' - 1 = Len(packets') + InPacket' + Len(encoder') + Len(graph')
  BY <1>1, <1>3, <1>5, <1>6, <1>7
<1>9. ASSUME NEW i \in 1 .. Len(graph')
      PROVE  graph'[i] = Numbers'[Len(packets') + InPacket' + Len(encoder') + i]
  <2>1. CASE i \in 1 .. Len(graph)
    BY <2>1, <1>1, <1>2, <1>6 DEF InOrder
  <2>2. CASE i = Len(graph) + 1
    <3>1. Len(packets) + InPacket + Len(encoder) + i = next
      BY <2>2, <1>5, <1>6, <1>7
    <3> QED
      BY <3>1, <2>2, <1>1, <1>4, <1>6
  <2> QED
    BY <1>6, <2>1, <2>2
<1>10. InOrder'
  BY <1>1, <1>2, <1>8, <1>9 DEF InOrder
<1>11. Settled'
  BY <1>1, <1>2 DEF PushFrame, Settled, Places
<1> QED
  BY <1>10, <1>11

(* A frame goes from the graph to the encoder.                              *)
LEMMA PullKeepsFlow ==
  ASSUME TypeOK, Places, Flow, PullFrame
  PROVE  Flow'
<1> SUFFICES ASSUME ~ failed', NumbersIncrease'
             PROVE  InOrder' /\ Settled'
  BY DEF Flow
<1>1. /\ Numbers' = Numbers /\ UNCHANGED <<next, packet, packets>>
      /\ InPacket = 0 /\ InPacket' = 0
  BY DEF PullFrame, Numbers, InPacket, FrameNb, Places
<1>2. InOrder
  BY DEF Flow, PullFrame, NumbersIncrease, Numbers, FrameNb
<1>3. /\ Len(packets) \in Nat /\ next \in Nat
      /\ graph \in Seq(Nat) /\ graph # <<>> /\ encoder \in Seq(Nat)
      /\ graph' = Tail(graph) /\ encoder' = Append(encoder, Head(graph))
  BY DEF TypeOK, PullFrame
<1>4. /\ Head(graph) \in Nat /\ Head(graph) = graph[1]
      /\ Len(graph) \in Nat \ {0} /\ Len(graph') = Len(graph) - 1
      /\ \A i \in 1 .. Len(graph') : graph'[i] = graph[i + 1]
  BY <1>3, HeadTail
<1>5. /\ Len(encoder) \in Nat /\ Len(encoder') = Len(encoder) + 1
      /\ \A i \in 1 .. Len(encoder) : encoder'[i] = encoder[i]
      /\ encoder'[Len(encoder) + 1] = Head(graph)
  BY <1>3, <1>4, AppendOne
<1>6. next' - 1 = Len(packets') + InPacket' + Len(encoder') + Len(graph')
  BY <1>1, <1>2, <1>3, <1>4, <1>5 DEF InOrder
<1>7. ASSUME NEW i \in 1 .. Len(encoder')
      PROVE  encoder'[i] = Numbers'[Len(packets') + InPacket' + i]
  <2>1. CASE i \in 1 .. Len(encoder)
    BY <2>1, <1>1, <1>2, <1>5 DEF InOrder
  <2>2. CASE i = Len(encoder) + 1
    <3>1. graph[1] = Numbers[Len(packets) + InPacket + Len(encoder) + 1]
      BY <1>2, <1>4 DEF InOrder
    <3>2. Len(packets') + InPacket' + i = Len(packets) + InPacket + Len(encoder) + 1
      BY <2>2, <1>1, <1>3, <1>5
    <3> QED
      BY <3>1, <3>2, <2>2, <1>1, <1>4, <1>5
  <2> QED
    BY <1>5, <2>1, <2>2
<1>8. ASSUME NEW i \in 1 .. Len(graph')
      PROVE  graph'[i] = Numbers'[Len(packets') + InPacket' + Len(encoder') + i]
  <2>1. i + 1 \in 1 .. Len(graph)
    BY <1>4
  <2>2. graph[i + 1] = Numbers[Len(packets) + InPacket + Len(encoder) + (i + 1)]
    BY <2>1, <1>2 DEF InOrder
  <2>3. Len(packets) + InPacket + Len(encoder) + (i + 1)
          = Len(packets') + InPacket' + Len(encoder') + i
    BY <1>1, <1>3, <1>5
  <2> QED
    BY <2>2, <2>3, <1>1, <1>4
<1>9. InOrder'
  <2>1. /\ \A i \in 1 .. Len(packets') : packets'[i] = Numbers'[i]
        /\ packet' = Blank
    BY <1>1, <1>2 DEF InOrder, PullFrame
  <2> QED
    BY <2>1, <1>6, <1>7, <1>8 DEF InOrder
<1>10. Settled'
  BY DEF PullFrame, Settled, Places
<1> QED
  BY <1>9, <1>10

(* A packet comes out of the encoder.                                       *)
LEMMA ReceiveKeepsFlow ==
  ASSUME TypeOK, Places, Flow, ReceivePacket
  PROVE  Flow'
<1> SUFFICES ASSUME ~ failed', NumbersIncrease'
             PROVE  InOrder' /\ Settled'
  BY DEF Flow
<1>1. /\ Numbers' = Numbers /\ UNCHANGED <<next, graph, packets>>
      /\ packet = Blank /\ InPacket = 0
  BY DEF ReceivePacket, Numbers, InPacket, FrameNb, Places
<1>2. InOrder
  BY DEF Flow, ReceivePacket, NumbersIncrease, Numbers, FrameNb
<1>3. encoder # <<>> /\ encoder \in Seq(Nat) /\ next \in Nat
  BY MovieMuxAssumption DEF ReceivePacket, PacketReady, TypeOK
<1>4. /\ Head(encoder) \in Nat /\ Head(encoder) = encoder[1]
      /\ Len(encoder) \in Nat \ {0} /\ Len(Tail(encoder)) = Len(encoder) - 1
      /\ \A i \in 1 .. Len(Tail(encoder)) : Tail(encoder)[i] = encoder[i + 1]
  BY <1>3, HeadTail
<1>5. encoder' = Tail(encoder) /\ packet' = Head(encoder)
  BY DEF ReceivePacket
<1>6. packet' # Blank /\ InPacket' = 1
  BY <1>4, <1>5 DEF InPacket, Blank
<1>7. Len(packets) \in Nat /\ Len(graph) \in Nat
  BY DEF TypeOK
<1>8. next' - 1 = Len(packets') + InPacket' + Len(encoder') + Len(graph')
  <2>1. next - 1 = Len(packets) + InPacket + Len(encoder) + Len(graph)
    BY <1>2 DEF InOrder
  <2> QED
    BY <2>1, <1>1, <1>3, <1>4, <1>5, <1>6, <1>7
<1>9. packet' = Numbers'[Len(packets') + 1]
  <2>1. encoder[1] = Numbers[Len(packets) + InPacket + 1]
    BY <1>2, <1>4 DEF InOrder
  <2>2. Len(packets') + 1 = Len(packets) + InPacket + 1
    BY <1>1, <1>7
  <2> QED
    BY <2>1, <2>2, <1>1, <1>4, <1>5
<1>10. ASSUME NEW i \in 1 .. Len(encoder')
       PROVE  encoder'[i] = Numbers'[Len(packets') + InPacket' + i]
  <2>1. i + 1 \in 1 .. Len(encoder)
    BY <1>4, <1>5
  <2>2. encoder[i + 1] = Numbers[Len(packets) + InPacket + (i + 1)]
    BY <2>1, <1>2 DEF InOrder
  <2>3. Len(packets) + InPacket + (i + 1) = Len(packets') + InPacket' + i
    BY <1>1, <1>6, <1>7
  <2> QED
    BY <2>2, <2>3, <1>1, <1>4, <1>5
<1>11. ASSUME NEW i \in 1 .. Len(graph')
       PROVE  graph'[i] = Numbers'[Len(packets') + InPacket' + Len(encoder') + i]
  <2>1. graph[i] = Numbers[Len(packets) + InPacket + Len(encoder) + i]
    BY <1>1, <1>2 DEF InOrder
  <2>2. Len(packets) + InPacket + Len(encoder) + i
          = Len(packets') + InPacket' + Len(encoder') + i
    BY <1>1, <1>4, <1>5, <1>6, <1>7
  <2> QED
    BY <2>1, <2>2, <1>1
<1>12. InOrder'
  <2>1. \A i \in 1 .. Len(packets') : packets'[i] = Numbers'[i]
    BY <1>1, <1>2 DEF InOrder
  <2> QED
    BY <2>1, <1>8, <1>9, <1>10, <1>11 DEF InOrder
<1>13. Settled'
  BY DEF ReceivePacket, Settled, Places
<1> QED
  BY <1>12, <1>13

(* A packet goes to the file.                                               *)
LEMMA WriteKeepsFlow ==
  ASSUME TypeOK, Places, Flow, WritePacket, packet # Blank
  PROVE  Flow'
<1> SUFFICES ASSUME ~ failed', NumbersIncrease'
             PROVE  InOrder' /\ Settled'
  BY DEF Flow
<1>1. /\ Numbers' = Numbers /\ UNCHANGED <<next, graph, encoder>>
      /\ packets' = Append(packets, packet)
      /\ packet' = Blank /\ InPacket = 1 /\ InPacket' = 0
  BY DEF WritePacket, Numbers, InPacket, FrameNb
<1>2. InOrder
  BY DEF Flow, WritePacket, NumbersIncrease, Numbers, FrameNb
<1>3. packets \in Seq(Nat) /\ packet \in Nat
  BY DEF TypeOK
<1>4. /\ Len(packets) \in Nat /\ Len(packets') = Len(packets) + 1
      /\ \A i \in 1 .. Len(packets) : packets'[i] = packets[i]
      /\ packets'[Len(packets) + 1] = packet
  BY <1>1, <1>3, AppendOne
<1>5. Len(packets') + InPacket' = Len(packets) + InPacket
  BY <1>1, <1>4
<1>6. ASSUME NEW i \in 1 .. Len(packets')
      PROVE  packets'[i] = Numbers'[i]
  <2>1. CASE i \in 1 .. Len(packets)
    BY <2>1, <1>1, <1>2, <1>4 DEF InOrder
  <2>2. CASE i = Len(packets) + 1
    <3>1. packet = Numbers[Len(packets) + 1]
      BY <1>2 DEF InOrder
    <3> QED
      BY <3>1, <2>2, <1>1, <1>4
  <2> QED
    BY <1>4, <2>1, <2>2
<1>7. InOrder'
  BY <1>1, <1>2, <1>5, <1>6 DEF InOrder
<1>8. Settled'
  BY DEF WritePacket, Settled, Places
<1> QED
  BY <1>7, <1>8

(* A packet that carries the next frame's time stamp increases them, so     *)
(* that a write that fails is a failure of libav.                           *)
LEMMA FailureIsRecorded ==
  ASSUME TypeOK, Places, Flow, WriteFails, NumbersIncrease
  PROVE  failed'
<1> SUFFICES ASSUME ~ failed, packet # Blank
             PROVE  Increasing
  BY DEF WriteFails
<1>1. InOrder
  BY DEF Flow
<1>2. packets \in Seq(Nat) /\ Len(packets) \in Nat
  BY DEF TypeOK
<1>3. /\ packet = Numbers[Len(packets) + 1]
      /\ \A i \in 1 .. Len(packets) : packets[i] = Numbers[i]
  BY <1>1 DEF InOrder
<1>4. Len(packets) + 1 \in DOMAIN frames
  <2>1. next - 1 = Len(packets) + InPacket + Len(encoder) + Len(graph)
    BY <1>1 DEF InOrder
  <2>2. InPacket = 1 /\ Len(encoder) \in Nat /\ Len(graph) \in Nat
    BY DEF InPacket, TypeOK
  <2>3. frames \in Seq(Nat) /\ next \in 1 .. Len(frames) + 1
    BY DEF TypeOK
  <2> QED
    BY <2>1, <2>2, <2>3, <1>2
<1>5. ASSUME NEW i \in DOMAIN packets
      PROVE  packets[i] < packet
  <2>1. i \in 1 .. Len(packets) /\ i \in DOMAIN frames /\ i < Len(packets) + 1
    <3>1. DOMAIN packets = 1 .. Len(packets) /\ DOMAIN frames = 1 .. Len(frames)
          /\ Len(frames) \in Nat
      BY DEF TypeOK
    <3> QED BY <1>2, <1>4, <3>1
  <2>2. Numbers[i] < Numbers[Len(packets) + 1]
    BY <2>1, <1>4 DEF NumbersIncrease
  <2> QED
    BY <2>1, <2>2, <1>3
<1> QED
  BY <1>5 DEF Increasing

LEMMA StepKeepsFlow ==
  ASSUME TypeOK, Places, Flow, Step
  PROVE  Flow'
<1> USE DEF fileVars, codecVars
<1>1. CASE Execute \/ GetImage \/ OpenFile \/ WriteHeader \/ HandOver \/ MakeGraph
  <2>1. /\ UNCHANGED <<frames, next, graph, encoder, packet, packets, failed>>
        /\ pc \notin {"receive", "write", "trailer", "close", "over"}
        /\ pc' \notin {"trailer", "close"} /\ outcome' = outcome /\ outcome # "finished"
    BY <1>1 DEF Execute, GetImage, OpenFile, WriteHeader, HandOver, MakeGraph, Places
  <2>2. ~ failed /\ NumbersIncrease => Settled'
    BY <2>1 DEF Flow, Settled
  <2> QED
    BY <2>1, <2>2, FlowOfSame
<1>2. CASE BadNode \/ BadImage
  <2>1. /\ UNCHANGED <<frames, next, graph, encoder, packet, packets, failed>>
        /\ pc' = "over" /\ outcome' = "exception"
    BY <1>2 DEF BadNode, BadImage, Throw
  <2>2. Settled'
    BY <2>1 DEF Settled
  <2> QED
    BY <2>1, <2>2, FlowOfSame
<1>3. CASE OpenFails \/ FilterFails \/ ReceiveFails \/ FinishFails
  BY <1>3 DEF OpenFails, FilterFails, ReceiveFails, FinishFails, Flow
<1>4. CASE PushFrame
  BY <1>4, PushKeepsFlow
<1>5. CASE FlushFilter \/ PullNothing
  <2>1. /\ UNCHANGED <<frames, next, graph, encoder, packet, packets, failed>>
        /\ pc \in {"image", "pull"} /\ pc' \in {"pull", "flushEncoder", "image"}
        /\ outcome' = outcome /\ outcome # "finished"
    BY <1>5 DEF FlushFilter, PullNothing, Places
  <2>2. ~ failed /\ NumbersIncrease => Settled'
    BY <2>1 DEF Flow, Settled
  <2> QED
    BY <2>1, <2>2, FlowOfSame
<1>6. CASE PullFrame
  BY <1>6, PullKeepsFlow
<1>7. CASE FlushEncoder
  <2>1. /\ UNCHANGED <<frames, next, graph, encoder, packet, packets, failed>>
        /\ pc = "flushEncoder" /\ outcome' = outcome /\ outcome # "finished"
        /\ pc' = IF CapDelay THEN "receive" ELSE "trailer"
    BY <1>7 DEF FlushEncoder, Places
  <2>2. ASSUME ~ failed, NumbersIncrease, ~ CapDelay
        PROVE  encoder = <<>>
    <3>1. EncoderDelay = 0 /\ Len(encoder) <= EncoderDelay
      BY <2>1, <2>2, MovieMuxAssumption DEF Flow, Settled
    <3> QED
      BY <3>1 DEF TypeOK
  <2>3. ~ failed /\ NumbersIncrease => Settled'
    BY <2>1, <2>2 DEF Settled
  <2> QED
    BY <2>1, <2>3, FlowOfSame
<1>8. CASE ReceivePacket
  BY <1>8, ReceiveKeepsFlow
<1>9. CASE ReceiveNothing
  <2>1. /\ UNCHANGED <<frames, next, graph, encoder, drained, packet, packets, failed>>
        /\ outcome' = outcome /\ outcome # "finished"
        /\ pc' = IF drained THEN "trailer" ELSE "pull"
    BY <1>9 DEF ReceiveNothing, Encoded, Places
  <2>2. Len(encoder) <= (IF drained THEN 0 ELSE EncoderDelay)
    BY <1>9, MovieMuxAssumption DEF ReceiveNothing, PacketReady, TypeOK
  <2>3. drained => encoder = <<>>
    BY <2>2 DEF TypeOK
  <2>4. Settled'
    BY <2>1, <2>2, <2>3 DEF Settled, TypeOK
  <2> QED
    BY <2>1, <2>4, FlowOfSame
<1>10. CASE WritePacket /\ packet = Blank
  <2>1. /\ UNCHANGED <<frames, next, graph, encoder, packet, packets, failed>>
        /\ pc' = "receive" /\ outcome' = outcome /\ outcome # "finished"
    BY <1>10 DEF WritePacket, Places
  <2>2. Settled'
    BY <2>1 DEF Settled
  <2> QED
    BY <2>1, <2>2, FlowOfSame
<1>11. CASE WritePacket /\ packet # Blank
  BY <1>11, WriteKeepsFlow
<1>12. CASE WriteFails
  <2>1. NumbersIncrease' = NumbersIncrease
    BY <1>12 DEF WriteFails, NumbersIncrease, Numbers, FrameNb
  <2> QED
    BY <1>12, <2>1, FailureIsRecorded DEF Flow
<1>13. CASE WriteTrailer \/ CloseFile
  <2>1. /\ UNCHANGED <<frames, next, graph, encoder, packet, packets, failed>>
        /\ pc \in {"trailer", "close"} /\ pc' \in {"close", "over"}
    BY <1>13 DEF WriteTrailer, CloseFile
  <2>2. ~ failed /\ NumbersIncrease => Settled'
    BY <2>1 DEF Flow, Settled
  <2> QED
    BY <2>1, <2>2, FlowOfSame
<1> QED
  BY <1>1, <1>2, <1>3, <1>4, <1>5, <1>6, <1>7, <1>8, <1>9, <1>10, <1>11, <1>12, <1>13
     DEF Step

(* A step that changes nothing does not change the invariant either.               *)
LEMMA StutterKeepsIInv ==
  ASSUME IInv, UNCHANGED vars
  PROVE  IInv'
<1> USE DEF IInv, vars, fileVars, codecVars
<1>1. TypeOK'
  BY DEF TypeOK
<1>2. Places'
  BY DEF Places
<1>3. Flow'
  <2>1. Settled => Settled'
    BY DEF Settled
  <2> QED
    BY <2>1, FlowOfSame DEF Flow
<1> QED
  BY <1>1, <1>2, <1>3

(* The invariant is inductive.                                              *)
THEOREM Invariant == Spec => []IInv
<1>1. IInv /\ [Next]_vars => IInv'
  <2> SUFFICES ASSUME IInv, [Next]_vars
               PROVE  IInv'
    OBVIOUS
  <2>1. CASE Step
    BY <2>1, StepKeepsPlaces, StepKeepsFlow DEF IInv
  <2>2. CASE UNCHANGED vars
    BY <2>2, StutterKeepsIInv
  <2> QED
    BY <2>1, <2>2 DEF Next, Over
<1> QED
  BY <1>1, InitIInv, PTL DEF Spec

-----------------------------------------------------------------------------
(* Every variable always has a value of its kind; in particular, the loop   *)
(* of executeSequence() never leaves the vector it goes through.            *)
THEOREM TypeCorrect == Spec => []TypeOK
<1>1. IInv => TypeOK
  BY DEF IInv
<1> QED
  BY <1>1, Invariant, PTL

(* A movie that is reported finished has all its frames, in their order, if *)
(* no call of libav has failed and the frame numbers increase: neither the  *)
(* filter graph nor the encoder keeps one.                                  *)
THEOREM MovieIsComplete == Spec => []CompleteIfNoFailure
<1>1. IInv => CompleteIfNoFailure
  <2> SUFFICES ASSUME IInv, outcome = "finished", ~ failed, NumbersIncrease
               PROVE  packets = Numbers
    BY DEF CompleteIfNoFailure
  <2>1. InOrder /\ Settled
    BY DEF IInv, Flow
  <2>2. ended /\ graph = <<>> /\ next > Len(frames) /\ pc = "over" /\ packet = Blank
    BY DEF IInv, Places
  <2>3. encoder = <<>>
    BY <2>1 DEF Settled
  <2>4. /\ packets \in Seq(Nat) /\ frames \in Seq(Nat) /\ next \in 1 .. Len(frames) + 1
        /\ InPacket = 0
    BY <2>2 DEF IInv, TypeOK, InPacket
  <2>5. Len(packets) = Len(frames)
    <3>1. next - 1 = Len(packets) + InPacket + Len(encoder) + Len(graph)
      BY <2>1 DEF InOrder
    <3> QED
      BY <3>1, <2>2, <2>3, <2>4
  <2>6. \A i \in 1 .. Len(packets) : packets[i] = Numbers[i]
    BY <2>1 DEF InOrder
  <2>7. /\ packets = [i \in 1 .. Len(packets) |-> packets[i]]
        /\ DOMAIN frames = 1 .. Len(packets)
    BY <2>4, <2>5
  <2>8. Numbers = [i \in 1 .. Len(packets) |-> Numbers[i]]
    BY <2>7 DEF Numbers
  <2> QED
    BY <2>6, <2>7, <2>8
<1> QED
  BY <1>1, Invariant, PTL

(* No frame is written, and MuxFinish() is not called, without a context.   *)
THEOREM ContextIsThere == Spec => []ContextExists
<1>1. IInv => ContextExists
  <2> SUFFICES ASSUME IInv, pc = "image", next > Len(frames)
               PROVE  owned
    BY DEF IInv, Places, ContextExists
  <2>1. frames \in Seq(Nat) /\ frames # <<>>
    BY DEF IInv, TypeOK, Places
  <2>2. next > 1
    BY <2>1 DEF IInv, TypeOK
  <2> QED
    BY <2>2 DEF IInv, Places
<1> QED
  BY <1>1, Invariant, PTL

(* Whichever way executeSequence() ends, a MuxContext's file is closed.     *)
THEOREM FileIsReleased == Spec => []FileReleased
<1>1. IInv => FileReleased
  BY DEF IInv, Places, FileReleased
<1> QED
  BY <1>1, Invariant, PTL

=============================================================================
