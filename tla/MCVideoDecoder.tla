---------------------------- MODULE MCVideoDecoder ----------------------------
(* Instances of VideoDecoder for TLC.                                       *)
EXTENDS VideoDecoder

Packet(s, f, k) == [stream |-> s, frame |-> f, key |-> k]

Rate24 == <<24, 1>>

(* Two interleaved video streams that start at 100, with packets of an      *)
(* audio stream between.  In the first one frame 2 is encoded after frame   *)
(* 3, and 3 is a key frame; the second one has only one key frame.          *)
TwoStreams == <<0, 2>>
Interleaved ==
  <<Packet(0, 1, TRUE), Packet(2, 1, TRUE), Packet(1, 1, TRUE),
    Packet(0, 3, TRUE), Packet(2, 2, FALSE), Packet(0, 2, FALSE),
    Packet(2, 3, FALSE)>>
FineTicks == <<1, 12288>>
FinePts == [f \in 1 .. 3 |-> 100 + (f - 1) * 512]
FineDuration == [f \in 1 .. 3 |-> 512]

ASSUME InstanceIsRegular == TargetsTellFramesApart /\ KeyFramesLead

=============================================================================
