----------------------------- MODULE MCMovieMux -----------------------------
(* Instances of MovieMux for TLC.  Frames are counted in halves.            *)
EXTENDS MovieMux

(* Frames 1 to 5, every second frame, half frames, backwards, and none.     *)
Mixed == {<<2, 4, 6, 8, 10>>, <<2, 6, 10>>, <<2, 3, 4>>, <<6, 2>>, <<>>}

TwoFrames == {<<2, 4>>}

=============================================================================
