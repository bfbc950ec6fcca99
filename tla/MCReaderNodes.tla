--------------------------- MODULE MCReaderNodes ---------------------------
(* Values for the constants of ReaderNodes.                                 *)
EXTENDS ReaderNodes, TLC

CONSTANTS r1, r2, none

TwoReaders == {r1, r2}

ReaderSymmetry == Permutations(Readers)

(* A file of three frames the second of which is broken, replaced by a      *)
(* smaller one with a single frame.                                         *)
TwoMovies ==
  <<[count |-> 3, broken |-> {2}, width |-> [null |-> 4, scale |-> 2, bad |-> 0]],
    [count |-> 1, broken |-> {}, width |-> [null |-> 2, scale |-> 1, bad |-> 0]]>>

(* A reader as it is made, with the file name set.                          *)
Plain ==
  [fileName |-> "movie", refreshCount |-> 0, missingFrameMode |-> "Error",
   videoStream |-> "best", filterGraph |-> "null",
   startMode |-> "None", startFrame |-> 1, endMode |-> "None", endFrame |-> 3]

Modes == {[Plain EXCEPT !.missingFrameMode = mode] : mode \in {"Error", "Black", "Hold"}}

(* At first both hold frames: then most depends on what is cached.          *)
Holding == {[Plain EXCEPT !.missingFrameMode = "Hold"]}

(* Only the third frame is shown, the first ones by it and the rest black,  *)
(* or there is no file or no such stream.                                   *)
Masks ==
  {[Plain EXCEPT !.missingFrameMode = "Hold", !.startMode = "ClampToFrame",
                 !.startFrame = 3, !.endMode = "BlackOutside"],
   [Plain EXCEPT !.fileName = ""],
   [Plain EXCEPT !.videoStream = "absent"],
   [Plain EXCEPT !.videoStream = "unparsable"]}

AllSettings == Modes \cup Masks

=============================================================================
