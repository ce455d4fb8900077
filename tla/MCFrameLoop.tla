---------------------------- MODULE MCFrameLoop ----------------------------
(* Instances of FrameLoop for TLC. *)
EXTENDS FrameLoop

TwoImages == {[c \in Cells |-> "black"], [c \in Cells |-> IF c = 1 THEN "black" ELSE "white"]}

Config(overlay, cursor) == [overlay |-> overlay, cursor |-> cursor]

\* Overlays of two sizes and none, with the cursor and without.
Mixed == {Config(0, TRUE), Config(1, TRUE), Config(2, FALSE)}
=============================================================================
