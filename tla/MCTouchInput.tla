---------------------------- MODULE MCTouchInput ----------------------------
(* Instances of TouchInput for TLC. *)
EXTENDS TouchInput

AllOrOne == {Modes, {"touch"}, {"mouse"}}
=============================================================================
