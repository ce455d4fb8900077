------------------------ MODULE MCStackOwnership ------------------------
(* Instances of StackOwnership for TLC. *)
EXTENDS StackOwnership

TwoGens == 1 .. 2
=============================================================================
