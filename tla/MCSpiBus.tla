------------------------------ MODULE MCSpiBus ------------------------------
(* Instances of SpiBus for TLC. *)
EXTENDS SpiBus

AllOptions == [hold : BOOLEAN, irq : BOOLEAN, replies : BOOLEAN]
=============================================================================
