--------------------------- MODULE FrameRegister ---------------------------
(***************************************************************************)
(* What the shared-memory mailbox promises the sink: a register that holds *)
(* the newest whole frame.  A read returns a frame that was the newest at  *)
(* some moment of the call, never one it returned before, or nothing.      *)
(* FrameMailbox implements it with slots, sequence numbers and retries.    *)
(***************************************************************************)
EXTENDS Naturals

VARIABLES newest,  \* number of frames published
          floor,   \* the newest frame when the current call began
          got      \* the frame of the last successful call

vars == <<newest, floor, got>>

Init == newest = 0 /\ floor = 0 /\ got = 0

Publish == newest' = newest + 1 /\ UNCHANGED <<floor, got>>

Begin == floor' = newest /\ UNCHANGED <<newest, got>>

Take == \E n \in floor .. newest : n > got /\ got' = n /\ UNCHANGED <<newest, floor>>

Next == Publish \/ Begin \/ Take

Spec == Init /\ [][Next]_vars
=============================================================================
