---------------------------- MODULE PanelUpdate ----------------------------
(***************************************************************************)
(* What a pass of the sink promises: while it runs, a pixel of the panel   *)
(* has its former colour or the one it should get, and the pass is over    *)
(* only when all of them have theirs.  A transmission that went wrong may  *)
(* leave anything on the panel, but then the sink must go down and its     *)
(* successor paint everything.  PanelWriter implements it with rectangles, *)
(* windows and URBs.                                                       *)
(***************************************************************************)
EXTENDS Integers

CONSTANTS Pixels, Colours

VARIABLES phase,   \* "rest", "pass", "spoilt", "down"
          target,  \* the frame to show
          panel

vars == <<phase, target, panel>>

Init ==
  /\ phase = "rest"
  /\ target \in [Pixels -> Colours] /\ panel \in [Pixels -> Colours]

\* A new frame to show; Start with the same target refreshes the panel.
Start ==
  /\ phase = "rest" /\ phase' = "pass"
  /\ target' \in [Pixels -> Colours]
  /\ UNCHANGED panel

Write ==
  /\ phase = "pass"
  /\ panel' \in [Pixels -> Colours]
  /\ \A p \in Pixels : panel'[p] \in {panel[p], target[p]}
  /\ UNCHANGED <<phase, target>>

Finish == phase = "pass" /\ panel = target /\ phase' = "rest" /\ UNCHANGED <<target, panel>>

Spoil ==
  /\ phase \in {"pass", "spoilt"}
  /\ phase' = "spoilt" /\ panel' \in [Pixels -> Colours]
  /\ UNCHANGED target

GoDown == phase # "down" /\ phase' = "down" /\ UNCHANGED <<target, panel>>

ComeBack ==
  /\ phase = "down" /\ phase' = "rest" /\ target' \in [Pixels -> Colours]
  /\ UNCHANGED panel

Next == Start \/ Write \/ Finish \/ Spoil \/ GoDown \/ ComeBack

Spec == Init /\ [][Next]_vars
=============================================================================
