--------------------------- MODULE MCFrameMailbox ---------------------------
(* Instances of FrameMailbox for TLC. *)
EXTENDS FrameMailbox

TwoParts == {"head", "tail"}
=============================================================================
