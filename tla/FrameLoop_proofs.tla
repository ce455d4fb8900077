-------------------------- MODULE FrameLoop_proofs --------------------------
(***************************************************************************)
(* The sink reports a frame as consumed only when its pass was sent, for   *)
(* every panel, every set of configurations and every amount of touching   *)
(* and reloading, as long as the producer was not silent.                  *)
(***************************************************************************)
EXTENDS FrameLoop, TLAPS

\* The producer has not been silent yet.
NeverSilent == budget.stalls = MaxStalls

\* The frame of consumed_seq is on its way to a pass, or the sink has given up.
Underway == prefetched \/ (pc = "check" /\ got) \/ (pc = "draw" /\ newFrame) \/ pc = "exited"

Kinds == {"frames", "touches", "reloads", "stalls", "faults"}

AckedInv ==
  /\ budget \in [Kinds -> Nat] /\ budget["stalls"] <= MaxStalls
  /\ acked \in Nat /\ shown \in Nat /\ consumed \in Nat /\ seq \in Nat
  /\ pc = "check" /\ prefetched => got
  /\ pc = "draw" => ~prefetched
  /\ NeverSilent => healthy /\ acked <= shown /\ (consumed = shown \/ Underway)

LEMMA AckedStarts == Init => AckedInv
  BY BoundsAssumption DEF Init, AckedInv, NeverSilent, Kinds

\* What is spent of the other bounds leaves that of the stalls alone.
LEMMA SpendOther ==
  ASSUME AckedInv, NEW kind \in Kinds, kind # "stalls", Spend(kind)
  PROVE  budget' \in [Kinds -> Nat] /\ budget'["stalls"] = budget["stalls"]
  BY DEF Spend, AckedInv, Kinds

LEMMA EnvironmentKeeps ==
  ASSUME AckedInv, Environment
  PROVE  AckedInv'
<1> USE DEF AckedInv, NeverSilent, Underway
<1>1. CASE Publish
  BY <1>1, SpendOther DEF Publish, Kinds, settings, overlayState, touch, pass, buffers
<1>2. CASE Stall
  <2>1. budget' \in [Kinds -> Nat] /\ budget'["stalls"] <= MaxStalls
        /\ budget'["stalls"] # MaxStalls
    BY <1>2, BoundsAssumption DEF Stall, Spend, Kinds
  <2> QED
    BY <1>2, <2>1 DEF Stall, pass, buffers
<1>3. CASE Heartbeat
  BY <1>3 DEF Heartbeat, settings, overlayState, touch, pass, buffers
<1>4. CASE Reconfigure
  BY <1>4, SpendOther DEF Reconfigure, Kinds, mailbox, overlayState, touch, pass, buffers
<1>5. CASE Timer
  BY <1>5 DEF Timer, mailbox, settings, touch, pass, buffers
<1> QED
  BY <1>1, <1>2, <1>3, <1>4, <1>5 DEF Environment

LEMMA LoopKeeps ==
  ASSUME AckedInv, SinkStep \/ FirstFrameTimeout \/ SendFails
  PROVE  AckedInv'
<1> USE DEF AckedInv, NeverSilent, Underway
<1>1. CASE FirstFrame \/ FirstFrameTimeout \/ SendFails
  BY <1>1 DEF FirstFrame, FirstFrameTimeout, SendFails, mailbox, settings, overlayState, touch, pass,
              buffers
<1>2. CASE Reload \/ ReloadWithoutReceipt
  BY <1>2, SpendOther DEF Reload, Kinds, ReloadWithoutReceipt, Apply, mailbox, buffers
<1>3. CASE ReloadRejected
  BY <1>3, SpendOther DEF ReloadRejected, Kinds, mailbox, overlayState, touch, pass, buffers
<1>4. CASE Copy
  BY <1>4 DEF Copy, mailbox, settings, overlayState, touch
<1>5. CASE ProducerStale
  BY <1>5 DEF ProducerStale, mailbox, settings, overlayState, buffers
<1>6. CASE Poll
  <2>1. budget' \in [Kinds -> Nat] /\ budget'["stalls"] = budget["stalls"]
    BY <1>6, SpendOther DEF Poll, TouchPoll, Kinds
  <2> QED
    BY <1>6, <2>1 DEF Poll, mailbox, settings, overlayState
<1>7. ASSUME NEW text \in Samples, Draw(text)
      PROVE  AckedInv'
  BY <1>7 DEF Draw, settings, touch
<1> QED
  BY <1>1, <1>2, <1>3, <1>4, <1>5, <1>6, <1>7 DEF SinkStep

LEMMA AckedStep == AckedInv /\ [Next]_vars => AckedInv'
<1> SUFFICES ASSUME AckedInv, [Next]_vars
             PROVE  AckedInv'
  OBVIOUS
<1>1. CASE Environment
  BY <1>1, EnvironmentKeeps
<1>2. CASE SinkStep \/ FirstFrameTimeout \/ SendFails
  BY <1>2, LoopKeeps
<1>3. CASE UNCHANGED vars
  BY <1>3 DEF vars, mailbox, pass, buffers, AckedInv, NeverSilent, Underway
<1> QED
  BY <1>1, <1>2, <1>3 DEF Next

\* consumed_seq paces capture by the bus: no frame is reported that did not go
\* through a pass.
THEOREM AckedAreShown == Spec => []AckedIsShown
<1>1. AckedInv => AckedIsShown
  BY DEF AckedInv, NeverSilent, AckedIsShown
<1> QED
  BY <1>1, AckedStarts, AckedStep, PTL DEF Spec

-----------------------------------------------------------------------------
(* The damage of a pass.                                                   *)

\* Pixels of a frame nothing is drawn over.
IsPlain(f) == f \in [Cells -> [colour : Colours, over : {"nothing"}]]

CursorPixel == [colour |-> "covered", over |-> "cursor"]

\* What the last pass drew over the newest frame is the overlay and the cursor.
PrevIsDrawn ==
  \A c \in Cells : prev[c] \in {base[c], CursorPixel} \/ prev[c].over \in Samples

\* What a pass without a new frame relies on: frame is the newest frame again, and
\* what was last drawn over it can be told from `over`.  PanelShowsPrev alone does
\* not say that a cell whose `over` is the same is the same.
ShownInv ==
  /\ image \in Images
  /\ IsPlain(base)
  /\ frames => PrevIsDrawn
  /\ pc = "check" /\ prefetched => got
  /\ pc = "draw" => ~prefetched
  /\ prefetched \/ (pc = "check" /\ got) \/ (pc = "draw" /\ newFrame) => IsPlain(frame)
  /\ pc = "draw" /\ ~newFrame => frame = base /\ frames
  /\ ~frames => pc \in {"first", "exited"} \/ prefetched \/ (pc = "draw" /\ newFrame)
  /\ PanelShowsPrev

LEMMA PlainIsPlain ==
  ASSUME image \in Images
  PROVE  IsPlain(Plain(image))
  BY PanelAssumption DEF IsPlain, Plain

LEMMA ShownStarts == Init => ShownInv
  BY PlainIsPlain DEF Init, ShownInv, PanelShowsPrev

\* What a pass does not send is as it was, or missed.
LEMMA DrawKeeps ==
  ASSUME ShownInv, NEW text \in Samples, Draw(text)
  PROVE  ShownInv'
<1> DEFINE new == Composed(text)
<1>1. /\ panel' = [c \in Cells |-> IF c \in Damage(new, due) THEN new[c] ELSE panel[c]]
      /\ missed' = (missed \cup DrawnAnew(new, due)) \ Damage(new, due)
      /\ prev' = new /\ base' = IF newFrame THEN frame ELSE base
      /\ pc = "draw" /\ pc' = "top" /\ frames' = TRUE
      /\ UNCHANGED <<image, prefetched, got, newFrame>>
  BY DEF Draw
<1>2. IsPlain(frame) /\ base' = frame
  BY <1>1 DEF ShownInv
<1>3. ASSUME NEW c \in Cells
      PROVE  /\ c \notin Bounds(config) => new[c] \in {frame[c], CursorPixel}
             /\ new[c] \in {frame[c], CursorPixel} \/ new[c].over \in Samples
  <2>1. frame[c] \in [colour : Colours, over : {"nothing"}]
    BY <1>2 DEF IsPlain
  <2> QED
    BY <2>1 DEF Composed, CursorPixel
<1>4. ASSUME NEW c \in Cells \ missed', c \notin Damage(new, due)
      PROVE  new[c] = panel[c]
  <2>1. c \notin missed /\ c \notin DrawnAnew(new, due)
    BY <1>1, <1>4
  <2>2. CASE IdleDamage(due)
    <3>1. frames /\ frame = base
      BY <1>1, <2>2 DEF IdleDamage, ShownInv
    <3>2. panel[c] = prev[c]
      BY <2>1, <3>1 DEF ShownInv, PanelShowsPrev
    <3>3. new[c].over = prev[c].over
      BY <2>1, <2>2 DEF DrawnAnew
    <3>4. new[c] \in {base[c], CursorPixel}
      BY <1>3, <1>4, <2>2, <3>1 DEF Damage
    <3>5. prev[c] \in {base[c], CursorPixel} \/ prev[c].over \in Samples
      BY <3>1 DEF ShownInv, PrevIsDrawn
    <3>6. base[c].over = "nothing" /\ CursorPixel.over = "cursor"
      BY DEF ShownInv, IsPlain, CursorPixel
    <3>7. "nothing" \notin Samples /\ "cursor" \notin Samples
      BY DEF Samples
    <3> QED
      BY <3>2, <3>3, <3>4, <3>5, <3>6, <3>7
  <2>3. CASE ~IdleDamage(due)
    <3>1. frames /\ c \notin DirtyBox(new)
      BY <1>4, <2>3 DEF Damage
    <3>2. new[c] = prev[c]
      BY <3>1, PanelAssumption DEF DirtyBox, Cells
    <3> QED
      BY <2>1, <3>1, <3>2 DEF ShownInv, PanelShowsPrev
  <2> QED
    BY <2>2, <2>3
<1>5. PanelShowsPrev'
  BY <1>1, <1>4 DEF PanelShowsPrev
<1>6. PrevIsDrawn'
  BY <1>1, <1>2, <1>3 DEF PrevIsDrawn
<1> QED
  BY <1>1, <1>2, <1>5, <1>6 DEF ShownInv

LEMMA ShownStep == ShownInv /\ [Next]_vars => ShownInv'
<1> SUFFICES ASSUME ShownInv, [Next]_vars
             PROVE  ShownInv'
  OBVIOUS
<1> USE DEF ShownInv, PrevIsDrawn, PanelShowsPrev
<1>1. CASE Environment
  <2>1. /\ UNCHANGED <<frames, panel, prev, base, frame, missed, pc, prefetched, got, newFrame>>
        /\ image' \in Images
    BY <1>1 DEF Environment, Publish, Stall, Heartbeat, Reconfigure, Timer, mailbox, pass, buffers
  <2> QED
    BY <2>1 DEF IsPlain
<1>2. CASE FirstFrame \/ FirstFrameTimeout
  BY <1>2, PlainIsPlain DEF FirstFrame, FirstFrameTimeout, mailbox, pass, buffers, IsPlain
<1>3. CASE Reload \/ ReloadWithoutReceipt
  <2>1. /\ UNCHANGED <<image, frames, panel, prev, base, frame, missed, prefetched, got, newFrame>>
        /\ pc = "top" /\ pc' \in {"top", "copy"}
    BY <1>3 DEF Reload, ReloadWithoutReceipt, Apply, mailbox, buffers
  <2> QED
    BY <2>1 DEF IsPlain
<1>4. CASE ReloadRejected \/ SendFails
  BY <1>4 DEF ReloadRejected, SendFails, mailbox, pass, buffers, IsPlain
<1>5. CASE Copy
  BY <1>5, PlainIsPlain DEF Copy, mailbox, IsPlain
<1>6. CASE ProducerStale
  BY <1>6 DEF ProducerStale, mailbox, buffers, IsPlain
<1>7. CASE Poll
  BY <1>7 DEF Poll, mailbox, IsPlain
<1>8. ASSUME NEW text \in Samples, Draw(text)
      PROVE  ShownInv'
  BY <1>8, DrawKeeps
<1>9. CASE UNCHANGED vars
  BY <1>9 DEF vars, mailbox, pass, buffers, IsPlain
<1> QED
  BY <1>1, <1>2, <1>3, <1>4, <1>5, <1>6, <1>7, <1>8, <1>9 DEF Next, SinkStep

\* The buffer that the next pass compares with is what the panel shows, whatever
\* overlays and cursors are configured and reloaded, but for what a pass of the
\* overlay's timer left out of a changed overlay or cursor.
THEOREM PanelIsPrev == Spec => []PanelShowsPrev
<1>1. ShownInv => PanelShowsPrev
  BY DEF ShownInv
<1> QED
  BY <1>1, ShownStarts, ShownStep, PTL DEF Spec
=============================================================================
