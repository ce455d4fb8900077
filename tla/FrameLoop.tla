----------------------------- MODULE FrameLoop -----------------------------
(***************************************************************************)
(* The sink's main loop in mailbox mode with the stable damage policy (one *)
(* bounding box, no stale refresh): it takes the newest frame of the       *)
(* mailbox, draws overlay and cursor into it, sends the part of the panel  *)
(* that it believes has changed and reports the frame as consumed.         *)
(*                                                                         *)
(* Around it run the capture program (external: it publishes a frame when  *)
(* the pacing by consumed_seq lets it, and its heartbeat may stall), the   *)
(* finger, the overlay's timer and the daemon that asks for a reload.      *)
(*                                                                         *)
(* The panel is a row of cells.  The mailbox is the register that          *)
(* FrameMailbox implements.  Calibration and the GPIO overlay are off.     *)
(***************************************************************************)
EXTENDS Naturals

CONSTANTS
  Width,       \* cells of the panel
  Images,      \* what capture can publish: functions from cells to colours
  Configs,     \* configurations that may be committed: the width of the overlay
               \* (0 is disabled) and the cursor switch
  MaxFrames, MaxTouches, MaxReloads, MaxStalls, MaxFaults  \* bounds on the environment

Cells == 1 .. Width
Colours == {"black", "white"}
Samples == {"text1", "text2"}

ASSUME PanelAssumption == Width \in Nat \ {0} /\ Images \subseteq [Cells -> Colours]
ASSUME ConfigAssumption == Configs \subseteq [overlay : 0 .. Width, cursor : BOOLEAN]
ASSUME BoundsAssumption ==
  {MaxFrames, MaxTouches, MaxReloads, MaxStalls, MaxFaults} \subseteq Nat

VARIABLES
  seq, image,      \* the mailbox: number and pixels of the newest frame
  acked,           \* header->consumed_seq
  healthy,         \* producer_alive and a heartbeat younger than 750 ms
  requested,       \* runtime_reload_requested
  wanted,          \* what the configuration files say
  config,          \* what the sink runs with
  due,             \* the overlay's interval is over
  sample,          \* text of the overlay
  down, visible, pos,  \* touch: pressed, cursor_visible, cursor_x/y
  pc,              \* "first", "top", "copy", "check", "draw", "exited"
  consumed,        \* consumed_seq
  prefetched, got, \* prefetched_frame, and what mailbox_copy_next returned
  newFrame,        \* new_frame
  control,         \* control_changed
  touched,         \* touch_changed
  wakeup,          \* overlay_wakeup
  frame, base, prev,  \* the sink's buffers
  panel,           \* GRAM of the panel
  frames,          \* has a pass been completed?
  shown,           \* history: the newest frame that went through a pass
  missed,          \* history: cells where the overlay or the cursor changed in a pass
                   \* that sent other cells only because it was the overlay's
  budget           \* what is left of the bounds

mailbox == <<seq, image, acked, healthy>>
settings == <<requested, wanted, config>>
overlayState == <<due, sample>>
touch == <<down, visible, pos>>
pass == <<consumed, prefetched, got, newFrame, control, touched, wakeup>>
buffers == <<frame, base, prev, panel, frames, shown, missed>>
vars == <<mailbox, settings, overlayState, touch, pc, pass, buffers, budget>>

Bounds(c) == 1 .. c.overlay

Plain(img) == [c \in Cells |-> [colour |-> img[c], over |-> "nothing"]]
Pixels == [colour : Colours \cup {"covered", "junk"}, over : {"nothing", "cursor"} \cup Samples]

Init ==
  /\ seq = 0 /\ image \in Images /\ acked = 0 /\ healthy = TRUE
  /\ requested = FALSE /\ wanted \in Configs /\ config = wanted
  /\ due = (config.overlay > 0) /\ sample = "text1"
  /\ down = FALSE /\ visible = FALSE /\ pos = 1
  /\ pc = "first" /\ consumed = 0 /\ prefetched = FALSE /\ got = FALSE
  /\ newFrame = FALSE /\ control = FALSE /\ touched = FALSE /\ wakeup = FALSE
  /\ frame = Plain(image) /\ base = Plain(image) /\ prev = Plain(image)
  /\ panel = [c \in Cells |-> [colour |-> "junk", over |-> "nothing"]]
  /\ frames = FALSE /\ shown = 0 /\ missed = {}
  /\ budget = [frames |-> MaxFrames, touches |-> MaxTouches,
               reloads |-> MaxReloads, stalls |-> MaxStalls, faults |-> MaxFaults]

Spend(kind) == budget[kind] > 0 /\ budget' = [budget EXCEPT ![kind] = @ - 1]

-----------------------------------------------------------------------------
(* The environment.                                                        *)

\* One frame in transfer and one pending at most: then capture waits.
Publish ==
  /\ Spend("frames")
  /\ seq <= acked + 1
  /\ seq' = seq + 1 /\ image' \in Images
  /\ UNCHANGED <<acked, healthy, settings, overlayState, touch, pc, pass, buffers>>

Stall ==
  /\ healthy /\ Spend("stalls")
  /\ healthy' = FALSE
  /\ UNCHANGED <<seq, image, acked, settings, overlayState, touch, pc, pass, buffers>>

Heartbeat ==
  /\ ~healthy
  /\ healthy' = TRUE
  /\ UNCHANGED <<seq, image, acked, settings, overlayState, touch, pc, pass, buffers, budget>>

\* HAL commits a configuration and the daemon sends SIGUSR1.
Reconfigure ==
  /\ Spend("reloads")
  /\ wanted' \in Configs /\ requested' = TRUE
  /\ UNCHANGED <<mailbox, config, overlayState, touch, pc, pass, buffers>>

Timer ==
  /\ config.overlay > 0 /\ ~due
  /\ due' = TRUE
  /\ UNCHANGED <<mailbox, settings, sample, touch, pc, pass, buffers, budget>>

-----------------------------------------------------------------------------
(* The sink: start-up and the top of the loop.                             *)

FirstFrame ==
  /\ pc = "first" /\ seq > 0
  /\ consumed' = seq /\ frame' = Plain(image) /\ prefetched' = TRUE
  /\ pc' = "top"
  /\ UNCHANGED <<mailbox, settings, overlayState, touch, got, newFrame, control, touched, wakeup,
                 base, prev, panel, frames, shown, missed, budget>>

FirstFrameTimeout ==
  /\ pc = "first" /\ seq = 0
  /\ pc' = "exited"
  /\ UNCHANGED <<mailbox, settings, overlayState, touch, pass, buffers, budget>>

\* touch_release: in touch mode the cursor goes too, in mouse mode it stays.
Release == down' = FALSE /\ visible' \in {FALSE, visible} /\ UNCHANGED pos

\* A new rotation or touch affine releases the finger; then the configuration is
\* the sink's own, and its next pass draws the overlay anew.
Apply ==
  /\ requested' = FALSE /\ config' = wanted /\ due' = (wanted.overlay > 0)
  /\ \/ down' = FALSE /\ visible' = FALSE /\ UNCHANGED pos
     \/ UNCHANGED touch
  /\ UNCHANGED <<mailbox, wanted, sample, consumed, prefetched, got, newFrame, touched, wakeup,
                 buffers>>

Reload ==
  /\ pc = "top" /\ requested
  /\ Apply /\ control' = TRUE /\ pc' = "copy"
  /\ UNCHANGED budget

\* touch_affine_write_receipt fails when everything is applied.
ReloadWithoutReceipt ==
  /\ pc = "top" /\ requested
  /\ Apply /\ control' = FALSE /\ pc' = "top"
  /\ Spend("faults")

\* One of the documents is rejected: the sink keeps what it runs with.
ReloadRejected ==
  /\ pc = "top" /\ requested
  /\ requested' = FALSE /\ pc' = "copy"
  /\ Spend("faults")
  /\ UNCHANGED <<mailbox, wanted, config, overlayState, touch, pass, buffers>>

\* Mutant of Copy: the frame fetched at start-up is not kept for the loop.
CopyWithoutPrefetch ==
  /\ pc = "copy" \/ (pc = "top" /\ ~requested)
  /\ IF seq # consumed
     THEN got' = TRUE /\ frame' = Plain(image) /\ consumed' = seq
     ELSE got' = FALSE /\ UNCHANGED <<frame, consumed>>
  /\ pc' = "check"
  /\ UNCHANGED <<mailbox, settings, overlayState, touch, prefetched, newFrame, control, touched,
                 wakeup, base, prev, panel, frames, shown, missed, budget>>

\* mailbox_copy_next.
Copy ==
  /\ pc = "copy" \/ (pc = "top" /\ ~requested)
  /\ IF ~prefetched /\ seq # consumed
     THEN got' = TRUE /\ frame' = Plain(image) /\ consumed' = seq
     ELSE got' = prefetched /\ UNCHANGED <<frame, consumed>>
  /\ pc' = "check"
  /\ UNCHANGED <<mailbox, settings, overlayState, touch, prefetched, newFrame, control, touched,
                 wakeup, base, prev, panel, frames, shown, missed, budget>>

\* A dead or silent producer: release the finger and start over.
ProducerStale ==
  /\ pc = "check" /\ ~healthy
  /\ visible' = FALSE /\ down' = FALSE /\ UNCHANGED pos
  /\ control' = FALSE /\ pc' = "top"
  /\ UNCHANGED <<mailbox, settings, overlayState, consumed, prefetched, got, newFrame, touched,
                 wakeup, buffers, budget>>

-----------------------------------------------------------------------------
(* The sink: touch_poll, and the decision to make a pass.                  *)

\* A press and a move beyond the threshold report a change; a move below it, a
\* release seen on the interrupt line and a switch of the input mode do not.
TouchPoll ==
  \/ touched' = FALSE /\ UNCHANGED <<touch, budget>>
  \/ /\ Spend("touches")
     /\ \/ down' = TRUE /\ visible' = TRUE /\ pos' \in Cells /\ touched' \in BOOLEAN
        \/ Release /\ touched' \in {FALSE, down}
     /\ ~down /\ down' => touched'

\* Mutant of Poll: a reload alone does not cause a pass.
PollIgnoresControl ==
  /\ pc = "check" /\ healthy
  /\ TouchPoll
  /\ prefetched' = FALSE /\ newFrame' = got /\ wakeup' = due
  /\ IF got \/ touched' \/ due
     THEN /\ pc' = "draw"
          /\ frame' = IF got THEN frame ELSE base
          /\ UNCHANGED control
     ELSE pc' = "top" /\ control' = FALSE /\ UNCHANGED frame
  /\ UNCHANGED <<mailbox, settings, overlayState, consumed, got, base, prev, panel, frames,
                 shown, missed>>

Poll ==
  /\ pc = "check" /\ healthy
  /\ TouchPoll
  /\ prefetched' = FALSE /\ newFrame' = got /\ wakeup' = due
  /\ IF got \/ touched' \/ control \/ due
     THEN /\ pc' = "draw"
          /\ frame' = IF got THEN frame ELSE base
          /\ UNCHANGED control
     ELSE pc' = "top" /\ control' = FALSE /\ UNCHANGED frame
  /\ UNCHANGED <<mailbox, settings, overlayState, consumed, got, base, prev, panel, frames,
                 shown, missed>>

-----------------------------------------------------------------------------
(* The sink: one pass.                                                     *)

\* The frame with the overlay's text blended in and the cursor on top.
Composed(text) ==
  [c \in Cells |->
    IF config.cursor /\ visible /\ c = pos THEN [colour |-> "covered", over |-> "cursor"]
    ELSE IF c \in Bounds(config) THEN [frame[c] EXCEPT !.over = text]
    ELSE frame[c]]

\* fast_dirty_bbox: the smallest box around the cells that differ.
DirtyBox(new) ==
  LET dirty == {c \in Cells : new[c] # prev[c]}
  IN {c \in Cells : \E a, b \in dirty : a <= c /\ c <= b}

\* Mutant of IdleDamage: a new frame does not matter.
IdleDamageDespiteFrame(updated) == wakeup /\ updated /\ ~touched

\* select_overlay_idle_damage: only the overlay's timer caused this pass.
IdleDamage(updated) == wakeup /\ updated /\ ~newFrame /\ ~touched

Damage(new, updated) ==
  IF IdleDamage(updated) THEN Bounds(config)
  ELSE IF ~frames THEN Cells ELSE DirtyBox(new)

\* What is drawn over a frame and changes in a pass that only the overlay's timer
\* caused: a cursor that moved silently, or what a reload did to the two.
DrawnAnew(new, updated) ==
  IF IdleDamage(updated) THEN {c \in Cells : new[c].over # prev[c].over} ELSE {}

\* Mutant of Draw: consumed_seq reports the newest frame of the mailbox.
DrawAcksNewest(text) ==
  LET new == Composed(text)
  IN /\ pc = "draw"
     /\ text \in IF due THEN Samples ELSE {sample}
     /\ sample' = text /\ due' = FALSE
     /\ base' = IF newFrame THEN frame ELSE base
     /\ panel' = [c \in Cells |-> IF c \in Damage(new, due) THEN new[c] ELSE panel[c]]
     /\ missed' = (missed \cup DrawnAnew(new, due)) \ Damage(new, due)
     /\ prev' = new /\ frame' = prev
     /\ acked' = seq
     /\ shown' = IF newFrame THEN consumed ELSE shown
     /\ frames' = TRUE /\ control' = FALSE /\ pc' = "top"
     /\ UNCHANGED <<seq, image, healthy, settings, touch, consumed, prefetched, got, newFrame,
                    touched, wakeup, budget>>

\* Draw, select the damage, send it, swap the buffers and store consumed_seq.
Draw(text) ==
  LET new == Composed(text)
  IN /\ pc = "draw"
     /\ text \in IF due THEN Samples ELSE {sample}
     /\ sample' = text /\ due' = FALSE
     /\ base' = IF newFrame THEN frame ELSE base
     /\ panel' = [c \in Cells |-> IF c \in Damage(new, due) THEN new[c] ELSE panel[c]]
     /\ missed' = (missed \cup DrawnAnew(new, due)) \ Damage(new, due)
     /\ prev' = new /\ frame' = prev
     /\ acked' = consumed
     /\ shown' = IF newFrame THEN consumed ELSE shown
     /\ frames' = TRUE /\ control' = FALSE /\ pc' = "top"
     /\ UNCHANGED <<seq, image, healthy, settings, touch, consumed, prefetched, got, newFrame,
                    touched, wakeup, budget>>

\* send_rect fails: the sink releases the finger and exits.  What reached the
\* panel is left open: the next sink repaints all of it.
SendFails ==
  /\ pc = "draw"
  /\ pc' = "exited" /\ down' = FALSE
  /\ UNCHANGED <<mailbox, settings, overlayState, visible, pos, pass, buffers, budget>>

-----------------------------------------------------------------------------
Environment == Publish \/ Stall \/ Heartbeat \/ Reconfigure \/ Timer

SinkStep ==
  \/ FirstFrame \/ Reload \/ ReloadWithoutReceipt \/ ReloadRejected
  \/ Copy \/ ProducerStale \/ Poll
  \/ \E text \in Samples : Draw(text)

Next == Environment \/ SinkStep \/ FirstFrameTimeout \/ SendFails

Spec == Init /\ [][Next]_vars

\* The sink keeps running, a silent producer comes back (or the daemon replaces
\* the pair).  Nobody has to publish, touch or reconfigure.
FairSpec == Spec /\ WF_vars(SinkStep) /\ WF_vars(Heartbeat)

-----------------------------------------------------------------------------
TypeOK ==
  /\ seq \in 0 .. MaxFrames /\ image \in Images /\ acked \in 0 .. seq
  /\ consumed \in 0 .. seq /\ shown \in 0 .. seq
  /\ healthy \in BOOLEAN /\ requested \in BOOLEAN /\ due \in BOOLEAN
  /\ {wanted, config} \subseteq Configs /\ missed \subseteq Cells /\ sample \in Samples
  /\ down \in BOOLEAN /\ visible \in BOOLEAN /\ pos \in Cells
  /\ pc \in {"first", "top", "copy", "check", "draw", "exited"}
  /\ {prefetched, got, newFrame, control, touched, wakeup, frames} \subseteq BOOLEAN
  /\ \A b \in {frame, base, prev, panel} : b \in [Cells -> Pixels]
  /\ budget \in [{"frames", "touches", "reloads", "stalls", "faults"} -> Nat]

\* The buffer that the next pass compares with is what the panel really shows,
\* whatever is configured and however it is reloaded: no pass leaves out a pixel of
\* a frame, and what it leaves out of the overlay or the cursor is in `missed`.
PanelShowsPrev == frames => \A c \in Cells \ missed : panel[c] = prev[c]

\* A frame is reported to capture as consumed only after its pass was sent, so
\* that consumed_seq paces capture by the bus.  (Not so after the producer was
\* silent: the frame copied in that iteration is counted and dropped.)
AckedIsShown == budget.stalls = MaxStalls => acked <= shown

\* What the panel should show: the newest frame and the configured overlay.
Current ==
  \A c \in Cells \ missed :
    /\ panel[c].colour \in {image[c], "covered"}
    /\ panel[c].over = "cursor" \/ (c \in 1 .. wanted.overlay <=> panel[c].over \in Samples)

\* When the environment has come to rest the panel shows, but for what was missed,
\* the newest frame under the overlay that the configuration asks for, unless the
\* producer fell silent or a reload failed.  (The cursor may stay where it was: moves below the
\* threshold and silent releases do not cause a pass.)
Converges ==
  <>[](\/ pc = "exited" \/ seq = 0 \/ Current
       \/ budget.stalls < MaxStalls \/ budget.faults < MaxFaults)

\* The frame that was fetched while the sink waited for its producer reaches the
\* panel whatever the producer does next.
FirstFrameShown == prefetched ~> (shown > 0 \/ pc = "exited")
=============================================================================
