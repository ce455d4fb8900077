----------------------------- MODULE TouchInput -----------------------------
(***************************************************************************)
(* The sink's touch input outside calibration: touch_poll turns samples of *)
(* the panel into a contact on the UHID touchscreen or a button of the     *)
(* XTest pointer, follows the mode file, and gives the contact back when   *)
(* the producer dies, the geometry changes or the sink ends.               *)
(*                                                                         *)
(* Positions are one axis of the panel.  The kernel's UHID device and the  *)
(* X server are what they show the user: a contact or button, and where.   *)
(* USB transfers behind a sample are in SpiBus; here a sample is an error, *)
(* nothing, too weak, or firm.                                             *)
(***************************************************************************)
EXTENDS Integers

CONSTANTS
  Span,           \* last position of the panel
  MoveThresh,     \* move_thresh
  JumpThresh,     \* jump_thresh
  Weight,         \* filter_weight
  MaxErrors,      \* max_errors
  DisableOnErrors,\* disable_on_errors
  Availabilities  \* sets of modes whose device can be opened

ASSUME FilterAssumption ==
  Span \in Nat \ {0} /\ MoveThresh \in Nat \ {0} /\ JumpThresh \in Nat \ {0} /\ Weight \in Nat
ASSUME ErrorsAssumption == MaxErrors \in Nat \ {0} /\ DisableOnErrors \in BOOLEAN

Positions == 0 .. Span
Modes == {"touch", "mouse"}
Rotations == {"normal", "inverted"}
Nobody == -1

ASSUME AvailabilityAssumption == Availabilities \subseteq SUBSET Modes

VARIABLES
  finger,     \* where the finger is, or Nobody
  modeFile,   \* what the mode file asks for
  available,  \* devices that can be opened
  sink,       \* "up" or "down"
  ts,         \* struct touch_state
  device,     \* what the kernel and the X server show
  orphan      \* history: the button was left pressed by a sink that was killed

vars == <<finger, modeFile, available, sink, ts, device, orphan>>

Distance(x, y) == IF x < y THEN y - x ELSE x - y

\* frame_rotation_unmap_point (external, frame_rotation.h).
Logical(rotation, x) == IF rotation = "normal" THEN x ELSE Span - x

\* A contact with its position, and the button; the pointer's position is left out.
Idle == [down |-> FALSE, at |-> 0, button |-> FALSE]

\* The state main() gives touch before it opens a device.
Fresh(mode, rotation) ==
  [enabled |-> TRUE, mode |-> mode, open |-> {}, down |-> FALSE, visible |-> FALSE,
   last |-> 0, filtered |-> 0, filterValid |-> FALSE, errors |-> 0, rotation |-> rotation]

\* The device of the initial mode is opened, or touch is disabled.
Started(mode, rotation) ==
  LET new == Fresh(mode, rotation)
  IN IF mode \in available THEN [new EXCEPT !.open = {mode}] ELSE [new EXCEPT !.enabled = FALSE]

Init ==
  /\ finger = Nobody /\ modeFile \in Modes /\ available \in Availabilities
  /\ sink = "up" /\ ts \in {Started(modeFile, r) : r \in Rotations}
  /\ device = Idle /\ orphan = FALSE

-----------------------------------------------------------------------------
(* Reports.                                                                *)

\* touch_uhid_report(x, 1), or x11_touch_motion and for a press the button.
Reported(t, d, x) ==
  IF t.mode \notin t.open THEN d
  ELSE IF t.mode = "touch"
  THEN [d EXCEPT !.down = TRUE, !.at = Logical(t.rotation, x)]
  ELSE [d EXCEPT !.button = @ \/ ~t.down]

\* touch_uhid_report(last_x, 0) or x11_touch_button(0).
Lifted(t, d) ==
  IF t.mode \notin t.open THEN d
  ELSE IF t.mode = "touch"
  THEN [d EXCEPT !.down = FALSE, !.at = Logical(t.rotation, t.last)]
  ELSE [d EXCEPT !.button = FALSE]

\* Mutant of Released: in touch mode only.
ReleasedInTouchMode(t, d) ==
  IF ~t.down THEN <<t, d>>
  ELSE <<[t EXCEPT !.down = FALSE, !.filterValid = FALSE, !.visible = @ /\ t.mode = "mouse"],
         IF t.mode = "touch" THEN Lifted(t, d) ELSE d>>

\* touch_release.
Released(t, d) ==
  IF ~t.down THEN <<t, d>>
  ELSE <<[t EXCEPT !.down = FALSE, !.filterValid = FALSE, !.visible = @ /\ t.mode = "mouse"],
         Lifted(t, d)>>

\* Mutant of Settled: a device that was not opened at the start stays closed.
SettledWithoutOpening(t, m) ==
  IF m = "mouse" /\ "mouse" \notin t.open THEN "touch" ELSE m

\* The mode that touch_set_input_mode ends in: with no device for the one asked
\* for it falls back to touch, and from there to mouse.
Settled(t, m) ==
  LET can(n) == n \in t.open \cup available
      m1 == IF m = "mouse" /\ ~can("mouse") THEN "touch" ELSE m
  IN IF m1 = "touch" /\ ~can("touch") THEN "mouse" ELSE m1

\* Mutant of Switched: the contact of the old mode is not lifted.
SwitchedWithoutLifting(t, d, m) ==
  IF m = t.mode THEN <<t, d>>
  ELSE LET n == Settled(t, m)
       IN <<[t EXCEPT !.mode = n, !.open = @ \cup ({n} \cap available), !.down = FALSE,
                      !.filterValid = FALSE, !.visible = @ /\ n = "mouse"], d>>

\* touch_set_input_mode.
Switched(t, d, m) ==
  IF m = t.mode THEN <<t, d>>
  ELSE LET n == Settled(t, m)
       IN <<[t EXCEPT !.mode = n, !.open = @ \cup ({n} \cap available), !.down = FALSE,
                      !.filterValid = FALSE, !.visible = @ /\ n = "mouse"],
            IF t.down THEN Lifted(t, d) ELSE d>>

-----------------------------------------------------------------------------
(* touch_poll.                                                             *)

\* Mutant of Filtered: a jump is taken for noise, however often it is seen.
FilteredRejectsJumps(t, x) ==
  IF ~t.filterValid \/ ~t.down THEN x
  ELSE IF Distance(x, t.filtered) > JumpThresh THEN t.filtered
  ELSE (t.filtered * Weight + x) \div (Weight + 1)

\* Mutant of Filtered: the last stroke's position is still in the filter.
FilteredAcrossStrokes(t, x) ==
  IF ~t.filterValid \/ Distance(x, t.filtered) > JumpThresh THEN x
  ELSE (t.filtered * Weight + x) \div (Weight + 1)

Filtered(t, x) ==
  IF ~t.filterValid \/ ~t.down \/ Distance(x, t.filtered) > JumpThresh THEN x
  ELSE (t.filtered * Weight + x) \div (Weight + 1)

\* The sample enters the filter before its pressure is looked at.
Sampled(t, x) == [t EXCEPT !.filtered = Filtered(t, x), !.filterValid = TRUE]

Failed(t) ==
  LET n == IF t.errors < MaxErrors THEN t.errors + 1 ELSE MaxErrors
  IN [t EXCEPT !.errors = n, !.enabled = @ /\ ~(DisableOnErrors /\ n = MaxErrors)]

\* A firm sample: the first one of a stroke and moves of at least move_thresh are
\* reported.
Touched(t0, d) ==
  LET t == [t0 EXCEPT !.errors = 0, !.visible = TRUE,
                      !.last = IF t0.visible THEN @ ELSE t0.filtered]
      x == t.filtered
  IN IF ~t.down \/ Distance(x, t.last) >= MoveThresh
     THEN <<[t EXCEPT !.down = TRUE, !.last = x], Reported(t, d, x)>>
     ELSE <<t, d>>

\* What a transaction on the bus can tell of the finger.
Samples == IF finger = Nobody THEN {"error", "none"} ELSE {"error", "none", "weak", "firm"}

\* The rest of touch_poll when its interval is over.
Sensed(sample, t, d) ==
  CASE sample = "error" -> <<Failed(t), d>>
    [] sample = "none"  -> Released(t, d)
    [] sample = "weak"  -> Released(Sampled(t, finger), d)
    [] sample = "firm"  -> Touched(Sampled(t, finger), d)

\* touch_check_input_mode and the poll each have an interval of their own.
Poll(checks, sample) ==
  LET checked == IF checks THEN Switched(ts, device, modeFile) ELSE <<ts, device>>
      done == IF sample = "early" THEN checked ELSE Sensed(sample, checked[1], checked[2])
  IN /\ sink = "up" /\ ts.enabled
     /\ ts' = done[1] /\ device' = done[2]
     /\ orphan' = (orphan /\ device'.button)
     /\ UNCHANGED <<finger, modeFile, available, sink>>

-----------------------------------------------------------------------------
(* The rest of the sink.                                                   *)

\* Mutant of Reload: the rotation changes under the contact.
ReloadRotatesFirst(rotation, affineChanged) ==
  LET rotated == [ts EXCEPT !.rotation = rotation]
      done == Released(rotated, device)
      changed == affineChanged \/ rotation # ts.rotation
  IN /\ sink = "up"
     /\ ts' = IF changed THEN [done[1] EXCEPT !.visible = FALSE, !.filterValid = FALSE] ELSE ts
     /\ device' = IF changed THEN done[2] ELSE device
     /\ orphan' = (orphan /\ device'.button)
     /\ UNCHANGED <<finger, modeFile, available, sink>>

\* A reload with another rotation or affine map releases the contact before the
\* map changes.
Reload(rotation, affineChanged) ==
  LET done == Released(ts, device)
      changed == affineChanged \/ rotation # ts.rotation
  IN /\ sink = "up"
     /\ ts' = IF changed
              THEN [done[1] EXCEPT !.visible = FALSE, !.filterValid = FALSE, !.rotation = rotation]
              ELSE ts
     /\ device' = IF changed THEN done[2] ELSE device
     /\ orphan' = (orphan /\ device'.button)
     /\ UNCHANGED <<finger, modeFile, available, sink>>

\* Mutant of ProducerStale: the cursor is hidden and the contact kept.
ProducerStaleKeepsContact ==
  /\ sink = "up"
  /\ ts' = [ts EXCEPT !.visible = FALSE]
  /\ UNCHANGED <<finger, modeFile, available, sink, device, orphan>>

\* The mailbox's producer is silent.
ProducerStale ==
  LET done == Released(ts, device)
  IN /\ sink = "up"
     /\ ts' = [done[1] EXCEPT !.visible = FALSE] /\ device' = done[2]
     /\ orphan' = (orphan /\ device'.button)
     /\ UNCHANGED <<finger, modeFile, available, sink>>

\* The sink leaves through "out:": it lifts the contact and closes its devices.
Leave ==
  LET lifted == IF ts.down THEN Lifted(ts, device) ELSE device
  IN /\ sink = "up"
     /\ sink' = "down" /\ device' = [lifted EXCEPT !.down = FALSE]
     /\ orphan' = (orphan /\ device'.button)
     /\ UNCHANGED <<finger, modeFile, available, ts>>

\* stop_stream's SIGTERM: there is no handler, so the kernel removes the UHID
\* device with its contact, but the X server keeps the button as it was.
Kill ==
  /\ sink = "up"
  /\ sink' = "down" /\ device' = [device EXCEPT !.down = FALSE]
  /\ orphan' = device.button
  /\ UNCHANGED <<finger, modeFile, available, ts>>

\* The daemon starts the next sink, with the configured mode.
Start(mode) ==
  /\ sink = "down"
  /\ sink' = "up" /\ ts' = Started(mode, ts.rotation)
  /\ UNCHANGED <<finger, modeFile, available, device, orphan>>

-----------------------------------------------------------------------------
Finger == /\ finger' \in Positions \cup {Nobody}
          /\ UNCHANGED <<modeFile, available, sink, ts, device, orphan>>

\* A write of the mode file; one it cannot parse leaves the mode as it is.
ChooseMode == /\ modeFile' \in Modes
              /\ UNCHANGED <<finger, available, sink, ts, device, orphan>>

Polls == \E checks \in BOOLEAN, sample \in Samples \cup {"early"} : Poll(checks, sample)

Next ==
  \/ Finger \/ ChooseMode \/ Polls
  \/ \E rotation \in Rotations, affineChanged \in BOOLEAN : Reload(rotation, affineChanged)
  \/ ProducerStale \/ Leave \/ Kill
  \/ \E mode \in Modes : Start(mode)

Spec == Init /\ [][Next]_vars

\* The main loop comes by again and again: each interval runs out, though not in
\* the same call, and some transactions succeed.
FairSpec ==
  /\ Spec
  /\ WF_vars(\E sample \in Samples \cup {"early"} : Poll(TRUE, sample))
  /\ WF_vars(\E checks \in BOOLEAN, sample \in Samples \ {"error"} : Poll(checks, sample))

-----------------------------------------------------------------------------
TypeOK ==
  /\ finger \in Positions \cup {Nobody} /\ modeFile \in Modes /\ available \in Availabilities
  /\ sink \in {"up", "down"} /\ orphan \in BOOLEAN
  /\ ts \in [enabled : BOOLEAN, mode : Modes, open : SUBSET Modes, down : BOOLEAN,
             visible : BOOLEAN, last : Positions, filtered : Positions, filterValid : BOOLEAN,
             errors : 0 .. MaxErrors, rotation : Rotations]
  /\ device \in [down : BOOLEAN, at : Positions, button : BOOLEAN]

\* What the user's programs see pressed is exactly what the sink believes: the
\* contact or button of the current mode, never one of a former mode and never
\* one without a sink, except for a button left behind by a sink that was killed.
OneContact ==
  /\ device.down <=> sink = "up" /\ ts.down /\ ts.mode = "touch" /\ "touch" \in ts.open
  /\ sink = "up" /\ ts.down /\ ts.mode = "mouse" /\ "mouse" \in ts.open => device.button
  /\ device.button => orphan \/ (sink = "up" /\ ts.down /\ ts.mode = "mouse")

\* While the finger is down the cursor position is live, so that no move is taken
\* for the first one.
DownIsVisible == sink = "up" /\ ts.down => ts.visible

\* A stroke starts where the finger is, whatever the filter held before.
StrokeStartsAtFinger ==
  [][~device.down /\ device'.down
       => device'.at = Logical(ts.rotation, finger)]_vars

\* A contact is lifted where it was reported last: not even a change of rotation
\* turns the end of a stroke into a jump.
LiftedInPlace ==
  [][device.down /\ ~device'.down
       => device'.at = device.at]_vars

\* A finger that is gone does not stay pressed, however the stroke ended.
FingerUpIsSeen ==
  finger = Nobody ~> \/ finger # Nobody \/ sink = "down" \/ ~ts.enabled \/ orphan
                     \/ (~device.down /\ ~device.button)

\* When the finger rests the contact comes to rest near it: the filter's integer
\* division and the move threshold together leave no more than this distance.
Tolerance == Weight + MoveThresh - 1

SettlesAtFinger ==
  \A p \in Positions :
    <>[](finger = p /\ sink = "up" /\ ts.enabled)
      => []<>(\/ ~device.down
              \/ Distance(device.at, Logical(ts.rotation, p)) <= Tolerance)

\* The mode file wins as long as its device can be opened.
ModeIsFollowed ==
  \A m \in Modes :
    <>[](modeFile = m /\ sink = "up" /\ ts.enabled /\ m \in available) => <>[](ts.mode = m)
=============================================================================
