------------------------- MODULE TouchInput_proofs -------------------------
(***************************************************************************)
(* What the user's programs see pressed is what the sink believes, and a   *)
(* stroke begins at the finger and ends where it was reported last: for    *)
(* every panel, filter, threshold and set of devices that can be opened.   *)
(***************************************************************************)
EXTENDS TouchInput, TLAPS

TouchStates ==
  [enabled : BOOLEAN, mode : Modes, open : SUBSET Modes, down : BOOLEAN,
   visible : BOOLEAN, last : Positions, filtered : Positions, filterValid : BOOLEAN,
   errors : 0 .. MaxErrors, rotation : Rotations]
Devices == [down : BOOLEAN, at : Positions, button : BOOLEAN]

\* What a running sink believes fits what its devices show; o: a button was left behind.
Fits(t, d, o) ==
  /\ d.down <=> t.down /\ t.mode = "touch" /\ "touch" \in t.open
  /\ t.down /\ t.mode = "mouse" /\ "mouse" \in t.open => d.button
  /\ d.button => o \/ (t.down /\ t.mode = "mouse" /\ "mouse" \in t.open)
  /\ t.down => t.visible
  /\ d.down => d.at = Logical(t.rotation, t.last)

TouchInv ==
  /\ TypeOK
  /\ sink = "up" => Fits(ts, device, orphan)
  /\ sink = "down" => ~device.down /\ (device.button => orphan)

-----------------------------------------------------------------------------
(* The operators of touch_poll.                                            *)

\* The filter's average lies on the panel.
LEMMA AverageType ==
  ASSUME NEW f \in Positions, NEW x \in Positions
  PROVE  (f * Weight + x) \div (Weight + 1) \in Positions
<1> DEFINE w == Weight + 1
           q == (f * Weight + x) \div w
           r == (f * Weight + x) % w
<1> USE FilterAssumption DEF Positions
<1>1. w \in Nat \ {0} /\ f * Weight \in Nat /\ f * Weight <= Span * Weight /\ Span * Weight \in Nat
  BY Z3
<1>2. q \in Int /\ r \in 0 .. w - 1 /\ f * Weight + x = w * q + r
  BY <1>1, Z3
<1>3. Span * w = Span * Weight + Span
  BY Z3
<1> HIDE DEF w, q, r
<1>4. w * q <= Span * w /\ w * q > - w
  BY <1>1, <1>2, <1>3, Z3
<1>5. q <= Span
  <2> SUFFICES ASSUME q >= Span + 1 PROVE FALSE
    BY <1>2
  <2>1. w * q >= w * (Span + 1) /\ w * (Span + 1) = Span * w + w
    BY <1>1, <1>2, Z3
  <2> QED
    BY <1>1, <1>2, <1>3, <1>4, <2>1
<1>6. q >= 0
  <2> SUFFICES ASSUME q <= -1 PROVE FALSE
    BY <1>2
  <2>1. w * q <= - w
    BY <1>1, <1>2, Z3
  <2> QED
    BY <1>1, <1>2, <1>4, <2>1
<1> QED
  BY <1>2, <1>5, <1>6 DEF q, w

LEMMA LogicalType ==
  ASSUME NEW r \in Rotations, NEW x \in Positions
  PROVE  Logical(r, x) \in Positions
  BY FilterAssumption DEF Logical, Positions

LEMMA SampledType ==
  ASSUME NEW t \in TouchStates, NEW x \in Positions
  PROVE  /\ Sampled(t, x) \in TouchStates
         /\ Sampled(t, x) = [t EXCEPT !.filtered = Filtered(t, x), !.filterValid = TRUE]
         /\ ~t.down => Filtered(t, x) = x
<1>1. Filtered(t, x) \in Positions
  <2>1. t.filtered \in Positions
    BY DEF TouchStates
  <2> QED
    BY <2>1, AverageType DEF Filtered
<1> QED
  BY <1>1 DEF Sampled, TouchStates, Filtered

LEMMA LiftedFits ==
  ASSUME NEW t \in TouchStates, NEW d \in Devices, NEW o \in BOOLEAN, Fits(t, d, o), t.down
  PROVE  /\ Lifted(t, d) \in Devices /\ Lifted(t, d).at = d.at
         /\ ~Lifted(t, d).down /\ (Lifted(t, d).button => o)
<1>1. t.last \in Positions /\ t.rotation \in Rotations /\ t.mode \in Modes
  BY DEF TouchStates
<1>2. Logical(t.rotation, t.last) \in Positions
  BY <1>1, LogicalType
<1> QED
  BY <1>1, <1>2 DEF Lifted, Fits, Devices, Modes

\* touch_release leaves nothing pressed and the contact where it was.
LEMMA ReleasedFits ==
  ASSUME NEW t \in TouchStates, NEW d \in Devices, NEW o \in BOOLEAN, Fits(t, d, o)
  PROVE  LET r == Released(t, d)
         IN /\ r[1] \in TouchStates /\ r[2] \in Devices /\ Fits(r[1], r[2], o)
            /\ ~r[1].down /\ ~r[2].down /\ (r[2].button => o)
            /\ r[2].at = d.at /\ r[1].rotation = t.rotation
<1>1. CASE ~t.down
  BY <1>1 DEF Released, Fits
<1>2. CASE t.down
  <2> DEFINE u == [t EXCEPT !.down = FALSE, !.filterValid = FALSE,
                            !.visible = @ /\ t.mode = "mouse"]
  <2>1. u \in TouchStates /\ ~u.down /\ u.rotation = t.rotation
    BY DEF TouchStates
  <2>2. Lifted(t, d) \in Devices /\ Lifted(t, d).at = d.at
        /\ ~Lifted(t, d).down /\ (Lifted(t, d).button => o)
    BY <1>2, LiftedFits
  <2>3. Released(t, d)[1] = u /\ Released(t, d)[2] = Lifted(t, d)
    BY <1>2 DEF Released
  <2> HIDE DEF u
  <2>4. Fits(u, Lifted(t, d), o)
    BY <2>1, <2>2 DEF Fits
  <2> QED
    BY <2>1, <2>2, <2>3, <2>4
<1> QED
  BY <1>1, <1>2 DEF TouchStates

\* A change of mode leaves nothing pressed, or is none.
LEMMA SwitchedFits ==
  ASSUME NEW t \in TouchStates, NEW d \in Devices, NEW o \in BOOLEAN, Fits(t, d, o),
         NEW m \in Modes, available \in SUBSET Modes
  PROVE  LET s == Switched(t, d, m)
         IN /\ s[1] \in TouchStates /\ s[2] \in Devices /\ Fits(s[1], s[2], o)
            /\ s[2].at = d.at /\ (s[2].down => d.down) /\ s[1].rotation = t.rotation
<1>1. CASE m = t.mode
  BY <1>1 DEF Switched
<1>2. CASE m # t.mode
  <2> DEFINE n == Settled(t, m)
             u == [t EXCEPT !.mode = n, !.open = @ \cup ({n} \cap available), !.down = FALSE,
                            !.filterValid = FALSE, !.visible = @ /\ n = "mouse"]
             e == IF t.down THEN Lifted(t, d) ELSE d
  <2>1. n \in Modes
    BY DEF Settled, Modes
  <2> HIDE DEF n
  <2>2. u \in TouchStates /\ ~u.down /\ u.rotation = t.rotation
    BY <2>1 DEF TouchStates
  <2>3. e \in Devices /\ e.at = d.at /\ ~e.down /\ (e.button => o)
    <3>1. CASE t.down
      BY <3>1, LiftedFits
    <3>2. CASE ~t.down
      BY <3>2 DEF Fits
    <3> QED
      BY <3>1, <3>2 DEF TouchStates
  <2>4. Switched(t, d, m)[1] = u /\ Switched(t, d, m)[2] = e
    BY <1>2 DEF Switched, n
  <2> HIDE DEF u, e
  <2>5. Fits(u, e, o)
    BY <2>2, <2>3 DEF Fits
  <2> QED
    BY <2>2, <2>3, <2>4, <2>5
<1> QED
  BY <1>1, <1>2

\* A firm sample presses at the sample, or moves what is pressed.
LEMMA TouchedFits ==
  ASSUME NEW t \in TouchStates, NEW d \in Devices, NEW o \in BOOLEAN, Fits(t, d, o),
         NEW x \in Positions
  PROVE  LET s == Touched(Sampled(t, x), d)
         IN /\ s[1] \in TouchStates /\ s[2] \in Devices /\ Fits(s[1], s[2], o)
            /\ ~s[2].down => s[2].at = d.at
            /\ ~d.down /\ s[2].down => s[2].at = Logical(t.rotation, x)
<1> DEFINE f == Filtered(t, x)
           u == [Sampled(t, x) EXCEPT !.errors = 0, !.visible = TRUE,
                                      !.last = IF Sampled(t, x).visible THEN @ ELSE Sampled(t, x).filtered]
           v == [u EXCEPT !.down = TRUE, !.last = u.filtered]
<1>1. /\ Sampled(t, x) \in TouchStates /\ (~t.down => f = x)
      /\ Sampled(t, x) = [t EXCEPT !.filtered = f, !.filterValid = TRUE]
  BY SampledType
<1> HIDE DEF f
<1>2. 0 \in 0 .. MaxErrors
  BY ErrorsAssumption
<1>3. /\ u \in TouchStates /\ u.visible /\ u.filtered = f /\ u.rotation = t.rotation
      /\ u.down = t.down /\ u.mode = t.mode /\ u.open = t.open
      /\ t.down => u.last = t.last
  BY <1>1, <1>2 DEF TouchStates, Fits
<1> HIDE DEF u
<1>4. /\ v \in TouchStates /\ v.visible /\ v.rotation = t.rotation
      /\ v.down /\ v.mode = t.mode /\ v.open = t.open /\ v.last = f
  BY <1>3 DEF TouchStates
<1>5. f \in Positions /\ Logical(t.rotation, f) \in Positions
  BY <1>3, LogicalType DEF TouchStates
<1> HIDE DEF v
<1>6. CASE Touched(Sampled(t, x), d) = <<u, d>> /\ u.down
  BY <1>3, <1>6 DEF Fits
<1>7. CASE Touched(Sampled(t, x), d) = <<v, Reported(u, d, f)>>
  <2> DEFINE e == Reported(u, d, f)
  <2>1. t.mode \in Modes /\ t.down \in BOOLEAN
    BY DEF TouchStates
  <2>2. e \in Devices /\ e.down = (d.down \/ (t.mode = "touch" /\ "touch" \in t.open))
        /\ e.button = (d.button \/ (t.mode = "mouse" /\ "mouse" \in t.open /\ ~t.down))
        /\ e.at = IF t.mode = "touch" /\ "touch" \in t.open THEN Logical(t.rotation, f) ELSE d.at
    BY <1>3, <1>5, <2>1 DEF Reported, Devices, Modes
  <2> HIDE DEF e
  <2>3. Fits(v, e, o)
    BY <1>4, <2>1, <2>2 DEF Fits, Modes
  <2>4. ~e.down => e.at = d.at
    BY <2>2
  <2>5. ~d.down /\ e.down => e.at = Logical(t.rotation, x)
    BY <1>1, <2>2 DEF Fits
  <2>6. Touched(Sampled(t, x), d)[1] = v /\ Touched(Sampled(t, x), d)[2] = e
    BY <1>7 DEF e
  <2> QED
    BY <1>4, <2>2, <2>3, <2>4, <2>5, <2>6
<1> QED
  BY <1>3, <1>6, <1>7 DEF Touched, u, v

-----------------------------------------------------------------------------
(* One poll.                                                               *)

\* What the rest of touch_poll makes of a sample.
LEMMA SensedFits ==
  ASSUME NEW t \in TouchStates, NEW d \in Devices, NEW o \in BOOLEAN, Fits(t, d, o),
         finger \in Positions \cup {Nobody}, NEW sample \in Samples
  PROVE  LET s == Sensed(sample, t, d)
         IN /\ s[1] \in TouchStates /\ s[2] \in Devices /\ Fits(s[1], s[2], o)
            /\ ~s[2].down => s[2].at = d.at
            /\ ~d.down /\ s[2].down => s[2].at = Logical(t.rotation, finger)
<1>1. CASE sample = "error"
  <2>1. Failed(t) \in TouchStates /\ Failed(t).down = t.down /\ Failed(t).visible = t.visible
        /\ Failed(t).mode = t.mode /\ Failed(t).open = t.open /\ Failed(t).last = t.last
        /\ Failed(t).rotation = t.rotation
    <3> DEFINE n == IF t.errors < MaxErrors THEN t.errors + 1 ELSE MaxErrors
               b == t.enabled /\ ~(DisableOnErrors /\ n = MaxErrors)
    <3>1. n \in 0 .. MaxErrors
      BY ErrorsAssumption DEF TouchStates
    <3>2. b \in BOOLEAN
      BY ErrorsAssumption DEF TouchStates
    <3>3. Failed(t) = [t EXCEPT !.errors = n, !.enabled = b]
      BY DEF Failed
    <3> HIDE DEF n, b
    <3> QED
      BY <3>1, <3>2, <3>3 DEF TouchStates
  <2>2. Sensed(sample, t, d)[1] = Failed(t) /\ Sensed(sample, t, d)[2] = d
    BY <1>1 DEF Sensed
  <2> QED
    BY <2>1, <2>2 DEF Fits
<1>2. CASE sample = "none"
  <2>1. Sensed(sample, t, d) = Released(t, d)
    BY <1>2 DEF Sensed
  <2> QED
    BY <2>1, ReleasedFits
<1>3. ASSUME sample \in {"weak", "firm"}
      PROVE  finger \in Positions
  BY <1>3 DEF Samples
<1>4. CASE sample = "weak"
  <2> DEFINE u == Sampled(t, finger)
  <2>1. /\ u \in TouchStates
        /\ u = [t EXCEPT !.filtered = Filtered(t, finger), !.filterValid = TRUE]
    BY <1>3, <1>4, SampledType
  <2>2. Fits(u, d, o)
    BY <2>1 DEF Fits, TouchStates
  <2>3. Sensed(sample, t, d) = Released(u, d)
    BY <1>4 DEF Sensed
  <2> HIDE DEF u
  <2> QED
    BY <2>1, <2>2, <2>3, ReleasedFits
<1>5. CASE sample = "firm"
  <2>1. Sensed(sample, t, d) = Touched(Sampled(t, finger), d)
    BY <1>5 DEF Sensed
  <2> QED
    BY <1>3, <1>5, <2>1, TouchedFits
<1> QED
  BY <1>1, <1>2, <1>4, <1>5 DEF Samples

\* What every step of a running sink is held to.
Strokes ==
  /\ device.down /\ ~device'.down => device'.at = device.at
  /\ ~device.down /\ device'.down => device'.at = Logical(ts.rotation, finger)

LEMMA PollFits ==
  ASSUME TouchInv, NEW checks \in BOOLEAN, NEW sample \in Samples \cup {"early"},
         Poll(checks, sample)
  PROVE  TouchInv' /\ Strokes
<1> DEFINE c == IF checks THEN Switched(ts, device, modeFile) ELSE <<ts, device>>
           e == IF sample = "early" THEN c ELSE Sensed(sample, c[1], c[2])
<1>1. /\ ts \in TouchStates /\ device \in Devices /\ orphan \in BOOLEAN /\ modeFile \in Modes
      /\ finger \in Positions \cup {Nobody} /\ available \in SUBSET Modes
      /\ sink = "up" /\ Fits(ts, device, orphan)
  BY AvailabilityAssumption DEF TouchInv, TypeOK, TouchStates, Devices, Poll
<1>2. /\ ts' = e[1] /\ device' = e[2] /\ orphan' = (orphan /\ device'.button)
      /\ UNCHANGED <<finger, modeFile, available, sink>>
  BY DEF Poll
<1>3. /\ c[1] \in TouchStates /\ c[2] \in Devices /\ Fits(c[1], c[2], orphan)
      /\ c[2].at = device.at /\ (c[2].down => device.down) /\ c[1].rotation = ts.rotation
  <2>1. CASE checks
    BY <1>1, <2>1, SwitchedFits
  <2>2. CASE ~checks
    BY <1>1, <2>2
  <2> QED
    BY <2>1, <2>2
<1> HIDE DEF c
<1>4. /\ e[1] \in TouchStates /\ e[2] \in Devices /\ Fits(e[1], e[2], orphan)
      /\ ~e[2].down => e[2].at = c[2].at
      /\ ~c[2].down /\ e[2].down => e[2].at = Logical(c[1].rotation, finger)
  <2>1. CASE sample = "early"
    BY <1>3, <2>1
  <2>2. CASE sample \in Samples
    BY <1>1, <1>3, <2>2, SensedFits DEF Samples
  <2> QED
    BY <2>1, <2>2
<1> HIDE DEF e
<1>5. Fits(ts', device', orphan')
  BY <1>2, <1>4 DEF Fits
<1>6. TypeOK'
  BY <1>1, <1>2, <1>4 DEF TypeOK, TouchStates, Devices, TouchInv
<1>7. Strokes
  BY <1>2, <1>3, <1>4 DEF Strokes
<1> QED
  BY <1>1, <1>2, <1>5, <1>6, <1>7 DEF TouchInv

-----------------------------------------------------------------------------
(* The other steps.                                                        *)

LEMMA ReloadFits ==
  ASSUME TouchInv, NEW rotation \in Rotations, NEW affineChanged \in BOOLEAN,
         Reload(rotation, affineChanged)
  PROVE  TouchInv' /\ Strokes
<1> DEFINE r == Released(ts, device)
           u == [r[1] EXCEPT !.visible = FALSE, !.filterValid = FALSE, !.rotation = rotation]
<1>1. /\ ts \in TouchStates /\ device \in Devices /\ orphan \in BOOLEAN
      /\ sink = "up" /\ Fits(ts, device, orphan)
  BY DEF TouchInv, TypeOK, TouchStates, Devices, Reload
<1>2. /\ r[1] \in TouchStates /\ r[2] \in Devices /\ ~r[1].down /\ ~r[2].down
      /\ r[2].button => orphan
      /\ r[2].at = device.at
  BY <1>1, ReleasedFits
<1>3. /\ \/ ts' = u /\ device' = r[2]
         \/ ts' = ts /\ device' = device
      /\ orphan' = (orphan /\ device'.button)
      /\ UNCHANGED <<finger, modeFile, available, sink>>
  BY DEF Reload
<1> HIDE DEF r
<1>4. CASE ts' = u /\ device' = r[2]
  <2>1. u \in TouchStates /\ ~u.down
    BY <1>2 DEF TouchStates
  <2> HIDE DEF u
  <2>2. Fits(ts', device', orphan')
    BY <1>2, <1>3, <1>4, <2>1 DEF Fits
  <2>3. TypeOK'
    BY <1>1, <1>2, <1>3, <1>4, <2>1 DEF TypeOK, TouchStates, Devices, TouchInv
  <2>4. Strokes
    BY <1>2, <1>4 DEF Strokes
  <2> QED
    BY <1>1, <1>3, <2>2, <2>3, <2>4 DEF TouchInv
<1>5. CASE ts' = ts /\ device' = device
  <2>1. Fits(ts', device', orphan')
    BY <1>1, <1>3, <1>5 DEF Fits
  <2>2. TypeOK'
    BY <1>1, <1>3, <1>5 DEF TypeOK, TouchInv
  <2> QED
    BY <1>1, <1>3, <1>5, <2>1, <2>2 DEF TouchInv, Strokes
<1> QED
  BY <1>3, <1>4, <1>5

LEMMA ProducerStaleFits ==
  ASSUME TouchInv, ProducerStale
  PROVE  TouchInv' /\ Strokes
<1> DEFINE r == Released(ts, device)
<1>1. /\ ts \in TouchStates /\ device \in Devices /\ orphan \in BOOLEAN
      /\ sink = "up" /\ Fits(ts, device, orphan)
  BY DEF TouchInv, TypeOK, TouchStates, Devices, ProducerStale
<1>2. /\ r[1] \in TouchStates /\ r[2] \in Devices /\ ~r[1].down /\ ~r[2].down
      /\ r[2].button => orphan
      /\ r[2].at = device.at
  BY <1>1, ReleasedFits
<1>3. /\ ts' = [r[1] EXCEPT !.visible = FALSE] /\ device' = r[2]
      /\ orphan' = (orphan /\ device'.button)
      /\ UNCHANGED <<finger, modeFile, available, sink>>
  BY DEF ProducerStale
<1> HIDE DEF r
<1>4. ts' \in TouchStates /\ ~ts'.down
  BY <1>2, <1>3 DEF TouchStates
<1>5. Fits(ts', device', orphan')
  BY <1>2, <1>3, <1>4 DEF Fits
<1>6. TypeOK'
  BY <1>1, <1>2, <1>3, <1>4 DEF TypeOK, TouchStates, Devices, TouchInv
<1>7. Strokes
  BY <1>2, <1>3 DEF Strokes
<1> QED
  BY <1>1, <1>3, <1>5, <1>6, <1>7 DEF TouchInv

LEMMA LeaveFits ==
  ASSUME TouchInv, Leave \/ Kill
  PROVE  TouchInv' /\ Strokes
<1>1. /\ ts \in TouchStates /\ device \in Devices /\ orphan \in BOOLEAN
      /\ sink = "up" /\ Fits(ts, device, orphan)
  BY DEF TouchInv, TypeOK, TouchStates, Devices, Leave, Kill
<1>2. CASE Leave
  <2> DEFINE l == IF ts.down THEN Lifted(ts, device) ELSE device
  <2>1. l \in Devices /\ l.at = device.at /\ (l.button => orphan)
    <3>1. CASE ts.down
      BY <1>1, <3>1, LiftedFits
    <3>2. CASE ~ts.down
      BY <1>1, <3>2 DEF Fits
    <3> QED
      BY <3>1, <3>2 DEF TouchStates
  <2>2. /\ sink' = "down" /\ device' = [l EXCEPT !.down = FALSE]
        /\ orphan' = (orphan /\ device'.button)
        /\ UNCHANGED <<finger, modeFile, available, ts>>
    BY <1>2 DEF Leave
  <2> HIDE DEF l
  <2>3. device' \in Devices /\ device'.at = device.at /\ ~device'.down
        /\ (device'.button => orphan) /\ orphan' \in BOOLEAN
    BY <1>1, <2>1, <2>2 DEF Devices
  <2> QED
    BY <2>2, <2>3 DEF TouchInv, TypeOK, TouchStates, Devices, Strokes
<1>3. CASE Kill
  <2>1. /\ sink' = "down" /\ device' = [device EXCEPT !.down = FALSE] /\ orphan' = device.button
        /\ UNCHANGED <<finger, modeFile, available, ts>>
    BY <1>3 DEF Kill
  <2>2. device' \in Devices /\ device'.at = device.at /\ ~device'.down
        /\ device'.button = orphan' /\ orphan' \in BOOLEAN
    BY <1>1, <2>1 DEF Devices
  <2> QED
    BY <2>1, <2>2 DEF TouchInv, TypeOK, TouchStates, Devices, Strokes
<1> QED
  BY <1>2, <1>3

LEMMA FreshType ==
  ASSUME NEW mode \in Modes, NEW rotation \in Rotations
  PROVE  Started(mode, rotation) \in TouchStates /\ ~Started(mode, rotation).down
<1>1. 0 \in Positions /\ 0 \in 0 .. MaxErrors
  BY FilterAssumption, ErrorsAssumption DEF Positions
<1>2. Fresh(mode, rotation) \in TouchStates /\ ~Fresh(mode, rotation).down
  BY <1>1 DEF Fresh, TouchStates
<1> QED
  BY <1>2 DEF Started, TouchStates

LEMMA StartFits ==
  ASSUME TouchInv, NEW mode \in Modes, Start(mode)
  PROVE  TouchInv' /\ Strokes
<1>1. /\ sink = "down" /\ sink' = "up" /\ ts' = Started(mode, ts.rotation)
      /\ UNCHANGED <<finger, modeFile, available, device, orphan>>
  BY DEF Start
<1>2. ts.rotation \in Rotations
  BY DEF TouchInv, TypeOK
<1>3. ts' \in TouchStates /\ ~ts'.down
  BY <1>1, <1>2, FreshType
<1>4. Fits(ts', device', orphan')
  BY <1>1, <1>3 DEF TouchInv, Fits
<1>5. TypeOK'
  BY <1>1, <1>3 DEF TouchInv, TypeOK, TouchStates
<1> QED
  BY <1>1, <1>4, <1>5 DEF TouchInv, Strokes

LEMMA UserFits ==
  ASSUME TouchInv, Finger \/ ChooseMode \/ UNCHANGED vars
  PROVE  TouchInv' /\ Strokes
<1>1. /\ UNCHANGED <<available, sink, ts, device, orphan>>
      /\ finger' \in Positions \cup {Nobody} /\ modeFile' \in Modes
  BY DEF Finger, ChooseMode, vars, TouchInv, TypeOK
<1>2. TypeOK'
  BY <1>1 DEF TouchInv, TypeOK
<1>3. sink' = "up" => Fits(ts', device', orphan')
  BY <1>1 DEF TouchInv, Fits
<1> QED
  BY <1>1, <1>2, <1>3 DEF TouchInv, Strokes

-----------------------------------------------------------------------------
(* The theorems.                                                           *)

LEMMA TouchStarts == Init => TouchInv
<1> SUFFICES ASSUME Init PROVE TouchInv
  OBVIOUS
<1>1. PICK r \in Rotations : ts = Started(modeFile, r)
  BY DEF Init
<1>2. ts \in TouchStates /\ ~ts.down /\ modeFile \in Modes
  BY <1>1, FreshType DEF Init
<1>3. 0 \in Positions
  BY FilterAssumption DEF Positions
<1>4. device \in Devices /\ ~device.down /\ ~device.button /\ orphan = FALSE
  BY <1>3 DEF Init, Idle, Devices
<1>5. TypeOK
  BY <1>2, <1>4 DEF Init, TypeOK, TouchStates, Devices
<1> QED
  BY <1>2, <1>4, <1>5 DEF TouchInv, Fits

LEMMA TouchStep == TouchInv /\ [Next]_vars => TouchInv' /\ Strokes
<1> SUFFICES ASSUME TouchInv, [Next]_vars
             PROVE  TouchInv' /\ Strokes
  OBVIOUS
<1>1. CASE Finger \/ ChooseMode \/ UNCHANGED vars
  BY <1>1, UserFits
<1>2. CASE Polls
  BY <1>2, PollFits DEF Polls
<1>3. ASSUME NEW rotation \in Rotations, NEW affineChanged \in BOOLEAN,
             Reload(rotation, affineChanged)
      PROVE  TouchInv' /\ Strokes
  BY <1>3, ReloadFits
<1>4. CASE ProducerStale
  BY <1>4, ProducerStaleFits
<1>5. CASE Leave \/ Kill
  BY <1>5, LeaveFits
<1>6. ASSUME NEW mode \in Modes, Start(mode)
      PROVE  TouchInv' /\ Strokes
  BY <1>6, StartFits
<1> QED
  BY <1>1, <1>2, <1>3, <1>4, <1>5, <1>6 DEF Next

LEMMA TouchSafe == Spec => []TouchInv
  BY TouchStarts, TouchStep, PTL DEF Spec

\* The records keep their types: the filter's average never leaves the panel.
THEOREM TypeCorrect == Spec => []TypeOK
<1>1. TouchInv => TypeOK
  BY DEF TouchInv
<1> QED
  BY <1>1, TouchSafe, PTL

\* What the user's programs see pressed is what the sink believes, through
\* switches of the mode, reloads, a silent producer, exits and kills.
THEOREM OneContactAlways == Spec => []OneContact
<1>1. TouchInv => OneContact
  <2> SUFFICES ASSUME TouchInv PROVE OneContact
    OBVIOUS
  <2>1. sink \in {"up", "down"}
    BY DEF TouchInv, TypeOK
  <2>2. CASE sink = "up"
    BY <2>2 DEF TouchInv, Fits, OneContact
  <2>3. CASE sink = "down"
    BY <2>3 DEF TouchInv, OneContact
  <2> QED
    BY <2>1, <2>2, <2>3
<1> QED
  BY <1>1, TouchSafe, PTL

\* While the finger is down the cursor position is live.
THEOREM DownStaysVisible == Spec => []DownIsVisible
<1>1. TouchInv => DownIsVisible
  BY DEF TouchInv, Fits, DownIsVisible
<1> QED
  BY <1>1, TouchSafe, PTL

\* A stroke starts where the finger is, whatever the filter held before.
THEOREM StrokesStartAtFinger == Spec => StrokeStartsAtFinger
<1>1. TouchInv /\ [Next]_vars
        => [~device.down /\ device'.down => device'.at = Logical(ts.rotation, finger)]_vars
  BY TouchStep DEF Strokes
<1> QED
  BY <1>1, TouchSafe, PTL DEF Spec, StrokeStartsAtFinger

\* A stroke ends where it was reported last, whatever ended it.
THEOREM StrokesEndInPlace == Spec => LiftedInPlace
<1>1. TouchInv /\ [Next]_vars => [device.down /\ ~device'.down => device'.at = device.at]_vars
  BY TouchStep DEF Strokes
<1> QED
  BY <1>1, TouchSafe, PTL DEF Spec, LiftedInPlace
=============================================================================
