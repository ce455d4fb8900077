-------------------------- MODULE TouchCalibration --------------------------
(***************************************************************************)
(* The calibration dialogue of touch_poll and the geometry it feeds: five  *)
(* targets and then alternating light and firm presses are averaged, the   *)
(* limits, axes and thresholds are solved from them and written to a file, *)
(* and touch_map, with the affine correction, turns samples into positions *)
(* by them.                                                                *)
(*                                                                         *)
(* The touch panel (external) may be mounted in any of eight ways.  Its    *)
(* user presses the target that is shown, lifts the finger at any time,    *)
(* presses again, and may waver as long as the finger rests.               *)
(* CH347_TOUCH_Z_STRICT is on and the interrupt line off, the defaults.    *)
(* Affine values are fractions, and their products exact.                  *)
(***************************************************************************)
EXTENDS Integers, FiniteSetsExt

CONSTANTS
  W, H,            \* width, height
  RawTop,          \* 4095, the largest reading of the converter
  Margin,          \* cal_margin
  Samples,         \* cal_samples_required
  ReleaseSamples,  \* release_samples
  PressPoints,     \* CAL_PRESS_POINTS
  Floor,           \* TOUCH_PRESSURE_FLOOR
  Mounts,          \* panels: swap, ix, iy, their ranges of readings, light and firm
  Unit,            \* affine values are multiples of 1/Unit
  Affines,         \* affine corrections, <<a, b, c, d, e, f>> over Unit
  Tolerance        \* pixels by which a position may be off

PosPoints == 5     \* CAL_POS_POINTS
Dim == [x |-> W, y |-> H]

ASSUME PanelAssumption ==
  {W, H, Margin, RawTop} \subseteq Nat /\ W > 4 /\ H > 4
ASSUME DialogueAssumption == {Samples, ReleaseSamples, PressPoints} \subseteq Nat \ {0}

VARIABLES
  mount,     \* the panel
  finger,    \* the target under the finger, 0 for none
  weak,      \* history: weak samples of a finger left on the target before, up to
             \* ReleaseSamples
  misled,    \* history: such a finger was sampled after as many as that
  index, press,           \* cal_index, cal_press_index
  count, sum,             \* cal_sample_count, cal_sum_x, _y, _z1
  wait, releases,         \* cal_wait_release, release_count
  points, presses,        \* cal_raw_x, _y, _z1 and cal_press_z1
  done,                   \* cal_done
  file                    \* the calibration file

dialogue == <<index, press, count, sum, wait, releases, points, presses, done, file>>
user == <<mount, finger, weak, misled>>
vars == <<user, dialogue>>

-----------------------------------------------------------------------------
(* Geometry.                                                               *)

\* Division of C: towards zero.
Quotient(a, b) == IF a < 0 THEN -((-a) \div b) ELSE a \div b
Distance(a, b) == IF a < b THEN b - a ELSE a - b
Clamp(v, lo, hi) == Max({lo, Min({v, hi})})

\* touch_config_cal_points.
Inset ==
  LET m == IF Margin >= W \div 2 THEN W \div 5 ELSE Margin
  IN IF m >= H \div 2 THEN H \div 5 ELSE m

Target(i) ==
  <<CASE i \in {1, 4} -> Inset [] i \in {2, 3} -> W - 1 - Inset [] OTHER -> (W - 1) \div 2,
    CASE i \in {1, 2} -> Inset [] i \in {3, 4} -> H - 1 - Inset [] OTHER -> (H - 1) \div 2>>

\* touch_affine_valid.
AffineValid(a) ==
  /\ \A i \in 1 .. 6 : Distance(a[i], 0) <= 4 * Unit
  /\ a[1] * a[5] # a[2] * a[4]
  /\ \A x, y \in {0, 1} : \A row \in {0, 3} :
       a[row + 1] * x + a[row + 2] * y + a[row + 3] \in -Unit .. 2 * Unit

ASSUME AffineAssumption ==
  Unit \in Nat \ {0} /\ Affines \subseteq [1 .. 6 -> Int] /\ \A a \in Affines : AffineValid(a)

\* How far an edge extrapolated from readings that are off by one may be off.
EdgeError(n) == 2 + (n - 2) \div (n - 1 - 2 * Inset)

\* A pixel of n along an axis is worth some readings.
Resolves(width, n) == EdgeError(n) * (n - 1) <= width - 2 * (EdgeError(n) - 1)

ASSUME MountAssumption ==
  \A m \in Mounts :
    /\ {m.swap, m.ix, m.iy} \subseteq BOOLEAN
    /\ {m.xlo, m.xhi, m.ylo, m.yhi} \subseteq 0 .. RawTop /\ {m.light, m.firm} \subseteq Nat
    /\ Resolves(m.xhi - m.xlo, W) /\ Resolves(m.yhi - m.ylo, H)

\* What the affine makes of a pixel.
ASSUME ToleranceAssumption ==
  /\ Tolerance \in Nat /\ Floor \in Nat
  /\ \A a \in Affines :
       /\ Distance(a[1], 0) * (H - 1) + Distance(a[2], 0) * (W - 1) <= Tolerance * Unit * (H - 1)
       /\ Distance(a[4], 0) * (H - 1) + Distance(a[5], 0) * (W - 1) <= Tolerance * Unit * (W - 1)

\* touch_affine_apply on normalized coordinates, clamped to the panel and rounded.
Corrected(a, x, y) ==
  LET along(row, n) ==
        LET num == (a[row + 1] * x * (H - 1) + a[row + 2] * y * (W - 1)
                    + a[row + 3] * (W - 1) * (H - 1)) * n
            den == Unit * (W - 1) * (H - 1)
        IN IF num <= 0 THEN 0 ELSE Min({n, (2 * num + den) \div (2 * den)})
  IN <<along(0, W - 1), along(3, H - 1)>>

\* touch_map: limits c, a pair of readings.
TouchMap(c, a, raw) ==
  LET rx == IF c.swap THEN raw[2] ELSE raw[1]
      ry == IF c.swap THEN raw[1] ELSE raw[2]
      Scaled(r, lo, top, n) ==
        LET hi == IF top <= lo THEN lo + 1 ELSE top
        IN ((Clamp(r, lo, hi) - lo) * (n - 1)) \div (hi - lo)
      x == Scaled(rx, c.xmin, c.xmax, W)
      y == Scaled(ry, c.ymin, c.ymax, H)
  IN Corrected(a, IF c.ix THEN W - 1 - x ELSE x, IF c.iy THEN H - 1 - y ELSE y)

\* Mutant of Extrapolated: the targets are taken for the corners.
ExtrapolatedNot(ra, rb, sa, sb, edge) == IF edge = 0 THEN ra ELSE rb

\* extrapolate_raw_edge.
Extrapolated(ra, rb, sa, sb, edge) ==
  IF sb = sa THEN ra ELSE ra + Quotient((rb - ra) * (edge - sa), sb - sa)

\* touch_solve_calibration: p is cal_raw_x and cal_raw_y of the targets.
Solved(p) ==
  LET Mean(axis, i, j) == (p[i][axis] + p[j][axis]) \div 2
      Across(axis) == Distance(Mean(axis, 2, 3), Mean(axis, 1, 4))
      Down(axis) == Distance(Mean(axis, 3, 4), Mean(axis, 1, 2))
      swap == Across(2) > Across(1) /\ Down(1) > Down(2)
      ax == IF swap THEN 2 ELSE 1
      Edge(a, lo1, lo2, hi1, hi2, s1, s2, edge) ==
        Extrapolated(Mean(a, lo1, lo2), Mean(a, hi1, hi2), s1, s2, edge)
      left == Edge(ax, 1, 4, 2, 3, Target(1)[1], Target(2)[1], 0)
      right == Edge(ax, 1, 4, 2, 3, Target(1)[1], Target(2)[1], W - 1)
      top == Edge(3 - ax, 1, 2, 3, 4, Target(1)[2], Target(4)[2], 0)
      bottom == Edge(3 - ax, 1, 2, 3, 4, Target(1)[2], Target(4)[2], H - 1)
      Raw(v) == Clamp(v, 0, RawTop)
  IN [swap |-> swap, ix |-> left > right, iy |-> top > bottom,
      xmin |-> Raw(Min({left, right})), xmax |-> Raw(Max({left, right})),
      ymin |-> Raw(Min({top, bottom})), ymax |-> Raw(Max({top, bottom}))]

\* The thresholds touch_write_calibration derives from the z1 of all presses.
Thresholds(zs) ==
  LET z == Max({Floor, Min(zs)})
  IN [zmin |-> z, pmin |-> IF z > 2 * Floor THEN (z * 3) \div 4 ELSE Floor]

-----------------------------------------------------------------------------
(* The touch panel.                                                        *)

\* What it reads where it is pressed at screen position s.
Reading(s) ==
  LET Along(v, n, inverted, lo, hi) ==
        lo + (((IF inverted THEN n - 1 - v ELSE v) * (hi - lo)) \div (n - 1))
      x == Along(s[1], W, mount.ix, mount.xlo, mount.xhi)
      y == Along(s[2], H, mount.iy, mount.ylo, mount.yhi)
  IN IF mount.swap THEN <<y, x>> ELSE <<x, y>>

\* The converter wavers by one between samples.
Sampled(t, n) == [k \in {1, 2} |-> Min({RawTop, Reading(Target(t))[k] + (n % 2)})]

Init ==
  /\ mount \in Mounts
  /\ finger = 0 /\ weak = 0 /\ misled = FALSE
  /\ index = 1 /\ press = 1 /\ count = 0 /\ sum = <<0, 0, 0>>
  /\ wait = TRUE /\ releases = 0
  /\ points = [i \in 1 .. PosPoints |-> <<0, 0, 0>>]
  /\ presses = [i \in 1 .. PressPoints |-> 0]
  /\ done = FALSE /\ file = <<>>

Shown == Min({index, PosPoints})

Press ==
  /\ finger = 0 /\ ~done
  /\ finger' = Shown /\ weak' = 0
  /\ UNCHANGED <<mount, misled, dialogue>>

Lift == finger # 0 /\ finger' = 0 /\ UNCHANGED <<mount, weak, misled, dialogue>>

\* It rests where the point before was taken.
Resting == finger \notin {0, Shown}

-----------------------------------------------------------------------------
(* touch_poll.                                                             *)

\* Mutant of ReleaseSeen: one sample is enough.
ReleaseSeenAtOnce == TRUE

ReleaseSeen == releases + 1 >= ReleaseSamples

\* touch_release while calibrating: no finger, or a press that is too weak.  Firm
\* samples in between change nothing while a release is awaited.
PollWeak ==
  /\ wait
  /\ weak' = IF Resting /\ weak < ReleaseSamples THEN weak + 1 ELSE weak
  /\ releases' = releases + 1
  /\ wait' = ~ReleaseSeen
  /\ IF ReleaseSeen THEN count' = 0 /\ sum' = <<0, 0, 0>> ELSE UNCHANGED <<count, sum>>
  /\ UNCHANGED <<mount, finger, misled, index, press, points, presses, done, file>>

\* The light and the firm presses alternate.
Pressure == IF index <= PosPoints \/ press % 2 = 1 THEN mount.light ELSE mount.firm

Added ==
  LET r == Sampled(finger, count) IN <<sum[1] + r[1], sum[2] + r[2], sum[3] + Pressure>>

Average(s) == [k \in 1 .. 3 |-> (s[k] + (count + 1) \div 2) \div (count + 1)]

\* A finger is sampled.
Sampling ==
  /\ finger # 0 /\ ~done /\ ~wait
  /\ misled' = (misled \/ (Resting /\ weak = ReleaseSamples))
  /\ UNCHANGED <<mount, finger, weak>>

\* A sample for the point, not the last one.
PollSample ==
  /\ Sampling /\ count + 1 < Samples
  /\ count' = count + 1 /\ sum' = Added /\ releases' = 0
  /\ UNCHANGED <<index, press, wait, points, presses, done, file>>

PointTaken ==
  /\ Sampling /\ count + 1 >= Samples
  /\ count' = 0 /\ sum' = <<0, 0, 0>> /\ releases' = 0 /\ wait' = TRUE

\* touch_write_calibration, or the file cannot be opened.
Write(p, zs) ==
  \/ file' = <<Solved(p), Thresholds(zs)>>
  \/ UNCHANGED file

PollPoint ==
  /\ PointTaken /\ index <= PosPoints
  /\ points' = [points EXCEPT ![index] = Average(Added)]
  /\ index' = index + 1
  /\ UNCHANGED <<press, presses, done, file>>

PollPress ==
  /\ PointTaken /\ index > PosPoints
  /\ presses' = [presses EXCEPT ![press] = Average(Added)[3]]
  /\ press' = press + 1
  /\ IF press < PressPoints THEN UNCHANGED <<done, file>>
     ELSE /\ done' = TRUE
          /\ Write(points, {points[i][3] : i \in 1 .. PosPoints}
                             \cup {presses'[i] : i \in 1 .. PressPoints})
  /\ UNCHANGED <<index, points>>

Next == Press \/ Lift \/ PollWeak \/ PollSample \/ PollPoint \/ PollPress

Spec == Init /\ [][Next]_vars

-----------------------------------------------------------------------------
(* Properties.                                                             *)

Probes ==
  ((0 .. W - 1) \X {0, H \div 2, H - 1}) \cup ({0, W \div 2, W - 1} \X (0 .. H - 1))

\* A sink started with the written file puts a finger where it is, within the
\* tolerance, corrected by the affine; and the lightest press of the dialogue, if
\* above the floor, is still a press.  (Unless the user was asked for the next target,
\* left the finger where it was, and was sampled there: weak samples of one press
\* count as a release also when firm ones lie between them.)
CalibrationIsTrue ==
  file # <<>> /\ ~misled =>
    /\ \A s \in Probes, a \in Affines :
         LET seen == TouchMap(file[1], a, Reading(s))
             meant == Corrected(a, s[1], s[2])
         IN Distance(seen[1], meant[1]) <= Tolerance /\ Distance(seen[2], meant[2]) <= Tolerance
    /\ mount.light >= Floor => file[2].zmin <= mount.light /\ file[2].pmin <= mount.light
=============================================================================
