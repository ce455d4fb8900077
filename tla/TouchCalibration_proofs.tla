---------------------- MODULE TouchCalibration_proofs ----------------------
(***************************************************************************)
(* The calibration file puts a finger where it is, for every screen, every *)
(* panel whose readings are fine enough for it, every mounting, affine and *)
(* length of the dialogue.                                                 *)
(***************************************************************************)
EXTENDS TouchCalibration, FiniteSetTheorems, TLAPS

-----------------------------------------------------------------------------
(* Arithmetic.                                                             *)

\* Division and products under names of their own, which the provers take as they are.
Quot(a, b) == a \div b

LEMMA QuotBounds ==
  ASSUME NEW a \in Nat, NEW b \in Nat \ {0}
  PROVE  Quot(a, b) \in Nat /\ Quot(a, b) * b <= a /\ a < Quot(a, b) * b + b
  BY Z3 DEF Quot

\* Products keep the order.
LEMMA TimesMono ==
  ASSUME NEW a \in Int, NEW b \in Int, NEW n \in Nat, a <= b
  PROVE  a * n \in Int /\ b * n \in Int /\ a * n <= b * n
<1>1. b - a \in Nat /\ (b - a) * n >= 0
  BY Z3
<1>2. (b - a) * n = b * n - a * n
  BY Z3
<1> QED
  BY <1>1, <1>2, Z3

LEMMA TimesStrict ==
  ASSUME NEW a \in Int, NEW b \in Int, NEW n \in Nat \ {0}, a * n < b * n + n
  PROVE  a <= b
<1>1. ASSUME a >= b + 1 PROVE FALSE
  <2>1. (b + 1) * n <= a * n
    BY <1>1, TimesMono
  <2>2. (b + 1) * n = b * n + n
    BY Z3
  <2>3. b * n \in Int /\ a * n \in Int
    BY Z3
  <2> QED
    BY <2>1, <2>2, <2>3
<1> QED
  BY <1>1

\* A quotient lies where its dividend does.
LEMMA QuotAtLeast ==
  ASSUME NEW a \in Nat, NEW b \in Nat \ {0}, NEW q \in Int, q * b <= a
  PROVE  q <= Quot(a, b)
<1>1. Quot(a, b) \in Nat /\ a < Quot(a, b) * b + b
  BY QuotBounds
<1>2. q * b \in Int /\ Quot(a, b) * b \in Int
  BY <1>1, Z3
<1> QED
  BY <1>1, <1>2, TimesStrict

LEMMA QuotAtMost ==
  ASSUME NEW a \in Nat, NEW b \in Nat \ {0}, NEW q \in Int, a < q * b + b
  PROVE  Quot(a, b) <= q
<1>1. Quot(a, b) \in Nat /\ Quot(a, b) * b <= a
  BY QuotBounds
<1>2. q * b \in Int /\ Quot(a, b) * b \in Int
  BY <1>1, Z3
<1> QED
  BY <1>1, <1>2, TimesStrict

-----------------------------------------------------------------------------
(* One axis: n pixels beyond the first, targets at s and n - s, so d apart;*)
(* readings from lo over a span of w.                                      *)

\* Between 0 and n, what the readings at the two targets are off by, is at most
\* n when they are extended to an edge.
LEMMA ExtendedError ==
  ASSUME NEW n \in Nat \ {0}, NEW s \in Nat, NEW d \in Nat \ {0}, n = d + 2 * s,
         NEW u \in Int, -n <= u, u <= n, NEW v \in Int, -n <= v, v <= n, NEW x \in Int,
         \/ n * x = (d + s) * u - s * v
         \/ n * x = (d + s) * v - s * u
  PROVE  -n <= x /\ x <= n
<1>1. ASSUME NEW p \in Int, -n <= p, p <= n, NEW q \in Int, -n <= q, q <= n,
             n * x = (d + s) * p - s * q
      PROVE  -n <= x /\ x <= n
  <2>1. /\ (-n) * (d + s) <= p * (d + s) /\ p * (d + s) <= n * (d + s)
        /\ (-n) * s <= q * s /\ q * s <= n * s
    BY <1>1, TimesMono
  <2>2. /\ n * (d + s) + n * s = n * n /\ (-n) * (d + s) = -(n * (d + s)) /\ (-n) * s = -(n * s)
        /\ (-n) * n = -(n * n)
        /\ p * (d + s) = (d + s) * p /\ q * s = s * q /\ x * n = n * x
    BY Z3
  <2>3. {(d + s) * p, s * q, n * (d + s), n * s, n * n, n * x} \subseteq Int
    BY Z3
  <2>4. x * n < n * n + n /\ (-n) * n < x * n + n
    BY <1>1, <2>1, <2>2, <2>3
  <2> QED
    BY <2>4, TimesStrict
<1> QED
  BY <1>1

\* The edges extrapolated from readings that grow along the axis.
LEMMA EdgesFound ==
  ASSUME NEW n \in Nat \ {0}, NEW s \in Nat, NEW d \in Nat \ {0}, n = d + 2 * s,
         NEW lo \in Int, NEW w \in Int, NEW ra \in Int, NEW rb \in Int, ra <= rb,
         -n <= n * (ra - lo) - s * w, n * (ra - lo) - s * w <= n,
         -n <= n * (rb - lo) - (n - s) * w, n * (rb - lo) - (n - s) * w <= n,
         NEW e \in Nat, n + d <= (e + 1) * d
  PROVE  LET left == ra - Quot((rb - ra) * s, d)
             right == ra + Quot((rb - ra) * (n - s), d)
         IN /\ left \in lo - e .. lo + e /\ right \in lo + w - e .. lo + w + e
            /\ left <= ra /\ ra <= right
            /\ rb > ra => ra < right
<1> DEFINE u == n * (ra - lo) - s * w
           v == n * (rb - lo) - (n - s) * w
           a == (rb - ra) * s
           b == (rb - ra) * (n - s)
           x == d * (ra - lo) - a
           y == d * (ra - lo) + b - d * w
<1>1. a \in Nat /\ b \in Nat
  BY Z3
<1>2. /\ u \in Int /\ v \in Int /\ x \in Int /\ y \in Int
      /\ n * x = (d + s) * u - s * v
      /\ n * y = (d + s) * v - s * u
  BY Z3
<1>3. -n <= x /\ x <= n /\ -n <= y /\ y <= n
  <2>1. -n <= u /\ u <= n /\ -n <= v /\ v <= n
    OBVIOUS
  <2> HIDE DEF u, v, x, y
  <2> QED
    BY <1>2, <2>1, ExtendedError
<1> DEFINE f == Quot(a, d)
           g == Quot(b, d)
<1>4. /\ f \in Nat /\ f * d <= a /\ a < f * d + d
      /\ g \in Nat /\ g * d <= b /\ b < g * d + d
  <2> HIDE DEF a, b
  <2> QED
    BY <1>1, QuotBounds
<1> HIDE DEF f, g
<1>5. /\ (ra - f - lo) * d = x + a - f * d
      /\ (ra + g - lo - w) * d = y - b + g * d
  BY <1>4, Z3
<1>6. (e + 1) * d = e * d + d /\ (-e) * d = -(e * d) /\ e * d \in Int /\ f * d \in Int /\ g * d \in Int
  BY <1>4, Z3
<1>7. /\ (ra - f - lo) * d < e * d + d /\ (-e) * d < (ra - f - lo) * d + d
      /\ (ra + g - lo - w) * d < e * d + d /\ (-e) * d < (ra + g - lo - w) * d + d
  <2> HIDE DEF a, b, x, y
  <2> QED
    BY <1>1, <1>2, <1>3, <1>4, <1>5, <1>6
<1>8. /\ ra - f - lo <= e /\ -e <= ra - f - lo
      /\ ra + g - lo - w <= e /\ -e <= ra + g - lo - w
  BY <1>4, <1>7, TimesStrict
<1>9. ASSUME rb > ra PROVE g > 0
  <2>1. b >= d
    <3>1. 1 * (n - s) <= (rb - ra) * (n - s)
      BY <1>9, TimesMono
    <3> QED
      BY <3>1
  <2> QED
    BY <1>1, <1>4, <2>1
<1> QED
  BY <1>4, <1>8, <1>9 DEF f, g

\* The reading of a place on the axis.
LEMMA ReadingBounds ==
  ASSUME NEW n \in Nat \ {0}, NEW w \in Nat, NEW p \in 0 .. n
  PROVE  LET r == Quot(p * w, n)
         IN r \in 0 .. w /\ n * r <= p * w /\ p * w < n * r + n
<1>1. p * w \in Nat /\ p * w <= n * w
  <2>1. n - p \in Nat /\ (n - p) * w >= 0 /\ p * w >= 0
    BY Z3
  <2>2. (n - p) * w = n * w - p * w
    BY Z3
  <2> QED
    BY <2>1, <2>2, Z3
<1> DEFINE r == Quot(p * w, n)
<1>2. r \in Nat /\ r * n <= p * w /\ p * w < r * n + n
  BY <1>1, QuotBounds
<1>3. r * n = n * r /\ n * w = w * n /\ {w * n, n * r, p * w} \subseteq Int
  BY <1>2, Z3
<1>4. r <= w
  BY <1>1, <1>2, <1>3, TimesStrict
<1> QED
  BY <1>2, <1>3, <1>4

Clipped(r, lo, hi) == IF r < lo THEN lo ELSE IF r > hi THEN hi ELSE r

\* Limits that are off by e cost a pixel, if e + 1 readings fit into one.
LEMMA PlaceFound ==
  ASSUME NEW n \in Nat \ {0}, NEW w \in Nat, NEW lo \in Int, NEW p \in 0 .. n, NEW e \in Nat,
         NEW min \in lo - e .. lo + e, NEW max \in lo + w - e .. lo + w + e,
         (e + 1) * n <= w - 2 * e
  PROVE  LET r == lo + Quot(p * w, n)
             x == Quot((Clipped(r, min, max) - min) * n, max - min)
         IN min < max /\ x \in 0 .. n /\ x \in p - 1 .. p + 1
<1> DEFINE q == Quot(p * w, n)
           c == Clipped(lo + q, min, max)
           t == c - min
           k == max - min
           x == Quot(t * n, k)
<1>1. q \in 0 .. w /\ n * q <= p * w /\ p * w < n * q + n
  BY ReadingBounds
<1>2. (e + 1) * n >= n /\ (e + 1) * n = e * n + n
  <2>1. e * n >= 0 /\ (e + 1) * n = e * n + n /\ e * n \in Int
    BY Z3
  <2> QED
    BY <2>1
<1>3. k \in Nat \ {0} /\ (e + 1) * n <= k
  BY <1>2
<1> HIDE DEF q
<1>4. t \in 0 .. k
  BY <1>1, <1>3 DEF Clipped
<1>5. t * n \in Nat /\ t * n <= k * n /\ 0 * k <= t * n
  <2>1. 0 * n <= t * n /\ t * n <= k * n
    <3> HIDE DEF t, k
    <3> QED
      BY <1>3, <1>4, TimesMono
  <2>2. 0 * n = 0 /\ 0 * k = 0 /\ t * n \in Int
    <3> HIDE DEF t, k
    <3> QED
      BY <1>3, <1>4, Z3
  <2> QED
    BY <2>1, <2>2
\* The line through the limits and that through the ends of the range differ by e.
<1>6. \A j \in Int : j * n = n * j
  BY Z3
<1> DEFINE f == min - lo
           g == max - (lo + w)
           z == p * g + (n - p) * f
<1>7. f \in -e .. e /\ g \in -e .. e
  OBVIOUS
<1>8. z \in Int /\ -(e * n) <= z /\ z <= e * n
  <2> HIDE DEF f, g
  <2>1. (-e) * p <= g * p /\ g * p <= e * p /\ (-e) * (n - p) <= f * (n - p) /\ f * (n - p) <= e * (n - p)
    BY <1>7, TimesMono
  <2>2. e * p + e * (n - p) = e * n /\ (-e) * p + (-e) * (n - p) = -(e * n) /\ z = g * p + f * (n - p)
    BY <1>7, Z3
  <2>3. {g * p, f * (n - p), e * p, e * (n - p), (-e) * p, (-e) * (n - p), e * n} \subseteq Int
    BY <1>7, Z3
  <2> HIDE DEF z
  <2> QED
    BY <2>1, <2>2, <2>3
<1>9. (lo + q - min) * n = p * k - z - p * w + n * q
  BY <1>1, Z3
<1>10. p * k \in Int /\ n * q \in Int /\ p * w \in Int /\ e * n \in Int
  BY <1>1, <1>3, Z3
<1>11. p * k - e * n - n < (lo + q - min) * n /\ (lo + q - min) * n <= p * k + e * n
  <2> HIDE DEF z, k
  <2> QED
    BY <1>1, <1>8, <1>9, <1>10
<1>12. (p - 1) * k = p * k - k /\ (p + 1) * k = p * k + k
  BY <1>3, Z3
<1>13. (p - 1) * k <= t * n
  <2>1. CASE lo + q > max
    <3>1. t = k
      BY <1>3, <2>1, <1>1 DEF Clipped
    <3>2. p * k <= n * k
      <4> HIDE DEF k
      <4> QED
        BY <1>3, TimesMono
    <3>3. n * k = t * n
      BY <1>3, <1>6, <3>1
    <3> HIDE DEF k, t
    <3> QED
      BY <1>3, <1>5, <1>10, <1>12, <3>2, <3>3
  <2>2. CASE lo + q <= max
    <3>1. lo + q - min <= t
      BY <1>1, <2>2 DEF Clipped
    <3>2. (lo + q - min) * n <= t * n
      <4> HIDE DEF t
      <4> QED
        BY <1>1, <1>4, <3>1, TimesMono
    <3>3. (lo + q - min) * n \in Int
      BY <1>1, Z3
    <3> HIDE DEF k, t
    <3> QED
      BY <1>2, <1>3, <1>5, <1>10, <1>11, <1>12, <3>2, <3>3
  <2> QED
    BY <1>1, <2>1, <2>2
<1>14. t * n < (p + 1) * k + k
  <2>1. CASE lo + q < min
    <3>1. t = 0
      BY <2>1 DEF Clipped
    <3>2. 0 * k <= p * k
      <4> HIDE DEF k
      <4> QED
        BY <1>3, TimesMono
    <3>3. t * n = 0 /\ 0 * k = 0
      <4> HIDE DEF t
      <4> QED
        BY <3>1, <1>3, Z3
    <3> HIDE DEF k, t
    <3> QED
      BY <1>3, <1>10, <1>12, <3>2, <3>3
  <2>2. CASE lo + q >= min
    <3>1. t <= lo + q - min
      BY <1>1, <1>3, <2>2 DEF Clipped
    <3>2. t * n <= (lo + q - min) * n
      <4> HIDE DEF t
      <4> QED
        BY <1>1, <1>4, <3>1, TimesMono
    <3>3. (lo + q - min) * n \in Int
      BY <1>1, Z3
    <3> HIDE DEF k, t
    <3> QED
      BY <1>2, <1>3, <1>5, <1>10, <1>11, <1>12, <3>2, <3>3
  <2> QED
    BY <1>1, <2>1, <2>2
<1>15. p - 1 <= x /\ x <= p + 1
  <2> HIDE DEF k, t
  <2> QED
    BY <1>3, <1>5, <1>13, <1>14, QuotAtLeast, QuotAtMost
<1>16. x \in Nat /\ x <= n
  <2>1. t * n < n * k + k
    <3>1. k * n = n * k /\ n * k \in Int
      BY <1>3, Z3
    <3> HIDE DEF k, t
    <3> QED
      BY <1>3, <1>5, <3>1
  <2> HIDE DEF k, t
  <2>2. Quot(t * n, k) \in Nat
    BY <1>3, <1>5, QuotBounds
  <2>3. Quot(t * n, k) <= n
    BY <1>3, <1>5, <2>1, QuotAtMost
  <2> QED
    BY <2>2, <2>3
<1> QED
  BY <1>3, <1>15, <1>16 DEF q

\* Rounding moves as little as what is rounded.
Rounded(a, n, b) == IF a <= 0 THEN 0 ELSE IF Quot(2 * a + b, 2 * b) >= n THEN n ELSE Quot(2 * a + b, 2 * b)

LEMMA RoundedMono ==
  ASSUME NEW n \in Nat, NEW b \in Nat \ {0}, NEW x \in Int, NEW y \in Int, NEW t \in Nat,
         x <= y, y <= x + t * b
  PROVE  /\ Rounded(x, n, b) \in 0 .. n /\ Rounded(y, n, b) \in 0 .. n
         /\ Rounded(x, n, b) <= Rounded(y, n, b) /\ Rounded(y, n, b) <= Rounded(x, n, b) + t
<1> DEFINE qx == Quot(2 * x + b, 2 * b)
           qy == Quot(2 * y + b, 2 * b)
<1>1. ASSUME x > 0
      PROVE  qx \in Nat /\ qx * (2 * b) <= 2 * x + b /\ 2 * x + b < qx * (2 * b) + 2 * b
  <2>1. 2 * x + b \in Nat /\ 2 * b \in Nat \ {0}
    BY <1>1
  <2> QED
    BY <2>1, QuotBounds
<1>2. ASSUME y > 0
      PROVE  qy \in Nat /\ qy * (2 * b) <= 2 * y + b /\ 2 * y + b < qy * (2 * b) + 2 * b
  <2>1. 2 * y + b \in Nat /\ 2 * b \in Nat \ {0}
    BY <1>2
  <2> QED
    BY <2>1, QuotBounds
<1>3. t * b \in Nat /\ t * (2 * b) = 2 * (t * b)
  BY Z3
<1> HIDE DEF qx, qy
<1>4. ASSUME x > 0 PROVE qx <= qy /\ qy <= qx + t
  <2>1. /\ qx * (2 * b) \in Int /\ qy * (2 * b) \in Int
        /\ (qx + t) * (2 * b) = qx * (2 * b) + t * (2 * b)
    BY <1>1, <1>2, <1>4, Z3
  <2>2. qx * (2 * b) < qy * (2 * b) + 2 * b
    BY <1>1, <1>2, <1>3, <1>4, <2>1
  <2>3. qy * (2 * b) < (qx + t) * (2 * b) + 2 * b
    BY <1>1, <1>2, <1>3, <1>4, <2>1
  <2>4. 2 * b \in Nat \ {0} /\ qx \in Int /\ qy \in Int /\ qx + t \in Int
    BY <1>1, <1>2, <1>4
  <2>5. qx <= qy
    BY <2>2, <2>4, TimesStrict
  <2>6. qy <= qx + t
    BY <2>3, <2>4, TimesStrict
  <2> QED
    BY <2>5, <2>6
<1>5. ASSUME x <= 0, y > 0 PROVE qy <= t
  <2>1. qy * (2 * b) \in Int
    BY <1>2, <1>5, Z3
  <2>2. qy * (2 * b) < t * (2 * b) + 2 * b
    BY <1>2, <1>3, <1>5, <2>1
  <2>3. 2 * b \in Nat \ {0} /\ qy \in Int
    BY <1>2, <1>5
  <2> QED
    BY <2>2, <2>3, TimesStrict
<1> QED
  BY <1>1, <1>2, <1>4, <1>5 DEF Rounded, qx, qy

LEMMA RoundedNear ==
  ASSUME NEW n \in Nat, NEW b \in Nat \ {0}, NEW x \in Int, NEW y \in Int, NEW t \in Nat,
         y - x <= t * b, x - y <= t * b
  PROVE  Distance(Rounded(x, n, b), Rounded(y, n, b)) <= t
<1>1. t * b \in Int
  BY Z3
<1>2. CASE x <= y
  <2>1. y <= x + t * b
    BY <1>1
  <2>2. /\ Rounded(x, n, b) \in 0 .. n /\ Rounded(y, n, b) \in 0 .. n
        /\ Rounded(x, n, b) <= Rounded(y, n, b) /\ Rounded(y, n, b) <= Rounded(x, n, b) + t
    BY <1>2, <2>1, RoundedMono
  <2> QED
    BY <2>2 DEF Distance
<1>3. CASE y <= x
  <2>1. x <= y + t * b
    BY <1>1
  <2>2. /\ Rounded(x, n, b) \in 0 .. n /\ Rounded(y, n, b) \in 0 .. n
        /\ Rounded(y, n, b) <= Rounded(x, n, b) /\ Rounded(x, n, b) <= Rounded(y, n, b) + t
    BY <1>3, <2>1, RoundedMono
  <2> QED
    BY <2>2 DEF Distance
<1> QED
  BY <1>2, <1>3

\* Means and averages of readings that are r or r + 1.
LEMMA MeanWithin ==
  ASSUME NEW q \in Nat, NEW r \in Nat, NEW x \in q .. q + 1, NEW y \in r .. r + 1
  PROVE  (x + y) \div 2 \in (q + r) \div 2 .. (q + r) \div 2 + 1
  BY Z3

LEMMA AverageWithin ==
  ASSUME NEW r \in Nat, NEW m \in Nat \ {0}, NEW x \in Int, m * r <= x, x <= m * (r + 1)
  PROVE  Quot(x + Quot(m, 2), m) \in r .. r + 1
<1>1. Quot(m, 2) \in Nat /\ Quot(m, 2) < m
  BY Z3 DEF Quot
<1>2. m * r = r * m /\ m * (r + 1) = (r + 1) * m /\ r * m \in Nat /\ (r + 1) * m \in Nat
  BY Z3
<1>3. x + Quot(m, 2) \in Nat /\ r * m <= x + Quot(m, 2) /\ x + Quot(m, 2) < (r + 1) * m + m
  BY <1>1, <1>2
<1> QED
  <2> HIDE DEF Quot
  <2>1. r <= Quot(x + Quot(m, 2), m)
    BY <1>3, QuotAtLeast
  <2>2. Quot(x + Quot(m, 2), m) <= r + 1
    BY <1>3, QuotAtMost
  <2>3. Quot(x + Quot(m, 2), m) \in Nat
    BY <1>3, QuotBounds
  <2> QED
    BY <2>1, <2>2, <2>3

LEMMA AverageOfOne ==
  ASSUME NEW r \in Nat, NEW m \in Nat \ {0}
  PROVE  Quot(m * r + Quot(m, 2), m) = r
<1>1. Quot(m, 2) \in Nat /\ Quot(m, 2) < m
  BY Z3 DEF Quot
<1>2. m * r = r * m /\ r * m \in Nat
  BY Z3
<1>3. m * r + Quot(m, 2) \in Nat /\ r * m <= m * r + Quot(m, 2) /\ m * r + Quot(m, 2) < r * m + m
  BY <1>1, <1>2
<1>4. r <= Quot(m * r + Quot(m, 2), m)
  BY <1>3, QuotAtLeast
<1>5. Quot(m * r + Quot(m, 2), m) <= r
  BY <1>3, QuotAtMost
<1>6. Quot(m * r + Quot(m, 2), m) \in Nat
  BY <1>3, QuotBounds
<1> QED
  BY <1>4, <1>5, <1>6

-----------------------------------------------------------------------------
(* Geometry.                                                               *)

LEMMA MinMaxOfTwo ==
  ASSUME NEW a \in Int, NEW b \in Int
  PROVE  Min({a, b}) = (IF a <= b THEN a ELSE b) /\ Max({a, b}) = (IF a <= b THEN b ELSE a)
<1>1. \A x \in {a, b} : (IF a <= b THEN a ELSE b) <= x /\ x <= (IF a <= b THEN b ELSE a)
  OBVIOUS
<1>2. /\ Min({a, b}) \in {a, b} /\ \A y \in {a, b} : Min({a, b}) <= y
      /\ Max({a, b}) \in {a, b} /\ \A y \in {a, b} : y <= Max({a, b})
  BY <1>1 DEF Min, Max
<1> QED
  BY <1>2

LEMMA ClampClips ==
  ASSUME NEW v \in Int, NEW lo \in Int, NEW hi \in Int, lo <= hi
  PROVE  Clamp(v, lo, hi) = Clipped(v, lo, hi) /\ Clamp(v, lo, hi) \in lo .. hi
<1>1. Min({v, hi}) = IF v <= hi THEN v ELSE hi
  BY MinMaxOfTwo
<1>2. Min({v, hi}) \in Int
  BY <1>1
<1>3. Clamp(v, lo, hi) = IF lo <= Min({v, hi}) THEN Min({v, hi}) ELSE lo
  BY <1>2, MinMaxOfTwo DEF Clamp
<1> QED
  BY <1>1, <1>3 DEF Clipped

\* The targets lie inside the panel, on both sides of its middle.
LEMMA InsetFits == Inset \in Nat /\ 2 * Inset <= W - 2 /\ 2 * Inset <= H - 2
  BY PanelAssumption, Z3 DEF Inset

\* One row of an affine moves by no more than the tolerance when its place moves by
\* at most one pixel each way.
LEMMA RowMovesLittle ==
  ASSUME NEW a \in Int, NEW b \in Int, NEW c \in Int, NEW m \in Nat \ {0}, NEW n \in Nat \ {0},
         NEW k \in Nat \ {0}, NEW t \in Nat,
         NEW x \in Int, NEW y \in Int, NEW dx \in -1 .. 1, NEW dy \in -1 .. 1,
         Distance(a, 0) * n + Distance(b, 0) * m <= t * k
  PROVE  LET z == a * x * n + b * y * m + c
             zd == a * (x + dx) * n + b * (y + dy) * m + c
         IN z \in Int /\ zd \in Int /\ zd - z <= t * k /\ z - zd <= t * k
<1> DEFINE z == a * x * n + b * y * m + c
           zd == a * (x + dx) * n + b * (y + dy) * m + c
           f == a * dx
           g == b * dy
<1>1. z \in Int /\ zd \in Int /\ zd - z = f * n + g * m
  BY Z3
<1>2. f \in Int /\ g \in Int /\ -Distance(a, 0) <= f /\ f <= Distance(a, 0)
      /\ -Distance(b, 0) <= g /\ g <= Distance(b, 0) /\ Distance(a, 0) \in Nat /\ Distance(b, 0) \in Nat
  <2>1. dx = -1 \/ dx = 0 \/ dx = 1
    OBVIOUS
  <2>2. dy = -1 \/ dy = 0 \/ dy = 1
    OBVIOUS
  <2>3. f = -a \/ f = 0 \/ f = a
    BY <2>1, Z3
  <2>4. g = -b \/ g = 0 \/ g = b
    BY <2>2, Z3
  <2> HIDE DEF f, g
  <2> QED
    BY <2>3, <2>4 DEF Distance
<1> HIDE DEF f, g, z, zd
<1> DEFINE da == Distance(a, 0)
           db == Distance(b, 0)
<1>3. f * n <= da * n /\ (-da) * n <= f * n /\ g * m <= db * m /\ (-db) * m <= g * m
  <2>1. da \in Int /\ -da \in Int /\ db \in Int /\ -db \in Int
    BY <1>2
  <2>2. f <= da /\ -da <= f /\ g <= db /\ -db <= g
    BY <1>2
  <2> HIDE DEF da, db
  <2> QED
    BY <1>2, <2>1, <2>2, TimesMono
<1>4. /\ (-da) * n = -(da * n) /\ (-db) * m = -(db * m)
      /\ {da * n, db * m, f * n, g * m, t * k} \subseteq Int
  <2>1. da \in Int /\ db \in Int
    BY <1>2
  <2> HIDE DEF da, db
  <2> QED
    BY <1>2, <2>1, Z3
<1>5. da * n + db * m <= t * k
  OBVIOUS
<1> HIDE DEF da, db
<1>6. zd - z <= t * k /\ z - zd <= t * k
  BY <1>1, <1>3, <1>4, <1>5
<1> QED
  BY <1>1, <1>6 DEF z, zd

\* What Corrected does with one row.
Row(a, row, x, y, n) ==
  Rounded((a[row + 1] * x * (H - 1) + a[row + 2] * y * (W - 1) + a[row + 3] * (W - 1) * (H - 1)) * n,
          n, Unit * (W - 1) * (H - 1))

LEMMA PanelIsNumbers ==
  /\ W \in Nat /\ H \in Nat /\ W - 1 \in Nat \ {0} /\ H - 1 \in Nat \ {0} /\ W > 4 /\ H > 4
  /\ Unit \in Nat \ {0} /\ Unit * (W - 1) * (H - 1) \in Nat \ {0}
  /\ Unit * (W - 1) \in Nat \ {0} /\ Unit * (H - 1) \in Nat \ {0}
<1>1. W \in Nat /\ H \in Nat /\ W > 4 /\ H > 4 /\ Unit \in Nat \ {0}
  BY PanelAssumption, AffineAssumption
<1>2. \A i, j \in Nat \ {0} : i * j \in Nat \ {0}
  BY Z3
<1>3. W - 1 \in Nat \ {0} /\ H - 1 \in Nat \ {0}
  BY <1>1
<1>4. Unit * (W - 1) \in Nat \ {0} /\ Unit * (H - 1) \in Nat \ {0}
  BY <1>1, <1>2, <1>3
<1>5. Unit * (W - 1) * (H - 1) \in Nat \ {0}
  BY <1>2, <1>3, <1>4
<1> QED
  BY <1>1, <1>3, <1>4, <1>5

LEMMA CorrectedRows ==
  ASSUME NEW a \in [1 .. 6 -> Int], NEW x \in Int, NEW y \in Int
  PROVE  Corrected(a, x, y) = <<Row(a, 0, x, y, W - 1), Row(a, 3, x, y, H - 1)>>
<1> DEFINE den == Unit * (W - 1) * (H - 1)
<1>1. ASSUME NEW num \in Int, NEW n \in Nat
      PROVE  (IF num <= 0 THEN 0 ELSE Min({n, (2 * num + den) \div (2 * den)})) = Rounded(num, n, den)
  <2>1. den \in Nat \ {0}
    BY PanelIsNumbers
  <2> HIDE DEF den
  <2> DEFINE q == Quot(2 * num + den, 2 * den)
  <2>2. CASE num > 0
    <3>1. 2 * num + den \in Nat /\ 2 * den \in Nat \ {0}
      BY <2>1, <2>2
    <3>2. q \in Nat
      BY <3>1, QuotBounds
    <3> HIDE DEF q
    <3>3. Min({n, q}) = IF n <= q THEN n ELSE q
      BY <3>2, MinMaxOfTwo
    <3> QED
      BY <2>2, <3>3 DEF Rounded, Quot, q
  <2>3. CASE num <= 0
    BY <2>3 DEF Rounded
  <2> QED
    BY <2>2, <2>3
<1>2. ASSUME NEW row \in {0, 3}, NEW n \in Nat
      PROVE  (a[row + 1] * x * (H - 1) + a[row + 2] * y * (W - 1) + a[row + 3] * (W - 1) * (H - 1)) * n \in Int
  <2>1. a[row + 1] \in Int /\ a[row + 2] \in Int /\ a[row + 3] \in Int
    OBVIOUS
  <2>2. W - 1 \in Int /\ H - 1 \in Int
    BY PanelIsNumbers
  <2>3. \A i, j \in Int : i * j \in Int
    BY Z3
  <2> QED
    BY <2>1, <2>2, <2>3
<1>3. W - 1 \in Nat /\ H - 1 \in Nat
  BY PanelIsNumbers
<1> QED
  BY <1>1, <1>2, <1>3 DEF Corrected, Row

\* A place that is off by a pixel is off by the tolerance after the correction.
LEMMA CorrectedNear ==
  ASSUME NEW a \in Affines, NEW sx \in Int, NEW sy \in Int,
         NEW x \in sx - 1 .. sx + 1, NEW y \in sy - 1 .. sy + 1
  PROVE  \A i \in {1, 2} : Distance(Corrected(a, x, y)[i], Corrected(a, sx, sy)[i]) <= Tolerance
<1>1. a \in [1 .. 6 -> Int]
  BY AffineAssumption
<1>2. x \in Int /\ y \in Int /\ x - sx \in -1 .. 1 /\ y - sy \in -1 .. 1
      /\ sx + (x - sx) = x /\ sy + (y - sy) = y
  OBVIOUS
<1>3. ASSUME NEW row \in {0, 3}, NEW n \in Nat \ {0}, NEW k \in Nat \ {0},
             Distance(a[row + 1], 0) * (H - 1) + Distance(a[row + 2], 0) * (W - 1) <= Tolerance * k,
             k * n = Unit * (W - 1) * (H - 1)
      PROVE  Distance(Row(a, row, x, y, n), Row(a, row, sx, sy, n)) <= Tolerance
  <2> DEFINE c == a[row + 3] * (W - 1) * (H - 1)
             z == a[row + 1] * sx * (H - 1) + a[row + 2] * sy * (W - 1) + c
             zd == a[row + 1] * x * (H - 1) + a[row + 2] * y * (W - 1) + c
             den == Unit * (W - 1) * (H - 1)
  <2>1. a[row + 1] \in Int /\ a[row + 2] \in Int /\ a[row + 3] \in Int /\ c \in Int
    <3>1. a[row + 1] \in Int /\ a[row + 2] \in Int /\ a[row + 3] \in Int
      BY <1>1
    <3>2. W - 1 \in Int /\ H - 1 \in Int
      BY PanelIsNumbers
    <3>3. \A i, j \in Int : i * j \in Int
      BY Z3
    <3> QED
      BY <3>1, <3>2, <3>3
  <2>2. Tolerance \in Nat
    BY ToleranceAssumption
  <2> HIDE DEF c
  <2>3. z \in Int /\ zd \in Int /\ zd - z <= Tolerance * k /\ z - zd <= Tolerance * k
    <3> DEFINE dx == x - sx
               dy == y - sy
    <3>1. LET zp == a[row + 1] * (sx + dx) * (H - 1) + a[row + 2] * (sy + dy) * (W - 1) + c
          IN z \in Int /\ zp \in Int /\ zp - z <= Tolerance * k /\ z - zp <= Tolerance * k
      <4>1. dx \in -1 .. 1 /\ dy \in -1 .. 1
        BY <1>2
      <4> HIDE DEF dx, dy
      <4> QED
        BY <1>3, <2>1, <2>2, <4>1, PanelIsNumbers, RowMovesLittle
    <3> QED
      BY <1>2, <3>1
  <2> HIDE DEF z, zd
  <2>4. /\ z * n \in Int /\ zd * n \in Int /\ Tolerance * k \in Int /\ Tolerance * den = (Tolerance * k) * n
        /\ (zd - z) * n = zd * n - z * n /\ (z - zd) * n = z * n - zd * n
    <3>1. den = k * n
      BY <1>3
    <3> HIDE DEF den
    <3> QED
      BY <2>2, <2>3, <3>1, Z3
  <2>5. (zd - z) * n <= (Tolerance * k) * n /\ (z - zd) * n <= (Tolerance * k) * n
    BY <2>3, <2>4, TimesMono
  <2>6. zd * n - z * n <= Tolerance * den /\ z * n - zd * n <= Tolerance * den
    <3> HIDE DEF den
    <3> QED
      BY <2>4, <2>5
  <2>7. den \in Nat \ {0}
    BY PanelIsNumbers
  <2>8. Distance(Rounded(zd * n, n, den), Rounded(z * n, n, den)) <= Tolerance
    <3> HIDE DEF den
    <3> QED
      BY <2>2, <2>4, <2>6, <2>7, RoundedNear
  <2> QED
    BY <2>8 DEF Row, z, zd, c
<1>4. /\ (Unit * (H - 1)) * (W - 1) = Unit * (W - 1) * (H - 1)
      /\ (Unit * (W - 1)) * (H - 1) = Unit * (W - 1) * (H - 1)
      /\ Tolerance * Unit * (H - 1) = Tolerance * (Unit * (H - 1))
      /\ Tolerance * Unit * (W - 1) = Tolerance * (Unit * (W - 1))
  BY PanelIsNumbers, ToleranceAssumption, Z3
<1>5. Distance(Row(a, 0, x, y, W - 1), Row(a, 0, sx, sy, W - 1)) <= Tolerance
  <2>1. Distance(a[0 + 1], 0) * (H - 1) + Distance(a[0 + 2], 0) * (W - 1) <= Tolerance * (Unit * (H - 1))
    BY <1>4, ToleranceAssumption
  <2> QED
    BY <1>3, <1>4, <2>1, PanelIsNumbers
<1>6. Distance(Row(a, 3, x, y, H - 1), Row(a, 3, sx, sy, H - 1)) <= Tolerance
  <2>1. Distance(a[3 + 1], 0) * (H - 1) + Distance(a[3 + 2], 0) * (W - 1) <= Tolerance * (Unit * (W - 1))
    BY <1>4, ToleranceAssumption
  <2> QED
    BY <1>3, <1>4, <2>1, PanelIsNumbers
<1> QED
  BY <1>1, <1>2, <1>5, <1>6, CorrectedRows

-----------------------------------------------------------------------------
(* The limits solved for one axis.                                         *)

\* What the panel reads at place v of an axis, n pixels beyond the first one long.
Line(v, n, inverted, lo, w) == lo + Quot((IF inverted THEN n - v ELSE v) * w, n)

LEMMA Extrapolates ==
  ASSUME NEW n \in Nat \ {0}, NEW s \in Nat, NEW d \in Nat \ {0}, n = d + 2 * s,
         NEW ra \in Int, NEW rb \in Int
  PROVE  /\ ra <= rb =>
              /\ Extrapolated(ra, rb, s, n - s, 0) = ra - Quot((rb - ra) * s, d)
              /\ Extrapolated(ra, rb, s, n - s, n) = ra + Quot((rb - ra) * (n - s), d)
         /\ rb <= ra =>
              /\ Extrapolated(ra, rb, s, n - s, 0) = ra + Quot((ra - rb) * s, d)
              /\ Extrapolated(ra, rb, s, n - s, n) = ra - Quot((ra - rb) * (n - s), d)
<1>1. /\ n - s # s /\ (n - s) - s = d
      /\ Extrapolated(ra, rb, s, n - s, 0) = ra + Quotient((rb - ra) * (0 - s), d)
      /\ Extrapolated(ra, rb, s, n - s, n) = ra + Quotient((rb - ra) * (n - s), d)
  <2>1. n - s # s /\ (n - s) - s = d
    OBVIOUS
  <2> QED
    BY <2>1 DEF Extrapolated
<1>2. Quot(0, d) = 0
  BY Z3 DEF Quot
<1>3. ASSUME NEW f \in Nat
      PROVE  Quotient(f, d) = Quot(f, d) /\ Quotient(-f, d) = -Quot(f, d)
  <2>1. CASE f <= 0
    <3>1. -f = 0 /\ f = 0
      BY <2>1
    <3>2. Quotient(0, d) = Quot(0, d)
      BY DEF Quotient, Quot
    <3>3. Quotient(f, d) = 0 /\ Quot(f, d) = 0 /\ Quotient(-f, d) = 0
      BY <1>2, <2>1, <3>1, <3>2
    <3> QED
      BY <3>3
  <2>2. CASE f > 0
    <3>1. -f < 0 /\ -(-f) = f /\ ~(f < 0)
      BY <2>2
    <3> QED
      BY <3>1 DEF Quotient, Quot
  <2> QED
    BY <2>1, <2>2
<1>4. ASSUME ra <= rb
      PROVE  /\ (rb - ra) * s \in Nat /\ (rb - ra) * (n - s) \in Nat
             /\ (rb - ra) * (0 - s) = -((rb - ra) * s)
  BY <1>4, Z3
<1>5. ASSUME rb <= ra
      PROVE  /\ (ra - rb) * s \in Nat /\ (ra - rb) * (n - s) \in Nat
             /\ (rb - ra) * (0 - s) = (ra - rb) * s /\ (rb - ra) * (n - s) = -((ra - rb) * (n - s))
  BY <1>5, Z3
<1>6. \A f \in Nat : Quot(f, d) \in Nat
  BY QuotBounds
<1>7. ASSUME ra <= rb
      PROVE  /\ Extrapolated(ra, rb, s, n - s, 0) = ra - Quot((rb - ra) * s, d)
             /\ Extrapolated(ra, rb, s, n - s, n) = ra + Quot((rb - ra) * (n - s), d)
  <2> DEFINE f == (rb - ra) * s
             g == (rb - ra) * (n - s)
  <2>1. f \in Nat /\ g \in Nat /\ (rb - ra) * (0 - s) = -f
    BY <1>4, <1>7
  <2>2. Quot(f, d) \in Nat
    BY <1>6, <2>1
  <2>3. Quotient(-f, d) = -Quot(f, d) /\ Quotient(g, d) = Quot(g, d)
    BY <1>3, <2>1
  <2>4. Extrapolated(ra, rb, s, n - s, 0) = ra + Quotient(-f, d)
    BY <1>1, <2>1
  <2>5. Extrapolated(ra, rb, s, n - s, n) = ra + Quotient(g, d)
    BY <1>1
  <2> HIDE DEF f, g
  <2>6. ra + -Quot(f, d) = ra - Quot(f, d)
    BY <2>2
  <2>7. Extrapolated(ra, rb, s, n - s, 0) = ra - Quot(f, d) /\ Extrapolated(ra, rb, s, n - s, n) = ra + Quot(g, d)
    BY <2>3, <2>4, <2>5, <2>6
  <2> QED
    BY <2>7 DEF f, g
<1>8. ASSUME rb <= ra
      PROVE  /\ Extrapolated(ra, rb, s, n - s, 0) = ra + Quot((ra - rb) * s, d)
             /\ Extrapolated(ra, rb, s, n - s, n) = ra - Quot((ra - rb) * (n - s), d)
  <2> DEFINE f == (ra - rb) * s
             g == (ra - rb) * (n - s)
  <2>1. f \in Nat /\ g \in Nat /\ (rb - ra) * (0 - s) = f /\ (rb - ra) * (n - s) = -g
    BY <1>5, <1>8
  <2>2. Quot(g, d) \in Nat
    BY <1>6, <2>1
  <2>3. Quotient(f, d) = Quot(f, d) /\ Quotient(-g, d) = -Quot(g, d)
    BY <1>3, <2>1
  <2>4. Extrapolated(ra, rb, s, n - s, 0) = ra + Quotient(f, d)
    BY <1>1, <2>1
  <2>5. Extrapolated(ra, rb, s, n - s, n) = ra + Quotient(-g, d)
    BY <1>1, <2>1
  <2> HIDE DEF f, g
  <2>6. ra + -Quot(g, d) = ra - Quot(g, d)
    BY <2>2
  <2>7. Extrapolated(ra, rb, s, n - s, 0) = ra + Quot(f, d) /\ Extrapolated(ra, rb, s, n - s, n) = ra - Quot(g, d)
    BY <2>3, <2>4, <2>5, <2>6
  <2> QED
    BY <2>7 DEF f, g
<1> QED
  BY <1>7, <1>8

\* Readings at opposite targets are three apart at least.
LEMMA TargetsApart ==
  ASSUME NEW n \in Nat, n >= 4, NEW s \in Nat, NEW d \in Nat \ {0}, n = d + 2 * s,
         NEW w \in Nat, NEW e \in Nat, n + d <= (e + 1) * d, (e + 1) * n <= w - 2 * e
  PROVE  Quot(s * w, n) + 3 <= Quot((n - s) * w, n)
<1> DEFINE f == Quot(s * w, n)
           g == Quot((n - s) * w, n)
<1>1. /\ f \in Nat /\ n * f <= s * w
      /\ g \in Nat /\ (n - s) * w < n * g + n
  <2>1. s \in 0 .. n /\ n - s \in 0 .. n /\ n \in Nat \ {0}
    OBVIOUS
  <2>2. f \in 0 .. w /\ n * f <= s * w
    BY <2>1, ReadingBounds
  <2>3. g \in 0 .. w /\ (n - s) * w < n * g + n
    BY <2>1, ReadingBounds
  <2> QED
    BY <2>2, <2>3
<1> HIDE DEF f, g
<1>2. (n - s) * w = s * w + d * w /\ s * w \in Int /\ d * w \in Int /\ n * f \in Int /\ n * g \in Int
  BY <1>1, Z3
<1>3. n * n + d * n <= d * w
  <2>1. ((e + 1) * n) * d <= w * d
    <3>1. (e + 1) * n \in Int /\ (e + 1) * n <= w
      <4>1. (e + 1) * n \in Int
        BY Z3
      <4> QED
        BY <4>1
    <3> QED
      BY <3>1, TimesMono
  <2>2. (n + d) * n <= ((e + 1) * d) * n
    <3>1. (e + 1) * d \in Int
      BY Z3
    <3> QED
      BY <3>1, TimesMono
  <2>3. ((e + 1) * d) * n = ((e + 1) * n) * d /\ w * d = d * w /\ (n + d) * n = n * n + d * n
        /\ ((e + 1) * n) * d \in Int /\ n * n \in Int /\ d * n \in Int
    BY Z3
  <2> QED
    BY <1>2, <2>1, <2>2, <2>3
<1>4. 4 * n <= n * n /\ n * n \in Int /\ d * n >= 0 /\ d * n \in Int
  BY TimesMono, Z3
<1>5. (f + 2) * n < g * n
  <2>1. (f + 2) * n = n * f + 2 * n /\ g * n = n * g
    BY <1>1, Z3
  <2> QED
    BY <1>1, <1>2, <1>3, <1>4, <2>1
<1>6. f + 2 < g
  <2>1. ASSUME g <= f + 2 PROVE FALSE
    <3>1. g * n <= (f + 2) * n /\ g * n \in Int /\ (f + 2) * n \in Int
      BY <1>1, <2>1, TimesMono
    <3> QED
      BY <1>5, <3>1
  <2> QED
    BY <1>1, <2>1
<1> QED
  BY <1>1, <1>6 DEF f, g

\* The limits of an axis are as good as the readings, and its direction is found.
AxisFits(n, s, d, lo, w, e) ==
  /\ n \in Nat /\ n >= 4 /\ s \in Nat /\ d \in Nat \ {0} /\ n = d + 2 * s
  /\ lo \in Nat /\ w \in Nat /\ lo + w <= RawTop
  /\ e \in Nat /\ n + d <= (e + 1) * d /\ (e + 1) * n <= w - 2 * e

AxisRight(left, right, inverted, lo, w, e) ==
  /\ left \in Int /\ right \in Int /\ inverted = (left > right)
  /\ Clamp(Min({left, right}), 0, RawTop) \in lo - e .. lo + e
  /\ Clamp(Max({left, right}), 0, RawTop) \in lo + w - e .. lo + w + e

LEMMA AxisSolved ==
  ASSUME NEW n, NEW s, NEW d, NEW lo, NEW w, NEW e, AxisFits(n, s, d, lo, w, e),
         NEW inverted \in BOOLEAN,
         NEW ra \in Int, NEW rb \in Int,
         ra \in Line(s, n, inverted, lo, w) .. Line(s, n, inverted, lo, w) + 1,
         rb \in Line(n - s, n, inverted, lo, w) .. Line(n - s, n, inverted, lo, w) + 1
  PROVE  AxisRight(Extrapolated(ra, rb, s, n - s, 0), Extrapolated(ra, rb, s, n - s, n),
                   inverted, lo, w, e)
<1> USE DEF AxisFits
<1> DEFINE left == Extrapolated(ra, rb, s, n - s, 0)
           right == Extrapolated(ra, rb, s, n - s, n)
           f == Quot(s * w, n)
           g == Quot((n - s) * w, n)
<1>0. s \in 0 .. n /\ n - s \in 0 .. n /\ n \in Nat \ {0} /\ RawTop \in Nat
  BY PanelAssumption
<1>1. /\ f \in 0 .. w /\ n * f <= s * w /\ s * w < n * f + n
      /\ g \in 0 .. w /\ n * g <= (n - s) * w /\ (n - s) * w < n * g + n
      /\ f + 3 <= g
  <2>1. f \in 0 .. w /\ n * f <= s * w /\ s * w < n * f + n
    BY <1>0, ReadingBounds
  <2>2. g \in 0 .. w /\ n * g <= (n - s) * w /\ (n - s) * w < n * g + n
    BY <1>0, ReadingBounds
  <2>3. f + 3 <= g
    BY TargetsApart
  <2> QED
    BY <2>1, <2>2, <2>3
<1>2. /\ ~inverted => ra \in lo + f .. lo + f + 1 /\ rb \in lo + g .. lo + g + 1
      /\ inverted => ra \in lo + g .. lo + g + 1 /\ rb \in lo + f .. lo + f + 1
  <2>1. n - (n - s) = s
    OBVIOUS
  <2> QED
    BY <2>1 DEF Line
<1> HIDE DEF f, g, left, right
<1>3. ASSUME NEW min \in lo - e .. lo + e, NEW max \in lo + w - e .. lo + w + e
      PROVE  Clamp(min, 0, RawTop) \in lo - e .. lo + e /\ Clamp(max, 0, RawTop) \in lo + w - e .. lo + w + e
  <2>1. Clamp(min, 0, RawTop) = Clipped(min, 0, RawTop) /\ Clamp(max, 0, RawTop) = Clipped(max, 0, RawTop)
    <3>1. min \in Int /\ max \in Int /\ RawTop \in Int /\ 0 <= RawTop
      BY <1>0
    <3>2. Clamp(min, 0, RawTop) = Clipped(min, 0, RawTop)
      BY <3>1, ClampClips
    <3>3. Clamp(max, 0, RawTop) = Clipped(max, 0, RawTop)
      BY <3>1, ClampClips
    <3> QED
      BY <3>2, <3>3
  <2> QED
    BY <1>0, <2>1 DEF Clipped
<1>4. \A i \in Int : /\ n * (i + 1) = n * i + n /\ n * i \in Int /\ (n - s) * w = n * w - s * w
                     /\ s * w \in Int /\ n * w \in Int /\ (n - s) * w \in Int
  BY Z3
<1>5. CASE ~inverted
  <2>1. ra < rb
    BY <1>1, <1>2, <1>5
  <2>2. n * f <= n * (ra - lo) /\ n * (ra - lo) <= n * f + n /\ n * g <= n * (rb - lo) /\ n * (rb - lo) <= n * g + n
    <3>1. ra - lo = f \/ ra - lo = f + 1
      BY <1>1, <1>2, <1>5
    <3>2. rb - lo = g \/ rb - lo = g + 1
      BY <1>1, <1>2, <1>5
    <3>3. n * f <= n * (ra - lo) /\ n * (ra - lo) <= n * f + n
      BY <1>1, <1>4, <3>1
    <3>4. n * g <= n * (rb - lo) /\ n * (rb - lo) <= n * g + n
      BY <1>1, <1>4, <3>2
    <3> QED
      BY <3>3, <3>4
  <2>3. /\ -n <= n * (ra - lo) - s * w /\ n * (ra - lo) - s * w <= n
        /\ -n <= n * (rb - lo) - (n - s) * w /\ n * (rb - lo) - (n - s) * w <= n
    <3>1. n * f \in Int /\ n * g \in Int /\ n * (ra - lo) \in Int /\ n * (rb - lo) \in Int
      BY <1>1, Z3
    <3> QED
      BY <1>1, <1>4, <2>2, <3>1
  <2>4. /\ left = ra - Quot((rb - ra) * s, d)
        /\ right = ra + Quot((rb - ra) * (n - s), d)
    BY <1>0, <2>1, Extrapolates DEF left, right
  <2>5. /\ left \in lo - e .. lo + e /\ right \in lo + w - e .. lo + w + e
        /\ left <= ra /\ ra < right
    <3>1. LET el == ra - Quot((rb - ra) * s, d)
              er == ra + Quot((rb - ra) * (n - s), d)
          IN /\ el \in lo - e .. lo + e /\ er \in lo + w - e .. lo + w + e
             /\ el <= ra /\ ra <= er
             /\ rb > ra => ra < er
      <4>1. ra <= rb /\ lo \in Int /\ w \in Int
        BY <2>1
      <4> QED
        BY <1>0, <2>3, <4>1, EdgesFound
    <3> QED
      BY <2>1, <2>4, <3>1
  <2>6. Min({left, right}) = left /\ Max({left, right}) = right
    BY <2>5, MinMaxOfTwo
  <2>7. /\ Clamp(left, 0, RawTop) \in lo - e .. lo + e
        /\ Clamp(right, 0, RawTop) \in lo + w - e .. lo + w + e
    BY <1>3, <2>5
  <2> QED
    BY <1>5, <2>5, <2>6, <2>7 DEF left, right, AxisRight
\* The same with every reading negated.
<1>6. CASE inverted
  <2>1. rb < ra
    BY <1>1, <1>2, <1>6
  <2> DEFINE na == -ra
             nb == -rb
             nl == -(lo + w)
  <2>2. n * g <= n * (ra - lo) /\ n * (ra - lo) <= n * g + n /\ n * f <= n * (rb - lo) /\ n * (rb - lo) <= n * f + n
    <3>1. ra - lo = g \/ ra - lo = g + 1
      BY <1>1, <1>2, <1>6
    <3>2. rb - lo = f \/ rb - lo = f + 1
      BY <1>1, <1>2, <1>6
    <3>3. n * g <= n * (ra - lo) /\ n * (ra - lo) <= n * g + n
      BY <1>1, <1>4, <3>1
    <3>4. n * f <= n * (rb - lo) /\ n * (rb - lo) <= n * f + n
      BY <1>1, <1>4, <3>2
    <3> QED
      BY <3>3, <3>4
  <2>3. /\ -n <= n * (na - nl) - s * w /\ n * (na - nl) - s * w <= n
        /\ -n <= n * (nb - nl) - (n - s) * w /\ n * (nb - nl) - (n - s) * w <= n
    <3>1. n * f \in Int /\ n * g \in Int /\ n * (ra - lo) \in Int /\ n * (rb - lo) \in Int
      BY <1>1, Z3
    <3>2. n * (na - nl) = n * w - n * (ra - lo) /\ n * (nb - nl) = n * w - n * (rb - lo)
      BY Z3
    <3> HIDE DEF na, nb, nl
    <3> QED
      BY <1>1, <1>4, <2>2, <3>1, <3>2
  <2>4. na \in Int /\ nb \in Int /\ nl \in Int /\ na < nb /\ nb - na = ra - rb /\ nl + w = -lo
    BY <2>1
  <2>5. LET nleft == na - Quot((nb - na) * s, d)
            nright == na + Quot((nb - na) * (n - s), d)
        IN /\ nleft \in nl - e .. nl + e /\ nright \in nl + w - e .. nl + w + e
           /\ nleft <= na /\ na < nright
    <3> HIDE DEF na, nb, nl
    <3>1. LET nleft == na - Quot((nb - na) * s, d)
              nright == na + Quot((nb - na) * (n - s), d)
          IN /\ nleft \in nl - e .. nl + e /\ nright \in nl + w - e .. nl + w + e
             /\ nleft <= na /\ na <= nright
             /\ nb > na => na < nright
      <4>1. na <= nb /\ w \in Int
        BY <2>4
      <4> QED
        BY <1>0, <2>3, <2>4, <4>1, EdgesFound
    <3> QED
      BY <2>4, <3>1
  <2>6. /\ left = ra + Quot((ra - rb) * s, d)
        /\ right = ra - Quot((ra - rb) * (n - s), d)
    BY <1>0, <2>1, Extrapolates DEF left, right
  <2>7. Quot((ra - rb) * s, d) \in Nat /\ Quot((ra - rb) * (n - s), d) \in Nat
    <3>1. (ra - rb) * s \in Nat /\ (ra - rb) * (n - s) \in Nat
      BY <2>1, Z3
    <3> QED
      BY <3>1, QuotBounds
  <2>8. /\ left \in lo + w - e .. lo + w + e /\ right \in lo - e .. lo + e
        /\ ra <= left /\ right < ra
    BY <2>4, <2>5, <2>6, <2>7
  <2>9. Min({left, right}) = right /\ Max({left, right}) = left
    BY <2>8, MinMaxOfTwo
  <2>10. /\ Clamp(right, 0, RawTop) \in lo - e .. lo + e
         /\ Clamp(left, 0, RawTop) \in lo + w - e .. lo + w + e
    BY <1>3, <2>8
  <2>11. left \in Int /\ right \in Int /\ left > right
    BY <2>8
  <2>12. inverted = (left > right)
    BY <1>6, <2>11
  <2> QED
    BY <2>9, <2>10, <2>11, <2>12 DEF left, right, AxisRight
<1> QED
  BY <1>5, <1>6

-----------------------------------------------------------------------------
(* Solving and mapping.                                                    *)

Off(n) == EdgeError(n) - 1
Between(n) == n - 1 - 2 * Inset
SpanX == mount.xhi - mount.xlo
SpanY == mount.yhi - mount.ylo
\* Which of a pair of readings grows along the screen.
AxisX == IF mount.swap THEN 2 ELSE 1

LEMMA OffSuffices ==
  ASSUME NEW n \in {W, H}
  PROVE  /\ Off(n) \in Nat /\ EdgeError(n) = Off(n) + 1
         /\ Between(n) \in Nat \ {0} /\ n - 1 = Between(n) + 2 * Inset
         /\ (n - 1) + Between(n) <= (Off(n) + 1) * Between(n)
<1>1. n \in Nat /\ n > 4 /\ Inset \in Nat /\ 2 * Inset <= n - 2
  BY PanelIsNumbers, InsetFits
<1>2. Between(n) \in Nat \ {0} /\ n - 1 = Between(n) + 2 * Inset /\ n - 2 \in Nat
  BY <1>1 DEF Between
<1> DEFINE d == Between(n)
           q == Quot(n - 2, d)
<1>3. EdgeError(n) = 2 + q
  BY DEF EdgeError, Quot, Between
<1> HIDE DEF d
<1>4. q \in Nat /\ n - 2 < q * d + d
  BY <1>2, QuotBounds DEF d
<1> HIDE DEF q
<1>5. (2 + q) * d = q * d + 2 * d /\ q * d \in Int
  BY <1>2, <1>4, Z3 DEF d
<1>6. Off(n) = 1 + q /\ Off(n) + 1 = 2 + q
  BY <1>3, <1>4 DEF Off
<1>7. (n - 1) + d <= (Off(n) + 1) * d
  BY <1>1, <1>2, <1>4, <1>5, <1>6 DEF d
<1> QED
  BY <1>2, <1>3, <1>4, <1>6, <1>7 DEF d

LEMMA MountResolves ==
  ASSUME mount \in Mounts
  PROVE  /\ {mount.swap, mount.ix, mount.iy} \subseteq BOOLEAN
         /\ mount.xlo \in Nat /\ SpanX \in Nat /\ mount.xlo + SpanX <= RawTop
         /\ (Off(W) + 1) * (W - 1) <= SpanX - 2 * Off(W)
         /\ mount.ylo \in Nat /\ SpanY \in Nat /\ mount.ylo + SpanY <= RawTop
         /\ (Off(H) + 1) * (H - 1) <= SpanY - 2 * Off(H)
<1>1. /\ {mount.swap, mount.ix, mount.iy} \subseteq BOOLEAN
      /\ {mount.xlo, mount.xhi, mount.ylo, mount.yhi} \subseteq 0 .. RawTop
      /\ Resolves(SpanX, W) /\ Resolves(SpanY, H)
  BY MountAssumption DEF SpanX, SpanY
<1>2. W - 1 \in Nat /\ H - 1 \in Nat /\ RawTop \in Nat
  BY PanelIsNumbers, PanelAssumption
<1>3. SpanX \in Int /\ SpanY \in Int /\ mount.xlo + SpanX <= RawTop /\ mount.ylo + SpanY <= RawTop
      /\ mount.xlo \in Nat /\ mount.ylo \in Nat
  BY <1>1, <1>2 DEF SpanX, SpanY
<1>4. ASSUME NEW n \in {W, H}, NEW w \in Int, Resolves(w, n)
      PROVE  (Off(n) + 1) * (n - 1) <= w - 2 * Off(n) /\ w \in Nat
  <2>1. Off(n) \in Nat /\ EdgeError(n) = Off(n) + 1 /\ EdgeError(n) - 1 = Off(n)
    BY OffSuffices DEF Off
  <2>2. (Off(n) + 1) * (n - 1) <= w - 2 * Off(n)
    BY <1>4, <2>1 DEF Resolves
  <2>3. (Off(n) + 1) * (n - 1) \in Nat
    <3>1. n - 1 \in Nat
      BY <1>2
    <3> QED
      BY <2>1, <3>1, Z3
  <2> QED
    BY <2>1, <2>2, <2>3
<1> QED
  BY <1>1, <1>3, <1>4

LEMMA ReadingIs ==
  ASSUME mount \in Mounts, NEW vx \in Int, NEW vy \in Int
  PROVE  /\ AxisX \in {1, 2} /\ 3 - AxisX \in {1, 2} /\ 3 - AxisX # AxisX
         /\ Reading(<<vx, vy>>)[AxisX] = Line(vx, W - 1, mount.ix, mount.xlo, SpanX)
         /\ Reading(<<vx, vy>>)[3 - AxisX] = Line(vy, H - 1, mount.iy, mount.ylo, SpanY)
<1>1. CASE mount.swap
  <2>1. AxisX = 2 /\ 3 - AxisX = 1
    BY <1>1 DEF AxisX
  <2> QED
    BY <1>1, <2>1 DEF Reading, Line, Quot, SpanX, SpanY
<1>2. CASE ~mount.swap
  <2>1. AxisX = 1 /\ 3 - AxisX = 2
    BY <1>2 DEF AxisX
  <2> QED
    BY <1>2, <2>1 DEF Reading, Line, Quot, SpanX, SpanY
<1> QED
  BY <1>1, <1>2

\* Points that were taken at their targets.
PointsRead(p) ==
  \A i \in 1 .. PosPoints, k \in {1, 2} :
    p[i][k] \in Reading(Target(i))[k] .. Reading(Target(i))[k] + 1

LEMMA Targets ==
  /\ Target(1) = <<Inset, Inset>> /\ Target(2) = <<W - 1 - Inset, Inset>>
  /\ Target(3) = <<W - 1 - Inset, H - 1 - Inset>> /\ Target(4) = <<Inset, H - 1 - Inset>>
  BY DEF Target

LEMMA LineIsNat ==
  ASSUME NEW n \in Nat \ {0}, NEW w \in Nat, NEW lo \in Nat, NEW v \in 0 .. n, NEW inverted \in BOOLEAN
  PROVE  Line(v, n, inverted, lo, w) \in lo .. lo + w
<1> DEFINE p == IF inverted THEN n - v ELSE v
<1>1. p \in 0 .. n
  OBVIOUS
<1>2. Quot(p * w, n) \in 0 .. w
  <2> HIDE DEF p
  <2> QED
    BY <1>1, ReadingBounds
<1> QED
  BY <1>2 DEF Line

LEMMA LinesApart ==
  ASSUME NEW n \in Nat, n >= 4, NEW s \in Nat, NEW d \in Nat \ {0}, n = d + 2 * s,
         NEW w \in Nat, NEW e \in Nat, n + d <= (e + 1) * d, (e + 1) * n <= w - 2 * e,
         NEW lo \in Nat, NEW inverted \in BOOLEAN
  PROVE  /\ Line(s, n, inverted, lo, w) \in Nat /\ Line(n - s, n, inverted, lo, w) \in Nat
         /\ Distance(Line(s, n, inverted, lo, w), Line(n - s, n, inverted, lo, w)) >= 3
<1> DEFINE f == Quot(s * w, n)
           g == Quot((n - s) * w, n)
<1>1. f + 3 <= g
  BY TargetsApart
<1>2. f \in Nat /\ g \in Nat
  <2>1. s * w \in Nat /\ (n - s) * w \in Nat
    BY Z3
  <2> QED
    BY <2>1, QuotBounds
<1>3. CASE inverted
  <2>1. n - (n - s) = s
    OBVIOUS
  <2>2. Line(s, n, inverted, lo, w) = lo + g /\ Line(n - s, n, inverted, lo, w) = lo + f
    BY <1>3, <2>1 DEF Line
  <2> HIDE DEF f, g
  <2> QED
    BY <1>1, <1>2, <2>2 DEF Distance
<1>4. CASE ~inverted
  <2>1. Line(s, n, inverted, lo, w) = lo + f /\ Line(n - s, n, inverted, lo, w) = lo + g
    BY <1>4 DEF Line
  <2> HIDE DEF f, g
  <2> QED
    BY <1>1, <1>2, <2>1 DEF Distance
<1> QED
  BY <1>3, <1>4

\* Which axis is which shows in the means of two targets, whatever the readings waver.
LEMMA AxesTold ==
  ASSUME NEW l \in Nat, NEW r \in Nat, Distance(l, r) >= 3,
         NEW a \in l .. l + 1, NEW b \in l .. l + 1, NEW c \in r .. r + 1, NEW d \in r .. r + 1
  PROVE  /\ (a + b) \div 2 \in l .. l + 1 /\ (c + d) \div 2 \in r .. r + 1
         /\ Distance((c + d) \div 2, (a + b) \div 2) >= 2
         /\ Distance((d + b) \div 2, (a + c) \div 2) <= 1
         /\ Distance((c + d) \div 2, (a + b) \div 2) \in Int
         /\ Distance((d + b) \div 2, (a + c) \div 2) \in Int
<1>1. (a + b) \div 2 \in (l + l) \div 2 .. (l + l) \div 2 + 1
  BY MeanWithin
<1>2. (c + d) \div 2 \in (r + r) \div 2 .. (r + r) \div 2 + 1
  BY MeanWithin
<1>3. (d + b) \div 2 \in (r + l) \div 2 .. (r + l) \div 2 + 1
  BY MeanWithin
<1>4. (a + c) \div 2 \in (l + r) \div 2 .. (l + r) \div 2 + 1
  BY MeanWithin
<1>5. (l + l) \div 2 = l /\ (r + r) \div 2 = r /\ (r + l) \div 2 = (l + r) \div 2 /\ (l + r) \div 2 \in Nat
  BY Z3
<1> DEFINE m1 == (a + b) \div 2
           m2 == (c + d) \div 2
           m3 == (d + b) \div 2
           m4 == (a + c) \div 2
           m == (l + r) \div 2
<1>6. m1 \in l .. l + 1 /\ m2 \in r .. r + 1 /\ m3 \in m .. m + 1 /\ m4 \in m .. m + 1 /\ m \in Nat
  BY <1>1, <1>2, <1>3, <1>4, <1>5
<1> HIDE DEF m1, m2, m3, m4, m
<1>7. /\ Distance(m2, m1) >= 2 /\ Distance(m3, m4) <= 1
      /\ Distance(m2, m1) \in Int /\ Distance(m3, m4) \in Int
  BY <1>6 DEF Distance
<1> QED
  BY <1>6, <1>7 DEF m1, m2, m3, m4

LEMMA SolvedIsRight ==
  ASSUME mount \in Mounts, NEW p, PointsRead(p)
  PROVE  LET c == Solved(p)
         IN /\ c.swap = mount.swap /\ c.ix = mount.ix /\ c.iy = mount.iy
            /\ c.xmin \in mount.xlo - Off(W) .. mount.xlo + Off(W)
            /\ c.xmax \in mount.xlo + SpanX - Off(W) .. mount.xlo + SpanX + Off(W)
            /\ c.ymin \in mount.ylo - Off(H) .. mount.ylo + Off(H)
            /\ c.ymax \in mount.ylo + SpanY - Off(H) .. mount.ylo + SpanY + Off(H)
<1> DEFINE kx == AxisX
           ky == 3 - AxisX
           LX == Line(Inset, W - 1, mount.ix, mount.xlo, SpanX)
           RX == Line(W - 1 - Inset, W - 1, mount.ix, mount.xlo, SpanX)
           TY == Line(Inset, H - 1, mount.iy, mount.ylo, SpanY)
           BY1 == Line(H - 1 - Inset, H - 1, mount.iy, mount.ylo, SpanY)
           Mean(axis, i, j) == (p[i][axis] + p[j][axis]) \div 2
<1>1. /\ Inset \in Int /\ W - 1 - Inset \in Int /\ H - 1 - Inset \in Int
      /\ W - 1 \in Nat /\ H - 1 \in Nat /\ W - 1 >= 4 /\ H - 1 >= 4 /\ Inset \in Nat
      /\ W \in {W, H} /\ H \in {W, H}
  BY InsetFits, PanelIsNumbers
<1>2. /\ kx \in {1, 2} /\ ky \in {1, 2} /\ ky # kx
      /\ p[1][kx] \in LX .. LX + 1 /\ p[4][kx] \in LX .. LX + 1
      /\ p[2][kx] \in RX .. RX + 1 /\ p[3][kx] \in RX .. RX + 1
      /\ p[1][ky] \in TY .. TY + 1 /\ p[2][ky] \in TY .. TY + 1
      /\ p[3][ky] \in BY1 .. BY1 + 1 /\ p[4][ky] \in BY1 .. BY1 + 1
  <2>1. kx \in {1, 2} /\ ky \in {1, 2} /\ ky # kx
    BY <1>1, ReadingIs
  <2>2. \A i \in {1, 2, 3, 4}, k \in {1, 2} :
          p[i][k] \in Reading(Target(i))[k] .. Reading(Target(i))[k] + 1
    BY DEF PointsRead, PosPoints
  <2>3. Reading(Target(1))[kx] = LX /\ Reading(Target(1))[ky] = TY
    BY <1>1, ReadingIs, Targets
  <2>4. Reading(Target(2))[kx] = RX /\ Reading(Target(2))[ky] = TY
    BY <1>1, ReadingIs, Targets
  <2>5. Reading(Target(3))[kx] = RX /\ Reading(Target(3))[ky] = BY1
    BY <1>1, ReadingIs, Targets
  <2>6. Reading(Target(4))[kx] = LX /\ Reading(Target(4))[ky] = BY1
    BY <1>1, ReadingIs, Targets
  <2> HIDE DEF kx, ky, LX, RX, TY, BY1
  <2> QED
    BY <2>1, <2>2, <2>3, <2>4, <2>5, <2>6
<1>3. LX \in Nat /\ RX \in Nat /\ Distance(LX, RX) >= 3
  <2>1. mount.ix \in BOOLEAN
    BY MountResolves
  <2> QED
    BY <1>1, <2>1, MountResolves, OffSuffices, LinesApart
<1>4. TY \in Nat /\ BY1 \in Nat /\ Distance(TY, BY1) >= 3
  <2>1. mount.iy \in BOOLEAN
    BY MountResolves
  <2> QED
    BY <1>1, <2>1, MountResolves, OffSuffices, LinesApart
<1> HIDE DEF kx, ky, LX, RX, TY, BY1
<1>5. /\ Mean(kx, 1, 4) \in LX .. LX + 1 /\ Mean(kx, 2, 3) \in RX .. RX + 1
      /\ Distance(Mean(kx, 2, 3), Mean(kx, 1, 4)) >= 2 /\ Distance(Mean(kx, 3, 4), Mean(kx, 1, 2)) <= 1
      /\ Distance(Mean(kx, 2, 3), Mean(kx, 1, 4)) \in Int /\ Distance(Mean(kx, 3, 4), Mean(kx, 1, 2)) \in Int
  <2>1. /\ (p[1][kx] + p[4][kx]) \div 2 \in LX .. LX + 1 /\ (p[2][kx] + p[3][kx]) \div 2 \in RX .. RX + 1
        /\ Distance((p[2][kx] + p[3][kx]) \div 2, (p[1][kx] + p[4][kx]) \div 2) >= 2
        /\ Distance((p[3][kx] + p[4][kx]) \div 2, (p[1][kx] + p[2][kx]) \div 2) <= 1
        /\ Distance((p[2][kx] + p[3][kx]) \div 2, (p[1][kx] + p[4][kx]) \div 2) \in Int
        /\ Distance((p[3][kx] + p[4][kx]) \div 2, (p[1][kx] + p[2][kx]) \div 2) \in Int
    BY <1>2, <1>3, AxesTold
  <2> QED
    BY <2>1
<1>6. /\ Mean(ky, 1, 2) \in TY .. TY + 1 /\ Mean(ky, 3, 4) \in BY1 .. BY1 + 1
      /\ Distance(Mean(ky, 3, 4), Mean(ky, 1, 2)) >= 2 /\ Distance(Mean(ky, 2, 3), Mean(ky, 1, 4)) <= 1
      /\ Distance(Mean(ky, 3, 4), Mean(ky, 1, 2)) \in Int /\ Distance(Mean(ky, 2, 3), Mean(ky, 1, 4)) \in Int
  <2>1. /\ (p[1][ky] + p[2][ky]) \div 2 \in TY .. TY + 1 /\ (p[4][ky] + p[3][ky]) \div 2 \in BY1 .. BY1 + 1
        /\ Distance((p[4][ky] + p[3][ky]) \div 2, (p[1][ky] + p[2][ky]) \div 2) >= 2
        /\ Distance((p[3][ky] + p[2][ky]) \div 2, (p[1][ky] + p[4][ky]) \div 2) <= 1
        /\ Distance((p[4][ky] + p[3][ky]) \div 2, (p[1][ky] + p[2][ky]) \div 2) \in Int
        /\ Distance((p[3][ky] + p[2][ky]) \div 2, (p[1][ky] + p[4][ky]) \div 2) \in Int
    BY <1>2, <1>4, AxesTold
  <2>2. p[4][ky] + p[3][ky] = p[3][ky] + p[4][ky] /\ p[3][ky] + p[2][ky] = p[2][ky] + p[3][ky]
    BY <1>2, <1>4
  <2> QED
    BY <2>1, <2>2
<1> DEFINE swap == /\ Distance(Mean(2, 2, 3), Mean(2, 1, 4)) > Distance(Mean(1, 2, 3), Mean(1, 1, 4))
                   /\ Distance(Mean(1, 3, 4), Mean(1, 1, 2)) > Distance(Mean(2, 3, 4), Mean(2, 1, 2))
<1>7. swap = mount.swap /\ kx = IF swap THEN 2 ELSE 1
  <2>1. mount.swap \in BOOLEAN
    BY MountResolves
  <2>2. CASE mount.swap
    <3>1. kx = 2 /\ ky = 1
      BY <2>2 DEF kx, ky, AxisX
    <3>2. swap
      <4> HIDE DEF Mean
      <4> QED
        BY <1>5, <1>6, <3>1
    <3> HIDE DEF swap
    <3> QED
      BY <2>1, <2>2, <3>1, <3>2
  <2>3. CASE ~mount.swap
    <3>1. kx = 1 /\ ky = 2
      BY <2>3 DEF kx, ky, AxisX
    <3>2. swap = FALSE
      <4> HIDE DEF Mean
      <4> QED
        BY <1>5, <1>6, <3>1
    <3> HIDE DEF swap
    <3> QED
      BY <2>1, <2>3, <3>1, <3>2
  <2> QED
    BY <2>1, <2>2, <2>3
<1> DEFINE left == Extrapolated(Mean(kx, 1, 4), Mean(kx, 2, 3), Inset, W - 1 - Inset, 0)
           right == Extrapolated(Mean(kx, 1, 4), Mean(kx, 2, 3), Inset, W - 1 - Inset, W - 1)
           top == Extrapolated(Mean(ky, 1, 2), Mean(ky, 3, 4), Inset, H - 1 - Inset, 0)
           bottom == Extrapolated(Mean(ky, 1, 2), Mean(ky, 3, 4), Inset, H - 1 - Inset, H - 1)
<1>8. /\ left \in Int /\ right \in Int /\ mount.ix = (left > right)
      /\ Clamp(Min({left, right}), 0, RawTop) \in mount.xlo - Off(W) .. mount.xlo + Off(W)
      /\ Clamp(Max({left, right}), 0, RawTop) \in mount.xlo + SpanX - Off(W) .. mount.xlo + SpanX + Off(W)
  <2>1. mount.ix \in BOOLEAN /\ Mean(kx, 1, 4) \in Int /\ Mean(kx, 2, 3) \in Int
    BY <1>3, <1>5, MountResolves
  <2> DEFINE a == Mean(kx, 1, 4)
             b == Mean(kx, 2, 3)
             n == W - 1
             lo == mount.xlo
  <2>2. AxisFits(n, Inset, Between(W), lo, SpanX, Off(W))
    BY <1>1, MountResolves, OffSuffices DEF AxisFits
  <2>3. /\ a \in Line(Inset, n, mount.ix, lo, SpanX) .. Line(Inset, n, mount.ix, lo, SpanX) + 1
        /\ b \in Line(n - Inset, n, mount.ix, lo, SpanX) .. Line(n - Inset, n, mount.ix, lo, SpanX) + 1
    BY <1>5 DEF LX, RX
  <2>4. a \in Int /\ b \in Int
    BY <2>1
  <2> HIDE DEF a, b, n, lo
  <2>5. AxisRight(Extrapolated(a, b, Inset, n - Inset, 0), Extrapolated(a, b, Inset, n - Inset, n),
                  mount.ix, lo, SpanX, Off(W))
    BY <2>1, <2>2, <2>3, <2>4, AxisSolved
  <2> QED
    BY <2>5 DEF a, b, n, lo, AxisRight
<1>9. /\ top \in Int /\ bottom \in Int /\ mount.iy = (top > bottom)
      /\ Clamp(Min({top, bottom}), 0, RawTop) \in mount.ylo - Off(H) .. mount.ylo + Off(H)
      /\ Clamp(Max({top, bottom}), 0, RawTop) \in mount.ylo + SpanY - Off(H) .. mount.ylo + SpanY + Off(H)
  <2>1. mount.iy \in BOOLEAN /\ Mean(ky, 1, 2) \in Int /\ Mean(ky, 3, 4) \in Int
    BY <1>4, <1>6, MountResolves
  <2> DEFINE a == Mean(ky, 1, 2)
             b == Mean(ky, 3, 4)
             n == H - 1
             lo == mount.ylo
  <2>2. AxisFits(n, Inset, Between(H), lo, SpanY, Off(H))
    BY <1>1, MountResolves, OffSuffices DEF AxisFits
  <2>3. /\ a \in Line(Inset, n, mount.iy, lo, SpanY) .. Line(Inset, n, mount.iy, lo, SpanY) + 1
        /\ b \in Line(n - Inset, n, mount.iy, lo, SpanY) .. Line(n - Inset, n, mount.iy, lo, SpanY) + 1
    BY <1>6 DEF TY, BY1
  <2>4. a \in Int /\ b \in Int
    BY <2>1
  <2> HIDE DEF a, b, n, lo
  <2>5. AxisRight(Extrapolated(a, b, Inset, n - Inset, 0), Extrapolated(a, b, Inset, n - Inset, n),
                  mount.iy, lo, SpanY, Off(H))
    BY <2>1, <2>2, <2>3, <2>4, AxisSolved
  <2> QED
    BY <2>5 DEF a, b, n, lo, AxisRight
<1>10. Solved(p) =
         [swap |-> swap, ix |-> left > right, iy |-> top > bottom,
          xmin |-> Clamp(Min({left, right}), 0, RawTop), xmax |-> Clamp(Max({left, right}), 0, RawTop),
          ymin |-> Clamp(Min({top, bottom}), 0, RawTop), ymax |-> Clamp(Max({top, bottom}), 0, RawTop)]
  <2>1. 3 - kx = ky
    BY DEF kx, ky
  <2>2. /\ Target(1)[1] = Inset /\ Target(2)[1] = W - 1 - Inset
        /\ Target(1)[2] = Inset /\ Target(4)[2] = H - 1 - Inset
    BY Targets
  <2>3. Solved(p) =
         LET ax == IF swap THEN 2 ELSE 1
             Edge(a, lo1, lo2, hi1, hi2, s1, s2, edge) ==
               Extrapolated(Mean(a, lo1, lo2), Mean(a, hi1, hi2), s1, s2, edge)
             l == Edge(ax, 1, 4, 2, 3, Target(1)[1], Target(2)[1], 0)
             r == Edge(ax, 1, 4, 2, 3, Target(1)[1], Target(2)[1], W - 1)
             t == Edge(3 - ax, 1, 2, 3, 4, Target(1)[2], Target(4)[2], 0)
             b == Edge(3 - ax, 1, 2, 3, 4, Target(1)[2], Target(4)[2], H - 1)
         IN [swap |-> swap, ix |-> l > r, iy |-> t > b,
             xmin |-> Clamp(Min({l, r}), 0, RawTop), xmax |-> Clamp(Max({l, r}), 0, RawTop),
             ymin |-> Clamp(Min({t, b}), 0, RawTop), ymax |-> Clamp(Max({t, b}), 0, RawTop)]
    BY Zenon DEF Solved
  <2> HIDE DEF swap, Mean
  <2> QED
    BY <1>7, <2>1, <2>2, <2>3, SMTT(30)
<1> HIDE DEF swap, left, right, top, bottom
<1> QED
  BY <1>7, <1>8, <1>9, <1>10

-----------------------------------------------------------------------------
(* From a reading back to the place.                                       *)

\* touch_map along one axis.
Placed(r, min, top, n, inverted) ==
  LET hi == IF top <= min THEN min + 1 ELSE top
      x == ((Clamp(r, min, hi) - min) * n) \div (hi - min)
  IN IF inverted THEN n - x ELSE x

LEMMA PlacedNear ==
  ASSUME NEW n \in Nat \ {0}, NEW w \in Nat, NEW lo \in Nat, NEW v \in 0 .. n, NEW e \in Nat,
         NEW inverted \in BOOLEAN,
         NEW min \in lo - e .. lo + e, NEW max \in lo + w - e .. lo + w + e,
         (e + 1) * n <= w - 2 * e
  PROVE  Placed(Line(v, n, inverted, lo, w), min, max, n, inverted) \in v - 1 .. v + 1
<1> DEFINE p == IF inverted THEN n - v ELSE v
           r == lo + Quot(p * w, n)
           x == Quot((Clipped(r, min, max) - min) * n, max - min)
<1>1. p \in 0 .. n
  OBVIOUS
<1>2. min < max /\ x \in 0 .. n /\ x \in p - 1 .. p + 1
  <2> HIDE DEF p
  <2>1. lo \in Int
    OBVIOUS
  <2> QED
    BY <1>1, <2>1, PlaceFound
<1>3. r \in Int
  <2> HIDE DEF p
  <2>1. Quot(p * w, n) \in 0 .. w
    BY <1>1, ReadingBounds
  <2> QED
    BY <2>1
<1>4. min \in Int /\ max \in Int /\ min <= max
  BY <1>2
<1>5. Line(v, n, inverted, lo, w) = r
  BY DEF Line
<1> HIDE DEF r
<1>6. Clamp(r, min, max) = Clipped(r, min, max)
  BY <1>3, <1>4, ClampClips
<1>7. ~(max <= min)
  BY <1>2, <1>4
<1>8. Placed(r, min, max, n, inverted) = IF inverted THEN n - x ELSE x
  <2>1. Placed(r, min, max, n, inverted) =
          LET y == Quot((Clamp(r, min, max) - min) * n, max - min) IN IF inverted THEN n - y ELSE y
    BY <1>7, Zenon DEF Placed, Quot
  <2> QED
    BY <1>6, <2>1
<1> HIDE DEF x
<1> QED
  BY <1>2, <1>5, <1>8

\* Limits as the dialogue solves them.
Limits(c) ==
  /\ c.swap = mount.swap /\ c.ix = mount.ix /\ c.iy = mount.iy
  /\ c.xmin \in mount.xlo - Off(W) .. mount.xlo + Off(W)
  /\ c.xmax \in mount.xlo + SpanX - Off(W) .. mount.xlo + SpanX + Off(W)
  /\ c.ymin \in mount.ylo - Off(H) .. mount.ylo + Off(H)
  /\ c.ymax \in mount.ylo + SpanY - Off(H) .. mount.ylo + SpanY + Off(H)

\* With these a finger is taken for one within the tolerance of where it is.
LEMMA FingerNear ==
  ASSUME mount \in Mounts, NEW c, Limits(c), NEW a \in Affines,
         NEW vx \in 0 .. W - 1, NEW vy \in 0 .. H - 1
  PROVE  \A i \in {1, 2} :
           Distance(TouchMap(c, a, Reading(<<vx, vy>>))[i], Corrected(a, vx, vy)[i]) <= Tolerance
<1> DEFINE rx == Line(vx, W - 1, mount.ix, mount.xlo, SpanX)
           ry == Line(vy, H - 1, mount.iy, mount.ylo, SpanY)
           x == Placed(rx, c.xmin, c.xmax, W - 1, mount.ix)
           y == Placed(ry, c.ymin, c.ymax, H - 1, mount.iy)
<1>1. vx \in Int /\ vy \in Int /\ W - 1 \in Nat \ {0} /\ H - 1 \in Nat \ {0}
  BY PanelIsNumbers
<1>2. /\ {mount.swap, mount.ix, mount.iy} \subseteq BOOLEAN
      /\ mount.xlo \in Nat /\ SpanX \in Nat /\ (Off(W) + 1) * (W - 1) <= SpanX - 2 * Off(W)
      /\ mount.ylo \in Nat /\ SpanY \in Nat /\ (Off(H) + 1) * (H - 1) <= SpanY - 2 * Off(H)
  BY MountResolves
<1>3. Off(W) \in Nat /\ Off(H) \in Nat
  BY OffSuffices
<1>4. x \in vx - 1 .. vx + 1
  <2>1. mount.ix \in BOOLEAN
    BY <1>2
  <2> QED
    BY <1>1, <1>2, <1>3, <2>1, PlacedNear DEF Limits
<1>5. y \in vy - 1 .. vy + 1
  <2>1. mount.iy \in BOOLEAN
    BY <1>2
  <2> QED
    BY <1>1, <1>2, <1>3, <2>1, PlacedNear DEF Limits
<1>6. TouchMap(c, a, Reading(<<vx, vy>>)) = Corrected(a, x, y)
  <2> DEFINE raw == Reading(<<vx, vy>>)
  <2>1. /\ raw[AxisX] = rx /\ raw[3 - AxisX] = ry
        /\ (IF c.swap THEN raw[2] ELSE raw[1]) = rx /\ (IF c.swap THEN raw[1] ELSE raw[2]) = ry
    <3>1. raw[AxisX] = rx /\ raw[3 - AxisX] = ry
      BY <1>1, ReadingIs
    <3>2. c.swap = mount.swap
      BY DEF Limits
    <3>3. (IF c.swap THEN raw[2] ELSE raw[1]) = raw[AxisX]
      <4> HIDE DEF raw
      <4> QED
        BY <3>2 DEF AxisX
    <3>4. (IF c.swap THEN raw[1] ELSE raw[2]) = raw[3 - AxisX]
      <4> HIDE DEF raw
      <4>1. 3 - 2 = 1 /\ 3 - 1 = 2
        OBVIOUS
      <4> QED
        BY <3>2, <4>1 DEF AxisX
    <3> HIDE DEF raw, rx, ry
    <3> QED
      BY <3>1, <3>3, <3>4
  <2> HIDE DEF raw, rx, ry
  <2>2. c.ix = mount.ix /\ c.iy = mount.iy
    BY DEF Limits
  <2>3. TouchMap(c, a, raw) =
          Corrected(a, Placed(IF c.swap THEN raw[2] ELSE raw[1], c.xmin, c.xmax, W - 1, c.ix),
                    Placed(IF c.swap THEN raw[1] ELSE raw[2], c.ymin, c.ymax, H - 1, c.iy))
    BY Zenon DEF TouchMap, Placed
  <2> QED
    BY <2>1, <2>2, <2>3 DEF raw
<1> HIDE DEF x, y
<1> QED
  BY <1>1, <1>4, <1>5, <1>6, CorrectedNear

-----------------------------------------------------------------------------
(* The dialogue.                                                           *)

LEMMA ShownIs ==
  ASSUME NEW i \in Int, i >= 1
  PROVE  Min({i, PosPoints}) = (IF i <= PosPoints THEN i ELSE PosPoints) /\ Min({i, PosPoints}) \in 1 .. PosPoints
<1>1. PosPoints \in Int /\ PosPoints = 5
  BY DEF PosPoints
<1>2. Min({i, PosPoints}) = IF i <= PosPoints THEN i ELSE PosPoints
  BY <1>1, MinMaxOfTwo
<1> QED
  BY <1>1, <1>2

LEMMA TargetsInPanel ==
  ASSUME NEW i \in 1 .. PosPoints
  PROVE  \E x \in 0 .. W - 1, y \in 0 .. H - 1 : Target(i) = <<x, y>>
<1>1. /\ W \in Nat /\ H \in Nat /\ W > 4 /\ H > 4
      /\ Inset \in Nat /\ 2 * Inset <= W - 2 /\ 2 * Inset <= H - 2
  BY PanelIsNumbers, InsetFits
<1>2. (W - 1) \div 2 \in 0 .. W - 1 /\ (H - 1) \div 2 \in 0 .. H - 1
  BY <1>1, Z3
<1>3. Inset \in 0 .. W - 1 /\ Inset \in 0 .. H - 1 /\ W - 1 - Inset \in 0 .. W - 1 /\ H - 1 - Inset \in 0 .. H - 1
  BY <1>1
<1>4. i \in {1, 2, 3, 4, 5}
  BY DEF PosPoints
<1>5. i = 5 => Target(i) = <<(W - 1) \div 2, (H - 1) \div 2>>
  BY DEF Target
<1> QED
  BY <1>2, <1>3, <1>4, <1>5, Targets

\* What the panel reads is within the converter's range.
LEMMA ReadingInRange ==
  ASSUME mount \in Mounts, NEW i \in 1 .. PosPoints, NEW k \in {1, 2}
  PROVE  Reading(Target(i))[k] \in 0 .. RawTop
<1>1. PICK x \in 0 .. W - 1, y \in 0 .. H - 1 : Target(i) = <<x, y>>
  BY TargetsInPanel
<1>2. /\ {mount.swap, mount.ix, mount.iy} \subseteq BOOLEAN
      /\ mount.xlo \in Nat /\ SpanX \in Nat /\ mount.xlo + SpanX <= RawTop
      /\ mount.ylo \in Nat /\ SpanY \in Nat /\ mount.ylo + SpanY <= RawTop
      /\ W - 1 \in Nat \ {0} /\ H - 1 \in Nat \ {0} /\ RawTop \in Nat
  BY MountResolves, PanelIsNumbers, PanelAssumption
<1>3. Line(x, W - 1, mount.ix, mount.xlo, SpanX) \in mount.xlo .. mount.xlo + SpanX
  <2>1. mount.ix \in BOOLEAN
    BY <1>2
  <2> QED
    BY <1>2, <2>1, LineIsNat
<1>4. Line(y, H - 1, mount.iy, mount.ylo, SpanY) \in mount.ylo .. mount.ylo + SpanY
  <2>1. mount.iy \in BOOLEAN
    BY <1>2
  <2> QED
    BY <1>2, <2>1, LineIsNat
<1>5. x \in Int /\ y \in Int
  BY <1>2
<1>6. /\ AxisX \in {1, 2} /\ 3 - AxisX \in {1, 2} /\ 3 - AxisX # AxisX
      /\ Reading(<<x, y>>)[AxisX] = Line(x, W - 1, mount.ix, mount.xlo, SpanX)
      /\ Reading(<<x, y>>)[3 - AxisX] = Line(y, H - 1, mount.iy, mount.ylo, SpanY)
  BY <1>5, ReadingIs
<1>7. k = AxisX \/ k = 3 - AxisX
  BY <1>6
<1>8. Reading(Target(i))[AxisX] \in 0 .. RawTop /\ Reading(Target(i))[3 - AxisX] \in 0 .. RawTop
  BY <1>1, <1>2, <1>3, <1>4, <1>6
<1> QED
  BY <1>7, <1>8

LEMMA SampledIs ==
  ASSUME mount \in Mounts, NEW i \in 1 .. PosPoints, NEW k \in {1, 2}, NEW n \in Nat
  PROVE  Sampled(i, n)[k] \in Reading(Target(i))[k] .. Reading(Target(i))[k] + 1
<1> DEFINE r == Reading(Target(i))[k]
<1>1. r \in 0 .. RawTop /\ RawTop \in Int
  BY ReadingInRange, PanelAssumption
<1>2. n % 2 \in 0 .. 1
  BY Z3
<1>3. Sampled(i, n)[k] = Min({RawTop, r + (n % 2)})
  BY DEF Sampled
<1> HIDE DEF r
<1>4. r + (n % 2) \in Int
  BY <1>1, <1>2
<1>5. Min({RawTop, r + (n % 2)}) = IF RawTop <= r + (n % 2) THEN RawTop ELSE r + (n % 2)
  BY <1>1, <1>4, MinMaxOfTwo
<1> QED
  BY <1>1, <1>2, <1>3, <1>5 DEF r

LEMMA LeastOfSome ==
  ASSUME NEW T \in SUBSET Int, T # {}, NEW low \in Int, \A x \in T : low <= x
  PROVE  Min(T) \in T /\ \A y \in T : Min(T) <= y
<1> DEFINE Initials == {low .. k : k \in T}
<1>1. Initials \subseteq FiniteSubsetsOf(Int)
  <2> SUFFICES ASSUME NEW k \in T PROVE low .. k \in FiniteSubsetsOf(Int)
    OBVIOUS
  <2>1. IsFiniteSet(low .. k) /\ low .. k \in SUBSET Int
    BY FS_Interval
  <2> QED
    BY <2>1 DEF FiniteSubsetsOf
<1>2. PICK I \in Initials : \A J \in Initials : <<J, I>> \notin StrictSubsetOrdering(Int)
  <2>1. Initials # {}
    OBVIOUS
  <2> HIDE DEF Initials
  <2> QED
    BY <1>1, <2>1, FS_StrictSubsetOrderingWellFounded, WFMin
<1>3. PICK x \in T : I = low .. x
  OBVIOUS
<1>4. ASSUME NEW y \in T, y < x PROVE FALSE
  <2>1. low .. y \in Initials /\ low .. y \subseteq Int /\ low .. x \subseteq Int
    OBVIOUS
  <2>2. low .. y \subseteq low .. x /\ low .. y # low .. x
    <3>1. x \in low .. x /\ x \notin low .. y /\ low .. y \subseteq low .. x
      BY <1>4
    <3> QED
      BY <3>1
  <2> QED
    BY <1>2, <1>3, <2>1, <2>2 DEF StrictSubsetOrdering
<1>5. \A y \in T : x <= y
  BY <1>4
<1> QED
  BY <1>5 DEF Min


\* The thresholds let the lightest press that is above the floor through.
LEMMA LightIsFelt ==
  ASSUME NEW zs \in SUBSET Nat, NEW light \in zs, light >= Floor
  PROVE  Thresholds(zs).zmin <= light /\ Thresholds(zs).pmin <= light
<1>1. zs \in SUBSET Int /\ zs # {} /\ \A x \in zs : 0 <= x
  OBVIOUS
<1>2. Min(zs) \in Nat /\ Min(zs) <= light
  <2>1. 0 \in Int
    OBVIOUS
  <2>2. Min(zs) \in zs /\ \A y \in zs : Min(zs) <= y
    BY <1>1, <2>1, LeastOfSome
  <2> QED
    BY <2>2
<1>3. Floor \in Nat /\ light \in Nat
  BY ToleranceAssumption
<1> DEFINE z == Max({Floor, Min(zs)})
<1>4. z = IF Floor <= Min(zs) THEN Min(zs) ELSE Floor
  <2>1. Min(zs) \in Int /\ Floor \in Int
    BY <1>2, <1>3
  <2> QED
    BY <2>1, MinMaxOfTwo
<1>5. z \in Nat /\ z <= light
  BY <1>2, <1>3, <1>4
<1>6. Thresholds(zs) = [zmin |-> z, pmin |-> IF z > 2 * Floor THEN (z * 3) \div 4 ELSE Floor]
  BY DEF Thresholds
<1> HIDE DEF z
<1>7. (z * 3) \div 4 <= z /\ (z * 3) \div 4 \in Int
  BY <1>5, Z3
<1> QED
  BY <1>3, <1>5, <1>6, <1>7

\* What the panel reads at the i-th target.
At(i, k) == Reading(Target(i))[k]

Types ==
  /\ mount \in Mounts
  /\ index \in 1 .. PosPoints + 1
  /\ count \in Nat /\ releases \in Nat /\ finger \in 0 .. PosPoints
  /\ weak \in Nat /\ weak <= ReleaseSamples
  /\ \A k \in 1 .. 3 : sum[k] \in Int
  /\ presses \in [1 .. PressPoints -> Nat]
  /\ DOMAIN points = 1 .. PosPoints

\* A finger left on another target than the one shown is not sampled before as many
\* of its samples were weak as count for a release.
Rests == Resting => weak = ReleaseSamples \/ (wait /\ releases <= weak)

Summed ==
  /\ \A k \in {1, 2} : count * At(Shown, k) <= sum[k] /\ sum[k] <= count * (At(Shown, k) + 1)
  /\ sum[3] >= 0
  /\ index <= PosPoints => sum[3] = count * mount.light

Taken ==
  \A i \in 1 .. PosPoints : i < index =>
    points[i][3] = mount.light /\ \A k \in {1, 2} : points[i][k] \in At(i, k) .. At(i, k) + 1

Written ==
  file # <<>> =>
    /\ Limits(file[1])
    /\ mount.light >= Floor => file[2].zmin <= mount.light /\ file[2].pmin <= mount.light

DialogueInv == Types /\ Rests /\ Summed /\ Taken /\ Written

\* As long as it was not, the sums are those of the target shown.
UnlessMisled == ~misled => DialogueInv

LEMMA DialogueInit == Init => DialogueInv
<1> SUFFICES ASSUME Init PROVE DialogueInv
  OBVIOUS
<1>1. PosPoints = 5 /\ PosPoints \in Int /\ {Samples, ReleaseSamples, PressPoints} \subseteq Nat \ {0}
  BY DialogueAssumption DEF PosPoints
<1>2. Types
  BY <1>1 DEF Init, Types
<1>3. Shown \in 1 .. PosPoints
  <2>1. index = 1 /\ 1 \in Int
    BY DEF Init
  <2> QED
    BY <2>1, ShownIs DEF Shown
<1>4. Summed
  <2>1. \A k \in {1, 2} : At(Shown, k) \in Int
    BY <1>3, ReadingInRange DEF At, Init
  <2>2. mount.light \in Nat
    BY MountAssumption DEF Init
  <2>3. count = 0 /\ sum = <<0, 0, 0>>
    BY DEF Init
  <2>4. \A k \in 1 .. 3 : sum[k] = 0
    BY <2>3
  <2> QED
    BY <2>1, <2>2, <2>3, <2>4 DEF Summed
<1> QED
  BY <1>1, <1>2, <1>4 DEF Init, DialogueInv, Rests, Resting, Taken, Written

\* The panel stays what it is.
LEMMA PanelStays ==
  ASSUME mount' = mount
  PROVE  /\ \A i, k : At(i, k)' = At(i, k)
         /\ \A c : Limits(c)' <=> Limits(c)
  BY Zenon DEF At, Reading, Limits, SpanX, SpanY

\* A step that takes no sample.
LEMMA NoSample ==
  ASSUME DialogueInv, Press \/ Lift \/ PollWeak
  PROVE  DialogueInv'
<1>1. mount' = mount /\ UNCHANGED <<index, points, presses, file>>
  BY DEF Press, Lift, PollWeak, dialogue
<1>2. \A i, k : At(i, k)' = At(i, k)
  BY <1>1, PanelStays
<1>3. \A c : Limits(c)' <=> Limits(c)
  BY <1>1, PanelStays
<1>4. Shown' = Shown /\ Shown \in 1 .. PosPoints
  <2>1. index \in Int /\ index >= 1
    BY DEF DialogueInv, Types, PosPoints
  <2> QED
    BY <1>1, <2>1, ShownIs DEF Shown
<1>5. Taken' /\ Written'
  BY <1>1, <1>2, <1>3 DEF DialogueInv, Taken, Written
<1>6. ReleaseSamples \in Nat \ {0}
  BY DialogueAssumption
<1>7. (UNCHANGED <<count, sum>>) \/ (count' = 0 /\ sum' = <<0, 0, 0>>)
  BY DEF Press, Lift, PollWeak, dialogue
<1>8. Summed'
  <2>1. CASE UNCHANGED <<count, sum>>
    BY <1>1, <1>2, <1>4, <2>1 DEF DialogueInv, Summed
  <2>2. CASE count' = 0 /\ sum' = <<0, 0, 0>>
    <3>1. \A k \in {1, 2} : At(Shown, k) \in Int
      BY <1>4, ReadingInRange DEF At, DialogueInv, Types
    <3>2. mount.light \in Nat
      BY MountAssumption DEF DialogueInv, Types
    <3>3. \A k \in 1 .. 3 : sum'[k] = 0
      BY <2>2
    <3> QED
      BY <1>1, <1>2, <1>4, <2>2, <3>1, <3>2, <3>3 DEF Summed
  <2> QED
    BY <1>7, <2>1, <2>2
<1>9. \A k \in 1 .. 3 : sum'[k] \in Int
  <2>1. CASE UNCHANGED <<count, sum>>
    BY <2>1 DEF DialogueInv, Types
  <2>2. CASE count' = 0 /\ sum' = <<0, 0, 0>>
    BY <2>2
  <2> QED
    BY <1>7, <2>1, <2>2
<1>10. CASE Press
  <2>1. Types'
    BY <1>1, <1>4, <1>6, <1>9, <1>10 DEF Press, dialogue, DialogueInv, Types
  <2>2. Rests'
    BY <1>4, <1>10 DEF Press, Rests, Resting
  <2> QED
    BY <1>5, <1>8, <2>1, <2>2 DEF DialogueInv
<1>11. CASE Lift
  <2>1. Types'
    BY <1>1, <1>9, <1>11 DEF Lift, dialogue, DialogueInv, Types, PosPoints
  <2>2. Rests'
    BY <1>11 DEF Lift, Rests, Resting
  <2> QED
    BY <1>5, <1>8, <2>1, <2>2 DEF DialogueInv
<1>12. CASE PollWeak
  <2>1. /\ finger' = finger /\ releases' = releases + 1 /\ wait' = ~ReleaseSeen
        /\ weak' = IF Resting /\ weak < ReleaseSamples THEN weak + 1 ELSE weak
        /\ count' \in {count, 0}
    BY <1>7, <1>12 DEF PollWeak
  <2>2. Types'
    BY <1>1, <1>6, <1>9, <2>1 DEF DialogueInv, Types
  <2>3. ASSUME Resting PROVE weak' = ReleaseSamples \/ (wait' /\ releases' <= weak')
    <3>1. /\ releases \in Nat /\ weak \in Nat /\ weak <= ReleaseSamples
          /\ weak = ReleaseSamples \/ releases <= weak
      BY <2>3 DEF DialogueInv, Types, Rests
    <3>2. CASE weak = ReleaseSamples
      BY <2>1, <2>3, <3>1, <3>2
    <3>3. CASE weak # ReleaseSamples
      <4>1. /\ releases <= weak /\ weak < ReleaseSamples
            /\ weak' = weak + 1 /\ releases' = releases + 1
        BY <1>6, <2>1, <2>3, <3>1, <3>3
      <4>2. CASE ReleaseSeen
        BY <1>6, <3>1, <4>1, <4>2 DEF ReleaseSeen
      <4>3. CASE ~ReleaseSeen
        <5>1. wait'
          BY <2>1, <4>3, Zenon
        <5>2. releases' <= weak'
          BY <3>1, <4>1
        <5> QED
          BY <5>1, <5>2, Zenon
      <4> QED
        BY <4>2, <4>3
    <3> QED
      BY <3>2, <3>3
  <2>4. Rests'
    BY <1>4, <2>1, <2>3, Zenon DEF Rests, Resting
  <2> QED
    BY <1>5, <1>8, <2>2, <2>4 DEF DialogueInv
<1> QED
  BY <1>10, <1>11, <1>12

\* What a sample adds to the sums.
LEMMA SampleAdds ==
  ASSUME DialogueInv, Sampling, ~misled'
  PROVE  /\ \A k \in 1 .. 3 : Added[k] \in Int
         /\ \A k \in {1, 2} : /\ (count + 1) * At(Shown, k) <= Added[k]
                              /\ Added[k] <= (count + 1) * (At(Shown, k) + 1)
         /\ Added[3] >= 0
         /\ index <= PosPoints => Added[3] = (count + 1) * mount.light
<1>1. Shown \in 1 .. PosPoints /\ finger = Shown
  <2>1. index \in Int /\ index >= 1
    BY DEF DialogueInv, Types, PosPoints
  <2> QED
    BY <2>1, ShownIs DEF Shown, Sampling, Resting, DialogueInv, Rests
<1>2. mount \in Mounts /\ count \in Nat /\ sum[1] \in Int /\ sum[2] \in Int /\ sum[3] \in Int /\ sum[3] >= 0
  BY DEF DialogueInv, Types, Summed
<1>3. mount.light \in Nat /\ mount.firm \in Nat
  BY <1>2, MountAssumption
<1>4. Pressure \in Nat /\ (index <= PosPoints => Pressure = mount.light)
  BY <1>3 DEF Pressure
<1>5. ASSUME NEW k \in {1, 2}
      PROVE  /\ Added[k] \in Int
             /\ (count + 1) * At(Shown, k) <= Added[k] /\ Added[k] <= (count + 1) * (At(Shown, k) + 1)
  <2>1. At(Shown, k) \in 0 .. RawTop /\ RawTop \in Nat
    BY <1>1, <1>2, ReadingInRange, PanelAssumption DEF At
  <2>2. Sampled(finger, count)[k] \in At(Shown, k) .. At(Shown, k) + 1
    BY <1>1, <1>2, SampledIs DEF At
  <2>3. Added[k] = sum[k] + Sampled(finger, count)[k]
    BY DEF Added
  <2>4. count * At(Shown, k) <= sum[k] /\ sum[k] <= count * (At(Shown, k) + 1) /\ sum[k] \in Int
    BY <1>2 DEF DialogueInv, Summed
  <2> DEFINE r == At(Shown, k)
             s == Sampled(finger, count)[k]
  <2> HIDE DEF r, s
  <2>5. r \in Nat /\ s \in r .. r + 1 /\ count * r <= sum[k] /\ sum[k] <= count * (r + 1) /\ Added[k] = sum[k] + s
    BY <2>1, <2>2, <2>3, <2>4 DEF r, s
  <2>6. /\ (count + 1) * r = count * r + r /\ (count + 1) * (r + 1) = count * (r + 1) + (r + 1)
        /\ count * r \in Int /\ count * (r + 1) \in Int
    BY <1>2, <2>5, Z3
  <2>7. Added[k] \in Int /\ (count + 1) * r <= Added[k] /\ Added[k] <= (count + 1) * (r + 1)
    BY <2>4, <2>5, <2>6
  <2> QED
    BY <2>7 DEF r
<1>6. Added[3] = sum[3] + Pressure
  BY DEF Added
<1>7. Added[3] \in Int /\ Added[3] >= 0
  BY <1>2, <1>4, <1>6
<1>8. index <= PosPoints => Added[3] = (count + 1) * mount.light
  <2>1. (count + 1) * mount.light = count * mount.light + mount.light
    BY <1>2, <1>3, Z3
  <2>2. index <= PosPoints => sum[3] = count * mount.light
    BY DEF DialogueInv, Summed
  <2> QED
    BY <1>4, <1>6, <2>1, <2>2
<1>9. 1 .. 3 = {1, 2, 3}
  OBVIOUS
<1> QED
  BY <1>5, <1>7, <1>8, <1>9

LEMMA SampleKept == ASSUME DialogueInv, PollSample, ~misled' PROVE DialogueInv'
<1>1. /\ UNCHANGED <<mount, finger, weak, index, wait, points, presses, file>>
      /\ Sampling /\ count' = count + 1 /\ sum' = Added /\ releases' = 0
  BY DEF PollSample, Sampling
<1>2. \A i, k : At(i, k)' = At(i, k)
  BY <1>1, PanelStays
<1>3. \A c : Limits(c)' <=> Limits(c)
  BY <1>1, PanelStays
<1>4. Shown' = Shown
  BY <1>1 DEF Shown
<1>5. Taken' /\ Written'
  BY <1>1, <1>2, <1>3 DEF DialogueInv, Taken, Written
<1>6. /\ \A k \in 1 .. 3 : Added[k] \in Int
      /\ \A k \in {1, 2} : /\ (count + 1) * At(Shown, k) <= Added[k]
                           /\ Added[k] <= (count + 1) * (At(Shown, k) + 1)
      /\ Added[3] >= 0
      /\ index <= PosPoints => Added[3] = (count + 1) * mount.light
  BY <1>1, SampleAdds
<1>7. Summed'
  <2> HIDE DEF Added
  <2> QED
    BY <1>1, <1>2, <1>4, <1>6 DEF Summed
<1>8. Types'
  BY <1>1, <1>6 DEF DialogueInv, Types
<1>9. Rests'
  <2>1. releases' <= weak \/ weak = ReleaseSamples
    BY <1>1 DEF DialogueInv, Types
  <2>2. Resting' <=> Resting
    BY <1>1, <1>4, Zenon DEF Resting
  <2> QED
    BY <1>1, <2>1, <2>2, Zenon DEF DialogueInv, Rests
<1> QED
  BY <1>5, <1>7, <1>8, <1>9 DEF DialogueInv

\* The averages of a point.
LEMMA AverageIs ==
  ASSUME DialogueInv, Sampling, ~misled'
  PROVE  /\ \A k \in {1, 2} : Average(Added)[k] \in At(Shown, k) .. At(Shown, k) + 1
         /\ Average(Added)[3] \in Nat
         /\ index <= PosPoints => Average(Added)[3] = mount.light
<1>1. /\ \A k \in 1 .. 3 : Added[k] \in Int
      /\ \A k \in {1, 2} : /\ (count + 1) * At(Shown, k) <= Added[k]
                           /\ Added[k] <= (count + 1) * (At(Shown, k) + 1)
      /\ Added[3] >= 0
      /\ index <= PosPoints => Added[3] = (count + 1) * mount.light
  BY SampleAdds
<1>2. count + 1 \in Nat \ {0} /\ mount \in Mounts /\ mount.light \in Nat
  BY MountAssumption DEF DialogueInv, Types
<1>3. Shown \in 1 .. PosPoints
  <2>1. index \in Int /\ index >= 1
    BY DEF DialogueInv, Types, PosPoints
  <2> QED
    BY <2>1, ShownIs DEF Shown
<1>4. \A k \in 1 .. 3 : Average(Added)[k] = Quot(Added[k] + Quot(count + 1, 2), count + 1)
  BY DEF Average, Quot
<1> DEFINE m == count + 1
<1> HIDE DEF m
<1>5. ASSUME NEW k \in {1, 2} PROVE Average(Added)[k] \in At(Shown, k) .. At(Shown, k) + 1
  <2>1. At(Shown, k) \in 0 .. RawTop /\ RawTop \in Nat
    BY <1>2, <1>3, ReadingInRange, PanelAssumption DEF At
  <2> DEFINE r == At(Shown, k)
             x == Added[k]
  <2> HIDE DEF r, x
  <2>2. r \in Nat /\ x \in Int /\ m \in Nat \ {0} /\ m * r <= x /\ x <= m * (r + 1)
    BY <1>1, <1>2, <2>1 DEF r, x, m
  <2>3. Quot(x + Quot(m, 2), m) \in r .. r + 1
    BY <2>2, AverageWithin
  <2> QED
    BY <1>4, <2>3 DEF r, x, m
<1>6. Average(Added)[3] \in Nat
  <2> DEFINE x == Added[3]
  <2> HIDE DEF x
  <2>1. x \in Nat /\ m \in Nat \ {0}
    BY <1>1, <1>2 DEF x, m
  <2>2. Quot(m, 2) \in Nat
    BY <2>1, QuotBounds
  <2>3. x + Quot(m, 2) \in Nat
    BY <2>1, <2>2
  <2>4. Quot(x + Quot(m, 2), m) \in Nat
    BY <2>1, <2>3, QuotBounds
  <2> QED
    BY <1>4, <2>4 DEF x, m
<1>7. ASSUME index <= PosPoints PROVE Average(Added)[3] = mount.light
  <2>1. Added[3] = m * mount.light /\ m \in Nat \ {0}
    BY <1>1, <1>2, <1>7 DEF m
  <2>2. Quot(m * mount.light + Quot(m, 2), m) = mount.light
    BY <1>2, <2>1, AverageOfOne
  <2> QED
    BY <1>4, <2>1, <2>2 DEF m
<1> QED
  BY <1>5, <1>6, <1>7

\* A step that ends a point or a press.
LEMMA PointEnds ==
  ASSUME DialogueInv, PointTaken,
         index' \in index .. PosPoints + 1, presses' \in [1 .. PressPoints -> Nat],
         DOMAIN points' = 1 .. PosPoints, Taken', Written'
  PROVE  DialogueInv'
<1>1. /\ finger # 0 /\ count' = 0 /\ sum' = <<0, 0, 0>> /\ releases' = 0 /\ wait' = TRUE
      /\ mount' = mount /\ finger' = finger /\ weak' = weak
  BY DEF PointTaken, Sampling
<1>2. index \in 1 .. PosPoints + 1 /\ index' \in 1 .. PosPoints + 1 /\ PosPoints = 5
  BY DEF DialogueInv, Types, PosPoints
<1>3. Types'
  BY <1>1, <1>2 DEF DialogueInv, Types
<1>4. Shown' \in 1 .. PosPoints
  <2>1. index' \in Int /\ index' >= 1
    BY <1>2
  <2> QED
    BY <2>1, ShownIs DEF Shown
<1>5. Rests'
  <2>1. weak \in Nat
    BY DEF DialogueInv, Types
  <2> QED
    BY <1>1, <2>1 DEF Rests
<1>6. Summed'
  <2>1. \A k \in {1, 2} : At(Shown', k) \in Int
    BY <1>4, ReadingInRange DEF At, DialogueInv, Types
  <2>2. mount.light \in Nat
    BY MountAssumption DEF DialogueInv, Types
  <2>3. \A k \in {1, 2} : At(Shown, k)' = At(Shown', k)
    BY <1>1, Zenon DEF At, Reading
  <2>4. \A k \in 1 .. 3 : sum'[k] = 0
    BY <1>1
  <2> QED
    BY <1>1, <2>1, <2>2, <2>3, <2>4 DEF Summed
<1> QED
  BY <1>3, <1>5, <1>6 DEF DialogueInv

LEMMA PointKept == ASSUME DialogueInv, PollPoint, ~misled' PROVE DialogueInv'
<1>1. /\ UNCHANGED <<mount, finger, weak, presses, file>> /\ mount' = mount /\ file' = file
      /\ PointTaken /\ Sampling /\ index <= PosPoints
      /\ points' = [points EXCEPT ![index] = Average(Added)] /\ index' = index + 1
  BY DEF PollPoint, PointTaken, Sampling
<1>2. /\ index \in 1 .. PosPoints + 1 /\ PosPoints = 5 /\ DOMAIN points = 1 .. PosPoints
      /\ presses \in [1 .. PressPoints -> Nat]
  BY DEF DialogueInv, Types, PosPoints
<1>3. /\ \A i, k : At(i, k)' = At(i, k)
      /\ \A c : Limits(c)' <=> Limits(c)
  BY <1>1, PanelStays
<1>4. Shown = index
  <2>1. index \in Int /\ index >= 1
    BY <1>2
  <2> QED
    BY <1>1, <2>1, ShownIs DEF Shown
<1>5. /\ \A k \in {1, 2} : Average(Added)[k] \in At(Shown, k) .. At(Shown, k) + 1
      /\ index <= PosPoints => Average(Added)[3] = mount.light
  BY <1>1, AverageIs
<1>6. Taken'
  <2> SUFFICES ASSUME NEW i \in 1 .. PosPoints, i < index + 1
               PROVE  /\ points'[i][3] = mount.light
                      /\ \A k \in {1, 2} : points'[i][k] \in At(i, k) .. At(i, k) + 1
    BY <1>1, <1>3 DEF Taken
  <2>1. CASE i = index
    <3>1. points'[i] = Average(Added)
      BY <1>1, <1>2, <2>1, Zenon
    <3> HIDE DEF Average, Added
    <3> QED
      BY <1>1, <1>4, <1>5, <2>1, <3>1
  <2>2. CASE i # index
    <3>1. i < index
      BY <1>2, <2>2
    <3>2. points'[i] = points[i]
      BY <1>1, <1>2, <2>2, Zenon
    <3> QED
      BY <3>1, <3>2 DEF DialogueInv, Taken
  <2> QED
    BY <2>1, <2>2
<1>7. Written'
  BY <1>1, <1>3 DEF DialogueInv, Written
<1>8. DOMAIN points' = 1 .. PosPoints
  BY <1>1, <1>2, Zenon
<1>9. index' \in index .. PosPoints + 1 /\ presses' \in [1 .. PressPoints -> Nat]
  BY <1>1, <1>2
<1> QED
  BY <1>1, <1>6, <1>7, <1>8, <1>9, PointEnds

LEMMA PressKept == ASSUME DialogueInv, PollPress, ~misled' PROVE DialogueInv'
<1>1. /\ UNCHANGED <<mount, finger, weak>> /\ mount' = mount /\ index' = index /\ points' = points
      /\ PointTaken /\ Sampling /\ index > PosPoints
      /\ presses' = [presses EXCEPT ![press] = Average(Added)[3]]
  BY DEF PollPress, PointTaken, Sampling
<1>2. /\ index \in 1 .. PosPoints + 1 /\ PosPoints = 5 /\ DOMAIN points = 1 .. PosPoints
      /\ mount \in Mounts /\ mount.light \in Nat /\ presses \in [1 .. PressPoints -> Nat]
  BY MountAssumption DEF DialogueInv, Types, PosPoints
<1>3. /\ \A i, k : At(i, k)' = At(i, k)
      /\ \A c : Limits(c)' <=> Limits(c)
  BY <1>1, PanelStays
<1>4. Taken'
  BY <1>1, <1>3 DEF DialogueInv, Taken
<1>5. presses' \in [1 .. PressPoints -> Nat]
  <2>1. Average(Added)[3] \in Nat
    BY <1>1, AverageIs
  <2> QED
    BY <1>1, <1>2, <2>1, Zenon
<1>6. \A i \in 1 .. PosPoints :
        points[i][3] = mount.light /\ \A k \in {1, 2} : points[i][k] \in At(i, k) .. At(i, k) + 1
  <2>1. \A i \in 1 .. PosPoints : i < index
    BY <1>1, <1>2
  <2> QED
    BY <2>1 DEF DialogueInv, Taken
<1>7. Limits(Solved(points))
  <2>1. PointsRead(points)
    BY <1>6 DEF PointsRead, At
  <2> QED
    BY <1>2, <2>1, SolvedIsRight DEF Limits
<1> DEFINE zs == {points[i][3] : i \in 1 .. PosPoints} \cup {presses'[i] : i \in 1 .. PressPoints}
<1>8. mount.light >= Floor => Thresholds(zs).zmin <= mount.light /\ Thresholds(zs).pmin <= mount.light
  <2>1. zs \in SUBSET Nat
    BY <1>2, <1>5, <1>6
  <2>2. mount.light \in zs
    <3>1. 1 \in 1 .. PosPoints
      BY <1>2
    <3>2. points[1][3] = mount.light
      BY <1>6, <3>1
    <3> QED
      BY <3>1, <3>2
  <2> HIDE DEF zs
  <2> QED
    BY <2>1, <2>2, LightIsFelt
<1>9. file' = file \/ file' = <<Solved(points), Thresholds(zs)>>
  BY DEF PollPress, Write
<1>10. Written'
  <2> HIDE DEF zs
  <2>1. CASE file' = file
    BY <1>1, <1>3, <2>1 DEF DialogueInv, Written
  <2>2. CASE file' = <<Solved(points), Thresholds(zs)>>
    <3>1. file'[1] = Solved(points) /\ file'[2] = Thresholds(zs)
      BY <2>2
    <3> QED
      BY <1>1, <1>3, <1>7, <1>8, <3>1, Zenon DEF Written
  <2> QED
    BY <1>9, <2>1, <2>2
<1>11. index' \in index .. PosPoints + 1 /\ DOMAIN points' = 1 .. PosPoints
  BY <1>1, <1>2
<1> QED
  BY <1>1, <1>4, <1>5, <1>10, <1>11, PointEnds

LEMMA DialogueStep == UnlessMisled /\ [Next]_vars => UnlessMisled'
<1> SUFFICES ASSUME UnlessMisled, [Next]_vars, ~misled' PROVE DialogueInv'
  BY DEF UnlessMisled
<1> DialogueInv
  BY DEF UnlessMisled, Next, Press, Lift, PollWeak, PollSample, PollPoint, PollPress, PointTaken,
         Sampling, vars, user
<1>1. CASE Press \/ Lift \/ PollWeak
  BY <1>1, NoSample
<1>2. CASE PollSample
  BY <1>2, SampleKept
<1>3. CASE PollPoint
  BY <1>3, PointKept
<1>4. CASE PollPress
  BY <1>4, PressKept
<1>5. CASE UNCHANGED vars
  <2>1. /\ UNCHANGED <<mount, finger, weak, index, count, sum, wait, releases, points, presses, file>>
        /\ mount' = mount
    BY <1>5 DEF vars, user, dialogue
  <2>2. /\ \A i, k : At(i, k)' = At(i, k)
        /\ \A c : Limits(c)' <=> Limits(c)
    BY <2>1, PanelStays
  <2>3. Shown' = Shown
    BY <2>1 DEF Shown
  <2>4. Types' /\ Rests'
    BY <2>1, <2>3 DEF DialogueInv, Types, Rests, Resting
  <2>5. Summed' /\ Taken'
    BY <2>1, <2>2, <2>3 DEF DialogueInv, Summed, Taken
  <2>6. Written'
    BY <2>1, <2>2 DEF DialogueInv, Written
  <2> QED
    BY <2>4, <2>5, <2>6 DEF DialogueInv
<1> QED
  BY <1>1, <1>2, <1>3, <1>4, <1>5 DEF Next

\* What the written limits and thresholds are worth.
LEMMA WrittenIsTrue == UnlessMisled => CalibrationIsTrue
<1> SUFFICES ASSUME DialogueInv, file # <<>> PROVE CalibrationIsTrue
  BY DEF CalibrationIsTrue, UnlessMisled
<1>1. mount \in Mounts /\ Limits(file[1])
  BY DEF DialogueInv, Types, Written
<1>2. ASSUME NEW s \in Probes, NEW a \in Affines
      PROVE  \A i \in {1, 2} :
               Distance(TouchMap(file[1], a, Reading(s))[i], Corrected(a, s[1], s[2])[i]) <= Tolerance
  <2>1. W \in Nat /\ H \in Nat /\ W > 4 /\ H > 4
    BY PanelIsNumbers
  <2>2. W \div 2 \in 0 .. W - 1 /\ H \div 2 \in 0 .. H - 1
    BY <2>1, Z3
  <2>3. PICK x \in 0 .. W - 1, y \in 0 .. H - 1 : s = <<x, y>>
    BY <2>1, <2>2 DEF Probes
  <2>4. \A i \in {1, 2} :
          Distance(TouchMap(file[1], a, Reading(<<x, y>>))[i], Corrected(a, x, y)[i]) <= Tolerance
    BY <1>1, FingerNear
  <2>5. s[1] = x /\ s[2] = y
    BY <2>3
  <2> QED
    BY <2>3, <2>4, <2>5, Zenon
<1>3. mount.light >= Floor => file[2].zmin <= mount.light /\ file[2].pmin <= mount.light
  BY DEF DialogueInv, Written
<1>4. 1 \in {1, 2} /\ 2 \in {1, 2}
  OBVIOUS
<1> QED
  BY <1>2, <1>3, <1>4, Zenon DEF CalibrationIsTrue

\* A sink started with the file a dialogue wrote puts every finger within the
\* tolerance of where it is, and feels the lightest press of the dialogue
\* (touch_solve_calibration, touch_map, touch_write_calibration), unless the dialogue
\* took weak samples of a finger left on the target before for its release.
THEOREM FingersAreFound == Spec => []CalibrationIsTrue
<1>1. UnlessMisled /\ [Next]_vars => UnlessMisled'
  BY DialogueStep
<1>2. Init => UnlessMisled
  BY DialogueInit DEF UnlessMisled
<1>3. Spec => []UnlessMisled
  BY <1>1, <1>2, PTL DEF Spec
<1> QED
  BY <1>3, WrittenIsTrue, PTL
=============================================================================
