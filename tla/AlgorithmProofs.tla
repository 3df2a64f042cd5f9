-------------------------- MODULE AlgorithmProofs --------------------------
(***************************************************************************)
(* The operators of the restorer's geometry (blocks in view, headings,     *)
(* places, grid cells, segments), the rectangle test, the route generator, *)
(* the converters of stamps and the reading of the parameters do what they *)
(* are for, for all numbers that are computed exactly, all tasks, stamps   *)
(* and missing parameters, not only for those of MCAlgorithms.             *)
(***************************************************************************)
EXTENDS AlgorithmProblems, SequenceTheorems, WellFoundedInduction, TLAPS

\* Points and poses of any size: what is computed of those of a problem need
\* not be one.
Point == [x : Int, y : Int]
AnyPose == [x : Int, y : Int, yaw : Int]

-----------------------------------------------------------------------------
(* Quotients, and the blocks around a robot. *)

\* The quotient and the remainder of a whole number, and what determines them.
LEMMA Division ==
  ASSUME NEW n \in Int, NEW d \in Positive
  PROVE  /\ n \div d \in Int /\ n % d \in 0..(d - 1)
         /\ n = d * (n \div d) + (n % d)
BY DEF Positive

\* The quotient is the one whole number that n lies above by less than d.
LEMMA Quotient ==
  ASSUME NEW d \in Positive, NEW q \in Int, NEW r \in 0..(d - 1)
  PROVE  (d * q + r) \div d = q /\ (d * q + r) % d = r
BY DEF Positive

\* Rounding up is rounding down of the negative.
LEMMA FloorCeil ==
  ASSUME NEW n \in Int, NEW d \in Positive
  PROVE  /\ Geometry!Floor(n, d) \in Int /\ Geometry!Ceil(n, d) \in Int
         /\ Geometry!Floor(n, d) * d <= n /\ n < (Geometry!Floor(n, d) + 1) * d
         /\ n <= Geometry!Ceil(n, d) * d /\ (Geometry!Ceil(n, d) - 1) * d < n
<1>1. /\ n \div d \in Int /\ (- n) \div d \in Int
      /\ d * (n \div d) <= n /\ n < d * (n \div d) + d
      /\ d * ((- n) \div d) <= - n /\ - n < d * ((- n) \div d) + d
  BY Division DEF Positive
<1> QED BY <1>1 DEF Geometry!Floor, Geometry!Ceil, Positive

\* ViewCovered: the loops of lines 66 to 76 read the blocks within the range.
LEMMA ViewRight ==
  ASSUME NEW at \in Point, NEW range \in Nat, NEW block \in Positive
  PROVE  Geometry!ViewCovered(at, range, block)
<1> DEFINE Lo(z) == Geometry!Floor(z - range, block)
           Hi(z) == Geometry!Ceil(z + range, block)
<1>1. at.x \in Int /\ at.y \in Int /\ block \in Int /\ block > 0 /\ range \in Int
  BY DEF Point, Positive
<1>2. ASSUME NEW z \in Int
      PROVE  /\ Lo(z) \in Int /\ Hi(z) \in Int
             /\ \A v \in (z - range + 1)..(z + range - 1) :
                  Geometry!Floor(v, block) \in Lo(z)..(Hi(z) - 1)
             /\ \A b \in Lo(z)..(Hi(z) - 1) : z - range < (b + 1) * block /\ b * block < z + range
  <2>1. /\ Lo(z) \in Int /\ Hi(z) \in Int
        /\ Lo(z) * block <= z - range /\ z - range < (Lo(z) + 1) * block
        /\ z + range <= Hi(z) * block /\ (Hi(z) - 1) * block < z + range
    <3>1. z - range \in Int /\ z + range \in Int
      BY <1>1
    <3> QED BY <3>1, FloorCeil
  <2>2. ASSUME NEW v \in (z - range + 1)..(z + range - 1)
        PROVE  Geometry!Floor(v, block) \in Lo(z)..(Hi(z) - 1)
    <3> DEFINE f == Geometry!Floor(v, block)
               lo == Lo(z)
               hi == Hi(z)
    <3>0. v \in Int
      BY <1>1
    <3>1. f \in Int /\ f * block <= v /\ v < (f + 1) * block
      BY <3>0, FloorCeil
    <3>2. lo * block < (f + 1) * block /\ f * block < hi * block /\ lo \in Int /\ hi \in Int
      BY <1>1, <2>1, <3>1
    <3> HIDE DEF f, lo, hi
    <3>3. lo < f + 1 /\ f < hi
      BY <1>1, <3>1, <3>2
    <3> QED BY <3>1, <3>2, <3>3 DEF lo, hi, f
  <2>3. ASSUME NEW b \in Lo(z)..(Hi(z) - 1)
        PROVE  z - range < (b + 1) * block /\ b * block < z + range
    <3> DEFINE lo == Lo(z)
               hi == Hi(z)
    <3>1. /\ lo \in Int /\ hi \in Int /\ b \in Int /\ lo <= b /\ b <= hi - 1
          /\ z - range < (lo + 1) * block /\ (hi - 1) * block < z + range
      BY <2>1
    <3> HIDE DEF lo, hi
    <3>2. (lo + 1) * block <= (b + 1) * block /\ b * block <= (hi - 1) * block
      BY <1>1, <3>1
    <3> QED BY <1>1, <3>1, <3>2
  <2> QED BY <2>1, <2>2, <2>3
<1> HIDE DEF Lo, Hi
<1>3. Geometry!BlocksInView(at, range, block) =
        [x : Lo(at.x)..(Hi(at.x) - 1), y : Lo(at.y)..(Hi(at.y) - 1)]
  BY DEF Geometry!BlocksInView, Lo, Hi
<1>4. ASSUME NEW x \in (at.x - range + 1)..(at.x + range - 1), NEW y \in (at.y - range + 1)..(at.y + range - 1)
      PROVE  [x |-> Geometry!Floor(x, block), y |-> Geometry!Floor(y, block)]
               \in Geometry!BlocksInView(at, range, block)
  BY <1>1, <1>2, <1>3
<1>5. ASSUME NEW b \in Geometry!BlocksInView(at, range, block)
      PROVE  /\ at.x - range < (b.x + 1) * block /\ b.x * block < at.x + range
             /\ at.y - range < (b.y + 1) * block /\ b.y * block < at.y + range
  <2>1. b.x \in Lo(at.x)..(Hi(at.x) - 1) /\ b.y \in Lo(at.y)..(Hi(at.y) - 1)
    BY <1>3
  <2> QED BY <1>1, <1>2, <2>1
<1> QED BY <1>4, <1>5 DEF Geometry!ViewCovered

\* RectangleByDiagonals: a parallelogram with one right angle, the corners
\* row by row.
LEMMA RectanglesRight ==
  ASSUME NEW r \in [1..4 -> Point]
  PROVE  Rect!RectangleByDiagonals(r)
<1> DEFINE ux == r[1].x - r[2].x
           uy == r[1].y - r[2].y
           vx == r[1].x - r[3].x
           vy == r[1].y - r[3].y
<1>1. /\ r[1] \in Point /\ r[2] \in Point /\ r[3] \in Point /\ r[4] \in Point
      /\ 3 = 2 + 1 /\ (2 % 4) + 1 = 3 /\ (4 % 4) + 1 = 1
  OBVIOUS
<1>2. Rect!isRealRectangle(r) <=>
        /\ ux = r[3].x - r[4].x /\ uy = r[3].y - r[4].y
        /\ ux * vx + uy * vy = 0
  BY <1>1 DEF Rect!isRealRectangle, Rect!arrow, Point
<1>3. Rect!Centre(Rect!Segment(r, 2)) = Rect!Centre(Rect!Segment(r, 4)) <=>
        /\ r[2].x + r[3].x = r[4].x + r[1].x
        /\ r[2].y + r[3].y = r[4].y + r[1].y
  BY <1>1 DEF Rect!Centre, Rect!Segment, Point
<1>4. Rect!Square(Rect!arrow(r[2], r[3])) = (vx - ux) * (vx - ux) + (vy - uy) * (vy - uy)
  BY <1>1 DEF Rect!Square, Rect!arrow, Point
<1>5. ASSUME r[2].x + r[3].x = r[4].x + r[1].x, r[2].y + r[3].y = r[4].y + r[1].y
      PROVE  Rect!Square(Rect!arrow(r[1], r[4])) = (vx + ux) * (vx + ux) + (vy + uy) * (vy + uy)
  <2>1. /\ r[1].x \in Int /\ r[2].x \in Int /\ r[3].x \in Int /\ r[4].x \in Int
        /\ r[1].y \in Int /\ r[2].y \in Int /\ r[3].y \in Int /\ r[4].y \in Int
    BY <1>1 DEF Point
  <2>2. r[1].x - r[4].x = vx + ux /\ r[1].y - r[4].y = vy + uy
    BY <1>5, <2>1
  <2> QED BY <2>2 DEF Rect!Square, Rect!arrow
<1>6. ux \in Int /\ uy \in Int /\ vx \in Int /\ vy \in Int
  BY <1>1 DEF Point
<1>7. ux * vx + uy * vy = 0 <=>
        (vx - ux) * (vx - ux) + (vy - uy) * (vy - uy) = (vx + ux) * (vx + ux) + (vy + uy) * (vy + uy)
  <2> HIDE DEF ux, uy, vx, vy
  <2> QED BY <1>6
<1>8. (ux = r[3].x - r[4].x /\ uy = r[3].y - r[4].y) <=>
        (r[2].x + r[3].x = r[4].x + r[1].x /\ r[2].y + r[3].y = r[4].y + r[1].y)
  BY <1>1 DEF Point
<1> HIDE DEF ux, uy, vx, vy
<1> QED BY <1>2, <1>3, <1>4, <1>5, <1>7, <1>8 DEF Rect!RectangleByDiagonals

-----------------------------------------------------------------------------
(* Headings and places of obstacles. *)

\* num1 and remainder1 cut towards 0, twice, which is the rest for either sign.
LEMMA RemainderIsRest ==
  ASSUME NEW angle \in Int
  PROVE  Geometry!Remainder(angle) = angle % 628
<1>1. \A n \in Nat : Geometry!Cut(n, 628) * 628 = n - (n % 628)
  BY DEF Geometry!Cut
<1>2. \A n \in Int \ Nat : Geometry!Cut(n, 628) * 628 = n + ((- n) % 628)
  BY DEF Geometry!Cut
<1>3. CASE angle >= 0
  <2>1. (angle - Geometry!Cut(angle, 628) * 628) + 628 = (angle % 628) + 628
    BY <1>1, <1>3
  <2>2. (angle % 628) + 628 \in Nat
    OBVIOUS
  <2>3. Geometry!Cut((angle % 628) + 628, 628) * 628 = 628
    BY <1>1, <2>2
  <2> QED BY <2>1, <2>3 DEF Geometry!Remainder, Geometry!Turn
<1>4. CASE angle < 0
  <2> DEFINE num == 628 - ((- angle) % 628)
  <2>1. (angle - Geometry!Cut(angle, 628) * 628) + 628 = num
    BY <1>2, <1>4
  <2>2. num \in Nat
    OBVIOUS
  <2>3. Geometry!Cut(num, 628) * 628 = num - (num % 628)
    BY <1>1, <2>2
  <2>4. num % 628 = angle % 628
    BY <1>4
  <2>5. Geometry!Remainder(angle) = num - (num - (num % 628))
    BY <2>1, <2>3 DEF Geometry!Remainder, Geometry!Turn
  <2> QED BY <2>2, <2>4, <2>5
<1> QED BY <1>3, <1>4

\* The recorded headings and the robot's are less than a radian apart, and
\* 0 is not between them: what the difference of two remainders tells.
LEMMA HeadingsNear ==
  ASSUME NEW a \in Int, NEW b \in Int
  PROVE  Geometry!Abs(Geometry!Remainder(a) - Geometry!Remainder(b)) < 100 <=>
           Geometry!Between(a, b) < 100 /\ ~ Geometry!OverZero(a, b)
<1> DEFINE p == a % 628
           q == b % 628
           up == (b - a) % 628
           down == (a - b) % 628
<1>1. p \in 0..627 /\ q \in 0..627
  OBVIOUS
<1>2. /\ p <= q => up = q - p
      /\ p > q => up = q - p + 628
      /\ p >= q => down = p - q
      /\ p < q => down = p - q + 628
  OBVIOUS
<1>3. Geometry!Between(a, b) = IF up <= down THEN up ELSE down
  <2>1. up \in Int /\ down \in Int
    OBVIOUS
  <2> HIDE DEF up, down
  <2> QED BY <2>1 DEF Geometry!Between, Geometry!Min, Geometry!Turn, up, down
<1>4. Geometry!OverZero(a, b) <=>
        \/ up = Geometry!Between(a, b) /\ p + up >= 628
        \/ down = Geometry!Between(a, b) /\ q + down >= 628
  BY DEF Geometry!OverZero, Geometry!Turn
<1>5. Geometry!Abs(Geometry!Remainder(a) - Geometry!Remainder(b)) = IF p - q < 0 THEN - (p - q) ELSE p - q
  BY RemainderIsRest DEF Geometry!Abs
<1> HIDE DEF p, q, up, down
<1> QED BY <1>1, <1>2, <1>3, <1>4, <1>5

\* StartsNearby: the comparison of two poses in lines 158 to 166.
LEMMA MeetingRight ==
  ASSUME NEW robot \in AnyPose, NEW pose \in AnyPose
  PROVE  Geometry!StartsNearby(robot, pose)
BY HeadingsNear DEF Geometry!StartsNearby, Geometry!Starts, Geometry!Radian, AnyPose

\* The corners of a box, by the coordinates of its sides.
Box(a, b, c, d) == [x : {a, b}, y : {c, d}]
Ends(a, b, c, d) == {[x |-> a, y |-> c], [x |-> a, y |-> d], [x |-> b, y |-> c], [x |-> b, y |-> d]}
\* The four corners, written twice.
LEMMA FourCorners == \A a, b, c, d : Box(a, b, c, d) = Ends(a, b, c, d)
<1> USE DEF Box, Ends
<1> TAKE a, b, c, d
<1>1. ASSUME NEW r \in [x : {a, b}, y : {c, d}]
      PROVE  r \in {[x |-> a, y |-> c], [x |-> a, y |-> d], [x |-> b, y |-> c], [x |-> b, y |-> d]}
  <2>1. r = [x |-> r.x, y |-> r.y] /\ r.x \in {a, b} /\ r.y \in {c, d}
    OBVIOUS
  <2> QED BY <2>1
<1>2. ASSUME NEW r \in {[x |-> a, y |-> c], [x |-> a, y |-> d], [x |-> b, y |-> c], [x |-> b, y |-> d]}
      PROVE  r \in [x : {a, b}, y : {c, d}]
  OBVIOUS
<1> QED BY <1>1, <1>2

\* Turning into the robot's view and back leaves a point where it is.
LEMMA TurnedBack ==
  ASSUME NEW p \in Point, NEW yaw \in Quarters
  PROVE  /\ Geometry!Turned(p, yaw) \in Point
         /\ Geometry!Turned(Geometry!Turned(p, yaw), (4 - yaw) % 4) = p
<1>1. p.x \in Int /\ p.y \in Int /\ p = [x |-> p.x, y |-> p.y]
  BY DEF Point
<1>2. ASSUME yaw = 0 PROVE (4 - yaw) % 4 = 0
  BY <1>2
<1>3. ASSUME yaw = 1 PROVE (4 - yaw) % 4 = 3
  BY <1>3
<1>4. ASSUME yaw = 2 PROVE (4 - yaw) % 4 = 2
  BY <1>4
<1>5. ASSUME yaw = 3 PROVE (4 - yaw) % 4 = 1
  BY <1>5
<1>6. /\ Geometry!Sin(0) = 0 /\ Geometry!Sin(1) = 1 /\ Geometry!Sin(2) = 0 /\ Geometry!Sin(3) = -1
      /\ Geometry!Cos(0) = 1 /\ Geometry!Cos(1) = 0 /\ Geometry!Cos(2) = -1 /\ Geometry!Cos(3) = 0
  BY DEF Geometry!Sin, Geometry!Cos
<1>7. \A q \in Point :
        /\ Geometry!Turned(q, 0) = [x |-> q.x, y |-> q.y] /\ Geometry!Turned(q, 1) = [x |-> q.y, y |-> - q.x]
        /\ Geometry!Turned(q, 2) = [x |-> - q.x, y |-> - q.y] /\ Geometry!Turned(q, 3) = [x |-> - q.y, y |-> q.x]
  BY <1>6 DEF Geometry!Turned, Point
<1> QED BY <1>1, <1>2, <1>3, <1>4, <1>5, <1>7 DEF Quarters, Point

\* The corners of an obstacle that moves along an axis are those of a box.
LEMMA CornersOfBox ==
  ASSUME NEW p \in Point, NEW angle \in Quarters, NEW unit \in Positive
  PROVE  LET along == IF angle \in {0, 2} THEN 2 * unit ELSE unit
             across == 3 * unit - along
         IN  Geometry!Corners(p, angle, unit) = [x : {p.x - along, p.x + along}, y : {p.y - across, p.y + across}]
<1> DEFINE along == IF angle \in {0, 2} THEN 2 * unit ELSE unit
           across == 3 * unit - along
           c == Geometry!Cos(angle) * unit
           s == Geometry!Sin(angle) * unit
           x == p.x
           y == p.y
<1>1. x \in Int /\ y \in Int /\ unit \in Int
  BY DEF Point, Positive
<1>2. /\ angle = 0 => c = unit /\ s = 0
      /\ angle = 1 => c = 0 /\ s = unit
      /\ angle = 2 => c = - unit /\ s = 0
      /\ angle = 3 => c = 0 /\ s = - unit
  BY <1>1 DEF Geometry!Sin, Geometry!Cos
<1>3. along \in Int /\ across \in Int
      /\ (angle \in {0, 2} => along = 2 * unit /\ across = unit)
      /\ (angle \in {1, 3} => along = unit /\ across = 2 * unit)
  BY <1>1
<1>4. Geometry!Corners(p, angle, unit) =
        {[x |-> x + 2 * c + s, y |-> y - c + 2 * s], [x |-> x - 2 * c + s, y |-> y - c - 2 * s],
         [x |-> x - 2 * c - s, y |-> y + c - 2 * s], [x |-> x + 2 * c - s, y |-> y + c + 2 * s]}
  BY DEF Geometry!Corners
<1>5. [x : {x - along, x + along}, y : {y - across, y + across}] =
        {[x |-> x - along, y |-> y - across], [x |-> x - along, y |-> y + across],
         [x |-> x + along, y |-> y - across], [x |-> x + along, y |-> y + across]}
  <2> HIDE DEF x, y, along, across
  <2>1. Box(x - along, x + along, y - across, y + across) = Ends(x - along, x + along, y - across, y + across)
    BY FourCorners
  <2> QED BY <2>1 DEF Box, Ends
<1>6. CASE angle = 0
  <2>1. x + 2 * c + s = x + along /\ y - c + 2 * s = y - across /\ x - 2 * c + s = x - along /\ y - c - 2 * s = y - across
        /\ x - 2 * c - s = x - along /\ y + c - 2 * s = y + across /\ x + 2 * c - s = x + along /\ y + c + 2 * s = y + across
    <3>1. c = unit /\ s = 0 /\ along = 2 * unit /\ across = unit
      BY <1>2, <1>3, <1>6
    <3> HIDE DEF c, s, x, y, along, across
    <3>2. x \in Int /\ y \in Int /\ c \in Int /\ s \in Int /\ unit \in Int
      BY <1>1, <3>1
    <3>3. x + 2 * c + s = x + along /\ y - c + 2 * s = y - across /\ x - 2 * c + s = x - along /\ y - c - 2 * s = y - across
      BY <3>1, <3>2
    <3>4. x - 2 * c - s = x - along /\ y + c - 2 * s = y + across /\ x + 2 * c - s = x + along /\ y + c + 2 * s = y + across
      BY <3>1, <3>2
    <3> QED BY <3>3, <3>4
  <2>2. Geometry!Corners(p, angle, unit) =
          {[x |-> x + along, y |-> y - across], [x |-> x - along, y |-> y - across],
           [x |-> x - along, y |-> y + across], [x |-> x + along, y |-> y + across]}
    <3> HIDE DEF c, s, x, y, along, across
    <3> QED BY <1>4, <2>1
  <2>3. \A k, l, m, n : {k, l, m, n} = {l, m, k, n}
    OBVIOUS
  <2>4. Geometry!Corners(p, angle, unit) = [x : {x - along, x + along}, y : {y - across, y + across}]
    <3> HIDE DEF c, s, x, y, along, across
    <3> QED BY <1>5, <2>2, <2>3
  <2> QED BY <2>4
<1>7. CASE angle = 1
  <2>1. x + 2 * c + s = x + along /\ y - c + 2 * s = y + across /\ x - 2 * c + s = x + along /\ y - c - 2 * s = y - across
        /\ x - 2 * c - s = x - along /\ y + c - 2 * s = y - across /\ x + 2 * c - s = x - along /\ y + c + 2 * s = y + across
    <3>1. c = 0 /\ s = unit /\ along = unit /\ across = 2 * unit
      BY <1>2, <1>3, <1>7
    <3> HIDE DEF c, s, x, y, along, across
    <3>2. x \in Int /\ y \in Int /\ c \in Int /\ s \in Int /\ unit \in Int
      BY <1>1, <3>1
    <3>3. x + 2 * c + s = x + along /\ y - c + 2 * s = y + across /\ x - 2 * c + s = x + along /\ y - c - 2 * s = y - across
      BY <3>1, <3>2
    <3>4. x - 2 * c - s = x - along /\ y + c - 2 * s = y - across /\ x + 2 * c - s = x - along /\ y + c + 2 * s = y + across
      BY <3>1, <3>2
    <3> QED BY <3>3, <3>4
  <2>2. Geometry!Corners(p, angle, unit) =
          {[x |-> x + along, y |-> y + across], [x |-> x + along, y |-> y - across],
           [x |-> x - along, y |-> y - across], [x |-> x - along, y |-> y + across]}
    <3> HIDE DEF c, s, x, y, along, across
    <3> QED BY <1>4, <2>1
  <2>3. \A k, l, m, n : {k, l, m, n} = {m, n, l, k}
    OBVIOUS
  <2>4. Geometry!Corners(p, angle, unit) = [x : {x - along, x + along}, y : {y - across, y + across}]
    <3> HIDE DEF c, s, x, y, along, across
    <3> QED BY <1>5, <2>2, <2>3
  <2> QED BY <2>4
<1>8. CASE angle = 2
  <2>1. x + 2 * c + s = x - along /\ y - c + 2 * s = y + across /\ x - 2 * c + s = x + along /\ y - c - 2 * s = y + across
        /\ x - 2 * c - s = x + along /\ y + c - 2 * s = y - across /\ x + 2 * c - s = x - along /\ y + c + 2 * s = y - across
    <3>1. c = - unit /\ s = 0 /\ along = 2 * unit /\ across = unit
      BY <1>2, <1>3, <1>8
    <3> HIDE DEF c, s, x, y, along, across
    <3>2. x \in Int /\ y \in Int /\ c \in Int /\ s \in Int /\ unit \in Int
      BY <1>1, <3>1
    <3>3. x + 2 * c + s = x - along /\ y - c + 2 * s = y + across /\ x - 2 * c + s = x + along /\ y - c - 2 * s = y + across
      BY <3>1, <3>2
    <3>4. x - 2 * c - s = x + along /\ y + c - 2 * s = y - across /\ x + 2 * c - s = x - along /\ y + c + 2 * s = y - across
      BY <3>1, <3>2
    <3> QED BY <3>3, <3>4
  <2>2. Geometry!Corners(p, angle, unit) =
          {[x |-> x - along, y |-> y + across], [x |-> x + along, y |-> y + across],
           [x |-> x + along, y |-> y - across], [x |-> x - along, y |-> y - across]}
    <3> HIDE DEF c, s, x, y, along, across
    <3> QED BY <1>4, <2>1
  <2>3. \A k, l, m, n : {k, l, m, n} = {n, k, m, l}
    OBVIOUS
  <2>4. Geometry!Corners(p, angle, unit) = [x : {x - along, x + along}, y : {y - across, y + across}]
    <3> HIDE DEF c, s, x, y, along, across
    <3> QED BY <1>5, <2>2, <2>3
  <2> QED BY <2>4
<1>9. CASE angle = 3
  <2>1. x + 2 * c + s = x - along /\ y - c + 2 * s = y - across /\ x - 2 * c + s = x - along /\ y - c - 2 * s = y + across
        /\ x - 2 * c - s = x + along /\ y + c - 2 * s = y + across /\ x + 2 * c - s = x + along /\ y + c + 2 * s = y - across
    <3>1. c = 0 /\ s = - unit /\ along = unit /\ across = 2 * unit
      BY <1>2, <1>3, <1>9
    <3> HIDE DEF c, s, x, y, along, across
    <3>2. x \in Int /\ y \in Int /\ c \in Int /\ s \in Int /\ unit \in Int
      BY <1>1, <3>1
    <3>3. x + 2 * c + s = x - along /\ y - c + 2 * s = y - across /\ x - 2 * c + s = x - along /\ y - c - 2 * s = y + across
      BY <3>1, <3>2
    <3>4. x - 2 * c - s = x + along /\ y + c - 2 * s = y + across /\ x + 2 * c - s = x + along /\ y + c + 2 * s = y - across
      BY <3>1, <3>2
    <3> QED BY <3>3, <3>4
  <2>2. Geometry!Corners(p, angle, unit) =
          {[x |-> x - along, y |-> y - across], [x |-> x - along, y |-> y + across],
           [x |-> x + along, y |-> y + across], [x |-> x + along, y |-> y - across]}
    <3> HIDE DEF c, s, x, y, along, across
    <3> QED BY <1>4, <2>1
  <2>3. \A k, l, m, n : {k, l, m, n} = {k, l, n, m}
    OBVIOUS
  <2>4. Geometry!Corners(p, angle, unit) = [x : {x - along, x + along}, y : {y - across, y + across}]
    <3> HIDE DEF c, s, x, y, along, across
    <3> QED BY <1>5, <2>2, <2>3
  <2> QED BY <2>4
<1> QED BY <1>6, <1>7, <1>8, <1>9 DEF Quarters

\* ShownInPlace: lines 347 to 425, turned back to the map.
LEMMA ShowingRight ==
  ASSUME NEW from \in Point, NEW to \in Point, NEW passed \in Nat, NEW nsecs \in Positive,
         NEW robot \in [x : Int, y : Int, yaw : Quarters], NEW angle \in Quarters
  PROVE  Geometry!ShownInPlace(from, to, passed, nsecs, robot, angle)
<1> DEFINE at == Geometry!Place(from, to, passed, nsecs, robot)
           Back(p) == Geometry!Turned(p, (4 - robot.yaw) % 4)
           onMap(p) == [x |-> Back(p).x + robot.x * nsecs, y |-> Back(p).y + robot.y * nsecs]
           Moved(p) == [x |-> p.x + robot.x * nsecs, y |-> p.y + robot.y * nsecs]
           place == [x |-> from.x * (nsecs - passed) + to.x * passed,
                     y |-> from.y * (nsecs - passed) + to.y * passed]
           along == IF angle \in {0, 2} THEN 2 * nsecs ELSE nsecs
           across == 3 * nsecs - along
           box == Geometry!Corners(at, angle, nsecs)
<1>1. /\ from.x \in Int /\ from.y \in Int /\ to.x \in Int /\ to.y \in Int /\ robot.x \in Int /\ robot.y \in Int
      /\ robot.yaw \in Quarters /\ passed \in Int /\ nsecs \in Int /\ along \in Int /\ across \in Int
  BY DEF Point, Positive
<1>2. at \in Point
  BY <1>1 DEF Geometry!Place, Point
<1>3. \A p \in Point : onMap(Geometry!Turned(p, robot.yaw)) = Moved(p)
  BY <1>1, TurnedBack
<1>4. at.x + robot.x * nsecs = place.x /\ at.y + robot.y * nsecs = place.y /\ place \in Point
  BY <1>1 DEF Geometry!Place, Point
<1>5. onMap(Geometry!ShownAt(from, to, passed, nsecs, robot)) = place
  <2>1. Moved(at) = place
    BY <1>4
  <2> QED BY <1>2, <1>3, <2>1 DEF Geometry!ShownAt
<1>6. box = [x : {at.x - along, at.x + along}, y : {at.y - across, at.y + across}]
  BY <1>2, CornersOfBox
<1>7. box \subseteq Point
  BY <1>1, <1>2, <1>6 DEF Point
<1>8. {onMap(p) : p \in Geometry!ShownBox(from, to, passed, nsecs, robot, angle)} = {Moved(p) : p \in box}
  <2>1. Geometry!ShownBox(from, to, passed, nsecs, robot, angle) = {Geometry!Turned(p, robot.yaw) : p \in box}
    BY DEF Geometry!ShownBox
  <2> HIDE DEF onMap, Moved, box
  <2>2. \A p \in box : onMap(Geometry!Turned(p, robot.yaw)) = Moved(p)
    BY <1>3, <1>7
  <2> QED BY <2>1, <2>2
<1>9. {Moved(p) : p \in box} = [x : {place.x - along, place.x + along}, y : {place.y - across, place.y + across}]
  <2> DEFINE ax == at.x
             ay == at.y
             dx == robot.x * nsecs
             dy == robot.y * nsecs
  <2>1. ax \in Int /\ ay \in Int /\ dx \in Int /\ dy \in Int /\ place.x = ax + dx /\ place.y = ay + dy
    BY <1>1, <1>2, <1>4 DEF Point
  <2> HIDE DEF at, place, along, across, dx, dy, ax, ay
  <2>2. box = {[x |-> ax - along, y |-> ay - across], [x |-> ax - along, y |-> ay + across],
               [x |-> ax + along, y |-> ay - across], [x |-> ax + along, y |-> ay + across]}
    <3>1. Box(ax - along, ax + along, ay - across, ay + across) = Ends(ax - along, ax + along, ay - across, ay + across)
      BY FourCorners
    <3> QED BY <1>6, <3>1 DEF ax, ay, Box, Ends
  <2> HIDE DEF box
  <2>3. {Moved(p) : p \in box} =
          {[x |-> ax - along + dx, y |-> ay - across + dy], [x |-> ax - along + dx, y |-> ay + across + dy],
           [x |-> ax + along + dx, y |-> ay - across + dy], [x |-> ax + along + dx, y |-> ay + across + dy]}
    <3>1. \A p : Moved(p) = [x |-> p.x + dx, y |-> p.y + dy]
      BY DEF dx, dy
    <3> HIDE DEF Moved
    <3> QED BY <2>2, <3>1
  <2>4. /\ ax - along + dx = place.x - along /\ ay - across + dy = place.y - across
        /\ ax + along + dx = place.x + along /\ ay + across + dy = place.y + across
    BY <1>1, <2>1
  <2>5. [x : {place.x - along, place.x + along}, y : {place.y - across, place.y + across}] =
          {[x |-> place.x - along, y |-> place.y - across], [x |-> place.x - along, y |-> place.y + across],
           [x |-> place.x + along, y |-> place.y - across], [x |-> place.x + along, y |-> place.y + across]}
    <3>1. Box(place.x - along, place.x + along, place.y - across, place.y + across) =
            Ends(place.x - along, place.x + along, place.y - across, place.y + across)
      BY FourCorners
    <3> QED BY <3>1 DEF Box, Ends
  <2> QED BY <2>3, <2>4, <2>5
<1> QED BY <1>5, <1>8, <1>9 DEF Geometry!ShownInPlace

-----------------------------------------------------------------------------
(* Cells of a grid. *)

\* One of the first d * m numbers is in one of m rows of d.
LEMMA QuotientBound ==
  ASSUME NEW d \in Positive, NEW m \in Nat, NEW n \in 0..(d * m - 1)
  PROVE  n \div d \in 0..(m - 1)
<1> DEFINE q == n \div d
<1>1. /\ q \in Int /\ d * q <= n /\ n < d * q + d /\ n >= 0 /\ n < d * m
      /\ d \in Int /\ d > 0 /\ m \in Int
  BY Division DEF Positive
<1> HIDE DEF q
<1>2. q >= 0
  BY <1>1
<1>3. q < m
  BY <1>1
<1> QED BY <1>1, <1>2, <1>3 DEF q

\* RoundTo is within half a step, and keeps multiples of the step.
LEMMA Rounded ==
  ASSUME NEW a \in Int, NEW step \in Positive
  PROVE  /\ Grid!RoundTo(a, step) \in Int
         /\ 2 * (Grid!RoundTo(a, step) - a) \in (- step)..step
         /\ Grid!RoundTo(- a, step) = - Grid!RoundTo(a, step)
<1> DEFINE R(n) == step * ((2 * n + step) \div (2 * step))
<1>1. step \in Int /\ step > 0 /\ 2 * step \in Positive
  BY DEF Positive
<1>2. ASSUME NEW n \in Nat
      PROVE  R(n) \in Int /\ 2 * (R(n) - n) \in (- step)..step
  <2> DEFINE q == (2 * n + step) \div (2 * step)
  <2>2. q \in Int /\ (2 * step) * q <= 2 * n + step /\ 2 * n + step < (2 * step) * q + 2 * step
    <3> DEFINE m == 2 * n + step
               w == 2 * step
    <3>1. m \in Int /\ w \in Positive
      BY <1>1
    <3> HIDE DEF m, w
    <3>2. /\ m \div w \in Int /\ m % w \in 0..(w - 1) /\ m = w * (m \div w) + (m % w)
      BY <3>1, Division
    <3> QED BY <3>1, <3>2 DEF m, w, Positive
  <2>3. R(n) = step * q
    OBVIOUS
  <2> HIDE DEF q, R
  <2>4. step * q \in Int /\ 2 * (step * q) = (2 * step) * q
    BY <1>1, <2>2
  <2> QED BY <1>1, <2>2, <2>3, <2>4
<1>3. ASSUME NEW n \in Nat
      PROVE  Grid!RoundTo(n, step) = R(n)
  BY DEF Grid!RoundTo
<1>4. ASSUME NEW n \in Nat, n > 0
      PROVE  Grid!RoundTo(- n, step) = - R(n)
  <2>1. step - 2 * (- n) = 2 * n + step /\ ~ (- n >= 0)
    BY <1>1, <1>4
  <2> QED BY <2>1 DEF Grid!RoundTo
<1>5. R(0) = 0
  <2>1. (2 * 0 + step) \div (2 * step) = 0
    BY <1>1
  <2> QED BY <1>1, <2>1
<1> HIDE DEF R
<1>6. CASE a > 0
  <2>1. Grid!RoundTo(a, step) = R(a) /\ Grid!RoundTo(- a, step) = - R(a)
    BY <1>3, <1>4, <1>6
  <2> QED BY <1>2, <1>6, <2>1
<1>7. CASE a = 0
  <2>1. Grid!RoundTo(0, step) = 0
    BY <1>3, <1>5
  <2> QED BY <1>1, <1>7, <2>1
<1>8. CASE a < 0
  <2> DEFINE n == - a
  <2>1. n \in Nat /\ n > 0 /\ - n = a
    BY <1>8
  <2> HIDE DEF n
  <2>2. Grid!RoundTo(a, step) = - R(n) /\ Grid!RoundTo(n, step) = R(n)
    BY <1>3, <1>4, <2>1
  <2>3. - (- R(n)) = R(n) /\ 2 * (- R(n) - a) \in (- step)..step /\ - R(n) \in Int
    BY <1>1, <1>2, <2>1
  <2> QED BY <2>2, <2>3 DEF n
<1> QED BY <1>6, <1>7, <1>8

\* What is less than half a step off a multiple is rounded to it.
LEMMA RoundedBack ==
  ASSUME NEW k \in Int, NEW e \in Int, NEW step \in Positive, - step < 2 * e, 2 * e < step
  PROVE  Grid!RoundTo(step * k + e, step) = step * k
<1>1. step \in Int /\ step > 0 /\ 2 * step \in Positive /\ step * k \in Int
  BY DEF Positive
<1>2. (2 * step) * k = 2 * (step * k) /\ (2 * step) * (- k) = - (2 * (step * k)) /\ - (step * (- k)) = step * k
  BY <1>1
<1>3. CASE step * k + e >= 0
  <2>1. 2 * (step * k + e) + step = (2 * step) * k + (2 * e + step) /\ 2 * e + step \in 0..(2 * step - 1)
    BY <1>1, <1>2
  <2>2. (2 * (step * k + e) + step) \div (2 * step) = k
    BY <1>1, <2>1, Quotient
  <2> QED BY <1>3, <2>2 DEF Grid!RoundTo
<1>4. CASE ~ step * k + e >= 0
  <2>1. step - 2 * (step * k + e) = (2 * step) * (- k) + (step - 2 * e) /\ step - 2 * e \in 0..(2 * step - 1)
    BY <1>1, <1>2
  <2>2. (step - 2 * (step * k + e)) \div (2 * step) = - k
    <3> DEFINE w == 2 * step
               q == - k
               r == step - 2 * e
    <3>1. w \in Positive /\ q \in Int /\ r \in 0..(w - 1)
      BY <1>1, <2>1
    <3> HIDE DEF w, q, r
    <3>2. (w * q + r) \div w = q
      BY <3>1, Quotient
    <3> QED BY <2>1, <3>2 DEF w, q, r
  <2> QED BY <1>2, <1>4, <2>2 DEF Grid!RoundTo
<1> QED BY <1>3, <1>4

\* A coordinate seen by a robot is, from the robot's new place in the grid,
\* that coordinate moved as the robot was.
LEMMA RoundedTwice ==
  ASSUME NEW A \in Int, NEW k \in Int, NEW here \in Int, NEW there \in Int,
         NEW vision \in Positive, NEW pixel \in Positive,
         vision < pixel \/ (vision = pixel /\ pixel % 2 = 1),
         A + (there - here) = pixel * k
  PROVE  Grid!RoundTo(Grid!RoundTo(A - here, vision) + there, pixel) = pixel * k
<1> DEFINE R == Grid!RoundTo(A - here, vision)
           e == R - (A - here)
<1>1. A - here \in Int /\ vision \in Int /\ pixel \in Int /\ pixel > 0 /\ pixel * k \in Int
  BY DEF Positive
<1>2. R \in Int /\ 2 * e \in (- vision)..vision /\ e \in Int
  <2> DEFINE a == A - here
  <2>1. a \in Int
    BY <1>1
  <2> HIDE DEF a
  <2>2. Grid!RoundTo(a, vision) \in Int /\ 2 * (Grid!RoundTo(a, vision) - a) \in (- vision)..vision
    BY <2>1, Rounded
  <2> QED BY <1>1, <2>1, <2>2 DEF a
<1>3. - pixel < 2 * e /\ 2 * e < pixel
  <2> HIDE DEF R, e
  <2>1. 2 * e <= vision /\ - vision <= 2 * e
    BY <1>1, <1>2
  <2>2. CASE vision < pixel
    BY <1>1, <1>2, <2>1, <2>2
  <2>3. CASE vision = pixel /\ pixel % 2 = 1
    BY <1>1, <1>2, <2>1, <2>3
  <2> QED BY <2>2, <2>3
<1>4. R + there = pixel * k + e
  <2> DEFINE m == pixel * k
  <2>1. m \in Int /\ A + (there - here) = m
    BY <1>1
  <2> HIDE DEF R, m
  <2>2. R + there = m + e
    BY <1>2, <2>1
  <2> QED BY <2>2 DEF m
<1> HIDE DEF e
<1> QED BY <1>2, <1>3, <1>4, RoundedBack

\* Configurations of any size.
GridConfig ==
  [range : Positive, block : Positive, pixel : Positive, vision : Positive, side : Positive, lengths : {"exact", "rounded"}]

\* The index of a cell is put together from its block and its pixel, and
\* these from the rows and columns, each of which it determines.
LEMMA CellParts ==
  ASSUME NEW g \in GridConfig, Grid!Regular(g), NEW i \in 0..(Grid!GridNum(g) - 1)
  PROVE  LET N == Grid!Num1D(g)
             P == Grid!PixelNum1D(g)
             PN == Grid!PixelNum(g)
             block == i \div PN
             pixel == i % PN
         IN  /\ N \in Positive /\ P \in Positive /\ PN \in Positive /\ PN = P * P
             /\ Grid!GridNum(g) = PN * (N * N) /\ g.block = g.pixel * P
             /\ block \in 0..(N * N - 1) /\ pixel \in 0..(PN - 1)
             /\ block \div N \in 0..(N - 1) /\ block % N \in 0..(N - 1) /\ block = N * (block \div N) + (block % N)
             /\ pixel \div P \in 0..(P - 1) /\ pixel % P \in 0..(P - 1) /\ pixel = P * (pixel \div P) + (pixel % P)
<1> DEFINE N == Grid!Num1D(g)
           P == Grid!PixelNum1D(g)
           PN == Grid!PixelNum(g)
           block == i \div PN
           pixel == i % PN
<1>1. /\ g.range \in Positive /\ g.block \in Positive /\ g.pixel \in Positive /\ g.side \in Positive
      /\ g.block = g.side * g.pixel /\ g.range % g.block = 0
  BY DEF GridConfig, Grid!Regular
<1>2. ASSUME NEW n \in Positive, NEW d \in Positive, n % d = 0
      PROVE  n \div d \in Positive /\ n = d * (n \div d)
  <2>1. n \div d \in Int /\ n = d * (n \div d) /\ n > 0 /\ d > 0 /\ d \in Int
    BY <1>2, Division DEF Positive
  <2> DEFINE q == n \div d
  <2>2. q > 0
    <3> HIDE DEF q
    <3> SUFFICES ASSUME q <= 0 PROVE FALSE
      BY <2>1 DEF q
    <3>1. q \in Int /\ n = d * q
      BY <2>1 DEF q
    <3>2. d * q <= 0
      BY <2>1, <3>1
    <3> QED BY <2>1, <3>1, <3>2
  <2> QED BY <2>1, <2>2 DEF Positive
<1>3. N \in Positive /\ P \in Positive /\ g.block = g.pixel * P
  <2>1. g.side * g.pixel = g.pixel * g.side
    BY <1>1 DEF Positive
  <2> QED BY <1>1, <1>2, <2>1 DEF Grid!Num1D, Grid!PixelNum1D
<1>4. PN = P * P /\ Grid!GridNum(g) = (N * N) * PN
  BY DEF Grid!PixelNum, Grid!GridNum
<1>5. ASSUME NEW n \in Positive PROVE n * n \in Positive /\ n * n \in Nat
  BY <1>5 DEF Positive
<1>6. PN \in Positive /\ N * N \in Nat /\ P * P \in Nat /\ Grid!GridNum(g) = PN * (N * N)
  <2>1. PN \in Positive /\ N * N \in Nat /\ P * P \in Nat
    BY <1>3, <1>4, <1>5
  <2> HIDE DEF N, PN
  <2> QED BY <1>4, <2>1 DEF Positive
<1> HIDE DEF N, P, PN
<1>7. i \in Int /\ i \in 0..(PN * (N * N) - 1)
  BY <1>6
<1>8. block \in 0..(N * N - 1) /\ pixel \in 0..(PN - 1)
  BY <1>6, <1>7, QuotientBound, Division
<1> HIDE DEF block, pixel
<1>9. /\ block \div N \in 0..(N - 1) /\ block % N \in 0..(N - 1) /\ block = N * (block \div N) + (block % N)
      /\ pixel \div P \in 0..(P - 1) /\ pixel % P \in 0..(P - 1) /\ pixel = P * (pixel \div P) + (pixel % P)
  <2>1. block \in Int /\ pixel \in Int /\ N \in Nat /\ P \in Nat /\ pixel \in 0..(P * P - 1)
    BY <1>3, <1>4, <1>8 DEF Positive
  <2> QED BY <1>3, <1>8, <2>1, QuotientBound, Division
<1> QED BY <1>3, <1>4, <1>6, <1>8, <1>9 DEF N, P, PN, block, pixel

\* What a robot sees of a cell: without the rounding, its place in the grid
\* less the robot's.  Turning back undoes the turn before the rounding.
LEMMA SeenAndBack ==
  ASSUME NEW u \in Int, NEW v \in Int, NEW yaw \in Quarters, NEW vision \in Positive
  PROVE  LET x == Grid!RoundTo(u * Grid!Cos(yaw) + v * Grid!Sin(yaw), vision)
             y == Grid!RoundTo(v * Grid!Cos(yaw) - u * Grid!Sin(yaw), vision)
         IN  /\ x * Grid!Cos(yaw) - y * Grid!Sin(yaw) = Grid!RoundTo(u, vision)
             /\ y * Grid!Cos(yaw) + x * Grid!Sin(yaw) = Grid!RoundTo(v, vision)
<1> DEFINE R(n) == Grid!RoundTo(n, vision)
<1>1. \A n \in Int : R(n) \in Int /\ R(- n) = - R(n)
  BY Rounded
<1>2. /\ Grid!Sin(0) = 0 /\ Grid!Sin(1) = 1 /\ Grid!Sin(2) = 0 /\ Grid!Sin(3) = -1
      /\ Grid!Cos(0) = 1 /\ Grid!Cos(1) = 0 /\ Grid!Cos(2) = -1 /\ Grid!Cos(3) = 0
  BY DEF Grid!Sin, Grid!Cos
<1>3. /\ u * 1 + v * 0 = u /\ v * 1 - u * 0 = v /\ u * 0 + v * 1 = v /\ v * 0 - u * 1 = - u
      /\ u * (-1) + v * 0 = - u /\ v * (-1) - u * 0 = - v /\ u * 0 + v * (-1) = - v /\ v * 0 - u * (-1) = u
  OBVIOUS
<1>4. R(u) \in Int /\ R(v) \in Int /\ R(- u) = - R(u) /\ R(- v) = - R(v)
  BY <1>1
<1> HIDE DEF R
<1>5. LET x == R(u * Grid!Cos(yaw) + v * Grid!Sin(yaw))
          y == R(v * Grid!Cos(yaw) - u * Grid!Sin(yaw))
      IN  /\ x * Grid!Cos(yaw) - y * Grid!Sin(yaw) = R(u)
          /\ y * Grid!Cos(yaw) + x * Grid!Sin(yaw) = R(v)
  <2>1. CASE yaw = 0
    BY <1>2, <1>3, <1>4, <2>1
  <2>2. CASE yaw = 1
    BY <1>2, <1>3, <1>4, <2>2
  <2>3. CASE yaw = 2
    BY <1>2, <1>3, <1>4, <2>3
  <2>4. CASE yaw = 3
    BY <1>2, <1>3, <1>4, <2>4
  <2> QED BY <2>1, <2>2, <2>3, <2>4 DEF Quarters
<1> QED BY <1>5 DEF R

\* What a coordinate p pixels into the block b is cut to.
LEMMA CoordinateCut ==
  ASSUME NEW g \in GridConfig, NEW P \in Positive, g.block = g.pixel * P,
         NEW b \in Int, NEW p \in 0..(P - 1)
  PROVE  /\ g.lengths = "exact" => Grid!CellsOf(g, g.pixel * (p + b * P)) = {<<b, p>>}
         /\ p > 0 => Grid!CellsOf(g, g.pixel * (p + b * P)) \subseteq {<<b, p>>, <<b, p - 1>>}
<1> DEFINE w == g.pixel
           d == g.block
           r == w * p
           u == w * (p + b * P)
<1>1. /\ w \in Int /\ w > 0 /\ P \in Int /\ P > 0 /\ p \in Int /\ 0 <= p /\ p <= P - 1 /\ d = w * P
      /\ w \in Positive /\ d \in Positive
  BY DEF Positive, GridConfig
<1> HIDE DEF w, d
<1>2. u = d * b + r /\ u \in Int
  BY <1>1
<1>3. r \in 0..(d - 1) /\ (p > 0 => r # 0)
  <2>1. 0 <= w * p /\ w * p <= w * (P - 1)
    BY <1>1
  <2>2. w * (P - 1) = w * P - w
    BY <1>1
  <2>3. p > 0 => w * p # 0
    BY <1>1
  <2> QED BY <1>1, <2>1, <2>2, <2>3
<1>4. r \div w = p /\ r \in Int
  <2>1. r = w * p + 0 /\ 0 \in 0..(w - 1)
    BY <1>1
  <2> QED BY <1>1, <1>3, <2>1, Quotient
<1> HIDE DEF r, u
<1>5. u \div d = b /\ u % d = r /\ u - b * d = r
  <2>1. (d * b + r) \div d = b /\ (d * b + r) % d = r
    BY <1>1, <1>3, Quotient
  <2>2. b * d = d * b /\ d * b \in Int
    BY <1>1 DEF Positive
  <2> QED BY <1>2, <1>4, <2>1, <2>2
<1>6. (g.lengths = "exact" \/ p > 0) => Grid!Truncated(g, u, d) = {b}
  BY <1>3, <1>5 DEF Grid!Truncated
<1>7. /\ g.lengths = "exact" => Grid!Truncated(g, r, w) = {p}
      /\ Grid!Truncated(g, r, w) \subseteq {p, p - 1}
  BY <1>4 DEF Grid!Truncated
<1>8. (g.lengths = "exact" \/ p > 0) => Grid!CellsOf(g, u) = {<<b, q>> : q \in Grid!Truncated(g, r, w)}
  <2> SUFFICES ASSUME (g.lengths = "exact" \/ p > 0)
               PROVE  Grid!CellsOf(g, u) = {<<b, q>> : q \in Grid!Truncated(g, r, w)}
    OBVIOUS
  <2>1. Grid!CellsOf(g, u) =
          UNION {{<<c, q>> : q \in Grid!Truncated(g, u - c * d, w)} : c \in Grid!Truncated(g, u, d)}
    BY DEF Grid!CellsOf, w, d
  <2>2. Grid!CellsOf(g, u) = UNION {{<<c, q>> : q \in Grid!Truncated(g, u - c * d, w)} : c \in {b}}
    BY <1>6, <2>1
  <2> QED BY <1>5, <2>2
<1> QED BY <1>7, <1>8 DEF u, w

\* A cell is looked up by a robot that moved by whole blocks: its point is the
\* same pixel of the block as many blocks further on.
LEMMA CellFound ==
  ASSUME NEW g \in GridConfig, Grid!Regular(g), NEW i \in 0..(Grid!GridNum(g) - 1), NEW yaw \in Quarters,
         NEW here \in Point, NEW there \in Point, NEW dx \in Int, NEW dy \in Int,
         there.x - here.x = dx * g.block, there.y - here.y = dy * g.block
  PROVE  LET N == Grid!Num1D(g)
             P == Grid!PixelNum1D(g)
             PN == Grid!PixelNum(g)
             block == i \div PN
             pixel == i % PN
         IN  Grid!RobotRelaCoor2GridIndex(g, Grid!GridIndex2RobotRelaCoor(g, i, yaw, here), yaw, there) =
               {(c[1] * N + d[1]) * PN + (c[2] * P + d[2]) :
                  c \in Grid!CellsOf(g, g.pixel * (pixel \div P + (block \div N + dx) * P)),
                  d \in Grid!CellsOf(g, g.pixel * ((pixel % P) + ((block % N) + dy) * P))}
<1> DEFINE N == Grid!Num1D(g)
           P == Grid!PixelNum1D(g)
           PN == Grid!PixelNum(g)
           block == i \div PN
           pixel == i % PN
           bx == block \div N
           by == block % N
           px == pixel \div P
           py == pixel % P
           A == px * g.pixel + bx * g.block
           B == py * g.pixel + by * g.block
           pt == Grid!GridIndex2RobotRelaCoor(g, i, yaw, here)
<1>1. /\ N \in Positive /\ P \in Positive /\ PN \in Positive /\ g.block = g.pixel * P
      /\ bx \in Int /\ by \in Int /\ px \in 0..(P - 1) /\ py \in 0..(P - 1) /\ pixel = P * px + py
  BY CellParts
<1>2. /\ g.pixel \in Positive /\ g.block \in Positive /\ g.vision \in Positive
      /\ here.x \in Int /\ here.y \in Int /\ there.x \in Int /\ there.y \in Int
      /\ g.vision < g.pixel \/ (g.vision = g.pixel /\ g.pixel % 2 = 1)
  BY DEF GridConfig, Point, Grid!Regular
<1> DEFINE u == px * g.pixel + (bx * g.block - here.x)
           v == py * g.pixel + (by * g.block - here.y)
<1>3. pt = [x |-> Grid!RoundTo(u * Grid!Cos(yaw) + v * Grid!Sin(yaw), g.vision),
            y |-> Grid!RoundTo(v * Grid!Cos(yaw) - u * Grid!Sin(yaw), g.vision)]
  BY DEF Grid!GridIndex2RobotRelaCoor
<1> HIDE DEF N, P, PN, block, pixel, bx, by, px, py
<1>4. A \in Int /\ B \in Int /\ A - here.x \in Int /\ B - here.y \in Int /\ u = A - here.x /\ v = B - here.y
  BY <1>1, <1>2 DEF Positive
<1> DEFINE kx == px + (bx + dx) * P
           ky == py + (by + dy) * P
<1>5. kx \in Int /\ ky \in Int
  BY <1>1 DEF Positive
<1>6. A + (there.x - here.x) = g.pixel * kx /\ B + (there.y - here.y) = g.pixel * ky
  <2> DEFINE w == g.pixel
  <2>1. w \in Int /\ P \in Int /\ px \in Int /\ py \in Int /\ g.block = w * P
    BY <1>1, <1>2 DEF Positive
  <2>2. A + (there.x - here.x) = px * w + bx * (w * P) + dx * (w * P)
    BY <2>1
  <2>3. B + (there.y - here.y) = py * w + by * (w * P) + dy * (w * P)
    BY <2>1
  <2> HIDE DEF A, B, w
  <2>4. px * w + bx * (w * P) + dx * (w * P) = w * kx
    BY <1>1, <2>1
  <2>5. py * w + by * (w * P) + dy * (w * P) = w * ky
    BY <1>1, <2>1
  <2> QED BY <2>2, <2>3, <2>4, <2>5 DEF w
<1> DEFINE U == Grid!RoundTo(pt.x * Grid!Cos(yaw) - pt.y * Grid!Sin(yaw) + there.x, g.pixel)
           V == Grid!RoundTo(pt.y * Grid!Cos(yaw) + pt.x * Grid!Sin(yaw) + there.y, g.pixel)
<1>7. U = g.pixel * kx /\ V = g.pixel * ky
  <2>1. /\ pt.x * Grid!Cos(yaw) - pt.y * Grid!Sin(yaw) = Grid!RoundTo(u, g.vision)
        /\ pt.y * Grid!Cos(yaw) + pt.x * Grid!Sin(yaw) = Grid!RoundTo(v, g.vision)
    <3> HIDE DEF pt
    <3>1. u \in Int /\ v \in Int
      BY <1>4
    <3>2. /\ pt.x = Grid!RoundTo(u * Grid!Cos(yaw) + v * Grid!Sin(yaw), g.vision)
          /\ pt.y = Grid!RoundTo(v * Grid!Cos(yaw) - u * Grid!Sin(yaw), g.vision)
      BY <1>3
    <3> HIDE DEF u, v
    <3> QED BY <1>2, <3>1, <3>2, SeenAndBack
  <2> HIDE DEF kx, ky, A, B, pt, u, v
  <2>2. /\ Grid!RoundTo(Grid!RoundTo(A - here.x, g.vision) + there.x, g.pixel) = g.pixel * kx
        /\ Grid!RoundTo(Grid!RoundTo(B - here.y, g.vision) + there.y, g.pixel) = g.pixel * ky
    BY <1>2, <1>4, <1>5, <1>6, RoundedTwice
  <2> QED BY <1>4, <2>1, <2>2
<1>8. Grid!RobotRelaCoor2GridIndex(g, pt, yaw, there) =
        {(c[1] * N + d[1]) * PN + (c[2] * P + d[2]) : c \in Grid!CellsOf(g, U), d \in Grid!CellsOf(g, V)}
  BY DEF Grid!RobotRelaCoor2GridIndex, N, P, PN
<1> HIDE DEF U, V, pt
<1>9. Grid!RobotRelaCoor2GridIndex(g, pt, yaw, there) =
        {(c[1] * N + d[1]) * PN + (c[2] * P + d[2]) :
           c \in Grid!CellsOf(g, g.pixel * kx), d \in Grid!CellsOf(g, g.pixel * ky)}
  BY <1>7, <1>8
<1> QED BY <1>9 DEF pt, px, py, pixel, bx, by, block, N, P, PN

\* With lengths that doubles hold, that is one index: the same pixel of a block
\* dx and dy further on.
MovedIndex(g, i, dx, dy) ==
  LET N == Grid!Num1D(g)
      PN == Grid!PixelNum(g)
      block == i \div PN
  IN  ((block \div N + dx) * N + ((block % N) + dy)) * PN + (i % PN)

LEMMA CellExact ==
  ASSUME NEW g \in GridConfig, Grid!Regular(g), g.lengths = "exact", NEW i \in 0..(Grid!GridNum(g) - 1), NEW yaw \in Quarters,
         NEW here \in Point, NEW there \in Point, NEW dx \in Int, NEW dy \in Int,
         there.x - here.x = dx * g.block, there.y - here.y = dy * g.block
  PROVE  Grid!RobotRelaCoor2GridIndex(g, Grid!GridIndex2RobotRelaCoor(g, i, yaw, here), yaw, there) =
           {MovedIndex(g, i, dx, dy)}
<1> DEFINE N == Grid!Num1D(g)
           P == Grid!PixelNum1D(g)
           PN == Grid!PixelNum(g)
           block == i \div PN
           pixel == i % PN
           bx == block \div N + dx
           by == (block % N) + dy
           px == pixel \div P
           py == pixel % P
           found == Grid!RobotRelaCoor2GridIndex(g, Grid!GridIndex2RobotRelaCoor(g, i, yaw, here), yaw, there)
           X == Grid!CellsOf(g, g.pixel * (px + bx * P))
           Y == Grid!CellsOf(g, g.pixel * (py + by * P))
<1>1. /\ P \in Positive /\ g.block = g.pixel * P /\ bx \in Int /\ by \in Int
      /\ px \in 0..(P - 1) /\ py \in 0..(P - 1) /\ pixel = P * px + py
  BY CellParts
<1>2. found = {(c[1] * N + d[1]) * PN + (c[2] * P + d[2]) : c \in X, d \in Y}
  BY CellFound
<1> HIDE DEF N, P, PN, block, pixel, bx, by, px, py, found
<1>3. X = {<<bx, px>>} /\ Y = {<<by, py>>}
  BY <1>1, CoordinateCut
<1> HIDE DEF X, Y
<1>4. found = {(bx * N + by) * PN + (px * P + py)}
  <2>1. \A c \in X, d \in Y : (c[1] * N + d[1]) * PN + (c[2] * P + d[2]) = (bx * N + by) * PN + (px * P + py)
    BY <1>3
  <2>2. X # {} /\ Y # {}
    BY <1>3
  <2> QED BY <1>2, <2>1, <2>2
<1>5. px * P + py = pixel
  BY <1>1 DEF Positive
<1> QED BY <1>4, <1>5 DEF MovedIndex, found, bx, by, pixel, block, N, PN

\* CellOfItsPoint: index to point and back, at any place and turn.
LEMMA CellOfItsPointRight ==
  ASSUME NEW g \in GridConfig, NEW yaw \in Quarters, NEW at \in Point
  PROVE  Grid!CellOfItsPoint(g, yaw, at)
<1> DEFINE found(i) == Grid!RobotRelaCoor2GridIndex(g, Grid!GridIndex2RobotRelaCoor(g, i, yaw, at), yaw, at)
<1> SUFFICES ASSUME Grid!Regular(g), NEW i \in 0..(Grid!GridNum(g) - 1)
             PROVE  LET pixel == i % Grid!PixelNum(g)
                    IN  /\ g.lengths = "exact" => found(i) = {i}
                        /\ (pixel >= g.side /\ pixel % g.side > 0)
                             => found(i) \subseteq {i, i - 1, i - g.side, i - g.side - 1}
  BY DEF Grid!CellOfItsPoint
<1> DEFINE N == Grid!Num1D(g)
           P == Grid!PixelNum1D(g)
           PN == Grid!PixelNum(g)
           block == i \div PN
           pixel == i % PN
           bx == block \div N
           by == block % N
           px == pixel \div P
           py == pixel % P
           X == Grid!CellsOf(g, g.pixel * (px + bx * P))
           Y == Grid!CellsOf(g, g.pixel * (py + by * P))
<1>1. at.x - at.x = 0 * g.block /\ at.y - at.y = 0 * g.block
  BY DEF Point, GridConfig, Positive
<1>2. /\ N \in Int /\ PN \in Positive /\ bx \in Int /\ by \in Int /\ block = N * bx + by
      /\ P \in Positive /\ g.block = g.pixel * P
      /\ px \in 0..(P - 1) /\ py \in 0..(P - 1) /\ pixel = P * px + py /\ pixel \in Int
  BY CellParts DEF Positive
<1>3. i = PN * block + pixel /\ i \in Int
  BY <1>2, Division
<1>4. P = g.side
  BY DEF Grid!PixelNum1D
<1>5. ASSUME g.lengths = "exact" PROVE found(i) = {((bx + 0) * N + (by + 0)) * PN + pixel}
  <2>1. found(i) = {MovedIndex(g, i, 0, 0)}
    BY <1>1, <1>5, CellExact
  <2>2. MovedIndex(g, i, 0, 0) = ((bx + 0) * N + (by + 0)) * PN + pixel
    BY DEF MovedIndex
  <2> QED BY <2>1, <2>2
<1>6. found(i) = {(c[1] * N + d[1]) * PN + (c[2] * P + d[2]) : c \in X, d \in Y}
  <2>1. found(i) = {(c[1] * N + d[1]) * PN + (c[2] * P + d[2]) :
                      c \in Grid!CellsOf(g, g.pixel * (px + (bx + 0) * P)),
                      d \in Grid!CellsOf(g, g.pixel * (py + (by + 0) * P))}
    BY <1>1, CellFound
  <2>2. bx + 0 = bx /\ by + 0 = by
    BY <1>2
  <2> QED BY <2>1, <2>2
<1> HIDE DEF found, N, P, PN, block, pixel, bx, by, px, py
<1>7. (bx * N + by) * PN + pixel = i
  <2>1. bx * N + by = block
    BY <1>2
  <2>2. block * PN = PN * block /\ block \in Int
    BY <1>2 DEF Positive
  <2> QED BY <1>3, <2>1, <2>2
<1>8. g.lengths = "exact" => found(i) = {i}
  <2>1. bx + 0 = bx /\ by + 0 = by
    BY <1>2
  <2> QED BY <1>5, <1>7, <2>1
<1>9. ASSUME pixel >= P, pixel % P > 0
      PROVE  found(i) \subseteq {i, i - 1, i - P, i - P - 1}
  <2>1. px > 0 /\ py > 0
    <3>1. py > 0
      BY <1>9 DEF py
    <3>2. P \in Int /\ P > 0 /\ px \in Int /\ py \in Int /\ py <= P - 1
      BY <1>2 DEF Positive
    <3>3. CASE px <= 0
      <4>1. px = 0
        BY <1>2, <3>3
      <4> QED BY <1>2, <1>9, <3>2, <4>1
    <3> QED BY <3>1, <3>2, <3>3
  <2>2. X \subseteq {<<bx, px>>, <<bx, px - 1>>} /\ Y \subseteq {<<by, py>>, <<by, py - 1>>}
    BY <1>2, <2>1, CoordinateCut
  <2> HIDE DEF X, Y
  <2> SUFFICES ASSUME NEW c \in X, NEW d \in Y
               PROVE  (c[1] * N + d[1]) * PN + (c[2] * P + d[2]) \in {i, i - 1, i - P, i - P - 1}
    BY <1>6
  <2>3. /\ c[1] = bx /\ d[1] = by
        /\ c[2] = px \/ c[2] = px - 1
        /\ d[2] = py \/ d[2] = py - 1
    BY <2>2
  <2>4. P \in Int /\ px \in Int /\ py \in Int /\ px * P = P * px /\ (px - 1) * P = P * px - P /\ P * px \in Int
    BY <1>2 DEF Positive
  <2>5. c[2] * P + d[2] \in {pixel, pixel - 1, pixel - P, pixel - P - 1}
    BY <1>2, <2>3, <2>4
  <2>6. (bx * N + by) * PN = i - pixel
    <3>1. (bx * N + by) * PN \in Int
      BY <1>2 DEF Positive
    <3> QED BY <1>2, <1>7, <3>1
  <2>7. (c[1] * N + d[1]) * PN + (c[2] * P + d[2]) = (i - pixel) + (c[2] * P + d[2])
    BY <2>3, <2>6
  <2> QED BY <1>2, <1>3, <2>4, <2>5, <2>7
<1> QED BY <1>4, <1>8, <1>9 DEF pixel, PN

\* Blocks of one grid have different files.
LEMMA BlockNamesApart ==
  ASSUME NEW g \in GridConfig, Grid!Num1D(g) \in Positive, NEW base \in Point,
         NEW i \in Int, NEW j \in Int, Grid!BlockName(g, i, base) = Grid!BlockName(g, j, base)
  PROVE  i = j
<1> DEFINE N == Grid!Num1D(g)
           a == i \div N
           b == j \div N
           c == i % N
           d == j % N
<1>1. a + base.x = b + base.x /\ c + base.y = d + base.y
  BY DEF Grid!BlockName
<1>2. /\ base.x \in Int /\ base.y \in Int /\ a \in Int /\ b \in Int /\ c \in Int /\ d \in Int
      /\ i = N * a + c /\ j = N * b + d
  BY Division DEF Point
<1> HIDE DEF a, b, c, d
<1>3. a = b /\ c = d
  BY <1>1, <1>2
<1> QED BY <1>2, <1>3

\* GridKeptOnMove: what was dumped is loaded where it was, on any other grid.
LEMMA GridKeptRight ==
  ASSUME NEW g \in GridConfig, NEW yaw \in Quarters, NEW at \in Point, NEW from \in Point, NEW to \in Point
  PROVE  Grid!GridKeptOnMove(g, yaw, at, from, to)
<1> DEFINE N == Grid!Num1D(g)
           PN == Grid!PixelNum(g)
           Cells == 0..(Grid!GridNum(g) - 1)
           Blocks == 0..(N * N - 1)
           In(base) == [x |-> at.x - base.x * g.block, y |-> at.y - base.y * g.block]
           grid == [i \in Cells |-> i]
           buff == [i \in Cells |-> -1]
           files == Grid!DumpGridToMultiFile(g, grid, from)
           moved == Grid!LoadGridFromMultiFile(g, files, to, buff)
           Name(k, base) == Grid!BlockName(g, k, base)
           shared == {i \in Cells : \E j \in Cells : Name(i \div PN, to) = Name(j \div PN, from)}
<1> SUFFICES ASSUME Grid!Regular(g)
             PROVE  /\ \A i \in shared : g.lengths = "exact" =>
                         Grid!RobotRelaCoor2GridIndex(g, Grid!GridIndex2RobotRelaCoor(g, i, yaw, In(to)), yaw, In(from))
                           = {moved[i]}
                    /\ \A i \in Cells \ shared : moved[i] = -1
  BY DEF Grid!GridKeptOnMove
<1>1. ASSUME NEW i \in Cells
      PROVE  /\ N \in Positive /\ PN \in Positive /\ Grid!GridNum(g) = PN * (N * N)
             /\ i \div PN \in Blocks /\ i % PN \in 0..(PN - 1)
             /\ i = PN * (i \div PN) + (i % PN)
             /\ (i \div PN) \div N \in Int /\ (i \div PN) % N \in Int
             /\ i \div PN = N * ((i \div PN) \div N) + ((i \div PN) % N)
  <2>1. i \in Int
    OBVIOUS
  <2> QED BY <2>1, CellParts, Division
<1>2. ASSUME NEW k \in Blocks, NEW i \in Cells
      PROVE  PN * k \in Cells /\ (PN * k) \div PN = k
  <2>1. N \in Int /\ PN \in Positive /\ PN \in Int /\ PN > 0 /\ Grid!GridNum(g) = PN * (N * N) /\ N * N \in Int
    BY <1>1 DEF Positive
  <2> DEFINE NN == N * N
             G == Grid!GridNum(g)
  <2>2. k \in Int /\ 0 <= k /\ k <= NN - 1 /\ NN \in Int /\ G = PN * NN
    BY <2>1
  <2> HIDE DEF NN, N, PN, G
  <2>3. 0 <= PN * k /\ PN * k <= PN * (NN - 1) /\ PN * (NN - 1) = PN * NN - PN
    BY <2>1, <2>2
  <2>4. PN * k \in 0..(G - 1)
    BY <2>1, <2>2, <2>3
  <2>5. (PN * k) \div PN = k
    <3>1. PN * k = PN * k + 0 /\ 0 \in 0..(PN - 1)
      BY <2>1, <2>2
    <3> QED BY <2>1, <2>2, <3>1, Quotient
  <2> QED BY <2>4, <2>5 DEF G
<1>3. /\ DOMAIN files = {Name(k, from) : k \in Blocks}
      /\ \A name \in DOMAIN files, q \in 0..(PN - 1) :
           files[name][q] = grid[(CHOOSE k \in Blocks : Name(k, from) = name) * PN + q]
  BY DEF Grid!DumpGridToMultiFile
<1>4. ASSUME NEW i \in Cells
      PROVE  moved[i] = IF Name(i \div PN, to) \in DOMAIN files THEN files[Name(i \div PN, to)][i % PN] ELSE -1
  BY DEF Grid!LoadGridFromMultiFile
<1> HIDE DEF files, moved
<1>5. ASSUME NEW i \in Cells \ shared PROVE moved[i] = -1
  <2>1. ASSUME NEW k \in Blocks, Name(i \div PN, to) = Name(k, from) PROVE FALSE
    <3>1. PN * k \in Cells /\ (PN * k) \div PN = k
      BY <1>2
    <3>2. Name(i \div PN, to) = Name((PN * k) \div PN, from)
      BY <2>1, <3>1
    <3> HIDE DEF Cells, Name, PN
    <3> QED BY <1>5, <3>1, <3>2
  <2> HIDE DEF Name, PN, Cells, shared, Blocks
  <2> QED BY <1>3, <1>4, <1>5, <2>1
<1>6. ASSUME NEW i \in shared, g.lengths = "exact"
      PROVE  Grid!RobotRelaCoor2GridIndex(g, Grid!GridIndex2RobotRelaCoor(g, i, yaw, In(to)), yaw, In(from))
               = {moved[i]}
  <2>1. PICK j \in Cells : Name(i \div PN, to) = Name(j \div PN, from)
    OBVIOUS
  <2> DEFINE bi == i \div PN
             bj == j \div PN
             q == i % PN
  <2>2. /\ i \in Cells /\ N \in Positive /\ PN \in Positive /\ bj \in Blocks /\ bi \in Blocks /\ q \in 0..(PN - 1)
        /\ bi \div N \in Int /\ bi % N \in Int /\ bj \div N \in Int /\ bj % N \in Int
        /\ bj = N * (bj \div N) + (bj % N)
    BY <1>1
  <2>3. bi \div N + to.x = bj \div N + from.x /\ (bi % N) + to.y = (bj % N) + from.y
    BY <2>1 DEF Grid!BlockName
  <2> HIDE DEF bi, bj
  <2>4. (CHOOSE k \in Blocks : Name(k, from) = Name(bi, to)) = bj
    <3>1. \A k \in Blocks : Name(k, from) = Name(bi, to) => k = bj
      <4> SUFFICES ASSUME NEW k \in Blocks, Name(k, from) = Name(bj, from) PROVE k = bj
        BY <2>1 DEF bi, bj
      <4>1. k \in Int /\ bj \in Int
        BY <2>2
      <4> QED BY <2>2, <4>1, BlockNamesApart
    <3>2. Name(bj, from) = Name(bi, to)
      BY <2>1 DEF bi, bj
    <3> HIDE DEF Name, Blocks
    <3> QED BY <2>2, <3>1, <3>2
  <2>5. PN * bj + q \in Cells /\ bj * PN = PN * bj
    <3> DEFINE NN == N * N
               G == Grid!GridNum(g)
    <3>1. /\ PN \in Int /\ PN > 0 /\ NN \in Int /\ bj \in Int /\ 0 <= bj /\ bj <= NN - 1 /\ G = PN * NN
          /\ q \in Int /\ 0 <= q /\ q <= PN - 1
      BY <1>1, <2>2, SMTT(30) DEF Positive
    <3> HIDE DEF NN, PN, G, q
    <3>2. 0 <= PN * bj /\ PN * bj <= PN * (NN - 1) /\ PN * (NN - 1) = PN * NN - PN /\ PN * bj \in Int
      BY <3>1
    <3>3. PN * bj + q \in 0..(G - 1) /\ bj * PN = PN * bj
      BY <3>1, <3>2
    <3> QED BY <3>3 DEF G
  <2>6. moved[i] = bj * PN + q
    <3>1. Name(bi, to) \in DOMAIN files
      BY <1>3, <2>1, <2>2 DEF bi, bj
    <3>2. moved[i] = files[Name(bi, to)][q]
      BY <1>4, <2>2, <3>1 DEF bi
    <3>3. files[Name(bi, to)][q] = grid[bj * PN + q]
      <4> HIDE DEF Name, Blocks, PN, grid, q
      <4> QED BY <1>3, <2>2, <2>4, <3>1
    <3>4. grid[bj * PN + q] = bj * PN + q
      <4>1. bj * PN + q \in Cells
        BY <2>5
      <4> HIDE DEF Cells, PN, q
      <4> QED BY <4>1
    <3> HIDE DEF PN, q, Cells, Name, grid
    <3> QED BY <3>2, <3>3, <3>4
  <2>7. Grid!RobotRelaCoor2GridIndex(g, Grid!GridIndex2RobotRelaCoor(g, i, yaw, In(to)), yaw, In(from)) =
          {((bi \div N + (to.x - from.x)) * N + ((bi % N) + (to.y - from.y))) * PN + q}
    <3> DEFINE here == In(to)
               there == In(from)
               dx == to.x - from.x
               dy == to.y - from.y
    <3>1. at.x \in Int /\ at.y \in Int /\ from.x \in Int /\ from.y \in Int /\ to.x \in Int /\ to.y \in Int /\ g.block \in Int
      BY DEF Point, GridConfig, Positive
    <3>2. /\ here \in Point /\ there \in Point /\ dx \in Int /\ dy \in Int
          /\ there.x - here.x = dx * g.block /\ there.y - here.y = dy * g.block
      BY <3>1 DEF Point
    <3> HIDE DEF here, there, dx, dy
    <3>3. g.lengths = "exact" /\ i \in 0..(Grid!GridNum(g) - 1) /\ Grid!Regular(g)
      BY <1>6
    <3>4. Grid!RobotRelaCoor2GridIndex(g, Grid!GridIndex2RobotRelaCoor(g, i, yaw, here), yaw, there) =
            {MovedIndex(g, i, dx, dy)}
      BY <3>2, <3>3, CellExact
    <3>5. MovedIndex(g, i, dx, dy) = ((bi \div N + dx) * N + ((bi % N) + dy)) * PN + (i % PN)
      BY DEF MovedIndex, bi
    <3> QED BY <3>4, <3>5 DEF here, there, dx, dy
  <2>8. bi \div N + (to.x - from.x) = bj \div N /\ (bi % N) + (to.y - from.y) = bj % N
    <3>1. from.x \in Int /\ from.y \in Int /\ to.x \in Int /\ to.y \in Int
      BY DEF Point
    <3> HIDE DEF N
    <3> QED BY <2>2, <2>3, <3>1
  <2>9. (bj \div N) * N + (bj % N) = bj
    <3>1. N \in Int
      BY <2>2 DEF Positive
    <3> HIDE DEF N
    <3> QED BY <2>2, <3>1
  <2> HIDE DEF N, PN, q
  <2> QED BY <2>6, <2>7, <2>8, <2>9
<1> QED BY <1>5, <1>6

-----------------------------------------------------------------------------
(* Segments. *)

\* Signs of products of whole numbers.
LEMMA Signs ==
  /\ \A p, q \in Int : p * q \in Int
  /\ \A p \in Int : p * p >= 0 /\ (p # 0 => p * p > 0)
  /\ \A p, q \in Int : p > 0 /\ p * q <= 0 => q <= 0
  /\ \A p, q \in Int : p >= 0 /\ q <= 0 => p * q <= 0
  /\ \A p, q \in Int : p * q = 0 => p = 0 \/ q = 0
OBVIOUS

\* Between 0 and m, in either order.
Unit(num, m) == IF m > 0 THEN num \in 0..m ELSE num \in m..0
\* A product tells whether a number is between 0 and m.
LEMMA Straddles ==
  ASSUME NEW m \in Int, m # 0, NEW x \in Int
  PROVE  x * (x - m) <= 0 <=> Unit(x, m)
<1>1. CASE m > 0
  <2>1. CASE x < 0
    <3>1. x * (x - m) > 0
      BY <1>1, <2>1
    <3> QED BY <1>1, <2>1, <3>1 DEF Unit
  <2>2. CASE x > m
    <3>1. x * (x - m) > 0
      BY <1>1, <2>2
    <3> QED BY <1>1, <2>2, <3>1 DEF Unit
  <2>3. CASE x \in 0..m
    <3>1. x * (x - m) <= 0
      BY <1>1, <2>3
    <3> QED BY <1>1, <2>3, <3>1 DEF Unit
  <2> QED BY <1>1, <2>1, <2>2, <2>3
<1>2. CASE m < 0
  <2>1. CASE x > 0
    <3>1. x * (x - m) > 0
      BY <1>2, <2>1
    <3> QED BY <1>2, <2>1, <3>1 DEF Unit
  <2>2. CASE x < m
    <3>1. x * (x - m) > 0
      BY <1>2, <2>2
    <3> QED BY <1>2, <2>2, <3>1 DEF Unit
  <2>3. CASE x \in m..0
    <3>1. x * (x - m) <= 0
      BY <1>2, <2>3
    <3> QED BY <1>2, <2>3, <3>1 DEF Unit
  <2> QED BY <1>2, <2>1, <2>2, <2>3
<1> QED BY <1>1, <1>2

\* The intervals from p to q and from r to s overlap.
Overlap(p, q, r, s) ==
  /\ p >= r \/ p >= s \/ q >= r \/ q >= s
  /\ r >= p \/ r >= q \/ s >= p \/ s >= q

\* The bounding boxes' comparisons are those of the intervals' ends.
LEMMA MaxMinOverlap ==
  ASSUME NEW p \in Int, NEW q \in Int, NEW r \in Int, NEW s \in Int
  PROVE  (Line!Max({p, q}) >= Line!Min({r, s}) /\ Line!Max({r, s}) >= Line!Min({p, q})) <=> Overlap(p, q, r, s)
<1>1. \A v, w \in Int : /\ Line!Max({v, w}) = IF v >= w THEN v ELSE w
                        /\ Line!Min({v, w}) = IF v <= w THEN v ELSE w
  BY DEF Line!Max, Line!Min
<1> QED BY <1>1 DEF Overlap

\* One end of one interval is in the other one.
Inside(p, q, r) == (p - q) * (p - r) <= 0
\* A number is between two others if and only if it is in their interval.
LEMMA InsideInterval ==
  ASSUME NEW p \in Int, NEW q \in Int, NEW r \in Int
  PROVE  Inside(p, q, r) <=> (q <= p /\ p <= r) \/ (r <= p /\ p <= q)
<1>1. CASE p < q /\ p < r
  BY <1>1 DEF Inside
<1>2. CASE p > q /\ p > r
  BY <1>2 DEF Inside
<1>3. CASE q <= p /\ p <= r
  BY <1>3 DEF Inside
<1>4. CASE r <= p /\ p <= q
  BY <1>4 DEF Inside
<1> QED BY <1>1, <1>2, <1>3, <1>4

\* Two intervals overlap if one has an end in the other one.
LEMMA OverlapInside ==
  ASSUME NEW p \in Int, NEW q \in Int, NEW r \in Int, NEW s \in Int
  PROVE  Overlap(p, q, r, s) <=> Inside(p, r, s) \/ Inside(q, r, s) \/ Inside(r, p, q) \/ Inside(s, p, q)
BY InsideInterval DEF Overlap

\* Two points that part n of m on the way from p to q, and part k of m on the
\* way from r to s, are the same: so the intervals overlap.
LEMMA CrossingOverlaps ==
  ASSUME NEW p \in Int, NEW q \in Int, NEW r \in Int, NEW s \in Int,
         NEW m \in Int, m # 0, NEW n \in Int, Unit(n, m), NEW k \in Int, Unit(k, m),
         n * (q - p) - k * (s - r) = m * (r - p)
  PROVE  Overlap(p, q, r, s)
<1>1. ASSUME NEW M \in Int, NEW i \in Int, NEW j \in Int, M > 0, 0 <= i, i <= M, 0 <= j, j <= M,
             i * (q - p) - j * (s - r) = M * (r - p)
      PROVE  Overlap(p, q, r, s)
  <2>1. (M - i) * p + i * q = (M - j) * r + j * s
    <3>1. /\ (M - i) * p + i * q = M * p + i * (q - p)
          /\ (M - j) * r + j * s = M * r + j * (s - r)
          /\ M * (r - p) = M * r - M * p
      BY <1>1
    <3> QED BY <1>1, <3>1
  <2>2. ASSUME NEW v \in Int, NEW w \in Int, NEW h \in Int, 0 <= h, h <= M, NEW z \in Int, v < z, w < z
        PROVE  (M - h) * v + h * w < M * z
    <3>1. (M - h) * (z - v) >= 0 /\ h * (z - w) >= 0 /\ ((M - h) > 0 => (M - h) * (z - v) > 0) /\ (h > 0 => h * (z - w) > 0)
      BY <1>1, <2>2
    <3>2. (M - h) * (z - v) + h * (z - w) > 0
      BY <1>1, <2>2, <3>1
    <3>3. (M - h) * (z - v) + h * (z - w) = M * z - ((M - h) * v + h * w)
      BY <1>1, <2>2
    <3> QED BY <1>1, <2>2, <3>2, <3>3
  <2>3. ASSUME NEW v \in Int, NEW w \in Int, NEW h \in Int, 0 <= h, h <= M, NEW z \in Int, v >= z, w >= z
        PROVE  (M - h) * v + h * w >= M * z
    <3>1. (M - h) * (v - z) >= 0 /\ h * (w - z) >= 0
      BY <1>1, <2>3
    <3>2. (M - h) * (v - z) + h * (w - z) = ((M - h) * v + h * w) - M * z
      BY <1>1, <2>3
    <3> QED BY <1>1, <2>3, <3>1, <3>2
  <2>4. ASSUME p < r, p < s, q < r, q < s PROVE FALSE
    <3> DEFINE z == IF r <= s THEN r ELSE s
    <3>1. z \in Int /\ r >= z /\ s >= z /\ p < z /\ q < z
      BY <2>4
    <3> HIDE DEF z
    <3>2. (M - i) * p + i * q < M * z /\ (M - j) * r + j * s >= M * z
      BY <1>1, <2>2, <2>3, <3>1
    <3> QED BY <1>1, <2>1, <3>1, <3>2
  <2>5. ASSUME r < p, r < q, s < p, s < q PROVE FALSE
    <3> DEFINE z == IF p <= q THEN p ELSE q
    <3>1. z \in Int /\ p >= z /\ q >= z /\ r < z /\ s < z
      BY <2>5
    <3> HIDE DEF z
    <3>2. (M - j) * r + j * s < M * z /\ (M - i) * p + i * q >= M * z
      BY <1>1, <2>2, <2>3, <3>1
    <3> QED BY <1>1, <2>1, <3>1, <3>2
  <2> QED BY <2>4, <2>5 DEF Overlap
<1>2. CASE m > 0
  <2>1. 0 <= n /\ n <= m /\ 0 <= k /\ k <= m
    BY <1>2 DEF Unit
  <2> QED BY <1>1, <1>2, <2>1
<1>3. CASE m < 0
  <2> DEFINE M == - m
             i == - n
             j == - k
  <2>1. M \in Int /\ M > 0 /\ i \in Int /\ j \in Int /\ 0 <= i /\ i <= M /\ 0 <= j /\ j <= M
    BY <1>3 DEF Unit
  <2>2. i * (q - p) - j * (s - r) = M * (r - p)
    OBVIOUS
  <2> HIDE DEF M, i, j
  <2> QED BY <1>1, <2>1, <2>2
<1> QED BY <1>2, <1>3

\* The sign of one coordinate's product decides the one of the other.
LEMMA SameSide ==
  ASSUME NEW ux \in Int, NEW uy \in Int, NEW wx \in Int, NEW wy \in Int, ux # 0, ux * wy = uy * wx
  PROVE  /\ wx * (wx - ux) <= 0 => wy * (wy - uy) <= 0
         /\ wx * (wx - ux) > 0 => wy * (wy - uy) >= 0
<1> DEFINE X == wx * (wx - ux)
           Y == wy * (wy - uy)
           U == ux * ux
           V == uy * uy
<1>1. X \in Int /\ Y \in Int /\ U \in Int /\ V \in Int /\ U > 0 /\ V >= 0
  BY Signs
<1>2. U * Y = V * X
  <2>1. U * Y = (ux * wy) * (ux * wy - ux * uy)
    OBVIOUS
  <2>2. V * X = (uy * wx) * (uy * wx - ux * uy)
    OBVIOUS
  <2> QED BY <2>1, <2>2
<1> HIDE DEF X, Y, U, V
<1>3. X <= 0 => Y <= 0
  <2>1. ASSUME X <= 0, Y > 0 PROVE FALSE
    <3>1. V * X <= 0 /\ U * Y > 0
      BY <1>1, <2>1
    <3> QED BY <1>1, <1>2, <3>1
  <2> QED BY <1>1, <2>1
<1>4. X > 0 => Y >= 0
  <2>1. ASSUME X > 0, Y < 0 PROVE FALSE
    <3>1. V * X >= 0 /\ U * Y < 0
      BY <1>1, <2>1
    <3> QED BY <1>1, <1>2, <3>1
  <2> QED BY <1>1, <2>1
<1> QED BY <1>3, <1>4 DEF X, Y

\* p on the line of r and s is between them if both its coordinates are.
LEMMA OnSegment ==
  ASSUME NEW ux \in Int, NEW uy \in Int, NEW wx \in Int, NEW wy \in Int, ux # 0 \/ uy # 0, ux * wy = uy * wx
  PROVE  wx * (wx - ux) + wy * (wy - uy) <= 0 <=> wx * (wx - ux) <= 0 /\ wy * (wy - uy) <= 0
<1> DEFINE X == wx * (wx - ux)
           Y == wy * (wy - uy)
<1>1. X \in Int /\ Y \in Int
  OBVIOUS
<1>2. CASE ux # 0
  <2>1. (X <= 0 => Y <= 0) /\ (X > 0 => Y >= 0)
    BY <1>2, SameSide
  <2> HIDE DEF X, Y
  <2>2. X + Y <= 0 <=> X <= 0 /\ Y <= 0
    BY <1>1, <2>1
  <2> QED BY <2>2 DEF X, Y
<1>3. CASE uy # 0
  <2>1. (Y <= 0 => X <= 0) /\ (Y > 0 => X >= 0)
    BY <1>3, SameSide
  <2> HIDE DEF X, Y
  <2>2. X + Y <= 0 <=> X <= 0 /\ Y <= 0
    BY <1>1, <2>1
  <2> QED BY <2>2 DEF X, Y
<1> QED BY <1>2, <1>3

\* Between, coordinate by coordinate.
LEMMA BetweenParts ==
  ASSUME NEW p \in Point, NEW r \in Point, NEW s \in Point, r # s
  PROVE  Line!Between(p, r, s) <=> /\ (s.x - r.x) * (p.y - r.y) = (s.y - r.y) * (p.x - r.x)
                                   /\ Inside(p.x, r.x, s.x) /\ Inside(p.y, r.y, s.y)
<1> DEFINE ux == s.x - r.x
           uy == s.y - r.y
           wx == p.x - r.x
           wy == p.y - r.y
<1>1. /\ ux \in Int /\ uy \in Int /\ wx \in Int /\ wy \in Int
      /\ ux # 0 \/ uy # 0
      /\ p.x - s.x = wx - ux /\ p.y - s.y = wy - uy
  BY DEF Point
<1>2. Line!Between(p, r, s) <=> ux * wy - uy * wx = 0 /\ wx * (p.x - s.x) + wy * (p.y - s.y) <= 0
  BY DEF Line!Between, Line!Minus, Line!Cross, Line!Dot
<1>3. Inside(p.x, r.x, s.x) /\ Inside(p.y, r.y, s.y) <=> wx * (p.x - s.x) <= 0 /\ wy * (p.y - s.y) <= 0
  BY DEF Inside
<1> HIDE DEF ux, uy, wx, wy
<1>4. ux * wy - uy * wx = 0 <=> ux * wy = uy * wx
  BY <1>1
<1>5. ux * wy = uy * wx => (wx * (wx - ux) + wy * (wy - uy) <= 0 <=> wx * (wx - ux) <= 0 /\ wy * (wy - uy) <= 0)
  BY <1>1, OnSegment
<1> QED BY <1>1, <1>2, <1>3, <1>4, <1>5 DEF ux, uy, wx, wy

\* <<p, t>> is on the line of <<r, v>> and <<s, w>>.
Along(p, t, r, v, s, w) == (s - r) * (t - v) = (w - v) * (p - r)

\* Of <<p, t>> <<q, u>> and <<r, v>> <<s, w>>, one end is in the other one.
EndInside(p, q, r, s, t, u, v, w) ==
  \/ Inside(p, r, s) /\ Inside(t, v, w)
  \/ Inside(q, r, s) /\ Inside(u, v, w)
  \/ Inside(r, p, q) /\ Inside(v, t, u)
  \/ Inside(s, p, q) /\ Inside(w, t, u)

\* Where both have length in the first coordinate: two segments of one line
\* overlap in both coordinates if an end of one is in the other one.
LEMMA OneLineOverlap ==
  ASSUME NEW p \in Int, NEW q \in Int, NEW r \in Int, NEW s \in Int, p # q, r # s,
         NEW t \in Int, NEW u \in Int, NEW v \in Int, NEW w \in Int,
         Along(p, t, r, v, s, w), Along(q, u, r, v, s, w), Along(r, v, p, t, q, u), Along(s, w, p, t, q, u)
  PROVE  Overlap(p, q, r, s) /\ Overlap(t, u, v, w) <=> EndInside(p, q, r, s, t, u, v, w)
<1>1. ASSUME NEW i \in Int, NEW j \in Int, NEW k \in Int, NEW l \in Int, NEW m \in Int, NEW n \in Int,
             k # j, Along(i, l, j, m, k, n), Inside(i, j, k)
      PROVE  Inside(l, m, n)
  <2> DEFINE ux == k - j
             uy == n - m
             wx == i - j
             wy == l - m
  <2>1. ux \in Int /\ uy \in Int /\ wx \in Int /\ wy \in Int /\ ux # 0 /\ ux * wy = uy * wx
    BY <1>1 DEF Along
  <2>2. i - k = wx - ux /\ l - n = wy - uy
    OBVIOUS
  <2>3. wx * (wx - ux) <= 0
    BY <1>1, <2>2 DEF Inside
  <2>4. wy * (wy - uy) <= 0
    <3> HIDE DEF ux, uy, wx, wy
    <3> QED BY <2>1, <2>3, SameSide
  <2> QED BY <2>2, <2>4 DEF Inside
<1>2. r # s /\ s # r /\ p # q /\ q # p
  OBVIOUS
<1>3. /\ Inside(p, r, s) => Inside(t, v, w)
      /\ Inside(q, r, s) => Inside(u, v, w)
      /\ Inside(r, p, q) => Inside(v, t, u)
      /\ Inside(s, p, q) => Inside(w, t, u)
  <2>1. Inside(p, r, s) => Inside(t, v, w)
    BY <1>1, <1>2, SMTT(30)
  <2>2. Inside(q, r, s) => Inside(u, v, w)
    BY <1>1, <1>2, SMTT(30)
  <2>3. Inside(r, p, q) => Inside(v, t, u)
    BY <1>1, <1>2, SMTT(30)
  <2>4. Inside(s, p, q) => Inside(w, t, u)
    BY <1>1, <1>2, SMTT(30)
  <2> QED BY <2>1, <2>2, <2>3, <2>4
<1> QED BY <1>3, OverlapInside DEF EndInside

\* The part j of m of the way u leads to w, and is a part of it.
LEMMA PartOfWay ==
  ASSUME NEW m \in Int, m # 0, NEW j \in Int, j * (j - m) <= 0, NEW u \in Int, NEW w \in Int, m * w = j * u
  PROVE  w * (w - u) <= 0
<1> DEFINE X == w * (w - u)
           M == m * m
           J == j * (j - m)
           U == u * u
<1>1. X \in Int /\ M \in Int /\ J \in Int /\ U \in Int /\ M > 0 /\ U >= 0 /\ J <= 0
  BY Signs
<1>2. M * X = J * U
  <2>1. M * X = (m * w) * (m * w - m * u)
    OBVIOUS
  <2>2. J * U = (j * u) * (j * u - m * u)
    OBVIOUS
  <2> QED BY <2>1, <2>2
<1> HIDE DEF X, M, J, U
<1>3. J * U <= 0
  BY <1>1
<1>4. X <= 0
  BY <1>1, <1>2, <1>3, Signs
<1> QED BY <1>4 DEF X

\* The way of one segment, of the other one, and from the one's start to the
\* other's: their cross products, and that both ways lead to one point.
LEMMA Crossings ==
  ASSUME NEW ex \in Int, NEW ey \in Int, NEW fx \in Int, NEW fy \in Int, NEW gx \in Int, NEW gy \in Int,
         NEW m, m = ex * fy - ey * fx, NEW n, n = gx * fy - gy * fx, NEW k, k = gx * ey - gy * ex
  PROVE  /\ m \in Int /\ n \in Int /\ k \in Int
         /\ n * ex - k * fx = m * gx
         /\ n * ey - k * fy = m * gy
<1>1. m \in Int /\ n \in Int /\ k \in Int
  OBVIOUS
<1>2. n * ex - k * fx = m * gx
  OBVIOUS
<1>3. n * ey - k * fy = m * gy
  OBVIOUS
<1> QED BY <1>1, <1>2, <1>3

\* The cross product of two differences, by coordinates.
LEMMA Crossed ==
  ASSUME NEW p \in Point, NEW q \in Point, NEW r \in Point, NEW s \in Point
  PROVE  Line!Cross(Line!Minus(p, q), Line!Minus(r, s)) = (p.x - q.x) * (r.y - s.y) - (p.y - q.y) * (r.x - s.x)
BY DEF Line!Cross, Line!Minus

\* is_intersect by the three cross products.
LEMMA Sides ==
  ASSUME NEW a \in Point, NEW b \in Point, NEW c \in Point, NEW d \in Point,
         NEW m, m = Line!Cross(Line!Minus(b, a), Line!Minus(d, c)),
         NEW n, n = Line!Cross(Line!Minus(c, a), Line!Minus(d, c)),
         NEW k, k = Line!Cross(Line!Minus(c, a), Line!Minus(b, a))
  PROVE  Line!is_intersect(a, b, c, d) <=>
           /\ Overlap(a.x, b.x, c.x, d.x) /\ Overlap(a.y, b.y, c.y, d.y)
           /\ k * (k - m) <= 0 /\ n * (n - m) <= 0
<1> DEFINE Side(p, q, r) == Line!Cross(Line!Minus(p, q), Line!Minus(r, q))
           sac == Side(a, b, c)
           sad == Side(a, b, d)
           sca == Side(c, d, a)
           scb == Side(c, d, b)
<1>0. /\ a.x \in Int /\ a.y \in Int /\ b.x \in Int /\ b.y \in Int
      /\ c.x \in Int /\ c.y \in Int /\ d.x \in Int /\ d.y \in Int
  BY DEF Point
<1>1. /\ m = (b.x - a.x) * (d.y - c.y) - (b.y - a.y) * (d.x - c.x)
      /\ n = (c.x - a.x) * (d.y - c.y) - (c.y - a.y) * (d.x - c.x)
      /\ k = (c.x - a.x) * (b.y - a.y) - (c.y - a.y) * (b.x - a.x)
  BY Crossed
<1>2. sac = k
  <2>1. sac = (a.x - b.x) * (c.y - b.y) - (a.y - b.y) * (c.x - b.x)
    BY Crossed
  <2> HIDE DEF sac
  <2> QED BY <1>0, <1>1, <2>1
<1>3. sad = k - m
  <2>1. sad = (a.x - b.x) * (d.y - b.y) - (a.y - b.y) * (d.x - b.x)
    BY Crossed
  <2> HIDE DEF sad
  <2> QED BY <1>0, <1>1, <2>1
<1>4. sca = - n
  <2>1. sca = (c.x - d.x) * (a.y - d.y) - (c.y - d.y) * (a.x - d.x)
    BY Crossed
  <2> HIDE DEF sca
  <2> QED BY <1>0, <1>1, <2>1
<1>5. scb = m - n
  <2>1. scb = (c.x - d.x) * (b.y - d.y) - (c.y - d.y) * (b.x - d.x)
    BY Crossed
  <2> HIDE DEF scb
  <2> QED BY <1>0, <1>1, <2>1
<1>6. Line!is_intersect(a, b, c, d) <=>
        /\ Line!Max({a.x, b.x}) >= Line!Min({c.x, d.x}) /\ Line!Max({c.x, d.x}) >= Line!Min({a.x, b.x})
        /\ Line!Max({a.y, b.y}) >= Line!Min({c.y, d.y}) /\ Line!Max({c.y, d.y}) >= Line!Min({a.y, b.y})
        /\ sac * sad <= 0 /\ sca * scb <= 0
  BY DEF Line!is_intersect
<1>7. m \in Int /\ n \in Int /\ k \in Int
  BY <1>0, <1>1
<1>8. sac * sad = k * (k - m) /\ sca * scb = n * (n - m)
  <2>1. (- n) * (m - n) = n * (n - m)
    BY <1>7
  <2> HIDE DEF sac, sad, sca, scb
  <2> QED BY <1>2, <1>3, <1>4, <1>5, <2>1
<1>9. /\ (Line!Max({a.x, b.x}) >= Line!Min({c.x, d.x}) /\ Line!Max({c.x, d.x}) >= Line!Min({a.x, b.x})) <=> Overlap(a.x, b.x, c.x, d.x)
      /\ (Line!Max({a.y, b.y}) >= Line!Min({c.y, d.y}) /\ Line!Max({c.y, d.y}) >= Line!Min({a.y, b.y})) <=> Overlap(a.y, b.y, c.y, d.y)
  BY <1>0, MaxMinOverlap
<1> HIDE DEF sac, sad, sca, scb
<1> QED BY <1>6, <1>8, <1>9

\* get_line_intersection by the three cross products.
LEMMA Quotients ==
  ASSUME NEW a \in Point, NEW b \in Point, NEW c \in Point, NEW d \in Point,
         NEW m, m = Line!Cross(Line!Minus(b, a), Line!Minus(d, c)),
         NEW n, n = Line!Cross(Line!Minus(c, a), Line!Minus(d, c)),
         NEW k, k = Line!Cross(Line!Minus(c, a), Line!Minus(b, a))
  PROVE  Line!get_line_intersection(a, b, c, d) <=>
           m # 0 /\ Unit(n, m) /\ Unit(k, m) /\ (m > 0 \/ (n # 0 /\ k # 0))
<1>0. /\ a.x \in Int /\ a.y \in Int /\ b.x \in Int /\ b.y \in Int
      /\ c.x \in Int /\ c.y \in Int /\ d.x \in Int /\ d.y \in Int
  BY DEF Point
<1> DEFINE first == Line!Cross(Line!Minus(b, a), Line!Minus(a, c))
           second == Line!Cross(Line!Minus(d, c), Line!Minus(a, c))
<1>1. /\ m = (b.x - a.x) * (d.y - c.y) - (b.y - a.y) * (d.x - c.x)
      /\ n = (c.x - a.x) * (d.y - c.y) - (c.y - a.y) * (d.x - c.x)
      /\ k = (c.x - a.x) * (b.y - a.y) - (c.y - a.y) * (b.x - a.x)
  BY Crossed
<1>2. first = k
  <2>1. first = (b.x - a.x) * (a.y - c.y) - (b.y - a.y) * (a.x - c.x)
    BY Crossed
  <2> HIDE DEF first
  <2> QED BY <1>0, <1>1, <2>1
<1>3. second = n
  <2>1. second = (d.x - c.x) * (a.y - c.y) - (d.y - c.y) * (a.x - c.x)
    BY Crossed
  <2> HIDE DEF second
  <2> QED BY <1>0, <1>1, <2>1
<1>4. Line!get_line_intersection(a, b, c, d) <=> m # 0 /\ ~ Line!Outside(first, m) /\ ~ Line!Outside(second, m)
  BY DEF Line!get_line_intersection
<1> HIDE DEF first, second
<1>5. m \in Int /\ n \in Int /\ k \in Int
  BY <1>0, <1>1
<1>6. ASSUME NEW x \in Int, m # 0
      PROVE  ~ Line!Outside(x, m) <=> Unit(x, m) /\ (m > 0 \/ x # 0)
  BY <1>5, <1>6 DEF Line!Outside, Line!Magnitude, Unit
<1> QED BY <1>2, <1>3, <1>4, <1>5, <1>6

\* Two points differ in a coordinate.
LEMMA Apart ==
  ASSUME NEW p \in Point, NEW q \in Point, p # q
  PROVE  q.x - p.x # 0 \/ q.y - p.y # 0
<1>1. p = [x |-> p.x, y |-> p.y] /\ q = [x |-> q.x, y |-> q.y]
  BY DEF Point
<1>2. p.x # q.x \/ p.y # q.y
  BY <1>1
<1>3. p.x \in Int /\ q.x \in Int /\ p.y \in Int /\ q.y \in Int
  BY DEF Point
<1> QED BY <1>2, <1>3

\* All three cross products 0: the segments are of one line.
LEMMA OneLine ==
  ASSUME NEW a \in Point, NEW b \in Point, NEW c \in Point, NEW d \in Point, a # b, c # d,
         (b.x - a.x) * (d.y - c.y) - (b.y - a.y) * (d.x - c.x) = 0,
         (c.x - a.x) * (d.y - c.y) - (c.y - a.y) * (d.x - c.x) = 0,
         (c.x - a.x) * (b.y - a.y) - (c.y - a.y) * (b.x - a.x) = 0
  PROVE  Overlap(a.x, b.x, c.x, d.x) /\ Overlap(a.y, b.y, c.y, d.y) <=>
           Line!Between(a, c, d) \/ Line!Between(b, c, d) \/ Line!Between(c, a, b) \/ Line!Between(d, a, b)
<1>0. /\ a.x \in Int /\ a.y \in Int /\ b.x \in Int /\ b.y \in Int
      /\ c.x \in Int /\ c.y \in Int /\ d.x \in Int /\ d.y \in Int
  BY DEF Point
<1> DEFINE ex == b.x - a.x
           ey == b.y - a.y
           fx == d.x - c.x
           fy == d.y - c.y
           gx == c.x - a.x
           gy == c.y - a.y
<1>1. /\ ex \in Int /\ ey \in Int /\ fx \in Int /\ fy \in Int /\ gx \in Int /\ gy \in Int
      /\ ex * fy = ey * fx /\ gx * fy = gy * fx /\ gx * ey = gy * ex
  <2>1. ex \in Int /\ ey \in Int /\ fx \in Int /\ fy \in Int /\ gx \in Int /\ gy \in Int
    BY <1>0
  <2>2. ex * fy - ey * fx = 0 /\ gx * fy - gy * fx = 0 /\ gx * ey - gy * ex = 0
    OBVIOUS
  <2> HIDE DEF ex, ey, fx, fy, gx, gy
  <2> QED BY <2>1, <2>2
<1>2. (ex # 0 \/ ey # 0) /\ (fx # 0 \/ fy # 0)
  BY Apart
<1>3. /\ a.x - c.x = - gx /\ a.y - c.y = - gy
      /\ c.x - a.x = gx /\ c.y - a.y = gy
      /\ b.x - c.x = ex - gx /\ b.y - c.y = ey - gy
      /\ d.x - a.x = gx + fx /\ d.y - a.y = gy + fy
  BY <1>0
<1>4. /\ fx * (a.y - c.y) = fy * (a.x - c.x) /\ fx * (b.y - c.y) = fy * (b.x - c.x)
      /\ ex * (c.y - a.y) = ey * (c.x - a.x) /\ ex * (d.y - a.y) = ey * (d.x - a.x)
  <2> HIDE DEF ex, ey, fx, fy, gx, gy
  <2>1. fx * (- gy) = fy * (- gx)
    BY <1>1
  <2>2. fx * (ey - gy) = fy * (ex - gx)
    BY <1>1
  <2>3. ex * gy = ey * gx
    BY <1>1
  <2>4. ex * (gy + fy) = ey * (gx + fx)
    BY <1>1
  <2> QED BY <1>3, <2>1, <2>2, <2>3, <2>4
<1>5. (ex # 0 /\ fx # 0) \/ (ey # 0 /\ fy # 0)
  <2>1. ASSUME ex # 0, fx = 0 PROVE FALSE
    <3>1. ex * fy = 0
      BY <1>1, <2>1
    <3> QED BY <1>1, <1>2, <2>1, <3>1, Signs
  <2>2. ASSUME ex = 0, fy = 0 PROVE FALSE
    <3>1. ey * fx = 0
      BY <1>1, <2>2
    <3> QED BY <1>1, <1>2, <2>2, <3>1, Signs
  <2> QED BY <1>2, <2>1, <2>2
<1>r. /\ Along(a.x, a.y, c.x, c.y, d.x, d.y) /\ Along(b.x, b.y, c.x, c.y, d.x, d.y)
      /\ Along(c.x, c.y, a.x, a.y, b.x, b.y) /\ Along(d.x, d.y, a.x, a.y, b.x, b.y)
      /\ Along(a.y, a.x, c.y, c.x, d.y, d.x) /\ Along(b.y, b.x, c.y, c.x, d.y, d.x)
      /\ Along(c.y, c.x, a.y, a.x, b.y, b.x) /\ Along(d.y, d.x, a.y, a.x, b.y, b.x)
  BY <1>4 DEF Along
<1>6. Overlap(a.x, b.x, c.x, d.x) /\ Overlap(a.y, b.y, c.y, d.y) <=>
        \/ Inside(a.x, c.x, d.x) /\ Inside(a.y, c.y, d.y)
        \/ Inside(b.x, c.x, d.x) /\ Inside(b.y, c.y, d.y)
        \/ Inside(c.x, a.x, b.x) /\ Inside(c.y, a.y, b.y)
        \/ Inside(d.x, a.x, b.x) /\ Inside(d.y, a.y, b.y)
  <2>1. CASE ex # 0 /\ fx # 0
    <3>1. a.x # b.x /\ c.x # d.x
      BY <1>0, <2>1
    <3>2. Overlap(a.x, b.x, c.x, d.x) /\ Overlap(a.y, b.y, c.y, d.y) <=>
            EndInside(a.x, b.x, c.x, d.x, a.y, b.y, c.y, d.y)
      BY <1>0, <1>r, <3>1, OneLineOverlap
    <3> QED BY <3>2 DEF EndInside
  <2>2. CASE ey # 0 /\ fy # 0
    <3>1. a.y # b.y /\ c.y # d.y
      BY <1>0, <2>2
    <3>2. Overlap(a.y, b.y, c.y, d.y) /\ Overlap(a.x, b.x, c.x, d.x) <=>
            EndInside(a.y, b.y, c.y, d.y, a.x, b.x, c.x, d.x)
      BY <1>0, <1>r, <3>1, OneLineOverlap
    <3> QED BY <3>2 DEF EndInside
  <2> QED BY <1>5, <2>1, <2>2
<1>7. /\ Line!Between(a, c, d) <=> Inside(a.x, c.x, d.x) /\ Inside(a.y, c.y, d.y)
      /\ Line!Between(b, c, d) <=> Inside(b.x, c.x, d.x) /\ Inside(b.y, c.y, d.y)
      /\ Line!Between(c, a, b) <=> Inside(c.x, a.x, b.x) /\ Inside(c.y, a.y, b.y)
      /\ Line!Between(d, a, b) <=> Inside(d.x, a.x, b.x) /\ Inside(d.y, a.y, b.y)
  BY <1>4, BetweenParts
<1> QED BY <1>6, <1>7

\* SegmentsMeet: both tests against the point the two lines have in common.
LEMMA SegmentsRight ==
  ASSUME NEW a \in Point, NEW b \in Point, NEW c \in Point, NEW d \in Point
  PROVE  Line!SegmentsMeet(a, b, c, d)
<1>0. /\ a.x \in Int /\ a.y \in Int /\ b.x \in Int /\ b.y \in Int
      /\ c.x \in Int /\ c.y \in Int /\ d.x \in Int /\ d.y \in Int
  BY DEF Point
<1> DEFINE ex == b.x - a.x
           ey == b.y - a.y
           fx == d.x - c.x
           fy == d.y - c.y
           gx == c.x - a.x
           gy == c.y - a.y
           m == Line!Cross(Line!Minus(b, a), Line!Minus(d, c))
           n == Line!Cross(Line!Minus(c, a), Line!Minus(d, c))
           k == Line!Cross(Line!Minus(c, a), Line!Minus(b, a))
           between == Line!Between(a, c, d) \/ Line!Between(b, c, d) \/ Line!Between(c, a, b) \/ Line!Between(d, a, b)
           overlap == Overlap(a.x, b.x, c.x, d.x) /\ Overlap(a.y, b.y, c.y, d.y)
<1>1. m = ex * fy - ey * fx /\ n = gx * fy - gy * fx /\ k = gx * ey - gy * ex
  BY Crossed
<1>2. /\ ex \in Int /\ ey \in Int /\ fx \in Int /\ fy \in Int /\ gx \in Int /\ gy \in Int
      /\ a # b => ex # 0 \/ ey # 0
      /\ c # d => fx # 0 \/ fy # 0
  BY <1>0, Apart
<1>3. /\ Line!Meet(a, b, c, d) <=> IF m # 0 THEN Unit(n, m) /\ Unit(k, m) ELSE between
      /\ Line!SegmentsMeet(a, b, c, d) <=>
           /\ a # b /\ c # d => (Line!is_intersect(a, b, c, d) <=> Line!Meet(a, b, c, d))
           /\ Line!get_line_intersection(a, b, c, d) => Line!Meet(a, b, c, d)
           /\ (m # 0 /\ ~ Line!Between(a, c, d) /\ ~ Line!Between(c, a, b))
                => (Line!Meet(a, b, c, d) => Line!get_line_intersection(a, b, c, d))
  BY DEF Line!SegmentsMeet, Line!Meet, Unit
<1>4. Line!is_intersect(a, b, c, d) <=> overlap /\ k * (k - m) <= 0 /\ n * (n - m) <= 0
  BY Sides
<1>5. Line!get_line_intersection(a, b, c, d) <=>
        m # 0 /\ Unit(n, m) /\ Unit(k, m) /\ (m > 0 \/ (n # 0 /\ k # 0))
  BY Quotients
<1>6. /\ Line!Between(a, c, d) <=> n = 0 /\ gx * (gx + fx) + gy * (gy + fy) <= 0
      /\ Line!Between(b, c, d) => m = n
      /\ Line!Between(c, a, b) <=> k = 0 /\ gx * (gx - ex) + gy * (gy - ey) <= 0
      /\ Line!Between(d, a, b) => m = k
  <2>1. /\ fx * (a.y - c.y) - fy * (a.x - c.x) = n
        /\ fx * (b.y - c.y) - fy * (b.x - c.x) = n - m
        /\ ex * (c.y - a.y) - ey * (c.x - a.x) = - k
        /\ ex * (d.y - a.y) - ey * (d.x - a.x) = m - k
    BY <1>0, <1>1
  <2>2. /\ Line!Between(a, c, d) <=> /\ fx * (a.y - c.y) - fy * (a.x - c.x) = 0
                                     /\ (a.x - c.x) * (a.x - d.x) + (a.y - c.y) * (a.y - d.y) <= 0
        /\ Line!Between(b, c, d) => fx * (b.y - c.y) - fy * (b.x - c.x) = 0
        /\ Line!Between(c, a, b) <=> /\ ex * (c.y - a.y) - ey * (c.x - a.x) = 0
                                     /\ (c.x - a.x) * (c.x - b.x) + (c.y - a.y) * (c.y - b.y) <= 0
        /\ Line!Between(d, a, b) => ex * (d.y - a.y) - ey * (d.x - a.x) = 0
    BY DEF Line!Between, Line!Minus, Line!Cross, Line!Dot
  <2>3. /\ (a.x - c.x) * (a.x - d.x) = gx * (gx + fx) /\ (a.y - c.y) * (a.y - d.y) = gy * (gy + fy)
        /\ (c.x - a.x) * (c.x - b.x) = gx * (gx - ex) /\ (c.y - a.y) * (c.y - b.y) = gy * (gy - ey)
    BY <1>0
  <2>4. m \in Int /\ n \in Int /\ k \in Int
    BY <1>1, <1>2
  <2> HIDE DEF ex, ey, fx, fy, gx, gy, m, n, k
  <2> QED BY <2>1, <2>2, <2>3, <2>4
<1>7. /\ m \in Int /\ n \in Int /\ k \in Int
      /\ n * ex - k * fx = m * gx
      /\ n * ey - k * fy = m * gy
  <2> HIDE DEF ex, ey, fx, fy, gx, gy, m, n, k
  <2> QED BY <1>1, <1>2, Crossings
<1>8. m = 0 /\ n = 0 /\ k = 0 /\ a # b /\ c # d => (overlap <=> between)
  BY <1>1, OneLine
<1>9. m # 0 /\ Unit(n, m) /\ Unit(k, m) => overlap
  <2>1. ASSUME m # 0, Unit(n, m), Unit(k, m) PROVE overlap
    <3> HIDE DEF m, n, k
    <3>1. Overlap(a.x, b.x, c.x, d.x)
      BY <1>0, <1>7, <2>1, CrossingOverlaps
    <3>2. Overlap(a.y, b.y, c.y, d.y)
      BY <1>0, <1>7, <2>1, CrossingOverlaps
    <3> QED BY <3>1, <3>2
  <2> QED BY <2>1
<1> HIDE DEF ex, ey, fx, fy, gx, gy, m, n, k, overlap, between
<1>10. ASSUME a # b, c # d
       PROVE  Line!is_intersect(a, b, c, d) <=> Line!Meet(a, b, c, d)
  <2>1. CASE m # 0
    <3>1. (k * (k - m) <= 0 <=> Unit(k, m)) /\ (n * (n - m) <= 0 <=> Unit(n, m))
      BY <1>7, <2>1, Straddles
    <3> QED BY <1>3, <1>4, <1>9, <2>1, <3>1
  <2>2. CASE m = 0
    <3>1. CASE k = 0
      <4>1. n * ex = 0 /\ n * ey = 0
        BY <1>2, <1>7, <2>2, <3>1
      <4>2. n = 0
        BY <1>2, <1>7, <1>10, <4>1, Signs
      <4>3. k * (k - m) <= 0 /\ n * (n - m) <= 0
        BY <2>2, <3>1, <4>2
      <4> QED BY <1>3, <1>4, <1>8, <1>10, <2>2, <3>1, <4>2, <4>3
    <3>2. CASE k # 0
      <4>1. n # 0
        <5>1. ASSUME n = 0 PROVE FALSE
          <6>1. k * fx = 0 /\ k * fy = 0
            BY <1>2, <1>7, <2>2, <5>1
          <6> QED BY <1>2, <1>7, <1>10, <3>2, <6>1, Signs
        <5> QED BY <5>1
      <4>2. ~ between
        BY <1>6, <2>2, <3>2, <4>1 DEF between
      <4>3. ~ (k * (k - m) <= 0)
        BY <1>7, <2>2, <3>2, Signs
      <4> QED BY <1>3, <1>4, <2>2, <4>2, <4>3
    <3> QED BY <3>1, <3>2
  <2> QED BY <2>1, <2>2
<1>11. ASSUME m # 0, Unit(n, m), Unit(k, m)
       PROVE  (n = 0 <=> Line!Between(a, c, d)) /\ (k = 0 <=> Line!Between(c, a, b))
  <2>0. k * (k - m) <= 0 /\ n * (n - m) <= 0
    BY <1>7, <1>11, Straddles
  <2>1. ASSUME n = 0 PROVE Line!Between(a, c, d)
    <3>1. m * (- gx) = k * fx /\ m * (- gy) = k * fy
      BY <1>2, <1>7, <2>1
    <3>2. (- gx) * ((- gx) - fx) <= 0 /\ (- gy) * ((- gy) - fy) <= 0
      BY <1>2, <1>7, <1>11, <2>0, <3>1, PartOfWay
    <3>3. (- gx) * ((- gx) - fx) = gx * (gx + fx) /\ (- gy) * ((- gy) - fy) = gy * (gy + fy)
      BY <1>2
    <3>4. gx * (gx + fx) \in Int /\ gy * (gy + fy) \in Int
      BY <1>2
    <3>5. gx * (gx + fx) + gy * (gy + fy) <= 0
      BY <3>2, <3>3, <3>4
    <3> QED BY <1>6, <2>1, <3>5
  <2>2. ASSUME k = 0 PROVE Line!Between(c, a, b)
    <3>1. m * gx = n * ex /\ m * gy = n * ey
      BY <1>2, <1>7, <2>2
    <3>2. gx * (gx - ex) <= 0 /\ gy * (gy - ey) <= 0
      BY <1>2, <1>7, <1>11, <2>0, <3>1, PartOfWay
    <3>3. gx * (gx - ex) \in Int /\ gy * (gy - ey) \in Int
      BY <1>2
    <3>4. gx * (gx - ex) + gy * (gy - ey) <= 0
      BY <3>2, <3>3
    <3> QED BY <1>6, <2>2, <3>4
  <2> QED BY <1>6, <2>1, <2>2
<1> QED BY <1>3, <1>5, <1>10, <1>11

-----------------------------------------------------------------------------
\* GeometryRight for every problem of the plane: any grid, place, heading,
\* segment and quadrangle whose numbers are computed exactly.
THEOREM GeometryForAll == problem \in PlaneProblem => GeometryRight
<1> SUFFICES ASSUME problem \in PlaneProblem
             PROVE  GeometryRight
  OBVIOUS
<1>1. /\ Is("grid") => problem \in GridProblem
      /\ Is("view") => problem \in ViewProblem
      /\ Is("meeting") => problem \in MeetingProblem
      /\ Is("showing") => problem \in ShowingProblem
      /\ Is("line") => problem \in LineProblem
      /\ Is("rectangle") => problem \in RectangleProblem
  <2>1. \A p \in GridProblem : p.kind = "grid"
    BY DEF GridProblem
  <2>2. \A p \in ViewProblem : p.kind = "view"
    BY DEF ViewProblem
  <2>3. \A p \in MeetingProblem : p.kind = "meeting"
    BY DEF MeetingProblem
  <2>4. \A p \in ShowingProblem : p.kind = "showing"
    BY DEF ShowingProblem
  <2>5. \A p \in LineProblem : p.kind = "line"
    BY DEF LineProblem
  <2>6. \A p \in RectangleProblem : p.kind = "rectangle"
    BY DEF RectangleProblem
  <2> QED BY <2>1, <2>2, <2>3, <2>4, <2>5, <2>6 DEF Is, PlaneProblem
<1>2. /\ Coordinate \subseteq Int /\ Length \subseteq Positive /\ Length \subseteq Nat
      /\ Place \subseteq Point /\ Pose \subseteq AnyPose /\ SegmentEnd \subseteq Point
  <2>1. Coordinate \subseteq Int /\ UpTo(76) \subseteq Int /\ Length \subseteq Positive /\ Length \subseteq Nat
    BY DEF Coordinate, UpTo, Length, Positive
  <2> QED BY <2>1 DEF Place, Pose, SegmentEnd, Point, AnyPose
<1>3. Is("grid") => /\ Grid!CellOfItsPoint(problem.g, problem.yaw, problem.at)
                    /\ Grid!GridKeptOnMove(problem.g, problem.yaw, problem.at, problem.from, problem.to)
  <2> SUFFICES ASSUME Is("grid")
               PROVE  /\ Grid!CellOfItsPoint(problem.g, problem.yaw, problem.at)
                      /\ Grid!GridKeptOnMove(problem.g, problem.yaw, problem.at, problem.from, problem.to)
    OBVIOUS
  <2>1. /\ problem.g \in [range : Length, block : Length, pixel : Length, vision : Length, side : Length, lengths : {"exact", "rounded"}]
        /\ problem.yaw \in Quarters /\ problem.at \in Place /\ problem.from \in Place /\ problem.to \in Place
    BY <1>1 DEF GridProblem
  <2>2. problem.g \in GridConfig
    BY <1>2, <2>1 DEF GridConfig
  <2>3. problem.at \in Point /\ problem.from \in Point /\ problem.to \in Point
    BY <1>2, <2>1
  <2> QED BY <2>1, <2>2, <2>3, CellOfItsPointRight, GridKeptRight
<1>4. Is("view") => Geometry!ViewCovered(problem.at, problem.range, problem.block)
  <2> SUFFICES ASSUME Is("view") PROVE Geometry!ViewCovered(problem.at, problem.range, problem.block)
    OBVIOUS
  <2>1. problem.at \in Place /\ problem.range \in Length /\ problem.block \in Length
    BY <1>1 DEF ViewProblem
  <2>2. problem.at \in Point /\ problem.range \in Nat /\ problem.block \in Positive
    BY <1>2, <2>1
  <2> QED BY <2>2, ViewRight
<1>5. Is("meeting") => Geometry!StartsNearby(problem.robot, problem.pose)
  <2> SUFFICES ASSUME Is("meeting") PROVE Geometry!StartsNearby(problem.robot, problem.pose)
    OBVIOUS
  <2>1. problem.robot \in Pose /\ problem.pose \in Pose
    BY <1>1 DEF MeetingProblem
  <2> QED BY <1>2, <2>1, MeetingRight
<1>6. Is("showing") => Geometry!ShownInPlace(problem.from, problem.to, problem.passed, problem.nsecs,
                                             problem.robot, problem.angle)
  <2> SUFFICES ASSUME Is("showing")
               PROVE  Geometry!ShownInPlace(problem.from, problem.to, problem.passed, problem.nsecs,
                                            problem.robot, problem.angle)
    OBVIOUS
  <2>1. /\ problem.from \in Place /\ problem.to \in Place /\ problem.passed \in Coordinate \cap Nat /\ problem.nsecs \in Length
        /\ problem.robot \in [x : Coordinate, y : Coordinate, yaw : Quarters] /\ problem.angle \in Quarters
    BY <1>1 DEF ShowingProblem
  <2>2. problem.robot \in [x : Int, y : Int, yaw : Quarters]
    BY <1>2, <2>1
  <2>3. problem.from \in Point /\ problem.to \in Point /\ problem.passed \in Nat /\ problem.nsecs \in Positive
    BY <1>2, <2>1
  <2> QED BY <2>1, <2>2, <2>3, ShowingRight
<1>7. Is("line") => Line!SegmentsMeet(problem.a, problem.b, problem.c, problem.d)
  <2> SUFFICES ASSUME Is("line") PROVE Line!SegmentsMeet(problem.a, problem.b, problem.c, problem.d)
    OBVIOUS
  <2>1. problem.a \in SegmentEnd /\ problem.b \in SegmentEnd /\ problem.c \in SegmentEnd /\ problem.d \in SegmentEnd
    BY <1>1 DEF LineProblem
  <2> QED BY <1>2, <2>1, SegmentsRight
<1>8. Is("rectangle") => Rect!RectangleByDiagonals(problem.r)
  <2> SUFFICES ASSUME Is("rectangle") PROVE Rect!RectangleByDiagonals(problem.r)
    OBVIOUS
  <2>1. problem.r \in [1..4 -> Place]
    BY <1>1 DEF RectangleProblem
  <2>2. problem.r \in [1..4 -> Point]
    BY <1>2, <2>1
  <2> QED BY <2>2, RectanglesRight
<1> QED BY <1>3, <1>4, <1>5, <1>6, <1>7, <1>8 DEF GeometryRight

-----------------------------------------------------------------------------
(* The route generator.  Its folds and FlattenSeq are taken step by step     *)
(* (FoldTheorems): first the records of the file, then the points of curves, *)
(* one task joined to the path, one task trimmed, and the whole walk.        *)
\* The folds of the route generator: the records, those that stand for a task.
OverEntries == INSTANCE FoldTheorems WITH Step <- Route!Entries
OverRecords == INSTANCE FoldTheorems WITH Step <- Route!PushRecord

\* Both results of OutputRoutePoints are folds.
LEMMA RouteFolds ==
  /\ \A tasks : Route!OutputRoutePoints(tasks) =
       OverEntries!Fold([index |-> 0, p2p_count |-> 0, data |-> <<>>], tasks).data
  /\ \A data : Route!Records(data) = OverRecords!Fold(<<>>, data)
<1>1. \A tasks : Route!OutputRoutePoints(tasks) =
       OverEntries!Fold([index |-> 0, p2p_count |-> 0, data |-> <<>>], tasks).data
  BY DEF Route!OutputRoutePoints, Route!FoldLeft, Route!MapThenFoldSet, Route!Max,
         OverEntries!Fold, OverEntries!FoldLeft, OverEntries!MapThenFoldSet, OverEntries!Max
<1>2. \A data : Route!Records(data) = OverRecords!Fold(<<>>, data)
  BY DEF Route!Records, Route!FoldLeft, Route!MapThenFoldSet, Route!Max,
         OverRecords!Fold, OverRecords!FoldLeft, OverRecords!MapThenFoldSet, OverRecords!Max
<1> QED BY <1>1, <1>2

\* What task k may leave in the file.
Plain(k) == [index |-> k - 1]
Typed(tasks, k) == [index |-> k - 1, type |-> tasks[k].type, points |-> Route!Points(tasks[k])]
FileEntry(tasks) == {Route!Null} \cup {Plain(k) : k \in DOMAIN tasks} \cup {Typed(tasks, k) : k \in DOMAIN tasks}

\* No record that stands for a task is the moved-from value.
LEMMA EntriesApart ==
  ASSUME NEW tasks \in Seq(Task), NEW k \in DOMAIN tasks
  PROVE  /\ Plain(k) # Route!Null /\ Plain(k).index = k - 1 /\ "points" \notin DOMAIN Plain(k)
         /\ Typed(tasks, k) # Route!Null /\ Typed(tasks, k).index = k - 1
         /\ "points" \in DOMAIN Typed(tasks, k) /\ Typed(tasks, k).points = Route!Points(tasks[k])
<1>1. k \in Nat /\ k > 0
  OBVIOUS
<1>2. Route!Null.index = -1
  BY DEF Route!Null
<1>3. Plain(k).index = k - 1 /\ Typed(tasks, k).index = k - 1 /\ k - 1 # -1
  BY <1>1 DEF Plain, Typed
<1>4. Plain(k) # Route!Null /\ Typed(tasks, k) # Route!Null
  BY <1>2, <1>3
<1>5. DOMAIN Plain(k) = {"index"} /\ DOMAIN Typed(tasks, k) = {"index", "type", "points"}
  BY DEF Plain, Typed
<1>6. Typed(tasks, k).points = Route!Points(tasks[k])
  BY DEF Typed
<1> QED BY <1>3, <1>4, <1>5, <1>6

\* After n tasks, the first h of them were left out.
RecordsOf(tasks, n, h, data, written) ==
  /\ data \in Seq(FileEntry(tasks)) /\ written \in Seq(FileEntry(tasks))
  /\ written = Route!Records(data) /\ Len(written) = n - h
  /\ \A j \in 1..(n - h) : /\ written[j].index = h + j - 1
                           /\ "points" \in DOMAIN written[j] => written[j].points = Route!Points(tasks[h + j])
  /\ \A j \in DOMAIN data : data[j] = Route!Null =>
        j > 1 /\ data[j - 1] # Route!Null /\ "points" \in DOMAIN data[j - 1]
Skipped(tasks, n, h) ==
  /\ h \in 0..n
  /\ \A k \in 1..h : tasks[k].type = "ASTAR"
  /\ h < n => tasks[h + 1].type # "ASTAR"
EntriesInv(tasks, n, r) ==
  /\ r = [index |-> n, p2p_count |-> r.p2p_count, data |-> r.data]
  /\ Skipped(tasks, n, r.p2p_count)
  /\ RecordsOf(tasks, n, r.p2p_count, r.data, Route!Records(r.data))

\* One more record of task n + 1.
LEMMA RecordPushed ==
  ASSUME NEW tasks \in Seq(Task), NEW n \in Nat, n + 1 \in DOMAIN tasks, NEW h \in 0..n, NEW data,
         RecordsOf(tasks, n, h, data, Route!Records(data)),
         NEW e \in {Plain(n + 1), Typed(tasks, n + 1)}
  PROVE  RecordsOf(tasks, n + 1, h, Append(data, e), Route!Records(Append(data, e)))
<1> DEFINE F == FileEntry(tasks)
           written == Route!Records(data)
           more == Route!Records(Append(data, e))
<1>1. e \in F /\ e # Route!Null /\ e.index = n
      /\ ("points" \in DOMAIN e => e.points = Route!Points(tasks[n + 1]))
  BY EntriesApart DEF FileEntry
<1>2. data \in Seq(F) /\ written \in Seq(F)
  BY DEF RecordsOf
<1>3. more = Append(written, e)
  <2>1. OverRecords!Fold(<<>>, Append(data, e)) = Route!PushRecord(OverRecords!Fold(<<>>, data), e)
    BY <1>1, <1>2, OverRecords!FoldAppend
  <2> QED BY <1>1, <2>1, RouteFolds DEF Route!PushRecord
<1> HIDE DEF F, written, more
<1>4. Len(written) = n - h
      /\ (\A j \in 1..(n - h) : /\ written[j].index = h + j - 1
                                /\ "points" \in DOMAIN written[j] => written[j].points = Route!Points(tasks[h + j]))
  BY DEF RecordsOf, written
<1>5. more \in Seq(F) /\ Len(more) = (n + 1) - h /\ more[(n + 1) - h] = e
      /\ (\A j \in 1..(n - h) : more[j] = written[j])
  <2>1. /\ Append(written, e) \in Seq(F) /\ Len(Append(written, e)) = Len(written) + 1
        /\ Append(written, e)[Len(written) + 1] = e
        /\ \A j \in 1..Len(written) : Append(written, e)[j] = written[j]
    BY <1>1, <1>2
  <2>2. Len(written) = n - h /\ (n - h) + 1 = (n + 1) - h
    BY <1>4
  <2> QED BY <1>3, <2>1, <2>2
<1>6. \A j \in 1..((n + 1) - h) : /\ more[j].index = h + j - 1
                                  /\ "points" \in DOMAIN more[j] => more[j].points = Route!Points(tasks[h + j])
  <2> TAKE j \in 1..((n + 1) - h)
  <2>1. CASE j = (n + 1) - h
    <3>1. h + j = n + 1 /\ more[j] = e
      BY <1>5, <2>1
    <3> QED BY <1>1, <3>1
  <2>2. CASE j # (n + 1) - h
    <3>1. j \in 1..(n - h)
      BY <2>2
    <3> QED BY <1>4, <1>5, <3>1
  <2> QED BY <2>1, <2>2
<1>7. /\ Append(data, e) \in Seq(F)
      /\ \A j \in DOMAIN Append(data, e) : Append(data, e)[j] = Route!Null =>
            j > 1 /\ Append(data, e)[j - 1] # Route!Null /\ "points" \in DOMAIN Append(data, e)[j - 1]
  <2>1. /\ Append(data, e) \in Seq(F) /\ DOMAIN Append(data, e) = 1..(Len(data) + 1) /\ Len(data) \in Nat
        /\ Append(data, e)[Len(data) + 1] = e
        /\ \A j \in 1..Len(data) : Append(data, e)[j] = data[j]
    BY <1>1, <1>2
  <2>2. \A j \in 1..Len(data) : data[j] = Route!Null =>
            j > 1 /\ data[j - 1] # Route!Null /\ "points" \in DOMAIN data[j - 1]
    BY <1>2 DEF RecordsOf
  <2>3. ASSUME NEW j \in 1..(Len(data) + 1), Append(data, e)[j] = Route!Null
        PROVE  j > 1 /\ Append(data, e)[j - 1] # Route!Null /\ "points" \in DOMAIN Append(data, e)[j - 1]
    <3>1. j \in 1..Len(data)
      BY <1>1, <2>1, <2>3
    <3>2. j > 1 /\ j - 1 \in 1..Len(data)
      BY <2>1, <2>2, <2>3, <3>1
    <3> QED BY <2>1, <2>2, <2>3, <3>1, <3>2
  <2> QED BY <2>1, <2>3
<1> QED BY <1>5, <1>6, <1>7 DEF RecordsOf, F, more

\* A null behind the record of a task with a type.
LEMMA NullPushed ==
  ASSUME NEW tasks \in Seq(Task), NEW n \in Nat, NEW h \in 0..n, NEW data,
         RecordsOf(tasks, n, h, data, Route!Records(data)),
         Len(data) > 0, data[Len(data)] # Route!Null, "points" \in DOMAIN data[Len(data)]
  PROVE  RecordsOf(tasks, n, h, Append(data, Route!Null), Route!Records(Append(data, Route!Null)))
<1> DEFINE F == FileEntry(tasks)
           more == Append(data, Route!Null)
<1>1. Route!Null \in F /\ data \in Seq(F)
  BY DEF FileEntry, RecordsOf
<1>2. Route!Records(more) = Route!Records(data)
  <2>1. OverRecords!Fold(<<>>, more) = Route!PushRecord(OverRecords!Fold(<<>>, data), Route!Null)
    BY <1>1, OverRecords!FoldAppend
  <2> QED BY <2>1, RouteFolds DEF Route!PushRecord
<1>3. /\ more \in Seq(F) /\ DOMAIN more = 1..(Len(data) + 1) /\ Len(data) \in Nat
      /\ more[Len(data) + 1] = Route!Null
      /\ \A j \in 1..Len(data) : more[j] = data[j]
  BY <1>1
<1>4. \A j \in DOMAIN more : more[j] = Route!Null =>
            j > 1 /\ more[j - 1] # Route!Null /\ "points" \in DOMAIN more[j - 1]
  <2> HIDE DEF more
  <2>2. \A j \in 1..Len(data) : data[j] = Route!Null =>
            j > 1 /\ data[j - 1] # Route!Null /\ "points" \in DOMAIN data[j - 1]
    <3>1. \A j \in DOMAIN data : data[j] = Route!Null =>
            j > 1 /\ data[j - 1] # Route!Null /\ "points" \in DOMAIN data[j - 1]
      BY DEF RecordsOf
    <3>2. DOMAIN data = 1..Len(data)
      BY <1>1
    <3> QED BY <3>1, <3>2
  <2>3. ASSUME NEW j \in 1..(Len(data) + 1), more[j] = Route!Null
        PROVE  j > 1 /\ more[j - 1] # Route!Null /\ "points" \in DOMAIN more[j - 1]
    <3>1. CASE j = Len(data) + 1
      <4>1. j > 1 /\ j - 1 = Len(data) /\ j - 1 \in 1..Len(data)
        BY <1>3, <3>1
      <4> QED BY <1>3, <4>1
    <3>2. CASE j # Len(data) + 1
      <4>1. j \in 1..Len(data)
        BY <1>3, <3>2
      <4>2. j > 1 /\ j - 1 \in 1..Len(data)
        BY <1>3, <2>2, <2>3, <4>1
      <4> QED BY <1>3, <2>2, <2>3, <4>1, <4>2
    <3> QED BY <3>1, <3>2
  <2> QED BY <1>3, <2>3
<1> HIDE DEF F, more
<1> QED BY <1>2, <1>3, <1>4 DEF RecordsOf, F, more

\* One round of the loop of OutputRoutePoints.
LEMMA EntriesStep ==
  ASSUME NEW tasks \in Seq(Task), NEW n \in Nat, n + 1 \in DOMAIN tasks, NEW r, EntriesInv(tasks, n, r)
  PROVE  EntriesInv(tasks, n + 1, Route!Entries(r, tasks[n + 1]))
<1> DEFINE t == tasks[n + 1]
           rec == [index |-> r.index, type |-> t.type, points |-> Route!Points(t)]
           next == [r EXCEPT !.index = @ + 1]
           after == Route!Entries(r, t)
<1>1. PICK h, data : /\ r = [index |-> n, p2p_count |-> h, data |-> data]
                     /\ Skipped(tasks, n, h)
                     /\ RecordsOf(tasks, n, h, data, Route!Records(data))
  BY DEF EntriesInv
<1>2. r.index = n /\ next = [index |-> n + 1, p2p_count |-> h, data |-> data] /\ h \in 0..n
  BY <1>1 DEF Skipped
<1>3. rec = Typed(tasks, n + 1) /\ [index |-> r.index] = Plain(n + 1)
  BY <1>2 DEF Typed, Plain
<1>4. Route!Leading(r, t) <=> t.type = "ASTAR" /\ n = h
  BY <1>2 DEF Route!Leading
<1>5. CASE Route!Leading(r, t)
  <2>1. after = [index |-> n + 1, p2p_count |-> h + 1, data |-> data]
    <3>1. after = [next EXCEPT !.p2p_count = @ + 1]
      BY <1>4, <1>5 DEF Route!Entries
    <3> QED BY <1>2, <3>1
  <2>2. Skipped(tasks, n + 1, h + 1)
    BY <1>1, <1>4, <1>5 DEF Skipped
  <2>3. RecordsOf(tasks, n + 1, h + 1, data, Route!Records(data))
    <3>1. n - h = 0 /\ (n + 1) - (h + 1) = 0
      BY <1>2, <1>4, <1>5
    <3> QED BY <1>1, <3>1 DEF RecordsOf
  <2> QED BY <2>1, <2>2, <2>3 DEF EntriesInv
<1>6. CASE ~ Route!Leading(r, t)
  <2>1. Skipped(tasks, n + 1, h)
    <3>1. h < n + 1 /\ tasks[h + 1].type # "ASTAR"
      <4>1. CASE n = h
        BY <1>2, <1>4, <1>6, <4>1
      <4>2. CASE n # h
        BY <1>1, <1>2, <4>2 DEF Skipped
      <4> QED BY <4>1, <4>2
    <3> QED BY <1>1, <1>2, <3>1 DEF Skipped
  <2>2. CASE t.type \in {"ASTAR", "STRUCTED_MAP"}
    <3>1. after = [next EXCEPT !.data = @ \o <<rec, Route!Null>>]
      BY <1>6, <2>2 DEF Route!Entries
    <3>2. data \in Seq(FileEntry(tasks)) /\ rec \in FileEntry(tasks) /\ Route!Null \in FileEntry(tasks)
      BY <1>1, <1>3 DEF RecordsOf, FileEntry
    <3>3. data \o <<rec, Route!Null>> = Append(Append(data, rec), Route!Null)
      <4> HIDE DEF rec
      <4> QED BY <3>2
    <3>4. after = [index |-> n + 1, p2p_count |-> h, data |-> Append(Append(data, rec), Route!Null)]
      BY <1>2, <3>1, <3>3
    <3>5. RecordsOf(tasks, n + 1, h, Append(data, rec), Route!Records(Append(data, rec)))
      BY <1>1, <1>2, <1>3, RecordPushed
    <3>6. /\ Len(Append(data, rec)) > 0
          /\ Append(data, rec)[Len(Append(data, rec))] = rec
      <4> HIDE DEF rec
      <4> QED BY <3>2
    <3>7. rec # Route!Null /\ "points" \in DOMAIN rec
      BY <1>3, EntriesApart
    <3>8. RecordsOf(tasks, n + 1, h, Append(Append(data, rec), Route!Null),
                    Route!Records(Append(Append(data, rec), Route!Null)))
      <4> DEFINE before == Append(data, rec)
                 m == n + 1
      <4>1. m \in Nat /\ h \in 0..m
        BY <1>2
      <4>2. RecordsOf(tasks, m, h, before, Route!Records(before)) /\ Len(before) > 0
            /\ before[Len(before)] # Route!Null /\ "points" \in DOMAIN before[Len(before)]
        BY <3>5, <3>6, <3>7
      <4> HIDE DEF before, m
      <4>3. RecordsOf(tasks, m, h, Append(before, Route!Null), Route!Records(Append(before, Route!Null)))
        BY <4>1, <4>2, NullPushed
      <4> QED BY <4>3 DEF before, m
    <3> HIDE DEF rec
    <3> QED BY <2>1, <3>4, <3>8 DEF EntriesInv
  <2>3. CASE t.type \notin {"ASTAR", "STRUCTED_MAP"}
    <3>1. after = [next EXCEPT !.data = Append(@, [index |-> r.index])]
      BY <1>6, <2>3 DEF Route!Entries
    <3>2. after = [index |-> n + 1, p2p_count |-> h, data |-> Append(data, Plain(n + 1))]
      BY <1>2, <1>3, <3>1
    <3>3. RecordsOf(tasks, n + 1, h, Append(data, Plain(n + 1)), Route!Records(Append(data, Plain(n + 1))))
      BY <1>1, <1>2, RecordPushed
    <3> QED BY <2>1, <3>2, <3>3 DEF EntriesInv
  <2> QED BY <2>2, <2>3
<1> QED BY <1>5, <1>6

\* The records of the file are those of the tasks, in their order.
LEMMA RecordsRight ==
  ASSUME NEW tasks \in Seq(Task)
  PROVE  Route!RecordsInOrder(tasks)
<1> DEFINE n == Len(tasks)
           base == [index |-> 0, p2p_count |-> 0, data |-> <<>>]
<1>1. n \in Nat /\ DOMAIN tasks = 1..n
  OBVIOUS
<1>2. PICK g : /\ g[0] = base /\ g[n] = OverEntries!Fold(base, tasks)
               /\ \A i \in 1..n : g[i] = Route!Entries(g[i - 1], tasks[i])
  <2> HIDE DEF base
  <2> QED BY OverEntries!FoldSteps
<1> DEFINE Good == {i \in Nat : i <= n => EntriesInv(tasks, i, g[i])}
<1>3. 0 \in Good
  <2>1. Route!Records(<<>>) = <<>>
    BY RouteFolds, OverRecords!FoldEmpty
  <2>2. RecordsOf(tasks, 0, 0, <<>>, Route!Records(<<>>))
    <3>1. <<>> \in Seq(FileEntry(tasks)) /\ Len(<<>>) = 0 /\ DOMAIN <<>> = {} /\ 1..(0 - 0) = {} /\ 0 - 0 = 0
      OBVIOUS
    <3> QED BY <2>1, <3>1 DEF RecordsOf
  <2>3. Skipped(tasks, 0, 0)
    BY DEF Skipped
  <2> QED BY <1>2, <2>2, <2>3 DEF EntriesInv
<1>4. ASSUME NEW i \in Good PROVE i + 1 \in Good
  <2> SUFFICES ASSUME i + 1 <= n PROVE EntriesInv(tasks, i + 1, g[i + 1])
    OBVIOUS
  <2>1. EntriesInv(tasks, i, g[i]) /\ i + 1 \in 1..n /\ (i + 1) - 1 = i
    BY <1>1
  <2>2. g[i + 1] = Route!Entries(g[i], tasks[i + 1])
    BY <1>2, <2>1
  <2> QED BY <1>1, <2>1, <2>2, EntriesStep
<1>5. n \in Good
  <2>1. Good \in SUBSET Nat
    OBVIOUS
  <2> HIDE DEF Good
  <2> QED BY <1>1, <1>3, <1>4, <2>1, OverEntries!SetInduction
<1>6. EntriesInv(tasks, n, g[n])
  BY <1>1, <1>5
<1> DEFINE data == Route!OutputRoutePoints(tasks)
           written == Route!Records(data)
           h == g[n].p2p_count
<1>7. Skipped(tasks, n, h) /\ RecordsOf(tasks, n, h, data, written)
  BY <1>2, <1>6, RouteFolds DEF EntriesInv
<1> HIDE DEF data, written, h
<1>8. h \in 0..n /\ Len(written) = n - h /\ n - Len(written) = h /\ DOMAIN written = 1..(n - h)
      /\ data \in Seq(FileEntry(tasks)) /\ written \in Seq(FileEntry(tasks))
  <2>1. h \in 0..n /\ Len(written) = n - h
    BY <1>7 DEF Skipped, RecordsOf
  <2>2. data \in Seq(FileEntry(tasks)) /\ written \in Seq(FileEntry(tasks))
    BY <1>7 DEF RecordsOf
  <2> QED BY <1>1, <2>1, <2>2
<1>9. /\ \A i \in 1..h : tasks[i].type = "ASTAR"
      /\ written # <<>> => tasks[h + 1].type # "ASTAR"
  <2>1. written # <<>> => h < n
    BY <1>1, <1>8
  <2> QED BY <1>7, <2>1 DEF Skipped
<1>10. /\ \A i \in DOMAIN written : /\ written[i].index = h + i - 1
           /\ "points" \in DOMAIN written[i] => written[i].points = Route!Points(tasks[h + i])
       /\ \A i \in DOMAIN data : data[i] = Route!Null =>
            data[i - 1] # Route!Null /\ "points" \in DOMAIN data[i - 1]
  BY <1>7, <1>8 DEF RecordsOf
<1> QED BY <1>8, <1>9, <1>10 DEF Route!RecordsInOrder, data, written

\* The points of curves, one after the other.
Behind(points, curve) == points \o curve
OverCurves == INSTANCE FoldTheorems WITH Step <- Behind

\* FlattenSeq is defined by a recursion of its own, which agrees with the fold.
LEMMA FlattenIsFold ==
  ASSUME NEW S, NEW curves \in Seq(Seq(S))
  PROVE  Route!FlattenSeq(curves) = OverCurves!Fold(<<>>, curves)
<1> DEFINE n == Len(curves)
           Solution(f) == f = [i \in 1..n |-> IF i = 1 THEN curves[i] ELSE f[i - 1] \o curves[i]]
           flatten == CHOOSE f : Solution(f)
<1>1. n \in Nat
  OBVIOUS
<1>2. PICK g : /\ g[0] = <<>> /\ g[n] = OverCurves!Fold(<<>>, curves)
               /\ \A i \in 1..n : g[i] = Behind(g[i - 1], curves[i])
  <2> DEFINE base == <<>>
  <2> HIDE DEF base
  <2>1. \E g : /\ g[0] = base /\ g[n] = OverCurves!Fold(base, curves)
               /\ \A i \in 1..n : g[i] = Behind(g[i - 1], curves[i])
    BY OverCurves!FoldSteps
  <2> QED BY <2>1 DEF base
<1>3. \A i \in 1..n : g[i] = IF i = 1 THEN curves[i] ELSE g[i - 1] \o curves[i]
  <2> TAKE i \in 1..n
  <2>1. g[i] = g[i - 1] \o curves[i]
    BY <1>2 DEF Behind
  <2>2. CASE i = 1
    <3>1. curves[i] \in Seq(S)
      OBVIOUS
    <3>2. <<>> \o curves[i] = curves[i]
      BY <3>1
    <3>3. i - 1 = 0
      BY <2>2
    <3> QED BY <1>2, <2>1, <2>2, <3>2, <3>3
  <2> QED BY <2>1, <2>2
<1>4. Solution(flatten)
  <2> DEFINE f == [i \in 1..n |-> g[i]]
  <2>1. \A i \in 1..n : f[i] = IF i = 1 THEN curves[i] ELSE f[i - 1] \o curves[i]
    <3> TAKE i \in 1..n
    <3>1. i = 1 \/ i - 1 \in 1..n
      BY <1>1
    <3> QED BY <1>3, <3>1
  <2>2. f = [i \in 1..n |-> f[i]]
    OBVIOUS
  <2> HIDE DEF f
  <2>3. Solution(f)
    BY <2>1, <2>2
  <2> HIDE DEF Solution
  <2> QED BY <2>3
<1>5. \A i \in 1..n : flatten[i] = IF i = 1 THEN curves[i] ELSE flatten[i - 1] \o curves[i]
  <2> HIDE DEF flatten
  <2> QED BY <1>4
<1>6. n > 0 => flatten[n] = g[n]
  <2> DEFINE Good == {k \in Nat : k + 1 <= n => flatten[k + 1] = g[k + 1]}
  <2> HIDE DEF flatten
  <2>1. 0 \in Good
    <3>1. 0 + 1 <= n => flatten[0 + 1] = g[0 + 1]
      <4> SUFFICES ASSUME 0 + 1 <= n PROVE flatten[1] = g[1]
        OBVIOUS
      <4>1. 1 \in 1..n
        BY <1>1
      <4> QED BY <1>3, <1>5, <4>1
    <3> QED BY <3>1
  <2>2. ASSUME NEW k \in Good PROVE k + 1 \in Good
    <3> SUFFICES ASSUME (k + 1) + 1 <= n PROVE flatten[(k + 1) + 1] = g[(k + 1) + 1]
      OBVIOUS
    <3> DEFINE i == (k + 1) + 1
    <3>1. i \in 1..n /\ i # 1 /\ i - 1 = k + 1 /\ k + 1 <= n
      BY <1>1
    <3>2. flatten[k + 1] = g[k + 1]
      BY <3>1
    <3> HIDE DEF i
    <3>3. flatten[i] = flatten[k + 1] \o curves[i] /\ g[i] = g[k + 1] \o curves[i]
      BY <1>3, <1>5, <3>1
    <3> QED BY <3>2, <3>3 DEF i
  <2>3. Good = Nat
    <3>1. Good \in SUBSET Nat
      OBVIOUS
    <3> HIDE DEF Good
    <3> QED BY <2>1, <2>2, <3>1, OverCurves!SetInduction
  <2>4. n > 0 => n - 1 \in Good /\ (n - 1) + 1 = n
    <3> HIDE DEF Good
    <3> QED BY <1>1, <2>3
  <2> QED BY <1>1, <2>4
<1>7. CASE n = 0
  <2>1. curves = <<>>
    BY <1>7
  <2> QED BY <1>2, <1>7, <2>1 DEF Route!FlattenSeq
<1>8. CASE n # 0
  <2>1. Route!FlattenSeq(curves) = flatten[n]
    BY <1>8 DEF Route!FlattenSeq
  <2> HIDE DEF flatten
  <2> QED BY <1>1, <1>2, <1>6, <1>8, <2>1
<1> QED BY <1>7, <1>8

\* One more curve comes behind the others.
LEMMA FlattenAppend ==
  ASSUME NEW S, NEW curves \in Seq(Seq(S)), NEW c \in Seq(S)
  PROVE  Route!FlattenSeq(Append(curves, c)) = Route!FlattenSeq(curves) \o c
<1>1. Append(curves, c) \in Seq(Seq(S))
  OBVIOUS
<1>2. OverCurves!Fold(<<>>, Append(curves, c)) = Behind(OverCurves!Fold(<<>>, curves), c)
  <2> DEFINE base == <<>>
  <2> HIDE DEF base
  <2>1. OverCurves!Fold(base, Append(curves, c)) = Behind(OverCurves!Fold(base, curves), c)
    BY OverCurves!FoldAppend
  <2> QED BY <2>1 DEF base
<1> QED BY <1>1, <1>2, FlattenIsFold DEF Behind

\* No curves have no points.
LEMMA FlattenEmpty == Route!FlattenSeq(<<>>) = <<>>
BY DEF Route!FlattenSeq

\* What is flattened is a sequence of the elements.
LEMMA FlattenTyped ==
  ASSUME NEW S, NEW curves \in Seq(Seq(S))
  PROVE  Route!FlattenSeq(curves) \in Seq(S)
<1> DEFINE Good == {k \in Nat : \A s \in Seq(Seq(S)) : Len(s) = k => Route!FlattenSeq(s) \in Seq(S)}
<1>1. 0 \in Good
  <2>1. \A s \in Seq(Seq(S)) : Len(s) = 0 => s = <<>>
    OBVIOUS
  <2>2. <<>> \in Seq(S)
    OBVIOUS
  <2> QED BY <2>1, <2>2, FlattenEmpty
<1>2. ASSUME NEW k \in Good PROVE k + 1 \in Good
  <2> SUFFICES ASSUME NEW s \in Seq(Seq(S)), Len(s) = k + 1 PROVE Route!FlattenSeq(s) \in Seq(S)
    OBVIOUS
  <2>1. PICK u \in Seq(Seq(S)), c \in Seq(S) : s = Append(u, c)
    <3>1. s # <<>>
      OBVIOUS
    <3> QED BY <3>1, SequenceEmptyOrAppend
  <2>2. Len(u) = k
    BY <2>1
  <2>3. Route!FlattenSeq(u) \in Seq(S)
    BY <2>2
  <2>4. Route!FlattenSeq(s) = Route!FlattenSeq(u) \o c
    BY <2>1, FlattenAppend
  <2> QED BY <2>3, <2>4
<1>3. Good = Nat
  <2>1. Good \in SUBSET Nat
    OBVIOUS
  <2> HIDE DEF Good
  <2> QED BY <1>1, <1>2, <2>1, OverCurves!SetInduction
<1>4. Len(curves) \in Good
  <2> HIDE DEF Good
  <2> QED BY <1>3
<1> QED BY <1>4

\* Sections of one lane.
Simple == [id : Int, lane_list : {<<c>> : c \in Lane}]
CurveOf(section) == section.lane_list[1]

\* A section of one lane is its curve.
LEMMA SimpleCurve ==
  ASSUME NEW x \in Simple
  PROVE  /\ CurveOf(x) \in Lane /\ CurveOf(x) \in Seq(Int) /\ CurveOf(x) # <<>>
         /\ x.lane_list = <<CurveOf(x)>> /\ Route!FlattenSeq(x.lane_list) = CurveOf(x)
<1>1. PICK c \in Lane : x.lane_list = <<c>>
  BY DEF Simple
<1>2. CurveOf(x) = c
  BY <1>1 DEF CurveOf
<1>3. c \in Seq(Int) /\ c # <<>>
  BY DEF Lane
<1>4. <<c>> = Append(<<>>, c) /\ <<>> \in Seq(Seq(Int)) /\ <<>> \o c = c
  BY <1>3
<1>5. Route!FlattenSeq(<<c>>) = Route!FlattenSeq(<<>>) \o c
  <2> DEFINE none == <<>>
  <2>1. none \in Seq(Seq(Int))
    BY <1>4
  <2> HIDE DEF none
  <2>2. Route!FlattenSeq(Append(none, c)) = Route!FlattenSeq(none) \o c
    BY <1>3, <2>1, FlattenAppend
  <2> QED BY <1>4, <2>2 DEF none
<1> QED BY <1>1, <1>2, <1>3, <1>4, <1>5, FlattenEmpty

\* The points of a section's curve come behind those of the sections before.
LEMMA PointsAppend ==
  ASSUME NEW s \in Seq(Simple), NEW x \in Simple
  PROVE  Route!SectionPoints(Append(s, x)) = Route!SectionPoints(s) \o CurveOf(x)
<1> DEFINE P(t) == [k \in DOMAIN t |-> Route!FlattenSeq(t[k].lane_list)]
<1>1. \A t \in Seq(Simple) : P(t) \in Seq(Seq(Int)) /\ Len(P(t)) = Len(t)
  <2> TAKE t \in Seq(Simple)
  <2>1. DOMAIN t = 1..Len(t) /\ Len(t) \in Nat
    OBVIOUS
  <2>2. \A k \in 1..Len(t) : Route!FlattenSeq(t[k].lane_list) \in Seq(Int)
    BY SimpleCurve
  <2>3. [k \in 1..Len(t) |-> Route!FlattenSeq(t[k].lane_list)] \in [1..Len(t) -> Seq(Int)]
    BY <2>2
  <2> QED BY <2>1, <2>3
<1>2. P(Append(s, x)) = Append(P(s), CurveOf(x))
  <2> DEFINE a == P(Append(s, x))
             b == Append(P(s), CurveOf(x))
  <2>1. Append(s, x) \in Seq(Simple) /\ Len(Append(s, x)) = Len(s) + 1 /\ Len(s) \in Nat
    OBVIOUS
  <2>2. a \in Seq(Seq(Int)) /\ Len(a) = Len(s) + 1
    BY <1>1, <2>1
  <2>3. P(s) \in Seq(Seq(Int)) /\ Len(P(s)) = Len(s)
    BY <1>1
  <2>4. CurveOf(x) \in Seq(Int)
    BY SimpleCurve
  <2>5. b \in Seq(Seq(Int)) /\ Len(b) = Len(s) + 1 /\ b[Len(s) + 1] = CurveOf(x)
        /\ (\A k \in 1..Len(s) : b[k] = P(s)[k])
    <3> HIDE DEF P
    <3> QED BY <2>1, <2>3, <2>4
  <2>6. \A k \in 1..(Len(s) + 1) : a[k] = b[k]
    <3> TAKE k \in 1..(Len(s) + 1)
    <3> HIDE DEF b
    <3>1. a[k] = Route!FlattenSeq(Append(s, x)[k].lane_list)
      BY <2>1
    <3>2. CASE k = Len(s) + 1
      <4>1. Append(s, x)[k] = x
        BY <3>2
      <4> QED BY <2>5, <3>1, <3>2, <4>1, SimpleCurve
    <3>3. CASE k # Len(s) + 1
      <4>1. k \in 1..Len(s) /\ DOMAIN s = 1..Len(s)
        BY <2>1, <3>3
      <4>2. Append(s, x)[k] = s[k]
        BY <4>1
      <4>3. P(s)[k] = Route!FlattenSeq(s[k].lane_list)
        BY <4>1
      <4> HIDE DEF a, P
      <4> QED BY <2>5, <3>1, <4>1, <4>2, <4>3
    <3> QED BY <3>2, <3>3
  <2> HIDE DEF a, b
  <2>7. a = b
    BY <2>2, <2>5, <2>6, SeqEqual
  <2> QED BY <2>7 DEF a, b
<1>3. Route!SectionPoints(Append(s, x)) = Route!FlattenSeq(P(Append(s, x))) /\ Route!SectionPoints(s) = Route!FlattenSeq(P(s))
  BY DEF Route!SectionPoints
<1>4. CurveOf(x) \in Seq(Int) /\ P(s) \in Seq(Seq(Int))
  BY <1>1, SimpleCurve
<1> HIDE DEF P
<1> QED BY <1>2, <1>3, <1>4, FlattenAppend

\* No sections have no points.
LEMMA PointsEmpty == Route!SectionPoints(<<>>) = <<>>
<1>1. [k \in DOMAIN <<>> |-> Route!FlattenSeq(<<>>[k].lane_list)] = <<>>
  OBVIOUS
<1> QED BY <1>1, FlattenEmpty DEF Route!SectionPoints

\* A sequence that is not empty has a last element.
LEMMA AppendInduction ==
  ASSUME NEW R, NEW Good \in SUBSET Seq(R), <<>> \in Good, \A s \in Good, x \in R : Append(s, x) \in Good
  PROVE  Good = Seq(R)
<1> DEFINE Lengths == {k \in Nat : \A s \in Seq(R) : Len(s) = k => s \in Good}
<1>1. 0 \in Lengths
  <2>1. \A s \in Seq(R) : Len(s) = 0 => s = <<>>
    OBVIOUS
  <2> QED BY <2>1
<1>2. ASSUME NEW k \in Lengths PROVE k + 1 \in Lengths
  <2> SUFFICES ASSUME NEW s \in Seq(R), Len(s) = k + 1 PROVE s \in Good
    OBVIOUS
  <2>1. PICK u \in Seq(R), x \in R : s = Append(u, x)
    <3>1. s # <<>>
      OBVIOUS
    <3> QED BY <3>1, SequenceEmptyOrAppend
  <2>2. Len(u) = k
    BY <2>1
  <2> QED BY <2>1, <2>2
<1>3. Lengths = Nat
  <2>1. Lengths \in SUBSET Nat
    OBVIOUS
  <2> HIDE DEF Lengths
  <2> QED BY <1>1, <1>2, <2>1, OverCurves!SetInduction
<1>4. ASSUME NEW s \in Seq(R) PROVE s \in Good
  <2>1. Len(s) \in Lengths
    <3> HIDE DEF Lengths
    <3> QED BY <1>3
  <2> QED BY <2>1
<1> QED BY <1>4

\* The points of sections are a sequence of points.
LEMMA PointsTyped == \A s \in Seq(Simple) : Route!SectionPoints(s) \in Seq(Int)
<1> DEFINE Good == {s \in Seq(Simple) : Route!SectionPoints(s) \in Seq(Int)}
<1>1. <<>> \in Good
  <2>1. <<>> \in Seq(Int) /\ <<>> \in Seq(Simple)
    OBVIOUS
  <2> QED BY <2>1, PointsEmpty
<1>2. ASSUME NEW s \in Good, NEW x \in Simple PROVE Append(s, x) \in Good
  <2>1. Route!SectionPoints(Append(s, x)) = Route!SectionPoints(s) \o CurveOf(x)
    BY PointsAppend
  <2>2. CurveOf(x) \in Seq(Int) /\ Route!SectionPoints(s) \in Seq(Int)
    BY SimpleCurve
  <2>3. Route!SectionPoints(s) \o CurveOf(x) \in Seq(Int) /\ Append(s, x) \in Seq(Simple)
    BY <2>2
  <2> QED BY <2>1, <2>3
<1>3. Good \in SUBSET Seq(Simple)
  OBVIOUS
<1>4. Good = Seq(Simple)
  <2> HIDE DEF Good
  <2> QED BY <1>1, <1>2, <1>3, AppendInduction
<1> QED BY <1>4

\* The points of some sections and others are those of both.
LEMMA PointsConcat ==
  ASSUME NEW s \in Seq(Simple), NEW t \in Seq(Simple)
  PROVE  Route!SectionPoints(s \o t) = Route!SectionPoints(s) \o Route!SectionPoints(t)
<1> DEFINE Good == {u \in Seq(Simple) : Route!SectionPoints(s \o u) = Route!SectionPoints(s) \o Route!SectionPoints(u)}
<1>1. <<>> \in Good
  <2>1. <<>> \in Seq(Simple) /\ s \o <<>> = s
    OBVIOUS
  <2>2. Route!SectionPoints(s) \o <<>> = Route!SectionPoints(s)
    BY PointsTyped
  <2> QED BY <2>1, <2>2, PointsEmpty
<1>2. ASSUME NEW u \in Good, NEW x \in Simple PROVE Append(u, x) \in Good
  <2>1. s \o Append(u, x) = Append(s \o u, x) /\ s \o u \in Seq(Simple)
    OBVIOUS
  <2>2. Route!SectionPoints(s \o Append(u, x)) = Route!SectionPoints(s \o u) \o CurveOf(x)
    BY <2>1, PointsAppend
  <2>3. Route!SectionPoints(Append(u, x)) = Route!SectionPoints(u) \o CurveOf(x)
    BY PointsAppend
  <2>4. Append(u, x) \in Seq(Simple) /\ u \in Seq(Simple)
    OBVIOUS
  <2>5. Route!SectionPoints(s) \in Seq(Int) /\ Route!SectionPoints(u) \in Seq(Int) /\ CurveOf(x) \in Seq(Int)
    BY <2>4, PointsTyped, SimpleCurve
  <2>6. (Route!SectionPoints(s) \o Route!SectionPoints(u)) \o CurveOf(x) = Route!SectionPoints(s) \o (Route!SectionPoints(u) \o CurveOf(x))
    <3> DEFINE a == Route!SectionPoints(s)
               b == Route!SectionPoints(u)
               c == CurveOf(x)
    <3>1. a \in Seq(Int) /\ b \in Seq(Int) /\ c \in Seq(Int)
      BY <2>5
    <3> HIDE DEF a, b, c
    <3>2. (a \o b) \o c = a \o (b \o c)
      BY <3>1, SMTT(30)
    <3> QED BY <3>2 DEF a, b, c
  <2>7. Route!SectionPoints(s \o u) = Route!SectionPoints(s) \o Route!SectionPoints(u)
    OBVIOUS
  <2>8. Route!SectionPoints(s \o Append(u, x)) = Route!SectionPoints(s) \o Route!SectionPoints(Append(u, x))
    BY <2>2, <2>3, <2>6, <2>7
  <2> QED BY <2>4, <2>8
<1>3. Good \in SUBSET Seq(Simple)
  OBVIOUS
<1>4. Good = Seq(Simple)
  <2> HIDE DEF Good
  <2> QED BY <1>1, <1>2, <1>3, AppendInduction
<1> QED BY <1>4

\* The points of one section are its curve.
LEMMA PointsOne ==
  ASSUME NEW x \in Simple
  PROVE  Route!SectionPoints(<<x>>) = CurveOf(x)
<1> DEFINE none == <<>>
<1>1. none \in Seq(Simple) /\ <<x>> = Append(none, x) /\ Route!SectionPoints(none) = <<>>
  BY PointsEmpty
<1>2. <<>> \o CurveOf(x) = CurveOf(x)
  BY SimpleCurve
<1> HIDE DEF none
<1> QED BY <1>1, <1>2, PointsAppend

OverSections == INSTANCE FoldTheorems WITH Step <- Route!PushSection

\* Points in a row, grouped as one likes.
Joined(a, b) == a \o b
\* Concatenation is associative.
LEMMA Regrouped ==
  \A a \in Seq(Int), b \in Seq(Int), c \in Seq(Int) :
    Joined(a, b) \in Seq(Int) /\ Joined(Joined(a, b), c) = Joined(a, Joined(b, c))
<1> SUFFICES ASSUME NEW a \in Seq(Int), NEW b \in Seq(Int), NEW c \in Seq(Int)
             PROVE  (a \o b) \in Seq(Int) /\ (a \o b) \o c = a \o (b \o c)
  BY DEF Joined
<1> QED BY SMTT(30)

\* All sections with a curve are pushed.
LEMMA PushedAll ==
  ASSUME NEW p \in Seq(Simple), NEW extra \in Seq(Simple)
  PROVE  OverSections!Fold(p, extra) = p \o extra
<1>0. \A s \in Seq(Simple), x \in Simple :
        Append(p \o s, x) = p \o Append(s, x) /\ Append(s, x) \in Seq(Simple)
  BY SMTT(30)
<1> DEFINE Good == {s \in Seq(Simple) : OverSections!Fold(p, s) = p \o s}
<1>1. <<>> \in Good
  <2>1. <<>> \in Seq(Simple) /\ p \o <<>> = p
    OBVIOUS
  <2> QED BY <2>1, OverSections!FoldEmpty
<1>2. ASSUME NEW s \in Good, NEW x \in Simple PROVE Append(s, x) \in Good
  <2>1. OverSections!Fold(p, Append(s, x)) = Route!PushSection(OverSections!Fold(p, s), x)
    BY OverSections!FoldAppend
  <2>2. Route!PushSection(OverSections!Fold(p, s), x) = Append(OverSections!Fold(p, s), x)
    BY SimpleCurve DEF Route!PushSection, CurveOf
  <2>3. OverSections!Fold(p, s) = p \o s /\ s \in Seq(Simple)
    OBVIOUS
  <2>4. Append(p \o s, x) = p \o Append(s, x) /\ Append(s, x) \in Seq(Simple)
    BY <1>0, <2>3
  <2> QED BY <2>1, <2>2, <2>3, <2>4
<1>3. Good \in SUBSET Seq(Simple)
  OBVIOUS
<1>4. Good = Seq(Simple)
  <2> HIDE DEF Good
  <2> QED BY <1>1, <1>2, <1>3, AppendInduction
<1> QED BY <1>4

\* One curve of the sections is another one.
LEMMA CurveReplaced ==
  ASSUME NEW s \in Seq(Simple), NEW k \in DOMAIN s, NEW c \in Lane
  PROVE  LET x == [s[k] EXCEPT !.lane_list[1] = c]
         IN  /\ [s EXCEPT ![k].lane_list[1] = c] = [s EXCEPT ![k] = x]
             /\ x \in Simple /\ CurveOf(x) = c /\ [s EXCEPT ![k] = x] \in Seq(Simple)
<1> DEFINE x == [s[k] EXCEPT !.lane_list[1] = c]
<1>1. s[k] \in Simple
  OBVIOUS
<1>2. PICK d \in Lane : s[k].lane_list = <<d>>
  BY <1>1 DEF Simple
<1>3. s[k] = [id |-> s[k].id, lane_list |-> <<d>>] /\ s[k].id \in Int
  BY <1>1, <1>2 DEF Simple
<1>4. x = [id |-> s[k].id, lane_list |-> [<<d>> EXCEPT ![1] = c]]
  BY <1>3
<1>5. [<<d>> EXCEPT ![1] = c] = <<c>>
  OBVIOUS
<1>6. x = [id |-> s[k].id, lane_list |-> <<c>>]
  BY <1>4, <1>5
<1>7. x \in Simple /\ CurveOf(x) = c
  BY <1>3, <1>6 DEF Simple, CurveOf
<1>8. [s EXCEPT ![k].lane_list[1] = c] = [s EXCEPT ![k] = x]
  OBVIOUS
<1>9. [s EXCEPT ![k] = x] \in Seq(Simple)
  <2> HIDE DEF x
  <2> QED BY <1>7
<1> QED BY <1>7, <1>8, <1>9

\* The first section, and the others.
LEMMA FrontReplaced ==
  ASSUME NEW s \in Seq(Simple), s # <<>>, NEW x \in Simple
  PROVE  /\ Tail(s) \in Seq(Simple) /\ s[1] \in Simple
         /\ s = <<s[1]>> \o Tail(s)
         /\ [s EXCEPT ![1] = x] = <<x>> \o Tail(s)
<1>1. Tail(s) \in Seq(Simple) /\ s[1] \in Simple /\ Len(s) \in Nat /\ Len(s) > 0
      /\ Len(Tail(s)) = Len(s) - 1 /\ (\A i \in 1..(Len(s) - 1) : Tail(s)[i] = s[i + 1])
  OBVIOUS
<1>2. \A y \in Simple : <<y>> \o Tail(s) \in Seq(Simple) /\ Len(<<y>> \o Tail(s)) = Len(s)
      /\ (<<y>> \o Tail(s))[1] = y /\ (\A i \in 2..Len(s) : (<<y>> \o Tail(s))[i] = s[i])
  BY <1>1
<1>3. s = <<s[1]>> \o Tail(s)
  <2>1. \A i \in 1..Len(s) : s[i] = (<<s[1]>> \o Tail(s))[i]
    BY <1>1, <1>2
  <2> QED BY <1>1, <1>2, <2>1, SeqEqual
<1>4. [s EXCEPT ![1] = x] = <<x>> \o Tail(s)
  <2>1. [s EXCEPT ![1] = x] \in Seq(Simple) /\ Len([s EXCEPT ![1] = x]) = Len(s)
        /\ (\A i \in 1..Len(s) : [s EXCEPT ![1] = x][i] = IF i = 1 THEN x ELSE s[i])
    BY <1>1
  <2>2. \A i \in 1..Len(s) : [s EXCEPT ![1] = x][i] = (<<x>> \o Tail(s))[i]
    BY <1>1, <1>2, <2>1
  <2> QED BY <1>1, <1>2, <2>1, <2>2, SeqEqual
<1> QED BY <1>1, <1>3, <1>4

\* The last section, and those before it.
LEMMA BackReplaced ==
  ASSUME NEW s \in Seq(Simple), s # <<>>, NEW x \in Simple
  PROVE  \E u \in Seq(Simple) : /\ s = Append(u, s[Len(s)]) /\ s[Len(s)] \in Simple
                                /\ [s EXCEPT ![Len(s)] = x] = Append(u, x)
<1>1. PICK u \in Seq(Simple), y \in Simple : s = Append(u, y)
  BY SequenceEmptyOrAppend
<1>2. Len(s) = Len(u) + 1 /\ s[Len(s)] = y /\ Len(u) \in Nat
  BY <1>1
<1>3. [s EXCEPT ![Len(s)] = x] = Append(u, x)
  <2> DEFINE a == [s EXCEPT ![Len(s)] = x]
             b == Append(u, x)
  <2>1. a \in Seq(Simple) /\ Len(a) = Len(s) /\ (\A i \in 1..Len(s) : a[i] = IF i = Len(s) THEN x ELSE s[i])
    <3> DEFINE n == Len(s)
    <3>1. n \in Nat /\ DOMAIN s = 1..n /\ (\A i \in 1..n : s[i] \in Simple)
      OBVIOUS
    <3>2. a = [i \in 1..n |-> IF i = n THEN x ELSE s[i]]
      BY <3>1
    <3> HIDE DEF n
    <3>3. \A i \in 1..n : (IF i = n THEN x ELSE s[i]) \in Simple
      BY <3>1
    <3> HIDE DEF a
    <3>4. a \in [1..n -> Simple] /\ (\A i \in 1..n : a[i] = IF i = n THEN x ELSE s[i])
      BY <3>2, <3>3
    <3>5. a \in Seq(Simple) /\ Len(a) = n
      BY <3>1, <3>4
    <3> QED BY <3>4, <3>5 DEF n
  <2>2. b \in Seq(Simple) /\ Len(b) = Len(s) /\ (\A i \in 1..Len(s) : b[i] = IF i = Len(s) THEN x ELSE s[i])
    BY <1>1, <1>2
  <2> HIDE DEF a, b
  <2>3. a = b
    BY <2>1, <2>2, SeqEqual
  <2> QED BY <2>3 DEF a, b
<1> QED BY <1>1, <1>2, <1>3

\* A set of numbers that is not empty has a least one.
LEMMA LeastNat ==
  ASSUME NEW S \in SUBSET Nat, S # {}
  PROVE  \E x \in S : \A y \in S : x <= y
<1>1. PICK x \in S : \A y \in S : ~ (<<y, x>> \in OpToRel(<, Nat))
  BY NatLessThanWellFounded, WFMin
<1>2. \A y \in S : ~ (y < x)
  BY <1>1 DEF OpToRel
<1> QED BY <1>2

\* Path and curve: the path's last section gets the curve, then come the others.
LEMMA Extended ==
  ASSUME NEW path \in Seq(Simple), path # <<>>, NEW curve \in Lane, NEW extra \in Seq(Simple)
  PROVE  /\ Route!Extend(path, curve, extra) \in Seq(Simple) \ {<<>>}
         /\ Route!SectionPoints(Route!Extend(path, curve, extra)) =
              Route!SectionPoints(path) \o (curve \o Route!SectionPoints(extra))
<1> DEFINE n == Len(path)
           last == CurveOf(path[n])
           x == [path[n] EXCEPT !.lane_list[1] = last \o curve]
           longer == [path EXCEPT ![n] = x]
<1>1. n \in Nat /\ n > 0 /\ n \in DOMAIN path /\ path[n] \in Simple
  OBVIOUS
<1>2. last \in Lane /\ last \o curve \in Lane /\ last \in Seq(Int) /\ curve \in Seq(Int)
  <2>1. last \in Lane
    BY <1>1, SimpleCurve
  <2> HIDE DEF last
  <2> QED BY <2>1 DEF Lane
<1>3. [path EXCEPT ![n].lane_list[1] = last \o curve] = longer /\ x \in Simple /\ CurveOf(x) = last \o curve
      /\ longer \in Seq(Simple)
  <2> DEFINE c == last \o curve
  <2>1. c \in Lane
    BY <1>2
  <2> HIDE DEF c
  <2>2. LET y == [path[n] EXCEPT !.lane_list[1] = c]
         IN  /\ [path EXCEPT ![n].lane_list[1] = c] = [path EXCEPT ![n] = y]
             /\ y \in Simple /\ CurveOf(y) = c /\ [path EXCEPT ![n] = y] \in Seq(Simple)
    BY <1>1, <2>1, CurveReplaced
  <2> QED BY <2>2 DEF c
<1>4. Route!Extend(path, curve, extra) = OverSections!Fold(longer, extra)
  <2>1. Route!Extend(path, curve, extra) = Route!FoldLeft(Route!PushSection, longer, extra)
    BY <1>3 DEF Route!Extend, CurveOf
  <2> HIDE DEF longer
  <2> QED BY <2>1 DEF Route!FoldLeft, Route!MapThenFoldSet, Route!Max,
        OverSections!Fold, OverSections!FoldLeft, OverSections!MapThenFoldSet, OverSections!Max
<1> HIDE DEF x
<1>5. PICK u \in Seq(Simple) : path = Append(u, path[n]) /\ longer = Append(u, x)
  <2>1. \E u \in Seq(Simple) : path = Append(u, path[n]) /\ longer = Append(u, x)
    <3>1. x \in Simple
      BY <1>3
    <3> HIDE DEF last
    <3>2. \E u \in Seq(Simple) : /\ path = Append(u, path[Len(path)]) /\ path[Len(path)] \in Simple
                                  /\ [path EXCEPT ![Len(path)] = x] = Append(u, x)
      BY <3>1, BackReplaced
    <3> QED BY <3>2
  <2> QED BY <2>1
<1>6. /\ Route!SectionPoints(path) = Route!SectionPoints(u) \o last
      /\ Route!SectionPoints(longer) = Route!SectionPoints(u) \o (last \o curve)
  <2> DEFINE y == path[n]
  <2>1. y \in Simple /\ path = Append(u, y)
    BY <1>1, <1>5
  <2> HIDE DEF y, n, longer
  <2>2. Route!SectionPoints(path) = Route!SectionPoints(u) \o CurveOf(y)
    BY <2>1, PointsAppend
  <2>3. Route!SectionPoints(longer) = Route!SectionPoints(u) \o CurveOf(x)
    BY <1>3, <1>5, PointsAppend
  <2> QED BY <1>3, <2>2, <2>3 DEF y
<1>7. Route!Extend(path, curve, extra) = longer \o extra
  <2> HIDE DEF longer
  <2> QED BY <1>3, <1>4, PushedAll
<1>8. longer # <<>> /\ longer \o extra \in Seq(Simple) \ {<<>>}
  <2>1. longer # <<>>
    BY <1>3, <1>5
  <2> HIDE DEF longer
  <2> QED BY <1>3, <2>1
<1>9. Route!SectionPoints(longer \o extra) = Route!SectionPoints(longer) \o Route!SectionPoints(extra)
  <2> HIDE DEF longer
  <2> QED BY <1>3, PointsConcat
<1>10. (Route!SectionPoints(u) \o (last \o curve)) \o Route!SectionPoints(extra) =
         (Route!SectionPoints(u) \o last) \o (curve \o Route!SectionPoints(extra))
  <2>1. Route!SectionPoints(u) \in Seq(Int) /\ Route!SectionPoints(extra) \in Seq(Int)
    BY PointsTyped
  <2> HIDE DEF last
  <2>2. Joined(Joined(Route!SectionPoints(u), Joined(last, curve)), Route!SectionPoints(extra)) =
          Joined(Joined(Route!SectionPoints(u), last), Joined(curve, Route!SectionPoints(extra)))
    BY <1>2, <2>1, Regrouped
  <2> QED BY <2>2 DEF Joined
<1> QED BY <1>6, <1>7, <1>8, <1>9, <1>10

\* The least element of a set of indices is one of them.
LEMMA LeastIndex ==
  ASSUME NEW S \in SUBSET Nat, S # {}
  PROVE  Route!Min(S) \in S
BY LeastNat DEF Route!Min

\* A piece of a sequence, from m to k, is not empty.
LEMMA PieceTyped ==
  ASSUME NEW R, NEW s \in Seq(R), NEW m \in 1..Len(s), NEW k \in m..Len(s)
  PROVE  SubSeq(s, m, k) \in Seq(R) /\ SubSeq(s, m, k) # <<>>
<1> DEFINE piece == SubSeq(s, m, k)
<1>1. piece \in Seq(R) /\ Len(piece) = (k - m) + 1
  OBVIOUS
<1>2. Len(piece) > 0
  <2> HIDE DEF piece
  <2> QED BY <1>1
<1> HIDE DEF piece
<1>3. piece # <<>>
  BY <1>1, <1>2
<1> QED BY <1>1, <1>3 DEF piece

\* What is left of the sections after the path is some sections at their end.
LEMMA RestTyped ==
  ASSUME NEW sections \in Seq(Simple), sections # <<>>, NEW path
  PROVE  Route!Rest(sections, path) \in Seq(Simple) /\ Route!Rest(sections, path) # <<>>
<1> DEFINE same == {k \in DOMAIN sections : sections[k].id = Route!Last(path).id}
           n == Len(sections)
<1>1. n \in Nat /\ same \in SUBSET Nat /\ same \in SUBSET (1..n)
  OBVIOUS
<1>2. same # {} => Route!Min(same) \in same
  <2> HIDE DEF same
  <2> QED BY <1>1, LeastIndex
<1>3. Route!Rest(sections, path) = IF same = {} THEN sections ELSE SubSeq(sections, Route!Min(same), n)
  BY DEF Route!Rest
<1>4. ASSUME same # {} PROVE SubSeq(sections, Route!Min(same), n) \in Seq(Simple) /\ SubSeq(sections, Route!Min(same), n) # <<>>
  <2> DEFINE m == Route!Min(same)
  <2>1. m \in 1..n
    BY <1>1, <1>2, <1>4
  <2> HIDE DEF m, same
  <2>2. n \in m..Len(sections) /\ m \in 1..Len(sections)
    BY <1>1, <2>1
  <2> HIDE DEF n
  <2>3. SubSeq(sections, m, n) \in Seq(Simple) /\ SubSeq(sections, m, n) # <<>>
    BY <2>2, PieceTyped
  <2> QED BY <2>3 DEF m
<1> HIDE DEF same, n
<1> QED BY <1>3, <1>4

\* The points of sections are those of the first curve, then the others'.
LEMMA FrontPoints ==
  ASSUME NEW s \in Seq(Simple), s # <<>>
  PROVE  /\ Tail(s) \in Seq(Simple) /\ CurveOf(s[1]) \in Lane
         /\ Route!SectionPoints(s) = CurveOf(s[1]) \o Route!SectionPoints(Tail(s))
         /\ \A c \in Lane : /\ Route!KeepFrom(s, c) \in Seq(Simple)
                            /\ Route!SectionPoints(Route!KeepFrom(s, c)) = c \o Route!SectionPoints(Tail(s))
<1>1. 1 \in DOMAIN s /\ s[1] \in Simple
  OBVIOUS
<1>2. Tail(s) \in Seq(Simple) /\ (\A x \in Simple : <<x>> \in Seq(Simple))
  BY FrontReplaced
<1>3. \A x \in Simple : Route!SectionPoints(<<x>> \o Tail(s)) = CurveOf(x) \o Route!SectionPoints(Tail(s))
  <2> TAKE x \in Simple
  <2> DEFINE one == <<x>>
             t == Tail(s)
  <2>1. one \in Seq(Simple) /\ t \in Seq(Simple) /\ Route!SectionPoints(one) = CurveOf(x)
    BY <1>2, PointsOne
  <2> HIDE DEF one, t
  <2>2. Route!SectionPoints(one \o t) = CurveOf(x) \o Route!SectionPoints(t)
    BY <2>1, PointsConcat
  <2> QED BY <2>2 DEF one, t
<1>4. s = <<s[1]>> \o Tail(s)
  BY <1>1, FrontReplaced
<1>5. Route!SectionPoints(s) = CurveOf(s[1]) \o Route!SectionPoints(Tail(s))
  BY <1>1, <1>3, <1>4
<1>6. ASSUME NEW c \in Lane
      PROVE  /\ Route!KeepFrom(s, c) \in Seq(Simple)
             /\ Route!SectionPoints(Route!KeepFrom(s, c)) = c \o Route!SectionPoints(Tail(s))
  <2> DEFINE x == [s[1] EXCEPT !.lane_list[1] = c]
  <2>1. /\ [s EXCEPT ![1].lane_list[1] = c] = [s EXCEPT ![1] = x]
        /\ x \in Simple /\ CurveOf(x) = c /\ [s EXCEPT ![1] = x] \in Seq(Simple)
    BY <1>1, CurveReplaced
  <2>2. Route!KeepFrom(s, c) = [s EXCEPT ![1] = x]
    BY <2>1 DEF Route!KeepFrom
  <2> HIDE DEF x
  <2>3. [s EXCEPT ![1] = x] = <<x>> \o Tail(s)
    BY <2>1, FrontReplaced
  <2>4. Route!SectionPoints(<<x>> \o Tail(s)) = CurveOf(x) \o Route!SectionPoints(Tail(s))
    BY <1>3, <2>1
  <2> QED BY <2>1, <2>2, <2>3, <2>4
<1>7. CurveOf(s[1]) \in Lane
  BY <1>1, SimpleCurve
<1> QED BY <1>2, <1>5, <1>6, <1>7

\* What a task keeps of its sections is what it adds to the path.
JoinedRight(path, j) ==
  /\ j.path \in Seq(Simple) /\ j.path # <<>> /\ j.left \in Seq(Simple)
  /\ Route!SectionPoints(j.path) = Route!SectionPoints(path) \o Route!SectionPoints(j.left)
\* So it is for each of the three outcomes of the comparison with the path.
LEMMA JoinRight ==
  ASSUME NEW path \in Seq(Simple), path # <<>>, NEW sections \in Seq(Simple), sections # <<>>
  PROVE  JoinedRight(path, Route!Join(path, sections))
<1> DEFINE rest == Route!Rest(sections, path)
           cur == CurveOf(rest[1])
           last == Route!Last(path).lane_list[1]
           shared == {k \in DOMAIN cur : cur[k] = Route!Last(last)}
           joined == SubSeq(cur, Route!Min(shared), Len(cur))
           j == Route!Join(path, sections)
<1>1. rest \in Seq(Simple) /\ rest # <<>>
  BY RestTyped
<1>2. j = IF shared # {} THEN [path |-> Route!Extend(path, joined, Tail(rest)), left |-> Route!KeepFrom(rest, joined)]
          ELSE IF cur[1] \in Route!Range(last) THEN [path |-> path, left |-> <<>>]
          ELSE [path |-> Route!Extend(path, cur, Tail(rest)), left |-> rest]
  BY DEF Route!Join, CurveOf
<1> HIDE DEF rest
<1>3. Tail(rest) \in Seq(Simple) /\ cur \in Lane
      /\ Route!SectionPoints(rest) = cur \o Route!SectionPoints(Tail(rest))
      /\ (\A c \in Lane : /\ Route!KeepFrom(rest, c) \in Seq(Simple)
                          /\ Route!SectionPoints(Route!KeepFrom(rest, c)) = c \o Route!SectionPoints(Tail(rest)))
  BY <1>1, FrontPoints
<1>4. shared # {} => joined \in Lane
  <2> SUFFICES ASSUME shared # {} PROVE joined \in Lane
    OBVIOUS
  <2> HIDE DEF cur, last
  <2> DEFINE m == Route!Min(shared)
             n == Len(cur)
  <2>1. cur \in Seq(Int) /\ n \in Nat /\ shared \in SUBSET Nat /\ shared \in SUBSET (1..n)
    BY <1>3 DEF Lane
  <2> HIDE DEF shared
  <2>2. m \in 1..n
    BY <2>1, LeastIndex
  <2> HIDE DEF m
  <2>3. n \in m..Len(cur) /\ m \in 1..Len(cur)
    BY <2>1, <2>2
  <2> HIDE DEF n
  <2>4. SubSeq(cur, m, n) \in Seq(Int) /\ SubSeq(cur, m, n) # <<>>
    BY <2>1, <2>3, PieceTyped
  <2> QED BY <2>4 DEF Lane, m, n
<1>5. \A c \in Lane : /\ Route!Extend(path, c, Tail(rest)) \in Seq(Simple) /\ Route!Extend(path, c, Tail(rest)) # <<>>
                      /\ Route!SectionPoints(Route!Extend(path, c, Tail(rest))) =
                           Route!SectionPoints(path) \o (c \o Route!SectionPoints(Tail(rest)))
  BY <1>3, Extended
<1> HIDE DEF cur, last, joined, shared, j
<1>6. CASE shared # {}
  <2>1. j.path = Route!Extend(path, joined, Tail(rest)) /\ j.left = Route!KeepFrom(rest, joined)
    BY <1>2, <1>6
  <2> QED BY <1>3, <1>4, <1>5, <1>6, <2>1 DEF JoinedRight, j
<1>7. CASE shared = {} /\ cur[1] \in Route!Range(last)
  <2>1. j.path = path /\ j.left = <<>>
    BY <1>2, <1>7
  <2>2. Route!SectionPoints(path) \in Seq(Int) /\ <<>> \in Seq(Simple)
    BY PointsTyped
  <2>3. Route!SectionPoints(path) \o <<>> = Route!SectionPoints(path)
    BY <2>2
  <2> QED BY <2>1, <2>2, <2>3, PointsEmpty DEF JoinedRight, j
<1>8. CASE shared = {} /\ cur[1] \notin Route!Range(last)
  <2>1. j.path = Route!Extend(path, cur, Tail(rest)) /\ j.left = rest
    BY <1>2, <1>8
  <2> QED BY <1>1, <1>3, <1>5, <2>1 DEF JoinedRight, j
<1> QED BY <1>6, <1>7, <1>8

\* There is a first index with the least distance.
LEMMA NearestThere ==
  ASSUME NEW curve \in Lane, NEW p \in Int
  PROVE  Route!Nearest(curve, p) \in DOMAIN curve
<1> DEFINE D == DOMAIN curve
           dist == [k \in D |-> Route!Distance(curve[k], p)]
           Best(i) == \A k \in D : dist[i] <= dist[k] - (IF k < i THEN 1 ELSE 0)
<1>1. curve \in Seq(Int) /\ D \in SUBSET Nat /\ D # {}
  <2>1. curve \in Seq(Int) /\ curve # <<>>
    BY DEF Lane
  <2>2. D = 1..Len(curve) /\ Len(curve) \in Nat /\ Len(curve) # 0
    BY <2>1
  <2>3. 1 \in D
    <3> HIDE DEF D
    <3> QED BY <2>2
  <2> HIDE DEF D
  <2> QED BY <2>1, <2>2, <2>3
<1>2. dist \in [D -> Nat]
  <2>1. \A k \in D : Route!Distance(curve[k], p) \in Nat
    <3> TAKE k \in D
    <3>1. curve[k] \in Int
      BY <1>1
    <3> QED BY <3>1 DEF Route!Distance
  <2> QED BY <2>1
<1> HIDE DEF D
<1>3. Route!Nearest(curve, p) = CHOOSE i \in D : Best(i)
  <2>1. Route!Nearest(curve, p) =
          CHOOSE i \in D : \A k \in D :
            Route!Distance(curve[i], p) <= Route!Distance(curve[k], p) - (IF k < i THEN 1 ELSE 0)
    BY DEF Route!Nearest, D
  <2>2. \A i \in D : Best(i) <=> \A k \in D :
            Route!Distance(curve[i], p) <= Route!Distance(curve[k], p) - (IF k < i THEN 1 ELSE 0)
    OBVIOUS
  <2> HIDE DEF Best
  <2> QED BY <2>1, <2>2
<1> HIDE DEF dist
<1>4. \E i \in D : Best(i)
  <2> DEFINE S == {dist[k] : k \in D}
  <2>1. S \in SUBSET Nat /\ S # {}
    BY <1>1, <1>2
  <2> HIDE DEF S
  <2>2. PICK d \in S : \A y \in S : d <= y
    BY <2>1, LeastNat
  <2> DEFINE I == {k \in D : dist[k] = d}
  <2>3. I \in SUBSET Nat /\ I # {} /\ (\A k \in D : d <= dist[k]) /\ d \in Nat
    BY <1>1, <2>1, <2>2 DEF S
  <2> HIDE DEF I
  <2>4. PICK i \in I : \A y \in I : i <= y
    BY <2>3, LeastNat
  <2>5. i \in D /\ dist[i] = d /\ i \in Nat
    BY <2>3, <2>4 DEF I
  <2>6. \A k \in D : dist[i] <= dist[k] - (IF k < i THEN 1 ELSE 0)
    <3> TAKE k \in D
    <3>1. k \in Nat /\ dist[k] \in Nat /\ d <= dist[k]
      BY <1>1, <1>2, <2>3
    <3>2. k < i => dist[k] # d
      BY <2>4, <2>5, <3>1 DEF I
    <3> QED BY <2>3, <2>5, <3>1, <3>2
  <2> QED BY <2>5, <2>6
<1> HIDE DEF Best
<1> QED BY <1>3, <1>4 DEF D

\* Tasks with sections of one lane.
SimpleTask == [type : STRING, start_point : Int, end_point : Int, section_list : Seq(Simple)]

\* A task with one curve replaced is a task.
LEMMA TaskReplaced ==
  ASSUME NEW t \in SimpleTask, NEW k \in DOMAIN t.section_list, NEW c \in Lane
  PROVE  LET s == [t EXCEPT !.section_list[k].lane_list[1] = c]
         IN  s \in SimpleTask /\ Len(s.section_list) = Len(t.section_list)
             /\ s.start_point = t.start_point /\ s.end_point = t.end_point
<1> DEFINE s == [t EXCEPT !.section_list[k].lane_list[1] = c]
           list == t.section_list
           longer == [list EXCEPT ![k].lane_list[1] = c]
           x == [list[k] EXCEPT !.lane_list[1] = c]
<1>1. list \in Seq(Simple)
  BY DEF SimpleTask
<1>2. s = [t EXCEPT !.section_list = longer]
  OBVIOUS
<1> HIDE DEF s, list
<1>3. k \in DOMAIN list
  BY DEF list
<1>4. longer = [list EXCEPT ![k] = x] /\ [list EXCEPT ![k] = x] \in Seq(Simple)
  BY <1>1, <1>3, CurveReplaced
<1>5. Len([list EXCEPT ![k] = x]) = Len(list)
  <2> HIDE DEF x
  <2> QED BY <1>1
<1> HIDE DEF longer, x
<1>6. longer \in Seq(Simple) /\ Len(longer) = Len(list)
  BY <1>4, <1>5
<1>7. s \in SimpleTask /\ s.section_list = longer /\ s.start_point = t.start_point /\ s.end_point = t.end_point
  BY <1>2, <1>6 DEF SimpleTask
<1> QED BY <1>6, <1>7 DEF s, list

\* A trimmed task still has points in all its lanes.
LEMMA TrimTyped ==
  ASSUME NEW t \in SimpleTask
  PROVE  Route!Trim(t) \in SimpleTask
<1>1. CASE t.section_list = <<>>
  BY <1>1 DEF Route!Trim
<1>2. CASE t.section_list # <<>>
  <2> DEFINE first == t.section_list[1].lane_list[1]
             c == SubSeq(first, Route!Nearest(first, t.start_point), Len(first))
             s == [t EXCEPT !.section_list[1].lane_list[1] = c]
             n == Len(s.section_list)
             m == Len(s.section_list[n].lane_list)
             last == s.section_list[n].lane_list[m]
             d == SubSeq(last, 1, Route!Nearest(last, s.end_point))
  <2>1. t.section_list \in Seq(Simple) /\ t.start_point \in Int
    BY DEF SimpleTask
  <2>2. 1 \in DOMAIN t.section_list /\ t.section_list[1] \in Simple
    BY <1>2, <2>1
  <2>3. first \in Lane
    BY <2>2, SimpleCurve DEF CurveOf
  <2>4. c \in Lane
    <3> HIDE DEF first
    <3> DEFINE k == Route!Nearest(first, t.start_point)
    <3>1. first \in Seq(Int) /\ k \in DOMAIN first
      BY <2>1, <2>3, NearestThere DEF Lane
    <3> HIDE DEF k
    <3>2. k \in 1..Len(first) /\ Len(first) \in k..Len(first)
      BY <3>1
    <3>3. SubSeq(first, k, Len(first)) \in Seq(Int) /\ SubSeq(first, k, Len(first)) # <<>>
      BY <3>1, <3>2, PieceTyped
    <3> QED BY <3>3 DEF Lane, k
  <2>5. Route!Trim(t) = [s EXCEPT !.section_list[n].lane_list[m] = SubSeq(@, 1, Route!Nearest(@, t.end_point))]
    BY <1>2 DEF Route!Trim
  <2> HIDE DEF c
  <2>6. s \in SimpleTask /\ n = Len(t.section_list) /\ s.end_point = t.end_point
    BY <2>2, <2>4, TaskReplaced
  <2> HIDE DEF s
  <2>7. s.section_list \in Seq(Simple) /\ s.end_point \in Int
    BY <2>6 DEF SimpleTask
  <2>8. n \in DOMAIN s.section_list /\ s.section_list[n] \in Simple
    <3>1. Len(t.section_list) \in Nat /\ Len(t.section_list) # 0
      BY <1>2, <2>1
    <3> QED BY <2>6, <2>7, <3>1
  <2> HIDE DEF n
  <2>9. m = 1 /\ last \in Lane
    <3>1. s.section_list[n].lane_list = <<CurveOf(s.section_list[n])>> /\ CurveOf(s.section_list[n]) \in Lane
      BY <2>8, SimpleCurve
    <3> QED BY <3>1
  <2>10. Route!Trim(t) = [s EXCEPT !.section_list[n].lane_list[1] = d]
    BY <2>5, <2>6, <2>9
  <2>11. d \in Lane
    <3> HIDE DEF last
    <3> DEFINE k == Route!Nearest(last, s.end_point)
    <3>1. last \in Seq(Int) /\ k \in DOMAIN last
      BY <2>7, <2>9, NearestThere DEF Lane
    <3> HIDE DEF k
    <3>2. 1 \in 1..Len(last) /\ k \in 1..Len(last)
      BY <3>1
    <3>3. SubSeq(last, 1, k) \in Seq(Int) /\ SubSeq(last, 1, k) # <<>>
      BY <3>1, <3>2, PieceTyped
    <3> QED BY <3>3 DEF Lane, k
  <2> HIDE DEF d
  <2> QED BY <2>6, <2>8, <2>10, <2>11, TaskReplaced
<1> QED BY <1>1, <1>2

\* The points of tasks, in their order.
Kept(ts) == Route!FlattenSeq([k \in DOMAIN ts |-> Route!SectionPoints(ts[k].section_list)])

\* One more task's points come behind the others'.
LEMMA KeptAppend ==
  ASSUME NEW ts \in Seq(SimpleTask), NEW t \in SimpleTask
  PROVE  Kept(Append(ts, t)) = Kept(ts) \o Route!SectionPoints(t.section_list)
<1> DEFINE P(s) == [k \in DOMAIN s |-> Route!SectionPoints(s[k].section_list)]
           points == Route!SectionPoints(t.section_list)
<1>1. \A s \in Seq(SimpleTask) : P(s) \in Seq(Seq(Int)) /\ Len(P(s)) = Len(s)
  <2> TAKE s \in Seq(SimpleTask)
  <2>1. DOMAIN s = 1..Len(s) /\ Len(s) \in Nat
    OBVIOUS
  <2>2. \A k \in 1..Len(s) : Route!SectionPoints(s[k].section_list) \in Seq(Int)
    <3> TAKE k \in 1..Len(s)
    <3>1. s[k] \in SimpleTask
      OBVIOUS
    <3>2. s[k].section_list \in Seq(Simple)
      BY <3>1 DEF SimpleTask
    <3> QED BY <3>2, PointsTyped
  <2>3. [k \in 1..Len(s) |-> Route!SectionPoints(s[k].section_list)] \in [1..Len(s) -> Seq(Int)]
    BY <2>2
  <2> QED BY <2>1, <2>3
<1>2. points \in Seq(Int)
  <2>1. t.section_list \in Seq(Simple)
    BY DEF SimpleTask
  <2> QED BY <2>1, PointsTyped
<1>3. P(Append(ts, t)) = Append(P(ts), points)
  <2> DEFINE a == P(Append(ts, t))
             b == Append(P(ts), points)
  <2>1. Append(ts, t) \in Seq(SimpleTask) /\ Len(Append(ts, t)) = Len(ts) + 1 /\ Len(ts) \in Nat
    OBVIOUS
  <2>2. a \in Seq(Seq(Int)) /\ Len(a) = Len(ts) + 1
    BY <1>1, <2>1
  <2>3. P(ts) \in Seq(Seq(Int)) /\ Len(P(ts)) = Len(ts)
    BY <1>1
  <2>4. b \in Seq(Seq(Int)) /\ Len(b) = Len(ts) + 1 /\ b[Len(ts) + 1] = points
        /\ (\A k \in 1..Len(ts) : b[k] = P(ts)[k])
    <3> HIDE DEF P, points
    <3> QED BY <1>2, <2>1, <2>3
  <2>5. \A k \in 1..(Len(ts) + 1) : a[k] = b[k]
    <3> TAKE k \in 1..(Len(ts) + 1)
    <3> HIDE DEF b
    <3>1. a[k] = Route!SectionPoints(Append(ts, t)[k].section_list)
      BY <2>1
    <3>2. CASE k = Len(ts) + 1
      <4>1. Append(ts, t)[k] = t
        BY <3>2
      <4> QED BY <2>4, <3>1, <3>2, <4>1
    <3>3. CASE k # Len(ts) + 1
      <4>1. k \in 1..Len(ts) /\ DOMAIN ts = 1..Len(ts)
        BY <2>1, <3>3
      <4>2. Append(ts, t)[k] = ts[k]
        BY <4>1
      <4>3. P(ts)[k] = Route!SectionPoints(ts[k].section_list)
        BY <4>1
      <4> HIDE DEF a, P
      <4> QED BY <2>4, <3>1, <4>1, <4>2, <4>3
    <3> QED BY <3>2, <3>3
  <2> HIDE DEF a, b
  <2>6. a = b
    BY <2>2, <2>4, <2>5, SeqEqual
  <2> QED BY <2>6 DEF a, b
<1>4. P(ts) \in Seq(Seq(Int))
  BY <1>1
<1>5. Kept(Append(ts, t)) = Route!FlattenSeq(P(Append(ts, t))) /\ Kept(ts) = Route!FlattenSeq(P(ts))
  BY DEF Kept
<1> HIDE DEF P, points
<1>6. Kept(Append(ts, t)) = Kept(ts) \o points
  BY <1>2, <1>3, <1>4, <1>5, FlattenAppend
<1> QED BY <1>6 DEF points

\* No tasks have no points.
LEMMA KeptEmpty == Kept(<<>>) = <<>>
<1>1. [k \in DOMAIN <<>> |-> Route!SectionPoints(<<>>[k].section_list)] = <<>>
  OBVIOUS
<1> QED BY <1>1, FlattenEmpty DEF Kept

\* After some tasks, the path and the tasks kept have the same points.
WalkInv(r) ==
  /\ r.path \in Seq(Simple) /\ r.tasks \in Seq(SimpleTask)
  /\ Route!SectionPoints(r.path) = Kept(r.tasks)

\* One task of the walk, with or without sections, first or not.
LEMMA WalkStep ==
  ASSUME NEW r, WalkInv(r), NEW t \in SimpleTask,
         r = [path |-> r.path, tasks |-> r.tasks]
  PROVE  LET s == Route!Walk(r, t)
         IN  WalkInv(s) /\ Len(s.tasks) = Len(r.tasks) + 1 /\ s = [path |-> s.path, tasks |-> s.tasks]
<1> DEFINE s == Route!Walk(r, t)
           list == t.section_list
           j == Route!Join(r.path, list)
           u == [t EXCEPT !.section_list = j.left]
<1>1. r.path \in Seq(Simple) /\ r.tasks \in Seq(SimpleTask) /\ Route!SectionPoints(r.path) = Kept(r.tasks)
  BY DEF WalkInv
<1>2. list \in Seq(Simple)
  BY DEF SimpleTask
<1>3. \A v \in SimpleTask : /\ Append(r.tasks, v) \in Seq(SimpleTask) /\ Len(Append(r.tasks, v)) = Len(r.tasks) + 1
                            /\ Kept(Append(r.tasks, v)) = Route!SectionPoints(r.path) \o Route!SectionPoints(v.section_list)
  <2> TAKE v \in SimpleTask
  <2>1. Kept(Append(r.tasks, v)) = Kept(r.tasks) \o Route!SectionPoints(v.section_list)
    BY <1>1, KeptAppend
  <2>2. Append(r.tasks, v) \in Seq(SimpleTask) /\ Len(Append(r.tasks, v)) = Len(r.tasks) + 1
    BY <1>1
  <2> QED BY <1>1, <2>1, <2>2
<1>4. Route!SectionPoints(r.path) \in Seq(Int) /\ Route!SectionPoints(list) \in Seq(Int)
  BY <1>1, <1>2, PointsTyped
<1>5. Route!SectionPoints(r.path) \o <<>> = Route!SectionPoints(r.path)
      /\ <<>> \o Route!SectionPoints(list) = Route!SectionPoints(list)
  BY <1>4
<1>6. CASE list = <<>>
  <2>1. s.path = r.path /\ s.tasks = Append(r.tasks, t) /\ s = [path |-> s.path, tasks |-> s.tasks]
    BY <1>6 DEF Route!Walk
  <2> HIDE DEF s
  <2>2. Kept(s.tasks) = Route!SectionPoints(r.path)
    BY <1>3, <1>5, <1>6, <2>1, PointsEmpty
  <2>3. WalkInv(s) /\ Len(s.tasks) = Len(r.tasks) + 1
    BY <1>1, <1>3, <2>1, <2>2 DEF WalkInv
  <2> QED BY <2>1, <2>3 DEF s
<1>7. CASE list # <<>> /\ r.path = <<>>
  <2>1. s.path = list /\ s.tasks = Append(r.tasks, t) /\ s = [path |-> s.path, tasks |-> s.tasks]
    BY <1>7 DEF Route!Walk
  <2> HIDE DEF s
  <2>2. Kept(s.tasks) = Route!SectionPoints(list)
    BY <1>3, <1>5, <1>7, <2>1, PointsEmpty
  <2>3. WalkInv(s) /\ Len(s.tasks) = Len(r.tasks) + 1
    BY <1>1, <1>2, <1>3, <2>1, <2>2 DEF WalkInv
  <2> QED BY <2>1, <2>3 DEF s
<1>8. CASE list # <<>> /\ r.path # <<>>
  <2>1. s.path = j.path /\ s.tasks = Append(r.tasks, u) /\ s = [path |-> s.path, tasks |-> s.tasks]
    BY <1>8 DEF Route!Walk
  <2>2. JoinedRight(r.path, j)
    BY <1>1, <1>2, <1>8, JoinRight
  <2> HIDE DEF s, j
  <2>3. j.path \in Seq(Simple) /\ j.left \in Seq(Simple)
        /\ Route!SectionPoints(j.path) = Route!SectionPoints(r.path) \o Route!SectionPoints(j.left)
    BY <2>2 DEF JoinedRight
  <2>4. u \in SimpleTask /\ u.section_list = j.left
    BY <2>3 DEF SimpleTask
  <2> HIDE DEF u
  <2>5. Kept(s.tasks) = Route!SectionPoints(s.path)
    BY <1>3, <2>1, <2>3, <2>4
  <2>6. WalkInv(s) /\ Len(s.tasks) = Len(r.tasks) + 1
    BY <1>3, <2>1, <2>3, <2>4, <2>5 DEF WalkInv
  <2> QED BY <2>1, <2>6 DEF s
<1> QED BY <1>6, <1>7, <1>8

OverWalk == INSTANCE FoldTheorems WITH Step <- Route!Walk

\* After all tasks, the path and the tasks kept have the same points.
LEMMA WalkRight ==
  ASSUME NEW queue \in Seq(SimpleTask)
  PROVE  LET r == Route!FoldLeft(Route!Walk, [path |-> <<>>, tasks |-> <<>>], queue)
         IN  WalkInv(r) /\ Len(r.tasks) = Len(queue)
<1> DEFINE n == Len(queue)
           base == [path |-> <<>>, tasks |-> <<>>]
           r == Route!FoldLeft(Route!Walk, base, queue)
           Inv(i, q) == WalkInv(q) /\ Len(q.tasks) = i /\ q = [path |-> q.path, tasks |-> q.tasks]
<1>1. n \in Nat /\ (\A i \in 1..n : queue[i] \in SimpleTask)
  OBVIOUS
<1>2. PICK g : /\ g[0] = base /\ g[n] = OverWalk!Fold(base, queue)
               /\ \A i \in 1..n : g[i] = Route!Walk(g[i - 1], queue[i])
  <2> HIDE DEF base
  <2> QED BY OverWalk!FoldSteps
<1>3. r = OverWalk!Fold(base, queue)
  <2> HIDE DEF base
  <2> QED BY DEF Route!FoldLeft, Route!MapThenFoldSet, Route!Max,
        OverWalk!Fold, OverWalk!FoldLeft, OverWalk!MapThenFoldSet, OverWalk!Max
<1>4. Inv(0, base)
  <2>1. base.path = <<>> /\ base.tasks = <<>> /\ base = [path |-> base.path, tasks |-> base.tasks]
    OBVIOUS
  <2>2. <<>> \in Seq(Simple) /\ <<>> \in Seq(SimpleTask) /\ Len(<<>>) = 0
    OBVIOUS
  <2> HIDE DEF base
  <2> QED BY <2>1, <2>2, PointsEmpty, KeptEmpty DEF WalkInv
<1> HIDE DEF base
<1>5. \A i \in 1..n : Inv(i - 1, g[i - 1]) => Inv(i, g[i])
  <2> SUFFICES ASSUME NEW i \in 1..n, Inv(i - 1, g[i - 1]) PROVE Inv(i, g[i])
    OBVIOUS
  <2> DEFINE q == g[i - 1]
             t == queue[i]
  <2>1. t \in SimpleTask /\ g[i] = Route!Walk(q, t) /\ i \in Nat
    BY <1>1, <1>2
  <2>2. WalkInv(q) /\ Len(q.tasks) = i - 1 /\ q = [path |-> q.path, tasks |-> q.tasks]
    OBVIOUS
  <2> HIDE DEF q, t
  <2>3. LET s == Route!Walk(q, t)
        IN  WalkInv(s) /\ Len(s.tasks) = Len(q.tasks) + 1 /\ s = [path |-> s.path, tasks |-> s.tasks]
    BY <2>1, <2>2, WalkStep
  <2> DEFINE s == Route!Walk(q, t)
  <2>4. WalkInv(s) /\ Len(s.tasks) = Len(q.tasks) + 1 /\ s = [path |-> s.path, tasks |-> s.tasks]
    BY <2>3
  <2> HIDE DEF s
  <2>5. Len(q.tasks) + 1 = i
    BY <2>1, <2>2
  <2> QED BY <2>1, <2>4, <2>5 DEF s
<1> DEFINE Good == {i \in Nat : i <= n => Inv(i, g[i])}
<1>6. Good = Nat
  <2>1. 0 \in Good
    <3> HIDE DEF Inv
    <3> QED BY <1>2, <1>4
  <2>2. ASSUME NEW i \in Good PROVE i + 1 \in Good
    <3> HIDE DEF Inv
    <3>1. i \in Nat /\ (i <= n => Inv(i, g[i]))
      OBVIOUS
    <3>2. i + 1 <= n => i + 1 \in 1..n /\ (i + 1) - 1 = i /\ i <= n
      BY <1>1, <3>1
    <3>3. i + 1 <= n => Inv(i + 1, g[i + 1])
      BY <1>5, <3>1, <3>2
    <3> QED BY <3>1, <3>3
  <2>3. Good \in SUBSET Nat
    OBVIOUS
  <2> HIDE DEF Good
  <2> QED BY <2>1, <2>2, <2>3, OverWalk!SetInduction
<1>7. Inv(n, g[n])
  <2>1. n \in Good
    <3> HIDE DEF Good
    <3> QED BY <1>1, <1>6
  <2> HIDE DEF Inv
  <2> QED BY <1>1, <2>1
<1>8. r = g[n]
  BY <1>2, <1>3
<1> HIDE DEF r
<1>9. WalkInv(r) /\ Len(r.tasks) = n
  BY <1>7, <1>8
<1> QED BY <1>9 DEF r, base

\* A task whose sections have one lane each.
OneLaneTask(t) == \A k \in DOMAIN t.section_list : Len(t.section_list[k].lane_list) = 1
\* Such a task is one of SimpleTask.
LEMMA SimpleOfTask ==
  ASSUME NEW t \in Task, OneLaneTask(t)
  PROVE  t \in SimpleTask
<1> DEFINE list == t.section_list
<1>1. list \in Seq(Section)
  BY DEF Task
<1>2. \A k \in DOMAIN list : list[k] \in Section /\ Len(list[k].lane_list) = 1
  BY <1>1 DEF OneLaneTask
<1>3. \A x \in Section : Len(x.lane_list) = 1 => x \in Simple
  <2> SUFFICES ASSUME NEW x \in Section, Len(x.lane_list) = 1 PROVE x \in Simple
    OBVIOUS
  <2>1. x.lane_list \in Seq(Lane) /\ x = [id |-> x.id, lane_list |-> x.lane_list] /\ x.id \in Int
    BY DEF Section
  <2> DEFINE l == x.lane_list
  <2>2. l \in Seq(Lane) /\ Len(l) = 1
    BY <2>1
  <2> HIDE DEF l
  <2>3. l[1] \in Lane /\ l = <<l[1]>>
    BY <2>2
  <2>4. l \in {<<c>> : c \in Lane}
    BY <2>3
  <2> QED BY <2>1, <2>4 DEF Simple, l
<1>4. list \in Seq(Simple)
  <2> HIDE DEF list
  <2>1. DOMAIN list = 1..Len(list) /\ Len(list) \in Nat
    BY <1>1
  <2>2. \A k \in 1..Len(list) : list[k] \in Simple
    BY <1>2, <1>3, <2>1
  <2> QED BY <1>1, <2>1, <2>2
<1> QED BY <1>4 DEF Task, SimpleTask

\* The route written is the one the tasks were compared with.
LEMMA PathRight ==
  ASSUME NEW tasks \in Seq(Task)
  PROVE  Route!PathIsOutput(tasks)
<1> SUFFICES ASSUME \A i \in DOMAIN tasks : OneLaneTask(tasks[i])
             PROVE  Route!SectionPoints(Route!GenerateRoutePoints(tasks).path) =
                      Route!FlattenSeq([i \in DOMAIN tasks |->
                         Route!SectionPoints(Route!GenerateRoutePoints(tasks).tasks[i].section_list)])
  BY DEF Route!PathIsOutput, OneLaneTask
<1> DEFINE queue == [i \in DOMAIN tasks |-> Route!Trim(tasks[i])]
           r == Route!FoldLeft(Route!Walk, [path |-> <<>>, tasks |-> <<>>], queue)
<1>1. DOMAIN tasks = 1..Len(tasks) /\ Len(tasks) \in Nat
  OBVIOUS
<1>2. \A i \in 1..Len(tasks) : Route!Trim(tasks[i]) \in SimpleTask
  <2> TAKE i \in 1..Len(tasks)
  <2>1. tasks[i] \in Task /\ OneLaneTask(tasks[i])
    BY <1>1
  <2> QED BY <2>1, SimpleOfTask, TrimTyped
<1>3. queue \in Seq(SimpleTask) /\ Len(queue) = Len(tasks)
  <2>1. [i \in 1..Len(tasks) |-> Route!Trim(tasks[i])] \in [1..Len(tasks) -> SimpleTask]
    BY <1>2
  <2> QED BY <1>1, <2>1
<1>4. Route!GenerateRoutePoints(tasks) = r
  BY DEF Route!GenerateRoutePoints
<1> HIDE DEF queue
<1>5. WalkInv(r) /\ Len(r.tasks) = Len(queue)
  BY <1>3, WalkRight
<1> HIDE DEF r
<1>6. Route!SectionPoints(r.path) = Kept(r.tasks) /\ r.tasks \in Seq(SimpleTask)
  BY <1>5 DEF WalkInv
<1>7. DOMAIN r.tasks = DOMAIN tasks
  BY <1>1, <1>3, <1>5, <1>6
<1>8. Kept(r.tasks) = Route!FlattenSeq([i \in DOMAIN tasks |-> Route!SectionPoints(r.tasks[i].section_list)])
  BY <1>7 DEF Kept
<1> QED BY <1>4, <1>6, <1>8

\* With one lane per section the points written are those of the path the
\* tasks were compared with, and the records of the file are those of the
\* tasks in their order, whatever the tasks (GenerateRoutePoints and
\* OutputRoutePoints of route_points_generator.cpp).
THEOREM RouteForAll == problem \in RouteProblem => RouteRight
<1> SUFFICES ASSUME problem \in RouteProblem PROVE RouteRight
  OBVIOUS
<1>1. problem.tasks \in Seq(Task)
  BY DEF RouteProblem
<1>2. Route!PathIsOutput(problem.tasks)
  BY <1>1, PathRight
<1>3. Route!RecordsInOrder(problem.tasks)
  BY <1>1, RecordsRight
<1> QED BY <1>2, <1>3 DEF RouteRight

-----------------------------------------------------------------------------
(* The converters of stamps.  The digits of bytes are taken one byte at a     *)
(* time: two per byte, or too few; their pairs are the bytes again, and the  *)
(* fraction is that of the first three digits of the nanoseconds.            *)
\* The values of a sequence's elements.
Values(f, s) == [k \in DOMAIN s |-> f[s[k]]]
\* One element more, one value more behind the others.
LEMMA ValuesAppend ==
  ASSUME NEW f \in [Byte -> Seq(Int)], NEW s \in Seq(Byte), NEW x \in Byte
  PROVE  Values(f, s) \in Seq(Seq(Int)) /\ Values(f, Append(s, x)) = Append(Values(f, s), f[x])
<1> DEFINE P(t) == [k \in DOMAIN t |-> f[t[k]]]
<1>1. \A t \in Seq(Byte) : P(t) \in Seq(Seq(Int)) /\ Len(P(t)) = Len(t)
  <2> TAKE t \in Seq(Byte)
  <2>1. DOMAIN t = 1..Len(t) /\ Len(t) \in Nat /\ (\A k \in 1..Len(t) : t[k] \in Byte)
    OBVIOUS
  <2>2. [k \in 1..Len(t) |-> f[t[k]]] \in [1..Len(t) -> Seq(Int)]
    BY <2>1
  <2> QED BY <2>1, <2>2
<1>2. P(Append(s, x)) = Append(P(s), f[x])
  <2> DEFINE a == P(Append(s, x))
             b == Append(P(s), f[x])
  <2>1. Append(s, x) \in Seq(Byte) /\ Len(Append(s, x)) = Len(s) + 1 /\ Len(s) \in Nat
    OBVIOUS
  <2>2. a \in Seq(Seq(Int)) /\ Len(a) = Len(s) + 1
    BY <1>1, <2>1
  <2>3. P(s) \in Seq(Seq(Int)) /\ Len(P(s)) = Len(s) /\ f[x] \in Seq(Int)
    BY <1>1
  <2>4. b \in Seq(Seq(Int)) /\ Len(b) = Len(s) + 1 /\ b[Len(s) + 1] = f[x]
        /\ (\A k \in 1..Len(s) : b[k] = P(s)[k])
    <3> HIDE DEF P
    <3> QED BY <2>1, <2>3
  <2>5. \A k \in 1..(Len(s) + 1) : a[k] = b[k]
    <3> TAKE k \in 1..(Len(s) + 1)
    <3> HIDE DEF b
    <3>1. a[k] = f[Append(s, x)[k]]
      BY <2>1
    <3>2. CASE k = Len(s) + 1
      <4>1. Append(s, x)[k] = x
        BY <3>2
      <4> QED BY <2>4, <3>1, <3>2, <4>1
    <3>3. CASE k # Len(s) + 1
      <4>1. k \in 1..Len(s) /\ DOMAIN s = 1..Len(s)
        BY <2>1, <3>3
      <4>2. Append(s, x)[k] = s[k]
        BY <4>1
      <4>3. P(s)[k] = f[s[k]]
        BY <4>1
      <4> HIDE DEF a, P
      <4> QED BY <2>4, <3>1, <4>1, <4>2, <4>3
    <3> QED BY <3>2, <3>3
  <2> HIDE DEF a, b
  <2>6. a = b
    BY <2>2, <2>4, <2>5, SeqEqual
  <2> QED BY <2>6 DEF a, b
<1>3. P(s) \in Seq(Seq(Int))
  BY <1>1
<1> QED BY <1>2, <1>3 DEF Values

\* A byte has two digits if the tool pads it or it needs them, else one.
TwoDigits(tool, b) == tool = "read_hex_string" \/ b >= 16
\* The digits of one byte.
LEMMA DigitsOfByte ==
  ASSUME NEW tool, NEW b \in Byte
  PROVE  /\ Hex!Digits(tool, b) \in Seq(Int)
         /\ Len(Hex!Digits(tool, b)) = (IF TwoDigits(tool, b) THEN 2 ELSE 1)
         /\ TwoDigits(tool, b) => Hex!Digits(tool, b)[1] = b \div 16 /\ Hex!Digits(tool, b)[2] = b % 16
<1>1. b \in Int /\ b \div 16 \in Int /\ b % 16 \in Int
  BY DEF Byte
<1>2. /\ <<b>> \in Seq(Int) /\ Len(<<b>>) = 1
      /\ <<b \div 16, b % 16>> \in Seq(Int) /\ Len(<<b \div 16, b % 16>>) = 2
      /\ <<b \div 16, b % 16>>[1] = b \div 16 /\ <<b \div 16, b % 16>>[2] = b % 16
  BY <1>1
<1>3. CASE TwoDigits(tool, b)
  <2>1. Hex!Digits(tool, b) = <<b \div 16, b % 16>>
    BY <1>1, <1>3 DEF Hex!Digits, TwoDigits
  <2> QED BY <1>2, <1>3, <2>1
<1>4. CASE ~ TwoDigits(tool, b)
  <2>1. Hex!Digits(tool, b) = <<b>>
    BY <1>1, <1>4 DEF Hex!Digits, TwoDigits
  <2> QED BY <1>2, <1>4, <2>1
<1> QED BY <1>3, <1>4

\* One byte more, its digits more.
LEMMA HexAppend ==
  ASSUME NEW tool, NEW bytes \in Seq(Byte), NEW b \in Byte
  PROVE  Hex!string_to_hex(tool, Append(bytes, b)) = Hex!string_to_hex(tool, bytes) \o Hex!Digits(tool, b)
<1> DEFINE f == [c \in Byte |-> Hex!Digits(tool, c)]
<1>1. f \in [Byte -> Seq(Int)] /\ f[b] = Hex!Digits(tool, b) /\ Hex!Digits(tool, b) \in Seq(Int)
  BY DigitsOfByte
<1>2. \A s \in Seq(Byte) : Hex!string_to_hex(tool, s) = Route!FlattenSeq(Values(f, s))
  <2> SUFFICES ASSUME NEW s \in Seq(Byte) PROVE Hex!string_to_hex(tool, s) = Route!FlattenSeq(Values(f, s))
    OBVIOUS
  <2>1. \A k \in DOMAIN s : f[s[k]] = Hex!Digits(tool, s[k])
    OBVIOUS
  <2>2. Values(f, s) = [k \in DOMAIN s |-> Hex!Digits(tool, s[k])]
    BY <2>1 DEF Values
  <2> HIDE DEF f
  <2>3. Hex!string_to_hex(tool, s) = Hex!FlattenSeq(Values(f, s))
    BY <2>2 DEF Hex!string_to_hex
  <2>4. Hex!FlattenSeq(Values(f, s)) = Route!FlattenSeq(Values(f, s))
    BY DEF Hex!FlattenSeq, Route!FlattenSeq
  <2> QED BY <2>3, <2>4
<1> HIDE DEF f
<1>3. Values(f, bytes) \in Seq(Seq(Int)) /\ Values(f, Append(bytes, b)) = Append(Values(f, bytes), f[b])
  BY <1>1, ValuesAppend
<1>4. Append(bytes, b) \in Seq(Byte)
  OBVIOUS
<1> DEFINE curves == Values(f, bytes)
           c == f[b]
<1>5. curves \in Seq(Seq(Int)) /\ c \in Seq(Int)
  BY <1>1, <1>3
<1> HIDE DEF curves, c
<1>6. Route!FlattenSeq(Append(curves, c)) = Route!FlattenSeq(curves) \o c
  BY <1>5, FlattenAppend
<1> QED BY <1>1, <1>2, <1>3, <1>4, <1>6 DEF curves, c

\* The digits of bytes: two per byte, where none of them has only one.
HexRight(tool, bytes) ==
  LET digits == Hex!string_to_hex(tool, bytes)
      n == Len(bytes)
  IN  /\ digits \in Seq(Int) /\ Len(digits) <= 2 * n
      /\ (\A i \in 1..n : TwoDigits(tool, bytes[i])) =>
            /\ Len(digits) = 2 * n
            /\ \A i \in 1..n : digits[2 * i - 1] = bytes[i] \div 16 /\ digits[2 * i] = bytes[i] % 16
      /\ (\E i \in 1..n : ~ TwoDigits(tool, bytes[i])) => Len(digits) < 2 * n

\* One byte more behind bytes whose digits are right.
LEMMA HexStep ==
  ASSUME NEW tool, NEW bytes \in Seq(Byte), HexRight(tool, bytes), NEW b \in Byte
  PROVE  HexRight(tool, Append(bytes, b))
<1> DEFINE n == Len(bytes)
           more == Append(bytes, b)
           before == Hex!string_to_hex(tool, bytes)
           tail == Hex!Digits(tool, b)
           digits == Hex!string_to_hex(tool, more)
<1>1. /\ before \in Seq(Int) /\ Len(before) <= 2 * n /\ Len(before) \in Nat /\ n \in Nat
      /\ (\A i \in 1..n : TwoDigits(tool, bytes[i])) =>
            /\ Len(before) = 2 * n
            /\ \A i \in 1..n : before[2 * i - 1] = bytes[i] \div 16 /\ before[2 * i] = bytes[i] % 16
      /\ (\E i \in 1..n : ~ TwoDigits(tool, bytes[i])) => Len(before) < 2 * n
  BY DEF HexRight
<1>2. Len(more) = n + 1 /\ more[n + 1] = b /\ (\A i \in 1..n : more[i] = bytes[i])
  OBVIOUS
<1>3. digits = before \o tail
  BY HexAppend
<1>4. tail \in Seq(Int) /\ Len(tail) = (IF TwoDigits(tool, b) THEN 2 ELSE 1)
      /\ (TwoDigits(tool, b) => tail[1] = b \div 16 /\ tail[2] = b % 16)
  BY DigitsOfByte
<1>5. /\ TwoDigits(tool, b) => Len(tail) = 2 /\ tail[1] = b \div 16 /\ tail[2] = b % 16
      /\ ~ TwoDigits(tool, b) => Len(tail) = 1
      /\ Len(tail) \in Nat /\ Len(tail) <= 2
  <2> HIDE DEF tail
  <2>1. CASE TwoDigits(tool, b)
    BY <1>4, <2>1
  <2>2. CASE ~ TwoDigits(tool, b)
    BY <1>4, <2>2
  <2> QED BY <2>1, <2>2
<1> HIDE DEF before, tail, n, more, digits
<1>6. digits \in Seq(Int) /\ Len(digits) = Len(before) + Len(tail)
      /\ (\A i \in 1..Len(before) : digits[i] = before[i]) /\ (\A i \in 1..Len(tail) : digits[Len(before) + i] = tail[i])
  <2>1. before \in Seq(Int) /\ tail \in Seq(Int)
    BY <1>1, <1>4
  <2>2. digits \in Seq(Int) /\ Len(digits) = Len(before) + Len(tail)
    BY <1>3, <2>1
  <2>3. \A i \in 1..Len(before) : digits[i] = before[i]
    BY <1>3, <2>1
  <2>4. \A i \in 1..Len(tail) : digits[Len(before) + i] = tail[i]
    <3> TAKE i \in 1..Len(tail)
    <3>1. Len(before) \in Nat /\ Len(tail) \in Nat
      BY <2>1
    <3>2. Len(before) + i \in 1..(Len(before) + Len(tail)) /\ Len(before) + i > Len(before)
          /\ (Len(before) + i) - Len(before) = i
      BY <3>1
    <3> QED BY <1>3, <2>1, <3>2
  <2> QED BY <2>2, <2>3, <2>4
<1>7. Len(digits) <= 2 * (n + 1)
  BY <1>1, <1>5, <1>6
<1>8. ASSUME \A i \in 1..(n + 1) : TwoDigits(tool, more[i])
      PROVE  /\ Len(digits) = 2 * (n + 1)
             /\ \A i \in 1..(n + 1) : digits[2 * i - 1] = more[i] \div 16 /\ digits[2 * i] = more[i] % 16
  <2>1. \A i \in 1..n : TwoDigits(tool, bytes[i])
    BY <1>1, <1>2, <1>8
  <2>2. TwoDigits(tool, b) /\ n + 1 \in 1..(n + 1)
    BY <1>1, <1>2, <1>8
  <2>3. Len(before) = 2 * n /\ Len(tail) = 2 /\ tail[1] = b \div 16 /\ tail[2] = b % 16
    BY <1>1, <1>5, <2>1, <2>2
  <2>4. ASSUME NEW i \in 1..(n + 1)
        PROVE  digits[2 * i - 1] = more[i] \div 16 /\ digits[2 * i] = more[i] % 16
    <3>1. CASE i = n + 1
      <4>1. 2 * i - 1 = Len(before) + 1 /\ 2 * i = Len(before) + 2 /\ 1 \in 1..Len(tail) /\ 2 \in 1..Len(tail)
        BY <1>1, <2>3, <3>1
      <4>2. digits[Len(before) + 1] = tail[1] /\ digits[Len(before) + 2] = tail[2]
        BY <1>6, <4>1
      <4> QED BY <1>2, <2>3, <3>1, <4>1, <4>2
    <3>2. CASE i # n + 1
      <4>1. i \in 1..n /\ 2 * i - 1 \in 1..Len(before) /\ 2 * i \in 1..Len(before)
        BY <1>1, <2>3, <3>2
      <4>2. before[2 * i - 1] = bytes[i] \div 16 /\ before[2 * i] = bytes[i] % 16 /\ more[i] = bytes[i]
        BY <1>1, <1>2, <2>1, <4>1
      <4>3. digits[2 * i - 1] = before[2 * i - 1] /\ digits[2 * i] = before[2 * i]
        BY <1>6, <4>1
      <4> QED BY <4>2, <4>3
    <3> QED BY <3>1, <3>2
  <2>5. Len(digits) = 2 * (n + 1)
    BY <1>1, <1>6, <2>3
  <2> QED BY <2>4, <2>5
<1>9. ASSUME NEW i \in 1..(n + 1), ~ TwoDigits(tool, more[i])
      PROVE  Len(digits) < 2 * (n + 1)
  <2>1. CASE i = n + 1
    <3>1. Len(tail) = 1
      BY <1>2, <1>5, <1>9, <2>1
    <3> QED BY <1>1, <1>6, <3>1
  <2>2. CASE i # n + 1
    <3>1. i \in 1..n /\ more[i] = bytes[i]
      BY <1>1, <1>2, <2>2
    <3>2. Len(before) < 2 * n
      BY <1>1, <1>9, <3>1
    <3>3. Len(tail) <= 2
      BY <1>5
    <3>4. Len(tail) \in Nat
      BY <1>5
    <3> QED BY <1>1, <1>6, <3>2, <3>3, <3>4
  <2> QED BY <2>1, <2>2
<1>10. HexRight(tool, more)
  BY <1>2, <1>6, <1>7, <1>8, <1>9 DEF HexRight, digits
<1> QED BY <1>10 DEF more

\* The digits of bytes are right, however many bytes there are.
LEMMA HexOfBytes ==
  ASSUME NEW tool
  PROVE  \A bytes \in Seq(Byte) : HexRight(tool, bytes)
<1> DEFINE Good == {bytes \in Seq(Byte) : HexRight(tool, bytes)}
<1>1. <<>> \in Good
  <2>1. [i \in DOMAIN <<>> |-> Hex!Digits(tool, <<>>[i])] = <<>>
    OBVIOUS
  <2>2. Hex!FlattenSeq(<<>>) = <<>>
    BY DEF Hex!FlattenSeq
  <2>3. Hex!string_to_hex(tool, <<>>) = <<>>
    BY <2>1, <2>2 DEF Hex!string_to_hex
  <2> DEFINE none == <<>>
  <2>4. none \in Seq(Int) /\ none \in Seq(Byte) /\ Len(none) = 0 /\ 1..0 = {}
        /\ Hex!string_to_hex(tool, none) = none
    BY <2>3
  <2> HIDE DEF none
  <2>5. HexRight(tool, none)
    BY <2>4 DEF HexRight
  <2> QED BY <2>4, <2>5 DEF none
<1>2. ASSUME NEW s \in Good, NEW b \in Byte PROVE Append(s, b) \in Good
  <2>1. HexRight(tool, Append(s, b))
    BY HexStep
  <2>2. Append(s, b) \in Seq(Byte)
    OBVIOUS
  <2> QED BY <2>1, <2>2
<1>3. Good \in SUBSET Seq(Byte)
  OBVIOUS
<1>4. Good = Seq(Byte)
  <2> HIDE DEF Good
  <2> QED BY <1>1, <1>2, <1>3, AppendInduction
<1> QED BY <1>4

\* With all digits there, the numbers parsed are the words of the stamp.
LEMMA ParsedRight ==
  ASSUME NEW tool, NEW bytes \in Seq(Byte), Len(bytes) = 8,
         \A i \in 1..8 : TwoDigits(tool, bytes[i])
  PROVE  LET digits == Hex!string_to_hex(tool, bytes)
         IN  /\ Len(digits) = 16
             /\ Hex!Parsed(digits, 1) = Hex!Word(bytes)
             /\ Hex!Parsed(digits, 9) = Hex!Word(SubSeq(bytes, 5, 8))
<1> DEFINE digits == Hex!string_to_hex(tool, bytes)
<1>1. Len(digits) = 16 /\ (\A i \in 1..8 : digits[2 * i - 1] = bytes[i] \div 16 /\ digits[2 * i] = bytes[i] % 16)
  <2>1. HexRight(tool, bytes)
    BY HexOfBytes
  <2> QED BY <2>1 DEF HexRight
<1>2. \A i \in 1..8 : bytes[i] \in Int /\ bytes[i] = (bytes[i] \div 16) * 16 + (bytes[i] % 16)
  <2> TAKE i \in 1..8
  <2>1. DOMAIN bytes = 1..8 /\ bytes \in [1..Len(bytes) -> Byte]
    OBVIOUS
  <2>2. bytes[i] \in Byte
    BY <2>1
  <2>3. bytes[i] \in Int
    <3>1. Byte \subseteq Int
      BY DEF Byte
    <3> QED BY <2>2, <3>1
  <2>4. \A b \in Int : b = (b \div 16) * 16 + (b % 16)
    OBVIOUS
  <2> QED BY <2>3, <2>4
<1> HIDE DEF digits
<1>3. \A i \in 1..8 : digits[2 * i - 1] * 16 + digits[2 * i] = bytes[i]
  BY <1>1, <1>2
<1>4. /\ digits[1] * 16 + digits[2] = bytes[1] /\ digits[3] * 16 + digits[4] = bytes[2]
      /\ digits[5] * 16 + digits[6] = bytes[3] /\ digits[7] * 16 + digits[8] = bytes[4]
      /\ digits[9] * 16 + digits[10] = bytes[5] /\ digits[11] * 16 + digits[12] = bytes[6]
      /\ digits[13] * 16 + digits[14] = bytes[7] /\ digits[15] * 16 + digits[16] = bytes[8]
  <2>1. /\ digits[2 * 1 - 1] * 16 + digits[2 * 1] = bytes[1] /\ digits[2 * 2 - 1] * 16 + digits[2 * 2] = bytes[2]
        /\ digits[2 * 3 - 1] * 16 + digits[2 * 3] = bytes[3] /\ digits[2 * 4 - 1] * 16 + digits[2 * 4] = bytes[4]
        /\ digits[2 * 5 - 1] * 16 + digits[2 * 5] = bytes[5] /\ digits[2 * 6 - 1] * 16 + digits[2 * 6] = bytes[6]
        /\ digits[2 * 7 - 1] * 16 + digits[2 * 7] = bytes[7] /\ digits[2 * 8 - 1] * 16 + digits[2 * 8] = bytes[8]
    BY <1>3
  <2> QED BY <2>1
<1>5. Hex!Parsed(digits, 1) = ((bytes[4] * 256 + bytes[3]) * 256 + bytes[2]) * 256 + bytes[1]
  BY <1>4 DEF Hex!Parsed
<1>6. Hex!Parsed(digits, 9) = ((bytes[8] * 256 + bytes[7]) * 256 + bytes[6]) * 256 + bytes[5]
  BY <1>4 DEF Hex!Parsed
<1>7. \A a, b, c, d \in Int : ((d * 256 + c) * 256 + b) * 256 + a = a + 256 * b + 65536 * c + 16777216 * d
  BY SMT
<1>8. Hex!Parsed(digits, 1) = Hex!Word(bytes)
  <2>1. bytes[1] \in Int /\ bytes[2] \in Int /\ bytes[3] \in Int /\ bytes[4] \in Int
    BY <1>2
  <2>2. Hex!Word(bytes) = bytes[1] + 256 * bytes[2] + 65536 * bytes[3] + 16777216 * bytes[4]
    BY SMT DEF Hex!Word
  <2>3. ((bytes[4] * 256 + bytes[3]) * 256 + bytes[2]) * 256 + bytes[1]
          = bytes[1] + 256 * bytes[2] + 65536 * bytes[3] + 16777216 * bytes[4]
    <3> DEFINE a == bytes[1]
               b == bytes[2]
               c == bytes[3]
               d == bytes[4]
    <3>1. a \in Int /\ b \in Int /\ c \in Int /\ d \in Int
      BY <2>1
    <3> HIDE DEF a, b, c, d
    <3>2. ((d * 256 + c) * 256 + b) * 256 + a = a + 256 * b + 65536 * c + 16777216 * d
      BY <1>7, <3>1, SMT
    <3> QED BY <3>2, SMT DEF a, b, c, d
  <2> QED BY <1>5, <2>2, <2>3, SMT
<1>9. Hex!Parsed(digits, 9) = Hex!Word(SubSeq(bytes, 5, 8))
  <2> DEFINE tail == SubSeq(bytes, 5, 8)
  <2>1. tail[1] = bytes[5] /\ tail[2] = bytes[6] /\ tail[3] = bytes[7] /\ tail[4] = bytes[8]
    BY SMT
  <2> HIDE DEF tail
  <2>2. bytes[5] \in Int /\ bytes[6] \in Int /\ bytes[7] \in Int /\ bytes[8] \in Int
    BY <1>2
  <2>3. Hex!Word(tail) = tail[1] + 256 * tail[2] + 65536 * tail[3] + 16777216 * tail[4]
    BY SMT DEF Hex!Word
  <2>4. ((bytes[8] * 256 + bytes[7]) * 256 + bytes[6]) * 256 + bytes[5]
          = tail[1] + 256 * tail[2] + 65536 * tail[3] + 16777216 * tail[4]
    <3> DEFINE a == bytes[5]
               b == bytes[6]
               c == bytes[7]
               d == bytes[8]
    <3>1. a \in Int /\ b \in Int /\ c \in Int /\ d \in Int
          /\ tail[1] = a /\ tail[2] = b /\ tail[3] = c /\ tail[4] = d
      BY <2>1, <2>2
    <3> HIDE DEF a, b, c, d
    <3>2. ((d * 256 + c) * 256 + b) * 256 + a = a + 256 * b + 65536 * c + 16777216 * d
      BY <1>7, <3>1, SMT
    <3>3. ((d * 256 + c) * 256 + b) * 256 + a = tail[1] + 256 * tail[2] + 65536 * tail[3] + 16777216 * tail[4]
      BY <3>1, <3>2, SMT
    <3> QED BY <3>3, SMT DEF a, b, c, d
  <2> QED BY <1>6, <2>3, <2>4, SMT DEF tail
<1> QED BY <1>1, <1>8, <1>9, SMT DEF digits

\* The first digits are those of the scale that leaves three.
LEMMA FirstDigitsFit ==
  ASSUME NEW ns, \E scale \in Hex!Scales : ns \div scale \in 100..999
  PROVE  \E scale \in Hex!Scales : Hex!FirstDigits(ns) = ns \div scale /\ Hex!FirstDigits(ns) \in 100..999
<1> DEFINE Fits(q) == ns \div q \in 100..999
           scale == CHOOSE q \in Hex!Scales : Fits(q)
<1>1. \E q \in Hex!Scales : Fits(q)
  OBVIOUS
<1> HIDE DEF Fits
<1>2. scale \in Hex!Scales /\ Fits(scale)
  BY <1>1, Zenon
<1>3. Hex!FirstDigits(ns) = ns \div scale
  BY DEF Hex!FirstDigits, Fits
<1> HIDE DEF scale
<1> QED BY <1>2, <1>3 DEF Fits

\* The hundredths printed are those of the nanoseconds if and only if these
\* have nine digits, or are none.
LEMMA FractionRight ==
  ASSUME NEW ns \in Nat, ns < 1000000000
  PROVE  /\ Hex!Fraction(ns) \in 0..100 /\ (ns + 5000000) \div 10000000 \in 0..100
         /\ Hex!Fraction(ns) = (ns + 5000000) \div 10000000 <=> ns = 0 \/ ns >= 100000000
<1> DEFINE n == Hex!FirstDigits(ns)
           true == (ns + 5000000) \div 10000000
<1>1. ns \in Int /\ true \in 0..100 /\ (ns < 95000000 => true < 10) /\ (ns < 100000000 => true <= 10)
  BY SMT
<1>2. ASSUME ns >= 100
      PROVE  \E scale \in Hex!Scales : n = ns \div scale /\ n \in 100..999
  <2> DEFINE Fits(q) == ns \div q \in 100..999
  <2> HIDE DEF Fits
  <2>1. \A q \in {1, 10, 100, 1000, 10000, 100000, 1000000} : q \in Hex!Scales
    BY SMT DEF Hex!Scales
  <2>2. \E scale \in Hex!Scales : Fits(scale)
    <3>1. CASE ns < 1000
      <4>1. Fits(1)
        BY <1>2, <3>1, SMTT(30) DEF Fits
      <4> QED BY <2>1, <4>1, SMT
    <3>2. CASE ns >= 1000 /\ ns < 10000
      <4>1. Fits(10)
        BY <3>2, SMTT(30) DEF Fits
      <4> QED BY <2>1, <4>1, SMT
    <3>3. CASE ns >= 10000 /\ ns < 100000
      <4>1. Fits(100)
        BY <3>3, SMTT(30) DEF Fits
      <4> QED BY <2>1, <4>1, SMT
    <3>4. CASE ns >= 100000 /\ ns < 1000000
      <4>1. Fits(1000)
        BY <3>4, SMTT(30) DEF Fits
      <4> QED BY <2>1, <4>1, SMT
    <3>5. CASE ns >= 1000000 /\ ns < 10000000
      <4>1. Fits(10000)
        BY <3>5, SMTT(30) DEF Fits
      <4> QED BY <2>1, <4>1, SMT
    <3>6. CASE ns >= 10000000 /\ ns < 100000000
      <4>1. Fits(100000)
        BY <3>6, SMTT(30) DEF Fits
      <4> QED BY <2>1, <4>1, SMT
    <3>7. CASE ns >= 100000000
      <4>1. Fits(1000000)
        BY <3>7, SMTT(30) DEF Fits
      <4> QED BY <2>1, <4>1, SMT
    <3> QED BY <1>1, <3>1, <3>2, <3>3, <3>4, <3>5, <3>6, <3>7, SMT
  <2> QED BY <2>2, FirstDigitsFit, SMT DEF Fits
<1>3. ASSUME ns >= 100000000 PROVE n = ns \div 1000000
  <2>1. PICK scale \in Hex!Scales : n = ns \div scale /\ n \in 100..999
    BY <1>2, <1>3, SMT
  <2> HIDE DEF n
  <2>2. ns \div 1 > 999 /\ ns \div 10 > 999 /\ ns \div 100 > 999 /\ ns \div 1000 > 999 /\ ns \div 10000 > 999
        /\ ns \div 100000 > 999 /\ ns \div 10000000 < 100
    BY <1>3, SMT
  <2>3. scale = 1000000
    BY <2>1, <2>2, SMT DEF Hex!Scales
  <2> QED BY <2>1, <2>3, SMT
<1>4. Hex!Fraction(ns) = IF ns < 10 THEN 10 * ns ELSE IF ns < 100 THEN ns ELSE (n + 5) \div 10
  BY SMT DEF Hex!Fraction
<1>5. ns >= 100 => n \in 100..999
  BY <1>2, SMT
<1> HIDE DEF n
<1>6. CASE ns = 0
  BY <1>4, <1>6, SMT
<1>7. CASE ns > 0 /\ ns < 100
  <2>1. Hex!Fraction(ns) \in 10..99 /\ true = 0
    BY <1>4, <1>7, SMT
  <2> QED BY <1>7, <2>1, SMT
<1>8. CASE ns >= 100 /\ ns < 95000000
  <2>1. (n + 5) \div 10 \in 10..100
    BY <1>5, <1>8, SMT
  <2> HIDE DEF true
  <2>2. Hex!Fraction(ns) \in 10..100 /\ true < 10 /\ true \in 0..100
    BY <1>1, <1>4, <1>8, <2>1, SMT
  <2> QED BY <1>8, <2>2, SMT DEF true
<1>9. CASE ns >= 95000000 /\ ns < 100000000
  <2>1. n >= 950
    <3>1. PICK scale \in Hex!Scales : n = ns \div scale /\ n \in 100..999
      BY <1>2, <1>9, SMT
    <3>2. ns \div 1 > 999 /\ ns \div 10 > 999 /\ ns \div 100 > 999 /\ ns \div 1000 > 999 /\ ns \div 10000 > 999
          /\ ns \div 1000000 < 100 /\ ns \div 10000000 < 100
      BY <1>9, SMT
    <3>3. scale = 100000
      BY <3>1, <3>2, SMT DEF Hex!Scales
    <3>4. ns \div 100000 >= 950
      BY <1>9, SMT
    <3> QED BY <3>1, <3>3, <3>4, SMT
  <2>2. (n + 5) \div 10 \in 95..100
    BY <1>5, <1>9, <2>1, SMT
  <2> HIDE DEF true
  <2>3. Hex!Fraction(ns) \in 95..100 /\ true <= 10 /\ true \in 0..100
    BY <1>1, <1>4, <1>9, <2>2, SMT
  <2> QED BY <1>9, <2>3, SMT DEF true
<1>10. CASE ns >= 100000000
  <2>1. n = ns \div 1000000
    BY <1>3, <1>10, SMT
  <2>2. ((ns \div 1000000) + 5) \div 10 = (ns + 5000000) \div 10000000
    <3> DEFINE q == ns \div 1000000
    <3>1. q \in Int /\ 1000000 * q <= ns /\ ns < 1000000 * q + 1000000
      BY <1>1, SMT
    <3> DEFINE m == (q + 5) \div 10
    <3>2. m \in Int /\ 10 * m <= q + 5 /\ q + 5 < 10 * m + 10
      <4> HIDE DEF q
      <4> QED BY <3>1, SMT
    <3> HIDE DEF q, m
    <3>3. 10000000 * m <= ns + 5000000 /\ ns + 5000000 < 10000000 * m + 10000000
      BY <3>1, <3>2, SMT
    <3>4. (ns + 5000000) \div 10000000 = m
      BY <1>1, <3>2, <3>3, SMT
    <3> QED BY <3>4, SMT DEF m, q
  <2>3. Hex!Fraction(ns) = true
    BY <1>4, <1>10, <2>1, <2>2, SMT
  <2> HIDE DEF true
  <2> QED BY <1>1, <1>10, <2>3, SMT DEF true
<1> QED BY <1>1, <1>6, <1>7, <1>8, <1>9, <1>10, SMT

\* The four bytes of the nanoseconds are those of their word.
LEMMA WordOfBytes ==
  ASSUME NEW ns \in Nat, ns < 1000000000
  PROVE  /\ ns % 256 \in Byte /\ (ns \div 256) % 256 \in Byte
         /\ (ns \div 65536) % 256 \in Byte /\ ns \div 16777216 \in Byte
         /\ ns = (ns % 256) + 256 * ((ns \div 256) % 256) + 65536 * ((ns \div 65536) % 256)
                 + 16777216 * (ns \div 16777216)
<1> DEFINE a == ns \div 256
           b == ns \div 65536
           c == ns \div 16777216
<1>1. \A n \in Int : n = 256 * (n \div 256) + (n % 256) /\ n % 256 \in Int /\ 0 <= n % 256 /\ n % 256 < 256 /\ n \div 256 \in Int
  BY SMT
<1>2. b = a \div 256
  BY SMT
<1>3. c = b \div 256
  BY SMT
<1>4. c \in Int /\ 0 <= c /\ c < 256
  BY SMT
<1>5. Byte = {n \in Int : 0 <= n /\ n < 256}
  <2> DEFINE bytes == 0..255
  <2>1. bytes = {n \in Int : 0 <= n /\ n < 256}
    BY SMT
  <2> QED BY <2>1, SMT DEF Byte
<1>6. ns \in Int /\ a \in Int /\ b \in Int
  BY SMT
<1>7. ns = 256 * a + (ns % 256) /\ a = 256 * b + (a % 256) /\ b = 256 * c + (b % 256)
      /\ ns % 256 \in Int /\ 0 <= ns % 256 /\ ns % 256 < 256 /\ a % 256 \in Int /\ 0 <= a % 256 /\ a % 256 < 256
      /\ b % 256 \in Int /\ 0 <= b % 256 /\ b % 256 < 256
  <2> HIDE DEF a, b, c
  <2>1. ns = 256 * (ns \div 256) + (ns % 256) /\ a = 256 * (a \div 256) + (a % 256) /\ b = 256 * (b \div 256) + (b % 256)
      /\ ns % 256 \in Int /\ 0 <= ns % 256 /\ ns % 256 < 256 /\ a % 256 \in Int /\ 0 <= a % 256 /\ a % 256 < 256
      /\ b % 256 \in Int /\ 0 <= b % 256 /\ b % 256 < 256
    BY <1>1, <1>6, SMT
  <2>2. a = ns \div 256
    BY SMT DEF a
  <2> QED BY <1>2, <1>3, <2>1, <2>2, SMT
<1> DEFINE p == ns % 256
           q == a % 256
           r == b % 256
<1>8. p \in Byte /\ q \in Byte /\ r \in Byte /\ c \in Byte
  <2> HIDE DEF c
  <2> QED BY <1>4, <1>5, <1>7, SMT
<1>9. ns = p + 256 * q + 65536 * r + 16777216 * c
  <2>1. p \in Int /\ q \in Int /\ r \in Int /\ ns = 256 * a + p /\ a = 256 * b + q /\ b = 256 * c + r
    BY <1>7, SMT
  <2> HIDE DEF a, b, c, p, q, r
  <2> QED BY <1>4, <1>6, <2>1, SMT
<1> QED BY <1>8, <1>9, SMT

\* The elements of eight bytes.
LEMMA EightBytes ==
  ASSUME NEW bytes \in Seq(Byte), Len(bytes) = 8
  PROVE  DOMAIN bytes = 1..8 /\ \A i \in 1..8 : bytes[i] \in Byte
<1>1. \A i \in 1..Len(bytes) : bytes[i] \in Byte
  BY ElementOfSeq
<1>2. DOMAIN bytes = 1..Len(bytes)
  OBVIOUS
<1> QED BY <1>1, <1>2

\* What the program receives of eight bytes: all, or less than eight.
LEMMA ReceivedRight ==
  ASSUME NEW tool, NEW bytes \in Seq(Byte), Len(bytes) = 8
  PROVE  /\ (\A i \in 1..8 : bytes[i] \notin Hex!Terminator(tool)) => Hex!Received(tool, bytes) = bytes
         /\ (\E i \in 1..8 : bytes[i] \in Hex!Terminator(tool)) =>
               Hex!Received(tool, bytes) \in Seq(Byte) /\ Len(Hex!Received(tool, bytes)) < 8
<1> DEFINE ends == {i \in DOMAIN bytes : bytes[i] \in Hex!Terminator(tool)}
<1>1. DOMAIN bytes = 1..8 /\ \A i \in 1..8 : bytes[i] \in Byte
  BY EightBytes
<1>2. Hex!Received(tool, bytes) = IF ends = {} THEN bytes ELSE SubSeq(bytes, 1, Hex!Min(ends) - 1)
  BY DEF Hex!Received
<1>3. CASE ends = {}
  <2>1. \A i \in 1..8 : bytes[i] \notin Hex!Terminator(tool)
    BY <1>1, <1>3
  <2> QED BY <1>2, <1>3, <2>1
<1>4. CASE ends # {}
  <2> DEFINE m == Hex!Min(ends)
  <2>1. m \in ends
    <3>1. ends \subseteq Nat
      BY <1>1
    <3> HIDE DEF ends
    <3>2. \E x \in ends : \A y \in ends : x <= y
      BY <1>4, <3>1, LeastNat
    <3> QED BY <3>2, Zenon DEF Hex!Min
  <2>2. m \in 1..8
    BY <1>1, <2>1
  <2>3. \E i \in 1..8 : bytes[i] \in Hex!Terminator(tool)
    BY <2>1, <2>2
  <2> HIDE DEF m, ends
  <2>4. SubSeq(bytes, 1, m - 1) \in Seq(Byte) /\ Len(SubSeq(bytes, 1, m - 1)) = m - 1
    <3>1. m - 1 \in 0..8 /\ 1 \in 1..9 /\ m - 1 \in Int
      BY <2>2
    <3>2. \A i \in 1..(m - 1) : bytes[i] \in Byte
      <4>1. \A i \in 1..(m - 1) : i \in 1..8
        BY <2>2
      <4> QED BY <1>1, <4>1
    <3>3. /\ SubSeq(bytes, 1, m - 1) \in Seq(Byte)
          /\ Len(SubSeq(bytes, 1, m - 1)) = (IF 1 <= m - 1 THEN m - 1 - 1 + 1 ELSE 0)
      BY <3>1, <3>2, SubSeqProperties
    <3> QED BY <2>2, <3>1, <3>3
  <2>5. Hex!Received(tool, bytes) = SubSeq(bytes, 1, m - 1)
    BY <1>2, <1>4 DEF m
  <2>6. Len(Hex!Received(tool, bytes)) < 8
    BY <2>2, <2>4, <2>5
  <2> QED BY <2>3, <2>4, <2>5, <2>6
<1> QED BY <1>3, <1>4

\* Where no byte ends the input or lacks a digit, the words are printed; else
\* there are too few digits, whichever of the two it was.
LEMMA PrintedDigits ==
  ASSUME NEW tool \in Hex!Tool, NEW bytes \in Seq(Byte), Len(bytes) = 8
  PROVE  LET lost == IF tool = "read_hex_string" THEN {10} ELSE 0..15
             ns == Hex!Word(SubSeq(bytes, 5, 8))
         IN  Hex!Printed(tool, bytes) =
               IF Hex!Range(bytes) \cap lost = {} THEN Hex!Seconds(Hex!Word(bytes), Hex!Fraction(ns)) ELSE <<>>
<1> DEFINE lost == IF tool = "read_hex_string" THEN {10} ELSE 0..15
           Whole(i) == bytes[i] \notin Hex!Terminator(tool) /\ TwoDigits(tool, bytes[i])
           received == Hex!Received(tool, bytes)
           digits == Hex!string_to_hex(tool, received)
<1>1. DOMAIN bytes = 1..8 /\ \A i \in 1..8 : bytes[i] \in Byte
  BY EightBytes
<1>2. \A b \in Byte : b \notin lost <=> b \notin Hex!Terminator(tool) /\ TwoDigits(tool, b)
  <2> TAKE b \in Byte
  <2>1. b \in Int /\ (b \in 0..15 <=> b < 16)
    BY SMT DEF Byte
  <2>2. CASE tool = "read_hex_string"
    <3>1. Hex!Terminator(tool) = {10} /\ TwoDigits(tool, b) /\ lost = {10}
      BY <2>2 DEF Hex!Terminator, TwoDigits
    <3> QED BY <3>1
  <2>3. CASE tool # "read_hex_string"
    <3>1. Hex!Terminator(tool) \subseteq 0..15 /\ lost = 0..15
      BY <2>3 DEF Hex!Terminator, Hex!Tool
    <3>2. TwoDigits(tool, b) <=> ~ (b < 16)
      BY <2>1, <2>3 DEF TwoDigits
    <3> HIDE DEF lost
    <3> QED BY <2>1, <3>1, <3>2
  <2> QED BY <2>2, <2>3
<1>3. Hex!Range(bytes) \cap lost = {} <=> \A i \in 1..8 : Whole(i)
  <2> HIDE DEF lost
  <2>1. Hex!Range(bytes) = {bytes[i] : i \in 1..8}
    BY <1>1 DEF Hex!Range
  <2>2. Hex!Range(bytes) \cap lost = {} <=> \A i \in 1..8 : bytes[i] \notin lost
    BY <2>1
  <2> QED BY <1>1, <1>2, <2>2
<1>4. Hex!Printed(tool, bytes) =
        IF Len(digits) < 16 THEN <<>> ELSE Hex!Seconds(Hex!Parsed(digits, 1), Hex!Fraction(Hex!Parsed(digits, 9)))
  BY DEF Hex!Printed, Hex!Garbled
<1>5. CASE \A i \in 1..8 : Whole(i)
  <2>1. received = bytes
    BY <1>5, ReceivedRight
  <2>2. \A i \in 1..8 : TwoDigits(tool, bytes[i])
    BY <1>5
  <2>3. Len(digits) = 16 /\ Hex!Parsed(digits, 1) = Hex!Word(bytes)
        /\ Hex!Parsed(digits, 9) = Hex!Word(SubSeq(bytes, 5, 8))
    BY <2>1, <2>2, ParsedRight
  <2> HIDE DEF lost, digits, Whole
  <2>4. ~ (Len(digits) < 16)
    BY <2>3
  <2> QED BY <1>3, <1>4, <1>5, <2>3, <2>4 DEF lost
<1>6. CASE \E i \in 1..8 : ~ Whole(i)
  <2>1. Len(digits) \in Nat /\ Len(digits) < 16
    <3>1. CASE \E i \in 1..8 : bytes[i] \in Hex!Terminator(tool)
      <4>1. received \in Seq(Byte) /\ Len(received) < 8
        BY <3>1, ReceivedRight
      <4> HIDE DEF received
      <4>2. HexRight(tool, received)
        BY <4>1, HexOfBytes
      <4>3. Len(received) \in Nat
        BY <4>1
      <4>4. digits \in Seq(Int) /\ Len(digits) <= 2 * Len(received)
        BY <4>2 DEF HexRight
      <4> HIDE DEF digits
      <4>5. Len(digits) \in Nat
        BY <4>4
      <4> QED BY <4>1, <4>3, <4>4, <4>5
    <3>2. CASE ~ \E i \in 1..8 : bytes[i] \in Hex!Terminator(tool)
      <4>1. received = bytes
        BY <3>2, ReceivedRight
      <4>2. \E i \in 1..8 : ~ TwoDigits(tool, bytes[i])
        BY <1>6, <3>2
      <4>3. HexRight(tool, bytes)
        BY HexOfBytes
      <4>4. digits \in Seq(Int) /\ Len(digits) < 2 * 8
        <5>1. digits = Hex!string_to_hex(tool, bytes)
          BY <4>1
        <5> HIDE DEF digits
        <5> QED BY <4>2, <4>3, <5>1 DEF HexRight
      <4> HIDE DEF digits
      <4> QED BY <4>4
    <3> QED BY <3>1, <3>2
  <2> HIDE DEF lost, digits, Whole
  <2> QED BY <1>3, <1>4, <1>6, <2>1 DEF lost
<1> QED BY <1>5, <1>6

\* Four bytes behind four bytes.
LEMMA FourAndFour ==
  ASSUME NEW head \in [1..4 -> Byte], NEW a \in Byte, NEW b \in Byte, NEW c \in Byte, NEW d \in Byte
  PROVE  LET bytes == head \o <<a, b, c, d>>
         IN  /\ bytes \in Seq(Byte) /\ Len(bytes) = 8
             /\ bytes[5] = a /\ bytes[6] = b /\ bytes[7] = c /\ bytes[8] = d
<1> DEFINE tail == <<a, b, c, d>>
<1>1. tail \in Seq(Byte) /\ Len(tail) = 4 /\ tail[1] = a /\ tail[2] = b /\ tail[3] = c /\ tail[4] = d
  OBVIOUS
<1>2. head \in Seq(Byte) /\ Len(head) = 4
  <2> DEFINE k == 4
  <2>1. k \in Nat /\ head \in [1..k -> Byte]
    OBVIOUS
  <2> HIDE DEF k
  <2>2. head \in Seq(Byte) /\ Len(head) = k
    BY <2>1
  <2> QED BY <2>2 DEF k
<1> HIDE DEF tail
<1> DEFINE both == head \o tail
<1>3. /\ both \in Seq(Byte) /\ Len(both) = Len(head) + Len(tail)
      /\ \A i \in 1..Len(head) + Len(tail) : both[i] = IF i <= Len(head) THEN head[i] ELSE tail[i - Len(head)]
  BY <1>1, <1>2, ConcatProperties
<1> HIDE DEF both
<1>4. Len(both) = 8
  BY <1>1, <1>2, <1>3
<1>5. \A i \in 1..8 : both[i] = IF i <= 4 THEN head[i] ELSE tail[i - 4]
  BY <1>1, <1>2, <1>3
<1>6. both[5] = tail[1] /\ both[6] = tail[2] /\ both[7] = tail[3] /\ both[8] = tail[4]
  BY <1>5
<1> QED BY <1>1, <1>3, <1>4, <1>6 DEF tail, both

\* The converters, for every stamp of seconds without a sign bit and of
\* nanoseconds below a second, and each of the three tools: the time is printed
\* as it is if and only if no byte ends the input or lacks its first digit and
\* the nanoseconds are none or have nine digits.
THEOREM StampsForAll ==
  ASSUME problem \in StampProblem
  PROVE  StampsPrinted
<1> DEFINE tool == problem.tool
           n == problem.ns
           head == problem.s
           bytes == head \o Bytes(n)
           tail == SubSeq(bytes, 5, 8)
<1>1. tool \in Hex!Tool /\ head \in [1..4 -> Byte] /\ n \in Nat /\ n < 1000000000
  BY SMT DEF StampProblem
<1> HIDE DEF tool, n, head
<1>2. /\ n % 256 \in Byte /\ (n \div 256) % 256 \in Byte
      /\ (n \div 65536) % 256 \in Byte /\ n \div 16777216 \in Byte
      /\ n = (n % 256) + 256 * ((n \div 256) % 256) + 65536 * ((n \div 65536) % 256) + 16777216 * (n \div 16777216)
  BY <1>1, WordOfBytes, SMT
<1>3. bytes \in Seq(Byte) /\ Len(bytes) = 8 /\ bytes[5] = n % 256 /\ bytes[6] = (n \div 256) % 256
      /\ bytes[7] = (n \div 65536) % 256 /\ bytes[8] = n \div 16777216
  <2> DEFINE a == n % 256
             b == (n \div 256) % 256
             c == (n \div 65536) % 256
             d == n \div 16777216
  <2>1. a \in Byte /\ b \in Byte /\ c \in Byte /\ d \in Byte /\ Bytes(n) = <<a, b, c, d>>
    BY <1>2, SMT DEF Bytes
  <2>2. head \in [1..4 -> Byte]
    BY <1>1, SMT
  <2> HIDE DEF a, b, c, d
  <2>3. /\ head \o <<a, b, c, d>> \in Seq(Byte) /\ Len(head \o <<a, b, c, d>>) = 8
        /\ (head \o <<a, b, c, d>>)[5] = a /\ (head \o <<a, b, c, d>>)[6] = b
        /\ (head \o <<a, b, c, d>>)[7] = c /\ (head \o <<a, b, c, d>>)[8] = d
    BY <2>1, <2>2, FourAndFour, SMT
  <2> QED BY <2>1, <2>3, SMT DEF a, b, c, d
<1>4. Hex!Word(tail) = n
  <2>1. tail[1] = bytes[5] /\ tail[2] = bytes[6] /\ tail[3] = bytes[7] /\ tail[4] = bytes[8]
    <3> HIDE DEF bytes
    <3> QED BY <1>3, SMT
  <2> HIDE DEF tail, bytes
  <2>2. Hex!Word(tail) = tail[1] + 256 * tail[2] + 65536 * tail[3] + 16777216 * tail[4]
    BY SMT DEF Hex!Word
  <2> QED BY <1>2, <1>3, <2>1, <2>2, SMT
<1> DEFINE lost == IF tool = "read_hex_string" THEN {10} ELSE 0..15
           s == Hex!Word(bytes)
           kept == Hex!Range(bytes) \cap lost = {}
           f == Hex!Fraction(n)
           h == (n + 5000000) \div 10000000
<1> HIDE DEF bytes
<1>5. Hex!Printed(tool, bytes) = IF kept THEN Hex!Seconds(s, f) ELSE <<>>
  BY <1>1, <1>3, <1>4, PrintedDigits, SMT
<1>6. f \in 0..100 /\ h \in 0..100 /\ (f = h <=> n = 0 \/ n >= 100000000)
  BY <1>1, FractionRight, SMT
<1>7. s \in Int
  <2>1. bytes[1] \in Int /\ bytes[2] \in Int /\ bytes[3] \in Int /\ bytes[4] \in Int
    <3>1. \A b \in Byte : b \in Int
      BY SMT DEF Byte
    <3>2. \A i \in 1..8 : bytes[i] \in Byte
      BY <1>3, EightBytes, SMT
    <3> QED BY <3>1, <3>2, SMT
  <2> QED BY <2>1, SMT DEF Hex!Word
<1> HIDE DEF s, f, h, kept
<1>8. Hex!Seconds(s, f) = Hex!Seconds(s, h) <=> f = h
  <2>1. \A x \in 0..100 : Hex!Seconds(s, x) = IF x = 100 THEN <<s + 1, 0>> ELSE <<s, x>>
    BY SMT DEF Hex!Seconds
  <2> DEFINE next == s + 1
  <2>2. next # s
    BY <1>7, SMT
  <2>3. Hex!Seconds(s, f) = (IF f = 100 THEN <<next, 0>> ELSE <<s, f>>)
        /\ Hex!Seconds(s, h) = (IF h = 100 THEN <<next, 0>> ELSE <<s, h>>)
    BY <1>6, <2>1, SMT
  <2> HIDE DEF next
  <2> QED BY <2>2, <2>3, SMT
<1>9. <<>> # Hex!Seconds(s, h)
  BY SMT DEF Hex!Seconds
<1>10. Hex!Printed(tool, bytes) = Hex!Seconds(s, h) <=> kept /\ (n = 0 \/ n >= 100000000)
  BY <1>5, <1>6, <1>8, <1>9, SMT
<1>11. Hex!PrintedTime(tool, bytes)
  BY <1>4, <1>10, SMT DEF Hex!PrintedTime, s, h, kept
<1> QED BY <1>11, SMT DEF StampsPrinted, tool, n, head, bytes

-----------------------------------------------------------------------------
(* The parameters of the node: their list, and then what is read of the     *)
(* first n, one after the other.                                           *)

\* The parameters in the order they are read.
Names ==
    <<"kQueueSize", "kFileAbsolutePath", "kResultGridFilePath", "kObstacleGridFilePath",
    "kBaseGridFilePath", "kRobotLength", "kRobotWidth", "kRobotHeight", "kRobotVisionForward",
    "kRobotVisionBackward", "kRobotVisionLeftRight", "kRobotValidVisionForward",
    "kRobotValidVisionBackward", "kRobotValidVisionLeftRight", "kRobotAccurateVisionForward",
    "kRobotAccurateVisionBackward", "kRobotAccurateVisionLeftRight", "kRobotBlindVisionForward",
    "kRobotBlindVisionBackward", "kRobotBlindVisionLeftRight", "kThreshold1", "kThreshold2",
    "kThreshold3", "kDenominator", "kRobotVisionRange", "kRobotVisionGranularity",
    "kGridBlockGranularity", "kGridPixelGranularity", "kGridPixelStoreGranularity",
    "kBlockMapFilePath", "kBlockMapGridFilePath", "kThreadPoolSize", "kStaticObstacleFilePath",
    "kDynamicObstacleFilePath", "kCurbFilePath", "kFusionMapFreq", "kStaticVeloThreshold",
    "kStaticReplayTimes", "kDynamicReplayTimes">>

\* The names of the parameters.
Name == {Names[i] : i \in 1..39}

\* A tuple is a sequence of its elements.
LEMMA TupleIsSeq ==
  ASSUME NEW k \in Nat, NEW s, NEW S, s \in [1..k -> S]
  PROVE  s \in Seq(S) /\ Len(s) = k
OBVIOUS

\* No parameter is read twice.
LEMMA Distinct ==
  \A i, j \in 1..39 : Names[i] = Names[j] => i = j
BY DEF Names

\* The list of the model, which is put together from parts, is that of Names.
LEMMA NamesOfParams == Config!Params = Names /\ Names \in Seq(Name) /\ Len(Names) = 39
<1> DEFINE first == <<"kQueueSize", "kFileAbsolutePath", "kResultGridFilePath", "kObstacleGridFilePath",
                 "kBaseGridFilePath">>
           last == <<"kRobotValidVisionForward", "kRobotValidVisionBackward", "kRobotValidVisionLeftRight",
                 "kRobotAccurateVisionForward", "kRobotAccurateVisionBackward",
                 "kRobotAccurateVisionLeftRight", "kRobotBlindVisionForward",
                 "kRobotBlindVisionBackward", "kRobotBlindVisionLeftRight", "kThreshold1",
                 "kThreshold2", "kThreshold3", "kDenominator", "kRobotVisionRange",
                 "kRobotVisionGranularity", "kGridBlockGranularity", "kGridPixelGranularity",
                 "kGridPixelStoreGranularity", "kBlockMapFilePath", "kBlockMapGridFilePath",
                 "kThreadPoolSize", "kStaticObstacleFilePath", "kDynamicObstacleFilePath",
                 "kCurbFilePath", "kFusionMapFreq", "kStaticVeloThreshold",
                 "kStaticReplayTimes", "kDynamicReplayTimes">>
<1>1. DOMAIN first = 1..5 /\ first \in [1..5 -> Name] /\ \A i \in 1..5 : first[i] = Names[i]
  <2>1. DOMAIN first = 1..5 /\ \A i \in 1..5 : first[i] = Names[i]
    BY DEF Names
  <2>2. first = [i \in 1..5 |-> first[i]]
    OBVIOUS
  <2>3. \A i \in 1..5 : Names[i] \in Name
    BY DEF Name
  <2> HIDE DEF first
  <2> QED BY <2>1, <2>2, <2>3
<1>2. DOMAIN Config!RobotParams = 1..6 /\ Config!RobotParams \in [1..6 -> Name] /\ \A i \in 1..6 : Config!RobotParams[i] = Names[i + 5]
  <2> DEFINE robot == <<"kRobotLength", "kRobotWidth", "kRobotHeight", "kRobotVisionForward", "kRobotVisionBackward",
                 "kRobotVisionLeftRight">>
  <2>1. DOMAIN robot = 1..6 /\ \A i \in 1..6 : robot[i] = Names[i + 5]
    BY DEF Names
  <2>2. robot = [i \in 1..6 |-> robot[i]]
    OBVIOUS
  <2>3. \A i \in 1..6 : Names[i + 5] \in Name
    BY DEF Name
  <2>4. Config!RobotParams = robot
    <3> DEFINE a == Config!Sizes
               b == Config!Vision
    <3>1. DOMAIN a = 1..3 /\ DOMAIN b = 1..3 /\ \A i \in 1..3 : a[i] = robot[i] /\ b[i] = robot[i + 3]
      BY DEF Config!Sizes, Config!Vision
    <3>2. a = [i \in 1..3 |-> a[i]] /\ b = [i \in 1..3 |-> b[i]]
      BY DEF Config!Sizes, Config!Vision
    <3>3. \A i \in 1..6 : robot[i] \in Name
      BY <2>1, <2>3
    <3> HIDE DEF a, b, robot
    <3>4. a \in [1..3 -> Name] /\ b \in [1..3 -> Name] /\ robot \in [1..6 -> Name]
      BY <2>2, <3>1, <3>2, <3>3
    <3>5. a \in Seq(Name) /\ b \in Seq(Name) /\ robot \in Seq(Name) /\ Len(a) = 3 /\ Len(b) = 3 /\ Len(robot) = 6
      BY <3>4, TupleIsSeq
    <3> DEFINE c == a \o b
    <3>6. /\ c \in Seq(Name) /\ Len(c) = Len(a) + Len(b)
          /\ \A i \in 1..Len(a) + Len(b) : c[i] = IF i <= Len(a) THEN a[i] ELSE b[i - Len(a)]
      <4>1. a \in Seq(Name) /\ b \in Seq(Name)
        BY <3>5
      <4> QED BY <4>1, ConcatProperties
    <3> HIDE DEF c
    <3>7. Len(a) + Len(b) = 6 /\ Len(a) = 3
      BY <3>5
    <3>8. /\ c \in Seq(Name) /\ Len(c) = 6
          /\ \A i \in 1..6 : c[i] = robot[i]
      BY <3>1, <3>6, <3>7
    <3>9. c = robot
      BY <3>5, <3>8, SeqEqual
    <3> QED BY <3>9 DEF Config!RobotParams, a, b, c
  <2> HIDE DEF robot
  <2> QED BY <2>1, <2>2, <2>3, <2>4
<1>3. DOMAIN last = 1..28 /\ last \in [1..28 -> Name] /\ \A i \in 1..28 : last[i] = Names[i + 11]
  <2>1. DOMAIN last = 1..28 /\ \A i \in 1..28 : last[i] = Names[i + 11]
    BY DEF Names
  <2>2. last = [i \in 1..28 |-> last[i]]
    OBVIOUS
  <2>3. \A i \in 1..28 : Names[i + 11] \in Name
    BY DEF Name
  <2> HIDE DEF last
  <2> QED BY <2>1, <2>2, <2>3
<1>4. Config!Params = first \o Config!RobotParams \o last
  BY DEF Config!Params
<1>5. Names \in [1..39 -> Name]
  <2>1. Names = [i \in 1..39 |-> Names[i]]
    BY DEF Names
  <2>2. \A i \in 1..39 : Names[i] \in Name
    BY DEF Name
  <2> QED BY <2>1, <2>2
<1> HIDE DEF first, last
<1>6. /\ first \in Seq(Name) /\ Len(first) = 5 /\ Config!RobotParams \in Seq(Name) /\ Len(Config!RobotParams) = 6
      /\ last \in Seq(Name) /\ Len(last) = 28 /\ Names \in Seq(Name) /\ Len(Names) = 39
  <2>1. \A k \in Nat : \A s \in [1..k -> Name] : s \in Seq(Name) /\ Len(s) = k
    BY TupleIsSeq
  <2>2. 5 \in Nat /\ 6 \in Nat /\ 28 \in Nat /\ 39 \in Nat
    OBVIOUS
  <2>3. first \in Seq(Name) /\ Len(first) = 5
    BY <1>1, <2>1, <2>2, Zenon
  <2>4. Config!RobotParams \in Seq(Name) /\ Len(Config!RobotParams) = 6
    BY <1>2, <2>1, <2>2, Zenon
  <2>5. last \in Seq(Name) /\ Len(last) = 28
    BY <1>3, <2>1, <2>2, Zenon
  <2>6. Names \in Seq(Name) /\ Len(Names) = 39
    BY <1>5, <2>1, <2>2, Zenon
  <2> QED BY <2>3, <2>4, <2>5, <2>6
<1> DEFINE some == first \o Config!RobotParams
           all == some \o last
<1>7. some \in Seq(Name) /\ Len(some) = 11 /\ \A i \in 1..11 : some[i] = Names[i]
  <2>1. /\ some \in Seq(Name) /\ Len(some) = 11
        /\ \A i \in 1..11 : some[i] = IF i <= 5 THEN first[i] ELSE Config!RobotParams[i - 5]
    <3>1. /\ some \in Seq(Name) /\ Len(some) = Len(first) + Len(Config!RobotParams)
          /\ \A i \in 1..Len(first) + Len(Config!RobotParams) :
               some[i] = IF i <= Len(first) THEN first[i] ELSE Config!RobotParams[i - Len(first)]
      <4>1. first \in Seq(Name) /\ Config!RobotParams \in Seq(Name)
        BY <1>6
      <4> QED BY <4>1, ConcatProperties
    <3> HIDE DEF some
    <3>2. Len(first) + Len(Config!RobotParams) = 11 /\ Len(first) = 5
      BY <1>6
    <3> QED BY <3>1, <3>2
  <2> HIDE DEF some
  <2>2. ASSUME NEW i \in 1..11 PROVE some[i] = Names[i]
    BY <1>1, <1>2, <2>1
  <2> QED BY <2>1, <2>2
<1> HIDE DEF some
<1>8. all \in Seq(Name) /\ Len(all) = 39 /\ \A i \in 1..39 : all[i] = Names[i]
  <2>1. /\ all \in Seq(Name) /\ Len(all) = 39
        /\ \A i \in 1..39 : all[i] = IF i <= 11 THEN some[i] ELSE last[i - 11]
    <3>1. /\ all \in Seq(Name) /\ Len(all) = Len(some) + Len(last)
          /\ \A i \in 1..Len(some) + Len(last) :
               all[i] = IF i <= Len(some) THEN some[i] ELSE last[i - Len(some)]
      <4>1. some \in Seq(Name) /\ last \in Seq(Name)
        BY <1>6, <1>7
      <4> QED BY <4>1, ConcatProperties
    <3> HIDE DEF all
    <3>2. Len(some) + Len(last) = 39 /\ Len(some) = 11
      BY <1>6, <1>7
    <3> QED BY <3>1, <3>2
  <2> HIDE DEF all
  <2>2. ASSUME NEW i \in 1..39 PROVE all[i] = Names[i]
    <3>1. CASE i <= 11
      <4>1. i \in 1..11
        BY <3>1
      <4>2. all[i] = some[i]
        BY <2>1, <3>1
      <4> QED BY <1>7, <4>1, <4>2
    <3>2. CASE i > 11
      <4>1. i - 11 \in 1..28 /\ (i - 11) + 11 = i
        BY <3>2
      <4>2. all[i] = last[i - 11]
        <5>1. all[i] = IF i <= 11 THEN some[i] ELSE last[i - 11]
          BY <2>1, Zenon
        <5>2. ~ (i <= 11)
          BY <3>2
        <5> QED BY <5>1, <5>2, Zenon
      <4> QED BY <1>3, <4>1, <4>2
    <3> QED BY <3>1, <3>2
  <2> QED BY <2>1, <2>2
<1> HIDE DEF all
<1>9. all = Names
  <2>1. Len(all) = Len(Names) /\ \A i \in 1..Len(all) : all[i] = Names[i]
    BY <1>6, <1>8
  <2>2. all \in Seq(Name) /\ Names \in Seq(Name)
    BY <1>6, <1>8
  <2> QED BY <2>1, <2>2, SeqEqual
<1> QED BY <1>4, <1>6, <1>9 DEF all, some

OverParams == INSTANCE FoldTheorems WITH Step <- Config!ReadParam

\* Parameter i is read into the variable of name Target(i).
Target(i) == IF i \in 6..8 THEN i + 3 ELSE i

\* Where a parameter is read into, and which ones are sizes or paths.
LEMMA ParamRead ==
  ASSUME NEW i \in 1..39
  PROVE  /\ Config!Variable(Names[i]) = Names[Target(i)]
         /\ Names[i] \in Config!Range(Config!Sizes) <=> i \in 6..8
         /\ Names[i] \in Config!Relative <=> i \in {3, 4, 5, 31}
         /\ Names[2] = "kFileAbsolutePath"
<1>1. Config!Range(Config!Sizes) = {"kRobotLength", "kRobotWidth", "kRobotHeight"}
  <2>1. DOMAIN Config!Sizes = 1..3 /\ Config!Sizes[1] = "kRobotLength" /\ Config!Sizes[2] = "kRobotWidth"
        /\ Config!Sizes[3] = "kRobotHeight"
    BY DEF Config!Sizes
  <2>2. Config!Range(Config!Sizes) = {Config!Sizes[k] : k \in 1..3}
    BY <2>1 DEF Config!Range
  <2> QED BY <2>1, <2>2
<1>2. Names[i] \in Config!Range(Config!Sizes) <=> i \in 6..8
  BY <1>1 DEF Names
<1>3. Names[i] \in Config!Relative <=> i \in {3, 4, 5, 31}
  BY DEF Names, Config!Relative
<1>4. Names[2] = "kFileAbsolutePath"
  BY DEF Names
<1>5. ASSUME i \in 6..8 PROVE Config!Variable(Names[i]) = Names[Target(i)]
  <2> DEFINE At(k) == Config!Sizes[k] = Names[i]
             place == CHOOSE k \in 1..3 : At(k)
  <2>1. \A k \in 1..3 : Config!Sizes[k] = Names[i] <=> k = i - 5
    BY <1>5 DEF Config!Sizes, Names
  <2>2. i - 5 \in 1..3
    BY <1>5
  <2>3. place = i - 5
    <3>1. \E k \in 1..3 : At(k)
      BY <2>1, <2>2
    <3> HIDE DEF At
    <3>2. place \in 1..3 /\ At(place)
      BY <3>1, Zenon
    <3> HIDE DEF place
    <3> QED BY <2>1, <3>2 DEF At
  <2>4. Config!Variable(Names[i]) = Config!Vision[place]
    BY <1>2, <1>5 DEF Config!Variable
  <2>5. Config!Vision[i - 5] = Names[i + 3]
    BY <1>5 DEF Config!Vision, Names
  <2> HIDE DEF place
  <2> QED BY <1>5, <2>3, <2>4, <2>5 DEF Target
<1>6. ASSUME i \notin 6..8 PROVE Config!Variable(Names[i]) = Names[Target(i)]
  BY <1>2, <1>6 DEF Config!Variable, Target
<1> QED BY <1>2, <1>3, <1>4, <1>5, <1>6

\* After n parameters: whether one of them was missing; if not, those that
\* have a variable of their name are in it.
Own(i) == IF i \in {3, 4, 5, 31} THEN <<"kFileAbsolutePath", Names[i]>> ELSE <<Names[i]>>
ParamInv(unset, n, r) ==
  /\ r = [unset |-> unset, exited |-> r.exited, value |-> r.value]
  /\ r.exited \in BOOLEAN /\ DOMAIN r.value = Name
  /\ r.exited <=> \E i \in 1..n : Names[i] \in unset
  /\ \A i \in 1..39 : ~ r.exited => /\ i \in 6..8 => r.value[Names[i]] = <<>>
                                    /\ i \notin 6..8 /\ i <= n => r.value[Names[i]] = Own(i)

\* What a parameter leaves of the record.
LEMMA ReadRecord ==
  ASSUME NEW a, NEW b, NEW c, NEW r, r = [unset |-> a, exited |-> b, value |-> c]
  PROVE  /\ \A d : [r EXCEPT !.exited = d] = [unset |-> a, exited |-> d, value |-> c]
         /\ \A d : [r EXCEPT !.value = d] = [unset |-> a, exited |-> b, value |-> d]
OBVIOUS

\* The directory and a name behind it.
LEMMA PathOf ==
  ASSUME NEW S, NEW a \in S, NEW b \in S
  PROVE  <<a>> \o <<b>> = <<a, b>>
<1> DEFINE s == <<a>>
           t == <<b>>
           u == <<a, b>>
<1>1. s \in Seq(S) /\ t \in Seq(S) /\ u \in Seq(S) /\ Len(s) = 1 /\ Len(t) = 1 /\ Len(u) = 2
      /\ s[1] = a /\ t[1] = b /\ u[1] = a /\ u[2] = b
  OBVIOUS
<1> HIDE DEF s, t, u
<1> DEFINE v == s \o t
<1>2. v \in Seq(S) /\ Len(v) = Len(s) + Len(t)
      /\ \A i \in 1..Len(s) + Len(t) : v[i] = IF i <= Len(s) THEN s[i] ELSE t[i - Len(s)]
  BY <1>1, ConcatProperties
<1> HIDE DEF v
<1>3. Len(v) = 2 /\ v[1] = a /\ v[2] = b
  BY <1>1, <1>2
<1>4. \A i \in 1..Len(v) : v[i] = u[i]
  BY <1>1, <1>3
<1>5. v = u
  BY <1>1, <1>2, <1>3, <1>4, SeqEqual
<1> QED BY <1>5 DEF s, t, u, v

\* One parameter more.
LEMMA ParamStep ==
  ASSUME NEW unset, NEW n \in 0..38, NEW r, ParamInv(unset, n, r)
  PROVE  ParamInv(unset, n + 1, Config!ReadParam(r, Names[n + 1]))
<1> DEFINE p == Names[n + 1]
           q == Config!ReadParam(r, p)
           out == r.exited \/ p \in unset
           x == IF p \in Config!Relative THEN r.value["kFileAbsolutePath"] \o <<p>> ELSE <<p>>
<1>1. /\ r = [unset |-> unset, exited |-> r.exited, value |-> r.value]
      /\ r.exited \in BOOLEAN /\ DOMAIN r.value = Name
      /\ r.exited <=> \E i \in 1..n : Names[i] \in unset
      /\ \A i \in 1..39 : ~ r.exited => /\ i \in 6..8 => r.value[Names[i]] = <<>>
                                        /\ i \notin 6..8 /\ i <= n => r.value[Names[i]] = Own(i)
  BY DEF ParamInv
<1>2. n + 1 \in 1..39 /\ n \in Nat
  OBVIOUS
<1>3. r.unset = unset
  BY <1>1
<1>4. q = IF out THEN [r EXCEPT !.exited = TRUE] ELSE [r EXCEPT !.value[Config!Variable(p)] = x]
  BY <1>3 DEF Config!ReadParam
<1>5. out <=> \E i \in 1..(n + 1) : Names[i] \in unset
  <2>1. \A i \in 1..(n + 1) : i = n + 1 \/ i \in 1..n
    BY <1>2
  <2>2. \A i \in 1..n : i \in 1..(n + 1)
    BY <1>2
  <2>3. n + 1 \in 1..(n + 1)
    BY <1>2
  <2> QED BY <1>1, <2>1, <2>2, <2>3, Zenon
<1>6. CASE out
  <2>1. q = [unset |-> unset, exited |-> TRUE, value |-> r.value]
    <3>1. q = [r EXCEPT !.exited = TRUE]
      BY <1>4, <1>6
    <3> DEFINE b == r.exited
               c == r.value
    <3>2. r = [unset |-> unset, exited |-> b, value |-> c]
      BY <1>1
    <3> DEFINE yes == TRUE
    <3> HIDE DEF q, out, p, x, b, c, yes
    <3>3. [r EXCEPT !.exited = yes] = [unset |-> unset, exited |-> yes, value |-> c]
      BY <3>2, ReadRecord
    <3>4. q = [unset |-> unset, exited |-> yes, value |-> c]
      BY <3>1, <3>3 DEF yes
    <3> QED BY <3>4 DEF c, yes
  <2> HIDE DEF q, out, p, x
  <2>2. q.exited = TRUE /\ q.value = r.value /\ q = [unset |-> unset, exited |-> q.exited, value |-> q.value]
    BY <2>1
  <2>3. ParamInv(unset, n + 1, q)
    BY <1>1, <1>5, <1>6, <2>2, Zenon DEF ParamInv
  <2> QED BY <2>3 DEF q, p
<1>7. CASE ~ out
  <2> DEFINE t == Target(n + 1)
             value == [r.value EXCEPT ![Names[t]] = x]
  <2>1. Config!Variable(p) = Names[t]
    BY <1>2, ParamRead
  <2>2. q = [unset |-> unset, exited |-> FALSE, value |-> value]
    <3>1. q = [r EXCEPT !.value[Names[t]] = x]
      BY <1>4, <1>7, <2>1
    <3>2. ~ r.exited
      BY <1>7
    <3> HIDE DEF q, out, p, x, t
    <3>3. [r EXCEPT !.value[Names[t]] = x] = [r EXCEPT !.value = value]
      BY <1>1
    <3> HIDE DEF value
    <3>4. r.exited = FALSE
      BY <1>1, <3>2
    <3>5. r = [unset |-> unset, exited |-> FALSE, value |-> r.value]
      BY <1>1, <3>4, Zenon
    <3> DEFINE c == r.value
    <3> DEFINE no == FALSE
    <3>6. r = [unset |-> unset, exited |-> no, value |-> c]
      BY <3>5
    <3> HIDE DEF c, no
    <3>7. [r EXCEPT !.value = value] = [unset |-> unset, exited |-> no, value |-> value]
      BY <3>6, ReadRecord
    <3>8. q = [unset |-> unset, exited |-> no, value |-> value]
      BY <3>1, <3>3, <3>7
    <3> QED BY <3>8 DEF no
  <2>3. t \in 1..39 /\ t \notin 6..8 /\ (n + 1 \notin 6..8 => t = n + 1) /\ (n + 1 \in 6..8 => t > n + 1)
    BY <1>2 DEF Target
  <2>4. \A i \in 1..39 : Names[i] \in Name
    BY DEF Name
  <2>5. \A i \in 1..39 : value[Names[i]] = IF i = t THEN x ELSE r.value[Names[i]]
    <3> TAKE i \in 1..39
    <3>1. Names[i] \in DOMAIN r.value /\ Names[t] \in DOMAIN r.value
      BY <1>1, <2>3, <2>4
    <3>2. Names[i] = Names[t] => i = t
      BY <2>3, Distinct
    <3> HIDE DEF q, out, p, x, t
    <3> QED BY <3>1, <3>2
  <2>6. ~ r.exited
    BY <1>7
  <2>7. n + 1 \notin 6..8 => x = Own(n + 1)
    <3>1. p \in Config!Relative <=> n + 1 \in {3, 4, 5, 31}
      BY <1>2, ParamRead
    <3>2. CASE n + 1 \in {3, 4, 5, 31}
      <4>1. 2 \in 1..39 /\ 2 \notin 6..8 /\ 2 <= n /\ 2 \notin {3, 4, 5, 31}
        BY <1>2, <3>2
      <4>2. r.value[Names[2]] = Own(2)
        BY <1>1, <2>6, <4>1, Zenon
      <4>3. Names[2] = "kFileAbsolutePath"
        BY <1>2, ParamRead
      <4>4. Own(2) = <<"kFileAbsolutePath">>
        BY <4>1, <4>3, Zenon DEF Own
      <4>5. x = <<"kFileAbsolutePath">> \o <<p>>
        BY <3>1, <3>2, <4>2, <4>3, <4>4
      <4>6. <<"kFileAbsolutePath">> \o <<p>> = <<"kFileAbsolutePath", p>>
        <5> DEFINE S == {"kFileAbsolutePath", p}
        <5>1. "kFileAbsolutePath" \in S /\ p \in S
          OBVIOUS
        <5> HIDE DEF p, x, S
        <5> QED BY <5>1, PathOf, Zenon
      <4> QED BY <3>2, <4>5, <4>6, Zenon DEF Own
    <3>3. CASE n + 1 \notin {3, 4, 5, 31}
      BY <3>1, <3>3, Zenon DEF Own
    <3> QED BY <3>2, <3>3
  <2> DEFINE Good(i) == /\ i \in 6..8 => value[Names[i]] = <<>>
                        /\ i \notin 6..8 /\ i <= n + 1 => value[Names[i]] = Own(i)
  <2>8. ASSUME NEW i \in 1..39 PROVE Good(i)
    <3>1. value[Names[i]] = IF i = t THEN x ELSE r.value[Names[i]]
      BY <2>5, Zenon
    <3>2. /\ i \in 6..8 => r.value[Names[i]] = <<>>
          /\ i \notin 6..8 /\ i <= n => r.value[Names[i]] = Own(i)
      BY <1>1, <2>6, Zenon
    <3> HIDE DEF value, x, p, q, out, t
    <3>3. CASE i = t
      <4>1. i <= n + 1 => i = n + 1 /\ n + 1 \notin 6..8
        BY <1>2, <2>3, <3>3
      <4> QED BY <2>3, <2>7, <3>1, <3>3, <4>1, Zenon
    <3>4. CASE i # t
      <4>1. i \notin 6..8 /\ i <= n + 1 => i <= n
        BY <1>2, <2>3, <3>4
      <4> QED BY <3>1, <3>2, <3>4, <4>1, Zenon
    <3> QED BY <3>3, <3>4
  <2>9. DOMAIN value = Name
    BY <1>1
  <2> HIDE DEF value, x, p, q, out, t
  <2>10. q.exited = FALSE /\ q.value = value /\ q = [unset |-> unset, exited |-> q.exited, value |-> q.value]
    BY <2>2
  <2>11. ParamInv(unset, n + 1, q)
    BY <1>5, <1>7, <2>8, <2>9, <2>10, Zenon DEF ParamInv
  <2> QED BY <2>11 DEF q, p
<1> QED BY <1>6, <1>7

\* What is read of parameters is reached one after the other.
LEMMA ParamsInOrder ==
  ASSUME NEW base, NEW queue \in Seq(Name)
  PROVE  \E g : /\ g[0] = base /\ g[Len(queue)] = OverParams!Fold(base, queue)
                /\ \A i \in 1..Len(queue) : g[i] = Config!ReadParam(g[i - 1], queue[i])
BY OverParams!FoldSteps

\* The whole of LoadConfig.
LEMMA LoadedParams ==
  ASSUME NEW unset
  PROVE  ParamInv(unset, 39, Config!LoadConfig(unset))
<1> DEFINE base == [unset |-> unset, exited |-> FALSE, value |-> Config!Unset]
           r == Config!LoadConfig(unset)
           n == Len(Names)
<1>0. n = 39 /\ Names \in Seq(Name)
  BY NamesOfParams
<1> HIDE DEF n
<1>1. PICK g : /\ g[0] = base /\ g[n] = OverParams!Fold(base, Names)
               /\ \A i \in 1..n : g[i] = Config!ReadParam(g[i - 1], Names[i])
  <2> DEFINE Steps(g, k) == /\ g[0] = base /\ g[k] = OverParams!Fold(base, Names)
                            /\ \A i \in 1..k : g[i] = Config!ReadParam(g[i - 1], Names[i])
  <2> HIDE DEF base
  <2>1. \E g : Steps(g, Len(Names))
    BY <1>0, ParamsInOrder
  <2>2. \E g : Steps(g, n)
    <3> HIDE DEF Steps
    <3> QED BY <2>1 DEF n
  <2> QED BY <2>2
<1>2. r = OverParams!Fold(base, Names)
  <2>1. r = Config!FoldLeft(Config!ReadParam, base, Names)
    <3>1. Config!Params = Names
      BY NamesOfParams
    <3> QED BY <3>1 DEF Config!LoadConfig
  <2> HIDE DEF base, r
  <2> QED BY <2>1 DEF Config!FoldLeft, Config!MapThenFoldSet, Config!Max,
        OverParams!Fold, OverParams!FoldLeft, OverParams!MapThenFoldSet, OverParams!Max
<1>3. ParamInv(unset, 0, base)
  <2>1. Config!Range(Config!Params) = Name
    <3>1. DOMAIN Names = 1..39
      BY NamesOfParams
    <3> QED BY <3>1, NamesOfParams DEF Config!Range, Name
  <2>2. DOMAIN Config!Unset = Name /\ \A v \in Name : Config!Unset[v] = <<>>
    BY <2>1 DEF Config!Unset
  <2>3. \A i \in 1..39 : Names[i] \in Name
    BY DEF Name
  <2>4. base.exited = FALSE /\ base.value = Config!Unset
        /\ base = [unset |-> unset, exited |-> base.exited, value |-> base.value]
    OBVIOUS
  <2>5. 1..0 = {} /\ \A i \in 1..39 : ~ (i <= 0)
    OBVIOUS
  <2> HIDE DEF base
  <2> QED BY <2>2, <2>3, <2>4, <2>5, Zenon DEF ParamInv
<1> DEFINE Good == {m \in Nat : m <= 39 => ParamInv(unset, m, g[m])}
<1>4. 0 \in Good
  BY <1>1, <1>3
<1>5. ASSUME NEW m \in Good PROVE m + 1 \in Good
  <2> SUFFICES ASSUME m + 1 <= 39 PROVE ParamInv(unset, m + 1, g[m + 1])
    OBVIOUS
  <2>1. m \in 0..38 /\ ParamInv(unset, m, g[m])
    OBVIOUS
  <2>2. m + 1 \in 1..39 /\ (m + 1) - 1 = m
    BY <2>1
  <2>3. g[m + 1] = Config!ReadParam(g[m], Names[m + 1])
    BY <1>0, <1>1, <2>2
  <2>4. ParamInv(unset, m + 1, Config!ReadParam(g[m], Names[m + 1]))
    BY <2>1, ParamStep
  <2> QED BY <2>3, <2>4, Zenon
<1>6. Good = Nat
  <2> HIDE DEF Good
  <2>1. Good \in SUBSET Nat
    BY DEF Good
  <2> QED BY <1>4, <1>5, <2>1, OverParams!SetInduction
<1>7. ParamInv(unset, 39, g[39])
  <2>1. 39 \in Good
    BY <1>6
  <2> QED BY <2>1
<1> QED BY <1>0, <1>1, <1>2, <1>7

\* The parameters of the node, for any of them missing: it ends just if one is,
\* and else every variable has the parameter of its name, whatever was read
\* into it before, but for the three sizes, which are 0, and the size of a pixel,
\* which is the stored grid's (LoadConfig of utils.cpp and the constructor).
THEOREM ConfigForAll ==
  ASSUME problem \in ConfigProblem
  PROVE  ParametersNamed
<1> DEFINE unset == problem.unset
           q == Config!LoadConfig(unset)
           r == Config!Started(unset)
           Want(v) == IF v \in Config!Range(Config!Sizes) THEN <<>>
                      ELSE IF v = "kGridPixelGranularity" THEN <<"kGridPixelStoreGranularity">>
                      ELSE IF v \in Config!Relative THEN <<"kFileAbsolutePath", v>> ELSE <<v>>
<1>1. ParamInv(unset, 39, q)
  BY LoadedParams
<1>2. Config!Range(Config!Params) = Name
  <2>1. DOMAIN Names = 1..39
    BY NamesOfParams
  <2> QED BY <2>1, NamesOfParams DEF Config!Range, Name
<1>3. /\ r.exited = q.exited
      /\ \A v \in Name : r.value[v] = IF v = "kGridPixelGranularity" THEN q.value["kGridPixelStoreGranularity"]
                                      ELSE q.value[v]
  <2> HIDE DEF q
  <2>1. /\ q = [unset |-> unset, exited |-> q.exited, value |-> q.value]
        /\ DOMAIN q.value = Name
    BY <1>1 DEF ParamInv
  <2>2. r = [q EXCEPT !.value["kGridPixelGranularity"] = q.value["kGridPixelStoreGranularity"]]
    BY DEF Config!Started, q
  <2> HIDE DEF r, unset
  <2> QED BY <2>1, <2>2
<1> HIDE DEF unset, q, r
<1>4. r.exited <=> unset \cap Name # {}
  <2>1. q.exited <=> \E i \in 1..39 : Names[i] \in unset
    BY <1>1 DEF ParamInv
  <2>2. unset \cap Name # {} <=> \E i \in 1..39 : Names[i] \in unset
    BY DEF Name
  <2> QED BY <1>3, <2>1, <2>2
<1>5. ASSUME ~ r.exited, NEW v \in Name PROVE r.value[v] = Want(v)
  <2>1. PICK i \in 1..39 : v = Names[i]
    BY DEF Name
  <2>2. /\ v \in Config!Range(Config!Sizes) <=> i \in 6..8
        /\ v \in Config!Relative <=> i \in {3, 4, 5, 31}
    BY <2>1, ParamRead
  <2>3. \A k \in 1..39 : /\ k \in 6..8 => q.value[Names[k]] = <<>>
                         /\ k \notin 6..8 => q.value[Names[k]] = Own(k)
    <3> TAKE k \in 1..39
    <3>1. k <= 39 /\ ~ q.exited
      BY <1>3, <1>5
    <3> QED BY <1>1, <3>1, Zenon DEF ParamInv
  <2>4. Own(i) = IF i \in {3, 4, 5, 31} THEN <<"kFileAbsolutePath", v>> ELSE <<v>>
    BY <2>1, Zenon DEF Own
  <2>5. CASE v = "kGridPixelGranularity"
    <3>1. /\ Names[29] = "kGridPixelStoreGranularity" /\ Own(29) = <<Names[29]>>
          /\ 29 \in 1..39 /\ 29 \notin 6..8
      BY DEF Names, Own
    <3>2. v \notin Config!Range(Config!Sizes)
      <4>1. Config!Range(Config!Sizes) = {"kRobotLength", "kRobotWidth", "kRobotHeight"}
        BY DEF Config!Range, Config!Sizes
      <4> QED BY <2>5, <4>1
    <3>3. r.value[v] = <<"kGridPixelStoreGranularity">>
      BY <1>3, <2>3, <2>5, <3>1, Zenon
    <3> QED BY <2>5, <3>2, <3>3
  <2>6. CASE v # "kGridPixelGranularity"
    <3>1. r.value[v] = q.value[v]
      BY <1>3, <2>6, Zenon
    <3> QED BY <2>1, <2>2, <2>3, <2>4, <2>6, <3>1, Zenon
  <2> QED BY <2>5, <2>6
<1>6. Config!ConfigNamed(unset)
  BY <1>2, <1>4, <1>5, Zenon DEF Config!ConfigNamed, r
<1> QED BY <1>6 DEF ParametersNamed, unset
=============================================================================
