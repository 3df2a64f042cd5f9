--------------------------- MODULE RestorerGeometry ---------------------------
(* What ObstacleRestorer and Playback leave to constants: which blocks the   *)
(* loader reads for a pose, which obstacles a pose starts, and where an      *)
(* obstacle in play is shown.  Lengths and angles are integers; headings are *)
(* quarter turns where they are rotated by.                                  *)
EXTENDS Integers, FiniteSetsExt

\* Units: decimetres; hundredths of a radian, 2 pi being 628 of them.
Turn == 628
Radian == 100

Floor(n, d) == n \div d
Ceil(n, d) == - ((- n) \div d)
\* (int) of a double cuts towards 0.
Cut(n, d) == IF n < 0 THEN - ((- n) \div d) ELSE n \div d
Abs(n) == IF n < 0 THEN - n ELSE n
Square(p, q) == (p.x - q.x) * (p.x - q.x) + (p.y - q.y) * (p.y - q.y)

\* The loader reads these blocks; the ends of the loops are exclusive.
BlocksInView(at, range, block) ==
  [x : Floor(at.x - range, block)..(Ceil(at.x + range, block) - 1),
   y : Floor(at.y - range, block)..(Ceil(at.y + range, block) - 1)]

\* num1 and remainder1: the angle within one turn, for either sign.
Remainder(angle) ==
  LET num == (angle - Cut(angle, Turn) * Turn) + Turn
  IN  num - Cut(num, Turn) * Turn

\* Recorded with a yaw below -99 rad, an obstacle starts for every heading.
Starts(robot, pose) ==
  \/ Square(robot, pose) < 100 /\ Abs(Remainder(robot.yaw) - Remainder(pose.yaw)) < Radian
  \/ Square(robot, pose) < 200 /\ pose.yaw < -99 * Radian

Sin(yaw) == <<0, 1, 0, -1>>[yaw + 1]
Cos(yaw) == <<1, 0, -1, 0>>[yaw + 1]

\* A point given from the robot's place, as the robot sees it.
Turned(p, yaw) == [x |-> p.x * Cos(yaw) + p.y * Sin(yaw), y |-> p.y * Cos(yaw) - p.x * Sin(yaw)]

\* Where an obstacle is that has been on its way from state `from` to state
\* `to` for `passed` of nsecs, seen from the robot's place, and in units of
\* 1 / nsecs: the division is left out.
Place(from, to, passed, nsecs, robot) ==
  [x |-> (to.x - from.x) * passed + (from.x - robot.x) * nsecs,
   y |-> (to.y - from.y) * passed + (from.y - robot.y) * nsecs]

\* An obstacle recorded without polygon is shown as a box: its corners.
Corners(p, angle, unit) ==
  LET c == Cos(angle) * unit
      s == Sin(angle) * unit
  IN  {[x |-> p.x + 2 * c + s, y |-> p.y - c + 2 * s], [x |-> p.x - 2 * c + s, y |-> p.y - c - 2 * s],
       [x |-> p.x - 2 * c - s, y |-> p.y + c - 2 * s], [x |-> p.x + 2 * c - s, y |-> p.y + c + 2 * s]}

ShownAt(from, to, passed, nsecs, robot) == Turned(Place(from, to, passed, nsecs, robot), robot.yaw)
ShownBox(from, to, passed, nsecs, robot, angle) ==
  {Turned(p, robot.yaw) : p \in Corners(Place(from, to, passed, nsecs, robot), angle, nsecs)}

-----------------------------------------------------------------------------
\* What lies less than the range away is in a block that is read, and a block
\* that is read has something within the range.
ViewCovered(at, range, block) ==
  LET blocks == BlocksInView(at, range, block)
      Within(v, w) == Abs(v - w) < range
  IN  /\ \A x \in (at.x - range + 1)..(at.x + range - 1), y \in (at.y - range + 1)..(at.y + range - 1) :
           [x |-> Floor(x, block), y |-> Floor(y, block)] \in blocks
      /\ \A b \in blocks : /\ at.x - range < (b.x + 1) * block /\ b.x * block < at.x + range
                           /\ at.y - range < (b.y + 1) * block /\ b.y * block < at.y + range

\* The angle between two headings, and whether the shorter way from one to
\* the other leads over the heading 0: rising by `by` from a, or from b.
Between(a, b) == Min({(a - b) % Turn, (b - a) % Turn})
OverZero(a, b) ==
  LET Passes(from, by) == by = Between(a, b) /\ (from % Turn) + by >= Turn
  IN  Passes(a, (b - a) % Turn) \/ Passes(b, (a - b) % Turn)

\* An obstacle starts within 1 m and 1 rad of where it was recorded, except
\* that two headings on both sides of 0 are taken to be a turn apart.
StartsNearby(robot, pose) ==
  Starts(robot, pose) <=>
    \/ Square(robot, pose) < 100 /\ Between(robot.yaw, pose.yaw) < Radian
       /\ ~ OverZero(robot.yaw, pose.yaw)
    \/ Square(robot, pose) < 200 /\ pose.yaw < -9900

\* Turned back to the map, an obstacle is on the straight line between two
\* recorded states, as far along as the time says; its box is 4 m by 2 m,
\* longer in the direction it moves in.
ShownInPlace(from, to, passed, nsecs, robot, angle) ==
  LET Back(p) == Turned(p, (4 - robot.yaw) % 4)
      onMap(p) == [x |-> Back(p).x + robot.x * nsecs, y |-> Back(p).y + robot.y * nsecs]
      place == [x |-> from.x * (nsecs - passed) + to.x * passed,
                y |-> from.y * (nsecs - passed) + to.y * passed]
      along == IF angle \in {0, 2} THEN 2 * nsecs ELSE nsecs
      across == 3 * nsecs - along
  IN  /\ onMap(ShownAt(from, to, passed, nsecs, robot)) = place
      /\ {onMap(p) : p \in ShownBox(from, to, passed, nsecs, robot, angle)} =
           [x : {place.x - along, place.x + along}, y : {place.y - across, place.y + across}]
=============================================================================
