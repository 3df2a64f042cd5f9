-------------------------- MODULE LineIntersection --------------------------
(* The two tests of src/aw_simulation_obstacle_new/src/                      *)
(* get_line_intersection.cpp whether two segments meet.  Coordinates are     *)
(* integers up to 76, either sign: float arithmetic is exact, and line 75    *)
(* multiplies two products of int without overflow (8 * 76^2 squared).       *)
EXTENDS Integers, FiniteSetsExt

Minus(p, q) == [x |-> p.x - q.x, y |-> p.y - q.y]
Cross(v, w) == v.x * w.y - v.y * w.x
Dot(v, w) == v.x * w.x + v.y * w.y
Magnitude(n) == IF n < 0 THEN - n ELSE n

\* Mutant of Outside: the test with the denominator's sign left out.
OutsideUnsigned(numer, denom) == numer < 0 \/ Magnitude(numer) > Magnitude(denom)
\* numer / denom is taken to be outside of [0, 1]; with a negative denominator
\* this is said of a numerator of 0 too.
Outside(numer, denom) == ((numer < 0) = (denom > 0)) \/ Magnitude(numer) > Magnitude(denom)

\* Parallel segments never meet here.
get_line_intersection(a, b, c, d) ==
  LET s10 == Minus(b, a)
      s32 == Minus(d, c)
      s02 == Minus(a, c)
      denom == Cross(s10, s32)
  IN  /\ denom # 0
      /\ ~ Outside(Cross(s10, s02), denom)
      /\ ~ Outside(Cross(s32, s02), denom)

\* The bounding boxes overlap, and neither segment is on one side of the
\* line of the other one.
is_intersect(a, b, c, d) ==
  LET Side(p, q, r) == Cross(Minus(p, q), Minus(r, q))
  IN  /\ Max({a.x, b.x}) >= Min({c.x, d.x}) /\ Max({c.x, d.x}) >= Min({a.x, b.x})
      /\ Max({a.y, b.y}) >= Min({c.y, d.y}) /\ Max({c.y, d.y}) >= Min({a.y, b.y})
      /\ Side(a, b, c) * Side(a, b, d) <= 0
      /\ Side(c, d, a) * Side(c, d, b) <= 0

-----------------------------------------------------------------------------
\* p is on the closed segment a b.
Between(p, a, b) == Cross(Minus(b, a), Minus(p, a)) = 0 /\ Dot(Minus(p, a), Minus(p, b)) <= 0

\* The point a + t (b - a), t = n / m, that the lines have in common is on
\* both segments; two parallel segments meet where one has an end on the other.
Meet(a, b, c, d) ==
  LET m == Cross(Minus(b, a), Minus(d, c))
      n == Cross(Minus(c, a), Minus(d, c))
      k == Cross(Minus(c, a), Minus(b, a))
      Unit(num) == IF m > 0 THEN num \in 0..m ELSE num \in m..0
  IN  IF m # 0 THEN Unit(n) /\ Unit(k)
      ELSE Between(a, c, d) \/ Between(b, c, d) \/ Between(c, a, b) \/ Between(d, a, b)

\* is_intersect answers "do the closed segments meet" for all segments with
\* two ends.  get_line_intersection says so of segments that meet, and of all
\* those that cross where neither has its first end.  (Line 18 counts the
\* parameter 0 as inside; the test of line 19 does not, if the denominator is
\* negative, so of a touch in a first end nothing is promised here.)
SegmentsMeet(a, b, c, d) ==
  /\ a # b /\ c # d => (is_intersect(a, b, c, d) <=> Meet(a, b, c, d))
  /\ get_line_intersection(a, b, c, d) => Meet(a, b, c, d)
  /\ (Cross(Minus(b, a), Minus(d, c)) # 0 /\ ~ Between(a, c, d) /\ ~ Between(c, a, b))
       => (Meet(a, b, c, d) => get_line_intersection(a, b, c, d))
=============================================================================
