----------------------------- MODULE Rectangles -----------------------------
(* src/rectangleOverlap/rectangletest.cpp: whether four points are the       *)
(* corners of a rectangle, and its sides.                                    *)
EXTENDS Integers, Sequences

arrow(p, another) == [x |-> p.x - another.x, y |-> p.y - another.y]

isRealRectangle(r) ==
  LET arr1 == arrow(r[1], r[2])
      arr3 == arrow(r[1], r[3])
  IN  arr1 = arrow(r[3], r[4]) /\ arr1.x * arr3.x + arr1.y * arr3.y = 0

\* get_1st_segment to get_4th_segment
Segment(r, k) == <<r[k], r[(k % 4) + 1]>>

-----------------------------------------------------------------------------
Square(v) == v.x * v.x + v.y * v.y
Centre(s) == [x |-> s[1].x + s[2].x, y |-> s[1].y + s[2].y]   \* twice the middle

\* Four points are accepted if and only if the segments of the points 2, 3
\* and 1, 4 halve each other and are of one length: a rectangle whose corners
\* are given row by row.  Two of the four "sides" of an accepted rectangle are
\* therefore its diagonals (lines 79-101).
RectangleByDiagonals(r) ==
  isRealRectangle(r) <=>
    /\ Centre(Segment(r, 2)) = Centre(Segment(r, 4))
    /\ Square(arrow(r[2], r[3])) = Square(arrow(r[1], r[4]))
=============================================================================
