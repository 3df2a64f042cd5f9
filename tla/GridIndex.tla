----------------------------- MODULE GridIndex -----------------------------
(* The obstacle grid of src/aw_simulation_obstacle_new/src/utils.cpp: a      *)
(* square of Num1D x Num1D blocks, each a square of pixels, kept as one      *)
(* array in memory and as one file per block on the disk.                    *)
(*                                                                           *)
(* Lengths are integers in a unit that divides all granularities, the yaw of *)
(* the robot is a number of quarter turns, and g is the configuration:       *)
(* g.range, g.block, g.pixel, g.vision, the pixels on the side of a block as *)
(* the division of the constructor gave them (g.side), and g.lengths.  They  *)
(* are "exact" if doubles hold them, which takes a power of 1/2 as the unit, *)
(* and "rounded" otherwise: then a quotient that is a whole number may come  *)
(* out below it and be one less once it is cut to uint32_t.  (All lengths    *)
(* are short enough for a rounding error to do nothing else, except that of  *)
(* a half, which round() takes as it is here.)                               *)
(*                                                                           *)
(* A coordinate left of the grid is converted from a negative double, which  *)
(* is undefined; a file that cannot be written or is too short ends the      *)
(* program.  Neither is modelled.  The first block is given by its place in  *)
(* blocks.                                                                   *)
EXTENDS Integers, Sequences

Num1D(g) == g.range \div g.block
PixelNum1D(g) == g.side
PixelNum(g) == PixelNum1D(g) * PixelNum1D(g)
GridNum(g) == Num1D(g) * Num1D(g) * PixelNum(g)

Sin(yaw) == <<0, 1, 0, -1>>[yaw + 1]
Cos(yaw) == <<1, 0, -1, 0>>[yaw + 1]

\* round(a / step) * step: halves are rounded away from zero.
RoundTo(a, step) ==
  IF a >= 0 THEN step * ((2 * a + step) \div (2 * step))
  ELSE - (step * ((step - 2 * a) \div (2 * step)))

\* What n / step may be once it is cut.
Truncated(g, n, step) ==
  IF g.lengths = "exact" \/ n % step # 0 \/ n = 0 THEN {n \div step} ELSE {n \div step - 1, n \div step}

\* The block and the pixel in it that a coordinate may be taken to be in.
CellsOf(g, u) ==
  UNION {{<<b, p>> : p \in Truncated(g, u - b * g.block, g.pixel)} : b \in Truncated(g, u, g.block)}

\* The indices that a point may be given, as seen by a robot that stands `at`
\* in the grid.
RobotRelaCoor2GridIndex(g, pt, yaw, at) ==
  LET u == RoundTo(pt.x * Cos(yaw) - pt.y * Sin(yaw) + at.x, g.pixel)
      v == RoundTo(pt.y * Cos(yaw) + pt.x * Sin(yaw) + at.y, g.pixel)
  IN  {(c[1] * Num1D(g) + d[1]) * PixelNum(g) + (c[2] * PixelNum1D(g) + d[2]) :
         c \in CellsOf(g, u), d \in CellsOf(g, v)}

GridIndex2RobotRelaCoor(g, i, yaw, at) ==
  LET pixel == i % PixelNum(g)
      block == i \div PixelNum(g)
      u == (pixel \div PixelNum1D(g)) * g.pixel + (block \div Num1D(g)) * g.block - at.x
      v == (pixel % PixelNum1D(g)) * g.pixel + (block % Num1D(g)) * g.block - at.y
  IN  [x |-> RoundTo(u * Cos(yaw) + v * Sin(yaw), g.vision),
       y |-> RoundTo(v * Cos(yaw) - u * Sin(yaw), g.vision)]

\* The file of block i of a grid whose first block is base.
BlockName(g, i, base) == [x |-> (i \div Num1D(g)) + base.x, y |-> (i % Num1D(g)) + base.y]

DumpGridToMultiFile(g, grid, base) ==
  LET blocks == 0..(Num1D(g) * Num1D(g) - 1)
      of(name) == CHOOSE i \in blocks : BlockName(g, i, base) = name
  IN  [name \in {BlockName(g, i, base) : i \in blocks} |->
        [k \in 0..(PixelNum(g) - 1) |-> grid[of(name) * PixelNum(g) + k]]]

\* A block without a file keeps what the buffer holds.
LoadGridFromMultiFile(g, files, base, buff) ==
  [k \in 0..(GridNum(g) - 1) |->
     LET name == BlockName(g, k \div PixelNum(g), base)
     IN  IF name \in DOMAIN files THEN files[name][k % PixelNum(g)] ELSE buff[k]]

-----------------------------------------------------------------------------
\* Whole blocks and whole pixels, and the number of them on a side (lines 21
\* and 24 of obstacle_restorer.cpp; with 7 m and 0.07 m it comes out as 99);
\* and rounding to kRobotVisionGranularity that moves a point by less than half
\* a pixel: with two equal granularities and the robot half a pixel off it
\* would not.
Regular(g) ==
  /\ g.range % g.block = 0 /\ g.block = g.side * g.pixel
  /\ g.vision < g.pixel \/ (g.vision = g.pixel /\ g.pixel % 2 = 1)

\* The point of a grid cell leads back to the cell, for any yaw and any place
\* of the robot, if doubles hold the lengths; else to the cell or to the one
\* before it in a row, a column or both.  (Of a cell on the first row or column
\* of a block nothing is promised then: with 58 m and 0.145 m the block may be
\* the one before, and the pixel one past its last.)
CellOfItsPoint(g, yaw, at) ==
  Regular(g) =>
    \A i \in 0..(GridNum(g) - 1) :
      LET pixel == i % PixelNum(g)
          found == RobotRelaCoor2GridIndex(g, GridIndex2RobotRelaCoor(g, i, yaw, at), yaw, at)
      IN  /\ g.lengths = "exact" => found = {i}
          /\ (pixel >= g.side /\ pixel % g.side > 0) => found \subseteq {i, i - 1, i - g.side, i - g.side - 1}

\* The grid is dumped, and loaded again when its first block is another one:
\* if doubles hold the lengths, each place the two grids share keeps its value,
\* found through the index of either grid by a robot that has not moved, and
\* the rest of the buffer is left alone.  at is the robot's place in the world.
GridKeptOnMove(g, yaw, at, from, to) ==
  LET In(base) == [x |-> at.x - base.x * g.block, y |-> at.y - base.y * g.block]
      grid == [i \in 0..(GridNum(g) - 1) |-> i]
      buff == [i \in 0..(GridNum(g) - 1) |-> -1]
      moved == LoadGridFromMultiFile(g, DumpGridToMultiFile(g, grid, from), to, buff)
      shared == {i \in DOMAIN grid : \E j \in DOMAIN grid :
                   BlockName(g, i \div PixelNum(g), to) = BlockName(g, j \div PixelNum(g), from)}
      Seen(i) == RobotRelaCoor2GridIndex(g, GridIndex2RobotRelaCoor(g, i, yaw, In(to)), yaw, In(from))
  IN  Regular(g) =>
      /\ \A i \in shared : g.lengths = "exact" => Seen(i) = {moved[i]}
      /\ \A i \in DOMAIN grid \ shared : moved[i] = -1
=============================================================================
