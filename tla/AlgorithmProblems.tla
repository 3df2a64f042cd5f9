--------------------------- MODULE AlgorithmProblems ---------------------------
(* What the restorer's geometry and parameters, the route generator and the  *)
(* stamp converters are for, of one problem: a state is one input of one of  *)
(* them, tagged with its kind.                                               *)
EXTENDS Integers, Sequences

Route == INSTANCE RoutePoints
Grid == INSTANCE GridIndex
Line == INSTANCE LineIntersection
Geometry == INSTANCE RestorerGeometry
Hex == INSTANCE HexTime
Config == INSTANCE RestorerConfig
Rect == INSTANCE Rectangles

VARIABLE problem

-----------------------------------------------------------------------------
(* All problems of the plane whose numbers double holds exactly, with their   *)
(* products; a heading in quarter turns where it is rotated by; lengths and  *)
(* durations that are not 0.  Segments are those whose products int holds.   *)
Positive == Nat \ {0}
UpTo(n) == {i \in Int : - n <= i /\ i <= n}
Coordinate == UpTo(33554432)
Length == Coordinate \cap Positive
Place == [x : Coordinate, y : Coordinate]
SegmentEnd == [x : UpTo(76), y : UpTo(76)]
Pose == [x : Coordinate, y : Coordinate, yaw : Coordinate]
Quarters == 0..3

GridProblem ==
  [kind : {"grid"},
   g : [range : Length, block : Length, pixel : Length, vision : Length, side : Length, lengths : {"exact", "rounded"}],
   yaw : Quarters, at : Place, from : Place, to : Place]
ViewProblem == [kind : {"view"}, at : Place, range : Length, block : Length]
MeetingProblem == [kind : {"meeting"}, robot : Pose, pose : Pose]
ShowingProblem ==
  [kind : {"showing"}, from : Place, to : Place, passed : Coordinate \cap Nat, nsecs : Length,
   robot : [x : Coordinate, y : Coordinate, yaw : Quarters], angle : Quarters]
LineProblem == [kind : {"line"}, a : SegmentEnd, b : SegmentEnd, c : SegmentEnd, d : SegmentEnd]
RectangleProblem == [kind : {"rectangle"}, r : [1..4 -> Place]]

PlaneProblem ==
  GridProblem \cup ViewProblem \cup MeetingProblem \cup ShowingProblem \cup LineProblem \cup RectangleProblem

(* All routes: any tasks, their sections with lanes that have points.        *)
Lane == Seq(Int) \ {<<>>}
Section == [id : Int, lane_list : Seq(Lane) \ {<<>>}]
Task == [type : STRING, start_point : Int, end_point : Int, section_list : Seq(Section)]
RouteProblem == [kind : {"route", "records"}, tasks : Seq(Task)]

(* All stamps: the eight bytes of a number of seconds that has no sign bit    *)
(* and of a number of nanoseconds below a second.                            *)
Byte == 0..255
Bytes(n) == <<n % 256, (n \div 256) % 256, (n \div 65536) % 256, n \div 16777216>>
StampProblem ==
  [kind : {"stamp"}, tool : Hex!Tool, s : {b \in [1..4 -> Byte] : b[4] < 128}, ns : {n \in Nat : n < 1000000000}]

(* All configurations: any parameters that are not set.                      *)
ConfigProblem == [kind : {"config"}, unset : SUBSET Config!Range(Config!Params)]

-----------------------------------------------------------------------------
Is(kind) == problem.kind = kind

\* The route written is the one the tasks were compared with, and the records
\* of the route's file are those of the tasks, in their order.
RouteRight ==
  /\ Is("route") => Route!PathIsOutput(problem.tasks)
  /\ Is("records") => Route!RecordsInOrder(problem.tasks)

\* A started node has every variable from the parameter of its name, except four:
\* the sizes of the robot, which are read into the vision ranges instead and stay
\* 0, and the size of a pixel, which becomes the stored grid's.  The node ends if
\* and only if a parameter is not set.
ParametersNamed == Is("config") => Config!ConfigNamed(problem.unset)

\* Which stamps the converters print as they are.
StampsPrinted == Is("stamp") => Hex!PrintedTime(problem.tool, problem.s \o Bytes(problem.ns))

\* A cell of the obstacle grid has one index, also after the grid was moved;
\* what the two tests say of the meeting of two segments, and the third of four
\* points; which blocks are read, which obstacles start, and where they are shown.
GeometryRight ==
  /\ Is("grid") => /\ Grid!CellOfItsPoint(problem.g, problem.yaw, problem.at)
                   /\ Grid!GridKeptOnMove(problem.g, problem.yaw, problem.at, problem.from, problem.to)
  /\ Is("view") => Geometry!ViewCovered(problem.at, problem.range, problem.block)
  /\ Is("meeting") => Geometry!StartsNearby(problem.robot, problem.pose)
  /\ Is("showing") => Geometry!ShownInPlace(problem.from, problem.to, problem.passed, problem.nsecs,
                                            problem.robot, problem.angle)
  /\ Is("line") => Line!SegmentsMeet(problem.a, problem.b, problem.c, problem.d)
  /\ Is("rectangle") => Rect!RectangleByDiagonals(problem.r)
=============================================================================
