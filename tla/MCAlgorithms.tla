---------------------------- MODULE MCAlgorithms ----------------------------
(* The algorithms of the repository on all inputs of small sets: a state is  *)
(* one input of one algorithm, tagged with its kind.                         *)
EXTENDS AlgorithmProblems, FiniteSets, SequencesExt

Boards == INSTANCE ExerciseBoards
Trees == INSTANCE ExerciseTrees
Seqs == INSTANCE ExerciseSequences
Nums == INSTANCE ExerciseNumbers
Msg == INSTANCE ObstacleMessage
Dirs == INSTANCE Directories

Strings(S, from, to) == UNION {[1..n -> S] : n \in from..to}

\* Three tasks along one road of the points 1..6, whose sections overlap.
SectionOf(id, curve) == [id |-> id, lane_list |-> <<curve>>]
SectionLists ==
  {<<>>, <<SectionOf(1, <<1, 2, 3>>)>>, <<SectionOf(2, <<3, 4, 5>>)>>, <<SectionOf(2, <<4, 5, 6>>)>>,
   <<SectionOf(1, <<1, 2, 3>>), SectionOf(2, <<3, 4, 5>>)>>, <<SectionOf(2, <<3, 4, 5>>), SectionOf(3, <<5, 6>>)>>}
MapTasks == [type : {"STRUCTED_MAP"}, start_point : {1, 3}, end_point : {4, 6}, section_list : SectionLists]
TypedTasks ==
  {[type |-> ty, start_point |-> 1, end_point |-> 2,
    section_list |-> IF ty = "ASTAR" THEN <<>>
                     ELSE <<[id |-> id, lane_list |-> <<<<id>>, <<id, 3>>>>]>>] :
     ty \in {"ASTAR", "STRUCTED_MAP", "OTHER"}, id \in {1, 2}}
Routes == [kind : {"route"}, tasks : Strings(MapTasks, 2, 3)]
Records == [kind : {"records"}, tasks : Strings(TypedTasks, 1, 4)]

\* Grids of 2 x 2 blocks of 2 x 2 or 3 x 3 pixels, with lengths that doubles
\* hold and that they do not, and one with its number of pixels cut; and a
\* robot within them.
Places(S) == [x : S, y : S]
Sized(range, block, pixel, vision, side) ==
  [range : {range}, block : {block}, pixel : {pixel}, vision : {vision}, side : {side}, lengths : {"exact", "rounded"}]
Grids ==
  [kind : {"grid"},
   g : Sized(8, 4, 2, 1, 2) \cup Sized(6, 3, 1, 1, 3) \cup Sized(12, 6, 3, 3, 2) \cup Sized(6, 3, 1, 1, 2),
   yaw : 0..3, at : Places(7..9), from : Places(0..1), to : Places(0..1)]

Configs == [kind : {"config"}, unset : SUBSET {"kQueueSize", "kRobotLength", "kRobotVisionForward", "kDynamicReplayTimes"}]
Lines == [kind : {"line"}, a : Places(0..2), b : Places(0..2), c : Places(0..2), d : Places(0..2)]

\* Poses around a grid's origin; headings of several turns, both signs, next
\* to 0 and to each other; a recorded heading that stands for all.
Views == [kind : {"view"}, at : Places(-7..7), range : {3, 5}, block : {2, 5}]
Headings == {-700, -620, -10, 0, 10, 90, 300, 400, 620, 628, 1250}
Meetings == [kind : {"meeting"}, robot : [x : {3, 9, 14}, y : {0, 5}, yaw : Headings],
             pose : [x : {0, 3}, y : {0}, yaw : Headings \cup {-9900, -10000}]]
Showings ==
  [kind : {"showing"}, from : Places({-1, 2}), to : Places({0, 2}), passed : 0..2, nsecs : 1..2,
   robot : [x : {-1, 1}, y : {0, 3}, yaw : 0..3], angle : 0..3]

\* Seconds of bytes that end the input, need padding, or neither.
Stamps ==
  [kind : {"stamp"}, tool : Hex!Tool, s : [1..4 -> {0, 10, 16, 94}],
   ns : {0, 5, 50000000, 99999999, 100000000, 123456789, 573785173, 999999999}]

Boards3 == [(1..3) \X (1..3) -> {"X", "O"}]
Flat == (1..2) \X (1..3)
Surrounded == [kind : {"LC130"}, board : Boards3 \cup [(1..3) \X (1..4) -> {"X", "O"}]]
Minefields == [kind : {"LC529"}, board : [(1..3) \X (1..3) -> {"M", "E"}], click : (1..3) \X (1..3)]
Rooms == [kind : {"LC841"}, rooms : [1..3 -> Strings(1..3, 0, 2)]]
Words == [kind : {"LCjzof12"}, board : [Flat -> {"A", "B"}], word : Strings({"A", "B"}, 1, 4)]
Matrices ==
  [kind : {"LCjzof04"}, target : 0..6,
   board : {m \in [Flat -> 1..5] : \A c, d \in Flat : c[1] <= d[1] /\ c[2] <= d[2] => m[c] <= m[d]}]
Sudokus == [kind : {"LCcjsf10"}, board : UNION {[S -> {1, 2}] : S \in SUBSET {<<0, 0>>, <<1, 2>>, <<4, 0>>, <<4, 2>>, <<5, 8>>}}]
Images == [kind : {"LCcjsf11"}, n : 1..5]

\* All trees over some of the values, each used at most once.
RECURSIVE TreesOf(_)
TreesOf(S) ==
  IF S = {} THEN {Trees!Nil}
  ELSE UNION {{Trees!Node(v, l, r) : l \in TreesOf(L), r \in TreesOf(S \ (L \cup {v}))} :
                <<v, L>> \in {e \in S \X SUBSET S : e[1] \notin e[2]}}
Branching == [kind : {"tree"}, t : UNION {TreesOf(S) : S \in SUBSET {-1, 1, 2, 3}}, sum : {0, 3, 4}]
Stacks == [kind : {"stack"}, ops : Strings(0..2, 1, 6)]

Letters == 1..2
Compared == [kind : {"compared"}, s : Strings(Letters, 0, 3), t : Strings(1..3, 0, 4)]
Analysed == [kind : {"analysed"}, s : Strings(Letters, 1, 6) \cup Strings(1..3, 1, 4)]
Palindromes == [kind : {"palindrome"}, s : Strings({-2, -1, 0, 1, 2}, 0, 4)]
Arrays == [kind : {"array"}, nums : Strings({0, 1, 2, 127}, 1, 4), k : 0..6]
Prices == [kind : {"prices"}, s : Strings(1..4, 0, 4)]
Sentences == [kind : {"sentence"}, dictionary : SUBSET {<<1>>, <<1, 2>>, <<2, 1>>, <<2, 2, 1>>}, s : Strings(Letters, 0, 5)]
Repeats == [kind : {"repeat"}, nums : UNION {[0..(n - 1) -> 0..(n - 1)] : n \in 1..5}]
Pairs == [kind : {"pairs"}, s : Strings(1..3, 0, 3), t : Strings(1..3, 0, 3), target : 2..5]
Counts == [kind : {"number"}, n : 1..199]
Series == [kind : {"series"}, n : 1..50]
Combinations == {p \in [kind : {"choice"}, n : 1..5, k : 1..5, shorter : 1..2, longer : 1..3] :
              p.k <= p.n /\ p.shorter <= p.longer}

\* A directory d of three names, a tree in d/a, and a file beside it.
Names == {"a", "b", ".c"}
Orders == {o \in [1..3 -> Names] : IsInjective(o)}
Systems ==
  {[p \in {<<>>, <<"d">>, <<"e">>} \cup {<<"d", n>> : n \in has} \cup {<<"d", "a", n>> : n \in IF kind["a"] = "dir" /\ "a" \in has THEN in ELSE {}} |->
      IF Len(p) = 0 THEN "dir" ELSE IF p = <<"d">> THEN top ELSE IF p = <<"e">> THEN "file" ELSE kind[Last(p)]] :
     top \in {"dir", "locked"}, has \in SUBSET Names, in \in SUBSET {"b", ".c"}, kind \in [Names -> Dirs!Kinds]}
Listings == [kind : {"directory"}, fs : Systems, order : Orders]
Rectangles == [kind : {"rectangle"}, r : [1..4 -> Places(0..2)]]

\* Messages by what a caller may have done to them: a point with some of its
\* coordinates, states whole and after two calls, lists of up to two states.
Value == {0, 3, 513}
Points == {Msg!New("Point")} \cup UNION {Msg!PointAccess(p, Value) : p \in Msg!PointAccess(Msg!New("Point"), {3})}
Full(type) == [Msg!New(type) EXCEPT !.has = {f.bit : f \in Msg!Scalars(type)}, !.val = [n \in DOMAIN @ |-> 100 + 7 * n]]
Corner == Full("Point")
Stamped(ns) == [Full("State") EXCEPT !.has = Msg!Required("State"), !.val = [n \in DOMAIN @ |-> IF n = 1 THEN ns ELSE IF n < 5 THEN 513 * n ELSE 0]]
StateCalls(m) ==
  Msg!PoseAccess(m, Value) \cup Msg!MotionAccess(m, Value) \cup
  Msg!PolygonAccess(m, {Corner, Msg!New("Point")}) \cup Msg!PointsAccess(m, {Corner})
CalledStates == UNION {StateCalls(m) : m \in StateCalls(Msg!New("State")) \cup StateCalls(Stamped(200))}
WholeStates ==
  {Stamped(5), [Full("State") EXCEPT !.rep[13] = <<Corner>>],
   [Stamped(300) EXCEPT !.rep = (5 :> <<Corner, Corner>> @@ 13 :> <<Corner>>)]}
Longest == [Stamped(6) EXCEPT !.rep[5] = [i \in 1..11 |-> Corner]]   \* more than 127 bytes
ListCalls(m) == Msg!TrackAccess(m, Value) \cup Msg!StatesAccess(m, {Stamped(5), Msg!New("State")})
CalledLists == UNION {ListCalls(m) : m \in ListCalls(Msg!New("List")) \cup ListCalls(Full("List"))}
Tracks ==
  {[Full("List") EXCEPT !.val[1] = id, !.rep[5] = states] :
     id \in {7, 300, 70000}, states \in UNION {[1..n -> WholeStates] : n \in 0..2} \cup {<<Longest, Stamped(5)>>}}

Messages == [kind : {"message"}, m : Points \cup CalledStates \cup CalledLists \cup Tracks]
Merges ==
  [kind : {"merge"}, m : {Corner, Msg!New("Point")}, from : Points] \cup
  [kind : {"merge"}, m : {Full("State"), Stamped(5)} \cup WholeStates, from : StateCalls(Msg!New("State")) \cup WholeStates] \cup
  [kind : {"merge"}, m : ListCalls(Full("List")), from : ListCalls(Msg!New("List"))]
Newers == [kind : {"newer"}, m : Tracks, extra : {<<112, 1>>, <<113, 0, 0>>, <<114, 3, 42, 8, 1>>, <<40, 1>>, <<16, 5>>, <<120, 200, 1, 112, 0>>}]
Cuts == UNION {[kind : {"cut"}, m : {m}, n : 0..Msg!ByteSizeLong(m)] : m \in Tracks}

\* These inputs are among those AlgorithmProofs is about.
ASSUME InputsAreProblems ==
  /\ Grids \subseteq GridProblem /\ Views \subseteq ViewProblem /\ Meetings \subseteq MeetingProblem
  /\ Routes \cup Records \subseteq RouteProblem /\ Stamps \subseteq StampProblem
  /\ Configs \subseteq ConfigProblem
  /\ Showings \subseteq ShowingProblem /\ Lines \subseteq LineProblem /\ Rectangles \subseteq RectangleProblem

Init ==
  \/ problem \in Routes \/ problem \in Records \/ problem \in Grids \/ problem \in Configs
  \/ problem \in Lines \/ problem \in Rectangles \/ problem \in Stamps \/ problem \in Listings
  \/ problem \in Messages \/ problem \in Merges \/ problem \in Newers \/ problem \in Cuts
  \/ problem \in Views \/ problem \in Meetings \/ problem \in Showings
  \/ problem \in Surrounded \/ problem \in Minefields \/ problem \in Rooms \/ problem \in Words
  \/ problem \in Matrices \/ problem \in Sudokus \/ problem \in Images
  \/ problem \in Branching \/ problem \in Stacks
  \/ problem \in Compared \/ problem \in Analysed \/ problem \in Palindromes \/ problem \in Arrays
  \/ problem \in Prices \/ problem \in Sentences \/ problem \in Repeats \/ problem \in Pairs
  \/ problem \in Counts \/ problem \in Series \/ problem \in Combinations
Next == UNCHANGED problem
Spec == Init /\ [][Next]_problem

-----------------------------------------------------------------------------
\* What was written of an obstacle's track is what is read of it, from a whole
\* file, a newer one, or one that was cut short; the directory helpers delete a
\* directory whole or leave it, and list each of its files once.
FilesRight ==
  /\ Is("message") => Msg!ReadsBack(problem.m)
  /\ Is("merge") => Msg!ReadsAsMerge(problem.m, problem.from)
  /\ Is("newer") => Msg!ReadsNewer(problem.m, problem.extra)
  /\ Is("cut") => Msg!KeepsPrefix(problem.m, problem.n)
  /\ Is("directory") => /\ Dirs!DeletedWhole(problem.fs, <<"d">>, problem.order)
                        /\ Dirs!ListedOnce(problem.fs, <<"d">>, problem.order)

\* The exercises: boards, trees and stacks, then strings, arrays and numbers.
ExercisesSolved ==
  /\ Is("LC130") => Boards!SurroundedTurned(problem.board)
  /\ Is("LC529") => Boards!ClickRevealed(problem.board, problem.click)
  /\ Is("LC841") => Boards!RoomsVisited(problem.rooms)
  /\ Is("LCjzof12") => Boards!WordFound(problem.board, problem.word)
  /\ Is("LCjzof04") => Boards!NumberFound(problem.board, problem.target)
  /\ Is("LCcjsf10") => Boards!SudokuJudged(problem.board)
  /\ Is("LCcjsf11") => Boards!ImageTurned(problem.n)
  /\ Is("tree") => Trees!LeavesFound(problem.t, problem.sum) /\ Trees!TreesBuilt(problem.t)
  /\ Is("stack") => Trees!StacksServe(problem.ops)
  /\ Is("compared") => Seqs!StringsCompared(problem.s, problem.t)
  /\ Is("analysed") => Seqs!StringsAnalysed(problem.s)
  /\ Is("palindrome") => Seqs!PalindromesAgree(problem.s)
  /\ Is("array") => Seqs!ArraysRearranged(problem.nums, problem.k)
  /\ Is("prices") => Nums!ProfitsBest(problem.s)
  /\ Is("sentence") => Nums!SentenceSpaced(problem.dictionary, problem.s)
  /\ Is("repeat") => Nums!RepeatedFound(problem.nums)
  /\ Is("pairs") => Nums!PairsFound(problem.s, problem.t, problem.target)
  /\ Is("number") => Nums!NumbersRight(problem.n)
  /\ Is("series") => Nums!SeriesAgree(problem.n)
  /\ Is("choice") => Nums!ChoicesListed(problem.n, problem.k, problem.shorter, problem.longer)
=============================================================================
