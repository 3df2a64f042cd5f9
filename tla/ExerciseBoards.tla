--------------------------- MODULE ExerciseBoards ---------------------------
(* The exercises of src/leetcode_train about boards, graphs and trees.  A    *)
(* board is a function of its cells <<x, y>>, a tree is Nil or a record;     *)
(* where an exercise is solved in several ways the solutions are numbered as *)
(* the classes of the file, and compared with each other and with a          *)
(* definition of what is asked.                                              *)
EXTENDS Integers, Sequences, SequencesExt, FiniteSetsExt

Directions4 == <<<<1, 0>>, <<-1, 0>>, <<0, 1>>, <<0, -1>>>>
Directions8 == <<<<0, 1>>, <<1, 0>>, <<0, -1>>, <<-1, 0>>, <<1, 1>>, <<1, -1>>, <<-1, 1>>, <<-1, -1>>>>
\* The neighbours of a cell that are on the board, in the order of directions.
Around(board, c, directions) ==
  SelectSeq([i \in DOMAIN directions |-> <<c[1] + directions[i][1], c[2] + directions[i][2]>>],
            LAMBDA d : d \in DOMAIN board)

\* The cells that can be reached from S over cells of Through.
RECURSIVE Reached(_, _, _, _)
Reached(board, S, Through, directions) ==
  LET T == S \cup (Through \cap UNION {Range(Around(board, c, directions)) : c \in S})
  IN  IF T = S THEN S ELSE Reached(board, T, Through, directions)

-----------------------------------------------------------------------------
(* LC130: the O's that X's surround become X's. *)
RECURSIVE Mark(_, _)
\* dfs: a cell that is not an O is left alone.
Mark(board, c) ==
  IF board[c] # "O" THEN board
  ELSE FoldLeft(Mark, [board EXCEPT ![c] = "A"], Around(board, c, Directions4))

\* The order in which the border is visited (lines 53-60 and 86-101).
Border(board) ==
  LET n == Max({c[1] : c \in DOMAIN board})
      m == Max({c[2] : c \in DOMAIN board})
  IN  FlattenSeq([i \in 1..n |-> <<<<i, 1>>, <<i, m>>>>])
        \o FlattenSeq([i \in 1..(m - 2) |-> <<<<1, i + 1>>, <<n, i + 1>>>>])
Restored(board) ==
  [c \in DOMAIN board |-> CASE board[c] = "A" -> "O" [] board[c] = "O" -> "X" [] OTHER -> board[c]]

solve(board) == Restored(FoldLeft(Mark, board, Border(board)))

RECURSIVE MarkQueue(_, _)
\* bfs: a cell is marked only when it leaves the queue, so it may be in it
\* several times.
MarkQueue(board, que) ==
  IF que = <<>> THEN board
  ELSE LET marked == [board EXCEPT ![que[1]] = "A"]
       IN  MarkQueue(marked, Tail(que) \o SelectSeq(Around(board, que[1], Directions4),
                                                    LAMBDA d : marked[d] = "O"))
solve1(board) == Restored(MarkQueue(board, SelectSeq(Border(board), LAMBDA c : board[c] = "O")))

SurroundedTurned(board) ==
  LET O == {c \in DOMAIN board : board[c] = "O"}
      free == Reached(board, O \cap Range(Border(board)), O, Directions4)
      asked == [c \in DOMAIN board |-> IF c \in free THEN "O" ELSE "X"]
  IN  solve(board) = asked /\ solve1(board) = asked

-----------------------------------------------------------------------------
(* LC529: a click into a minesweeper board of M (mine) and E (hidden). *)
Digit(n) == <<"1", "2", "3", "4", "5", "6", "7", "8">>[n]
Mines(board, c) == Len(SelectSeq(Around(board, c, Directions8), LAMBDA d : board[d] = "M"))

RECURSIVE Reveal(_, _)
\* dfs: the caller has checked that c is hidden.
Reveal(board, c) ==
  IF Mines(board, c) > 0 THEN [board EXCEPT ![c] = Digit(Mines(board, c))]
  ELSE FoldLeft(LAMBDA b, d : IF b[d] = "E" THEN Reveal(b, d) ELSE b,
                [board EXCEPT ![c] = "B"], Around(board, c, Directions8))

RECURSIVE RevealQueue(_, _, _)
\* bfs: vis keeps a cell from entering the queue twice.
RevealQueue(board, que, vis) ==
  IF que = <<>> THEN board
  ELSE LET c == que[1]
           more == SelectSeq(Around(board, c, Directions8), LAMBDA d : board[d] = "E" /\ d \notin vis)
       IN  IF Mines(board, c) > 0
           THEN RevealQueue([board EXCEPT ![c] = Digit(Mines(board, c))], Tail(que), vis)
           ELSE RevealQueue([board EXCEPT ![c] = "B"], Tail(que) \o more, vis \cup Range(more))

updateBoard(board, click) ==
  IF board[click] = "M" THEN [board EXCEPT ![click] = "X"] ELSE Reveal(board, click)
updateBoard1(board, click) ==
  IF board[click] = "M" THEN [board EXCEPT ![click] = "X"]
  ELSE RevealQueue(board, <<click>>, {click})

ClickRevealed(board, click) ==
  LET blank == {c \in DOMAIN board : board[c] = "E" /\ Mines(board, c) = 0}
      inside == Reached(board, {click} \cap blank, blank, Directions8)
      shown == {click} \cup UNION {Range(Around(board, c, Directions8)) : c \in inside}
      asked == [c \in DOMAIN board |->
                  IF board[click] = "M" THEN IF c = click THEN "X" ELSE board[c]
                  ELSE IF c \notin shown THEN board[c]
                  ELSE IF Mines(board, c) = 0 THEN "B" ELSE Digit(Mines(board, c))]
  IN  updateBoard(board, click) = asked /\ updateBoard1(board, click) = asked

-----------------------------------------------------------------------------
(* LC841: rooms[x] is the sequence of keys in room x; room 1 is open. *)
RECURSIVE Visit(_, _, _)
Visit(rooms, r, x) ==
  FoldLeft(LAMBDA q, k : IF k \in q.vis THEN q ELSE Visit(rooms, q, k),
           [vis |-> r.vis \cup {x}, num |-> r.num + 1], rooms[x])
canVisitAllRooms(rooms) == Visit(rooms, [vis |-> {}, num |-> 0], 1).num = Len(rooms)

RECURSIVE VisitQueue(_, _, _, _)
VisitQueue(rooms, que, vis, num) ==
  IF que = <<>> THEN num
  ELSE LET r == FoldLeft(LAMBDA q, k : IF k \in q.vis THEN q ELSE [que |-> Append(q.que, k), vis |-> q.vis \cup {k}],
                         [que |-> Tail(que), vis |-> vis], rooms[que[1]])
       IN  VisitQueue(rooms, r.que, r.vis, num + 1)
canVisitAllRooms1(rooms) == VisitQueue(rooms, <<1>>, {1}, 0) = Len(rooms)

RoomsVisited(rooms) ==
  LET closed(S) == \A x \in S : Range(rooms[x]) \subseteq S
      asked == \A S \in SUBSET DOMAIN rooms : 1 \in S /\ closed(S) => S = DOMAIN rooms
  IN  (canVisitAllRooms(rooms) <=> asked) /\ (canVisitAllRooms1(rooms) <=> asked)

-----------------------------------------------------------------------------
(* LCjzof12: a word on a path of neighbours that uses no cell twice. *)
RECURSIVE Continue(_, _, _, _)
\* The visited cell is a '.' while the neighbours are tried.
Continue(board, word, c, num) ==
  \/ num = Len(word)
  \/ LET used == [board EXCEPT ![c] = "."]
     IN  \E d \in Range(Around(board, c, Directions4)) :
           word[num + 1] = used[d] /\ Continue(used, word, d, num + 1)
exist(board, word) == \E c \in DOMAIN board : board[c] = word[1] /\ Continue(board, word, c, 1)

WordFound(board, word) ==
  exist(board, word) <=>
    \E path \in [DOMAIN word -> DOMAIN board] :
      /\ \A i, j \in DOMAIN word : i # j => path[i] # path[j]
      /\ \A i \in DOMAIN word : board[path[i]] = word[i]
      /\ \A i \in 2..Len(word) : path[i] \in Range(Around(board, path[i - 1], Directions4))

(* LCjzof04: a number in a matrix whose rows and columns ascend. *)
RECURSIVE Walk(_, _, _, _)
Walk(matrix, target, i, j) ==
  IF <<j, i>> \notin DOMAIN matrix THEN FALSE
  ELSE \/ matrix[<<j, i>>] = target
       \/ matrix[<<j, i>>] < target /\ Walk(matrix, target, i, j + 1)
       \/ matrix[<<j, i>>] > target /\ Walk(matrix, target, i - 1, j)
NumberFound(matrix, target) ==
  Walk(matrix, target, Max({c[2] : c \in DOMAIN matrix}), 1) <=> target \in {matrix[c] : c \in DOMAIN matrix}

(* LCcjsf10: a 9 x 9 sudoku; board has the cells that are filled, 0..8 each. *)
Box(c) == (c[1] \div 3) * 3 + (c[2] \div 3)
\* Row-major; empty cells are passed over.
Filled(board) == SetToSortSeq(DOMAIN board, LAMBDA c, d : 9 * c[1] + c[2] < 9 * d[1] + d[2])
\* The first two solutions: three tables, by row, column and box.
TableKeys(c, v) == {<<"row", c[1], v>>, <<"col", c[2], v>>, <<"box", Box(c), v>>}
\* The third one: nine bits of the row's, the column's and the box's word.
WordKeys(c, v) == {<<c[1], v>>, <<c[2], 9 + v>>, <<Box(c), 18 + v>>}
isValidSudoku(board) ==
  FoldLeft(LAMBDA r, c : IF r.seen \cap TableKeys(c, board[c]) # {} THEN [r EXCEPT !.valid = FALSE]
                         ELSE [r EXCEPT !.seen = @ \cup TableKeys(c, board[c])],
           [valid |-> TRUE, seen |-> {}], Filled(board)).valid
isValidSudoku2(board) ==
  FoldLeft(LAMBDA r, c : IF r.seen \cap WordKeys(c, board[c]) # {} THEN [r EXCEPT !.valid = FALSE]
                         ELSE [r EXCEPT !.seen = @ \cup WordKeys(c, board[c])],
           [valid |-> TRUE, seen |-> {}], Filled(board)).valid

SudokuJudged(board) ==
  LET asked == \A c, d \in DOMAIN board : c # d /\ board[c] = board[d] =>
                 c[1] # d[1] /\ c[2] # d[2] /\ Box(c) # Box(d)
  IN  (isValidSudoku(board) <=> asked) /\ (isValidSudoku2(board) <=> asked)

(* LCcjsf11: a quarter turn in place, by two rounds of swaps. *)
SwapCells(m, p) == [m EXCEPT ![p[1]] = m[p[2]], ![p[2]] = m[p[1]]]
rotateImage(matrix, n) ==
  LET Pairs(len) == FlattenSeq([i \in 1..n |-> [j \in 1..len[i] |-> <<i, j>>]])
      diagonal == FoldLeft(LAMBDA m, c : SwapCells(m, <<c, <<n + 1 - c[2], n + 1 - c[1]>>>>),
                           matrix, Pairs([i \in 1..n |-> n - i]))
  IN  FoldLeft(LAMBDA m, c : SwapCells(m, <<c, <<n + 1 - c[1], c[2]>>>>),
               diagonal, Pairs([i \in 1..n |-> IF i <= n \div 2 THEN n ELSE 0]))
ImageTurned(n) ==
  LET matrix == [c \in (1..n) \X (1..n) |-> c]
  IN  rotateImage(matrix, n) = [c \in DOMAIN matrix |-> matrix[<<n + 1 - c[2], c[1]>>]]
=============================================================================
