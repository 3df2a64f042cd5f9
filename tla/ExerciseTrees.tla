---------------------------- MODULE ExerciseTrees ----------------------------
(* The exercises of src/leetcode_train about binary trees and about stacks.  *)
(* A tree is Nil or a record of a value and two trees, a linked list is a    *)
(* sequence, the head of the sequence that stands for a stack is its top.    *)
EXTENDS Integers, Sequences, SequencesExt, FiniteSetsExt

Nil == [val |-> "nil"]
Node(v, l, r) == [val |-> v, left |-> l, right |-> r]
IsLeaf(t) == t.left = Nil /\ t.right = Nil
Least(a, b) == IF a < b THEN a ELSE b
Most(a, b) == IF a > b THEN a ELSE b

\* The values on the way from the root to each leaf.
RECURSIVE Branches(_)
Branches(t) ==
  IF t = Nil THEN {} ELSE IF IsLeaf(t) THEN {<<t.val>>}
  ELSE {<<t.val>> \o p : p \in Branches(t.left) \cup Branches(t.right)}

-----------------------------------------------------------------------------
(* LC111: the depth of the nearest leaf. *)
RECURSIVE helper(_, _)
helper(t, d) ==
  IF IsLeaf(t) THEN d + 1
  ELSE IF t.left = Nil THEN helper(t.right, d + 1)
  ELSE IF t.right = Nil THEN helper(t.left, d + 1)
  ELSE Least(helper(t.left, d + 1), helper(t.right, d + 1))
minDepth(t) == IF t = Nil THEN 0 ELSE helper(t, 0)

RECURSIVE minDepth1(_)
minDepth1(t) ==
  IF t = Nil THEN 0
  ELSE IF t.left # Nil /\ t.right # Nil THEN 1 + Least(minDepth1(t.left), minDepth1(t.right))
  ELSE 1 + Most(minDepth1(t.left), minDepth1(t.right))

\* LC112: is there a leaf with this sum of values on the way to it?
RECURSIVE hasPathSum(_, _)
hasPathSum(t, sum) ==
  /\ t # Nil
  /\ IF IsLeaf(t) THEN t.val = sum
     ELSE hasPathSum(t.left, sum - t.val) \/ hasPathSum(t.right, sum - t.val)

\* The children of a node that are there, each behind the way to it.
Children(path, t) ==
  [i \in DOMAIN SelectSeq(<<t.left, t.right>>, LAMBDA c : c # Nil) |->
     LET c == SelectSeq(<<t.left, t.right>>, LAMBDA d : d # Nil)[i]
     IN  [node |-> c, path |-> Append(path, c.val)]]

\* The ways to the leaves that leave the queue of LC112's second and LC257's
\* second solution; the former carries the sum of the way only.
RECURSIVE Leaving(_)
Leaving(que) ==
  IF que = <<>> THEN <<>>
  ELSE IF IsLeaf(que[1].node) THEN <<que[1].path>> \o Leaving(Tail(que))
  ELSE Leaving(Tail(que) \o Children(que[1].path, que[1].node))
Queued(t) == IF t = Nil THEN <<>> ELSE Leaving(<<[node |-> t, path |-> <<t.val>>]>>)
hasPathSum2(t, sum) == \E p \in Range(Queued(t)) : FoldLeft(+, 0, p) = sum

\* LC257: the ways to all leaves.
RECURSIVE construct_paths(_, _, _)
construct_paths(t, path, paths) ==
  IF t = Nil THEN paths
  ELSE IF IsLeaf(t) THEN Append(paths, Append(path, t.val))
  ELSE construct_paths(t.right, Append(path, t.val), construct_paths(t.left, Append(path, t.val), paths))
binaryTreePaths(t) == construct_paths(t, <<>>, <<>>)
binaryTreePaths2(t) == Queued(t)

\* The two ways to find the depth, the sum and the ways agree with what is
\* asked, the queue giving the ways by length.
LeavesFound(t, sum) ==
  LET asked == Branches(t)
      depth == IF t = Nil THEN 0 ELSE Min({Len(p) : p \in asked})
      found == \E p \in asked : FoldLeft(+, 0, p) = sum
      paths == binaryTreePaths(t)
  IN  /\ minDepth(t) = depth /\ minDepth1(t) = depth
      /\ (hasPathSum(t, sum) <=> found) /\ (hasPathSum2(t, sum) <=> found)
      /\ Range(paths) = asked
      /\ binaryTreePaths2(t) =
           FlattenSeq([k \in 1..Max({0} \cup {Len(p) : p \in asked}) |->
                         SelectSeq(paths, LAMBDA p : Len(p) = k)])

-----------------------------------------------------------------------------
RECURSIVE Preorder(_), Inorder(_), Height(_), Balanced(_)
Preorder(t) == IF t = Nil THEN <<>> ELSE <<t.val>> \o Preorder(t.left) \o Preorder(t.right)
Inorder(t) == IF t = Nil THEN <<>> ELSE Inorder(t.left) \o <<t.val>> \o Inorder(t.right)
Height(t) == IF t = Nil THEN 0 ELSE 1 + Most(Height(t.left), Height(t.right))
Balanced(t) ==
  t = Nil \/ /\ Height(t.left) - Height(t.right) \in -1..1
             /\ Balanced(t.left) /\ Balanced(t.right)

\* LC109: slow stops in the middle, behind half of the list.
RECURSIVE sortedListToBST(_)
sortedListToBST(list) ==
  LET half == Len(list) \div 2
  IN  IF list = <<>> THEN Nil
      ELSE Node(list[half + 1], sortedListToBST(SubSeq(list, 1, half)),
                sortedListToBST(SubSeq(list, half + 2, Len(list))))

\* LCjzof07: the tree with these two traversals, by sub-ranges.
RECURSIVE recursionBuild(_, _)
recursionBuild(pre, in) ==
  IF in = <<>> THEN Nil
  ELSE LET root == Min({i \in DOMAIN in : in[i] = pre[1]})
       IN  Node(pre[1], recursionBuild(SubSeq(pre, 2, root), SubSeq(in, 1, root - 1)),
                recursionBuild(SubSeq(pre, root + 1, Len(pre)), SubSeq(in, root + 1, Len(in))))

\* The same by indices, from 0, into the whole traversals.
RECURSIVE build(_, _, _, _, _)
build(pre, in, root, left, right) ==
  IF left > right THEN Nil
  ELSE LET middle == Max({i \in DOMAIN in : in[i] = pre[root + 1]}) - 1
       IN  Node(pre[root + 1], build(pre, in, root + 1, left, middle - 1),
                build(pre, in, root + middle - left + 1, middle + 1, right))

\* A tree with distinct values comes back from its traversals, and a list
\* becomes a balanced tree whose values are in the order of the list.
TreesBuilt(t) ==
  LET pre == Preorder(t)
      in == Inorder(t)
  IN  /\ recursionBuild(pre, in) = t
      /\ build(pre, in, 0, 0, Len(in) - 1) = t
      /\ Inorder(sortedListToBST(pre)) = pre /\ Balanced(sortedListToBST(pre))

-----------------------------------------------------------------------------
(* LCjzof09: a queue of two stacks; an operation is a value that is appended *)
(* or Delete.  The second class does the same tests in another order.        *)
Delete == 0
appendTail(q, value) == [q EXCEPT !.stack1 = <<value>> \o @]
deleteHead(q) ==
  IF q.stack1 \o q.stack2 = <<>> THEN [q EXCEPT !.got = Append(@, -1)]
  ELSE LET stack2 == IF q.stack2 # <<>> THEN q.stack2 ELSE Reverse(q.stack1)
       IN  [stack1 |-> IF q.stack2 # <<>> THEN q.stack1 ELSE <<>>,
            stack2 |-> Tail(stack2), got |-> Append(q.got, stack2[1])]
CQueue(ops) ==
  FoldLeft(LAMBDA q, o : IF o = Delete THEN deleteHead(q) ELSE appendTail(q, o),
           [stack1 |-> <<>>, stack2 |-> <<>>, got |-> <<>>], ops)

(* minstack.cpp: a stack and a stack of its minima. *)
push(s, value) ==
  [data |-> <<value>> \o s.data,
   min |-> <<IF s.min = <<>> \/ value < s.min[1] THEN value ELSE s.min[1]>> \o s.min]
pop(s) == IF s.data # <<>> /\ s.min # <<>> THEN [data |-> Tail(s.data), min |-> Tail(s.min)] ELSE s
minstack(ops) ==
  FoldLeft(LAMBDA s, o : IF o = Delete THEN pop(s) ELSE push(s, o), [data |-> <<>>, min |-> <<>>], ops)

\* The queue hands the values out in the order they came in, and -1 while it
\* is empty; the top of the second stack is the least value of the first.
StacksServe(ops) ==
  LET fifo == FoldLeft(LAMBDA q, o :
                         IF o # Delete THEN [q EXCEPT !.left = Append(@, o)]
                         ELSE IF q.left = <<>> THEN [q EXCEPT !.got = Append(@, -1)]
                         ELSE [left |-> Tail(q.left), got |-> Append(q.got, q.left[1])],
                       [left |-> <<>>, got |-> <<>>], ops)
      s == minstack(ops)
  IN  /\ CQueue(ops).got = fifo.got
      /\ Len(s.min) = Len(s.data)
      /\ s.data # <<>> => s.min[1] = Min(Range(s.data))
=============================================================================
