---------------------------- MODULE FoldTheorems ----------------------------
(***************************************************************************)
(* What FoldLeft computes, for any step: its value is reached one element  *)
(* after the other.  FoldLeft is defined by recursion over sets; that this *)
(* definition has a solution has to be shown.                              *)
(***************************************************************************)
EXTENDS Integers, SequencesExt, SequenceTheorems, WellFoundedInduction, TLAPS

CONSTANT Step(_, _)

\* Induction: the least number outside T would have a predecessor in it.
LEMMA SetInduction ==
  ASSUME NEW T \in SUBSET Nat, 0 \in T, \A n \in T : n + 1 \in T
  PROVE  T = Nat
<1> SUFFICES ASSUME Nat \ T # {} PROVE FALSE
  OBVIOUS
<1> DEFINE Out == Nat \ T
<1>1. Out \in SUBSET Nat /\ Out # {}
  OBVIOUS
<1> HIDE DEF Out
<1>2. PICK x \in Out : \A y \in Out : ~ (<<y, x>> \in OpToRel(<, Nat))
  BY <1>1, NatLessThanWellFounded, WFMin
<1>3. x \in Nat /\ x \notin T
  BY <1>1 DEF Out
<1>4. x - 1 \in Nat /\ x - 1 < x
  BY <1>3
<1>5. ASSUME x - 1 \in Out PROVE FALSE
  BY <1>2, <1>3, <1>4, <1>5 DEF OpToRel
<1> QED
  BY <1>3, <1>4, <1>5 DEF Out

\* A set of numbers up to a bound has a greatest member.
LEMMA GreatestNat ==
  ASSUME NEW n \in Nat, NEW S \in SUBSET (1..n), S # {}
  PROVE  \E x \in S : \A y \in S : x >= y
<1> DEFINE Good == {m \in Nat : \A s \in SUBSET (1..m) : s # {} => \E x \in s : \A y \in s : x >= y}
<1>1. 0 \in Good
  <2>1. 1..0 = {}
    OBVIOUS
  <2> QED BY <2>1
<1>2. ASSUME NEW m \in Good PROVE m + 1 \in Good
  <2> SUFFICES ASSUME NEW s \in SUBSET (1..(m + 1)), s # {} PROVE \E x \in s : \A y \in s : x >= y
    OBVIOUS
  <2>1. CASE m + 1 \in s
    BY <2>1
  <2>2. CASE m + 1 \notin s
    <3>1. s \in SUBSET (1..m)
      BY <2>2
    <3> QED BY <3>1
  <2> QED BY <2>1, <2>2
<1>3. n \in Good
  <2> HIDE DEF Good
  <2>1. Good \in SUBSET Nat
    BY DEF Good
  <2> QED BY <1>1, <1>2, <2>1, SetInduction
<1> QED
  BY <1>3

\* The equation that defines the fold over a sequence.
Folded(base, queue, f) ==
  f = [s \in SUBSET (1..Len(queue)) |->
         IF s = {} THEN base ELSE Step(f[s \ {Max(s)}], queue[Max(s)])]
Fold(base, queue) == FoldLeft(Step, base, queue)

\* The equation that defines a fold has a solution.  For every k there is a
\* function that satisfies it on the subsets of 1..k, hence one for all of
\* the queue.
LEMMA FoldSolved ==
  ASSUME NEW base, NEW R, NEW queue \in Seq(R)
  PROVE  \E f : Folded(base, queue, f)
<1> DEFINE n == Len(queue)
           Of(f, s) == IF s = {} THEN base ELSE Step(f[s \ {Max(s)}], queue[Max(s)])
           Solves(f, k) == /\ f = [s \in SUBSET (1..n) |-> f[s]]
                           /\ \A s \in SUBSET (1..k) : f[s] = Of(f, s)
           Upto == {k \in Nat : k > n \/ \E f : Solves(f, k)}
<1>1. n \in Nat /\ DOMAIN queue = 1..n
  OBVIOUS
<1>2. 0 \in Upto
  <2> DEFINE f == [s \in SUBSET (1..n) |-> base]
  <2>1. \A s \in SUBSET (1..0) : f[s] = Of(f, s)
    BY <1>1
  <2>2. f = [s \in SUBSET (1..n) |-> f[s]]
    OBVIOUS
  <2> HIDE DEF f, Of
  <2> QED BY <2>1, <2>2
<1>3. ASSUME NEW k \in Upto PROVE k + 1 \in Upto
  <2> SUFFICES ASSUME k + 1 <= n
               PROVE  \E f : Solves(f, k + 1)
    <3> HIDE DEF Solves
    <3> QED BY <1>1
  <2>1. PICK f : /\ f = [s \in SUBSET (1..n) |-> f[s]]
                 /\ \A s \in SUBSET (1..k) : f[s] = Of(f, s)
    <3> HIDE DEF Of
    <3>1. ~ k > n
      BY <1>1
    <3> QED BY <3>1
  <2> DEFINE g == [s \in SUBSET (1..n) |-> Of(f, s)]
  <2>2. \A s \in SUBSET (1..k) : g[s] = f[s]
    <3>1. \A s \in SUBSET (1..k) : s \in SUBSET (1..n)
      BY <1>1
    <3> HIDE DEF Of
    <3> QED BY <2>1, <3>1
  <2>3. ASSUME NEW s \in SUBSET (1..(k + 1)) PROVE g[s] = Of(g, s)
    <3>1. s \in SUBSET (1..n)
      BY <1>1
    <3>2. CASE s = {}
      BY <3>1, <3>2
    <3>3. CASE s # {}
      <4>1. Max(s) \in s /\ \A q \in s : q <= Max(s)
        BY <3>3, GreatestNat DEF Max
      <4>2. s \ {Max(s)} \in SUBSET (1..k)
        BY <4>1
      <4>3. g[s \ {Max(s)}] = f[s \ {Max(s)}]
        <5> HIDE DEF g
        <5> QED BY <2>2, <4>2
      <4>4. g[s] = Of(f, s)
        <5> HIDE DEF Of
        <5> QED BY <3>1
      <4> HIDE DEF g
      <4> QED BY <3>3, <4>3, <4>4
    <3> QED BY <3>2, <3>3
  <2>4. g = [s \in SUBSET (1..n) |-> g[s]]
    OBVIOUS
  <2> HIDE DEF g, Of
  <2> QED BY <2>3, <2>4
<1>4. n \in Upto
  <2>1. Upto \in SUBSET Nat
    OBVIOUS
  <2> HIDE DEF Upto
  <2> QED BY <1>1, <1>2, <1>3, <2>1, SetInduction
<1>5. PICK f : /\ f = [s \in SUBSET (1..n) |-> f[s]]
               /\ \A s \in SUBSET (1..n) : f[s] = Of(f, s)
  <2> HIDE DEF Of
  <2>1. ~ n > n
    BY <1>1
  <2> QED BY <1>4, <2>1
<1>6. f = [s \in SUBSET (1..n) |-> Of(f, s)]
  <2> HIDE DEF Of
  <2> QED BY <1>5
<1> QED
  BY <1>6 DEF Folded

\* A solution goes through one state per element of the queue.
LEMMA FoldGoesOn ==
  ASSUME NEW base, NEW R, NEW queue \in Seq(R),
         NEW f, Folded(base, queue, f)
  PROVE  \E g : /\ g[0] = base /\ g[Len(queue)] = f[1..Len(queue)]
                /\ \A i \in 1..Len(queue) : g[i] = Step(g[i - 1], queue[i])
<1> DEFINE n == Len(queue)
           g == [i \in 0..n |-> f[1..i]]
<1>1. n \in Nat
  OBVIOUS
<1>2. g[n] = f[1..n]
  BY <1>1
<1>3. g[0] = base
  <2>1. f[{}] = base
    BY DEF Folded
  <2>2. 1..0 = {} /\ 0 \in 0..n
    BY <1>1
  <2>3. g[0] = f[{}]
    BY <2>2
  <2> HIDE DEF g
  <2> QED BY <2>1, <2>2, <2>3
<1>4. ASSUME NEW i \in 1..n PROVE g[i] = Step(g[i - 1], queue[i])
  <2>1. 1..i \in SUBSET (1..n) /\ 1..i # {}
    <3>1. i \in 1..i /\ \A j \in 1..i : j \in 1..n
      BY <1>1
    <3> QED BY <3>1
  <2>2. Max(1..i) = i
    <3>1. Max(1..i) \in 1..i /\ \A q \in 1..i : q <= Max(1..i)
      BY <1>1, <2>1, GreatestNat DEF Max
    <3> QED BY <3>1
  <2>3. (1..i) \ {i} = 1..(i - 1)
    OBVIOUS
  <2>4. f[1..i] = Step(f[1..(i - 1)], queue[i])
    BY <2>1, <2>2, <2>3 DEF Folded
  <2> QED BY <1>1, <2>4
<1> HIDE DEF g
<1> QED BY <1>2, <1>3, <1>4

\* So does the fold itself.
LEMMA FoldSteps ==
  ASSUME NEW base, NEW R, NEW queue \in Seq(R)
  PROVE  \E g : /\ g[0] = base /\ g[Len(queue)] = Fold(base, queue)
                /\ \A i \in 1..Len(queue) : g[i] = Step(g[i - 1], queue[i])
<1> DEFINE n == Len(queue)
           Solution(f) == f = [s \in SUBSET (1..n) |->
                                 IF s = {} THEN base ELSE Step(f[s \ {Max(s)}], queue[Max(s)])]
           iter == CHOOSE f : Solution(f)
<1>1. \A f : Folded(base, queue, f) <=> Solution(f)
  BY DEF Folded
<1>2. Solution(iter)
  <2>1. \E f : Solution(f)
    <3> HIDE DEF Solution
    <3> QED BY <1>1, FoldSolved
  <2> HIDE DEF Solution
  <2> QED BY <2>1
<1>3. Fold(base, queue) = iter[1..n]
  <2>1. n \in Nat /\ DOMAIN queue = 1..n
    OBVIOUS
  <2> QED BY <2>1 DEF Fold, FoldLeft, MapThenFoldSet
<1>4. Folded(base, queue, iter)
  <2> HIDE DEF iter, Solution
  <2> QED BY <1>1, <1>2
<1> HIDE DEF iter, Solution
<1>5. PICK g : /\ g[0] = base /\ g[Len(queue)] = iter[1..Len(queue)]
               /\ \A i \in 1..Len(queue) : g[i] = Step(g[i - 1], queue[i])
  BY <1>4, FoldGoesOn
<1> QED
  BY <1>3, <1>5

\* g is what the first n steps lead to.
Follows(g, base, queue, n) ==
  g[0] = base /\ \A i \in 1..n : g[i] = Step(g[i - 1], queue[i])

\* Two folds that take the same steps up to k are the same up to there.
LEMMA StepsAgree ==
  ASSUME NEW n \in Nat, NEW queue, NEW base, NEW g, NEW h,
         Follows(g, base, queue, n), Follows(h, base, queue, n)
  PROVE  g[n] = h[n]
<1> DEFINE Same == {k \in Nat : k <= n => g[k] = h[k]}
<1>1. 0 \in Same
  BY DEF Follows
<1>2. ASSUME NEW k \in Same PROVE k + 1 \in Same
  <2> SUFFICES ASSUME k + 1 <= n PROVE g[k + 1] = h[k + 1]
    OBVIOUS
  <2>1. g[k] = h[k] /\ k + 1 \in 1..n /\ (k + 1) - 1 = k
    OBVIOUS
  <2>2. g[k + 1] = Step(g[k], queue[k + 1]) /\ h[k + 1] = Step(h[k], queue[k + 1])
    BY <2>1 DEF Follows
  <2> QED BY <2>1, <2>2
<1>3. Same = Nat
  <2>1. Same \in SUBSET Nat
    OBVIOUS
  <2> HIDE DEF Same
  <2> QED BY <1>1, <1>2, <2>1, SetInduction
<1> QED BY <1>3

LEMMA FoldEmpty == \A base : Fold(base, <<>>) = base
<1> SUFFICES ASSUME NEW base PROVE Fold(base, <<>>) = base
  OBVIOUS
<1>1. <<>> \in Seq({}) /\ Len(<<>>) = 0
  OBVIOUS
<1>2. PICK g : g[0] = base /\ g[Len(<<>>)] = Fold(base, <<>>)
  <2> DEFINE queue == <<>>
  <2>1. queue \in Seq({})
    BY <1>1
  <2> HIDE DEF queue
  <2>2. \E g : g[0] = base /\ g[Len(queue)] = Fold(base, queue)
    BY <2>1, FoldSteps
  <2> QED BY <2>2 DEF queue
<1> QED BY <1>1, <1>2

\* One more element is one more step.
LEMMA FoldAppend ==
  ASSUME NEW base, NEW R, NEW queue \in Seq(R), NEW x \in R
  PROVE  Fold(base, Append(queue, x)) = Step(Fold(base, queue), x)
<1> DEFINE n == Len(queue)
           more == Append(queue, x)
<1>1. /\ n \in Nat /\ more \in Seq(R) /\ Len(more) = n + 1 /\ more[n + 1] = x
      /\ \A i \in 1..n : more[i] = queue[i]
  OBVIOUS
<1>2. PICK g : /\ g[0] = base /\ g[n] = Fold(base, queue)
               /\ \A i \in 1..n : g[i] = Step(g[i - 1], queue[i])
  BY FoldSteps
<1>3. PICK h : /\ h[0] = base /\ h[n + 1] = Fold(base, more)
               /\ \A i \in 1..(n + 1) : h[i] = Step(h[i - 1], more[i])
  <2> HIDE DEF more
  <2>1. \E h : /\ h[0] = base /\ h[Len(more)] = Fold(base, more)
               /\ \A i \in 1..Len(more) : h[i] = Step(h[i - 1], more[i])
    BY <1>1, FoldSteps
  <2> QED BY <1>1, <2>1
<1> HIDE DEF more
<1>4. \A i \in 1..n : h[i] = Step(h[i - 1], queue[i])
  <2> TAKE i \in 1..n
  <2>1. i \in 1..(n + 1)
    BY <1>1
  <2> QED BY <1>1, <1>3, <2>1
<1>5. g[n] = h[n]
  <2> HIDE DEF n
  <2>1. Follows(g, base, queue, n) /\ Follows(h, base, queue, n)
    BY <1>2, <1>3, <1>4 DEF Follows
  <2> QED BY <1>1, <2>1, StepsAgree
<1>6. n + 1 \in 1..(n + 1) /\ (n + 1) - 1 = n
  BY <1>1
<1>7. h[n + 1] = Step(h[n], x)
  BY <1>1, <1>3, <1>6
<1> QED BY <1>2, <1>3, <1>5, <1>7 DEF more
=============================================================================
