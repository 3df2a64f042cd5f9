--------------------------- MODULE ExerciseNumbers ---------------------------
(* The exercises of src/leetcode_train about numbers and optimal choices.    *)
(* Arrays that are indexed by their own values are functions on 0..n-1; a    *)
(* number in a name counts the solutions of one exercise.                    *)
EXTENDS Integers, Sequences, SequencesExt, FiniteSetsExt

Lesser(a, b) == IF a < b THEN a ELSE b
Greater(a, b) == IF a > b THEN a ELSE b
Count(s, x) == Cardinality({i \in DOMAIN s : s[i] = x})
UpTo(n) == [i \in 1..n |-> i]

-----------------------------------------------------------------------------
(* Profits: LCcjsf02, every rise of the price is taken; LC309, where the day *)
(* after a sale must pass.  A large loss stands for "not possible".          *)
risesTaken(prices) ==
  FoldLeft(LAMBDA res, i : IF prices[i + 1] > prices[i] THEN res + prices[i + 1] - prices[i] ELSE res,
           0, UpTo(Len(prices) - 1))
\* Mutant of maxProfit: the money of a sale buys again on the next day.
maxProfitAtOnce(prices) == risesTaken(prices)
maxProfit(prices) ==
  LET dp == FoldLeft(LAMBDA d, p : [held |-> Greater(d.free - p, d.held), sold |-> d.held + p,
                                    free |-> Greater(d.sold, d.free)],
                     [held |-> -100000000, sold |-> 0, free |-> 0], prices)
  IN  Greater(dp.sold, dp.free)

\* What the days on which one may buy (1) and sell (-1) make possible:
\* purchases and sales alternate, and `pause` days lie between a sale and
\* the next purchase.
Plans(n, pause) ==
  {a \in [1..n -> {-1, 0, 1}] :
     /\ \A i \in 1..n : LET before == FoldLeft(+, 0, SubSeq(a, 1, i))
                        IN  before \in {0, 1}
     /\ \A i, j \in 1..n : i < j /\ j <= i + pause /\ a[i] = -1 => a[j] # 1
     /\ FoldLeft(+, 0, a) = 0}
Profit(prices, a) == FoldLeft(LAMBDA sum, i : sum - a[i] * prices[i], 0, UpTo(Len(prices)))

\* No plan earns more than the two answers, and some plan earns as much.
ProfitsBest(prices) ==
  LET best(pause) == Max({Profit(prices, a) : a \in Plans(Len(prices), pause)})
  IN  risesTaken(prices) = best(0) /\ maxProfit(prices) = best(1)

-----------------------------------------------------------------------------
(* LCms17.13: the letters of a sentence that no word covers, at best; by     *)
(* ends of words, by their beginnings, and by a tree of the reversed words,  *)
(* which is a set of sequences closed under prefixes here.                   *)
Occurs(word, sentence, i) == SubSeq(sentence, i, i + Len(word) - 1) = word
respace(dictionary, sentence) ==
  FoldLeft(LAMBDA dp, i :
             LET ending == {w \in dictionary : Len(w) <= i /\ Occurs(w, sentence, i - Len(w) + 1)}
             IN  Append(dp, Min({dp[i] + 1} \cup {dp[i + 1 - Len(w)] : w \in ending})),
           <<0>>, UpTo(Len(sentence)))[Len(sentence) + 1]
respace1(dictionary, sentence) ==
  LET n == Len(sentence)
      dp[i \in 1..(n + 1)] ==
        IF i = n + 1 THEN 0
        ELSE LET memo == {Len(w) : w \in {v \in dictionary : i + Len(v) - 1 <= n /\ Occurs(v, sentence, i)}}
             IN  Min({dp[i + 1] + 1} \cup {dp[i + len] : len \in memo})
  IN  dp[1]
respace3(dictionary, sentence) ==
  LET trie == UNION {{SubSeq(Reverse(w), 1, k) : k \in 0..Len(w)} : w \in dictionary}
      Back(i, j) == Reverse(SubSeq(sentence, j, i))
      Improve(i, r, j) ==
        IF r.stop \/ r.best = 0 \/ Back(i, j) \notin trie THEN [r EXCEPT !.stop = TRUE]
        ELSE IF Reverse(Back(i, j)) \notin dictionary THEN r
        ELSE [r EXCEPT !.best = IF j = 1 THEN 0 ELSE Lesser(@, r.dp[j - 1])]
      Next(dp, i) == Append(dp, FoldLeft(LAMBDA r, j : Improve(i, r, j),
                                         [dp |-> dp, stop |-> FALSE, best |-> IF i = 1 THEN 1 ELSE dp[i - 1] + 1],
                                         Reverse(UpTo(i))).best)
  IN  IF sentence = <<>> \/ dictionary = {} THEN Len(sentence)
      ELSE Last(FoldLeft(Next, <<>>, UpTo(Len(sentence))))

\* All three find the least number of letters left by words that do not overlap.
SentenceSpaced(dictionary, sentence) ==
  LET n == Len(sentence)
      spans == {<<i, w>> : i \in 1..n, w \in dictionary}
      Letters(e) == e[1]..(e[1] + Len(e[2]) - 1)
      fits == {e \in spans : Letters(e) \subseteq 1..n /\ Occurs(e[2], sentence, e[1])}
      choices == {S \in SUBSET fits : \A d, e \in S : d # e => Letters(d) \cap Letters(e) = {}}
      asked == Min({n - Cardinality(UNION {Letters(e) : e \in S}) : S \in choices})
  IN  /\ respace(dictionary, sentence) = asked
      /\ respace1(dictionary, sentence) = asked
      /\ respace3(dictionary, sentence) = asked

-----------------------------------------------------------------------------
(* Numbers that are there twice.  LCjzof03: n numbers below n. *)
RECURSIVE Placed(_, _)
\* A number is swapped to its own place until the place i has its own one.
Placed(nums, i) ==
  IF i \notin DOMAIN nums THEN -1
  ELSE IF nums[i] = i THEN Placed(nums, i + 1)
  ELSE IF nums[i] = nums[nums[i]] THEN nums[i]
  ELSE Placed([nums EXCEPT ![i] = nums[nums[i]], ![nums[i]] = nums[i]], i)
findRepeatNumber(nums) == Placed(nums, 0)
\* With a map of counters, and with a set.
findRepeatNumber1(nums) ==
  LET again == {i \in DOMAIN nums : \E j \in 0..(i - 1) : nums[j] = nums[i]}
  IN  IF again = {} THEN -1 ELSE nums[Min(again)]

(* LC287: n + 1 numbers of 1..n, followed as links by two runners. *)
RECURSIVE Run(_, _, _, _)
Run(nums, slow, fast, speed) ==
  IF slow = fast THEN slow
  ELSE Run(nums, nums[slow], IF speed = 2 THEN nums[nums[fast]] ELSE nums[fast], speed)
findDuplicate(nums) == LET met == Run(nums, nums[0], nums[nums[0]], 2) IN Run(nums, 0, met, 1)

\* One of the repeated numbers is found if there is one; where there is only
\* one, the runners meet at it.
RepeatedFound(nums) ==
  LET n == Cardinality(DOMAIN nums)
      repeated == {x \in 0..(n - 1) : \E i, j \in DOMAIN nums : i # j /\ nums[i] = x /\ nums[j] = x}
      Right(r) == IF repeated = {} THEN r = -1 ELSE r \in repeated
  IN  /\ Right(findRepeatNumber(nums)) /\ Right(findRepeatNumber1(nums))
      /\ Cardinality(repeated) = 1 /\ 0 \notin {nums[i] : i \in DOMAIN nums} => findDuplicate(nums) \in repeated

-----------------------------------------------------------------------------
(* LCcjsf06: the common numbers, as often as both arrays have them. *)
intersect(nums1, nums2) ==
  LET short == IF Len(nums1) > Len(nums2) THEN nums2 ELSE nums1
      long == IF Len(nums1) > Len(nums2) THEN nums1 ELSE nums2
  IN  FoldLeft(LAMBDA r, x : IF r.m[x] = 0 THEN r ELSE [m |-> [r.m EXCEPT ![x] = @ - 1], res |-> Append(r.res, x)],
               [m |-> [x \in Range(nums1 \o nums2) |-> Count(short, x)], res |-> <<>>], long).res

Sorted(s) == SortSeq(s, LAMBDA a, b : a < b)
RECURSIVE Merge(_, _)
\* Two places move through the sorted arrays (solutions 2 and 3).
Merge(a, b) ==
  IF a = <<>> \/ b = <<>> THEN <<>>
  ELSE IF a[1] < b[1] THEN Merge(Tail(a), b)
  ELSE IF a[1] > b[1] THEN Merge(a, Tail(b))
  ELSE <<a[1]>> \o Merge(Tail(a), Tail(b))
intersect3(nums1, nums2) == Merge(Sorted(nums1), Sorted(nums2))

(* LCcjsf09: the places, from 0, of two numbers with a sum.  The first       *)
(* solution lists all pairs, the second returns the first it finds.          *)
twoSum(nums, target) ==
  FlattenSeq([i \in DOMAIN nums |->
    FlattenSeq([j \in DOMAIN nums |-> IF j > i /\ nums[j] = target - nums[i] THEN <<i - 1, j - 1>> ELSE <<>>])])
twoSum1(nums, target) ==
  LET Before(i) == {j \in 1..(i - 1) : nums[j] = target - nums[i]}
      found == {i \in DOMAIN nums : Before(i) # {}}
  IN  IF found = {} THEN <<>> ELSE <<Min(Before(Min(found))) - 1, Min(found) - 1>>

\* The intersections have each number as often as both arrays, and the two
\* sums agree where there is one pair, as the exercise promises.
PairsFound(nums1, nums2, target) ==
  LET pairs == {e \in (DOMAIN nums1) \X (DOMAIN nums1) : e[1] < e[2] /\ nums1[e[1]] + nums1[e[2]] = target}
      res == intersect(nums1, nums2)
  IN  /\ \A x \in Range(nums1 \o nums2) : Count(res, x) = Lesser(Count(nums1, x), Count(nums2, x))
      /\ intersect3(nums1, nums2) = Sorted(res)
      /\ Len(twoSum(nums1, target)) = 2 * Cardinality(pairs)
      /\ Cardinality(pairs) < 2 => twoSum1(nums1, target) = twoSum(nums1, target)

-----------------------------------------------------------------------------
(* LCcjsf02 of the strings: the digits of an int in reverse, 0 if that is no *)
(* int.  Eight bits stand for 32: the last digits of the bounds are 7 and 8  *)
(* for both.                                                                 *)
IntMax == 127
IntMin == -128
Quotient(x, d) == IF x < 0 THEN - ((- x) \div d) ELSE x \div d
RECURSIVE Reversed(_, _)
Reversed(x, rev) ==
  LET pop == x - 10 * Quotient(x, 10)
      high == rev > Quotient(IntMax, 10) \/ (rev = Quotient(IntMax, 10) /\ pop > 7)
      low == rev < Quotient(IntMin, 10) \/ (rev = Quotient(IntMin, 10) /\ pop < -8)
  IN  IF x = 0 THEN rev ELSE IF high \/ low THEN 0 ELSE Reversed(Quotient(x, 10), rev * 10 + pop)
reverse(x) == Reversed(x, 0)

(* LCjzof10: Fibonacci numbers modulo 1000000007, by two variables and by an *)
(* array of two indexed by the parity; the second counts from other values.  *)
Modulus == 1000000007
fib(n) ==
  IF n <= 0 THEN 0 ELSE FoldLeft(LAMBDA r, i : <<r[2], (r[1] + r[2]) % Modulus>>, <<0, 1>>, UpTo(n - 1))[2]
ByParity(arr, n) ==
  FoldLeft(LAMBDA a, i : [a EXCEPT ![i % 2] = (a[0] + a[1]) % Modulus], arr, [i \in 1..(n - 1) |-> i + 1])[n % 2]
fib1(n) == ByParity([b \in {0, 1} |-> b], n)
numWays(n) == ByParity([b \in {0, 1} |-> 1], n)

(* LC1025: who moves with 1 loses; a move subtracts a divisor. *)
divisorGame(n) == n % 2 = 0
divisorGame1(n) ==
  n \in FoldLeft(LAMBDA f, i : IF \E j \in 1..(i - 1) : i % j = 0 /\ i - j \notin f THEN f \cup {i} ELSE f,
                {2}, [i \in 1..(n - 2) |-> i + 2])

(* LCcjsf07: one is added to a number given by its digits. *)
plusOne(digits) ==
  LET nines == {k \in 0..Len(digits) : \A i \in (Len(digits) - k + 1)..Len(digits) : digits[i] = 9}
      k == Max(nines)
      added == [i \in DOMAIN digits |-> IF i > Len(digits) - k THEN 0
                                        ELSE IF i = Len(digits) - k THEN digits[i] + 1 ELSE digits[i]]
  IN  IF k = Len(digits) THEN <<1>> \o added ELSE added

\* The value of the digits 0..9 of a natural number; for a negative one the
\* reverse is that of its absolute value, negated.
ValueOf(digits) == FoldLeft(LAMBDA v, d : 10 * v + d, 0, digits)
DigitsOf(n) == IF n < 10 THEN <<n>> ELSE IF n < 100 THEN <<n \div 10, n % 10>>
               ELSE <<n \div 100, (n \div 10) % 10, n % 10>>

\* n is at least 1.  The reverse is right up to the bounds and 0 behind them,
\* and one is added.
NumbersRight(n) ==
  LET backwards == ValueOf(Reverse(DigitsOf(n)))
  IN  /\ n <= IntMax => /\ reverse(n) = IF backwards > IntMax THEN 0 ELSE backwards
                        /\ reverse(- n) = IF - backwards < IntMin THEN 0 ELSE - backwards
      /\ ValueOf(plusOne(DigitsOf(n))) = n + 1

\* The two ways to the Fibonacci numbers and to the winner agree.
SeriesAgree(n) == fib1(n) = fib(n) /\ numWays(n) = fib(n + 1) /\ (divisorGame(n) <=> divisorGame1(n))

-----------------------------------------------------------------------------
(* LC77: the k-subsets of 1..n, by recursion on taking cur or not, and by    *)
(* counting upwards with a sentinel behind the k places.                     *)
RECURSIVE dfs(_, _, _, _)
dfs(cur, n, k, temp) ==
  IF Len(temp) + (n - cur + 1) < k THEN <<>>
  ELSE IF Len(temp) = k THEN <<temp>>
  ELSE dfs(cur + 1, n, k, Append(temp, cur)) \o dfs(cur + 1, n, k, temp)

RECURSIVE Enumerated(_, _)
Enumerated(temp, k) ==
  LET j == Min({i \in 1..(k + 1) : i = k + 1 \/ temp[i] + 1 # temp[Lesser(i + 1, k + 1)]})
      next == [i \in 1..(k + 1) |-> IF i < j THEN i ELSE IF i = j THEN temp[i] + 1 ELSE temp[i]]
  IN  <<SubSeq(temp, 1, k)>> \o IF j > k THEN <<>> ELSE Enumerated(next, k)
combine(n, k) == dfs(1, n, k, <<>>)
combine1(n, k) == Enumerated(Append(UpTo(k), n + 1), k)

(* LCms16.11: the lengths of k boards of two sizes. *)
divingBoard(shorter, longer, k) ==
  IF k = 0 THEN <<>>
  ELSE IF shorter = longer THEN <<k * shorter>>
  ELSE [i \in 1..(k + 1) |-> k * shorter + (i - 1) * (longer - shorter)]

\* 1 <= k <= n, shorter <= longer.  Both enumerations have every subset once, and the lengths
\* ascend and are those of all the ways to choose.
ChoicesListed(n, k, shorter, longer) ==
  LET subsets == {S \in SUBSET (1..n) : Cardinality(S) = k}
      All(list) == {Range(list[i]) : i \in DOMAIN list} = subsets /\ Len(list) = Cardinality(subsets)
  IN  /\ All(combine(n, k)) /\ All(combine1(n, k))
      /\ divingBoard(shorter, longer, k) = SetToSortSeq({j * longer + (k - j) * shorter : j \in 0..k}, <)
=============================================================================
