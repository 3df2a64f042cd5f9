-------------------------- MODULE ExerciseSequences --------------------------
(* The exercises of src/leetcode_train about strings, arrays and numbers.    *)
(* A letter is an integer.  Arrays that are indexed by their own values are  *)
(* functions on 0..n-1; a number in a name counts the classes of the file.   *)
EXTENDS Integers, Sequences, SequencesExt, FiniteSetsExt, BagsExt

Lesser(a, b) == IF a < b THEN a ELSE b
Greater(a, b) == IF a > b THEN a ELSE b
Count(s, x) == Cardinality({i \in DOMAIN s : s[i] = x})
Ascending(s) == \A i \in 1..(Len(s) - 1) : s[i] <= s[i + 1]
\* The ways to place the elements of s, in order, on places of t.
Placings(s, t) == {e \in [DOMAIN s -> DOMAIN t] : \A i, j \in DOMAIN s : i < j => e[i] < e[j]}

-----------------------------------------------------------------------------
(* LC392: is s a subsequence of t? *)
isSubsequence(s, t) ==
  FoldLeft(LAMBDA i, c : IF i < Len(s) /\ s[Lesser(i + 1, Len(s))] = c THEN i + 1 ELSE i, 0, t) = Len(s)

\* The place (from 0) of the first c in t at or behind i, or Len(t).
NextAt(t, i, c) == Min({Len(t)} \cup {k \in i..(Len(t) - 1) : t[k + 1] = c})
isSubsequence1(s, t) ==
  FoldLeft(LAMBDA add, c : IF add = -1 \/ NextAt(t, add, c) = Len(t) THEN -1 ELSE NextAt(t, add, c) + 1,
           0, s) # -1

(* LCcjsf04: is t a rearrangement of s?  By sorting, and by a table that     *)
(* counts s up and t down: which does not look at what is left of s.         *)
isAnagram(s, t) ==
  Len(s) = Len(t) /\ SortSeq(s, LAMBDA a, b : a < b) = SortSeq(t, LAMBDA a, b : a < b)
isAnagram2(s, t) ==
  FoldLeft(LAMBDA r, c : [hash |-> [r.hash EXCEPT ![c] = @ - 1], yes |-> r.yes /\ r.hash[c] > 0],
           [hash |-> [c \in Range(s \o t) |-> Count(s, c)], yes |-> TRUE], t).yes

Rearranged(s, t) == \A c \in Range(s \o t) : Count(s, c) = Count(t, c)

\* Both answers about a subsequence are right, and both about anagrams, the
\* second one as long as the strings have one length: it says yes for every t
\* that some letters of s make up, which is not what line 14 asks.
StringsCompared(s, t) ==
  LET asked == \E e \in Placings(s, t) : \A i \in DOMAIN s : t[e[i]] = s[i]
  IN  /\ (isSubsequence(s, t) <=> asked) /\ (isSubsequence1(s, t) <=> asked)
      /\ isAnagram(s, t) <=> Rearranged(s, t)
      /\ Len(s) = Len(t) => (isAnagram2(s, t) <=> Rearranged(s, t))

-----------------------------------------------------------------------------
(* LC459: is s two or more copies of a string? *)
repeatedSubstringPattern(s) ==
  \E i \in 1..(Len(s) \div 2) : Len(s) % i = 0 /\ \A j \in (i + 1)..Len(s) : s[j] = s[j - i]
repeatedSubstringPattern1(s) ==
  Min({k \in 1..Len(s) : SubSeq(s \o s, k + 1, k + Len(s)) = s}) # Len(s)

(* LC647: Manacher's count of palindromes.  t, indexed from 0, is s with     *)
(* separators (-1) and two different ends; f[i] is the radius at i.          *)
Separated(s) ==
  [i \in 0..(2 * Len(s) + 2) |-> IF i = 0 THEN -2 ELSE IF i = 2 * Len(s) + 2 THEN -3
                                 ELSE IF i % 2 = 1 THEN -1 ELSE s[i \div 2]]
Expanded(t, i, from) ==
  CHOOSE k \in from..i : t[i + k] # t[i - k] /\ \A j \in from..(k - 1) : t[i + j] = t[i - j]
countSubstrings(s) ==
  LET t == Separated(s)
      Step(r, i) ==
        LET from == IF i <= r.rMax THEN Lesser(r.rMax - i + 1, r.f[2 * r.iMax - i]) ELSE 1
            k == Expanded(t, i, from)
            beyond == i + k - 1 > r.rMax
        IN  [f |-> [r.f EXCEPT ![i] = k], ans |-> r.ans + k \div 2,
             iMax |-> IF beyond THEN i ELSE r.iMax, rMax |-> IF beyond THEN i + k - 1 ELSE r.rMax]
  IN  FoldLeft(Step, [f |-> [i \in DOMAIN t |-> 0], iMax |-> 0, rMax |-> 0, ans |-> 0],
               [i \in 1..(2 * Len(s) + 1) |-> i]).ans

(* LC696: substrings of as many equal letters as different ones behind them. *)
Runs(s) ==
  FoldLeft(LAMBDA r, i : IF i > 1 /\ s[i] = s[Greater(i - 1, 1)] THEN [r EXCEPT ![Len(r)] = @ + 1]
                         ELSE Append(r, 1),
           <<>>, [i \in DOMAIN s |-> i])
countBinarySubstrings(s) ==
  LET counts == Runs(s)
  IN  FoldLeft(LAMBDA ans, i : ans + (IF i = 1 THEN 0 ELSE Lesser(counts[i], counts[Greater(i - 1, 1)])),
               0, [i \in DOMAIN counts |-> i])
countBinarySubstrings1(s) ==
  FoldLeft(LAMBDA r, count : [ans |-> r.ans + Lesser(count, r.last), last |-> count],
           [ans |-> 0, last |-> 0], Runs(s)).ans

(* LCcjsf03: the place, from 0, of the first letter that is there once. *)
firstUniqChar(s) ==
  LET once == {i \in DOMAIN s : Count(s, s[i]) = 1}
  IN  IF once = {} THEN -1 ELSE Min(once) - 1
firstUniqChar1(s) ==
  LET Places(c) == {i \in DOMAIN s : s[i] = c}
      once == {i \in DOMAIN s : Min(Places(s[i])) = Max(Places(s[i]))}
  IN  IF once = {} THEN -1 ELSE Min(once) - 1

\* Counted over all substrings, and over all lengths of a repeated part; a
\* letter that is there once has no equal before and behind it.
StringsAnalysed(s) ==
  LET parts == {SubSeq(s, i, j) : i, j \in DOMAIN s}
      Palindrome(i, j) == SubSeq(s, i, j) = Reverse(SubSeq(s, i, j))
      Halves(i, j) == LET m == (i + j) \div 2
                      IN  (j - i) % 2 = 1 /\ s[m] # s[m + 1] /\ \A k \in i..j : s[k] = s[IF k <= m THEN m ELSE m + 1]
      repeated == \E p \in parts, n \in 2..Len(s) : s = FlattenSeq([i \in 1..n |-> p])
      substrings == {e \in (DOMAIN s) \X (DOMAIN s) : e[1] <= e[2]}
      binary == Cardinality({e \in substrings : Halves(e[1], e[2])})
      first == firstUniqChar(s)
      unequal == {i \in DOMAIN s : \A k \in DOMAIN s : k # i => s[k] # s[i]}
  IN  /\ (repeatedSubstringPattern(s) <=> repeated) /\ (repeatedSubstringPattern1(s) <=> repeated)
      /\ countSubstrings(s) = Cardinality({e \in substrings : Palindrome(e[1], e[2])})
      /\ countBinarySubstrings(s) = binary /\ countBinarySubstrings1(s) = binary
      /\ firstUniqChar1(s) = first
      /\ first = IF unequal = {} THEN -1 ELSE Min(unequal) - 1

-----------------------------------------------------------------------------
(* LC125: a palindrome, where a letter and its negation differ by their case *)
(* only and 0 stands for all that is neither a letter nor a digit.           *)
isalnum(c) == c # 0
tolower(c) == IF c < 0 THEN - c ELSE c
Good(s) == LET kept == SelectSeq(s, isalnum) IN [i \in DOMAIN kept |-> tolower(kept[i])]
isPalindrome1(s) == Good(s) = Reverse(Good(s))
isPalindrome2(s) == \A left \in 1..(Len(Good(s)) \div 2) : Good(s)[left] = Good(s)[Len(Good(s)) + 1 - left]

\* The third solution: two places move towards each other over s itself; the
\* last one erases in place and is the second one otherwise.
RECURSIVE Meets(_, _, _)
Meets(s, left, right) ==
  \/ left >= right
  \/ ~ isalnum(s[left]) /\ Meets(s, left + 1, right)
  \/ isalnum(s[left]) /\ ~ isalnum(s[right]) /\ Meets(s, left, right - 1)
  \/ isalnum(s[left]) /\ isalnum(s[right]) /\ tolower(s[left]) = tolower(s[right]) /\ Meets(s, left + 1, right - 1)
isPalindrome3(s) == Meets(s, 1, Len(s))

\* All solutions say the same.
PalindromesAgree(s) == (isPalindrome1(s) <=> isPalindrome2(s)) /\ (isPalindrome1(s) <=> isPalindrome3(s))

-----------------------------------------------------------------------------
(* LCcjsf01: the distinct values of an ascending array.  The first solution  *)
(* overwrites a repeated value by the largest int and removes that one.      *)
IntMax == 127
removeDuplicates(nums) ==
  SelectSeq([i \in DOMAIN nums |-> IF i > 1 /\ nums[i] = nums[Greater(i - 1, 1)] THEN IntMax ELSE nums[i]],
            LAMBDA x : x # IntMax)
\* The solutions with an index of the last value kept: j and a.
removeDuplicates1(nums) ==
  FoldLeft(LAMBDA kept, x : IF kept = <<>> \/ x # kept[Greater(Len(kept), 1)] THEN Append(kept, x) ELSE kept, <<>>, nums)

(* LCcjsf08: the zeros go to the end. *)
moveZeroes(nums) ==
  LET kept == SelectSeq(nums, LAMBDA x : x # 0)
  IN  [i \in DOMAIN nums |-> IF i <= Len(kept) THEN kept[i] ELSE 0]
moveZeroes1(nums) ==
  FoldLeft(LAMBDA r, cur : IF r.nums[cur] = 0 THEN r
             ELSE [nums |-> [r.nums EXCEPT ![r.last] = r.nums[cur], ![cur] = IF cur = r.last THEN @ ELSE r.nums[r.last]],
                   last |-> r.last + 1],
           [nums |-> nums, last |-> 1], [i \in DOMAIN nums |-> i]).nums

(* LCjzof11: the least number of an ascending array that was rotated. *)
RECURSIVE Bisect(_, _, _)
Bisect(numbers, low, high) ==
  IF low >= high THEN numbers[low]
  ELSE LET pivot == low + (high - low) \div 2
       IN  CASE numbers[pivot] < numbers[high] -> Bisect(numbers, low, pivot)
             [] numbers[pivot] > numbers[high] -> Bisect(numbers, pivot + 1, high)
             [] numbers[pivot] = numbers[high] -> Bisect(numbers, low, high - 1)
minArray(numbers) == Bisect(numbers, 1, Len(numbers))

(* LCcjsf03 of the arrays: the last k go to the front; by moving the first   *)
(* to the end n - k times, along cycles, and by three reversals.  A k above  *)
(* the length is reduced.                                                    *)
rotate(nums, k) ==
  FoldLeft(LAMBDA a, i : Append(Tail(a), a[1]), nums,
           [i \in 1..(Len(nums) - (IF k > Len(nums) THEN k % Len(nums) ELSE k)) |-> i])

RECURSIVE Cycle(_, _, _, _, _, _)
\* One round of the inner loop, prev on its way from current to the next.
Cycle(nums, k, start, current, prev, count) ==
  LET next == (current + k) % Len(nums)
      a == [nums EXCEPT ![next + 1] = prev]
  IN  IF next # start THEN Cycle(a, k, start, next, nums[next + 1], count + 1)
      ELSE IF count + 1 < Len(nums) THEN Cycle(a, k, start + 1, start + 1, a[start + 2], count + 1)
      ELSE a
rotate1(nums, k) == Cycle(nums, k % Len(nums), 0, 0, nums[1], 0)

rotate2(nums, k) ==
  LET n == k % Len(nums)
      r == Reverse(nums)
  IN  Reverse(SubSeq(r, 1, n)) \o Reverse(SubSeq(r, n + 1, Len(r)))

\* nums is not empty.  Every solution for duplicates keeps one of each value, the
\* first one of arrays without the largest int, which is its mark for what it
\* removes.  The zeros are moved behind the rest, the array comes back rotated by
\* k from all three solutions, and its least number is found.
ArraysRearranged(nums, k) ==
  LET sorted == SortSeq(nums, LAMBDA a, b : a < b)
      turned == [i \in DOMAIN nums |-> nums[((i - 1 - k) % Len(nums)) + 1]]
      zeros == {i \in DOMAIN nums : nums[i] = 0}
      places == [i \in DOMAIN nums |-> Cardinality({j \in 1..i : nums[j] # 0})]
  IN  /\ IntMax \notin Range(nums) => removeDuplicates(sorted) = SetToSortSeq(Range(nums), <)
      /\ removeDuplicates1(sorted) = SetToSortSeq(Range(nums), <)
      /\ moveZeroes1(nums) = moveZeroes(nums)
      /\ \A i \in DOMAIN nums \ zeros : moveZeroes(nums)[places[i]] = nums[i]
      /\ rotate(nums, k) = turned /\ rotate1(nums, k) = turned /\ rotate2(nums, k) = turned
      /\ minArray(rotate2(sorted, k)) = Min(Range(nums))
=============================================================================
