---------------------------- MODULE PlaybackProofs ----------------------------
(***************************************************************************)
(* Theorems about Playback, for all tracks, steps and replay counts.       *)
(*                                                                         *)
(* ClockInv ties the two stamps to the recorded times: fusion_map_stamp is *)
(* the time at which the present state begins in the present pass, and     *)
(* while the loop runs time_passed is what is left of the difference of    *)
(* the stamps, modulo W.  It is inductive because a track lasts less than  *)
(* W / 2, so a difference that wrapped cannot be used up before the end    *)
(* of the track.  The other parts build on it.                             *)
(***************************************************************************)
EXTENDS Playback, TLAPS

B(p) == Begins[track][p]

\* In play, up to the end of the last pass.
InPlay == pc \in {"idle", "enter", "advance"}

ClockInv ==
  /\ InPlay => current_pos >= First /\ fusion_map_stamp = B(current_pos) - B(First)
  /\ pc \in {"idle", "enter"} =>
       /\ current_pos < total_size
       /\ fusion_map_stamp <= time_passed_stamp
       /\ time_passed_stamp <= fusion_map_stamp + NsecsAt(current_pos)
  /\ pc = "advance" =>
       \/ time_passed_stamp = fusion_map_stamp + time_passed
       \/ time_passed_stamp + W = fusion_map_stamp + time_passed

\* As long as no step went back, a state beyond the first two was entered
\* with time left.
ForwardInv ==
  ~ went_back =>
    /\ ~ Backwards(fusion_map_step_)
    /\ pc \in {"idle", "enter"} => current_pos <= 1 \/ time_passed_stamp > fusion_map_stamp
    /\ pc = "advance" => current_pos <= 1 \/ time_passed > 0

\* After a step back nothing is left to pass, or more than the whole track.
BackInv ==
  Backwards(fusion_map_step_) =>
    /\ pc = "idle" => current_pos = entry_pos /\ rewinds = 0
    /\ pc = "advance" =>
         \/ current_pos = entry_pos /\ rewinds = 0 /\ time_passed <= NsecsAt(current_pos)
         \/ time_passed + B(current_pos) > B(total_size + 1)

\* Index 0 is entered by a rewind only, with the whole step ahead, and a step
\* of no length never leads to a rewind.
StartInv ==
  /\ pc = "idle" => current_pos > 0
  /\ pc = "enter" => entry_pos = current_pos
  /\ pc = "enter" /\ rewinds > 0 => time_passed_stamp = 0 /\ fusion_map_stamp = 0
  /\ pc = "enter" /\ current_pos = 0 => rewinds > 0
  /\ pc = "advance" => entry_pos <= current_pos
  /\ pc = "advance" /\ current_pos = 0 => rewinds > 0 /\ time_passed = fusion_map_step_
  /\ pc = "advance" /\ fusion_map_step_ = 0 => current_pos < total_size /\ time_passed <= NsecsAt(current_pos)
  /\ rewinds > 0 => fusion_map_step_ > 0

Times == IF seen_moving THEN DynamicReplayTimes ELSE StaticReplayTimes

\* The counter is what is left of the passes that are due.
PassInv ==
  /\ InPlay /\ passes = 0 =>
       replay_times = IF seen_moving THEN DynamicReplayTimes ELSE kReplayTimesNotSet
  /\ InPlay /\ passes > 0 => replay_times = Times - passes /\ replay_times > 0
  /\ pc = "over" => passes = IF Times < 1 THEN 1 ELSE Times

-----------------------------------------------------------------------------
(* Arithmetic modulo w, and the constants. *)

LEMMA ModSmall == ASSUME NEW w \in Nat, w > 0, NEW a \in Int, 0 <= a, a < w PROVE a % w = a
  BY SMTT(30)

LEMMA ModAbove == ASSUME NEW w \in Nat, w > 0, NEW a \in Int, w <= a, a < 2 * w PROVE a % w = a - w
  BY SMTT(30)

LEMMA ModRange == ASSUME NEW w \in Nat, w > 0, NEW a \in Int PROVE a % w \in 0..(w - 1)
  BY SMTT(30)

LEMMA ConstantFacts ==
  /\ W \in Nat /\ W > 0
  /\ Steps \subseteq 0..(W - 1)
  /\ StaticReplayTimes \in Int /\ DynamicReplayTimes \in Int
  /\ DynamicReplayTimes # kReplayTimesNotSet
<1>1. W \in Nat \ {0} /\ Steps \subseteq 0..(W - 1)
  BY PlaybackAssumption
<1>2. StaticReplayTimes \in Int /\ DynamicReplayTimes \in Int \ {kReplayTimesNotSet}
  BY PlaybackAssumption
<1> QED BY <1>1, <1>2

LEMMA TrackFacts ==
  ASSUME track \in Track
  PROVE  /\ total_size \in Nat /\ total_size >= 2
         /\ \A p \in 0..(total_size + 1) : B(p) \in Nat /\ 2 * B(p) < W
         /\ \A p, q \in 0..(total_size + 1) : p <= q => B(p) <= B(q)
<1>1. total_size \in Nat /\ total_size >= 2
  BY PlaybackAssumption DEF total_size
<1>2. /\ Begins[track] \in [0..(Last[track] + 1) -> Nat]
      /\ \A p, q \in 0..(Last[track] + 1) : p <= q => Begins[track][p] <= Begins[track][q]
      /\ 2 * Begins[track][Last[track] + 1] < W
  BY PlaybackAssumption
<1>3. \A p \in 0..(total_size + 1) : B(p) \in Nat
  BY <1>2 DEF B, total_size
<1>4. \A p, q \in 0..(total_size + 1) : p <= q => B(p) <= B(q)
  BY <1>2 DEF B, total_size
<1>5. 2 * B(total_size + 1) < W
  BY <1>2 DEF B, total_size
<1>6. ASSUME NEW p \in 0..(total_size + 1) PROVE 2 * B(p) < W
  <2>1. B(p) <= B(total_size + 1) /\ B(p) \in Nat /\ B(total_size + 1) \in Nat
    BY <1>1, <1>3, <1>4
  <2> QED BY <2>1, <1>5, ConstantFacts
<1> QED BY <1>1, <1>3, <1>4, <1>6

\* What the present state, the beginning of the pass and the end of the track
\* have to do with each other.
LEMMA PlaceFacts ==
  ASSUME TypeOK
  PROVE  /\ total_size \in Nat /\ total_size >= 2
         /\ First \in {0, 1}
         /\ B(First) \in Nat /\ B(current_pos) \in Nat
         /\ B(current_pos + 1) \in Nat /\ B(total_size + 1) \in Nat
         /\ NsecsAt(current_pos) = B(current_pos + 1) - B(current_pos)
         /\ NsecsAt(current_pos) \in Nat
         /\ B(current_pos + 1) <= B(total_size + 1)
         /\ current_pos >= First => B(First) <= B(current_pos)
         /\ 2 * B(total_size + 1) < W
<1>1. track \in Track /\ current_pos \in 0..total_size
  BY DEF TypeOK
<1>2. /\ total_size \in Nat /\ total_size >= 2
      /\ \A p \in 0..(total_size + 1) : B(p) \in Nat /\ 2 * B(p) < W
      /\ \A p, q \in 0..(total_size + 1) : p <= q => B(p) <= B(q)
  BY <1>1, TrackFacts
<1>3. First \in {0, 1}
  BY DEF First
<1>4. /\ current_pos \in 0..(total_size + 1) /\ current_pos + 1 \in 0..(total_size + 1)
      /\ First \in 0..(total_size + 1) /\ total_size + 1 \in 0..(total_size + 1)
      /\ current_pos <= current_pos + 1 /\ current_pos + 1 <= total_size + 1
  BY <1>1, <1>2, <1>3
<1>5. /\ B(First) \in Nat /\ B(current_pos) \in Nat /\ 2 * B(total_size + 1) < W
      /\ B(current_pos + 1) \in Nat /\ B(total_size + 1) \in Nat
      /\ B(current_pos) <= B(current_pos + 1)
      /\ B(current_pos + 1) <= B(total_size + 1)
      /\ current_pos >= First => B(First) <= B(current_pos)
  BY <1>2, <1>4
<1>6. NsecsAt(current_pos) = B(current_pos + 1) - B(current_pos)
  BY DEF NsecsAt, B
<1>7. NsecsAt(current_pos) \in Nat
  BY <1>5, <1>6
<1> QED BY <1>2, <1>3, <1>5, <1>6, <1>7

-----------------------------------------------------------------------------
(* Type correctness. *)

LEMMA TypeInit == Init => TypeOK
<1> SUFFICES ASSUME Init PROVE TypeOK
  OBVIOUS
<1>1. total_size \in Nat /\ total_size >= 2
  BY TrackFacts DEF Init
<1>2. 0 \in 0..(W - 1)
  BY ConstantFacts
<1>3. kReplayTimesNotSet \in Int
  BY DEF kReplayTimesNotSet
<1>4. seen_moving \in BOOLEAN /\ went_back \in BOOLEAN
  BY Zenon DEF Init
<1>5. current_pos \in 0..total_size /\ entry_pos \in 0..total_size
  BY <1>1 DEF Init
<1> QED BY <1>2, <1>3, <1>4, <1>5 DEF Init, TypeOK

LEMMA TypeNext == TypeOK /\ [Next]_vars => TypeOK'
<1> SUFFICES ASSUME TypeOK, [Next]_vars PROVE TypeOK'
  OBVIOUS
<1>1. W \in Nat /\ W > 0 /\ Steps \subseteq 0..(W - 1)
  BY ConstantFacts
<1>2. total_size \in Nat /\ NsecsAt(current_pos) \in Nat
  BY PlaceFacts
<1>3. TimesNow \in Int /\ TimesAtEnd \in Int
  BY ConstantFacts DEF TypeOK, TimesNow, TimesAtEnd, kReplayTimesNotSet
<1>4. CASE \E step \in Steps : Tick(step)
  BY <1>4, <1>1 DEF Tick, TypeOK, iterVars, total_size
<1>5. CASE Enter
  <2>1. time_passed' \in 0..(W - 1)
    BY <1>5, <1>1, ModRange DEF Enter, TypeOK
  <2>2. time_passed_stamp' \in 0..(W - 1)
    BY <1>5, <1>1, ModRange DEF Enter, TypeOK
  <2> QED BY <1>5, <2>1, <2>2 DEF Enter, TypeOK, history, total_size
<1>6. CASE Advance
  <2>1. fusion_map_stamp' \in 0..(W - 1)
    BY <1>6, <1>1, <1>2, ModRange DEF Advance, TypeOK
  <2>2. time_passed' \in 0..(W - 1) /\ current_pos' \in 0..total_size
    BY <1>6, <1>1, <1>2 DEF Advance, Late, TypeOK
  <2> QED BY <1>6, <2>1, <2>2 DEF Advance, TypeOK, history, total_size
<1>7. CASE OutOfRange
  BY <1>7 DEF OutOfRange, TypeOK, iterVars, history, total_size
<1>8. CASE StayInPlay
  BY <1>8, <1>3 DEF StayInPlay, Emit, TypeOK, total_size
<1>9. CASE Rewind
  BY <1>9, <1>1, <1>2, <1>3 DEF Rewind, Emit, TypeOK, total_size
<1>10. CASE PlayOut
  BY <1>10 DEF PlayOut, Emit, TypeOK, iterVars, total_size
<1>11. CASE UNCHANGED vars
  BY <1>11 DEF vars, iterVars, history, TypeOK, total_size
<1> QED BY <1>4, <1>5, <1>6, <1>7, <1>8, <1>9, <1>10, <1>11 DEF Next, Body, Ended

\* Type correctness of the clocks: no number leaves its range.
THEOREM PlaybackTyped == Spec => []TypeOK
  BY TypeInit, TypeNext, PTL DEF Spec

-----------------------------------------------------------------------------
(* The stamps. *)

\* Adding a step to the vehicle's stamp and to the lag, each modulo w.
LEMMA EnterArithmetic ==
  ASSUME NEW w \in Nat, w > 0, NEW f \in Nat, NEW t \in Nat, NEW s \in Nat,
         f <= t, t < w, s < w
  PROVE  LET passed == (s - (f - t)) % w
             stamp == (t + s) % w
         IN  /\ stamp = f + passed \/ stamp + w = f + passed
             /\ s + (t - f) < w => passed = s + (t - f)
             /\ s + (t - f) >= w => passed = s + (t - f) - w
<1> DEFINE lag == s - (f - t)
<1> DEFINE sum == t + s
<1>1. lag \in Int /\ 0 <= lag /\ lag < 2 * w /\ lag = s + (t - f)
  OBVIOUS
<1>2. sum \in Int /\ 0 <= sum /\ sum < 2 * w /\ sum = lag + f
  OBVIOUS
<1> HIDE DEF lag, sum
<1>3. lag < w => lag % w = lag
  BY <1>1, ModSmall
<1>4. lag >= w => lag % w = lag - w
  BY <1>1, ModAbove
<1>5. sum < w => sum % w = sum
  BY <1>2, ModSmall
<1>6. sum >= w => sum % w = sum - w
  BY <1>2, ModAbove
<1>7. sum % w = f + (lag % w) \/ (sum % w) + w = f + (lag % w)
  BY <1>1, <1>2, <1>3, <1>4, <1>5, <1>6
<1> QED BY <1>1, <1>3, <1>4, <1>7 DEF lag, sum

\* What the head of the loop does to the clocks.
LEMMA EnterClocks ==
  ASSUME TypeOK, ClockInv, Enter
  PROVE  /\ \/ time_passed_stamp' = fusion_map_stamp + time_passed'
            \/ time_passed_stamp' + W = fusion_map_stamp + time_passed'
         /\ LET lag == time_passed_stamp - fusion_map_stamp
            IN  /\ fusion_map_step_ + lag < W => time_passed' = fusion_map_step_ + lag
                /\ fusion_map_step_ + lag >= W => time_passed' = fusion_map_step_ + lag - W
<1>1. W \in Nat /\ W > 0 /\ fusion_map_step_ \in Nat /\ fusion_map_step_ < W
  BY ConstantFacts DEF TypeOK
<1>2. /\ fusion_map_stamp \in Nat /\ time_passed_stamp \in Nat /\ time_passed_stamp < W
      /\ fusion_map_stamp <= time_passed_stamp
  BY <1>1 DEF TypeOK, ClockInv, Enter
<1>3. /\ time_passed' = (fusion_map_step_ - (fusion_map_stamp - time_passed_stamp)) % W
      /\ time_passed_stamp' = (time_passed_stamp + fusion_map_step_) % W
  BY DEF Enter
<1> QED BY <1>1, <1>2, <1>3, EnterArithmetic

LEMMA ClockInit == Init => ClockInv
<1> SUFFICES ASSUME Init PROVE ClockInv
  OBVIOUS
<1>1. TypeOK
  BY TypeInit
<1>2. total_size >= 2 /\ total_size \in Nat /\ NsecsAt(current_pos) \in Nat /\ B(1) \in Nat
  BY <1>1, PlaceFacts DEF Init
<1> QED BY <1>2 DEF Init, ClockInv, InPlay, First

LEMMA ClockNext == TypeOK /\ ClockInv /\ [Next]_vars => ClockInv'
<1> SUFFICES ASSUME TypeOK, ClockInv, [Next]_vars PROVE ClockInv'
  OBVIOUS
<1> USE DEF InPlay
<1>1. W \in Nat /\ W > 0
  BY ConstantFacts
<1>2. /\ total_size \in Nat /\ total_size >= 2 /\ First \in {0, 1}
      /\ B(First) \in Nat /\ B(current_pos) \in Nat
      /\ B(current_pos + 1) \in Nat /\ B(total_size + 1) \in Nat
      /\ NsecsAt(current_pos) = B(current_pos + 1) - B(current_pos)
      /\ B(current_pos + 1) <= B(total_size + 1)
      /\ 2 * B(total_size + 1) < W
  BY PlaceFacts
<1>3. /\ current_pos \in Nat /\ time_passed_stamp \in Nat /\ fusion_map_stamp \in Nat
      /\ time_passed_stamp < W /\ fusion_map_stamp < W /\ time_passed \in Nat /\ passes \in Nat
  BY <1>1, <1>2 DEF TypeOK
<1>4. CASE \E step \in Steps : Tick(step)
  BY <1>4 DEF Tick, ClockInv, iterVars, total_size, NsecsAt, First, B
<1>5. CASE Enter
  <2>1. \/ time_passed_stamp' = fusion_map_stamp + time_passed'
        \/ time_passed_stamp' + W = fusion_map_stamp + time_passed'
    BY <1>5, EnterClocks
  <2> QED BY <1>5, <2>1 DEF Enter, ClockInv, history, total_size, NsecsAt, First, B
<1>6. CASE Advance
  <2>1. /\ pc = "advance" /\ pc' = pc /\ track' = track /\ passes' = passes
        /\ current_pos' = current_pos + 1 /\ time_passed_stamp' = time_passed_stamp
        /\ time_passed' = time_passed - NsecsAt(current_pos)
        /\ fusion_map_stamp' = (fusion_map_stamp + NsecsAt(current_pos)) % W
    BY <1>6 DEF Advance, history
  <2>2. current_pos >= First /\ fusion_map_stamp = B(current_pos) - B(First)
    BY <2>1 DEF ClockInv
  <2>3. fusion_map_stamp + NsecsAt(current_pos) = B(current_pos + 1) - B(First)
    BY <1>2, <2>2
  <2>4. fusion_map_stamp' = fusion_map_stamp + NsecsAt(current_pos)
    <3> DEFINE a == fusion_map_stamp + NsecsAt(current_pos)
    <3>1. a \in Int /\ 0 <= a /\ a < W
      BY <1>1, <1>2, <1>3, <2>2, <2>3, PlaceFacts
    <3> HIDE DEF a
    <3>2. a % W = a
      BY <1>1, <3>1, ModSmall
    <3> QED BY <2>1, <3>2 DEF a
  <2>5. \/ time_passed_stamp = fusion_map_stamp + time_passed
        \/ time_passed_stamp + W = fusion_map_stamp + time_passed
    BY <2>1 DEF ClockInv
  <2>6. \/ time_passed_stamp' = fusion_map_stamp' + time_passed'
        \/ time_passed_stamp' + W = fusion_map_stamp' + time_passed'
    <3>1. /\ W \in Int /\ NsecsAt(current_pos) \in Int /\ time_passed_stamp \in Int
          /\ fusion_map_stamp \in Int /\ time_passed \in Int
      BY <1>1, <1>3, PlaceFacts
    <3>2. /\ time_passed_stamp' = time_passed_stamp
          /\ time_passed' = time_passed - NsecsAt(current_pos)
      BY <2>1
    <3> QED BY <3>1, <3>2, <2>4, <2>5
  <2>7. B(current_pos)' = B(current_pos + 1) /\ B(First)' = B(First) /\ First' = First
    BY <2>1 DEF B, First
  <2>8. current_pos' >= First' /\ fusion_map_stamp' = B(current_pos)' - B(First)'
    BY <1>2, <1>3, <2>1, <2>2, <2>3, <2>4, <2>7
  <2> QED BY <2>1, <2>6, <2>8 DEF ClockInv
<1>7. CASE OutOfRange
  BY <1>7 DEF OutOfRange, ClockInv
<1>8. CASE StayInPlay
  <2>1. /\ pc = "advance" /\ pc' = "idle" /\ track' = track /\ passes' = passes
        /\ current_pos' = current_pos /\ time_passed_stamp' = time_passed_stamp
        /\ fusion_map_stamp' = fusion_map_stamp
        /\ current_pos < total_size /\ ~ Late
    BY <1>8 DEF StayInPlay, Emit
  <2>2. time_passed <= NsecsAt(current_pos)
    BY <1>2, <1>3, <2>1 DEF Late
  <2>3. current_pos >= First /\ fusion_map_stamp = B(current_pos) - B(First)
    BY <2>1 DEF ClockInv
  <2>4. \/ time_passed_stamp = fusion_map_stamp + time_passed
        \/ time_passed_stamp + W = fusion_map_stamp + time_passed
    BY <2>1 DEF ClockInv
  <2>5. time_passed_stamp + W # fusion_map_stamp + time_passed
    BY <1>1, <1>2, <1>3, <2>2, <2>3
  <2>6. fusion_map_stamp <= time_passed_stamp /\ time_passed_stamp <= fusion_map_stamp + NsecsAt(current_pos)
    BY <1>2, <1>3, <2>2, <2>4, <2>5
  <2> QED BY <2>1, <2>3, <2>6 DEF ClockInv, total_size, NsecsAt, First, B
<1>9. CASE Rewind
  <2>1. /\ pc' = "enter" /\ track' = track /\ passes' = passes + 1
        /\ current_pos' = 0 /\ time_passed_stamp' = 0 /\ fusion_map_stamp' = 0
    BY <1>9 DEF Rewind, Emit
  <2>2. First' = 0
    BY <1>3, <2>1 DEF First
  <2>3. total_size' = total_size /\ NsecsAt(0)' = NsecsAt(0) /\ B(0)' = B(0)
    BY <2>1 DEF total_size, NsecsAt, B
  <2>4. 0 \in 0..(total_size + 1) /\ 1 \in 0..(total_size + 1)
    BY <1>2
  <2>5. B(0) \in Nat /\ B(1) \in Nat /\ B(0) <= B(1)
    BY <2>4, TrackFacts DEF TypeOK
  <2>6. NsecsAt(0) \in Nat
    BY <2>5 DEF NsecsAt, B
  <2>7. B(0)' - B(0)' = 0
    BY <2>3, <2>5
  <2> QED BY <1>2, <2>1, <2>2, <2>3, <2>6, <2>7 DEF ClockInv
<1>10. CASE PlayOut
  BY <1>10 DEF PlayOut, ClockInv
<1>11. CASE UNCHANGED vars
  BY <1>11 DEF vars, iterVars, history, ClockInv, total_size, NsecsAt, First, B
<1> QED BY <1>4, <1>5, <1>6, <1>7, <1>8, <1>9, <1>10, <1>11 DEF Next, Body, Ended

LEMMA ClockAlways == Spec => [](TypeOK /\ ClockInv)
<1>1. Init => TypeOK /\ ClockInv
  BY TypeInit, ClockInit
<1>2. TypeOK /\ ClockInv /\ [Next]_vars => (TypeOK /\ ClockInv)'
  BY TypeNext, ClockNext
<1> QED BY <1>1, <1>2, PTL DEF Spec

\* Between ticks the difference of the unsigned stamps is a real lag, at most
\* as long as the present state.
THEOREM StampsAlwaysAgree == Spec => []StampsAgree
<1>1. TypeOK /\ ClockInv => StampsAgree
  <2> SUFFICES ASSUME TypeOK, ClockInv, pc = "idle"
               PROVE  /\ fusion_map_stamp <= time_passed_stamp
                      /\ time_passed_stamp - fusion_map_stamp <= NsecsAt(current_pos)
    BY DEF StampsAgree
  <2>1. /\ fusion_map_stamp <= time_passed_stamp
        /\ time_passed_stamp <= fusion_map_stamp + NsecsAt(current_pos)
    BY DEF ClockInv
  <2>2. fusion_map_stamp \in Int /\ time_passed_stamp \in Int /\ NsecsAt(current_pos) \in Int
    BY ConstantFacts, PlaceFacts DEF TypeOK
  <2> QED BY <2>1, <2>2
<1> QED BY <1>1, ClockAlways, PTL

-----------------------------------------------------------------------------
(* The position. *)

\* The facts about numbers that the steps below need.
LEMMA NumberFacts ==
  ASSUME TypeOK
  PROVE  /\ W \in Nat /\ W > 0
         /\ current_pos \in Nat /\ entry_pos \in Nat /\ rewinds \in Nat /\ passes \in Nat
         /\ time_passed_stamp \in Nat /\ fusion_map_stamp \in Nat
         /\ time_passed \in Nat /\ time_passed < W
         /\ fusion_map_step_ \in Nat /\ fusion_map_step_ < W
BY ConstantFacts, PlaceFacts DEF TypeOK

LEMMA ForwardInit == Init => ForwardInv
BY ConstantFacts DEF Init, ForwardInv, Backwards

LEMMA ForwardNext == TypeOK /\ ClockInv /\ ForwardInv /\ [Next]_vars => ForwardInv'
<1> SUFFICES ASSUME TypeOK, ClockInv, ForwardInv, [Next]_vars, ~ went_back' PROVE ForwardInv'
  BY DEF ForwardInv
<1>1. /\ W \in Nat /\ W > 0 /\ current_pos \in Nat
      /\ time_passed_stamp \in Nat /\ fusion_map_stamp \in Nat /\ time_passed \in Nat
      /\ fusion_map_step_ \in Nat /\ time_passed < W
  BY NumberFacts
<1>2. /\ NsecsAt(current_pos) \in Nat /\ 2 * NsecsAt(current_pos) < W
  <2>1. /\ B(current_pos) \in Nat /\ B(current_pos + 1) \in Nat /\ B(total_size + 1) \in Nat
        /\ NsecsAt(current_pos) = B(current_pos + 1) - B(current_pos)
        /\ B(current_pos + 1) <= B(total_size + 1) /\ 2 * B(total_size + 1) < W
    BY PlaceFacts
  <2> QED BY <2>1, PlaceFacts, <1>1
<1>3. CASE \E step \in Steps : Tick(step)
  <2> PICK step \in Steps : Tick(step)
    BY <1>3
  <2>1. ~ went_back /\ ~ Backwards(step)
    BY Zenon DEF Tick
  <2>2. /\ pc = "idle" /\ pc' = "enter" /\ fusion_map_step_' = step /\ current_pos' = current_pos
        /\ time_passed_stamp' = time_passed_stamp /\ fusion_map_stamp' = fusion_map_stamp
    BY DEF Tick, iterVars
  <2>3. current_pos <= 1 \/ time_passed_stamp > fusion_map_stamp
    BY <2>1, <2>2 DEF ForwardInv
  <2> QED BY <2>1, <2>2, <2>3 DEF ForwardInv, Backwards
<1>4. CASE Enter
  <2>1. /\ pc = "enter" /\ pc' = "advance" /\ current_pos' = current_pos /\ ~ went_back
        /\ fusion_map_step_' = fusion_map_step_
    BY <1>4 DEF Enter, history
  <2>2. ~ (fusion_map_step_ >= W - fusion_map_step_)
    BY <2>1 DEF ForwardInv, Backwards
  <2>3. current_pos <= 1 \/ time_passed_stamp > fusion_map_stamp
    BY <2>1 DEF ForwardInv
  <2>4. time_passed_stamp <= fusion_map_stamp + NsecsAt(current_pos) /\ fusion_map_stamp <= time_passed_stamp
    BY <2>1 DEF ClockInv
  <2>5. time_passed' = fusion_map_step_ + (time_passed_stamp - fusion_map_stamp)
    BY <1>1, <1>2, <1>4, <2>2, <2>4, EnterClocks
  <2>6. current_pos <= 1 \/ time_passed' > 0
    BY <1>1, <2>3, <2>5
  <2> QED BY <2>1, <2>2, <2>6 DEF ForwardInv, Backwards
<1>5. CASE Advance
  <2>1. /\ pc = "advance" /\ pc' = pc /\ ~ went_back /\ fusion_map_step_' = fusion_map_step_
        /\ time_passed' = time_passed - NsecsAt(current_pos) /\ time_passed > NsecsAt(current_pos)
    BY <1>5 DEF Advance, Late, history
  <2>2. time_passed' > 0
    BY <1>1, <1>2, <2>1
  <2> QED BY <2>1, <2>2 DEF ForwardInv, Backwards
<1>6. CASE OutOfRange \/ PlayOut
  BY <1>6 DEF OutOfRange, PlayOut, Emit, ForwardInv, Backwards, history
<1>7. CASE StayInPlay
  <2>1. /\ pc = "advance" /\ pc' = "idle" /\ ~ went_back /\ fusion_map_step_' = fusion_map_step_
        /\ current_pos' = current_pos /\ time_passed_stamp' = time_passed_stamp
        /\ fusion_map_stamp' = fusion_map_stamp
    BY <1>7 DEF StayInPlay, Emit
  <2>2. current_pos <= 1 \/ time_passed > 0
    BY <2>1 DEF ForwardInv
  <2>3. \/ time_passed_stamp = fusion_map_stamp + time_passed
        \/ time_passed_stamp + W = fusion_map_stamp + time_passed
    BY <2>1 DEF ClockInv
  <2>4. fusion_map_stamp <= time_passed_stamp
    BY <1>7, <2>1, ClockNext DEF ClockInv
  <2>5. current_pos <= 1 \/ time_passed_stamp > fusion_map_stamp
    BY <1>1, <2>2, <2>3, <2>4
  <2> QED BY <2>1, <2>5 DEF ForwardInv, Backwards
<1>8. CASE Rewind
  BY <1>8 DEF Rewind, Emit, ForwardInv, Backwards
<1>9. CASE UNCHANGED vars
  BY <1>9 DEF vars, iterVars, history, ForwardInv, Backwards
<1> QED BY <1>3, <1>4, <1>5, <1>6, <1>7, <1>8, <1>9 DEF Next, Body, Ended

\* As long as the clock has not gone back, the position is the state the
\* stamp falls in, however the ticks divide the time.
THEOREM PositionIsTimes == Spec => []PositionFollowsTime
<1>1. Init => ForwardInv
  BY ForwardInit
<1>2. TypeOK /\ ClockInv /\ ForwardInv /\ [Next]_vars => ForwardInv'
  BY ForwardNext
<1>3. TypeOK /\ ClockInv /\ ForwardInv => PositionFollowsTime
  <2> SUFFICES ASSUME TypeOK, ClockInv, ForwardInv, pc = "idle", ~ went_back
               PROVE  /\ current_pos < total_size
                      /\ time_passed_stamp <= TimeTo(current_pos)
                      /\ time_passed_stamp > TimeTo(current_pos - 1) \/ current_pos <= 1
    BY DEF PositionFollowsTime
  <2>1. /\ current_pos < total_size
        /\ time_passed_stamp <= fusion_map_stamp + NsecsAt(current_pos)
        /\ fusion_map_stamp = B(current_pos) - B(First)
    BY DEF ClockInv, InPlay
  <2>2. current_pos <= 1 \/ time_passed_stamp > fusion_map_stamp
    BY DEF ForwardInv
  <2>3. TimeTo(current_pos) = fusion_map_stamp + NsecsAt(current_pos)
    BY <2>1, PlaceFacts DEF TimeTo, B
  <2>4. (current_pos - 1) + 1 = current_pos
    BY NumberFacts
  <2>5. TimeTo(current_pos - 1) = fusion_map_stamp
    BY <2>1, <2>4 DEF TimeTo, B
  <2> QED BY <2>1, <2>2, <2>3, <2>5
<1> QED BY <1>1, <1>2, <1>3, ClockAlways, PTL DEF Spec

-----------------------------------------------------------------------------
(* The entries of the loop. *)

LEMMA StartInit == Init => StartInv /\ FaultNeedsLongFirstState
BY DEF Init, StartInv, FaultNeedsLongFirstState

LEMMA StartNext ==
  TypeOK /\ ClockInv /\ StartInv /\ FaultNeedsLongFirstState /\ [Next]_vars
    => (StartInv /\ FaultNeedsLongFirstState)'
<1> SUFFICES ASSUME TypeOK, ClockInv, StartInv, FaultNeedsLongFirstState, [Next]_vars
             PROVE  StartInv' /\ FaultNeedsLongFirstState'
  OBVIOUS
<1>1. /\ W \in Nat /\ W > 0
      /\ current_pos \in Nat /\ entry_pos \in Nat /\ rewinds \in Nat
      /\ time_passed_stamp \in Nat /\ fusion_map_stamp \in Nat
      /\ time_passed \in Nat /\ fusion_map_step_ \in Nat /\ fusion_map_step_ < W
      /\ total_size \in Nat /\ total_size >= 2 /\ NsecsAt(current_pos) \in Nat
      /\ 2 * NsecsAt(current_pos) < W
  <2>1. /\ B(current_pos) \in Nat /\ B(current_pos + 1) \in Nat /\ B(total_size + 1) \in Nat
        /\ NsecsAt(current_pos) = B(current_pos + 1) - B(current_pos)
        /\ B(current_pos + 1) <= B(total_size + 1) /\ 2 * B(total_size + 1) < W
    BY PlaceFacts
  <2>2. 2 * NsecsAt(current_pos) < W
    BY <2>1, NumberFacts
  <2> QED BY <2>2, NumberFacts, PlaceFacts
<1>2. CASE \E step \in Steps : Tick(step)
  <2> PICK step \in Steps : Tick(step)
    BY <1>2
  <2>1. /\ pc = "idle" /\ pc' = "enter" /\ current_pos' = current_pos
        /\ rewinds' = 0 /\ entry_pos' = current_pos
    BY DEF Tick, iterVars
  <2>2. current_pos > 0
    BY <2>1 DEF StartInv
  <2> QED BY <1>1, <2>1, <2>2 DEF StartInv, FaultNeedsLongFirstState
<1>3. CASE Enter
  <2>1. /\ pc = "enter" /\ pc' = "advance" /\ track' = track /\ current_pos' = current_pos
        /\ entry_pos' = entry_pos /\ rewinds' = rewinds
        /\ fusion_map_step_' = fusion_map_step_
    BY <1>3 DEF Enter, history
  <2>2. /\ entry_pos = current_pos
        /\ rewinds > 0 => time_passed_stamp = 0 /\ fusion_map_stamp = 0
        /\ current_pos = 0 => rewinds > 0
        /\ rewinds > 0 => fusion_map_step_ > 0
    BY <2>1 DEF StartInv
  <2>3. /\ fusion_map_stamp <= time_passed_stamp
        /\ time_passed_stamp <= fusion_map_stamp + NsecsAt(current_pos)
        /\ current_pos < total_size
    BY <2>1 DEF ClockInv
  <2>4. /\ NsecsAt(current_pos)' = NsecsAt(current_pos) /\ total_size' = total_size
    BY <2>1 DEF NsecsAt, total_size
  <2>5. current_pos = 0 => time_passed' = fusion_map_step_
    BY <1>1, <1>3, <2>2, EnterClocks
  <2>6. fusion_map_step_ = 0 => time_passed' <= NsecsAt(current_pos)
    BY <1>1, <1>3, <2>3, EnterClocks
  <2> QED BY <1>1, <2>1, <2>2, <2>3, <2>4, <2>5, <2>6 DEF StartInv, FaultNeedsLongFirstState
<1>4. CASE Advance
  <2>1. /\ pc = "advance" /\ pc' = pc /\ current_pos' = current_pos + 1
        /\ entry_pos' = entry_pos /\ rewinds' = rewinds
        /\ fusion_map_step_' = fusion_map_step_ /\ time_passed > NsecsAt(current_pos)
    BY <1>4 DEF Advance, Late, history
  <2>2. /\ entry_pos <= current_pos /\ fusion_map_step_ # 0
        /\ rewinds > 0 => fusion_map_step_ > 0
    BY <1>1, <2>1 DEF StartInv
  <2> QED BY <1>1, <2>1, <2>2 DEF StartInv, FaultNeedsLongFirstState
<1>5. CASE OutOfRange
  <2>1. /\ pc = "advance" /\ pc' = "fault" /\ current_pos = 0 /\ track' = track
        /\ rewinds' = rewinds /\ fusion_map_step_' = fusion_map_step_
    BY <1>5 DEF OutOfRange, history
  <2>2. time_passed <= NsecsAt(0)
    BY <1>1, <1>5, <2>1 DEF OutOfRange, Late
  <2>3. rewinds > 0 /\ time_passed = fusion_map_step_ /\ fusion_map_step_ > 0
    BY <2>1 DEF StartInv
  <2>4. NsecsAt(0)' = NsecsAt(0)
    BY <2>1 DEF NsecsAt
  <2> QED BY <1>1, <2>1, <2>2, <2>3, <2>4 DEF StartInv, FaultNeedsLongFirstState
<1>6. CASE StayInPlay
  <2>1. /\ pc' = "idle" /\ current_pos' = current_pos /\ current_pos > 0
        /\ rewinds' = rewinds /\ fusion_map_step_' = fusion_map_step_
    BY <1>6 DEF StayInPlay, Emit
  <2> QED BY <2>1 DEF StartInv, FaultNeedsLongFirstState
<1>7. CASE Rewind
  <2>1. /\ pc = "advance" /\ current_pos >= total_size
        /\ pc' = "enter" /\ current_pos' = 0 /\ entry_pos' = 0 /\ rewinds' = rewinds + 1
        /\ time_passed_stamp' = 0 /\ fusion_map_stamp' = 0
        /\ fusion_map_step_' = fusion_map_step_
    BY <1>7 DEF Rewind, Emit
  <2>2. fusion_map_step_ > 0
    BY <1>1, <2>1 DEF StartInv
  <2> QED BY <1>1, <2>1, <2>2 DEF StartInv, FaultNeedsLongFirstState
<1>8. CASE PlayOut
  <2>1. pc' = "over" /\ rewinds' = rewinds /\ fusion_map_step_' = fusion_map_step_
    BY <1>8 DEF PlayOut, Emit
  <2> QED BY <2>1 DEF StartInv, FaultNeedsLongFirstState
<1>9. CASE UNCHANGED vars
  <2>1. /\ pc' = pc /\ track' = track /\ current_pos' = current_pos /\ entry_pos' = entry_pos
        /\ rewinds' = rewinds /\ fusion_map_step_' = fusion_map_step_
        /\ time_passed' = time_passed /\ time_passed_stamp' = time_passed_stamp
        /\ fusion_map_stamp' = fusion_map_stamp
    BY <1>9 DEF vars, iterVars, history
  <2> QED BY <2>1 DEF StartInv, FaultNeedsLongFirstState, NsecsAt, total_size
<1> QED BY <1>2, <1>3, <1>4, <1>5, <1>6, <1>7, <1>8, <1>9 DEF Next, Body, Ended

LEMMA StartAlways == Spec => [](TypeOK /\ ClockInv /\ StartInv /\ FaultNeedsLongFirstState)
BY StartInit, StartNext, ClockAlways, PTL DEF Spec

\* Reading before the first state needs a rewind onto a state 0 at least as
\* long as the step, which was not 0.
THEOREM FaultNeedsLongStart == Spec => []FaultNeedsLongFirstState
BY StartAlways, PTL

-----------------------------------------------------------------------------
(* Steps backwards. *)

LEMMA BackNext == TypeOK /\ ClockInv /\ StartInv /\ BackInv /\ [Next]_vars => BackInv'
<1> SUFFICES ASSUME TypeOK, ClockInv, StartInv, BackInv, [Next]_vars,
                    Backwards(fusion_map_step_)'
             PROVE  BackInv'
  BY DEF BackInv
<1>1. /\ W \in Nat /\ W > 0
      /\ current_pos \in Nat /\ rewinds \in Nat
      /\ time_passed_stamp \in Nat /\ fusion_map_stamp \in Nat
      /\ time_passed \in Nat /\ fusion_map_step_ \in Nat /\ fusion_map_step_ < W
  BY NumberFacts
<1>2. /\ B(current_pos) \in Nat /\ B(current_pos + 1) \in Nat /\ B(total_size + 1) \in Nat
      /\ NsecsAt(current_pos) = B(current_pos + 1) - B(current_pos)
      /\ NsecsAt(current_pos) \in Nat
      /\ B(current_pos + 1) <= B(total_size + 1) /\ 2 * B(total_size + 1) < W
  BY PlaceFacts
<1>3. CASE \E step \in Steps : Tick(step)
  BY <1>3 DEF Tick, BackInv
<1>4. CASE Enter
  <2>1. /\ pc = "enter" /\ pc' = "advance" /\ track' = track /\ current_pos' = current_pos
        /\ entry_pos' = entry_pos /\ rewinds' = rewinds
        /\ fusion_map_step_' = fusion_map_step_
    BY <1>4 DEF Enter, history
  <2>2. fusion_map_step_ >= W - fusion_map_step_
    BY <2>1 DEF Backwards
  <2>3. /\ fusion_map_stamp <= time_passed_stamp
        /\ time_passed_stamp <= fusion_map_stamp + NsecsAt(current_pos)
    BY <2>1 DEF ClockInv
  <2>4. /\ entry_pos = current_pos
        /\ rewinds > 0 => time_passed_stamp = 0 /\ fusion_map_stamp = 0
    BY <2>1 DEF StartInv
  <2>5. /\ NsecsAt(current_pos)' = NsecsAt(current_pos)
        /\ B(current_pos)' = B(current_pos) /\ B(total_size + 1)' = B(total_size + 1)
    BY <2>1 DEF NsecsAt, B, total_size
  <2>6. CASE fusion_map_step_ + (time_passed_stamp - fusion_map_stamp) >= W
    <3>1. time_passed' = fusion_map_step_ + (time_passed_stamp - fusion_map_stamp) - W
      BY <1>4, <2>6, EnterClocks
    <3>2. rewinds = 0
      BY <1>1, <2>4, <2>6
    <3>3. time_passed' <= NsecsAt(current_pos)
      BY <1>1, <1>2, <2>3, <3>1
    <3> QED BY <2>1, <2>4, <2>5, <3>2, <3>3 DEF BackInv
  <2>7. CASE fusion_map_step_ + (time_passed_stamp - fusion_map_stamp) < W
    <3>1. time_passed' = fusion_map_step_ + (time_passed_stamp - fusion_map_stamp)
      BY <1>4, <2>7, EnterClocks
    <3>2. time_passed' + B(current_pos) > B(total_size + 1)
      BY <1>1, <1>2, <2>2, <2>3, <3>1
    <3> QED BY <2>1, <2>5, <3>2 DEF BackInv
  <2> QED BY <1>1, <2>6, <2>7
<1>5. CASE Advance
  <2>1. /\ pc = "advance" /\ pc' = pc /\ track' = track /\ current_pos' = current_pos + 1
        /\ fusion_map_step_' = fusion_map_step_
        /\ time_passed > NsecsAt(current_pos)
        /\ time_passed' = time_passed - NsecsAt(current_pos)
    BY <1>5 DEF Advance, Late, history
  <2>2. Backwards(fusion_map_step_)
    BY <2>1 DEF Backwards
  <2>3. time_passed + B(current_pos) > B(total_size + 1)
    BY <1>1, <1>2, <2>1, <2>2 DEF BackInv
  <2>4. B(current_pos)' = B(current_pos + 1) /\ B(total_size + 1)' = B(total_size + 1)
    BY <2>1 DEF B, total_size
  <2>5. time_passed' + B(current_pos + 1) > B(total_size + 1)
    BY <1>1, <1>2, <2>1, <2>3
  <2> QED BY <2>1, <2>4, <2>5 DEF BackInv
<1>6. CASE OutOfRange \/ Rewind \/ PlayOut
  BY <1>6 DEF OutOfRange, Rewind, PlayOut, BackInv
<1>7. CASE StayInPlay
  <2>1. /\ pc = "advance" /\ pc' = "idle" /\ current_pos' = current_pos
        /\ entry_pos' = entry_pos /\ rewinds' = rewinds
        /\ fusion_map_step_' = fusion_map_step_ /\ current_pos < total_size /\ ~ Late
    BY <1>7 DEF StayInPlay, Emit
  <2>2. Backwards(fusion_map_step_)
    BY <2>1 DEF Backwards
  <2>3. time_passed <= NsecsAt(current_pos)
    BY <1>1, <1>2, <2>1 DEF Late
  <2>4. ~ (time_passed + B(current_pos) > B(total_size + 1))
    BY <1>1, <1>2, <2>3
  <2>5. current_pos = entry_pos /\ rewinds = 0
    BY <2>1, <2>2, <2>4 DEF BackInv
  <2> QED BY <2>1, <2>5 DEF BackInv
<1>8. CASE UNCHANGED vars
  <2>1. /\ pc' = pc /\ track' = track /\ current_pos' = current_pos /\ entry_pos' = entry_pos
        /\ rewinds' = rewinds /\ fusion_map_step_' = fusion_map_step_ /\ time_passed' = time_passed
    BY <1>8 DEF vars, iterVars, history
  <2> QED BY <2>1 DEF BackInv, Backwards, NsecsAt, total_size, B
<1> QED BY <1>3, <1>4, <1>5, <1>6, <1>7, <1>8 DEF Next, Body, Ended

\* A tick whose clock went back leaves the obstacle where it is, or ends it.
THEOREM BackwardsIsHarmless == Spec => []BackwardsHoldsOrEnds
<1>1. Init => BackInv
  BY ConstantFacts DEF Init, BackInv, Backwards
<1>2. BackInv => BackwardsHoldsOrEnds
  BY DEF BackInv, BackwardsHoldsOrEnds
<1> QED BY <1>1, <1>2, BackNext, StartAlways, PTL DEF Spec

-----------------------------------------------------------------------------
(* The passes. *)

\* What an ending finds in the counter.
LEMMA PassFacts ==
  ASSUME TypeOK, PassInv, Emit
  PROVE  /\ passes \in Nat /\ replay_times \in Int
         /\ passes = 0 => TimesNow = IF seen_moving' THEN DynamicReplayTimes ELSE kReplayTimesNotSet
         /\ passes > 0 => TimesNow = replay_times /\ replay_times = Times' - passes /\ replay_times > 0
<1>1. passes \in Nat /\ replay_times \in Int
  BY DEF TypeOK
<1>2. InPlay
  BY DEF Emit, InPlay
<1>3. ASSUME passes = 0
      PROVE  TimesNow = IF seen_moving' THEN DynamicReplayTimes ELSE kReplayTimesNotSet
  <2>1. replay_times = IF seen_moving THEN DynamicReplayTimes ELSE kReplayTimesNotSet
    BY <1>2, <1>3 DEF PassInv
  <2>2. seen_moving' <=> seen_moving \/ IsMoving
    BY <1>3, Zenon DEF Emit
  <2>3. DynamicReplayTimes # kReplayTimesNotSet
    BY ConstantFacts
  <2> QED BY <2>1, <2>2, <2>3, Zenon DEF TimesNow
<1>4. ASSUME passes > 0
      PROVE  TimesNow = replay_times /\ replay_times = Times' - passes /\ replay_times > 0
  <2>1. replay_times = Times - passes /\ replay_times > 0
    BY <1>2, <1>4 DEF PassInv
  <2>2. passes # 0
    BY <1>1, <1>4
  <2>3. seen_moving' <=> seen_moving
    BY <2>2, Zenon DEF Emit
  <2>4. Times' = Times
    BY <2>3, Zenon DEF Times
  <2>5. replay_times # kReplayTimesNotSet
    BY <1>1, <2>1 DEF kReplayTimesNotSet
  <2>6. TimesNow = replay_times
    BY <2>5 DEF TimesNow
  <2> QED BY <2>1, <2>4, <2>6
<1> QED BY <1>1, <1>3, <1>4

LEMMA PassNext == TypeOK /\ PassInv /\ [Next]_vars => PassInv'
<1> SUFFICES ASSUME TypeOK, PassInv, [Next]_vars PROVE PassInv'
  OBVIOUS
<1>1. StaticReplayTimes \in Int /\ DynamicReplayTimes \in Int
  BY ConstantFacts
<1>2. CASE \/ \E step \in Steps : Tick(step)
           \/ Enter \/ Advance \/ OutOfRange \/ UNCHANGED vars
  <2>1. /\ passes' = passes /\ replay_times' = replay_times /\ seen_moving' = seen_moving
        /\ (InPlay' => InPlay) /\ (pc' = "over" => pc = "over")
    BY <1>2, Zenon DEF Tick, Enter, Advance, OutOfRange, vars, iterVars, history, InPlay
  <2>2. Times' = Times
    BY <2>1, Zenon DEF Times
  <2> QED BY <2>1, <2>2, Zenon DEF PassInv
<1>3. ASSUME Emit
      PROVE  /\ passes \in Nat /\ Times' \in Int
             /\ passes = 0 => TimesAtEnd = Times' - 1
             /\ passes > 0 => TimesAtEnd = Times' - passes - 1 /\ TimesAtEnd >= 0
  <2>1. /\ passes \in Nat /\ replay_times \in Int
        /\ passes = 0 => TimesNow = IF seen_moving' THEN DynamicReplayTimes ELSE kReplayTimesNotSet
        /\ passes > 0 => TimesNow = replay_times /\ replay_times = Times' - passes /\ replay_times > 0
    BY <1>3, PassFacts
  <2>2. Times' = IF seen_moving' THEN DynamicReplayTimes ELSE StaticReplayTimes
    BY Zenon DEF Times
  <2>3. Times' \in Int
    BY <1>1, <2>2, Zenon
  <2>4. TimesAtEnd = (IF TimesNow = kReplayTimesNotSet THEN StaticReplayTimes ELSE TimesNow) - 1
    BY DEF TimesAtEnd
  <2>5. passes = 0 =>
          (IF TimesNow = kReplayTimesNotSet THEN StaticReplayTimes ELSE TimesNow) = Times'
    BY <2>1, <2>2, ConstantFacts, Zenon
  <2>6. ASSUME passes > 0 PROVE TimesAtEnd = Times' - passes - 1 /\ TimesAtEnd >= 0
    <3>1. TimesNow \in Int /\ TimesNow > 0 /\ TimesNow = Times' - passes
      BY <2>1, <2>6
    <3>2. TimesNow # kReplayTimesNotSet
      BY <3>1 DEF kReplayTimesNotSet
    <3>3. TimesAtEnd = TimesNow - 1
      BY <2>4, <3>2
    <3>4. passes \in Nat
      BY <2>1
    <3>5. TimesAtEnd = (Times' - passes) - 1
      BY <3>1, <3>3, Zenon
    <3>6. TimesAtEnd >= 0
      BY <3>1, <3>3
    <3> QED BY <2>3, <3>4, <3>5, <3>6
  <2>7. passes = 0 => TimesAtEnd = Times' - 1
    BY <2>4, <2>5, Zenon
  <2> QED BY <2>1, <2>3, <2>6, <2>7
<1>4. CASE StayInPlay
  <2>1. /\ Emit /\ pc' = "idle" /\ replay_times' = TimesNow /\ passes' = passes
    BY <1>4 DEF StayInPlay
  <2>2. /\ passes \in Nat
        /\ passes = 0 => TimesNow = IF seen_moving' THEN DynamicReplayTimes ELSE kReplayTimesNotSet
        /\ passes > 0 => TimesNow = Times' - passes /\ TimesNow > 0
    BY <2>1, PassFacts
  <2> QED BY <2>1, <2>2, Zenon DEF PassInv
<1>5. CASE Rewind
  <2>1. /\ Emit /\ pc' = "enter" /\ replay_times' = TimesAtEnd /\ passes' = passes + 1
        /\ TimesAtEnd > 0
    BY <1>5 DEF Rewind
  <2>2. passes \in Nat /\ Times' \in Int /\ TimesAtEnd = Times' - (passes + 1)
    BY <1>3, <2>1
  <2>3. passes' # 0
    BY <2>1, <2>2
  <2> QED BY <2>1, <2>2, <2>3 DEF PassInv
<1>6. CASE PlayOut
  <2>1. Emit /\ pc' = "over" /\ passes' = passes + 1 /\ TimesAtEnd <= 0
    BY <1>6 DEF PlayOut
  <2>2. passes + 1 = IF Times' < 1 THEN 1 ELSE Times'
    BY <1>3, <2>1
  <2> QED BY <2>1, <2>2 DEF PassInv, InPlay
<1> QED BY <1>2, <1>4, <1>5, <1>6 DEF Next, Body, Ended

\* The number of passes is the configured one of what the first pass showed.
THEOREM PassesAreConfigured == Spec => []PassesAsConfigured
<1>1. Init => PassInv
  <2> SUFFICES ASSUME Init PROVE PassInv
    OBVIOUS
  <2>1. replay_times = IF seen_moving THEN DynamicReplayTimes ELSE kReplayTimesNotSet
    BY Zenon DEF Init
  <2>2. passes = 0 /\ pc = "idle"
    BY DEF Init
  <2> QED BY <2>1, <2>2 DEF PassInv, InPlay
<1>2. TypeOK /\ PassInv => PassesAsConfigured
  <2> SUFFICES ASSUME TypeOK, PassInv PROVE PassesAsConfigured
    OBVIOUS
  <2>1. Times \in Int /\ passes \in Nat
    BY ConstantFacts, Zenon DEF Times, TypeOK
  <2>2. pc \in {"idle", "enter"} /\ passes # 0 => passes < Times
    BY <2>1 DEF PassInv, InPlay
  <2>3. pc = "over" => passes = IF Times < 1 THEN 1 ELSE Times
    BY DEF PassInv
  <2>4. pc \in {"idle", "enter"} => passes < (IF Times < 1 THEN 1 ELSE Times) \/ passes = 0
    BY <2>1, <2>2
  <2> QED BY <2>3, <2>4, Zenon DEF PassesAsConfigured, Times
<1> QED BY <1>1, <1>2, PassNext, ClockAlways, PTL DEF Spec

-----------------------------------------------------------------------------
(* Refinement. *)

LEMMA ReplayInit == Init => Replay!Init
BY DEF Init, Replay!Init, Replay!NotSet, kReplayTimesNotSet

\* Every ending of the loop body is a step of ObstacleReplay at the index
\* current_pos; everything else changes nothing it sees.
LEMMA ReplayStep ==
  TypeOK /\ StartInv /\ [Next]_vars => [Replay!Next]_(Replay!ReplayVars)
<1> DEFINE shown == IF pc \in {"over", "fault"} THEN pc ELSE "playing"
           seen == IF pc \in {"idle", "enter"} THEN current_pos ELSE entry_pos
<1> SUFFICES ASSUME TypeOK, StartInv, [Next]_vars
             PROVE  Replay!Next \/ (track' = track /\ shown' = shown
                                      /\ replay_times' = replay_times /\ seen' = seen)
  BY DEF Replay!ReplayVars
<1>1. /\ current_pos \in Nat /\ entry_pos \in Nat /\ current_pos <= total_size
      /\ total_size \in Nat /\ total_size = Last[track] /\ total_size >= 2
  BY NumberFacts, PlaceFacts DEF TypeOK, total_size
<1>2. /\ TimesNow = Replay!TimesAt(current_pos)
      /\ TimesAtEnd = Replay!TimesAtEnd(current_pos)
  BY Zenon DEF TimesNow, TimesAtEnd, IsMoving, kReplayTimesNotSet,
               Replay!TimesAt, Replay!TimesAtEnd, Replay!NotSet
<1>3. CASE \E step \in Steps : Tick(step)
  <2>1. pc = "idle" /\ pc' = "enter" /\ track' = track /\ UNCHANGED iterVars
    BY <1>3 DEF Tick
  <2> QED BY <2>1 DEF iterVars
<1>4. CASE Enter
  <2>1. /\ pc = "enter" /\ pc' = "advance" /\ track' = track
        /\ replay_times' = replay_times /\ entry_pos' = entry_pos
    BY <1>4 DEF Enter, history
  <2>2. entry_pos = current_pos
    BY <2>1 DEF StartInv
  <2> QED BY <2>1, <2>2
<1>5. CASE Advance
  <2>1. /\ pc = "advance" /\ pc' = "advance" /\ track' = track
        /\ replay_times' = replay_times /\ entry_pos' = entry_pos
    BY <1>5 DEF Advance, history
  <2> QED BY <2>1
<1>6. CASE OutOfRange
  <2>1. /\ pc = "advance" /\ pc' = "fault" /\ track' = track /\ current_pos = 0
        /\ replay_times' = replay_times /\ entry_pos' = entry_pos
    BY <1>6 DEF OutOfRange, iterVars, history
  <2>2. entry_pos = 0
    BY <1>1, <2>1 DEF StartInv
  <2> QED BY <2>1, <2>2 DEF Replay!Next, Replay!OutOfRange
<1>7. ASSUME Emit
      PROVE  /\ pc = "advance" /\ track' = track
             /\ current_pos \in entry_pos..Last[track] /\ current_pos >= 1
             /\ current_pos >= total_size => current_pos = Last[track]
  <2>1. pc = "advance" /\ track' = track /\ current_pos > 0
    BY <1>7 DEF Emit
  <2>2. entry_pos <= current_pos
    BY <2>1 DEF StartInv
  <2> QED BY <1>1, <2>1, <2>2
<1>8. CASE StayInPlay
  <2>1. /\ Emit /\ current_pos < total_size /\ replay_times' = TimesNow
        /\ pc' = "idle" /\ current_pos' = current_pos
    BY <1>8 DEF StayInPlay
  <2>2. Replay!PlayOn(current_pos)
    BY <1>1, <1>2, <1>7, <2>1 DEF Replay!PlayOn
  <2> QED BY <1>7, <2>1, <2>2 DEF Replay!Next
<1>9. CASE Rewind
  <2>1. /\ Emit /\ current_pos >= total_size /\ TimesAtEnd > 0
        /\ replay_times' = TimesAtEnd /\ pc' = "enter" /\ current_pos' = 0
    BY <1>9 DEF Rewind
  <2>2. Replay!Rewind(current_pos)
    BY <1>2, <1>7, <2>1 DEF Replay!Rewind
  <2> QED BY <1>7, <2>1, <2>2 DEF Replay!Next
<1>10. CASE PlayOut
  <2>1. /\ Emit /\ current_pos >= total_size /\ TimesAtEnd <= 0
        /\ pc' = "over" /\ replay_times' = replay_times /\ entry_pos' = entry_pos
    BY <1>10 DEF PlayOut, iterVars
  <2>2. Replay!PlayOut(current_pos)
    BY <1>2, <1>7, <2>1 DEF Replay!PlayOut
  <2> QED BY <1>7, <2>1, <2>2 DEF Replay!Next
<1>11. CASE UNCHANGED vars
  BY <1>11 DEF vars, iterVars, history
<1> QED BY <1>3, <1>4, <1>5, <1>6, <1>8, <1>9, <1>10, <1>11 DEF Next, Body, Ended

\* What ObstacleRestorer assumes of a tick of an obstacle is what the clocks
\* do, for every track and every step.
THEOREM ClocksImplementReplay == Spec => ImplementsReplay
BY ReplayInit, ReplayStep, StartAlways, PTL DEF ImplementsReplay, Replay!Spec, Spec
=============================================================================
