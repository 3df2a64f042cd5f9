------------------------------ MODULE Playback ------------------------------
(***************************************************************************)
(* The clocks of one obstacle in play (ProcessDoingCreateDynamicObstacle). *)
(* A track is a list of states, each with the nanoseconds it lasts; in     *)
(* every tick the position follows the time the robot's stamps advanced    *)
(* by.  The stamps and the step are uint64: arithmetic is modulo 2^64,     *)
(* here modulo W, and a step backwards of the clock is W minus its length. *)
(***************************************************************************)
EXTENDS Integers, FiniteSets

CONSTANTS
  W,                   \* 2^64 in the program
  Track,               \* the recorded tracks
  Last,                \* [Track -> Nat], the last index: total_size
  Begins,              \* [Track -> function on 0..Last + 1], the nsecs before each state
  Moving,              \* [Track -> SUBSET Nat], states faster than kStaticVeloThreshold
  Steps,               \* what fusion_map_step_ may be in a tick
  StaticReplayTimes, DynamicReplayTimes

kReplayTimesNotSet == -100

\* The replay counts are not the value that stands for "not set".
ASSUME PlaybackAssumption ==
  /\ W \in Nat \ {0} /\ Steps \subseteq 0..(W - 1)
  /\ Last \in [Track -> Nat] /\ \A t \in Track : Last[t] >= 2
  /\ \A t \in Track :
       /\ Begins[t] \in [0..(Last[t] + 1) -> Nat]
       /\ \A p, q \in 0..(Last[t] + 1) : p <= q => Begins[t][p] <= Begins[t][q]
       /\ 2 * Begins[t][Last[t] + 1] < W          \* 292 years
  /\ Moving \in [Track -> SUBSET Nat]
  /\ StaticReplayTimes \in Int /\ DynamicReplayTimes \in Int \ {kReplayTimesNotSet}

VARIABLES
  track,               \* the track in play
  pc,                  \* "idle" between ticks, then the place in the loop body
  replay_times, current_pos, time_passed_stamp, fusion_map_stamp,   \* the Iter
  fusion_map_step_, time_passed,
  (* History, read by the properties only. *)
  rewinds,             \* rewinds in this tick
  passes,              \* passes over the track completed so far
  seen_moving,         \* a moving state was shown during the first pass
  entry_pos,           \* current_pos when the loop body was last entered
  went_back            \* the clock has gone back in some tick

iterVars == <<replay_times, current_pos, time_passed_stamp, fusion_map_stamp>>
history == <<rewinds, passes, seen_moving, entry_pos, went_back>>
vars == <<track, pc, iterVars, fusion_map_step_, time_passed, history>>

total_size == Last[track]
NsecsAt(p) == Begins[track][p + 1] - Begins[track][p]

\* As ShiftTodoToDoing leaves it: the first pass starts at index 1.
Init ==
  /\ track \in Track
  /\ pc = "idle"
  /\ replay_times = kReplayTimesNotSet /\ current_pos = 1
  /\ time_passed_stamp = 0 /\ fusion_map_stamp = 0
  /\ fusion_map_step_ = 0 /\ time_passed = 0
  /\ rewinds = 0 /\ passes = 0 /\ seen_moving = FALSE
  /\ entry_pos = 1 /\ went_back = FALSE

Backwards(step) == step >= W - step

\* Comp: the step is the difference of two header stamps.
Tick(step) ==
  /\ pc = "idle"
  /\ fusion_map_step_' = step
  /\ pc' = "enter"
  /\ rewinds' = 0 /\ entry_pos' = current_pos
  /\ went_back' = (went_back \/ Backwards(step))
  /\ UNCHANGED <<track, iterVars, time_passed, passes, seen_moving>>

\* Mutants of Enter: the step of this tick is left out; the step is taken
\* without its sign.
EnterWith(passed, stamp) ==
  /\ pc = "enter"
  /\ time_passed' = passed /\ time_passed_stamp' = stamp
  /\ pc' = "advance"
  /\ UNCHANGED <<track, replay_times, current_pos, fusion_map_stamp, fusion_map_step_, history>>
Lag == (time_passed_stamp - fusion_map_stamp) % W
EnterBefore == EnterWith(Lag, (time_passed_stamp + fusion_map_step_) % W)
EnterUnsigned ==
  LET length == IF Backwards(fusion_map_step_) THEN W - fusion_map_step_ ELSE fusion_map_step_
  IN  EnterWith((length + Lag) % W, (time_passed_stamp + length) % W)

\* Head of the loop body: also where it returns to after a rewind.
Enter ==
  /\ pc = "enter"
  /\ time_passed' = (fusion_map_step_ - (fusion_map_stamp - time_passed_stamp)) % W
  /\ time_passed_stamp' = (time_passed_stamp + fusion_map_step_) % W
  /\ pc' = "advance"
  /\ UNCHANGED <<track, replay_times, current_pos, fusion_map_stamp, fusion_map_step_, history>>

\* Mutants of Late: a state is left in the very nanosecond it ends; the last
\* state is not counted.
LateAtEnd == current_pos < total_size /\ time_passed >= NsecsAt(current_pos)
LateShort == current_pos < total_size - 1 /\ time_passed > NsecsAt(current_pos)

Late == current_pos < total_size /\ time_passed > NsecsAt(current_pos)

\* Mutant of Advance: the obstacle's clock stands still.
AdvanceUnstamped ==
  /\ pc = "advance" /\ Late
  /\ time_passed' = time_passed - NsecsAt(current_pos)
  /\ current_pos' = current_pos + 1
  /\ UNCHANGED <<track, pc, replay_times, time_passed_stamp, fusion_map_stamp,
                 fusion_map_step_, history>>

Advance ==
  /\ pc = "advance" /\ Late
  /\ time_passed' = time_passed - NsecsAt(current_pos)
  /\ fusion_map_stamp' = (fusion_map_stamp + NsecsAt(current_pos)) % W
  /\ current_pos' = current_pos + 1
  /\ UNCHANGED <<track, pc, replay_times, time_passed_stamp, fusion_map_step_, history>>

\* dynamic_obstacle_state(current_pos - 1) with current_pos = 0.
OutOfRange ==
  /\ pc = "advance" /\ ~ Late /\ current_pos = 0
  /\ pc' = "fault"
  /\ UNCHANGED <<track, iterVars, fusion_map_step_, time_passed, history>>

IsMoving == current_pos \in Moving[track]
TimesNow == IF replay_times = kReplayTimesNotSet /\ IsMoving
            THEN DynamicReplayTimes ELSE replay_times
\* Mutant of TimesAtEnd: the first pass is not counted.
TimesAfterFirst == IF TimesNow = kReplayTimesNotSet THEN StaticReplayTimes ELSE TimesNow - 1
TimesAtEnd == (IF TimesNow = kReplayTimesNotSet THEN StaticReplayTimes ELSE TimesNow) - 1

\* The obstacle is pushed into the map; this is common to the three endings.
Emit ==
  /\ pc = "advance" /\ ~ Late /\ current_pos > 0
  /\ seen_moving' = (seen_moving \/ (passes = 0 /\ IsMoving))
  /\ UNCHANGED <<track, fusion_map_step_, time_passed, went_back>>

StayInPlay ==
  /\ Emit /\ current_pos < total_size
  /\ replay_times' = TimesNow
  /\ pc' = "idle"
  /\ UNCHANGED <<current_pos, time_passed_stamp, fusion_map_stamp, rewinds, passes, entry_pos>>

\* Mutant of Rewind: the track restarts at index 1.
RewindToOne ==
  /\ Emit /\ current_pos >= total_size /\ TimesAtEnd > 0
  /\ replay_times' = TimesAtEnd
  /\ current_pos' = 1 /\ time_passed_stamp' = 0 /\ fusion_map_stamp' = 0
  /\ pc' = "enter"
  /\ passes' = passes + 1 /\ rewinds' = rewinds + 1 /\ entry_pos' = 1

\* The stamps restart, and the loop comes back to this entry in this tick.
Rewind ==
  /\ Emit /\ current_pos >= total_size /\ TimesAtEnd > 0
  /\ replay_times' = TimesAtEnd
  /\ current_pos' = 0 /\ time_passed_stamp' = 0 /\ fusion_map_stamp' = 0
  /\ pc' = "enter"
  /\ passes' = passes + 1 /\ rewinds' = rewinds + 1 /\ entry_pos' = 0

PlayOut ==
  /\ Emit /\ current_pos >= total_size /\ TimesAtEnd <= 0
  /\ pc' = "over"
  /\ passes' = passes + 1
  /\ UNCHANGED <<iterVars, rewinds, entry_pos>>

Ended == pc \in {"over", "fault"} /\ UNCHANGED vars

Body == Enter \/ Advance \/ OutOfRange \/ StayInPlay \/ Rewind \/ PlayOut
Next == (\E step \in Steps : Tick(step)) \/ Body \/ Ended

Spec == Init /\ [][Next]_vars

\* The loop body never blocks, and the robot's stamps move on again and again.
Fairness == WF_vars(Body) /\ SF_vars(\E step \in Steps : 0 < step /\ ~ Backwards(step) /\ Tick(step))
FairSpec == Spec /\ Fairness

-----------------------------------------------------------------------------
TypeOK ==
  /\ track \in Track
  /\ pc \in {"idle", "enter", "advance", "over", "fault"}
  /\ replay_times \in Int /\ current_pos \in 0..total_size
  /\ time_passed_stamp \in 0..(W - 1) /\ fusion_map_stamp \in 0..(W - 1)
  /\ fusion_map_step_ \in Steps \cup {0} /\ time_passed \in 0..(W - 1)
  /\ rewinds \in Nat /\ passes \in Nat /\ seen_moving \in BOOLEAN
  /\ entry_pos \in 0..total_size /\ went_back \in BOOLEAN

\* Between ticks the obstacle's clock is never ahead of the vehicle's, and
\* behind it by at most the duration of the current state, whatever the
\* steps were, even backwards: the uint64 difference of the stamps at line
\* 195 is a real lag.
StampsAgree ==
  (pc = "idle" /\ current_pos < total_size) =>
    /\ fusion_map_stamp <= time_passed_stamp
    /\ time_passed_stamp - fusion_map_stamp <= NsecsAt(current_pos)

\* The time a pass takes up to the end of state p; a pass after a rewind
\* starts at state 0, the first one at state 1.
First == IF passes = 0 THEN 1 ELSE 0
TimeTo(p) == Begins[track][p + 1] - Begins[track][First]

\* As long as the clock has not gone back the position depends on the time of the pass
\* alone, not on how the ticks divide it: it is the state the stamp falls in.
PositionFollowsTime ==
  (pc = "idle" /\ ~ went_back) =>
    /\ current_pos < total_size
    /\ time_passed_stamp <= TimeTo(current_pos)
    /\ time_passed_stamp > TimeTo(current_pos - 1) \/ current_pos <= 1

\* A tick whose clock went back leaves the obstacle where it was or, when it
\* goes back by more than the lag of the obstacle's clock, ends it at once:
\* it never shows it anywhere else.
BackwardsHoldsOrEnds ==
  (pc = "idle" /\ Backwards(fusion_map_step_)) => current_pos = entry_pos /\ rewinds = 0

\* The number of passes depends only on whether the first one showed a
\* moving state, and at least one is always played.
PassesAsConfigured ==
  LET times == IF seen_moving THEN DynamicReplayTimes ELSE StaticReplayTimes
      due == IF times < 1 THEN 1 ELSE times
  IN  /\ pc = "over" => passes = due
      /\ pc \in {"idle", "enter"} => passes < due \/ passes = 0

\* The index is out of range only right after a rewind, and only on a track
\* whose state 0 lasts as long as the step: tracks that begin with 0 ns, as
\* recorded relative to the previous state, are safe.
FaultNeedsLongFirstState ==
  pc = "fault" => rewinds > 0 /\ NsecsAt(0) >= fusion_map_step_ /\ NsecsAt(0) > 0

\* An obstacle in play comes to an end, unless the clock goes back for ever.
PlaysOut == <>(pc \in {"over", "fault"}) \/ []<>(fusion_map_step_ >= W - fusion_map_step_)

\* What ObstacleRestorer assumes of a tick is what the clocks do.  The index
\* moves when the obstacle is shown, and the loop of Advance is a stutter.
Replay ==
  INSTANCE ObstacleReplay
    WITH state <- IF pc \in {"over", "fault"} THEN pc ELSE "playing",
         times <- replay_times,
         index <- IF pc \in {"idle", "enter"} THEN current_pos ELSE entry_pos
ImplementsReplay == Replay!Spec
=============================================================================
