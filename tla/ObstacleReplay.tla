--------------------------- MODULE ObstacleReplay ---------------------------
(***************************************************************************)
(* One obstacle in play as ObstacleRestorer sees it: at each tick it is    *)
(* shown at some later index of its track, and at the end of the track it  *)
(* starts again while replays are left.  Playback, which has the clocks,   *)
(* implements this.                                                        *)
(***************************************************************************)
EXTENDS Integers

CONSTANTS Track, Last, Moving, StaticReplayTimes, DynamicReplayTimes
VARIABLES track, state, times, index

NotSet == -100
ReplayVars == <<track, state, times, index>>

Init == track \in Track /\ state = "playing" /\ times = NotSet /\ index = 1

TimesAt(p) == IF times = NotSet /\ p \in Moving[track] THEN DynamicReplayTimes ELSE times
TimesAtEnd(p) == (IF TimesAt(p) = NotSet THEN StaticReplayTimes ELSE TimesAt(p)) - 1

PlayOn(p) ==
  /\ p < Last[track]
  /\ times' = TimesAt(p) /\ index' = p
  /\ UNCHANGED <<track, state>>

Rewind(p) ==
  /\ p = Last[track] /\ TimesAtEnd(p) > 0
  /\ times' = TimesAtEnd(p) /\ index' = 0
  /\ UNCHANGED <<track, state>>

PlayOut(p) ==
  /\ p = Last[track] /\ TimesAtEnd(p) <= 0
  /\ state' = "over"
  /\ UNCHANGED <<track, times, index>>

\* The state before the first one is read: possible at index 0 only.
OutOfRange == index = 0 /\ state' = "fault" /\ UNCHANGED <<track, times, index>>

Next ==
  /\ state = "playing"
  /\ \/ \E p \in index..Last[track] : p >= 1 /\ (PlayOn(p) \/ Rewind(p) \/ PlayOut(p))
     \/ OutOfRange

Spec == Init /\ [][Next]_ReplayVars
=============================================================================
