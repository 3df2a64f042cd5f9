-------------------------- MODULE ObstacleLifecycle --------------------------
(***************************************************************************)
(* What the obstacle restorer promises for each recorded obstacle, without *)
(* threads, files or locks: it is read once, waits for the robot, is shown *)
(* in every fusion map from the tick it starts in to the tick it ends in,  *)
(* and its memory is freed only after its end was acknowledged.  An        *)
(* obstacle too short to be played is parked when the robot reaches it.    *)
(***************************************************************************)
CONSTANTS Id, Short

VARIABLES phase, shown

\* phase: unread, waiting, parked, playing, over, acknowledged or freed.
In(p) == {id \in Id : phase[id] = p}

Init == phase = [id \in Id |-> "unread"] /\ shown = {}

\* Free what is acknowledged and list what was read.
HandOver(S) ==
  /\ S \subseteq In("unread")
  /\ phase' = [id \in Id |-> IF id \in S THEN "waiting"
                             ELSE IF id \in In("acknowledged") THEN "freed" ELSE phase[id]]
  /\ UNCHANGED shown

\* A new map: nothing shown yet, and obstacles the robot is at start.
Start(S) ==
  /\ S \subseteq In("waiting")
  /\ phase' = [id \in Id |-> IF id \notin S THEN phase[id]
                             ELSE IF id \in Short THEN "parked" ELSE "playing"]
  /\ shown' = {}

Show(id) ==
  /\ phase[id] = "playing"
  /\ phase' = phase \/ phase' = [phase EXCEPT ![id] = "over"]
  /\ shown' = shown \cup {id}

\* The map is complete: every obstacle in play is in it.
Acknowledge ==
  /\ In("playing") \cup In("over") \subseteq shown
  /\ phase' = [id \in Id |-> IF phase[id] = "over" THEN "acknowledged" ELSE phase[id]]
  /\ UNCHANGED shown

Next ==
  \/ \E S \in SUBSET Id : HandOver(S) \/ Start(S)
  \/ \E id \in Id : Show(id)
  \/ Acknowledge

Spec == Init /\ [][Next]_<<phase, shown>>
=============================================================================
