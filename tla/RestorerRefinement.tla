------------------------- MODULE RestorerRefinement -------------------------
(***************************************************************************)
(* ObstacleRestorer implements ObstacleLifecycle: the phase of an obstacle *)
(* is read off the loader's progress and the three maps.                   *)
(***************************************************************************)
EXTENDS ObstacleRestorer

\* The obstacle's file was parsed in this pass or an earlier one.
WasRead(id) ==
  \E b \in dynamic_obstacle_files_ : \E f \in BlockFiles[b] \ l_files : FileId[f] = id

PhaseOf(id) ==
  CASE done[id] = "waiting" -> "waiting"
    [] done[id] = "shifted" /\ id \in doing -> "playing"
    [] done[id] = "shifted" /\ id \in finished -> "over"
    [] done[id] = "shifted" /\ id \notin doing \cup finished -> "parked"
    [] done[id] = "finished" -> "acknowledged"
    [] done[id] = "absent" ->
         IF WasRead(id) /\ id \notin l_ids THEN "freed" ELSE "unread"

Lifecycle ==
  INSTANCE ObstacleLifecycle
    WITH Short <- {FileId[f] : f \in {g \in File : LastIndex[g] + 1 <= 2}},
         phase <- [id \in Id |-> PhaseOf(id)],
         shown <- fusion_map

\* Every step of the two threads is a step of the lifecycle, or none of it,
\* when ids are not repeated (UniqueIds).
ImplementsLifecycle == Lifecycle!Spec
=============================================================================
