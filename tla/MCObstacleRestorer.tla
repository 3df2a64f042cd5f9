------------------------- MODULE MCObstacleRestorer -------------------------
(***************************************************************************)
(* TLC instances of ObstacleRestorer: two poses, the second one with a     *)
(* larger window; three files; tracks of two or three states.              *)
(***************************************************************************)
EXTENDS RestorerRefinement, TLC

CONSTANTS pA, pB, b1, b2, f1, f2, f3, id1, id2, id3

\* Three ids: f1 alone in the first block, f2 and the two-state f3 in the other.
UBlockFiles == (b1 :> {f1}) @@ (b2 :> {f2, f3})
UFileId == (f1 :> id1) @@ (f2 :> id2) @@ (f3 :> id3)
ULastIndex == (f1 :> 2) @@ (f2 :> 2) @@ (f3 :> 1)
UMoving == (f1 :> {}) @@ (f2 :> {1}) @@ (f3 :> {})
UWindow == (pA :> {b1}) @@ (pB :> {b1, b2})
UNear == (pA :> {f1, f3}) @@ (pB :> {f2})

\* Two ids: f1 of the first block and f3 of the second have the same id,
\* with tracks of different lengths.
DFileId == (f1 :> id1) @@ (f2 :> id2) @@ (f3 :> id1)
DLastIndex == (f1 :> 2) @@ (f2 :> 1) @@ (f3 :> 3)
DNear == (pA :> {f1, f3}) @@ (pB :> {f1, f2})
=============================================================================
