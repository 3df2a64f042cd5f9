----------------------------- MODULE MCPlayback -----------------------------
(***************************************************************************)
(* TLC instances of Playback: four tracks of three to five states.         *)
(***************************************************************************)
EXTENDS Playback, TLC, Sequences

\* The functions of TLC start at 1, those of a track at 0.
FromZero(seq) == [i \in 0..(Len(seq) - 1) |-> seq[i + 1]]

\* States as the recorder writes them (0 ns first), one that takes no time,
\* one that takes several ticks, and a first state that is long.
MCBegins ==
  (1 :> FromZero(<<0, 0, 2, 4, 6>>)) @@ (2 :> FromZero(<<0, 0, 1, 1, 4, 5>>))
    @@ (3 :> FromZero(<<0, 0, 5, 7>>)) @@ (4 :> FromZero(<<0, 3, 4, 6>>))
MCLast == [t \in 1..4 |-> Cardinality(DOMAIN MCBegins[t]) - 2]
MCMoving == (1 :> {}) @@ (2 :> {2, 3}) @@ (3 :> {2}) @@ (4 :> {1})
=============================================================================
