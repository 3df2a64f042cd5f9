------------------------- MODULE MCParallelRegression -------------------------
(***************************************************************************)
(* TLC instance of ParallelRegression: a list that repeats a case and has  *)
(* one without a directory.                                                *)
(***************************************************************************)
EXTENDS ParallelRegression, TLC

CONSTANTS c1, c2, c3

RepeatedList == <<c3, c1, c2, c1>>
=============================================================================
