---------------------------- MODULE MCWeeklyUpload ----------------------------
(* Two days of one week, the week after, the turn of the year.              *)
EXTENDS WeeklyUpload

D(y, w, d) == [year |-> y, week |-> w, day |-> d]
MCDate == {D(19, 10, 1), D(19, 52, 1), D(19, 52, 4), D(20, 1, 2), D(20, 10, 1)}
================================================================================
