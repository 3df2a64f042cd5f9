----------------------------- MODULE WeeklyUpload -----------------------------
(***************************************************************************)
(* upload_bags of regression_parallelly.py: after a regression without     *)
(* errors that recorded its bags, they are put into an archive, "at the    *)
(* first successful regression everyweek" (line 635).  What decides is the *)
(* newest folder of the archive, compared by ISO year and week with the    *)
(* date of the installed version.  The folder is made before the bags are  *)
(* packed and put into it; no step checks the one before, and the process  *)
(* may end between them.                                                   *)
(***************************************************************************)
EXTENDS Integers

CONSTANTS
  Date,              \* version dates: [year, week, day : Nat]
  Nobody, MaxRuns    \* MaxRuns bounds the regressions

Week(d) == <<d.year, d.week>>
Earlier(d, e) ==
  \/ d.year < e.year
  \/ d.year = e.year /\ d.week < e.week
  \/ Week(d) = Week(e) /\ d.day < e.day

\* Dates are ordered, so the folders that were made have a latest one.
ASSUME UploadAssumption ==
  /\ Date \subseteq [year : Nat, week : Nat, day : Nat]
  /\ \A S \in SUBSET Date : S # {} => \E d \in S : \A e \in S : d = e \/ Earlier(e, d)
  /\ MaxRuns \in Nat /\ Nobody \notin Date

VARIABLES
  installed,         \* the version of the vehicle's software
  pc, version_date,  \* upload_bags
  folders,           \* the archive's folders
  bags,              \* [Date -> how many archives of bags were put there]
  runs,              \* bound
  due, excused       \* the dates with a regression that succeeded, and those
                     \* of them whose upload was broken off or out of date

vars == <<installed, pc, version_date, folders, bags, runs, due, excused>>

\* The archive was begun by hand: without a folder the comparison raises.
Init ==
  /\ installed \in Date
  /\ \E d \in Date : folders = {d} /\ bags = [e \in Date |-> IF e = d THEN 1 ELSE 0]
  /\ pc = "idle" /\ version_date = Nobody /\ runs = 0
  /\ due = {d \in Date : bags[d] > 0} /\ excused = {}

\* Any version can be installed, older ones included.
Install(d) ==
  /\ d # installed /\ installed' = d
  /\ UNCHANGED <<pc, version_date, folders, bags, runs, due, excused>>

\* The last folder of the listing; the names are dates, so it is the latest.
Latest == CHOOSE d \in folders : \A e \in folders : d = e \/ Earlier(e, d)

\* Mutants of IsDue: the weeks alone; the present week as well.
IsDueByWeek(last, current) == last.week < current.week
IsDueAgain(last, current) == last.year < current.year \/ last.week <= current.week

IsDue(last, current) == last.year < current.year \/ last.week < current.week

\* A regression succeeds and upload_bags looks whether to upload.
Check ==
  /\ pc = "idle" /\ runs < MaxRuns /\ runs' = runs + 1
  /\ version_date' = installed
  /\ pc' = IF IsDue(Latest, installed) THEN "mkdir" ELSE "idle"
  /\ due' = due \cup {installed}
  /\ excused' = IF Earlier(installed, Latest) THEN excused \cup {installed} ELSE excused
  /\ UNCHANGED <<installed, folders, bags>>

Mkdir ==
  /\ pc = "mkdir" /\ pc' = "put"
  /\ folders' = folders \cup {version_date}
  /\ UNCHANGED <<installed, version_date, bags, runs, due, excused>>

Put ==
  /\ pc = "put" /\ pc' = "idle"
  /\ bags' = [bags EXCEPT ![version_date] = @ + 1]
  /\ UNCHANGED <<installed, version_date, folders, runs, due, excused>>

\* Packing or putting fails, or the process ends between two steps.
BreakOff ==
  /\ pc # "idle" /\ pc' = "idle"
  /\ excused' = excused \cup {version_date}
  /\ UNCHANGED <<installed, version_date, folders, bags, runs, due>>

Next == (\E d \in Date : Install(d)) \/ Check \/ Mkdir \/ Put \/ BreakOff

Spec == Init /\ [][Next]_vars

-----------------------------------------------------------------------------
TypeOK ==
  /\ installed \in Date /\ pc \in {"idle", "mkdir", "put"}
  /\ version_date \in Date \cup {Nobody}
  /\ folders \subseteq Date /\ bags \in [Date -> Nat] /\ runs \in 0..MaxRuns
  /\ due \subseteq Date /\ excused \subseteq due

SameWeek(d) == {e \in Date : Week(e) = Week(d)}

\* A week in which a regression succeeded has its bags, across the turn of the
\* year too, unless an upload of that week was broken off (its folder then
\* counts as the week's upload) or its version was older than the archive.
WeekHasBags ==
  pc = "idle" => \A d \in due :
    \/ \E e \in SameWeek(d) : bags[e] > 0
    \/ \E e \in SameWeek(d) : e \in excused

\* Twice in a week bags are uploaded only of a version of an earlier year than
\* a folder of the archive, because year and week are compared with "or"
\* (line 666).
OncePerWeek ==
  \A d \in due :
    \/ \A e, f \in SameWeek(d) : (bags[e] > 0 /\ bags[f] > 0) => e = f /\ bags[e] = 1
    \/ \E f \in folders : d.year < f.year /\ f.week < d.week
=============================================================================
