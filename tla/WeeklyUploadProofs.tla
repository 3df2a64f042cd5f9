-------------------------- MODULE WeeklyUploadProofs --------------------------
(* Proofs for WeeklyUpload, for every set of dates and any number of runs.  *)
EXTENDS WeeklyUpload, TLAPS

\* What an upload relies on between its steps: there are no bags of its week,
\* or the archive has the folder of a later year with an earlier week.
Licensed(d) ==
  \/ \A e \in SameWeek(d) : bags[e] = 0
  \/ \E f \in folders : d.year < f.year /\ f.week < d.week

\* A week has been dealt with: its bags are there or were given up.
Settled(d) == \E e \in SameWeek(d) : bags[e] > 0 \/ e \in excused

ArchiveInv ==
  /\ folders # {} /\ folders \subseteq due
  /\ \A d \in Date : bags[d] > 0 => d \in folders
  /\ pc # "idle" => version_date \in due /\ Licensed(version_date)
  /\ pc = "put" => version_date \in folders
  /\ \A d \in due : Settled(d) \/ (pc # "idle" /\ Week(d) = Week(version_date))

IInv == TypeOK /\ ArchiveInv /\ OncePerWeek

\* The newest folder is in the archive and not earlier than any other.
LEMMA LatestIsLast ==
  ASSUME TypeOK, ArchiveInv
  PROVE  /\ Latest \in folders /\ Latest \in Date
         /\ \A e \in folders : Latest = e \/ Earlier(e, Latest)
<1>1. folders \in SUBSET Date /\ folders # {}
  BY DEF TypeOK, ArchiveInv
<1>2. PICK d \in folders : \A e \in folders : d = e \/ Earlier(e, d)
  BY <1>1, UploadAssumption
<1>3. Latest \in folders /\ \A e \in folders : Latest = e \/ Earlier(e, Latest)
  BY <1>2, Zenon DEF Latest
<1> QED
  BY <1>1, <1>3

\* Only a version older than the newest folder is not due without its week
\* having a folder; and a due version is licensed.
LEMMA Decision ==
  ASSUME IInv, NEW d \in Date
  PROVE  /\ IsDue(Latest, d) => Licensed(d)
         /\ ~ IsDue(Latest, d) => Earlier(d, Latest) \/ Week(d) = Week(Latest)
<1> USE DEF IInv, Week, Earlier, IsDue
<1>1. /\ Latest \in folders /\ Latest \in Date
      /\ \A e \in folders : Latest = e \/ Earlier(e, Latest)
  BY LatestIsLast
<1>2. d \in [year : Nat, week : Nat, day : Nat] /\ Latest \in [year : Nat, week : Nat, day : Nat]
  BY <1>1, UploadAssumption
<1>3. ASSUME IsDue(Latest, d), NEW e \in SameWeek(d), bags[e] # 0
      PROVE  \E f \in folders : d.year < f.year /\ f.week < d.week
  <2>1. e \in folders /\ e \in Date /\ e.year = d.year /\ e.week = d.week
    BY <1>3 DEF SameWeek, TypeOK, ArchiveInv
  <2>2. Latest.year > d.year \/ (Latest.year = d.year /\ Latest.week >= d.week)
    BY <2>1, <1>1, <1>2
  <2>3. d.year < Latest.year /\ Latest.week < d.week
    BY <2>2, <1>3, <1>2
  <2> QED
    BY <2>3, <1>1
<1>4. IsDue(Latest, d) => Licensed(d)
  BY <1>3 DEF Licensed
<1>5. ~ IsDue(Latest, d) => Earlier(d, Latest) \/ Week(d) = Week(Latest)
  BY <1>2
<1> QED
  BY <1>4, <1>5

LEMMA InitInv == Init => IInv
<1> SUFFICES ASSUME Init PROVE IInv
  OBVIOUS
<1>1. PICK d \in Date : folders = {d} /\ bags = [e \in Date |-> IF e = d THEN 1 ELSE 0]
  BY DEF Init
<1>2. due = {d}
  <2>1. bags[d] = 1 /\ \A e \in Date : e # d => bags[e] = 0
    BY <1>1, Zenon
  <2>2. due = {e \in Date : bags[e] > 0}
    BY DEF Init
  <2>3. d \in due
    BY <2>1, <2>2
  <2>4. ASSUME NEW e \in due PROVE e = d
    BY <2>1, <2>2
  <2> QED
    BY <2>3, <2>4
<1>3. TypeOK
  <2>1. bags \in [Date -> Nat]
    BY <1>1
  <2>2. runs \in 0..MaxRuns
    <3>1. runs = 0
      BY DEF Init
    <3> QED
      BY <3>1, UploadAssumption
  <2>3. installed \in Date /\ pc = "idle" /\ version_date = Nobody /\ excused = {}
    BY DEF Init
  <2>4. folders \subseteq Date
    BY <1>1
  <2> QED
    BY <1>2, <2>1, <2>2, <2>3, <2>4 DEF TypeOK
<1>4. d \in SameWeek(d) /\ bags[d] > 0
  BY <1>1 DEF SameWeek
<1>5. ArchiveInv
  BY <1>1, <1>2, <1>4 DEF Init, ArchiveInv, Settled
<1>6. OncePerWeek
  BY <1>1, <1>2 DEF OncePerWeek, SameWeek
<1> QED
  BY <1>3, <1>5, <1>6 DEF IInv

LEMMA StepInv == IInv /\ [Next]_vars => IInv'
<1> SUFFICES ASSUME IInv, [Next]_vars PROVE IInv'
  OBVIOUS
<1> USE DEF IInv, SameWeek
<1>1. CASE \E d \in Date : Install(d)
  BY <1>1 DEF Install, TypeOK, ArchiveInv, OncePerWeek, Licensed, Settled
<1>2. CASE Check
  <2>1. TypeOK'
    BY <1>2, UploadAssumption DEF Check, TypeOK
  <2>2. installed \in Date /\ UNCHANGED <<folders, bags>> /\ due' = due \cup {installed}
        /\ excused \subseteq excused' /\ version_date' = installed /\ pc = "idle"
    BY <1>2 DEF Check, TypeOK
  <2>3. pc' # "idle" => Licensed(installed)'
    BY <1>2, <2>2, Decision DEF Check, Licensed
  <2>4. \A d \in due : Settled(d)'
    BY <2>2 DEF ArchiveInv, Settled
  <2>5. pc' = "idle" => Settled(installed)'
    <3>1. CASE Earlier(installed, Latest)
      BY <3>1, <1>2, <2>2 DEF Check, Settled
    <3>2. CASE ~ Earlier(installed, Latest) /\ pc' = "idle"
      <4>1. Latest \in folders /\ Latest \in Date
        BY LatestIsLast
      <4>2. ~ IsDue(Latest, installed)
        BY <1>2, <3>2 DEF Check
      <4>3. Week(installed) = Week(Latest) /\ Latest \in due
        BY <4>1, <4>2, <3>2, <2>2, Decision DEF ArchiveInv
      <4>4. PICK e \in SameWeek(Latest) : bags'[e] > 0 \/ e \in excused'
        BY <4>3, <2>4 DEF Settled
      <4>5. installed' = installed /\ e \in SameWeek(installed)
        BY <1>2, <4>3 DEF Check
      <4> QED
        BY <4>4, <4>5 DEF Settled
    <3> QED
      BY <3>1, <3>2
  <2>6. ArchiveInv'
    BY <1>2, <2>2, <2>3, <2>4, <2>5 DEF Check, ArchiveInv
  <2>7. OncePerWeek'
    <3>1. ASSUME NEW e \in Date, NEW f \in Date, Week(e) = Week(installed),
                 Week(f) = Week(installed), bags[e] > 0, bags[f] > 0
          PROVE  \/ e = f /\ bags[e] = 1
                 \/ \E g \in folders : installed.year < g.year /\ g.week < installed.week
      <4>1. e \in due /\ e \in SameWeek(e) /\ f \in SameWeek(e)
        BY <3>1 DEF ArchiveInv
      <4>2. e.year = installed.year /\ e.week = installed.week
        BY <3>1 DEF Week
      <4> QED
        BY <3>1, <4>1, <4>2 DEF OncePerWeek
    <3> QED
      BY <2>2, <3>1 DEF OncePerWeek
  <2> QED
    BY <2>1, <2>6, <2>7
<1>3. CASE Mkdir
  BY <1>3 DEF Mkdir, TypeOK, ArchiveInv, OncePerWeek, Licensed, Settled
<1>4. CASE Put
  <2>1. version_date \in Date /\ version_date \in due /\ version_date \in folders
        /\ Licensed(version_date) /\ bags[version_date] \in Nat
    BY <1>4 DEF Put, TypeOK, ArchiveInv
  <2>2. /\ bags' = [bags EXCEPT ![version_date] = @ + 1]
        /\ bags'[version_date] > 0
        /\ \A d \in Date : bags'[d] # bags[d] => d = version_date
        /\ \A d \in Date : bags[d] > 0 => bags'[d] > 0
    BY <1>4, <2>1 DEF Put, TypeOK
  <2>3. TypeOK'
    BY <1>4, <2>1 DEF Put, TypeOK
  <2>4. \A d \in due : Settled(d)'
    <3>1. ASSUME NEW d \in due, Week(d) = Week(version_date) PROVE Settled(d)'
      BY <3>1, <2>1, <2>2 DEF Settled
    <3>2. ASSUME NEW d \in due, Settled(d) PROVE Settled(d)'
      BY <3>2, <2>2, <1>4 DEF Put, Settled
    <3> QED
      BY <3>1, <3>2 DEF ArchiveInv
  <2>5. ArchiveInv'
    BY <1>4, <2>1, <2>2, <2>4 DEF Put, ArchiveInv
  <2>6. OncePerWeek'
    <3> SUFFICES ASSUME NEW d \in due
                 PROVE  \/ \A e, f \in SameWeek(d) : (bags'[e] > 0 /\ bags'[f] > 0) => e = f /\ bags'[e] = 1
                        \/ \E f \in folders : d.year < f.year /\ f.week < d.week
      BY <1>4 DEF Put, OncePerWeek
    <3>1. CASE Week(d) # Week(version_date)
      <4>1. \A e \in SameWeek(d) : bags'[e] = bags[e]
        BY <3>1, <2>2
      <4> QED
        BY <4>1 DEF OncePerWeek
    <3>2. CASE Week(d) = Week(version_date) /\ \A e \in SameWeek(version_date) : bags[e] = 0
      BY <3>2, <2>1, <2>2 DEF TypeOK
    <3>3. CASE Week(d) = Week(version_date)
               /\ \E f \in folders : version_date.year < f.year /\ f.week < version_date.week
      BY <3>3 DEF Week
    <3> QED
      BY <3>1, <3>2, <3>3, <2>1 DEF Licensed
  <2> QED
    BY <2>3, <2>5, <2>6
<1>5. CASE BreakOff
  BY <1>5 DEF BreakOff, TypeOK, ArchiveInv, OncePerWeek, Licensed, Settled
<1>6. CASE UNCHANGED vars
  BY <1>6 DEF vars, TypeOK, ArchiveInv, OncePerWeek, Licensed, Settled
<1> QED
  BY <1>1, <1>2, <1>3, <1>4, <1>5, <1>6 DEF Next

LEMMA Invariance == Spec => []IInv
<1>1. Init => IInv
  BY InitInv
<1>2. IInv /\ [Next]_vars => IInv'
  BY StepInv
<1> QED
  BY <1>1, <1>2, PTL DEF Spec

\* Whatever versions are installed in which order, a week in which a
\* regression succeeded has its bags unless its upload was broken off or its
\* version was older than the archive (upload_bags, lines 633-687).
THEOREM EveryWeekHasBags == Spec => []WeekHasBags
<1>1. IInv => WeekHasBags
  BY DEF IInv, ArchiveInv, WeekHasBags, Settled
<1> QED
  BY <1>1, Invariance, PTL

\* Bags are uploaded twice in a week only of a version of an earlier year than
\* some folder of the archive (the "or" of line 666).
THEOREM TwiceOnlyOfEarlierYear == Spec => []OncePerWeek
<1>1. IInv => OncePerWeek
  BY DEF IInv
<1> QED
  BY <1>1, Invariance, PTL
=============================================================================
