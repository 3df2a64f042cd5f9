--------------------------- MODULE TaskMonitorProofs ---------------------------
(***************************************************************************)
(* Theorems about TaskMonitor, for all tasks, names, contents and bounds.  *)
(* What matters of a route to the list of sums is its name, its number,    *)
(* the task it comes from and that task's text: the ids and the order of   *)
(* the files are the script's, and Stamp, Kill and Edit change nothing     *)
(* else.                                                                   *)
(***************************************************************************)
EXTENDS TaskMonitor, SequenceTheorems, FiniteSetTheorems, WellFoundedInduction, TLAPS

Data(r) == <<r.name, r.nth, r.from, r.text>>
Datas == {Data(routes[i]) : i \in DOMAIN routes}
Named(n) == {k \in Files : k[1] = n}

\* The step that has a current file knows it, and goes on with a wanted one.
ListInv ==
  /\ pc \in {"drop", "note", "strip", "generate", "stamp"} => list \in Task
  /\ pc \in {"strip", "generate", "stamp"} => list \in Wanted

\* No route has a higher number than there are routes.
KeyInv == \A d \in Datas : d[2] <= Len(routes)

\* The newest route of t has this text.
Fresh(t, text) ==
  \E d \in Datas : /\ d[3] = t /\ d[4] = text
                   /\ \A e \in Datas : e[3] = t => e[2] <= d[2]

\* A recorded sum that nothing came between is that of the newest route, or of
\* the file whose route is about to be generated.
SumInv ==
  \A t \in Wanted : ~ missed[t] =>
    /\ (~ BetweenSumAndRoute(t) /\ sums[t] # None) => Fresh(t, sums[t].text)
    /\ (BetweenSumAndRoute(t) /\ file[t] # None) =>
         sums[t] # None /\ sums[t].text = file[t].text

\* The route without an id is the newest file, of the current task and of the
\* text the task file still has, so that it is found.
Own(r) == r.task_id = r.from /\ r.route_id = IdRead[r.text]
Pending(i) ==
  /\ pc = "stamp" /\ i = Len(routes) /\ routes[i].task_id = None
  /\ routes[i].from = list /\ routes[i].name = NameOf[routes[i].text]
  /\ file[list] # None /\ ~ file[list].cr /\ routes[i].text = file[list].text
IdInv == \A i \in DOMAIN routes : Own(routes[i]) \/ routes[i].lost \/ Pending(i)

IInv == TypeOK /\ ListInv /\ KeyInv /\ SumInv /\ IdInv

-----------------------------------------------------------------------------
(* Facts about the operators. *)

\* A set of numbers up to a bound has a greatest member.
LEMMA GreatestNat ==
  ASSUME NEW n \in Nat, NEW S \in SUBSET (1..n), S # {}
  PROVE  Max(S) \in S /\ \A q \in S : q <= Max(S)
<1> DEFINE D == {n - q : q \in S}
<1>1. D \in SUBSET Nat /\ D # {}
  <2>1. \A q \in S : n - q \in Nat
    OBVIOUS
  <2> QED BY <2>1
<1>2. PICK p \in D : \A q \in D : ~ (<<q, p>> \in OpToRel(<, Nat))
  BY <1>1, NatLessThanWellFounded, WFMin
<1>3. PICK m \in S : p = n - m
  OBVIOUS
<1>4. ASSUME NEW q \in S PROVE m >= q
  <2>1. n - q \in D /\ n - q \in Nat /\ n - m \in Nat
    OBVIOUS
  <2>2. ~ (n - q < n - m)
    BY <2>1, <1>2, <1>3 DEF OpToRel
  <2> QED BY <2>2
<1>5. \E x \in S : \A y \in S : x >= y
  BY <1>4
<1>6. Max(S) \in S /\ \A y \in S : Max(S) >= y
  BY <1>5 DEF Max
<1> QED BY <1>6

\* A member taken out of a sequence and another put at its end.
Moved(s, i, x) == SubSeq(s, 1, i - 1) \o SubSeq(s, i + 1, Len(s)) \o <<x>>

LEMMA MoveToEnd ==
  ASSUME NEW S, NEW s \in Seq(S), NEW i \in 1..Len(s), NEW x \in S
  PROVE  /\ Moved(s, i, x) \in Seq(S) /\ Len(Moved(s, i, x)) = Len(s)
         /\ \A k \in 1..Len(s) : Moved(s, i, x)[k] =
                IF k < i THEN s[k] ELSE IF k < Len(s) THEN s[k + 1] ELSE x
<1> DEFINE a == SubSeq(s, 1, i - 1)
           b == SubSeq(s, i + 1, Len(s))
           n == Len(s)
           r == Moved(s, i, x)
<1>0. n \in Nat /\ i \in Nat /\ i <= n /\ 1 <= i
  OBVIOUS
<1>1. \A k \in 1..n : s[k] \in S
  OBVIOUS
<1>2. a \in Seq(S) /\ Len(a) = i - 1 /\ \A k \in 1..(i - 1) : a[k] = s[k]
  <2>1. \A k \in 1..(i - 1) : s[k] \in S
    BY <1>0, <1>1
  <2>2. /\ a \in Seq(S) /\ Len(a) = IF 1 <= i - 1 THEN i - 1 - 1 + 1 ELSE 0
        /\ \A k \in 1..(i - 1 - 1 + 1) : a[k] = s[1 + k - 1]
    BY <2>1, <1>0, SubSeqProperties
  <2> QED BY <2>2, <1>0
<1>3. b \in Seq(S) /\ Len(b) = n - i /\ \A k \in 1..(n - i) : b[k] = s[i + k]
  <2>1. \A k \in (i + 1)..n : s[k] \in S
    BY <1>0, <1>1
  <2>2. /\ b \in Seq(S) /\ Len(b) = IF i + 1 <= n THEN n - (i + 1) + 1 ELSE 0
        /\ \A k \in 1..(n - (i + 1) + 1) : b[k] = s[i + 1 + k - 1]
    BY <2>1, <1>0, SubSeqProperties
  <2> QED BY <2>2, <1>0
<1> DEFINE c == a \o b
<1> HIDE DEF a, b
<1>4. /\ c \in Seq(S) /\ Len(c) = n - 1
      /\ \A k \in 1..(n - 1) : c[k] = IF k <= i - 1 THEN a[k] ELSE b[k - (i - 1)]
  <2>1. /\ c \in Seq(S) /\ Len(c) = Len(a) + Len(b)
        /\ \A k \in 1..(Len(a) + Len(b)) : c[k] = IF k <= Len(a) THEN a[k] ELSE b[k - Len(a)]
    BY <1>2, <1>3, ConcatProperties
  <2>2. Len(a) + Len(b) = n - 1
    BY <1>0, <1>2, <1>3
  <2> QED BY <2>1, <2>2, <1>2
<1>5. \A k \in 1..(n - 1) : c[k] = IF k < i THEN s[k] ELSE s[k + 1]
  <2> SUFFICES ASSUME NEW k \in 1..(n - 1)
               PROVE  c[k] = IF k < i THEN s[k] ELSE s[k + 1]
    OBVIOUS
  <2>1. CASE k < i
    <3>1. k \in 1..(i - 1) /\ k <= i - 1
      BY <2>1, <1>0
    <3> QED BY <3>1, <2>1, <1>4, <1>2
  <2>2. CASE ~ (k < i)
    <3>1. k - (i - 1) \in 1..(n - i) /\ ~ (k <= i - 1) /\ i + (k - (i - 1)) = k + 1
      BY <2>2, <1>0
    <3>2. c[k] = b[k - (i - 1)]
      BY <3>1, <1>4
    <3> QED BY <3>1, <3>2, <2>2, <1>3
  <2> QED BY <2>1, <2>2
<1> DEFINE e == <<x>>
<1>6. e \in Seq(S) /\ Len(e) = 1 /\ e[1] = x
  OBVIOUS
<1> HIDE DEF c, e, r
<1>7. r = c \o e
  BY DEF a, b, c, e, r, Moved
<1>8. /\ r \in Seq(S) /\ Len(r) = Len(c) + Len(e)
      /\ \A k \in 1..(Len(c) + Len(e)) : r[k] = IF k <= Len(c) THEN c[k] ELSE e[k - Len(c)]
  BY <1>4, <1>6, <1>7, ConcatProperties
<1>9. Len(r) = n
  BY <1>0, <1>4, <1>6, <1>8
<1>10. \A k \in 1..n : r[k] = IF k <= n - 1 THEN c[k] ELSE x
  <2> SUFFICES ASSUME NEW k \in 1..n PROVE r[k] = IF k <= n - 1 THEN c[k] ELSE x
    OBVIOUS
  <2>1. k \in 1..(Len(c) + Len(e))
    BY <1>0, <1>4, <1>6
  <2>2. CASE k <= n - 1
    BY <2>1, <2>2, <1>8, <1>4
  <2>3. CASE ~ (k <= n - 1)
    <3>1. k - Len(c) = 1 /\ ~ (k <= Len(c))
      BY <2>3, <1>0, <1>4
    <3> QED BY <3>1, <2>1, <2>3, <1>8, <1>6
  <2> QED BY <2>2, <2>3
<1>11. \A k \in 1..n : r[k] = IF k < i THEN s[k] ELSE IF k < n THEN s[k + 1] ELSE x
  <2> SUFFICES ASSUME NEW k \in 1..n
               PROVE  r[k] = IF k < i THEN s[k] ELSE IF k < n THEN s[k + 1] ELSE x
    OBVIOUS
  <2>1. CASE k <= n - 1
    <3>1. k \in 1..(n - 1) /\ k < n
      BY <2>1, <1>0
    <3> QED BY <3>1, <2>1, <1>10, <1>5
  <2>2. CASE ~ (k <= n - 1)
    <3>1. k = n /\ ~ (k < i) /\ ~ (k < n)
      BY <2>2, <1>0
    <3> QED BY <3>1, <2>2, <1>10
  <2> QED BY <2>1, <2>2
<1> QED BY <1>8, <1>9, <1>11 DEF r

LEMMA FilesFinite ==
  ASSUME routes \in Seq(Route)
  PROVE  IsFiniteSet(Files) /\ \A n : IsFiniteSet(Named(n)) /\ Cardinality(Named(n)) \in Nat
<1> DEFINE f == [i \in 1..Len(routes) |-> Key(routes[i])]
<1>1. Len(routes) \in Nat /\ DOMAIN routes = 1..Len(routes)
  OBVIOUS
<1>2. f \in Surjection(1..Len(routes), Files)
  BY <1>1 DEF Surjection, Files
<1>3. IsFiniteSet(1..Len(routes))
  BY <1>1, FS_Interval
<1>4. IsFiniteSet(Files)
  BY <1>2, <1>3, FS_Surjection
<1>5. ASSUME NEW n PROVE IsFiniteSet(Named(n)) /\ Cardinality(Named(n)) \in Nat
  <2>1. Named(n) \in SUBSET Files
    BY DEF Named
  <2>2. IsFiniteSet(Named(n))
    BY <2>1, <1>4, FS_Subset
  <2> QED BY <2>2, FS_CardinalityType
<1> QED BY <1>4, <1>5

-----------------------------------------------------------------------------
(* Type correctness, and what each step does to the routes. *)

LEMMA StampedRoute ==
  ASSUME TypeOK, NEW r \in Route, list \in Task
  PROVE  Stamped(r) \in Route /\ Data(Stamped(r)) = Data(r)
<1> DEFINE id == IF file[list] = None THEN None ELSE IdRead[file[list].text]
<1>1. id \in Name \cup {None}
  <2>1. file[list] # None => file[list].text \in Text
    BY DEF TypeOK, Content
  <2>2. \A x \in Text : IdRead[x] \in Name \cup {None}
    BY MonitorAssumption DEF Name
  <2> QED BY <2>1, <2>2
<1>2. Stamped(r) = IF r.task_id # None THEN r ELSE [r EXCEPT !.task_id = list, !.route_id = id]
  BY DEF Stamped
<1> HIDE DEF id
<1> QED BY <1>1, <1>2 DEF Route, Data

\* Stamp moves one of the found files to the end and may write its id.
LEMMA StampMoves ==
  ASSUME TypeOK, ListInv, Stamp, Found # {}
  PROVE  LET m == Max(Found)
             r == Stamped(routes[m])
         IN  /\ m \in Found /\ m \in 1..Len(routes) /\ \A q \in Found : q <= m
             /\ r \in Route /\ Data(r) = Data(routes[m])
             /\ routes' \in Seq(Route) /\ Len(routes') = Len(routes)
             /\ \A k \in 1..Len(routes) :
                  routes'[k] = IF k < m THEN routes[k]
                               ELSE IF k < Len(routes) THEN routes[k + 1] ELSE r
<1> DEFINE m == Max(Found)
           r == Stamped(routes[m])
<1>1. Len(routes) \in Nat /\ routes \in Seq(Route) /\ Found \in SUBSET (1..Len(routes))
  BY DEF TypeOK, Found
<1>2. m \in Found /\ \A q \in Found : q <= m
  BY <1>1, GreatestNat
<1>3. m \in 1..Len(routes)
  BY <1>1, <1>2
<1>4. r \in Route /\ Data(r) = Data(routes[m])
  BY <1>1, <1>3, StampedRoute DEF Stamp, ListInv
<1>5. routes' = Moved(routes, m, r)
  BY DEF Stamp, Moved
<1> HIDE DEF m, r
<1>6. /\ routes' \in Seq(Route) /\ Len(routes') = Len(routes)
      /\ \A k \in 1..Len(routes) :
           routes'[k] = IF k < m THEN routes[k]
                        ELSE IF k < Len(routes) THEN routes[k + 1] ELSE r
  <2> DEFINE s == Moved(routes, m, r)
  <2>1. /\ s \in Seq(Route) /\ Len(s) = Len(routes)
        /\ \A k \in 1..Len(routes) :
             s[k] = IF k < m THEN routes[k]
                    ELSE IF k < Len(routes) THEN routes[k + 1] ELSE r
    BY <1>1, <1>3, <1>4, MoveToEnd
  <2> QED BY <2>1, <1>5
<1> QED BY <1>2, <1>3, <1>4, <1>6 DEF m, r

LEMMA NewRouteTyped ==
  ASSUME TypeOK, list \in Task, file[list] # None
  PROVE  NewRoute \in Route
<1>1. file[list] \in Content
  BY DEF TypeOK
<1>2. file[list].text \in Text /\ file[list].cr \in BOOLEAN
  BY <1>1 DEF Content
<1>3. Cardinality({k \in Files : k[1] = NameOf[file[list].text]}) \in Nat
  BY FilesFinite DEF TypeOK, Named
<1>4. NameOf[file[list].text] \in Name
  BY <1>2 DEF Name
<1>5. Len(routes) + 1 \in Nat
  BY DEF TypeOK
<1> QED BY <1>2, <1>3, <1>4, <1>5 DEF NewRoute, Route

\* Abandoned changes nothing but lost.
LEMMA AbandonedRoutes ==
  ASSUME TypeOK
  PROVE  /\ Abandoned \in Seq(Route) /\ Len(Abandoned) = Len(routes)
         /\ DOMAIN Abandoned = DOMAIN routes
         /\ \A i \in DOMAIN routes :
              /\ Data(Abandoned[i]) = Data(routes[i])
              /\ Abandoned[i] = [routes[i] EXCEPT !.lost = routes[i].lost \/ (pc = "stamp" /\ routes[i].task_id = None)]
              /\ Abandoned[i].task_id = routes[i].task_id /\ Own(Abandoned[i]) = Own(routes[i])
              /\ Abandoned[i].lost = (routes[i].lost \/ (pc = "stamp" /\ routes[i].task_id = None))
<1>1. Len(routes) \in Nat /\ DOMAIN routes = 1..Len(routes) /\ \A i \in DOMAIN routes : routes[i] \in Route
  BY DEF TypeOK
<1>2. DOMAIN Abandoned = DOMAIN routes
  BY DEF Abandoned
<1>3. ASSUME NEW i \in DOMAIN routes
      PROVE  LET r == Abandoned[i]
                 b == routes[i].lost \/ (pc = "stamp" /\ routes[i].task_id = None)
             IN  /\ r \in Route /\ r = [routes[i] EXCEPT !.lost = b]
                 /\ Data(r) = Data(routes[i]) /\ r.task_id = routes[i].task_id
                 /\ Own(r) = Own(routes[i]) /\ r.lost = b
  <2> DEFINE b == routes[i].lost \/ (pc = "stamp" /\ routes[i].task_id = None)
  <2>1. Abandoned[i] = [routes[i] EXCEPT !.lost = b] /\ routes[i] \in Route
    BY <1>1 DEF Abandoned
  <2>2. b \in BOOLEAN
    OBVIOUS
  <2> HIDE DEF b
  <2>3. Abandoned[i] \in Route /\ Abandoned[i].lost = b
    BY <2>1, <2>2 DEF Route
  <2>4. /\ Abandoned[i].task_id = routes[i].task_id /\ Abandoned[i].route_id = routes[i].route_id
        /\ Abandoned[i].from = routes[i].from /\ Abandoned[i].text = routes[i].text
        /\ Abandoned[i].name = routes[i].name /\ Abandoned[i].nth = routes[i].nth
    BY <2>1 DEF Route
  <2> QED BY <2>1, <2>3, <2>4 DEF Data, Own, b
<1>4. Abandoned \in Seq(Route)
  <2>1. \A i \in 1..Len(routes) : Abandoned[i] \in Route
    BY <1>1, <1>3
  <2>2. Abandoned = [i \in 1..Len(routes) |-> Abandoned[i]]
    BY <1>1 DEF Abandoned
  <2> HIDE DEF Abandoned
  <2> QED BY <1>1, <2>1, <2>2
<1>5. Len(Abandoned) = Len(routes)
  BY <1>1, <1>2, <1>4
<1> QED BY <1>2, <1>3, <1>4, <1>5

LEMMA TypedStep == TypeOK /\ ListInv /\ [Next]_vars => TypeOK' /\ ListInv'
<1> SUFFICES ASSUME TypeOK, ListInv, [Next]_vars PROVE TypeOK' /\ ListInv'
  OBVIOUS
<1> USE MonitorAssumption
<1>1. CASE Start
  BY <1>1 DEF Start, TypeOK, ListInv, Without, Present
<1>2. ASSUME NEW t \in Task, Look(t) PROVE TypeOK' /\ ListInv'
  BY <1>2 DEF Look, TypeOK, ListInv
<1>3. CASE Drop
  BY <1>3 DEF Drop, TypeOK, ListInv, Without
<1>4. CASE Note
  BY <1>4 DEF Note, TypeOK, ListInv
<1>5. CASE Strip
  <2>1. list \in Task /\ (file[list] # None => file[list] \in Content)
    BY <1>5 DEF Strip, TypeOK, ListInv
  <2>2. file[list] # None => [file[list] EXCEPT !.cr = FALSE] \in Content
    BY <2>1 DEF Content
  <2>3. file' \in [Task -> Content \cup {None}]
    BY <1>5, <2>1, <2>2 DEF Strip, TypeOK
  <2> QED BY <1>5, <2>3 DEF Strip, TypeOK, ListInv
<1>6. CASE Generate
  <2>1. list \in Task /\ file[list] # None
    BY <1>6 DEF Generate, ListInv
  <2>2. routes' \in Seq(Route)
    BY <1>6, <2>1, NewRouteTyped DEF Generate, TypeOK
  <2> QED BY <1>6, <2>2 DEF Generate, TypeOK, ListInv
<1>7. CASE GenerateFails
  BY <1>7 DEF GenerateFails, Trouble, TypeOK, ListInv
<1>8. CASE Stamp
  <2>1. routes' \in Seq(Route)
    <3>1. CASE Found = {}
      BY <1>8, <3>1 DEF Stamp, TypeOK
    <3>2. CASE Found # {}
      BY <1>8, <3>2, StampMoves
    <3> QED BY <3>1, <3>2
  <2> QED BY <1>8, <2>1 DEF Stamp, TypeOK, ListInv
<1>9. CASE Upload
  <2>1. Files \subseteq Name \X Nat
    <3>1. \A i \in DOMAIN routes : routes[i] \in Route
      BY DEF TypeOK
    <3>2. \A i \in DOMAIN routes : Key(routes[i]) \in Name \X Nat
      BY <3>1 DEF Key, Route
    <3> QED BY <3>2 DEF Files
  <2> QED BY <1>9, <2>1 DEF Upload, Trouble, TypeOK, ListInv
<1>10. CASE Kill
  <2>1. \A t \in Task : (missed[t] \/ BetweenSumAndRoute(t)) \in BOOLEAN
    OBVIOUS
  <2>2. missed' \in [Task -> BOOLEAN]
    BY <1>10, <2>1 DEF Kill
  <2>3. routes' \in Seq(Route)
    BY <1>10, AbandonedRoutes DEF Kill
  <2> QED BY <1>10, <2>2, <2>3 DEF Kill, Trouble, TypeOK, ListInv
<1>11. ASSUME NEW t \in Task, Edit(t) PROVE TypeOK' /\ ListInv'
  <2>1. missed' \in [Task -> BOOLEAN]
    BY <1>11 DEF Edit, TypeOK
  <2>2. file' \in [Task -> Content \cup {None}]
    BY <1>11 DEF Edit, TypeOK
  <2>3. routes' \in Seq(Route)
    BY <1>11, AbandonedRoutes DEF Edit, TypeOK
  <2> QED BY <1>11, <2>1, <2>2, <2>3 DEF Edit, Trouble, TypeOK, ListInv, scriptVars
<1>12. CASE UNCHANGED vars
  BY <1>12 DEF vars, scriptVars, TypeOK, ListInv
<1> QED BY <1>1, <1>2, <1>3, <1>4, <1>5, <1>6, <1>7, <1>8, <1>9, <1>10, <1>11, <1>12 DEF Next, Script

\* Only Generate changes what the list of sums depends on, and it adds one.
LEMMA DataStep ==
  ASSUME TypeOK, ListInv, [Next]_vars
  PROVE  \/ ~ Generate /\ Datas' = Datas /\ Len(routes') = Len(routes)
         \/ Generate /\ Datas' = Datas \cup {Data(NewRoute)} /\ Len(routes') = Len(routes) + 1
<1>0. Len(routes) \in Nat /\ DOMAIN routes = 1..Len(routes)
  BY DEF TypeOK
<1>1. CASE routes' = routes /\ ~ Generate
  BY <1>1 DEF Datas
<1>2. CASE Generate
  <2>1. routes' = Append(routes, NewRoute)
    BY <1>2 DEF Generate
  <2>2. /\ DOMAIN routes' = 1..(Len(routes) + 1)
        /\ \A i \in 1..Len(routes) : routes'[i] = routes[i]
        /\ routes'[Len(routes) + 1] = NewRoute
        /\ Len(routes') = Len(routes) + 1
    <3>1. NewRoute \in Route
      BY <1>2, NewRouteTyped DEF Generate, ListInv
    <3> QED BY <2>1, <3>1, <1>0, AppendProperties DEF TypeOK
  <2>3. \A i \in 1..(Len(routes) + 1) : i \in 1..Len(routes) \/ i = Len(routes) + 1
    BY <1>0
  <2>4. Datas' \subseteq Datas \cup {Data(NewRoute)}
    <3> SUFFICES ASSUME NEW i \in DOMAIN routes'
                 PROVE  Data(routes'[i]) \in Datas \cup {Data(NewRoute)}
      BY DEF Datas, Data
    <3>1. i \in 1..Len(routes) \/ i = Len(routes) + 1
      BY <2>2, <2>3
    <3> QED BY <3>1, <2>2, <1>0 DEF Datas
  <2>5. Datas \subseteq Datas'
    <3> SUFFICES ASSUME NEW i \in DOMAIN routes PROVE Data(routes[i]) \in Datas'
      BY DEF Datas
    <3>1. i \in DOMAIN routes' /\ routes'[i] = routes[i]
      BY <2>2, <1>0
    <3>2. Data(routes'[i]) \in Datas'
      BY <3>1 DEF Datas, Data
    <3> QED BY <3>1, <3>2
  <2>6. Data(NewRoute) \in Datas'
    <3>1. Len(routes) + 1 \in DOMAIN routes'
      BY <2>2, <1>0
    <3>2. Data(routes'[Len(routes) + 1]) \in Datas'
      BY <3>1 DEF Datas, Data
    <3> QED BY <2>2, <3>2
  <2> QED BY <1>2, <2>2, <2>4, <2>5, <2>6
<1>3. CASE Stamp /\ Found # {}
  <2> DEFINE m == Max(Found)
             r == Stamped(routes[m])
  <2>1. /\ m \in 1..Len(routes)
        /\ r \in Route /\ Data(r) = Data(routes[m])
        /\ routes' \in Seq(Route) /\ Len(routes') = Len(routes)
        /\ \A k \in 1..Len(routes) :
             routes'[k] = IF k < m THEN routes[k]
                          ELSE IF k < Len(routes) THEN routes[k + 1] ELSE r
    BY <1>3, StampMoves
  <2> HIDE DEF m, r
  <2>2. DOMAIN routes' = 1..Len(routes)
    BY <2>1
  <2>3. Datas' \subseteq Datas
    <3> SUFFICES ASSUME NEW i \in 1..Len(routes) PROVE Data(routes'[i]) \in Datas
      BY <2>2 DEF Datas, Data
    <3>1. CASE i < m
      BY <3>1, <2>1, <1>0 DEF Datas
    <3>2. CASE ~ (i < m) /\ i < Len(routes)
      <4>1. i + 1 \in DOMAIN routes
        BY <3>2, <1>0
      <4> QED BY <4>1, <3>2, <2>1 DEF Datas
    <3>3. CASE ~ (i < m) /\ ~ (i < Len(routes))
      <4>1. Data(routes[m]) \in Datas
        BY <2>1, <1>0 DEF Datas
      <4> QED BY <4>1, <3>3, <2>1
    <3> QED BY <3>1, <3>2, <3>3
  <2>4. Datas \subseteq Datas'
    <3>0. \A k \in 1..Len(routes) : Data(routes'[k]) \in Datas'
      BY <2>2 DEF Datas, Data
    <3> SUFFICES ASSUME NEW i \in 1..Len(routes) PROVE Data(routes[i]) \in Datas'
      BY <1>0 DEF Datas
    <3>1. CASE i < m
      BY <3>0, <3>1, <2>1
    <3>2. CASE i = m
      <4>1. Len(routes) \in 1..Len(routes) /\ ~ (Len(routes) < m) /\ ~ (Len(routes) < Len(routes))
        BY <2>1, <1>0
      <4>2. routes'[Len(routes)] = r
        BY <4>1, <2>1
      <4>3. Data(routes'[Len(routes)]) = Data(routes[i])
        BY <4>2, <3>2, <2>1
      <4> QED BY <4>1, <4>3, <3>0
    <3>3. CASE i > m
      <4>1. i - 1 \in 1..Len(routes) /\ ~ (i - 1 < m) /\ i - 1 < Len(routes) /\ i - 1 + 1 = i
        BY <3>3, <2>1, <1>0
      <4>2. routes'[i - 1] = routes[i]
        BY <4>1, <2>1
      <4> QED BY <4>1, <4>2, <3>0
    <3> QED BY <3>1, <3>2, <3>3, <2>1, <1>0
  <2> QED BY <2>1, <2>3, <2>4, <1>3 DEF Stamp, Generate
<1>4. CASE routes' = Abandoned /\ ~ Generate
  <2>1. /\ DOMAIN routes' = DOMAIN routes /\ Len(routes') = Len(routes)
        /\ \A i \in DOMAIN routes : Data(routes'[i]) = Data(routes[i])
    BY <1>4, AbandonedRoutes
  <2>2. Datas' = {Data(routes'[i]) : i \in DOMAIN routes'}
    BY DEF Datas, Data
  <2>3. Datas' = Datas
    BY <2>1, <2>2 DEF Datas
  <2> QED BY <1>4, <2>1, <2>3
<1>5. \/ Generate \/ (Stamp /\ Found # {})
      \/ (routes' = Abandoned /\ ~ Generate)
      \/ (routes' = routes /\ ~ Generate)
  <2>1. CASE Kill
    BY <2>1 DEF Kill, Generate
  <2>2. ASSUME NEW t \in Task, Edit(t) PROVE routes' \in {routes, Abandoned} /\ ~ Generate
    BY <2>2 DEF Edit, Generate, scriptVars
  <2> QED BY <2>1, <2>2 DEF Next, Script, Start, Look, Drop, Note, Strip, Generate, GenerateFails, Stamp,
         Upload, vars
<1> QED BY <1>1, <1>2, <1>3, <1>4, <1>5

-----------------------------------------------------------------------------
(* Each part of the invariant is kept. *)

LEMMA DataTyped ==
  ASSUME TypeOK
  PROVE  \A d \in Datas : /\ d = <<d[1], d[2], d[3], d[4]>>
                          /\ d[1] \in Name /\ d[2] \in Nat /\ d[3] \in Task /\ d[4] \in Text
<1>1. \A i \in DOMAIN routes : routes[i] \in Route
  BY DEF TypeOK
<1> QED BY <1>1 DEF Datas, Data, Route

\* The data of a route that is about to be generated: its number is new.
LEMMA NewData ==
  ASSUME TypeOK, KeyInv, list \in Task, file[list] # None
  PROVE  /\ Data(NewRoute) = <<NameOf[file[list].text], Len(routes) + 1, list, file[list].text>>
         /\ Len(routes) \in Nat
         /\ \A d \in Datas : d[2] < Len(routes) + 1
<1>1. Data(NewRoute) = <<NameOf[file[list].text], Len(routes) + 1, list, file[list].text>>
  BY DEF NewRoute, Data
<1>2. Len(routes) \in Nat
  BY DEF TypeOK
<1>3. \A d \in Datas : d[2] < Len(routes) + 1
  BY <1>2, DataTyped DEF KeyInv
<1> QED BY <1>1, <1>2, <1>3

LEMMA KeyStep == TypeOK /\ ListInv /\ KeyInv /\ [Next]_vars => KeyInv'
<1> SUFFICES ASSUME TypeOK, ListInv, KeyInv, [Next]_vars PROVE KeyInv'
  OBVIOUS
<1>1. CASE Datas' = Datas /\ Len(routes') = Len(routes)
  BY <1>1 DEF KeyInv
<1>2. CASE Generate /\ Datas' = Datas \cup {Data(NewRoute)} /\ Len(routes') = Len(routes) + 1
  <2>1. list \in Task /\ file[list] # None
    BY <1>2 DEF Generate, ListInv
  <2>2. Len(routes) \in Nat /\ Data(NewRoute)[2] = Len(routes) + 1
    BY <2>1, NewData
  <2>3. \A d \in Datas : d[2] \in Nat /\ d[2] <= Len(routes)
    BY DataTyped DEF KeyInv
  <2>4. \A d \in Datas' : d[2] <= Len(routes')
    BY <1>2, <2>2, <2>3
  <2> QED BY <2>4 DEF KeyInv
<1> QED BY <1>1, <1>2, DataStep

\* The newest route of a task stays its newest until the task is generated.
LEMMA FreshStays ==
  ASSUME TypeOK, ListInv, [Next]_vars, NEW t, NEW text, Fresh(t, text), ~ (Generate /\ list = t)
  PROVE  Fresh(t, text)'
<1>1. CASE Datas' = Datas
  BY <1>1 DEF Fresh
<1>2. CASE Generate /\ Datas' = Datas \cup {Data(NewRoute)}
  <2>1. Data(NewRoute)[3] = list /\ list # t
    BY <1>2 DEF Data, NewRoute
  <2> QED BY <1>2, <2>1 DEF Fresh
<1> QED BY <1>1, <1>2, DataStep

LEMMA SumStep == TypeOK /\ ListInv /\ KeyInv /\ SumInv /\ [Next]_vars => SumInv'
<1> SUFFICES ASSUME TypeOK, ListInv, KeyInv, SumInv, [Next]_vars,
                    NEW t \in Wanted, ~ missed'[t]
             PROVE  /\ (~ BetweenSumAndRoute(t)' /\ sums'[t] # None) => Fresh(t, sums[t].text)'
                    /\ (BetweenSumAndRoute(t)' /\ file'[t] # None) =>
                         sums'[t] # None /\ sums'[t].text = file'[t].text
  BY DEF SumInv, Fresh, BetweenSumAndRoute
<1> USE MonitorAssumption
<1>t. t \in Task
  OBVIOUS
\* A step that takes t neither into the window nor out of it.
<1>0. ASSUME ~ missed[t], BetweenSumAndRoute(t)' <=> BetweenSumAndRoute(t),
             sums'[t] \in {sums[t], None}, ~ Generate,
             BetweenSumAndRoute(t) => sums'[t] = sums[t] /\ (file'[t] # None =>
                                        file[t] # None /\ file'[t].text = file[t].text)
      PROVE  /\ (~ BetweenSumAndRoute(t)' /\ sums'[t] # None) => Fresh(t, sums[t].text)'
             /\ (BetweenSumAndRoute(t)' /\ file'[t] # None) =>
                  sums'[t] # None /\ sums'[t].text = file'[t].text
  <2>1. CASE BetweenSumAndRoute(t)
    BY <1>0, <2>1 DEF SumInv
  <2>2. CASE ~ BetweenSumAndRoute(t) /\ sums'[t] # None
    <3>1. sums'[t] = sums[t] /\ Fresh(t, sums[t].text)
      BY <1>0, <2>2 DEF SumInv
    <3>2. \A x : Fresh(t, x) => Fresh(t, x)'
      BY <1>0, FreshStays
    <3>3. Fresh(t, sums[t].text)'
      BY <3>1, <3>2 DEF Fresh
    <3> QED BY <1>0, <2>2, <3>3
  <2>3. CASE ~ BetweenSumAndRoute(t) /\ sums'[t] = None
    BY <1>0, <2>3
  <2> QED BY <2>1, <2>2, <2>3
<1>1. CASE Start
  BY <1>0, <1>1, <1>t DEF Start, Generate, BetweenSumAndRoute, Without, TypeOK
<1>2. ASSUME NEW u \in Task, Look(u)
      PROVE  /\ (~ BetweenSumAndRoute(t)' /\ sums'[t] # None) => Fresh(t, sums[t].text)'
             /\ (BetweenSumAndRoute(t)' /\ file'[t] # None) =>
                  sums'[t] # None /\ sums'[t].text = file'[t].text
  BY <1>0, <1>2 DEF Look, Generate, BetweenSumAndRoute
<1>3. CASE Drop
  BY <1>0, <1>3, <1>t DEF Drop, Generate, BetweenSumAndRoute, Without, TypeOK
<1>4. CASE Note
  <2>1. CASE t = list
    <3>1. BetweenSumAndRoute(t)' /\ file' = file
      BY <1>4, <2>1 DEF Note, BetweenSumAndRoute
    <3>2. file[t] # None => sums'[t] = file[t]
      BY <1>4, <2>1, <1>t DEF Note, TypeOK
    <3> QED BY <3>1, <3>2
  <2>2. CASE t # list
    <3>1. sums'[t] = sums[t] /\ missed'[t] = missed[t] /\ file' = file
      BY <1>4, <2>2, <1>t DEF Note, TypeOK
    <3>2. ~ BetweenSumAndRoute(t)' /\ ~ BetweenSumAndRoute(t) /\ ~ Generate
      BY <1>4, <2>2 DEF Note, BetweenSumAndRoute, Generate
    <3>3. ~ missed[t]
      BY <3>1
    <3> QED BY <1>0, <3>1, <3>2, <3>3
  <2> QED BY <2>1, <2>2
<1>5. CASE Strip
  <2>1. file'[t] # None => file[t] # None /\ file'[t].text = file[t].text
    <3>1. file[t] \in Content \cup {None} /\ file[list] \in Content \cup {None}
      BY <1>t, <1>5 DEF TypeOK, ListInv, Strip
    <3>2. CASE t = list /\ file[list] # None
      <4>1. file'[t] = [file[t] EXCEPT !.cr = FALSE] /\ file[t] \in Content
        BY <3>1, <3>2, <1>5, <1>t DEF Strip, TypeOK
      <4> QED BY <4>1, <3>2 DEF Content
    <3>3. CASE ~ (t = list /\ file[list] # None)
      BY <3>3, <1>5, <1>t DEF Strip, TypeOK
    <3> QED BY <3>2, <3>3
  <2> QED BY <1>0, <1>5, <2>1 DEF Strip, Generate, BetweenSumAndRoute
<1>6. CASE Generate
  <2>1. sums' = sums /\ missed' = missed /\ file' = file /\ ~ BetweenSumAndRoute(t)'
    BY <1>6 DEF Generate, BetweenSumAndRoute
  <2>2. CASE t = list
    <3>1. file[t] # None /\ sums[t] # None /\ sums[t].text = file[t].text
      BY <1>6, <2>1, <2>2 DEF Generate, BetweenSumAndRoute, SumInv
    <3> DEFINE d == Data(NewRoute)
    <3>2. /\ d[3] = t /\ d[4] = file[t].text /\ d[2] \in Nat
          /\ \A e \in Datas : e[3] = t => e[2] < d[2]
      BY <2>2, <3>1, <1>t, NewData
    <3>3. \A e \in Datas : e[3] = t => e[2] <= d[2]
      <4>1. \A e \in Datas : e[2] \in Nat
        BY DataTyped
      <4> QED BY <4>1, <3>2
    <3>4. d[2] <= d[2]
      BY <3>2
    <3>5. Datas' = Datas \cup {d}
      BY <1>6, DataStep
    <3> HIDE DEF d
    <3>6. \E x \in Datas' : /\ x[3] = t /\ x[4] = sums[t].text
                            /\ \A e \in Datas' : e[3] = t => e[2] <= x[2]
      BY <3>1, <3>2, <3>3, <3>4, <3>5
    <3>7. Fresh(t, sums[t].text)'
      BY <3>6, <2>1 DEF Fresh
    <3> QED BY <2>1, <3>7
  <2>3. CASE t # list
    <3>1. \A x : Fresh(t, x) => Fresh(t, x)'
      BY <2>3, FreshStays
    <3>2. ~ missed[t] /\ ~ BetweenSumAndRoute(t)
      BY <2>1, <2>3 DEF BetweenSumAndRoute
    <3>3. sums[t] # None => Fresh(t, sums[t].text)
      BY <3>2 DEF SumInv
    <3>4. sums[t] # None => Fresh(t, sums[t].text)'
      BY <3>1, <3>3, <2>1 DEF Fresh
    <3> QED BY <2>1, <3>4
  <2> QED BY <2>2, <2>3
<1>7. CASE GenerateFails
  <2>1. t # list
    BY <1>7, <1>t DEF GenerateFails, TypeOK
  <2>2. missed'[t] = missed[t] /\ file' = file /\ sums' = sums
    BY <2>1, <1>7, <1>t DEF GenerateFails, TypeOK
  <2>3. ~ BetweenSumAndRoute(t)' /\ ~ BetweenSumAndRoute(t)
    BY <1>7, <2>1 DEF GenerateFails, BetweenSumAndRoute
  <2>4. ~ Generate
    BY <1>7 DEF GenerateFails, Generate
  <2> QED BY <1>0, <2>2, <2>3, <2>4
<1>8. CASE Stamp
  BY <1>0, <1>8 DEF Stamp, Generate, BetweenSumAndRoute
<1>9. CASE Upload
  BY <1>0, <1>9 DEF Upload, Generate, BetweenSumAndRoute
<1>10. CASE Kill
  <2>1. missed'[t] = (missed[t] \/ BetweenSumAndRoute(t))
    BY <1>10, <1>t DEF Kill
  <2>2. ~ missed[t] /\ ~ BetweenSumAndRoute(t)
    BY <2>1
  <2>3. ~ BetweenSumAndRoute(t)' /\ ~ Generate /\ sums' = sums
    BY <1>10 DEF Kill, BetweenSumAndRoute, Generate
  <2> QED BY <1>0, <2>2, <2>3
<1>11. ASSUME NEW u \in Task, Edit(u)
       PROVE  /\ (~ BetweenSumAndRoute(t)' /\ sums'[t] # None) => Fresh(t, sums[t].text)'
              /\ (BetweenSumAndRoute(t)' /\ file'[t] # None) =>
                   sums'[t] # None /\ sums'[t].text = file'[t].text
  <2>1. sums' = sums /\ BetweenSumAndRoute(t)' = BetweenSumAndRoute(t)
    BY <1>11 DEF Edit, BetweenSumAndRoute, scriptVars
  <2>2. ~ Generate
    <3>1. ASSUME Generate PROVE FALSE
      <4>1. pc' = "stamp" /\ pc = "generate"
        BY <3>1 DEF Generate
      <4> QED BY <4>1, <1>11 DEF Edit, scriptVars
    <3> QED BY <3>1
  <2>3. CASE t = u
    <3>1. missed'[t] = (missed[t] \/ BetweenSumAndRoute(t))
      BY <1>11, <2>3, <1>t DEF Edit, TypeOK
    <3>2. ~ missed[t] /\ ~ BetweenSumAndRoute(t)
      BY <3>1
    <3> QED BY <1>0, <2>1, <2>2, <3>2
  <2>4. CASE t # u
    <3>1. missed'[t] = missed[t] /\ file'[t] = file[t]
      BY <1>11, <2>4, <1>t DEF Edit, TypeOK
    <3>2. ~ missed[t]
      BY <3>1
    <3> QED BY <1>0, <2>1, <2>2, <3>1, <3>2
  <2> QED BY <2>3, <2>4
<1>12. CASE UNCHANGED vars
  <2>1. ~ Generate
    BY <1>12 DEF Generate, vars, scriptVars
  <2> QED BY <1>0, <1>12, <2>1 DEF vars, scriptVars, BetweenSumAndRoute
<1> QED BY <1>1, <1>2, <1>3, <1>4, <1>5, <1>6, <1>7, <1>8, <1>9, <1>10, <1>11, <1>12 DEF Next, Script

LEMMA IdStep == TypeOK /\ ListInv /\ IdInv /\ [Next]_vars => IdInv'
<1> SUFFICES ASSUME TypeOK, ListInv, IdInv, [Next]_vars PROVE IdInv'
  OBVIOUS
<1> USE MonitorAssumption
<1> DEFINE Good(r) == Own(r) \/ r.lost
<1>0. Len(routes) \in Nat /\ DOMAIN routes = 1..Len(routes)
  BY DEF TypeOK
\* Away from "stamp" every route is settled, and stays so.
<1>1. CASE routes' = routes /\ pc # "stamp"
  <2>1. \A i \in DOMAIN routes : Good(routes[i])
    BY <1>1 DEF IdInv, Pending
  <2> QED BY <1>1, <2>1 DEF IdInv, Own
<1>2. CASE routes' = routes /\ pc' = pc /\ list' = list /\ file'[list] = file[list]
  <2>1. \A i \in DOMAIN routes : Pending(i) => Pending(i)'
    BY <1>2 DEF Pending
  <2>2. \A i \in DOMAIN routes : Own(routes[i]) = Own(routes'[i])
    BY <1>2
  <2> QED BY <1>2, <2>1, <2>2 DEF IdInv, Own
<1>3. CASE Generate
  <2>1. routes' = Append(routes, NewRoute) /\ pc' = "stamp" /\ list' = list /\ pc = "generate"
    BY <1>3 DEF Generate
  <2> PICK n \in Nat : n = Len(routes) + 1
    BY <1>0
  <2>2. /\ DOMAIN routes' = 1..n /\ Len(routes') = n
        /\ \A i \in 1..Len(routes) : routes'[i] = routes[i]
        /\ routes'[n] = NewRoute
    <3>1. NewRoute \in Route
      BY <1>3, NewRouteTyped DEF Generate, ListInv
    <3> QED BY <2>1, <3>1, <1>0, AppendProperties DEF TypeOK
  <2>3. Pending(n)' \/ routes'[n].lost
    <3>1. file' = file /\ file[list] # None /\ file[list] \in Content
      BY <1>3 DEF Generate, ListInv, TypeOK
    <3>2. file[list].cr \in BOOLEAN
      BY <3>1 DEF Content
    <3>3. /\ NewRoute.task_id = None /\ NewRoute.from = list /\ NewRoute.text = file[list].text
          /\ NewRoute.name = NameOf[NewRoute.text] /\ NewRoute.lost = file[list].cr
      BY DEF NewRoute
    <3> QED BY <2>1, <2>2, <3>1, <3>2, <3>3 DEF Pending
  <2>4. \A i \in DOMAIN routes : Good(routes[i])
    BY <2>1 DEF IdInv, Pending
  <2>5. \A i \in 1..n : i \in 1..Len(routes) \/ i = n
    BY <1>0
  <2>6. ASSUME NEW i \in DOMAIN routes'
        PROVE  Own(routes'[i]) \/ routes'[i].lost \/ Pending(i)'
    <3>1. CASE i \in 1..Len(routes)
      BY <3>1, <2>2, <2>4, <1>0
    <3>2. CASE i = n
      BY <3>2, <2>3 DEF Pending
    <3> QED BY <3>1, <3>2, <2>2, <2>5
  <2> QED BY <2>6 DEF IdInv, Own
<1>4. CASE Stamp
  <2>0. list \in Task /\ pc = "stamp" /\ pc' = "look"
    BY <1>4 DEF Stamp, ListInv
  <2>1. \A i \in DOMAIN routes : Pending(i) => i \in Found
    <3>1. file[list] # None => file[list].text \in Text
      BY <2>0 DEF TypeOK, Content
    <3> QED BY <3>1 DEF Pending, Found
  <2>2. CASE Found = {}
    <3>1. routes' = routes
      BY <1>4, <2>2 DEF Stamp
    <3>2. \A i \in DOMAIN routes : Good(routes[i])
      BY <2>1, <2>2 DEF IdInv
    <3> QED BY <3>1, <3>2 DEF IdInv, Own
  <2>3. CASE Found # {}
    <3> DEFINE m == Max(Found)
               r == Stamped(routes[m])
    <3>1. /\ m \in Found /\ m \in 1..Len(routes) /\ \A q \in Found : q <= m
          /\ routes' \in Seq(Route) /\ Len(routes') = Len(routes)
          /\ \A k \in 1..Len(routes) :
               routes'[k] = IF k < m THEN routes[k]
                            ELSE IF k < Len(routes) THEN routes[k + 1] ELSE r
      BY <1>4, <2>3, StampMoves
    <3> HIDE DEF m
    <3>2. \A i \in 1..Len(routes) : Pending(i) => i = m
      <4> SUFFICES ASSUME NEW i \in 1..Len(routes), Pending(i) PROVE i = m
        OBVIOUS
      <4>1. i \in Found /\ i = Len(routes)
        BY <2>1, <1>0 DEF Pending
      <4>2. i <= m
        BY <4>1, <3>1
      <4> QED BY <4>1, <4>2, <3>1, <1>0
    <3>3. \A i \in 1..Len(routes) : i # m => Good(routes[i])
      BY <3>2, <1>0 DEF IdInv
    <3>4. Good(r)
      <4>1. routes[m] \in Route
        BY <3>1, <1>0 DEF TypeOK
      <4>2. CASE Pending(m)
        <5>1. /\ r = [routes[m] EXCEPT !.task_id = list, !.route_id = IdRead[file[list].text]]
              /\ routes[m].from = list /\ routes[m].text = file[list].text
          BY <4>2 DEF Stamped, Pending
        <5>2. /\ r.task_id = list /\ r.from = list
              /\ r.route_id = IdRead[r.text]
          BY <4>1, <5>1 DEF Route
        <5> QED BY <5>2 DEF Own
      <4>3. CASE routes[m].lost
        <5>1. r.lost = routes[m].lost
          BY <4>1 DEF Route, Stamped
        <5> QED BY <4>3, <5>1
      <4>4. CASE Own(routes[m])
        <5>1. routes[m].task_id # None
          BY <4>1, <4>4 DEF Route, Own
        <5> QED BY <4>4, <5>1 DEF Stamped
      <4> QED BY <4>2, <4>3, <4>4, <3>1, <1>0 DEF IdInv
    <3> HIDE DEF r, Good
    <3>5. ASSUME NEW k \in 1..Len(routes) PROVE Good(routes'[k])
      <4>1. CASE k < m
        <5>1. k # m
          BY <4>1, <3>1
        <5> QED BY <4>1, <5>1, <3>1, <3>3
      <4>2. CASE ~ (k < m) /\ k < Len(routes)
        <5>1. k + 1 \in 1..Len(routes) /\ k + 1 # m
          BY <4>2, <3>1, <1>0
        <5>2. routes'[k] = routes[k + 1]
          BY <4>2, <3>1
        <5> QED BY <5>1, <5>2, <3>3
      <4>3. CASE ~ (k < m) /\ ~ (k < Len(routes))
        BY <4>3, <3>1, <3>4
      <4> QED BY <4>1, <4>2, <4>3
    <3>6. DOMAIN routes' = 1..Len(routes)
      BY <3>1
    <3> QED BY <3>5, <3>6 DEF IdInv, Good, Own
  <2> QED BY <2>2, <2>3
<1>5. CASE routes' = Abandoned
  <2>1. DOMAIN routes' = DOMAIN routes
    BY <1>5, AbandonedRoutes
  <2>2. ASSUME NEW i \in DOMAIN routes PROVE Good(routes'[i])
    <3>1. /\ Own(routes'[i]) = Own(routes[i])
          /\ routes'[i].lost = (routes[i].lost \/ (pc = "stamp" /\ routes[i].task_id = None))
      BY <1>5, AbandonedRoutes
    <3>2. Own(routes[i]) \/ routes[i].lost \/ (pc = "stamp" /\ routes[i].task_id = None)
      BY DEF IdInv, Pending
    <3> QED BY <3>1, <3>2
  <2> QED BY <2>1, <2>2 DEF IdInv, Own
<1>6. ASSUME NEW t \in Task, Edit(t) PROVE IdInv'
  <2>1. /\ pc' = pc /\ list' = list
        /\ routes' = IF list = t THEN Abandoned ELSE routes
        /\ \E c : file' = [file EXCEPT ![t] = c]
    BY <1>6 DEF Edit, scriptVars
  <2>2. CASE list = t
    BY <1>5, <2>1, <2>2
  <2>3. CASE list # t /\ pc = "stamp"
    <3>1. list \in Task
      BY <2>3 DEF ListInv
    <3>2. file'[list] = file[list]
      BY <2>1, <2>3, <3>1 DEF TypeOK
    <3> QED BY <1>2, <2>1, <2>3, <3>2
  <2>4. CASE list # t /\ pc # "stamp"
    BY <1>1, <2>1, <2>4
  <2> QED BY <2>2, <2>3, <2>4
<1>7. \/ routes' = routes /\ pc # "stamp"
      \/ UNCHANGED vars
      \/ Generate \/ Stamp \/ routes' = Abandoned \/ \E t \in Task : Edit(t)
  BY DEF Next, Script, Start, Look, Drop, Note, Strip, GenerateFails, Upload, Kill
<1>8. CASE UNCHANGED vars
  BY <1>2, <1>8 DEF vars, scriptVars
<1> QED BY <1>1, <1>3, <1>4, <1>5, <1>6, <1>7, <1>8

-----------------------------------------------------------------------------
(* The theorems. *)

LEMMA FirstState == Init => IInv
<1> SUFFICES ASSUME Init PROVE IInv
  OBVIOUS
<1> USE MonitorAssumption
<1>1. routes = <<>> /\ DOMAIN routes = {} /\ Datas = {} /\ routes \in Seq(Route)
  BY DEF Init, Datas
<1>2. TypeOK
  BY <1>1 DEF Init, TypeOK
<1>3. ListInv
  BY DEF Init, ListInv
<1>4. KeyInv /\ IdInv
  BY <1>1 DEF KeyInv, IdInv
<1>5. SumInv
  BY DEF Init, SumInv, BetweenSumAndRoute
<1> QED BY <1>2, <1>3, <1>4, <1>5 DEF IInv

LEMMA Invariant == Spec => []IInv
<1>1. IInv /\ [Next]_vars => IInv'
  BY TypedStep, KeyStep, SumStep, IdStep DEF IInv
<1> QED BY FirstState, <1>1, PTL DEF Spec

\* Every variable has its type, whatever is edited, killed or fails.
THEOREM MonitorTyped == Spec => []TypeOK
<1>1. IInv => TypeOK
  BY DEF IInv
<1> QED BY Invariant, <1>1, PTL

\* A list that knows what a wanted file says now has it from the newest route
\* of the task (Note and Generate, lines 83-55 of monitor_offline.sh).
THEOREM SumsAreOfRoutes == Spec => []RecordedIsGenerated
<1>1. ASSUME IInv PROVE RecordedIsGenerated
  <2> SUFFICES ASSUME NEW t \in Wanted, sums[t] # None, sums[t] = file[t],
                      ~ missed[t], ~ BetweenSumAndRoute(t)
               PROVE  \E i \in NewestOf(t) : routes[i].text = file[t].text
    BY DEF RecordedIsGenerated
  <2>1. Fresh(t, file[t].text)
    BY <1>1 DEF IInv, SumInv
  <2>2. PICK d \in Datas : /\ d[3] = t /\ d[4] = file[t].text
                           /\ \A e \in Datas : e[3] = t => e[2] <= d[2]
    BY <2>1 DEF Fresh
  <2>3. PICK i \in DOMAIN routes : d = Data(routes[i])
    BY DEF Datas
  <2>4. routes[i].from = t /\ routes[i].text = file[t].text /\ routes[i].nth = d[2]
    BY <2>2, <2>3 DEF Data
  <2>5. ASSUME NEW k \in DOMAIN routes, routes[k].from = t
        PROVE  routes[k].nth <= routes[i].nth
    <3>1. Data(routes[k]) \in Datas
      BY DEF Datas
    <3>2. Data(routes[k])[3] = t /\ Data(routes[k])[2] = routes[k].nth
      BY <2>5 DEF Data
    <3> QED BY <3>1, <3>2, <2>2, <2>4
  <2>6. i \in NewestOf(t)
    BY <2>4, <2>5 DEF NewestOf
  <2> QED BY <2>4, <2>6
<1> QED BY Invariant, <1>1, PTL

\* A route carries the ids of its own task and text, or its run was killed or
\* its task edited just before (lines 59-68).
THEOREM IdsAreOfTheirTasks == Spec => []IdOfItsTask
<1>1. IInv => IdOfItsTask
  BY DEF IInv, IdInv, Own, Pending, IdOfItsTask
<1> QED BY Invariant, <1>1, PTL
=============================================================================
