---------------------------- MODULE RoutePoints ----------------------------
(* The route of a list of planning tasks, as src/route_points_generator.cpp  *)
(* writes it: GenerateRoutePoints trims every task to its start and end      *)
(* point, then walks the tasks with last_task, a COPY of the first one that  *)
(* has sections, which it extends to compare the next task with; what        *)
(* OutputRoutePoints writes is tasks_, not that copy.                        *)
(*                                                                           *)
(* A point is an integer: the code compares points for equality and by their *)
(* distance.  A curve is a sequence of points, a section has an id and a     *)
(* sequence of lanes (curves), none of them empty: front() and back() of an  *)
(* empty curve are undefined behaviour at lines 74, 108 and 127.             *)
EXTENDS Integers, Sequences, SequencesExt, FiniteSetsExt

Distance(p, q) == IF p < q THEN q - p ELSE p - q

\* The first index whose point is nearest to p (the comparison is strict).
Nearest(curve, p) ==
  CHOOSE i \in DOMAIN curve : \A k \in DOMAIN curve :
    Distance(curve[i], p) <= Distance(curve[k], p) - (IF k < i THEN 1 ELSE 0)

\* The points of the first lane before the nearest to the start go, then
\* those of the last lane behind the nearest to the end, which is looked for
\* in what is left if the two lanes are one.
Trim(task) ==
  IF task.section_list = <<>> THEN task
  ELSE LET s == [task EXCEPT !.section_list[1].lane_list[1] =
                   SubSeq(@, Nearest(@, task.start_point), Len(@))]
           n == Len(s.section_list)
           m == Len(s.section_list[n].lane_list)
       IN  [s EXCEPT !.section_list[n].lane_list[m] = SubSeq(@, 1, Nearest(@, task.end_point))]

\* Sections before the first with the id of the path's last one are dropped.
Rest(sections, path) ==
  LET same == {k \in DOMAIN sections : sections[k].id = Last(path).id}
  IN  IF same = {} THEN sections ELSE SubSeq(sections, Min(same), Len(sections))

\* A section without a curve is not pushed.
PushSection(path, section) ==
  IF section.lane_list[1] = <<>> THEN path ELSE Append(path, section)
Extend(path, curve, extra) ==
  FoldLeft(PushSection, [path EXCEPT ![Len(path)].lane_list[1] = @ \o curve], extra)

\* Mutant of KeepFrom: the prefix is cut from a copy, the task keeps it.
KeepAll(rest, joined) == rest
KeepFrom(rest, joined) == [rest EXCEPT ![1].lane_list[1] = joined]

\* The sections of a task behind the path so far.  Where its first curve has
\* the last point of the path, it begins there; else, if its first point is
\* on the path's last curve, it loses all its sections ("fully coverd by
\* last task", line 136, judged by that one point); else it is kept.
Join(path, sections) ==
  LET rest == Rest(sections, path)
      cur == rest[1].lane_list[1]
      last == Last(path).lane_list[1]
      shared == {k \in DOMAIN cur : cur[k] = Last(last)}
      joined == SubSeq(cur, Min(shared), Len(cur))
  IN  IF shared # {} THEN [path |-> Extend(path, joined, Tail(rest)),
                           left |-> KeepFrom(rest, joined)]
      ELSE IF cur[1] \in Range(last) THEN [path |-> path, left |-> <<>>]
      ELSE [path |-> Extend(path, cur, Tail(rest)), left |-> rest]

\* One task of the walk: last_task begins as the first one with sections.
Walk(r, t) ==
  IF t.section_list = <<>> THEN [r EXCEPT !.tasks = Append(@, t)]
  ELSE IF r.path = <<>> THEN [path |-> t.section_list, tasks |-> Append(r.tasks, t)]
  ELSE LET j == Join(r.path, t.section_list)
       IN  [path |-> j.path, tasks |-> Append(r.tasks, [t EXCEPT !.section_list = j.left])]

\* The tasks after GenerateRoutePoints, and last_task's sections.
GenerateRoutePoints(tasks) ==
  FoldLeft(Walk, [path |-> <<>>, tasks |-> <<>>], [i \in DOMAIN tasks |-> Trim(tasks[i])])

SectionPoints(sections) == FlattenSeq([k \in DOMAIN sections |-> FlattenSeq(sections[k].lane_list)])
Points(task) == IF task.type = "ASTAR" THEN <<task.start_point, task.end_point>>
                ELSE SectionPoints(task.section_list)

\* What the JSON array holds where task_json was already moved from (235).
Null == [index |-> -1]

\* Mutant of Leading: no ASTAR task is ever written.
AnyP2p(r, t) == t.type = "ASTAR"
Leading(r, t) == t.type = "ASTAR" /\ r.index = r.p2p_count

\* One round of the loop: the ASTAR tasks the list begins with are left out;
\* any other ASTAR task and every STRUCTED_MAP task is pushed, and then its
\* moved-from value is pushed again; the rest is pushed with its index only.
Entries(r, t) ==
  LET rec == [index |-> r.index, type |-> t.type, points |-> Points(t)]
      next == [r EXCEPT !.index = @ + 1]
  IN  CASE Leading(r, t) -> [next EXCEPT !.p2p_count = @ + 1]
        [] ~ Leading(r, t) /\ t.type \in {"ASTAR", "STRUCTED_MAP"} ->
             [next EXCEPT !.data = @ \o <<rec, Null>>]
        [] t.type \notin {"ASTAR", "STRUCTED_MAP"} ->
             [next EXCEPT !.data = Append(@, [index |-> r.index])]

OutputRoutePoints(tasks) ==
  FoldLeft(Entries, [index |-> 0, p2p_count |-> 0, data |-> <<>>], tasks).data

-----------------------------------------------------------------------------
\* With one lane per section the two records of the route agree: the points
\* written for the tasks, in their order, are those of the path last_task
\* followed, so no task is compared with a path other than the one written.
PathIsOutput(tasks) ==
  LET r == GenerateRoutePoints(tasks)
      OneLane(t) == \A k \in DOMAIN t.section_list : Len(t.section_list[k].lane_list) = 1
  IN  (\A i \in DOMAIN tasks : OneLane(tasks[i])) =>
        SectionPoints(r.path) = FlattenSeq([i \in DOMAIN tasks |-> SectionPoints(r.tasks[i].section_list)])

\* The records of the file that stand for a task.
PushRecord(records, e) == IF e = Null THEN records ELSE Append(records, e)
Records(data) == FoldLeft(PushRecord, <<>>, data)

\* Only the ASTAR tasks at the head of the list are missing from the file,
\* every other task is there once and in order, and a task with a type is
\* followed by a null, so entry n of the file is not task n.
RecordsInOrder(tasks) ==
  LET data == OutputRoutePoints(tasks)
      written == Records(data)
      head == Len(tasks) - Len(written)
  IN  /\ \A i \in 1..head : tasks[i].type = "ASTAR"
      /\ written # <<>> => tasks[head + 1].type # "ASTAR"
      /\ \A i \in DOMAIN written : /\ written[i].index = head + i - 1
           /\ "points" \in DOMAIN written[i] => written[i].points = Points(tasks[head + i])
      /\ \A i \in DOMAIN data : data[i] = Null => data[i - 1] # Null /\ "points" \in DOMAIN data[i - 1]
=============================================================================
