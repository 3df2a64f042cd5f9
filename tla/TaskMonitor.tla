------------------------------ MODULE TaskMonitor ------------------------------
(***************************************************************************)
(* The task monitor (monitor_offline.sh; monitor.sh and its other variants *)
(* have the same loop).  A run compares the sum of every task file with    *)
(* the list of sums of earlier runs.  For a file that is new or changed it *)
(* records the sum, has a route generated, and writes the task's id into   *)
(* the newest route file of that name; at its end it sends all routes.     *)
(* Nothing checks whether a step succeeded, the script may be killed       *)
(* between two steps, and people edit the tasks meanwhile.                 *)
(*                                                                         *)
(* A sum is the content it was taken of.  The planner is external to the   *)
(* script: it writes one file and never overwrites one (RoutePoints).      *)
(***************************************************************************)
EXTENDS Integers, Sequences, FiniteSetsExt

CONSTANTS
  Task,                \* the files that may lie in the tasks directory
  Wanted,              \* the .yaml files that the blacklist does not name
  Matched,             \* [Task -> tasks whose path the path of t, as a pattern, matches]
  Text, None,
  NameOf,              \* [Text -> park_id and route_id, as the planner reads them]
  IdRead,              \* [Text -> the route whose id the script reads, or None]
  Grepped,             \* [Text -> the names that grep finds with what the script reads]
  Initial,             \* the task files before the first run
  MaxTroubles          \* bound: edits, kills and failures together

\* cr: the file has carriage returns.
Content == [text : Text, cr : BOOLEAN]

ASSUME MonitorAssumption ==
  /\ Wanted \subseteq Task /\ None \notin Task /\ MaxTroubles \in Nat
  /\ \A t \in Task : t \in Matched[t]
  /\ \A x \in Text : NameOf[x] \in Grepped[x] /\ IdRead[x] \in {NameOf[x], None}
  /\ Initial \subseteq [Task -> Content]

Name == {NameOf[x] : x \in Text}

VARIABLES
  pc, todo, list,    \* the step, the files still to look at, the current one
  file,              \* [Task -> Content, or None if it is not there]
  sums,              \* task_to_json_md5.sum: [Task -> Content, or None]
  routes,            \* the route files, in the order of their times
  sent,              \* the routes the server has accepted
  missed,            \* [Task -> something came between its sum and its route]
  troubles           \* bound

scriptVars == <<pc, todo, list>>
vars == <<scriptVars, file, sums, routes, sent, missed, troubles>>

\* new counts the "_new" in the file's name, nth the routes generated before.
\* lost: before the id was written the run was killed or the task file edited,
\* or an edit had brought carriage returns back.
Route == [name : Name, new : Nat, nth : Nat, from : Task, text : Text,
          task_id : Task \cup {None}, route_id : Name \cup {None}, lost : BOOLEAN]
Key(r) == <<r.name, r.new>>
Files == {Key(routes[i]) : i \in DOMAIN routes}

Init ==
  /\ pc = "idle" /\ todo = {} /\ list = None
  /\ file \in Initial /\ sums = [t \in Task |-> None]
  /\ routes = <<>> /\ sent = {} /\ missed = [t \in Task |-> FALSE]
  /\ troubles = 0

Trouble == troubles < MaxTroubles /\ troubles' = troubles + 1

\* sed deletes every line the path of one of the tasks matches.
Without(tasks) ==
  [t \in Task |-> IF \E u \in tasks : t \in Matched[u] THEN None ELSE sums[t]]

Present == {t \in Task : file[t] # None}


\* The script ends at once if there is no task; otherwise it forgets removed
\* files and lists the present ones.
Start ==
  /\ pc = "idle" /\ Present # {}
  /\ sums' = Without({t \in Task : sums[t] # None} \ Present)
  /\ pc' = "look" /\ todo' = Present
  /\ UNCHANGED <<list, file, routes, sent, missed, troubles>>

\* "Unchanged", "Changed" or "Added".  A file that has gone meanwhile has no
\* sum: it counts as added if the list knows it, and as unchanged otherwise.
Look(t) ==
  /\ pc = "look" /\ t \in todo
  /\ todo' = todo \ {t} /\ list' = t
  /\ pc' = IF file[t] = sums[t] THEN "look"
           ELSE IF file[t] # None /\ sums[t] # None THEN "drop" ELSE "note"
  /\ UNCHANGED <<file, sums, routes, sent, missed, troubles>>

Drop ==
  /\ pc = "drop" /\ pc' = "note"
  /\ sums' = Without({list})
  /\ UNCHANGED <<todo, list, file, routes, sent, missed, troubles>>

\* Mutant of Note: a task is generated once only.
NoteOnce ==
  /\ pc = "note"
  /\ pc' = IF list \in Wanted /\ \A i \in DOMAIN routes : routes[i].from # list
           THEN "strip" ELSE "look"
  /\ sums' = IF file[list] = None THEN sums ELSE [sums EXCEPT ![list] = file[list]]
  /\ missed' = [missed EXCEPT ![list] = FALSE]
  /\ UNCHANGED <<todo, list, file, routes, sent, troubles>>

\* The sum is taken again here.
Note ==
  /\ pc = "note" /\ pc' = IF list \in Wanted THEN "strip" ELSE "look"
  /\ sums' = IF file[list] = None THEN sums ELSE [sums EXCEPT ![list] = file[list]]
  /\ missed' = [missed EXCEPT ![list] = FALSE]
  /\ UNCHANGED <<todo, list, file, routes, sent, troubles>>

\* sed removes the carriage returns from the task file itself.
Strip ==
  /\ pc = "strip" /\ pc' = "generate"
  /\ file' = IF file[list] = None THEN file ELSE [file EXCEPT ![list].cr = FALSE]
  /\ UNCHANGED <<todo, list, sums, routes, sent, missed, troubles>>

\* The planner reads the task file as it is by then.
NewRoute ==
  LET text == file[list].text
      name == NameOf[text]
  IN  [name |-> name, new |-> Cardinality({k \in Files : k[1] = name}), nth |-> Len(routes) + 1,
       from |-> list, text |-> text, task_id |-> None, route_id |-> name, lost |-> file[list].cr]

Generate ==
  /\ pc = "generate" /\ pc' = "stamp" /\ file[list] # None
  /\ routes' = Append(routes, NewRoute)
  /\ UNCHANGED <<todo, list, file, sums, sent, missed, troubles>>

\* The configuration or the planner fails; it must when the task has gone.
GenerateFails ==
  /\ pc = "generate" /\ pc' = "stamp"
  /\ IF file[list] = None THEN troubles' = troubles ELSE Trouble
  /\ missed' = [missed EXCEPT ![list] = TRUE]
  /\ UNCHANGED <<todo, list, file, sums, routes, sent>>

\* The script reads park_id and route_id from the task file again, after the
\* planner: without a file the name is "_", which every route has, and no route
\* has one with a carriage return in it.
Found == {i \in DOMAIN routes : file[list] # None =>
            ~ file[list].cr /\ routes[i].name \in Grepped[file[list].text]}

\* Both ids are written, and only where there is no task_id yet; the file
\* becomes the newest anyway.
Stamped(r) ==
  IF r.task_id # None THEN r
  ELSE [r EXCEPT !.task_id = list,
                 !.route_id = IF file[list] = None THEN None ELSE IdRead[file[list].text]]

\* Mutant of Stamp: the first file of ls, not of ls -t.
StampFirst ==
  /\ pc = "stamp" /\ pc' = "look"
  /\ routes' = IF Found = {} THEN routes
               ELSE LET i == Min(Found)
                    IN  [k \in DOMAIN routes |-> IF k = i THEN Stamped(routes[k]) ELSE routes[k]]
  /\ UNCHANGED <<todo, list, file, sums, sent, missed, troubles>>

Stamp ==
  /\ pc = "stamp" /\ pc' = "look"
  /\ routes' = IF Found = {} THEN routes
               ELSE LET i == Max(Found)
                    IN  SubSeq(routes, 1, i - 1) \o SubSeq(routes, i + 1, Len(routes))
                          \o <<Stamped(routes[i])>>
  /\ UNCHANGED <<todo, list, file, sums, sent, missed, troubles>>

\* Every route is sent in every run; what fails is not tried again in it.
Upload ==
  /\ pc = "look" /\ todo = {} /\ pc' = "idle" /\ list' = None
  /\ \/ sent' = sent \cup Files /\ troubles' = troubles
     \/ \E ok \in SUBSET Files : ok # Files /\ sent' = sent \cup ok /\ Trouble
  /\ UNCHANGED <<todo, file, sums, routes, missed>>

-----------------------------------------------------------------------------
(* The environment.                                                        *)

BetweenSumAndRoute(t) == list = t /\ pc \in {"strip", "generate"}

\* The route that waits for its id will not be found for certain.
Abandoned ==
  [i \in DOMAIN routes |->
     [routes[i] EXCEPT !.lost = @ \/ (pc = "stamp" /\ routes[i].task_id = None)]]

Kill ==
  /\ pc # "idle" /\ Trouble
  /\ pc' = "idle" /\ todo' = {} /\ list' = None
  /\ missed' = [t \in Task |-> missed[t] \/ BetweenSumAndRoute(t)]
  /\ routes' = Abandoned
  /\ UNCHANGED <<file, sums, sent>>

Edit(t) ==
  /\ Trouble
  /\ \E c \in (Content \cup {None}) \ {file[t]} : file' = [file EXCEPT ![t] = c]
  /\ missed' = [missed EXCEPT ![t] = @ \/ BetweenSumAndRoute(t)]
  /\ routes' = IF list = t THEN Abandoned ELSE routes
  /\ UNCHANGED <<scriptVars, sums, sent>>

Script == \/ Start \/ (\E t \in Task : Look(t)) \/ Drop \/ Note \/ Strip
          \/ Generate \/ GenerateFails \/ Stamp \/ Upload
Next == Script \/ Kill \/ (\E t \in Task : Edit(t))

Spec == Init /\ [][Next]_vars

\* The script runs, and is started again when it has ended.
FairSpec == Spec /\ WF_vars(Script)

-----------------------------------------------------------------------------
\* Every variable has its type.
TypeOK ==
  /\ pc \in {"idle", "look", "drop", "note", "strip", "generate", "stamp"}
  /\ todo \subseteq Task /\ list \in Task \cup {None}
  /\ file \in [Task -> Content \cup {None}] /\ sums \in [Task -> Content \cup {None}]
  /\ routes \in Seq(Route) /\ sent \subseteq Name \X Nat
  /\ missed \in [Task -> BOOLEAN]
  /\ troubles \in 0..MaxTroubles

NewestOf(t) == {i \in DOMAIN routes : routes[i].from = t
                  /\ \A k \in DOMAIN routes : routes[k].from = t => routes[k].nth <= routes[i].nth}

\* If the list has the sum of what a task file says now, its newest route was
\* generated from just that, unless the run was killed, the generation failed
\* or the file was edited between the recording of the sum and the route
\* (lines 83-55 of monitor_offline.sh).
RecordedIsGenerated ==
  \A t \in Wanted :
    (sums[t] # None /\ sums[t] = file[t] /\ ~ missed[t] /\ ~ BetweenSumAndRoute(t)) =>
      \E i \in NewestOf(t) : routes[i].text = file[t].text

\* Every route carries the id of the task it was generated from, and its own
\* route_id or, if the text has none the script can read, an empty one; but for
\* a route that is about to be given them, and one whose run was killed or
\* whose task file was edited just before that (lines 59-68: the ids go into
\* whatever file is the newest of a matching name by then).
IdOfItsTask ==
  \A i \in DOMAIN routes :
    \/ routes[i].task_id = routes[i].from /\ routes[i].route_id = IdRead[routes[i].text]
    \/ routes[i].lost
    \/ pc = "stamp" /\ i = Len(routes) /\ routes[i].task_id = None

=============================================================================
