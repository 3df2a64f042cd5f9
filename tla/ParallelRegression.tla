-------------------------- MODULE ParallelRegression --------------------------
(***************************************************************************)
(* The parallel regression (regression_parallelly.py, new_playcase.py).    *)
(* The main process goes through the list of cases: it looks which ports   *)
(* are in use, chooses one and hands the case to a pool of workers.  A     *)
(* worker starts a ROS master on that port, puts the case's parameters on  *)
(* its server, launches the simulation and an evaluation that writes       *)
(* result.txt into the directory the parameters name.  When all workers    *)
(* are done, the main process judges every case by its result.txt.         *)
(*                                                                         *)
(* A job is a position of the list; a case listed twice has two jobs and   *)
(* one directory.  The simulation, the evaluation and simlib are not in    *)
(* the repository: a job may end without a result, and a master may or may *)
(* not end with the job that started it and died.                          *)
(***************************************************************************)
EXTENDS Integers, Sequences, FiniteSets

CONSTANTS
  Case, CaseList,    \* the cases and the list of them, which may repeat one
  Missing,           \* the cases without a directory
  BasePort,          \* ros_port
  Workers,           \* size of the pool, 2
  ForeignPorts,      \* ports other programs may listen on
  MaxChanges,        \* bound: how often one of them begins or ends
  NoCase

ASSUME RegressionAssumption ==
  /\ CaseList \in Seq(Case) /\ Missing \subseteq Case
  /\ BasePort \in Nat /\ Workers \in Nat \ {0} /\ MaxChanges \in Nat
  /\ IsFiniteSet(ForeignPorts) /\ ForeignPorts \subseteq Nat
  /\ NoCase \notin Case

Job == 1..Len(CaseList)
NoJob == 0

VARIABLES
  pc,                \* the main process: "submit" or "done"
  next, base_port,   \* its loop
  stage, port,       \* [Job -> ...]
  target,            \* [Job -> Case]: whose directory the evaluation writes to
  listening,         \* the ports other programs listen on
  master,            \* [Port -> Job]: who started the master on the port
  server,            \* [Port -> Case]: whose parameters are on its server
  planning_yaml,     \* [Case -> text: "whole", "cut" or "bad"; complete: BOOLEAN]
  result,            \* [Case -> the contents of result.txt]
  verdict,           \* [Job -> the case's place in the report]
  logdir,            \* the directory log that all the jobs share exists
  changes            \* bound

mainVars == <<pc, next, base_port, verdict>>
jobVars == <<stage, port, target>>
rosVars == <<master, server>>
vars == <<mainVars, jobVars, rosVars, listening, planning_yaml, result, logdir, changes>>

\* by: the job that wrote it, or NoJob if an earlier regression did.
NoResult == [by |-> NoJob, arrived |-> "none"]
Result(j, arrived) == [by |-> j, arrived |-> arrived]

\* complete: loading finds the keys of vehicle and park, and goal.yaml.  Of a
\* "bad" file, where the job dies before, it is not asked.
Yaml(text, complete) == [text |-> text, complete |-> complete]

\* No job is on port 0.
Port == 0..(BasePort + 2 * Len(CaseList) + Cardinality(ForeignPorts) + 1)

Init ==
  /\ pc = "submit" /\ next = 1 /\ base_port = BasePort + 1
  /\ stage = [j \in Job |-> "none"] /\ port = [j \in Job |-> 0]
  /\ target = [j \in Job |-> NoCase]
  /\ listening \in SUBSET ForeignPorts
  /\ master = [p \in Port |-> NoJob] /\ server = [p \in Port |-> NoCase]
  /\ planning_yaml \in [Case -> {Yaml("whole", TRUE), Yaml("whole", FALSE), Yaml("bad", TRUE)}]
  /\ result \in [Case -> {NoResult, Result(NoJob, "Success")}]
  /\ \A c \in Missing : planning_yaml[c] = Yaml("bad", TRUE) /\ result[c] = NoResult
  /\ verdict = [j \in Job |-> "none"]
  /\ logdir \in BOOLEAN
  /\ changes = 0

-----------------------------------------------------------------------------
(* Other programs.                                                         *)

Listen(p) ==
  /\ changes < MaxChanges /\ changes' = changes + 1
  /\ IF p \in listening THEN listening' = listening \ {p}
     ELSE master[p] = NoJob /\ listening' = listening \cup {p}
  /\ UNCHANGED <<mainVars, jobVars, rosVars, planning_yaml, result, logdir>>

-----------------------------------------------------------------------------
(* The main process.                                                       *)

\* The first port from base on that netstat did not show.
FirstFree(base, forbid) ==
  CHOOSE p \in Port : /\ p >= base /\ p \notin forbid
                      /\ \A q \in Port : (q >= base /\ q \notin forbid) => p <= q

\* Mutant of Submit: the next case starts from the same port.
SubmitSame ==
  /\ pc = "submit" /\ next \in Job
  /\ \E seen \in {listening, listening \cup {p \in Port : master[p] # NoJob}} :
       port' = [port EXCEPT ![next] = FirstFree(base_port, seen)]
  /\ stage' = [stage EXCEPT ![next] = IF CaseList[next] \in Missing THEN "missing" ELSE "queued"]
  /\ next' = next + 1
  /\ UNCHANGED <<pc, base_port, verdict, target, rosVars, listening, planning_yaml, result, logdir, changes>>

\* netstat shows what listens on 127.0.0.1; a master that listens on every
\* interface is not among it.
Submit ==
  /\ pc = "submit" /\ next \in Job
  /\ \E seen \in {listening, listening \cup {p \in Port : master[p] # NoJob}} :
       port' = [port EXCEPT ![next] = FirstFree(base_port, seen)]
  /\ stage' = [stage EXCEPT ![next] = IF CaseList[next] \in Missing THEN "missing" ELSE "queued"]
  /\ next' = next + 1 /\ base_port' = base_port + 1
  /\ UNCHANGED <<pc, verdict, target, rosVars, listening, planning_yaml, result, logdir, changes>>

Ended(j) == stage[j] \in {"missing", "over", "died", "outrun"}

\* A result without the line of ArrivalCheck and the others is not treated.
Judge(r) ==
  CASE r.arrived = "none" -> "untreated"
    [] r.arrived = "Success" -> "right"
    [] r.arrived = "Failed" -> "error"

\* p.join() returns; then result_collect reads the files of all cases.
Collect ==
  /\ pc = "submit" /\ next \notin Job /\ \A j \in Job : Ended(j)
  /\ verdict' = [j \in Job |-> IF CaseList[j] \in Missing THEN "untreated"
                               ELSE Judge(result[CaseList[j]])]
  /\ pc' = "done"
  /\ UNCHANGED <<next, base_port, jobVars, rosVars, listening, planning_yaml, result, logdir, changes>>

-----------------------------------------------------------------------------
(* A worker: one job from new_playcase.py to its end.                      *)

Busy == {j \in Job : stage[j] \notin {"none", "queued"} /\ ~ Ended(j)}

Goto(j, place) == stage' = [stage EXCEPT ![j] = place]

\* The pool starts jobs in the order they were submitted.
Take(j) ==
  /\ stage[j] = "queued" /\ \A k \in 1..(j - 1) : stage[k] # "queued"
  /\ Cardinality(Busy) < Workers
  /\ Goto(j, "look")
  /\ UNCHANGED <<mainVars, port, target, rosVars, listening, planning_yaml, result, logdir, changes>>

\* os.path.exists('log') is one step and os.mkdir another: when a second worker
\* looks before the first has made the directory, its job ends in an OSError.
LookForLog(j) ==
  /\ stage[j] = "look"
  /\ Goto(j, IF logdir THEN "core" ELSE "mkdir")
  /\ UNCHANGED <<mainVars, port, target, rosVars, listening, planning_yaml, result, logdir, changes>>

MakeLog(j) ==
  /\ stage[j] = "mkdir"
  /\ logdir' = TRUE
  /\ Goto(j, IF logdir THEN "outrun" ELSE "core")
  /\ UNCHANGED <<mainVars, port, target, rosVars, listening, planning_yaml, result, changes>>

\* Mutant of StartCore: init_check is not waited for.
StartCoreUnchecked(j) ==
  /\ stage[j] = "core"
  /\ IF master[port[j]] = NoJob /\ port[j] \notin listening
     THEN /\ master' = [master EXCEPT ![port[j]] = j]
          /\ server' = [server EXCEPT ![port[j]] = NoCase]
     ELSE UNCHANGED rosVars
  /\ Goto(j, "clean")
  /\ UNCHANGED <<mainVars, port, target, listening, planning_yaml, result, logdir, changes>>

\* roscore.run until a master answers on the port: its own, or the one that
\* is there already.  While another program holds the port it goes round.
Blocked(j) == stage[j] = "core" /\ port[j] \in listening
Retry(j) == Blocked(j) /\ UNCHANGED vars
StartCore(j) ==
  /\ stage[j] = "core" /\ port[j] \notin listening
  /\ IF master[port[j]] = NoJob
     THEN /\ master' = [master EXCEPT ![port[j]] = j]
          /\ server' = [server EXCEPT ![port[j]] = NoCase]
     ELSE UNCHANGED rosVars
  /\ Goto(j, "clean")
  /\ UNCHANGED <<mainVars, port, target, listening, planning_yaml, result, logdir, changes>>

\* Mutant of Die: the job is tried again from the start, without a limit.
StartAgain(j, serverNow) ==
  /\ Goto(j, "clean") /\ server' = serverNow
  /\ UNCHANGED <<mainVars, port, target, master, listening, planning_yaml, result, logdir, changes>>

\* sys.exit or an exception: roscore.terminate() is not reached.  serverNow is
\* what the server of parameters holds by then.
Die(j, serverNow) ==
  /\ Goto(j, "died") /\ server' = serverNow
  /\ master' \in {master, [p \in Port |-> IF master[p] = j THEN NoJob ELSE master[p]]}
  /\ UNCHANGED <<mainVars, port, target, listening, planning_yaml, result, logdir, changes>>

HasMaster(j) == master[port[j]] # NoJob

\* __clean_paramserver deletes every parameter, whoever put it there.
Clean(j) ==
  /\ stage[j] = "clean"
  /\ IF HasMaster(j)
     THEN /\ server' = [server EXCEPT ![port[j]] = NoCase]
          /\ Goto(j, "read")
          /\ UNCHANGED <<mainVars, port, target, master, listening, planning_yaml, result, logdir, changes>>
     ELSE Die(j, server)

\* __init_nodeyaml: planning.yaml is missing, lacks a key, or another job of
\* the case has just truncated it.
ReadYaml(j) ==
  /\ stage[j] = "read"
  /\ IF planning_yaml[CaseList[j]].text = "whole"
     THEN /\ Goto(j, "open")
          /\ UNCHANGED <<mainVars, port, target, rosVars, listening, planning_yaml, result, logdir, changes>>
     ELSE Die(j, server)

\* It is written back in place: opened with 'w', then dumped.  The text reaches
\* the file in one piece, as one shorter than a write buffer does.
WriteYaml(j, from, to, contents) ==
  /\ stage[j] = from
  /\ planning_yaml' = [planning_yaml EXCEPT ![CaseList[j]].text = contents]
  /\ Goto(j, to)
  /\ UNCHANGED <<mainVars, port, target, rosVars, listening, result, logdir, changes>>
OpenYaml(j) == WriteYaml(j, "open", "dump", "cut")
DumpYaml(j) == WriteYaml(j, "dump", "load", "whole")

\* upload_params with what the file holds now, then with goal.yaml: a job that
\* lacks a key dies before the first, one that lacks goal.yaml after it.
LoadParams(j) ==
  LET file == planning_yaml[CaseList[j]]
      uploaded == [server EXCEPT ![port[j]] = CaseList[j]]
  IN
  /\ stage[j] = "load"
  /\ IF HasMaster(j) /\ file.text = "whole"
     THEN \/ /\ file.complete
             /\ server' = uploaded
             /\ Goto(j, "launch")
             /\ UNCHANGED <<mainVars, port, target, master, listening, planning_yaml, result, logdir, changes>>
          \/ /\ ~ file.complete
             /\ \E serverNow \in {server, uploaded} : Die(j, serverNow)
     ELSE Die(j, server)

\* Mutant of Launch: ROS_MASTER_URI is the one handed out last.
LaunchElsewhere(j) ==
  /\ stage[j] = "launch"
  /\ target' = [target EXCEPT ![j] = server[base_port - 1]]
  /\ Goto(j, "play")
  /\ UNCHANGED <<mainVars, port, rosVars, listening, planning_yaml, result, logdir, changes>>

\* The evaluation reads its directory from the server of the port.
Launch(j) ==
  /\ stage[j] = "launch"
  /\ target' = [target EXCEPT ![j] = IF HasMaster(j) THEN server[port[j]] ELSE NoCase]
  /\ Goto(j, "play")
  /\ UNCHANGED <<mainVars, port, rosVars, listening, planning_yaml, result, logdir, changes>>

\* Mutant of Stopped: roscore.terminate() is left out.
StoppedNot(j) == master
Stopped(j) == [p \in Port |-> IF master[p] = j THEN NoJob ELSE master[p]]

\* The simulation ends, with a result or without.  kill_nodes names the
\* evaluation node, on a shared master the one of the other job.
Finish(j) ==
  /\ stage[j] = "play"
  /\ \/ UNCHANGED result
     \/ /\ target[j] # NoCase
        /\ \E arrived \in {"Success", "Failed"} :
             result' = [result EXCEPT ![target[j]] = Result(j, arrived)]
  /\ target' = [k \in Job |-> IF k # j /\ port[k] = port[j] THEN NoCase ELSE target[k]]
  /\ master' = Stopped(j)
  /\ Goto(j, "over")
  /\ UNCHANGED <<mainVars, port, server, listening, planning_yaml, logdir, changes>>

-----------------------------------------------------------------------------
JobStep(j) ==
  \/ Take(j) \/ LookForLog(j) \/ MakeLog(j) \/ StartCore(j) \/ Clean(j) \/ ReadYaml(j)
  \/ OpenYaml(j) \/ DumpYaml(j) \/ LoadParams(j) \/ Launch(j) \/ Finish(j)
MainStep == Submit \/ Collect
Done == pc = "done" /\ UNCHANGED vars

Next ==
  \/ \E p \in ForeignPorts : Listen(p)
  \/ MainStep
  \/ \E j \in Job : JobStep(j) \/ Retry(j)
  \/ Done

Spec == Init /\ [][Next]_vars

\* The main process and the workers run, and every simulation ends (--exit).
FairSpec == Spec /\ WF_vars(MainStep) /\ \A j \in Job : WF_vars(JobStep(j))

-----------------------------------------------------------------------------
Stage == {"none", "missing", "queued", "look", "mkdir", "core", "clean", "read", "open",
          "dump", "load", "launch", "play", "over", "died", "outrun"}

TypeOK ==
  /\ pc \in {"submit", "done"} /\ next \in Nat /\ base_port \in Nat
  /\ stage \in [Job -> Stage] /\ port \in [Job -> Port]
  /\ target \in [Job -> Case \cup {NoCase}]
  /\ listening \subseteq ForeignPorts
  /\ master \in [Port -> Job \cup {NoJob}] /\ server \in [Port -> Case \cup {NoCase}]
  /\ planning_yaml \in [Case -> [text : {"whole", "cut", "bad"}, complete : BOOLEAN]]
  /\ \A c \in Case : planning_yaml[c].text = "cut" =>
       \E j \in Job : CaseList[j] = c /\ stage[j] = "dump"
  /\ result \in [Case -> [by : Job \cup {NoJob}, arrived : {"none", "Success", "Failed"}]]
  /\ verdict \in [Job -> {"none", "right", "error", "untreated"}]
  /\ logdir \in BOOLEAN
  /\ changes \in 0..MaxChanges

Shares(j) == \E k \in Job \ {j} : port[k] = port[j]

\* Two jobs get one port only if the earlier one was pushed as far as the
\* later one's own port, BasePort plus its position, and only if some other
\* program listened on the way: masters alone never cause it, though netstat
\* may or may not show them.
MeetOnlyWhenPushed ==
  \A j, k \in Job : (j < k /\ port[j] = port[k] /\ port[j] # 0) =>
    /\ port[j] >= BasePort + k
    /\ \E p \in ForeignPorts : p >= BasePort + 1 /\ p < port[j]

\* The result in the directory of a case was written by a job of that case,
\* unless that job shared its port with one of the case: then the evaluation
\* read the other one's parameters.
ResultOfItsOwnCase ==
  \A c \in Case : result[c].by # NoJob =>
    \/ CaseList[result[c].by] = c
    \/ \E k \in Job : CaseList[k] = c /\ port[k] = port[result[c].by]

\* Jobs that looked for the directory log before it was there and did not make it.
Outrun == {j \in Job : stage[j] = "outrun"}

\* A job dies before it is evaluated only for a reason: its planning.yaml is
\* not usable or not complete, it shared its port, its case is listed twice and
\* the other job was rewriting planning.yaml, or another job, which went on,
\* made the directory log between its look and its mkdir.  The last happens to
\* all the workers but one at most, however long the list.
DiedForAReason ==
  /\ \A j \in Job : stage[j] = "died" =>
       \/ planning_yaml[CaseList[j]].text = "bad" \/ ~ planning_yaml[CaseList[j]].complete
       \/ Shares(j)
       \/ \E k \in Job \ {j} : CaseList[k] = CaseList[j]
  /\ Cardinality(Outrun) < Workers
  /\ Outrun # {} =>
       \E k \in Job : stage[k] \notin {"none", "missing", "queued", "look", "mkdir", "outrun"}

\* When the report is written no master is left on a port but those of jobs
\* that died.
NoMasterLeft ==
  pc = "done" => \A p \in Port : master[p] # NoJob => stage[master[p]] = "died"

\* The regression ends, unless another program keeps the port of a case that
\* was free when it was chosen.
RunEnds ==
  <>(pc = "done") \/ <>[](\E j \in Job : Blocked(j))

\* Line 306: a case that was not run is shown as not executed: what a case is
\* judged by was written in this run.
JudgedByThisRun ==
  \A j \in Job : verdict[j] \in {"right", "error"} => result[CaseList[j]].by # NoJob
=============================================================================
