---------------------- MODULE ParallelRegressionProofs ----------------------
(***************************************************************************)
(* Theorems about ParallelRegression, for every list of cases, every pool  *)
(* and every set of ports of other programs.                               *)
(*                                                                         *)
(* MasterInv says whose a master is, PlanInv how far the list has been     *)
(* given out, and PushInv why a job is not on the port of its own; with    *)
(* them there is always a free port left in Port.  ParamInv says whose the *)
(* parameters are, and WorkInv that a running job has a master or shares   *)
(* its port.  RaceInv is about the directory log.                         *)
(***************************************************************************)
EXTENDS ParallelRegression, FiniteSetTheorems, WellFoundedInduction, TLAPS

Going == {"clean", "read", "open", "dump", "load", "launch", "play"}

\* Jobs before next have been given out, on no port below their own.
PlanInv ==
  /\ next \in 1..(Len(CaseList) + 1) /\ base_port = BasePort + next
  /\ \A j \in Job : stage[j] = "none" <=> j >= next
  /\ \A j \in Job : IF j < next THEN port[j] >= BasePort + j ELSE port[j] = 0
  /\ pc = "done" => \A j \in Job : Ended(j)

\* A master is on the port of the job that started it.
MasterInv ==
  \A p \in Port : master[p] # NoJob =>
    port[master[p]] = p /\ stage[master[p]] \in Going \cup {"died"}

\* A job is on its own port, or another program listened below the port it has.
PushInv ==
  \A j \in Job : j < next =>
    \/ port[j] = BasePort + j
    \/ \E p \in ForeignPorts : p >= BasePort + 1 /\ p < port[j]

\* c is a case of a job that was given port p.
OnPort(c, p) == \E k \in Job : k < next /\ CaseList[k] = c /\ port[k] = p

\* Parameters and targets are those of a job on the port.
ParamInv ==
  /\ \A p \in Port : server[p] # NoCase => OnPort(server[p], p)
  /\ \A j \in Job : target[j] # NoCase => j < next /\ OnPort(target[j], port[j])
  /\ \A c \in Case : result[c].by # NoJob =>
       result[c].by \in Job /\ result[c].by < next /\ OnPort(c, port[result[c].by])

WorkInv == \A j \in Job : stage[j] \in Going => HasMaster(j) \/ Shares(j)

IInv == TypeOK /\ PlanInv /\ MasterInv

-----------------------------------------------------------------------------
(* A free port. *)

\* A set of natural numbers that is not empty has a least one.
LEMMA LeastNat ==
  ASSUME NEW S \in SUBSET Nat, S # {}
  PROVE  \E p \in S : \A q \in S : p <= q
<1>1. PICK p \in S : \A q \in S : ~ (<<q, p>> \in OpToRel(<, Nat))
  BY NatLessThanWellFounded, WFMin
<1>2. ASSUME NEW q \in S PROVE p <= q
  <2>1. ~ (q < p)
    BY <1>1 DEF OpToRel
  <2> QED BY <2>1
<1> QED BY <1>2

LEMMA ConstantFacts ==
  /\ Len(CaseList) \in Nat /\ BasePort \in Nat /\ Cardinality(ForeignPorts) \in Nat
  /\ \A j \in Job : CaseList[j] \in Case /\ j \in Nat /\ j # NoJob
  /\ NoJob \notin Job /\ NoCase \notin Case /\ 0 \in Port
  /\ Port \subseteq Nat /\ ForeignPorts \subseteq Nat
<1>1. CaseList \in Seq(Case) /\ BasePort \in Nat /\ IsFiniteSet(ForeignPorts)
  BY RegressionAssumption
<1>2. Len(CaseList) \in Nat /\ \A j \in 1..Len(CaseList) : CaseList[j] \in Case
  BY <1>1
<1>3. Cardinality(ForeignPorts) \in Nat
  BY <1>1, FS_CardinalityType
<1>4. \A j \in Job : j \in Nat /\ j # NoJob
  BY <1>2 DEF Job, NoJob
<1>5. 0 \in Port /\ Port \subseteq Nat
  BY <1>1, <1>2, <1>3 DEF Port
<1> QED BY <1>1, <1>2, <1>3, <1>4, <1>5, RegressionAssumption DEF Job

\* The masters and the other programs never hold all the ports from the base
\* on, so the search of main ends, and it ends at the first free port.
LEMMA FreePort ==
  ASSUME IInv, next \in Job,
         NEW seen \in SUBSET (listening \cup {p \in Port : master[p] # NoJob})
  PROVE  /\ FirstFree(base_port, seen) \in Port
         /\ FirstFree(base_port, seen) >= base_port
         /\ FirstFree(base_port, seen) \notin seen
         /\ \A q \in Port : q >= base_port /\ q \notin seen => FirstFree(base_port, seen) <= q
<1> DEFINE top == BasePort + 2 * Len(CaseList) + Cardinality(ForeignPorts) + 1
           owned == {p \in Port : master[p] # NoJob}
<1>1. /\ top \in Nat /\ Port = 0..top
      /\ base_port \in Nat /\ base_port <= BasePort + Len(CaseList) /\ base_port <= top
  BY ConstantFacts DEF Port, IInv, PlanInv, Job
<1>2. /\ IsFiniteSet(base_port..top)
      /\ Cardinality(base_port..top) = top - base_port + 1
  BY <1>1, FS_Interval
<1>3. IsFiniteSet(owned) /\ Cardinality(owned) <= Len(CaseList)
  <2> DEFINE starter == [p \in owned |-> master[p]]
  <2>1. \A p \in owned : master[p] \in Job /\ port[master[p]] = p
    BY DEF IInv, TypeOK, MasterInv
  <2>2. starter \in Injection(owned, Job)
    <3>1. /\ starter \in [owned -> Job] /\ DOMAIN starter = owned
          /\ \A p \in owned : starter[p] = master[p]
      BY <2>1
    <3> HIDE DEF starter, owned
    <3>2. IsInjective(starter)
      BY <2>1, <3>1 DEF IsInjective
    <3> QED BY <3>1, <3>2, Zenon DEF Injection
  <2>3. IsFiniteSet(Job) /\ Cardinality(Job) = Len(CaseList)
    <3>1. Len(CaseList) \in Nat
      BY ConstantFacts
    <3>2. /\ IsFiniteSet(1..Len(CaseList))
          /\ Cardinality(1..Len(CaseList)) = IF 1 > Len(CaseList) THEN 0 ELSE Len(CaseList) - 1 + 1
      BY <3>1, FS_Interval
    <3>3. (IF 1 > Len(CaseList) THEN 0 ELSE Len(CaseList) - 1 + 1) = Len(CaseList)
      BY <3>1
    <3> QED BY <3>2, <3>3 DEF Job
  <2> QED BY <2>2, <2>3, FS_Injection
<1>4. IsFiniteSet(listening) /\ Cardinality(listening) <= Cardinality(ForeignPorts)
  BY FS_Subset, RegressionAssumption DEF IInv, TypeOK
<1>5. IsFiniteSet(seen) /\ Cardinality(seen) <= Len(CaseList) + Cardinality(ForeignPorts)
  <2>1. /\ IsFiniteSet(listening \cup owned)
        /\ Cardinality(listening \cup owned)
             = Cardinality(listening) + Cardinality(owned) - Cardinality(listening \cap owned)
    BY <1>3, <1>4, FS_Union
  <2>2. IsFiniteSet(listening \cap owned)
    BY <1>3, FS_Subset
  <2>3. /\ Cardinality(listening) \in Nat /\ Cardinality(owned) \in Nat
        /\ Cardinality(listening \cap owned) \in Nat
    BY <1>3, <1>4, <2>2, FS_CardinalityType
  <2>4. IsFiniteSet(seen) /\ Cardinality(seen) <= Cardinality(listening \cup owned)
    BY <2>1, FS_Subset
  <2>5. Cardinality(seen) \in Nat
    BY <2>4, FS_CardinalityType
  <2> QED BY <1>3, <1>4, <2>1, <2>3, <2>4, <2>5, ConstantFacts
<1>6. ~ (base_port..top \subseteq seen)
  <2> SUFFICES ASSUME base_port..top \subseteq seen PROVE FALSE
    OBVIOUS
  <2>1. Cardinality(base_port..top) <= Cardinality(seen)
    BY <1>5, FS_Subset
  <2>2. Cardinality(seen) \in Nat
    BY <1>5, FS_CardinalityType
  <2> QED BY <1>1, <1>2, <1>5, <2>1, <2>2, ConstantFacts
<1> DEFINE free == {p \in Port : p >= base_port /\ p \notin seen}
<1>7. free \in SUBSET Nat /\ free # {}
  <2>1. PICK p \in base_port..top : p \notin seen
    BY <1>6
  <2>2. p \in Port /\ p >= base_port
    BY <1>1, <2>1
  <2> QED BY <2>1, <2>2, ConstantFacts
<1>8. PICK least \in free : \A q \in free : least <= q
  BY <1>7, LeastNat
<1> QED BY <1>8 DEF FirstFree

-----------------------------------------------------------------------------
(* Type correctness, the plan and the masters. *)

LEMMA FirstState == Init => IInv
<1> SUFFICES ASSUME Init PROVE IInv
  OBVIOUS
<1>1. TypeOK
  <2>1. /\ planning_yaml \in [Case -> {Yaml("whole", TRUE), Yaml("whole", FALSE), Yaml("bad", TRUE)}]
        /\ result \in [Case -> {NoResult, Result(NoJob, "Success")}]
    BY DEF Init
  <2>2. \A y \in {Yaml("whole", TRUE), Yaml("whole", FALSE), Yaml("bad", TRUE)} :
          y \in [text : {"whole", "cut", "bad"}, complete : BOOLEAN] /\ y.text # "cut"
    <3>1. /\ Yaml("whole", TRUE) \in [text : {"whole", "cut", "bad"}, complete : BOOLEAN]
          /\ Yaml("whole", FALSE) \in [text : {"whole", "cut", "bad"}, complete : BOOLEAN]
          /\ Yaml("bad", TRUE) \in [text : {"whole", "cut", "bad"}, complete : BOOLEAN]
      BY DEF Yaml
    <3>2. \A complete : Yaml("whole", complete).text # "cut" /\ Yaml("bad", complete).text # "cut"
      BY DEF Yaml
    <3> QED BY <3>1, <3>2, Zenon
  <2>4. /\ planning_yaml \in [Case -> [text : {"whole", "cut", "bad"}, complete : BOOLEAN]]
        /\ \A c \in Case : planning_yaml[c].text # "cut"
    BY <2>1, <2>2
  <2>3. result \in [Case -> [by : Job \cup {NoJob}, arrived : {"none", "Success", "Failed"}]]
    BY <2>1 DEF NoResult, Result
  <2> QED BY <2>3, <2>4, ConstantFacts, RegressionAssumption DEF Init, TypeOK, Stage
<1>2. PlanInv
  BY ConstantFacts DEF Init, PlanInv, Job
<1>3. MasterInv
  BY DEF Init, MasterInv
<1> QED BY <1>1, <1>2, <1>3 DEF IInv

\* What all the steps of a job have in common.
LEMMA JobMoves ==
  ASSUME TypeOK, NEW j \in Job, JobStep(j)
  PROVE  /\ ~ Ended(j) /\ stage[j] # "none"
         /\ \E place \in Stage \ {"none", "missing"} :
              /\ stage' = [stage EXCEPT ![j] = place]
              /\ stage[j] \in Going => place \in Going \cup {"died", "over"}
         /\ logdir' \in {logdir, TRUE}
         /\ UNCHANGED <<mainVars, port, listening, changes>>
<1> USE DEF Goto, Stage, Going, Ended
<1>1. CASE Take(j) \/ LookForLog(j) \/ MakeLog(j)
  BY <1>1 DEF Take, LookForLog, MakeLog
<1>2. CASE StartCore(j)
  BY <1>2 DEF StartCore
<1>3. CASE Clean(j)
  BY <1>3 DEF Clean, Die
<1>4. CASE ReadYaml(j)
  BY <1>4 DEF ReadYaml, Die
<1>5. CASE OpenYaml(j) \/ DumpYaml(j)
  BY <1>5 DEF OpenYaml, DumpYaml, WriteYaml
<1>6. CASE LoadParams(j)
  BY <1>6 DEF LoadParams, Die
<1>7. CASE Launch(j)
  BY <1>7 DEF Launch
<1>8. CASE Finish(j)
  BY <1>8 DEF Finish
<1> QED BY <1>1, <1>2, <1>3, <1>4, <1>5, <1>6, <1>7, <1>8 DEF JobStep

LEMMA OthersStay ==
  ASSUME TypeOK, NEW j \in Job, JobStep(j)
  PROVE  \A k \in Job \ {j} : stage'[k] = stage[k]
<1>1. PICK place : stage' = [stage EXCEPT ![j] = place]
  BY JobMoves
<1> QED BY <1>1 DEF TypeOK

\* Setting the text of a planning.yaml.
LEMMA YamlSet ==
  ASSUME TypeOK, NEW c \in Case, NEW contents \in {"whole", "cut"},
         planning_yaml' = [planning_yaml EXCEPT ![c].text = contents]
  PROVE  /\ planning_yaml' \in [Case -> [text : {"whole", "cut", "bad"}, complete : BOOLEAN]]
         /\ planning_yaml'[c].text = contents
         /\ \A d \in Case \ {c} : planning_yaml'[d] = planning_yaml[d]
<1> DEFINE YamlType == [text : {"whole", "cut", "bad"}, complete : BOOLEAN]
<1> DEFINE new == [planning_yaml[c] EXCEPT !.text = contents]
<1>1. planning_yaml \in [Case -> YamlType]
  BY DEF TypeOK
<1>2. planning_yaml' = [planning_yaml EXCEPT ![c] = new]
  OBVIOUS
<1>3. new \in YamlType /\ new.text = contents
  <2>1. planning_yaml[c] \in YamlType
    BY <1>1
  <2> QED BY <2>1
<1> HIDE DEF YamlType, new
<1>4. planning_yaml' \in [Case -> YamlType]
  BY <1>1, <1>2, <1>3
<1>5. planning_yaml'[c] = new /\ \A d \in Case \ {c} : planning_yaml'[d] = planning_yaml[d]
  BY <1>1, <1>2
<1> QED BY <1>3, <1>4, <1>5 DEF YamlType

\* The part of TypeOK that the jobs can change besides their stage.
DataOK ==
  /\ target \in [Job -> Case \cup {NoCase}]
  /\ master \in [Port -> Job \cup {NoJob}] /\ server \in [Port -> Case \cup {NoCase}]
  /\ planning_yaml \in [Case -> [text : {"whole", "cut", "bad"}, complete : BOOLEAN]]
  /\ \A c \in Case : planning_yaml[c].text = "cut" =>
       \E j \in Job : CaseList[j] = c /\ stage[j] = "dump"
  /\ result \in [Case -> [by : Job \cup {NoJob}, arrived : {"none", "Success", "Failed"}]]

LEMMA TypeNext == IInv /\ [Next]_vars => TypeOK'
<1> SUFFICES ASSUME IInv, [Next]_vars PROVE TypeOK'
  OBVIOUS
<1> USE DEF IInv, mainVars, jobVars, rosVars
<1> USE ConstantFacts
<1>1. ASSUME NEW p \in ForeignPorts, Listen(p) PROVE TypeOK'
  <2>1. changes' \in 0..MaxChanges
    <3>1. changes \in 0..MaxChanges
      BY DEF TypeOK
    <3>2. changes < MaxChanges /\ changes' = changes + 1 /\ MaxChanges \in Nat
      BY <1>1, RegressionAssumption DEF Listen
    <3> QED BY <3>1, <3>2
  <2>2. listening' \subseteq ForeignPorts
    <3>1. listening \subseteq ForeignPorts
      BY DEF TypeOK
    <3>2. listening' = listening \ {p} \/ listening' = listening \cup {p}
      BY <1>1 DEF Listen
    <3> QED BY <3>1, <3>2, <1>1
  <2>3. UNCHANGED <<pc, next, base_port, verdict, stage, port, target, master, server, planning_yaml, result, logdir>>
    BY <1>1 DEF Listen
  <2> QED BY <2>1, <2>2, <2>3 DEF TypeOK
<1>2. CASE Submit
  <2>1. PICK seen \in SUBSET (listening \cup {p \in Port : master[p] # NoJob}) :
          port' = [port EXCEPT ![next] = FirstFree(base_port, seen)]
    BY <1>2 DEF Submit
  <2>2. next \in Job
    BY <1>2 DEF Submit
  <2>3. port' \in [Job -> Port]
    BY <2>1, <2>2, FreePort DEF TypeOK
  <2>4. stage' \in [Job -> Stage]
    BY <1>2 DEF Submit, TypeOK, Stage
  <2>5. \A k \in Job : stage[k] = "dump" => stage'[k] = "dump"
    <3>1. stage[next] = "none"
      BY <2>2 DEF PlanInv, Job
    <3> QED BY <1>2, <3>1 DEF Submit, TypeOK
  <2>6. next' \in Nat /\ base_port' \in Nat
    BY <1>2 DEF Submit, TypeOK
  <2>7. UNCHANGED <<pc, verdict, target, rosVars, listening, planning_yaml, result, logdir, changes>>
    BY <1>2 DEF Submit
  <2> QED BY <2>3, <2>4, <2>5, <2>6, <2>7 DEF TypeOK
<1>3. CASE Collect
  <2>1. \A c \in Case : Judge(result[c]) \in {"none", "right", "error", "untreated"}
    BY DEF Judge, TypeOK
  <2>2. verdict' \in [Job -> {"none", "right", "error", "untreated"}]
    BY <1>3, <2>1 DEF Collect
  <2> QED BY <1>3, <2>2 DEF Collect, TypeOK
<1>4. ASSUME NEW j \in Job, JobStep(j) PROVE TypeOK'
  <2>1. /\ \E place \in Stage : stage' = [stage EXCEPT ![j] = place]
        /\ logdir' \in {logdir, TRUE}
        /\ UNCHANGED <<mainVars, port, listening, changes>>
    BY <1>4, JobMoves
  <2>2. stage' \in [Job -> Stage] /\ \A k \in Job \ {j} : stage'[k] = stage[k]
    BY <2>1 DEF TypeOK
  <2>3. SUFFICES DataOK'
    BY <2>1, <2>2 DEF TypeOK, DataOK
  <2> DEFINE CutOK == \A c \in Case : planning_yaml[c].text = "cut" =>
                        \E k \in Job : CaseList[k] = c /\ stage[k] = "dump"
  <2>4. ASSUME UNCHANGED planning_yaml, stage[j] # "dump" PROVE CutOK'
    BY <2>2, <2>4 DEF TypeOK
  <2> HIDE DEF CutOK
  <2>5. CASE Take(j) \/ LookForLog(j) \/ MakeLog(j)
    BY <2>4, <2>5 DEF Take, LookForLog, MakeLog, TypeOK, DataOK, CutOK
  <2>6. ASSUME NEW serverNow \in [Port -> Case \cup {NoCase}], Die(j, serverNow), stage[j] # "dump"
        PROVE  DataOK'
    <3>1. master' \in [Port -> Job \cup {NoJob}]
      BY <2>6 DEF Die, TypeOK
    <3> QED BY <2>4, <2>6, <3>1 DEF Die, TypeOK, DataOK, CutOK
  <2>7. CASE StartCore(j)
    <3>1. master' \in [Port -> Job \cup {NoJob}]
      BY <2>7 DEF StartCore, TypeOK
    <3>2. server' \in [Port -> Case \cup {NoCase}]
      BY <2>7 DEF StartCore, TypeOK
    <3> QED BY <2>4, <2>7, <3>1, <3>2 DEF StartCore, TypeOK, DataOK, CutOK
  <2>8. CASE Clean(j)
    <3>1. server \in [Port -> Case \cup {NoCase}] /\ stage[j] # "dump"
      BY <2>8 DEF TypeOK, Clean
    <3>2. CASE HasMaster(j)
      <4>1. server' \in [Port -> Case \cup {NoCase}]
        BY <2>8, <3>2 DEF Clean, TypeOK
      <4> QED BY <2>4, <2>8, <3>1, <3>2, <4>1 DEF Clean, TypeOK, DataOK, CutOK
    <3>3. CASE ~ HasMaster(j)
      BY <2>6, <2>8, <3>1, <3>3 DEF Clean
    <3> QED BY <3>2, <3>3
  <2>9. CASE ReadYaml(j)
    <3>1. server \in [Port -> Case \cup {NoCase}] /\ stage[j] # "dump"
      BY <2>9 DEF TypeOK, ReadYaml
    <3>2. CASE planning_yaml[CaseList[j]].text = "whole"
      BY <2>4, <2>9, <3>1, <3>2 DEF ReadYaml, TypeOK, DataOK, CutOK
    <3>3. CASE ~ (planning_yaml[CaseList[j]].text = "whole")
      BY <2>6, <2>9, <3>1, <3>3 DEF ReadYaml
    <3> QED BY <3>2, <3>3
  <2>10. CASE OpenYaml(j)
    <3>1. /\ planning_yaml' = [planning_yaml EXCEPT ![CaseList[j]].text = "cut"]
          /\ stage'[j] = "dump" /\ stage[j] = "open"
          /\ UNCHANGED <<target, rosVars, result>>
      BY <2>10 DEF OpenYaml, WriteYaml, Goto, TypeOK
    <3>2. /\ planning_yaml' \in [Case -> [text : {"whole", "cut", "bad"}, complete : BOOLEAN]]
          /\ \A c \in Case \ {CaseList[j]} : planning_yaml'[c] = planning_yaml[c]
      BY <3>1, YamlSet
    <3> QED BY <2>2, <3>1, <3>2 DEF TypeOK, DataOK
  <2>11. CASE DumpYaml(j)
    <3>1. /\ planning_yaml' = [planning_yaml EXCEPT ![CaseList[j]].text = "whole"]
          /\ UNCHANGED <<target, rosVars, result>>
      BY <2>11 DEF DumpYaml, WriteYaml
    <3>2. /\ planning_yaml' \in [Case -> [text : {"whole", "cut", "bad"}, complete : BOOLEAN]]
          /\ planning_yaml'[CaseList[j]].text = "whole"
          /\ \A c \in Case \ {CaseList[j]} : planning_yaml'[c] = planning_yaml[c]
      BY <3>1, YamlSet
    <3> QED BY <2>2, <3>1, <3>2 DEF TypeOK, DataOK
  <2>12. CASE LoadParams(j)
    <3> DEFINE uploaded == [server EXCEPT ![port[j]] = CaseList[j]]
    <3>1. /\ server \in [Port -> Case \cup {NoCase}] /\ uploaded \in [Port -> Case \cup {NoCase}]
          /\ stage[j] # "dump"
      BY <2>12 DEF TypeOK, LoadParams
    <3> HIDE DEF uploaded
    <3>2. CASE \E serverNow \in {server, uploaded} : Die(j, serverNow)
      BY <2>6, <3>1, <3>2
    <3>3. CASE server' = uploaded /\ UNCHANGED <<target, master, planning_yaml, result>>
      BY <2>4, <3>1, <3>3 DEF TypeOK, DataOK, CutOK
    <3> QED BY <2>12, <3>2, <3>3 DEF LoadParams, uploaded
  <2>13. CASE Launch(j)
    <3>1. target' \in [Job -> Case \cup {NoCase}]
      BY <2>13 DEF Launch, TypeOK
    <3> QED BY <2>4, <2>13, <3>1 DEF Launch, TypeOK, DataOK, CutOK
  <2>14. CASE Finish(j)
    <3>1. result' \in [Case -> [by : Job \cup {NoJob}, arrived : {"none", "Success", "Failed"}]]
      <4> DEFINE ResultType == [by : Job \cup {NoJob}, arrived : {"none", "Success", "Failed"}]
      <4>1. \A arrived \in {"Success", "Failed"} : Result(j, arrived) \in ResultType
        BY DEF Result
      <4>2. result \in [Case -> ResultType]
        BY DEF TypeOK
      <4> HIDE DEF ResultType
      <4>3. ASSUME NEW arrived \in {"Success", "Failed"},
                   result' = [result EXCEPT ![target[j]] = Result(j, arrived)]
            PROVE  result' \in [Case -> ResultType]
        <5>1. PICK r \in ResultType : r = Result(j, arrived)
          BY <4>1
        <5> QED BY <4>2, <4>3, <5>1
      <4>5. result' \in [Case -> ResultType]
        BY <2>14, <4>2, <4>3 DEF Finish
      <4> QED BY <4>5 DEF ResultType
    <3>2. target' \in [Job -> Case \cup {NoCase}]
      BY <2>14 DEF Finish, TypeOK
    <3>3. master' \in [Port -> Job \cup {NoJob}]
      BY <2>14 DEF Finish, TypeOK, Stopped
    <3> QED BY <2>4, <2>14, <3>1, <3>2, <3>3 DEF Finish, TypeOK, DataOK, CutOK
  <2> QED BY <1>4, <2>5, <2>7, <2>8, <2>9, <2>10, <2>11, <2>12, <2>13, <2>14 DEF JobStep
<1>5. CASE UNCHANGED vars
  BY <1>5 DEF vars, TypeOK
<1> QED BY <1>1, <1>2, <1>3, <1>4, <1>5 DEF Next, MainStep, Retry, Done

\* The job that main gives out gets a port of at least its own number; the
\* others keep what they have.
LEMMA Given ==
  ASSUME IInv, Submit
  PROVE  /\ next \in Job /\ stage[next] = "none" /\ port[next] = 0
         /\ next' = next + 1 /\ base_port' = base_port + 1 /\ pc # "done"
         /\ stage'[next] \in {"missing", "queued"} /\ port'[next] >= BasePort + next
         /\ \A k \in Job \ {next} : stage'[k] = stage[k] /\ port'[k] = port[k]
         /\ \A k \in Job : stage[k] # "none" => k # next /\ k < next /\ port[k] > 0
         /\ UNCHANGED <<pc, target, master, server, listening, planning_yaml, result>>
<1> USE ConstantFacts DEF IInv, rosVars
<1>1. /\ next \in Job /\ pc = "submit" /\ next' = next + 1 /\ base_port' = base_port + 1
      /\ UNCHANGED <<pc, target, master, server, listening, planning_yaml, result>>
  BY DEF Submit
<1>2. PICK seen \in SUBSET (listening \cup {p \in Port : master[p] # NoJob}) :
        port' = [port EXCEPT ![next] = FirstFree(base_port, seen)]
  BY DEF Submit
<1>3. FirstFree(base_port, seen) >= BasePort + next
  BY <1>1, FreePort DEF PlanInv
<1>4. port'[next] >= BasePort + next /\ \A k \in Job \ {next} : port'[k] = port[k]
  BY <1>1, <1>2, <1>3 DEF TypeOK
<1>5. stage'[next] \in {"missing", "queued"} /\ \A k \in Job \ {next} : stage'[k] = stage[k]
  BY <1>1 DEF Submit, TypeOK
<1>6. stage[next] = "none" /\ port[next] = 0
  BY <1>1 DEF PlanInv
<1>7. \A k \in Job : stage[k] # "none" => k # next /\ k < next /\ port[k] > 0
  <2> SUFFICES ASSUME NEW k \in Job, stage[k] # "none" PROVE k # next /\ k < next /\ port[k] > 0
    OBVIOUS
  <2>1. k < next
    <3>1. ~ (k >= next)
      BY DEF PlanInv
    <3>2. k \in Nat /\ next \in Nat
      BY <1>1
    <3> QED BY <3>1, <3>2
  <2>2. port[k] >= BasePort + k /\ port[k] \in Nat /\ k \in Nat /\ k > 0
    <3>1. port[k] >= BasePort + k
      BY <2>1 DEF PlanInv
    <3>2. port[k] \in Port
      BY DEF TypeOK
    <3>3. k > 0
      BY DEF Job
    <3> QED BY <3>1, <3>2, <3>3
  <2> QED BY <1>1, <2>1, <2>2
<1> QED BY <1>1, <1>4, <1>5, <1>6, <1>7

LEMMA PlanNext == IInv /\ [Next]_vars => PlanInv'
<1> SUFFICES ASSUME IInv, [Next]_vars PROVE PlanInv'
  OBVIOUS
<1> USE ConstantFacts DEF IInv, mainVars, jobVars
<1>1. ASSUME NEW p \in ForeignPorts, Listen(p) PROVE PlanInv'
  BY <1>1 DEF Listen, PlanInv, Ended
<1>2. CASE Submit
  <2>1. next' \in 1..(Len(CaseList) + 1) /\ base_port' = BasePort + next'
    <3>1. next \in Job /\ next' = next + 1 /\ base_port' = base_port + 1
      BY <1>2, Given
    <3>2. base_port = BasePort + next
      BY DEF PlanInv
    <3> QED BY <3>1, <3>2 DEF Job
  <2>2. ASSUME NEW k \in Job
        PROVE  /\ stage'[k] = "none" <=> k >= next'
               /\ IF k < next' THEN port'[k] >= BasePort + k ELSE port'[k] = 0
    <3>1. /\ stage[k] = "none" <=> k >= next
          /\ IF k < next THEN port[k] >= BasePort + k ELSE port[k] = 0
      BY DEF PlanInv
    <3>2. next \in Nat /\ k \in Nat /\ next' = next + 1
      BY <1>2, Given
    <3>3. CASE k = next
      BY <1>2, <3>2, <3>3, Given
    <3>4. CASE k # next
      <4>1. stage'[k] = stage[k] /\ port'[k] = port[k] /\ (k < next' <=> k < next)
        BY <1>2, <3>2, <3>4, Given
      <4> QED BY <3>1, <3>2, <4>1
    <3> QED BY <3>3, <3>4
  <2>3. pc' # "done"
    BY <1>2, Given
  <2> QED BY <2>1, <2>2, <2>3 DEF PlanInv
<1>3. CASE Collect
  BY <1>3 DEF Collect, PlanInv, Ended
<1>4. ASSUME NEW j \in Job, JobStep(j) PROVE PlanInv'
  <2>1. /\ ~ Ended(j) /\ stage[j] # "none"
        /\ \E place \in Stage \ {"none", "missing"} : stage' = [stage EXCEPT ![j] = place]
        /\ UNCHANGED <<next, base_port, pc, port>>
    BY <1>4, JobMoves
  <2>2. pc # "done"
    BY <2>1 DEF PlanInv
  <2>3. \A k \in Job : stage'[k] = "none" <=> stage[k] = "none"
    BY <2>1 DEF TypeOK
  <2> QED BY <2>1, <2>2, <2>3 DEF PlanInv
<1>5. CASE UNCHANGED vars
  BY <1>5 DEF vars, PlanInv, Ended
<1> QED BY <1>1, <1>2, <1>3, <1>4, <1>5 DEF Next, MainStep, Retry, Done

\* What the steps of a job do to the masters: it starts one on its port, or it
\* ends and takes its own away.
LEMMA JobMasters ==
  ASSUME TypeOK, NEW j \in Job, JobStep(j)
  PROVE  /\ \A p \in Port :
              \/ master'[p] = master[p]
              \/ master[p] = j /\ master'[p] = NoJob /\ stage'[j] \in {"died", "over"}
              \/ p = port[j] /\ master[p] = NoJob /\ master'[p] = j /\ stage'[j] = "clean"
         /\ stage'[j] = "over" => \A p \in Port : master'[p] # j
         /\ stage'[j] = "clean" => master'[port[j]] # NoJob
         /\ stage'[j] \in Going \ {"clean"} => stage[j] \in Going
         /\ stage[j] \in {"queued", "look", "mkdir"} \/ stage'[j] \in Going \cup {"died", "over"}
<1> USE ConstantFacts DEF Goto, Going, rosVars
<1>1. CASE Take(j) \/ LookForLog(j) \/ MakeLog(j)
  BY <1>1 DEF Take, LookForLog, MakeLog, TypeOK
<1>2. CASE StartCore(j)
  <2>1. stage'[j] = "clean" /\ port[j] \in Port /\ stage[j] = "core"
    BY <1>2 DEF StartCore, TypeOK
  <2>2. \/ master' = master /\ master[port[j]] # NoJob
        \/ master' = [master EXCEPT ![port[j]] = j] /\ master[port[j]] = NoJob
    BY <1>2 DEF StartCore
  <2> QED BY <2>1, <2>2 DEF TypeOK
<1>3. ASSUME NEW serverNow, Die(j, serverNow)
      PROVE  /\ \A p \in Port :
                  master'[p] = master[p] \/ (master[p] = j /\ master'[p] = NoJob)
             /\ stage'[j] = "died"
  <2>1. \/ master' = master
        \/ master' = [p \in Port |-> IF master[p] = j THEN NoJob ELSE master[p]]
    BY <1>3 DEF Die
  <2>2. stage'[j] = "died"
    BY <1>3 DEF Die, TypeOK
  <2> QED BY <2>1, <2>2
<1>4. CASE Clean(j)
  <2>1. CASE HasMaster(j)
    BY <1>4, <2>1 DEF Clean, TypeOK
  <2>2. CASE ~ HasMaster(j)
    <3>1. Die(j, server)
      BY <1>4, <2>2 DEF Clean
    <3> QED BY <1>3, <3>1
  <2> QED BY <2>1, <2>2
<1>5. CASE ReadYaml(j)
  <2>1. CASE planning_yaml[CaseList[j]].text = "whole"
    BY <1>5, <2>1 DEF ReadYaml, TypeOK
  <2>2. CASE ~ (planning_yaml[CaseList[j]].text = "whole")
    <3>1. Die(j, server)
      BY <1>5, <2>2 DEF ReadYaml
    <3> QED BY <1>3, <3>1
  <2> QED BY <2>1, <2>2
<1>6. CASE OpenYaml(j) \/ DumpYaml(j)
  BY <1>6 DEF OpenYaml, DumpYaml, WriteYaml, TypeOK
<1>7. CASE LoadParams(j)
  <2>1. CASE \E serverNow : Die(j, serverNow)
    BY <1>3, <2>1
  <2>2. CASE ~ \E serverNow : Die(j, serverNow)
    <3>1. stage[j] = "load" /\ Goto(j, "launch") /\ UNCHANGED master
      BY <1>7, <2>2 DEF LoadParams
    <3> QED BY <3>1 DEF TypeOK
  <2> QED BY <2>1, <2>2
<1>8. CASE Launch(j)
  BY <1>8 DEF Launch, TypeOK
<1>9. CASE Finish(j)
  <2>1. stage'[j] = "over" /\ master' = Stopped(j)
    BY <1>9 DEF Finish, TypeOK
  <2> QED BY <2>1 DEF Stopped
<1> QED BY <1>1, <1>2, <1>4, <1>5, <1>6, <1>7, <1>8, <1>9 DEF JobStep

LEMMA MasterNext == IInv /\ [Next]_vars => MasterInv'
<1> SUFFICES ASSUME IInv, [Next]_vars, NEW p \in Port, master'[p] # NoJob
             PROVE  port'[master'[p]] = p /\ stage'[master'[p]] \in Going \cup {"died"}
  BY DEF MasterInv
<1> USE DEF IInv, jobVars, rosVars
<1>1. ASSUME master'[p] = master[p]
      PROVE  /\ master[p] \in Job /\ port[master[p]] = p
             /\ stage[master[p]] \in Going \cup {"died"}
  BY <1>1 DEF TypeOK, MasterInv
<1>2. CASE Submit
  <2>1. master'[p] = master[p] /\ stage[next] = "none"
    BY <1>2, Given
  <2>2. master[p] # next
    BY <1>1, <2>1 DEF Going
  <2> QED BY <1>1, <1>2, <2>1, <2>2, Given
<1>3. ASSUME NEW j \in Job, JobStep(j)
      PROVE  port'[master'[p]] = p /\ stage'[master'[p]] \in Going \cup {"died"}
  <2>1. /\ \E place \in Stage : stage' = [stage EXCEPT ![j] = place]
        /\ port' = port
    BY <1>3, JobMoves
  <2>2. \A k \in Job \ {j} : stage'[k] = stage[k]
    BY <2>1 DEF TypeOK
  <2>3. CASE p = port[j] /\ master'[p] = j /\ stage'[j] = "clean"
    BY <2>1, <2>3 DEF Going
  <2>4. CASE master'[p] = master[p] /\ master[p] # j
    BY <1>1, <2>1, <2>2, <2>4
  <2>5. CASE master'[p] = master[p] /\ master[p] = j
    <3>1. port[j] = p /\ stage[j] \in Going \cup {"died"}
      BY <1>1, <2>5
    <3>2. stage'[j] # "over" /\ stage[j] \notin {"queued", "look", "mkdir"}
      BY <1>3, <2>5, <3>1, JobMasters DEF Going
    <3> QED BY <1>3, <2>1, <2>5, <3>1, <3>2, JobMasters
  <2> QED BY <1>3, <2>3, <2>4, <2>5, JobMasters
<1>4. CASE \/ \E q \in ForeignPorts : Listen(q)
           \/ Collect \/ UNCHANGED vars
  BY <1>1, <1>4 DEF Listen, Collect, vars
<1> QED BY <1>2, <1>3, <1>4 DEF Next, MainStep, Retry, Done

LEMMA Invariant == Spec => []IInv
<1>1. IInv /\ [Next]_vars => IInv'
  BY TypeNext, PlanNext, MasterNext DEF IInv
<1> QED BY <1>1, FirstState, PTL DEF Spec

\* Type correctness, for every list of cases: in particular there always is a
\* free port among those the model allows for.
THEOREM RegressionTyped == Spec => []TypeOK
BY Invariant, PTL DEF IInv

\* When the report is written the only masters left are those of jobs that
\* died: no other job forgets its own.
THEOREM MastersEnd == Spec => []NoMasterLeft
<1>1. IInv => NoMasterLeft
  <2> SUFFICES ASSUME IInv, pc = "done", NEW p \in Port, master[p] # NoJob
               PROVE  stage[master[p]] = "died"
    BY DEF NoMasterLeft
  <2>1. master[p] \in Job /\ stage[master[p]] \in Going \cup {"died"}
    BY DEF IInv, TypeOK, MasterInv
  <2>2. Ended(master[p])
    BY <2>1 DEF IInv, PlanInv
  <2> QED BY <2>1, <2>2 DEF Ended, Going
<1> QED BY <1>1, Invariant, PTL

-----------------------------------------------------------------------------
(* The ports. *)

LEMMA PushNext == IInv /\ PushInv /\ [Next]_vars => PushInv'
<1> SUFFICES ASSUME IInv, PushInv, [Next]_vars, NEW k \in Job, k < next'
             PROVE  \/ port'[k] = BasePort + k
                    \/ \E p \in ForeignPorts : p >= BasePort + 1 /\ p < port'[k]
  BY DEF PushInv
<1> USE ConstantFacts
<1>1. CASE Submit
  <2>1. /\ next \in Job /\ next \in Nat /\ k \in Nat /\ next' = next + 1
        /\ port'[next] >= BasePort + next
        /\ k # next => port'[k] = port[k]
    BY <1>1, Given
  <2>2. CASE k # next
    BY <2>1, <2>2 DEF PushInv
  <2>3. CASE k = next /\ port'[next] # BasePort + next
    <3>1. PICK seen \in SUBSET (listening \cup {p \in Port : master[p] # NoJob}) :
            port' = [port EXCEPT ![next] = FirstFree(base_port, seen)]
      BY <1>1 DEF Submit
    <3>2. /\ port'[next] = FirstFree(base_port, seen) /\ port'[next] \in Port
          /\ \A q \in Port : q >= base_port /\ q \notin seen => port'[next] <= q
      BY <2>1, <3>1, FreePort DEF IInv, TypeOK
    <3>3. base_port = BasePort + next /\ base_port \in Nat /\ base_port < port'[next]
      <4>1. base_port = BasePort + next /\ base_port \in Nat
        BY <2>1 DEF IInv, PlanInv
      <4>2. port'[next] \in Nat /\ port'[next] >= BasePort + next /\ port'[next] # BasePort + next
        BY <2>1, <2>3, <3>2
      <4> QED BY <4>1, <4>2
    <3>4. base_port \in Port
      <4> DEFINE top == BasePort + 2 * Len(CaseList) + Cardinality(ForeignPorts) + 1
      <4>1. top \in Nat /\ Port = 0..top
        BY DEF Port
      <4> HIDE DEF top
      <4>2. port'[next] \in 0..top
        BY <3>2, <4>1
      <4>3. base_port \in 0..top
        BY <3>3, <4>1, <4>2
      <4> QED BY <4>1, <4>3
    <3>5. base_port \in seen
      <4>1. port'[next] \in Nat
        BY <3>2
      <4>2. ~ (port'[next] <= base_port) /\ base_port >= base_port
        BY <3>3, <4>1
      <4> QED BY <3>2, <3>4, <4>2
    <3>6. CASE base_port \in listening
      <4>1. base_port \in ForeignPorts
        BY <3>6 DEF IInv, TypeOK
      <4>2. base_port >= BasePort + 1
        BY <2>1, <3>3 DEF Job
      <4> QED BY <2>3, <3>3, <4>1, <4>2
    <3>7. CASE master[base_port] # NoJob
      <4>1. PICK i \in Job : i = master[base_port]
        BY <3>4, <3>7 DEF IInv, TypeOK
      <4>2. port[i] = base_port /\ stage[i] # "none"
        BY <3>4, <3>7, <4>1 DEF IInv, MasterInv, Going
      <4>3. i < next
        BY <1>1, <4>2, Given
      <4>4. port[i] # BasePort + i
        BY <2>1, <3>3, <4>2, <4>3
      <4>5. PICK p \in ForeignPorts : p >= BasePort + 1 /\ p < port[i]
        BY <4>3, <4>4 DEF PushInv
      <4>6. p < port'[k]
        <5>1. p \in Nat /\ port'[next] \in Nat /\ p < base_port
          BY <3>2, <4>2, <4>5
        <5> QED BY <2>3, <3>3, <5>1
      <4> QED BY <4>5, <4>6
    <3> QED BY <3>1, <3>5, <3>6, <3>7
  <2> QED BY <2>2, <2>3
<1>2. ASSUME UNCHANGED <<next, port>>
      PROVE  \/ port'[k] = BasePort + k
             \/ \E p \in ForeignPorts : p >= BasePort + 1 /\ p < port'[k]
  BY <1>2 DEF PushInv
<1>3. ASSUME NEW j \in Job, JobStep(j)
      PROVE  UNCHANGED <<next, port>>
  BY <1>3, JobMoves DEF mainVars, IInv
<1>4. CASE \/ \E q \in ForeignPorts : Listen(q)
           \/ Collect \/ UNCHANGED vars
  BY <1>2, <1>4 DEF Listen, Collect, vars, mainVars, jobVars
<1> QED BY <1>1, <1>2, <1>3, <1>4 DEF Next, MainStep, Retry, Done

\* Two jobs meet on a port only if another program listened on one below it.
THEOREM NoMeetingUnpushed == Spec => []MeetOnlyWhenPushed
<1>1. Init => PushInv
  BY ConstantFacts DEF Init, PushInv, Job
<1>2. IInv /\ PushInv => MeetOnlyWhenPushed
  <2> SUFFICES ASSUME IInv, PushInv, NEW j \in Job, NEW k \in Job,
                      j < k, port[j] = port[k], port[j] # 0
               PROVE  /\ port[j] >= BasePort + k
                      /\ \E p \in ForeignPorts : p >= BasePort + 1 /\ p < port[j]
    BY DEF MeetOnlyWhenPushed
  <2>1. j < next /\ port[k] >= BasePort + k
    BY DEF IInv, PlanInv
  <2>2. port[j] # BasePort + j
    BY <2>1, ConstantFacts
  <2> QED BY <2>1, <2>2 DEF PushInv
<1> QED BY <1>1, <1>2, PushNext, Invariant, PTL DEF Spec

-----------------------------------------------------------------------------
(* The parameters and the results. *)

\* What the steps of a job do to the servers, the targets and the results.
LEMMA JobParams ==
  ASSUME IInv, NEW j \in Job, JobStep(j)
  PROVE  /\ \A p \in Port :
              \/ server'[p] \in {server[p], NoCase}
              \/ p = port[j] /\ server'[p] = CaseList[j]
         /\ \A k \in Job :
              \/ target'[k] \in {target[k], NoCase}
              \/ k = j /\ target'[k] = server[port[j]]
         /\ \A c \in Case :
              \/ result'[c] = result[c]
              \/ c = target[j] /\ c # NoCase /\ result'[c].by = j
<1> USE ConstantFacts DEF IInv, jobVars, rosVars
<1> DEFINE ServersOK == \A p \in Port : \/ server'[p] \in {server[p], NoCase}
                                        \/ p = port[j] /\ server'[p] = CaseList[j]
<1>1. CASE Take(j) \/ LookForLog(j) \/ MakeLog(j)
  BY <1>1 DEF Take, LookForLog, MakeLog
<1>2. CASE StartCore(j)
  <2>1. \/ server' = server
        \/ server' = [server EXCEPT ![port[j]] = NoCase]
    BY <1>2 DEF StartCore
  <2>2. ServersOK
    BY <2>1 DEF TypeOK
  <2>3. UNCHANGED <<target, result>>
    BY <1>2 DEF StartCore
  <2> QED BY <2>2, <2>3
<1>3. ASSUME NEW serverNow, Die(j, serverNow)
      PROVE  server' = serverNow /\ UNCHANGED <<target, result>>
  BY <1>3 DEF Die
<1>4. CASE Clean(j)
  <2>1. /\ \/ server' = server
           \/ server' = [server EXCEPT ![port[j]] = NoCase]
        /\ UNCHANGED <<target, result>>
    BY <1>3, <1>4 DEF Clean
  <2>2. ServersOK
    BY <2>1 DEF TypeOK
  <2> QED BY <2>1, <2>2
<1>5. CASE ReadYaml(j)
  <2>1. UNCHANGED <<server, target, result>>
    BY <1>3, <1>5 DEF ReadYaml
  <2> QED BY <2>1
<1>6. CASE OpenYaml(j) \/ DumpYaml(j)
  BY <1>6 DEF OpenYaml, DumpYaml, WriteYaml
<1>7. CASE LoadParams(j)
  <2>1. /\ \/ server' = server
           \/ server' = [server EXCEPT ![port[j]] = CaseList[j]]
        /\ UNCHANGED <<target, result>>
    BY <1>3, <1>7 DEF LoadParams
  <2>2. ServersOK
    BY <2>1 DEF TypeOK
  <2> QED BY <2>1, <2>2
<1>8. CASE Launch(j)
  <2>1. /\ target' = [target EXCEPT ![j] = IF HasMaster(j) THEN server[port[j]] ELSE NoCase]
        /\ UNCHANGED <<server, result>>
    BY <1>8 DEF Launch
  <2>2. \A k \in Job : \/ target'[k] \in {target[k], NoCase}
                       \/ k = j /\ target'[k] = server[port[j]]
    BY <2>1 DEF TypeOK
  <2> QED BY <2>1, <2>2
<1>9. CASE Finish(j)
  <2>1. /\ target' = [k \in Job |-> IF k # j /\ port[k] = port[j] THEN NoCase ELSE target[k]]
        /\ UNCHANGED server
    BY <1>9 DEF Finish
  <2>2. \/ UNCHANGED result
        \/ /\ target[j] # NoCase
           /\ \E arrived : result' = [result EXCEPT ![target[j]] = Result(j, arrived)]
    BY <1>9 DEF Finish
  <2>3. \A c \in Case : \/ result'[c] = result[c]
                        \/ c = target[j] /\ c # NoCase /\ result'[c].by = j
    BY <2>2 DEF TypeOK, Result
  <2> QED BY <2>1, <2>3
<1> QED BY <1>1, <1>2, <1>4, <1>5, <1>6, <1>7, <1>8, <1>9 DEF JobStep

LEMMA ParamNext == IInv /\ ParamInv /\ [Next]_vars => ParamInv'
<1> SUFFICES ASSUME IInv, ParamInv, [Next]_vars PROVE ParamInv'
  OBVIOUS
<1> USE ConstantFacts
<1>1. ASSUME UNCHANGED <<next, port, server, target, result>> PROVE ParamInv'
  BY <1>1 DEF ParamInv, OnPort
<1>2. CASE Submit
  <2>1. /\ next' = next + 1 /\ next \in Nat /\ UNCHANGED <<server, target, result>>
        /\ \A k \in Job : k < next => port'[k] = port[k]
    <3>1. next \in Job
      BY <1>2, Given
    <3> QED BY <1>2, <3>1, Given
  <2>2. \A k \in Job : k < next => k < next'
    BY <2>1
  <2>3. \A c, p : OnPort(c, p) => OnPort(c, p)'
    BY <2>1, <2>2 DEF OnPort
  <2>4. ASSUME NEW c \in Case, result[c].by # NoJob
        PROVE  /\ result[c].by \in Job /\ result[c].by < next'
               /\ port'[result[c].by] = port[result[c].by]
    BY <2>1, <2>2, <2>4 DEF ParamInv
  <2>5. ASSUME NEW j \in Job, target[j] # NoCase PROVE j < next' /\ port'[j] = port[j]
    BY <2>1, <2>2, <2>5 DEF ParamInv
  <2>6. \A p \in Port : server'[p] # NoCase => OnPort(server[p], p)'
    BY <2>1, <2>3 DEF ParamInv, OnPort
  <2>7. \A j \in Job : target'[j] # NoCase => j < next' /\ OnPort(target[j], port[j])'
    BY <2>1, <2>3, <2>5 DEF ParamInv, OnPort
  <2>8. \A c \in Case : result'[c].by # NoJob =>
          result'[c].by \in Job /\ result'[c].by < next' /\ OnPort(c, port[result[c].by])'
    BY <2>1, <2>3, <2>4 DEF ParamInv, OnPort
  <2> QED BY <2>6, <2>7, <2>8 DEF ParamInv
<1>3. ASSUME NEW j \in Job, JobStep(j) PROVE ParamInv'
  <2>1. UNCHANGED <<next, port>>
    BY <1>3, JobMoves DEF mainVars, IInv
  <2>2. j < next
    <3>1. stage[j] # "none"
      BY <1>3, JobMoves DEF IInv
    <3>2. ~ (j >= next) /\ next \in Nat
      BY <3>1 DEF IInv, PlanInv
    <3> QED BY <3>2
  <2>3. port[j] \in Port
    BY DEF IInv, TypeOK
  <2>4. OnPort(CaseList[j], port[j])
    BY <2>2 DEF OnPort
  <2>5. ASSUME NEW p \in Port, server'[p] # NoCase PROVE OnPort(server[p], p)'
    <3>1. \/ server'[p] = server[p] /\ OnPort(server[p], p)
          \/ server'[p] = CaseList[j] /\ p = port[j]
      BY <1>3, <2>5, JobParams DEF ParamInv
    <3> QED BY <2>1, <2>4, <3>1 DEF OnPort
  <2>6. ASSUME NEW k \in Job, target'[k] # NoCase
        PROVE  k < next' /\ OnPort(target[k], port[k])'
    <3>1. \/ target'[k] = target[k] /\ k < next /\ OnPort(target[k], port[k])
          \/ target'[k] = server[port[j]] /\ k = j
      BY <1>3, <2>6, JobParams DEF ParamInv
    <3>2. server[port[j]] # NoCase => OnPort(server[port[j]], port[j])
      BY <2>3 DEF ParamInv
    <3> QED BY <2>1, <2>2, <2>6, <3>1, <3>2 DEF OnPort
  <2>7. ASSUME NEW c \in Case, result'[c].by # NoJob
        PROVE  /\ result'[c].by \in Job /\ result'[c].by < next'
               /\ OnPort(c, port[result[c].by])'
    <3>1. CASE result'[c] = result[c]
      <4>1. result[c].by \in Job /\ result[c].by < next /\ OnPort(c, port[result[c].by])
        BY <2>7, <3>1 DEF ParamInv
      <4> QED BY <2>1, <3>1, <4>1 DEF OnPort
    <3>2. CASE c = target[j] /\ c # NoCase /\ result'[c].by = j
      <4>1. OnPort(c, port[j])
        BY <3>2 DEF ParamInv
      <4> QED BY <2>1, <2>2, <3>2, <4>1 DEF OnPort
    <3> QED BY <1>3, <3>1, <3>2, JobParams
  <2> QED BY <2>5, <2>6, <2>7 DEF ParamInv
<1>4. CASE \/ \E q \in ForeignPorts : Listen(q)
           \/ Collect \/ UNCHANGED vars
  BY <1>1, <1>4 DEF Listen, Collect, vars, mainVars, jobVars, rosVars
<1> QED BY <1>2, <1>3, <1>4 DEF Next, MainStep, Retry, Done

\* A result in the directory of a case was written by a job of the case or by
\* one that shared its port with such a job.
THEOREM ResultsAreOwn == Spec => []ResultOfItsOwnCase
<1>1. Init => ParamInv
  <2> SUFFICES ASSUME Init PROVE \A c \in Case : result[c].by = NoJob
    BY DEF Init, ParamInv
  <2>1. result \in [Case -> {NoResult, Result(NoJob, "Success")}]
    BY DEF Init
  <2>2. NoResult.by = NoJob /\ Result(NoJob, "Success").by = NoJob
    BY DEF NoResult, Result
  <2> QED BY <2>1, <2>2
<1>2. ParamInv => ResultOfItsOwnCase
  BY DEF ParamInv, OnPort, ResultOfItsOwnCase
<1> QED BY <1>1, <1>2, ParamNext, Invariant, PTL DEF Spec

-----------------------------------------------------------------------------
(* The jobs that die. *)

\* A job that has been given out keeps its port, and those it shares it with.
LEMMA PortsStay ==
  ASSUME IInv, [Next]_vars, NEW k \in Job, stage[k] # "none"
  PROVE  port'[k] = port[k] /\ (Shares(k) => Shares(k)')
<1>1. CASE Submit
  <2>1. /\ port[next] = 0 /\ k # next /\ port[k] > 0
        /\ \A i \in Job \ {next} : port'[i] = port[i]
    BY <1>1, Given
  <2>2. ASSUME NEW i \in Job \ {k}, port[i] = port[k] PROVE port'[i] = port'[k]
    <3>1. i # next
      BY <2>1, <2>2
    <3> QED BY <2>1, <2>2, <3>1
  <2> QED BY <2>1, <2>2 DEF Shares
<1>2. ASSUME NEW j \in Job, JobStep(j)
      PROVE  UNCHANGED port
  BY <1>2, JobMoves DEF IInv
<1>3. CASE \/ \E q \in ForeignPorts : Listen(q)
           \/ Collect \/ UNCHANGED vars
  <2>1. UNCHANGED port
    BY <1>3 DEF Listen, Collect, vars, jobVars
  <2> QED BY <2>1 DEF Shares
<1>4. ASSUME UNCHANGED port PROVE port'[k] = port[k] /\ (Shares(k) => Shares(k)')
  BY <1>4 DEF Shares
<1> QED BY <1>1, <1>2, <1>3, <1>4 DEF Next, MainStep, Retry, Done

LEMMA WorkNext == IInv /\ WorkInv /\ [Next]_vars => WorkInv'
<1> SUFFICES ASSUME IInv, WorkInv, [Next]_vars, NEW k \in Job, stage'[k] \in Going
             PROVE  HasMaster(k)' \/ Shares(k)'
  BY DEF WorkInv
<1>1. ASSUME stage[k] \in Going, UNCHANGED master PROVE HasMaster(k)' \/ Shares(k)'
  <2>1. stage[k] # "none"
    BY <1>1 DEF Going
  <2>2. HasMaster(k) \/ Shares(k)
    BY <1>1 DEF WorkInv
  <2> QED BY <1>1, <2>1, <2>2, PortsStay DEF HasMaster
<1>2. CASE Submit
  <2>1. k # next /\ stage'[k] = stage[k] /\ UNCHANGED master
    BY <1>2, Given DEF Going
  <2> QED BY <1>1, <2>1
<1>3. ASSUME NEW j \in Job, JobStep(j) PROVE HasMaster(k)' \/ Shares(k)'
  <2>1. UNCHANGED port /\ stage[j] # "none"
    BY <1>3, JobMoves DEF IInv
  <2>2. \A i \in Job \ {j} : stage'[i] = stage[i]
    BY <1>3, OthersStay DEF IInv
  <2>3. port[k] \in Port
    BY DEF IInv, TypeOK
  <2>4. CASE k = j /\ stage'[j] = "clean"
    BY <1>3, <2>1, <2>4, JobMasters DEF HasMaster, IInv
  <2>5. CASE stage[k] \in Going
    <3>1. stage[k] # "none"
      BY <2>5 DEF Going
    <3>2. CASE Shares(k)
      BY <3>1, <3>2, PortsStay
    <3>3. CASE HasMaster(k) /\ HasMaster(k)'
      BY <3>3
    <3>4. CASE HasMaster(k) /\ ~ HasMaster(k)'
      <4>1. master[port[k]] # NoJob /\ master'[port[k]] = NoJob
        BY <2>1, <3>4 DEF HasMaster
      <4>2. master[port[k]] = j /\ stage'[j] \in {"died", "over"}
        BY <1>3, <2>3, <4>1, JobMasters, ConstantFacts DEF IInv
      <4>3. port[j] = port[k] /\ k # j
        BY <2>3, <4>1, <4>2 DEF IInv, MasterInv, Going
      <4> QED BY <2>1, <4>3 DEF Shares
    <3>5. HasMaster(k) \/ Shares(k)
      BY <2>5 DEF WorkInv
    <3> QED BY <3>2, <3>3, <3>4, <3>5
  <2>6. CASE k = j /\ stage'[j] # "clean"
    <3>1. stage[k] \in Going
      BY <1>3, <2>6, JobMasters DEF IInv
    <3> QED BY <2>5, <3>1
  <2>7. CASE k # j
    BY <2>2, <2>5, <2>7
  <2> QED BY <2>4, <2>6, <2>7
<1>4. CASE \/ \E q \in ForeignPorts : Listen(q)
           \/ Collect \/ UNCHANGED vars
  <2>1. UNCHANGED <<stage, master>>
    BY <1>4 DEF Listen, Collect, vars, jobVars, rosVars
  <2> QED BY <1>1, <2>1
<1> QED BY <1>2, <1>3, <1>4 DEF Next, MainStep, Retry, Done

Repeated(j) == \E k \in Job \ {j} : CaseList[k] = CaseList[j]
BadYaml(j) == planning_yaml[CaseList[j]].text = "bad" \/ ~ planning_yaml[CaseList[j]].complete
Excused(j) == BadYaml(j) \/ Shares(j) \/ Repeated(j)

\* A file that is found cut is being written by another job of the case.
LEMMA CutByOther ==
  ASSUME IInv, NEW j \in Job, stage[j] # "dump", planning_yaml[CaseList[j]].text = "cut"
  PROVE  Repeated(j)
BY ConstantFacts DEF IInv, TypeOK, Repeated

LEMMA JobDies ==
  ASSUME IInv, WorkInv, NEW j \in Job, JobStep(j)
  PROVE  /\ stage'[j] = "died" => Excused(j) /\ UNCHANGED planning_yaml
         /\ \A c \in Case \ {CaseList[j]} : planning_yaml'[c] = planning_yaml[c]
<1> USE ConstantFacts DEF IInv, Goto
<1>1. stage \in [Job -> Stage]
  BY DEF TypeOK
<1>2. planning_yaml[CaseList[j]].text \in {"whole", "cut", "bad"}
  BY DEF TypeOK
<1>3. CASE Take(j) \/ LookForLog(j) \/ MakeLog(j) \/ StartCore(j) \/ Launch(j) \/ Finish(j)
  BY <1>1, <1>3 DEF Take, LookForLog, MakeLog, StartCore, Launch, Finish
<1>4. CASE Clean(j)
  <2>1. CASE HasMaster(j)
    BY <1>1, <1>4, <2>1 DEF Clean
  <2>2. CASE ~ HasMaster(j)
    <3>1. stage[j] \in Going
      BY <1>4 DEF Clean, Going
    <3>2. Shares(j)
      BY <2>2, <3>1 DEF WorkInv
    <3>3. UNCHANGED planning_yaml
      BY <1>4, <2>2 DEF Clean, Die
    <3> QED BY <3>2, <3>3 DEF Excused
  <2> QED BY <2>1, <2>2
<1>5. CASE ReadYaml(j)
  <2>1. CASE planning_yaml[CaseList[j]].text = "whole"
    BY <1>1, <1>5, <2>1 DEF ReadYaml
  <2>2. CASE planning_yaml[CaseList[j]].text # "whole"
    <3>1. stage[j] # "dump" /\ UNCHANGED planning_yaml
      BY <1>5, <2>2 DEF ReadYaml, Die
    <3>2. BadYaml(j) \/ Repeated(j)
      BY <1>2, <2>2, <3>1, CutByOther DEF BadYaml
    <3> QED BY <3>1, <3>2 DEF Excused
  <2> QED BY <2>1, <2>2
<1>6. CASE OpenYaml(j) \/ DumpYaml(j)
  <2>1. PICK contents \in {"whole", "cut"} :
          planning_yaml' = [planning_yaml EXCEPT ![CaseList[j]].text = contents]
    BY <1>6 DEF OpenYaml, DumpYaml, WriteYaml
  <2>2. \A c \in Case \ {CaseList[j]} : planning_yaml'[c] = planning_yaml[c]
    BY <2>1, YamlSet
  <2>3. stage'[j] # "died"
    BY <1>1, <1>6 DEF OpenYaml, DumpYaml, WriteYaml
  <2> QED BY <2>2, <2>3
<1>7. CASE LoadParams(j)
  <2>1. UNCHANGED planning_yaml /\ stage[j] = "load"
    BY <1>7 DEF LoadParams, Die
  <2>2. CASE /\ HasMaster(j) /\ planning_yaml[CaseList[j]].text = "whole"
             /\ planning_yaml[CaseList[j]].complete
    <3>1. Goto(j, "launch")
      BY <1>7, <2>2 DEF LoadParams
    <3> QED BY <1>1, <2>1, <3>1
  <2>3. CASE ~ HasMaster(j)
    <3>1. Shares(j)
      BY <2>1, <2>3 DEF WorkInv, Going
    <3> QED BY <2>1, <3>1 DEF Excused
  <2>4. CASE planning_yaml[CaseList[j]].text # "whole" \/ ~ planning_yaml[CaseList[j]].complete
    <3>1. BadYaml(j) \/ Repeated(j)
      BY <1>2, <2>1, <2>4, CutByOther DEF BadYaml
    <3> QED BY <2>1, <3>1 DEF Excused
  <2> QED BY <2>2, <2>3, <2>4
<1> QED BY <1>3, <1>4, <1>5, <1>6, <1>7 DEF JobStep

\* The first part of DiedForAReason.
DiedExcused == \A j \in Job : stage[j] = "died" => Excused(j)

LEMMA DiedNext == IInv /\ WorkInv /\ DiedExcused /\ [Next]_vars => DiedExcused'
<1> SUFFICES ASSUME IInv, WorkInv, DiedExcused, [Next]_vars,
                    NEW k \in Job, stage'[k] = "died"
             PROVE  Excused(k)'
  BY DEF DiedExcused
<1>1. ASSUME stage[k] = "died", planning_yaml'[CaseList[k]] = planning_yaml[CaseList[k]] \/ Repeated(k)
      PROVE  Excused(k)'
  <2>1. Excused(k)
    BY <1>1 DEF DiedExcused
  <2>2. stage[k] # "none"
    BY <1>1
  <2>3. Shares(k) => Shares(k)'
    BY <2>2, PortsStay
  <2>4. Repeated(k)' <=> Repeated(k)
    BY DEF Repeated
  <2>5. CASE Repeated(k)
    BY <2>4, <2>5, Zenon DEF Excused
  <2>6. CASE planning_yaml'[CaseList[k]] = planning_yaml[CaseList[k]]
    <3>1. BadYaml(k)' <=> BadYaml(k)
      BY <2>6 DEF BadYaml
    <3> QED BY <2>1, <2>3, <2>4, <3>1, Zenon DEF Excused
  <2> QED BY <1>1, <2>5, <2>6
<1>2. CASE Submit
  <2>1. k # next /\ stage'[k] = stage[k] /\ UNCHANGED planning_yaml
    BY <1>2, Given
  <2> QED BY <1>1, <2>1
<1>3. ASSUME NEW j \in Job, JobStep(j) PROVE Excused(k)'
  <2>1. CASE k # j
    <3>1. stage[k] = "died"
      BY <1>3, <2>1, OthersStay DEF IInv
    <3>2. CASE CaseList[k] = CaseList[j]
      BY <1>1, <2>1, <3>1, <3>2 DEF Repeated
    <3>3. CASE CaseList[k] # CaseList[j]
      BY <1>1, <1>3, <3>1, <3>3, JobDies, ConstantFacts
    <3> QED BY <3>2, <3>3
  <2>2. CASE k = j
    <3>1. Excused(k) /\ UNCHANGED planning_yaml /\ UNCHANGED port
      BY <1>3, <2>2, JobDies, JobMoves DEF IInv
    <3>2. BadYaml(k)' <=> BadYaml(k)
      BY <3>1, Zenon DEF BadYaml
    <3>3. (Shares(k)' <=> Shares(k)) /\ (Repeated(k)' <=> Repeated(k))
      BY <3>1, Zenon DEF Shares, Repeated
    <3> QED BY <3>1, <3>2, <3>3, Zenon DEF Excused
  <2> QED BY <2>1, <2>2
<1>4. CASE \/ \E q \in ForeignPorts : Listen(q)
           \/ Collect \/ UNCHANGED vars
  <2>1. UNCHANGED <<stage, planning_yaml>>
    BY <1>4 DEF Listen, Collect, vars, jobVars
  <2> QED BY <1>1, <2>1
<1> QED BY <1>2, <1>3, <1>4 DEF Next, MainStep, Retry, Done

-----------------------------------------------------------------------------
(* The directory log. *)

Looked == {j \in Job : stage[j] = "mkdir"}
Early == {"none", "missing", "queued", "look", "mkdir", "outrun"}

\* No job was too late before there is the directory.  From then on, those that
\* are or will be were busy when it was made, together with the job that made it.
RaceInv ==
  /\ Cardinality(Busy) <= Workers
  /\ ~ logdir => Outrun = {}
  /\ logdir => /\ Cardinality(Outrun \cup Looked) < Workers
               /\ Outrun \cup Looked # {} => \E k \in Job : stage[k] \notin Early

\* What a job's step has to do with the directory.
LEMMA JobLooks ==
  ASSUME TypeOK, NEW j \in Job, JobStep(j)
  PROVE  /\ \A k \in Job \ {j} : stage'[k] = stage[k]
         /\ \/ /\ stage[j] = "queued" /\ stage'[j] = "look" /\ UNCHANGED logdir
               /\ Cardinality(Busy) < Workers
            \/ /\ stage[j] = "look" /\ UNCHANGED logdir
               /\ stage'[j] = IF logdir THEN "core" ELSE "mkdir"
            \/ /\ stage[j] = "mkdir" /\ logdir' = TRUE
               /\ stage'[j] = IF logdir THEN "outrun" ELSE "core"
            \/ /\ stage[j] \notin Early /\ ~ Ended(j) /\ UNCHANGED logdir
               /\ stage'[j] \notin Early
<1>1. \A k \in Job \ {j} : stage'[k] = stage[k]
  BY OthersStay
<1>2. CASE Take(j)
  BY <1>1, <1>2 DEF Take, Goto, TypeOK
<1>3. CASE LookForLog(j)
  BY <1>1, <1>3 DEF LookForLog, Goto, TypeOK
<1>4. CASE MakeLog(j)
  BY <1>1, <1>4 DEF MakeLog, Goto, TypeOK
<1> USE DEF Goto, Early, Ended
<1>5. CASE StartCore(j)
  BY <1>1, <1>5 DEF StartCore, TypeOK
<1>6. CASE Clean(j)
  BY <1>1, <1>6 DEF Clean, Die, TypeOK
<1>7. CASE ReadYaml(j)
  BY <1>1, <1>7 DEF ReadYaml, Die, TypeOK
<1>8. CASE OpenYaml(j) \/ DumpYaml(j)
  BY <1>1, <1>8 DEF OpenYaml, DumpYaml, WriteYaml, TypeOK
<1>9. CASE LoadParams(j)
  BY <1>1, <1>9 DEF LoadParams, Die, TypeOK
<1>10. CASE Launch(j)
  BY <1>1, <1>10 DEF Launch, TypeOK
<1>11. CASE Finish(j)
  BY <1>1, <1>11 DEF Finish, TypeOK
<1> QED BY <1>2, <1>3, <1>4, <1>5, <1>6, <1>7, <1>8, <1>9, <1>10, <1>11 DEF JobStep

\* Job is finite, and so are its subsets.
LEMMA JobSets ==
  ASSUME NEW S \in SUBSET Job
  PROVE  IsFiniteSet(S) /\ Cardinality(S) \in Nat
<1>1. IsFiniteSet(1..Len(CaseList))
  BY ConstantFacts, FS_Interval
<1> QED BY <1>1, FS_Subset, FS_CardinalityType DEF Job

LEMMA RaceNext == IInv /\ RaceInv /\ [Next]_vars => RaceInv'
<1> SUFFICES ASSUME IInv, RaceInv, [Next]_vars PROVE RaceInv'
  OBVIOUS
<1> USE ConstantFacts DEF IInv
<1>1. /\ Busy \in SUBSET Job /\ Outrun \in SUBSET Job /\ Looked \in SUBSET Job
      /\ Busy' \in SUBSET Job /\ Outrun' \in SUBSET Job /\ Looked' \in SUBSET Job
  BY DEF Busy, Outrun, Looked
<1>2. Workers \in Nat
  BY RegressionAssumption
<1>3. ASSUME Busy' = Busy, Outrun' = Outrun, Looked' = Looked, UNCHANGED logdir,
             \A k \in Job : stage[k] \notin Early => stage'[k] \notin Early
      PROVE  RaceInv'
  BY <1>3 DEF RaceInv
<1>4. CASE Submit
  <2>1. UNCHANGED logdir
    BY <1>4 DEF Submit
  <2>2. /\ next \in Job /\ stage[next] = "none" /\ stage'[next] \in {"missing", "queued"}
        /\ \A k \in Job \ {next} : stage'[k] = stage[k]
    BY <1>4, Given
  <2>3. Busy' = Busy /\ Outrun' = Outrun /\ Looked' = Looked
    BY <2>2 DEF Busy, Ended, Outrun, Looked
  <2>4. \A k \in Job : stage[k] \notin Early => stage'[k] \notin Early
    BY <2>2 DEF Early
  <2> QED BY <1>3, <2>1, <2>3, <2>4
<1>5. ASSUME NEW j \in Job, JobStep(j) PROVE RaceInv'
  <2> DEFINE late == Outrun \cup Looked
  <2>1. \A k \in Job \ {j} : stage'[k] = stage[k]
    BY <1>5, JobLooks
  <2>2. late \in SUBSET Job /\ late' \in SUBSET Job
    BY <1>1
  <2>3. CASE /\ stage[j] = "queued" /\ stage'[j] = "look" /\ UNCHANGED logdir
             /\ Cardinality(Busy) < Workers
    <3>1. Busy' = Busy \cup {j} /\ Outrun' = Outrun /\ Looked' = Looked
      BY <2>1, <2>3 DEF Busy, Ended, Outrun, Looked
    <3>2. Cardinality(Busy') <= Cardinality(Busy) + 1
      <4>1. IsFiniteSet(Busy) /\ Cardinality(Busy) \in Nat
        BY <1>1, JobSets
      <4>2. Cardinality(Busy \cup {j}) = IF j \in Busy THEN Cardinality(Busy) ELSE Cardinality(Busy) + 1
        BY <4>1, FS_AddElement
      <4> QED BY <3>1, <4>1, <4>2
    <3>3. Cardinality(Busy') <= Workers
      BY <1>1, <1>2, <2>3, <3>2, JobSets
    <3>4. \A k \in Job : stage[k] \notin Early => stage'[k] \notin Early
      BY <2>1, <2>3 DEF Early
    <3> QED BY <2>3, <3>1, <3>3, <3>4 DEF RaceInv
  <2>4. CASE /\ stage[j] = "mkdir" /\ ~ logdir /\ logdir' = TRUE /\ stage'[j] = "core"
    <3>1. Busy' = Busy /\ Outrun' = {} /\ Looked' = Looked \ {j} /\ j \in Busy
      BY <2>1, <2>4 DEF Busy, Ended, Outrun, Looked, RaceInv
    <3>2. late' \subseteq Busy \ {j}
      BY <2>4, <3>1 DEF Busy, Looked, Ended
    <3>3. Cardinality(late') <= Cardinality(Busy \ {j}) /\ Cardinality(Busy \ {j}) = Cardinality(Busy) - 1
      <4>1. IsFiniteSet(Busy) /\ IsFiniteSet(Busy \ {j})
        BY <1>1, JobSets
      <4> HIDE DEF late
      <4>2. Cardinality(late') <= Cardinality(Busy \ {j})
        BY <3>2, <4>1, FS_Subset
      <4>3. Cardinality(Busy \ {j}) = Cardinality(Busy) - 1
        BY <3>1, <4>1, FS_RemoveElement
      <4> QED BY <4>2, <4>3
    <3>4. Cardinality(late') < Workers
      <4>1. Cardinality(Busy) \in Nat /\ Cardinality(late') \in Nat /\ Cardinality(Busy) <= Workers
        BY <1>1, <2>2, JobSets DEF RaceInv
      <4> HIDE DEF late
      <4> QED BY <1>2, <3>3, <4>1
    <3>5. stage'[j] \notin Early
      BY <2>4 DEF Early
    <3> QED BY <2>4, <3>1, <3>4, <3>5 DEF RaceInv
  <2>5. CASE /\ ~ Ended(j) /\ stage[j] # "none" /\ stage[j] # "queued"
             /\ stage[j] # "mkdir" \/ logdir
             /\ UNCHANGED logdir
             /\ stage'[j] = "mkdir" => ~ logdir
             /\ stage'[j] = "outrun" => stage[j] = "mkdir"
             /\ stage[j] \notin Early => stage'[j] \notin Early
    <3>1. Busy' \subseteq Busy
      BY <2>1, <2>5 DEF Busy, Ended
    <3>2. Cardinality(Busy') <= Workers
      <4>1. IsFiniteSet(Busy) /\ Cardinality(Busy) \in Nat /\ Cardinality(Busy') \in Nat
        BY <1>1, JobSets
      <4>2. Cardinality(Busy') <= Cardinality(Busy)
        BY <3>1, <4>1, FS_Subset
      <4> QED BY <1>2, <4>1, <4>2 DEF RaceInv
    <3>3. CASE ~ logdir
      <4>1. Outrun' = {}
        BY <2>1, <2>5, <3>3 DEF Outrun, RaceInv
      <4> QED BY <2>5, <3>2, <3>3, <4>1 DEF RaceInv
    <3>4. CASE logdir
      <4>1. late' \subseteq late
        BY <2>1, <2>5, <3>4 DEF Outrun, Looked
      <4>2. Cardinality(late') < Workers
        <5>1. IsFiniteSet(late) /\ Cardinality(late) \in Nat /\ Cardinality(late') \in Nat
          BY <2>2, JobSets
        <5>2. Cardinality(late) < Workers
          BY <3>4 DEF RaceInv
        <5> HIDE DEF late
        <5>3. Cardinality(late') <= Cardinality(late)
          BY <4>1, <5>1, FS_Subset
        <5> QED BY <1>2, <5>1, <5>2, <5>3
      <4>3. late' # {} => \E k \in Job : stage'[k] \notin Early
        <5>1. late # {} => \E k \in Job : stage[k] \notin Early
          BY <3>4 DEF RaceInv
        <5>2. \A k \in Job : stage[k] \notin Early => stage'[k] \notin Early
          BY <2>1, <2>5
        <5> HIDE DEF late
        <5> QED BY <4>1, <5>1, <5>2
      <4> QED BY <2>5, <3>2, <3>4, <4>2, <4>3 DEF RaceInv
    <3> QED BY <3>3, <3>4
  <2>6. CASE stage[j] = "look" /\ UNCHANGED logdir /\ stage'[j] = IF logdir THEN "core" ELSE "mkdir"
    BY <2>5, <2>6 DEF Ended, Early
  <2>7. CASE stage[j] = "mkdir" /\ logdir /\ logdir' = TRUE /\ stage'[j] = "outrun"
    <3>1. UNCHANGED logdir
      BY <2>7 DEF TypeOK
    <3> QED BY <2>5, <2>7, <3>1 DEF Ended, Early
  <2>8. CASE stage[j] \notin Early /\ ~ Ended(j) /\ UNCHANGED logdir /\ stage'[j] \notin Early
    BY <2>5, <2>8 DEF Early
  <2>9. logdir \in BOOLEAN
    BY DEF TypeOK
  <2> QED BY <1>5, <2>3, <2>4, <2>6, <2>7, <2>8, <2>9, JobLooks
<1>6. CASE \/ \E q \in ForeignPorts : Listen(q)
           \/ Collect \/ UNCHANGED vars
  <2>1. UNCHANGED <<stage, logdir>>
    BY <1>6 DEF Listen, Collect, vars, jobVars
  <2>2. Busy' = Busy /\ Outrun' = Outrun /\ Looked' = Looked
    BY <2>1 DEF Busy, Ended, Outrun, Looked
  <2> QED BY <1>3, <2>1, <2>2
<1> QED BY <1>4, <1>5, <1>6 DEF Next, MainStep, Retry, Done

\* A job dies only over its planning.yaml, a port it shares, a case that is in
\* the list twice, or a directory that another made, and of the last fewer die
\* than there are workers.
THEOREM DeathsHaveReasons == Spec => []DiedForAReason
<1>1. Init => WorkInv /\ DiedExcused /\ RaceInv
  <2> SUFFICES ASSUME Init PROVE WorkInv /\ DiedExcused /\ RaceInv
    OBVIOUS
  <2>1. WorkInv /\ DiedExcused
    BY DEF Init, WorkInv, DiedExcused, Going
  <2>2. Busy = {} /\ Outrun = {} /\ Looked = {}
    BY DEF Init, Busy, Outrun, Looked
  <2>3. Cardinality({}) = 0 /\ Workers \in Nat \ {0}
    BY FS_EmptySet, RegressionAssumption
  <2>4. Cardinality(Busy) <= Workers /\ Cardinality(Outrun \cup Looked) < Workers
    BY <2>2, <2>3
  <2> QED BY <2>1, <2>2, <2>4 DEF RaceInv
<1>2. IInv /\ DiedExcused /\ RaceInv => DiedForAReason
  <2> SUFFICES ASSUME IInv, DiedExcused, RaceInv PROVE DiedForAReason
    OBVIOUS
  <2>1. \A j \in Job : stage[j] = "died" => BadYaml(j) \/ Shares(j) \/ Repeated(j)
    BY DEF DiedExcused, Excused
  <2>2. Cardinality(Outrun) < Workers
    <3>1. Workers \in Nat \ {0} /\ Cardinality({}) = 0
      BY RegressionAssumption, FS_EmptySet
    <3>2. CASE ~ logdir
      BY <3>1, <3>2 DEF RaceInv
    <3>3. CASE logdir
      <4>1. Outrun \in SUBSET Job /\ Outrun \cup Looked \in SUBSET Job
        BY DEF Outrun, Looked
      <4>2. Cardinality(Outrun) <= Cardinality(Outrun \cup Looked)
        BY <4>1, JobSets, FS_Subset
      <4>3. Cardinality(Outrun) \in Nat /\ Cardinality(Outrun \cup Looked) \in Nat
        BY <4>1, JobSets
      <4> QED BY <3>1, <3>3, <4>2, <4>3 DEF RaceInv
    <3> QED BY <3>2, <3>3
  <2>3. Outrun # {} => \E k \in Job : stage[k] \notin Early
    BY DEF RaceInv
  <2> QED BY <2>1, <2>2, <2>3 DEF DiedForAReason, BadYaml, Repeated, Early
<1> QED BY <1>1, <1>2, WorkNext, DiedNext, RaceNext, Invariant, PTL DEF Spec
=============================================================================
