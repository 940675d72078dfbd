--------------------------- MODULE ProjectsProofs ---------------------------
(***************************************************************************)
(* Proofs about Projects, for any jobs, names and workers, and any number  *)
(* of redeliveries.                                                        *)
(***************************************************************************)
EXTENDS Projects, SequenceTheorems, TLAPS

(* An update of a row keeps the number of rows, whatever the row.          *)
LEMMA UpdateRow ==
  ASSUME NEW S, NEW s \in Seq(S), NEW i \in Nat, NEW e \in S
  PROVE  /\ [s EXCEPT ![i] = e] \in Seq(S)
         /\ Len([s EXCEPT ![i] = e]) = Len(s)
<1>1. CASE i \in 1..Len(s)
  BY <1>1, ExceptSeq
<1>2. CASE i \notin 1..Len(s)
  <2>1. s \in [1..Len(s) -> S]
    OBVIOUS
  <2>2. [s EXCEPT ![i] = e] = s
    BY <1>2, <2>1
  <2> QED
    BY <2>2
<1> QED
  BY <1>1, <1>2

(* What the task of worker w is, by its step.                              *)
LEMMA TaskTyped ==
  ASSUME TypeOK, NEW w \in Worker
  PROVE  /\ work[w].step \in {"idle", "run", "project", "grouping", "write"}
         /\ work[w].step = "idle" => work[w] = Free
         /\ work[w].step # "idle" => work[w].job \in Job
         /\ work[w].step \in {"run", "project"} =>
              work[w] \in [step : {"run", "project"}, job : Job, proj : {None}, row : {0}]
         /\ work[w].step = "grouping" =>
              work[w] \in [step : {"grouping"}, job : Job, proj : Job, row : {0}]
         /\ work[w].step = "write" =>
              work[w] \in [step : {"write"}, job : Job, proj : Job, row : Nat]
<1>1. work[w] \in Task
  BY DEF TypeOK
<1> QED
  BY <1>1 DEF Task, Free

LEMMA FreeTyped == Free \in Task
  BY DEF Task

LEMMA TypeInit == Init => TypeOK
  BY FreeTyped DEF Init, TypeOK

(* The ways a step changes a task.                                         *)
LEMMA WorkSet ==
  ASSUME TypeOK, NEW w \in Worker, NEW t \in Task, work' = [work EXCEPT ![w] = t]
  PROVE  work' \in [Worker -> Task]
  BY DEF TypeOK

LEMMA TypeSubmission ==
  ASSUME TypeOK, NEW j \in Job, Submission(j) \/ DeleteJob(j) \/ Redeliver(j)
  PROVE  TypeOK'
<1> USE DEF TypeOK, jobs, broker, saves, races
<1>1. CASE CreateJob(j)
  BY <1>1 DEF CreateJob
<1>2. CASE CheckProject(j)
  BY <1>2 DEF CheckProject
<1>3. CASE InsertProject(j)
  BY <1>3 DEF InsertProject
<1>4. CASE SendTask(j)
  BY <1>4 DEF SendTask
<1>5. CASE SubmitFails(j)
  BY <1>5 DEF SubmitFails
<1>6. CASE DeleteJob(j)
  BY <1>6 DEF DeleteJob
<1>7. CASE Redeliver(j)
  BY <1>7 DEF Redeliver
<1> QED
  BY <1>1, <1>2, <1>3, <1>4, <1>5, <1>6, <1>7 DEF Submission

LEMMA TypeTask ==
  ASSUME TypeOK, NEW w \in Worker, (\E j \in Job : StartTask(w, j)) \/ TaskStep(w)
  PROVE  TypeOK'
<1> USE DEF TypeOK, jobs, broker, saves, races
<1>1. ASSUME NEW j \in Job, StartTask(w, j) PROVE TypeOK'
  <2>1. [Free EXCEPT !.step = "run", !.job = j] \in Task
    BY DEF Free, Task
  <2>2. work' \in [Worker -> Task]
    BY <1>1, <2>1, WorkSet DEF StartTask
  <2>3. sent' \in [Job -> Nat]
    <3>1. sent' = [sent EXCEPT ![j] = sent[j] - 1] /\ sent[j] > 0
      BY <1>1, Zenon DEF StartTask
    <3>2. sent[j] - 1 \in Nat
      BY <3>1
    <3> QED
      BY <3>1, <3>2
  <2> QED
    BY <1>1, <2>2, <2>3 DEF StartTask
<1>2. CASE RunReturns(w)
  <2>1. work[w] \in [step : {"run", "project"}, job : Job, proj : {None}, row : {0}]
    BY <1>2, TaskTyped DEF RunReturns, At
  <2>2. [work[w] EXCEPT !.step = "project"] \in Task
    BY <2>1 DEF Task
  <2>3. work' \in [Worker -> Task]
    <3>1. work' = [work EXCEPT ![w] = [work[w] EXCEPT !.step = "project"]] \/ Leave(w)
      BY <1>2 DEF RunReturns
    <3> QED
      BY <2>2, <3>1, FreeTyped, WorkSet DEF Leave
  <2> QED
    BY <1>2, <2>1, <2>3 DEF RunReturns
<1>3. CASE FindProject(w)
  <2>1. work[w] \in [step : {"run", "project"}, job : Job, proj : {None}, row : {0}]
    BY <1>3, TaskTyped DEF FindProject, At
  <2>2. ASSUME NEW p \in Job
        PROVE  [work[w] EXCEPT !.step = "grouping", !.proj = p] \in Task
    BY <2>1 DEF Task
  <2>3. work' \in [Worker -> Task]
    <3>1. \/ \E p \in Job :
                work' = [work EXCEPT ![w] = [work[w] EXCEPT !.step = "grouping", !.proj = p]]
          \/ Leave(w)
      BY <1>3 DEF FindProject, ProjectRows
    <3> QED
      BY <2>2, <3>1, FreeTyped, WorkSet DEF Leave
  <2> QED
    BY <1>3, <2>1, <2>3 DEF FindProject
<1>4. CASE FindGrouping(w)
  <2>1. work[w] \in [step : {"grouping"}, job : Job, proj : Job, row : {0}]
    BY <1>4, TaskTyped DEF FindGrouping, At
  <2>2. ASSUME NEW i \in Nat
        PROVE  [work[w] EXCEPT !.step = "write", !.row = i] \in Task
    BY <2>1 DEF Task
  <2>3. PICK i \in Nat : work' = [work EXCEPT ![w] = [work[w] EXCEPT !.step = "write", !.row = i]]
    <3>1. 1..Len(groupings[work[w].proj]) \subseteq Nat
      BY <2>1
    <3> QED
      BY <1>4, <3>1 DEF FindGrouping
  <2>4. work' \in [Worker -> Task]
    BY <2>2, <2>3, WorkSet
  <2>5. rushed' \subseteq Job
    BY <1>4, <2>1 DEF FindGrouping
  <2> QED
    BY <1>4, <2>4, <2>5 DEF FindGrouping
<1>5. CASE SaveGrouping(w)
  <2> DEFINE j == work[w].job
             p == work[w].proj
             i == work[w].row
             new == IF i = 0 THEN Append(groupings[p], j) ELSE [groupings[p] EXCEPT ![i] = j]
  <2>1. j \in Job /\ p \in Job /\ i \in Nat
    BY <1>5, TaskTyped DEF SaveGrouping, At
  <2>2. new \in Seq(Job)
    BY <2>1, UpdateRow, AppendProperties
  <2>3. groupings' = [groupings EXCEPT ![p] = new]
    BY <1>5 DEF SaveGrouping
  <2>4. groupings' \in [Job -> Seq(Job)]
    BY <2>2, <2>3
  <2>5. work' \in [Worker -> Task]
    BY <1>5, FreeTyped DEF SaveGrouping, Leave
  <2> QED
    BY <1>5, <2>1, <2>4, <2>5 DEF SaveGrouping
<1>6. CASE TaskFails(w)
  <2>1. work' \in [Worker -> Task] /\ work[w].job \in Job
    BY <1>6, FreeTyped, TaskTyped DEF TaskFails, Leave, At
  <2> QED
    BY <1>6, <2>1 DEF TaskFails
<1> QED
  BY <1>1, <1>2, <1>3, <1>4, <1>5, <1>6 DEF TaskStep

LEMMA TypeNext == TypeOK /\ [Next]_vars => TypeOK'
<1> SUFFICES ASSUME TypeOK, [Next]_vars PROVE TypeOK'
  OBVIOUS
<1>1. CASE UNCHANGED vars
  BY <1>1 DEF TypeOK, vars, jobs, broker, saves, races
<1>2. CASE Next
  BY <1>2, TypeSubmission, TypeTask DEF Next
<1> QED
  BY <1>1, <1>2

(* Every variable keeps its type: a task that looks for a grouping or      *)
(* writes one has found a project row.                                     *)
THEOREM TypeCorrect == Spec => []TypeOK
  BY TypeInit, TypeNext, PTL DEF Spec

-----------------------------------------------------------------------------
(* A documentation task finds its project: as soon as a request has passed *)
(* the insert, the project is there, and projects are never deleted.       *)
UnderWay(j) ==
  \/ sub[j] \in {"send", "sent"}
  \/ sent[j] > 0
  \/ \E w \in Worker : ~ At(w, "idle") /\ work[w].job = j

HasProject ==
  \A j \in Job : kind[j] = "documentation" /\ UnderWay(j) => ProjectRows(name[j]) # {}

ProjectInv == TypeOK /\ HasProject /\ DocumentationHasProject

LEMMA ProjectInvInit == Init => ProjectInv
<1> SUFFICES ASSUME Init PROVE ProjectInv
  OBVIOUS
<1>1. \A j \in Job : ~ UnderWay(j)
  <2>1. \A w \in Worker : At(w, "idle")
    BY DEF Init, At, Free
  <2>2. sub = [j \in Job |-> "new"] /\ sent = [j \in Job |-> 0]
    BY Zenon DEF Init
  <2>3. \A j \in Job : ~ sent[j] > 0
    <3>1. \A j \in Job : sent[j] = 0
      BY <2>2, Zenon
    <3>2. ~ 0 > 0
      OBVIOUS
    <3> QED
      BY <3>1, <3>2, Zenon
  <2>4. \A j \in Job : sub[j] \notin {"send", "sent"}
    BY <2>2
  <2> QED
    BY <2>1, <2>3, <2>4, Zenon DEF UnderWay
<1> QED
  BY <1>1, TypeInit DEF ProjectInv, HasProject, DocumentationHasProject, Init

LEMMA ProjectInvNext == ProjectInv /\ [Next]_vars => ProjectInv'
<1> SUFFICES ASSUME ProjectInv, [Next]_vars PROVE ProjectInv'
  OBVIOUS
<1>1. TypeOK' /\ UNCHANGED <<kind, name, sought>>
  BY TypeNext DEF ProjectInv, vars, jobs, Next, Submission, CreateJob, CheckProject, InsertProject,
     SendTask, SubmitFails, DeleteJob, Redeliver, StartTask, TaskStep, RunReturns, FindProject,
     FindGrouping, SaveGrouping, TaskFails
<1>2. project \subseteq project'
  BY DEF vars, Next, Submission, CreateJob, CheckProject, InsertProject,
     SendTask, SubmitFails, DeleteJob, Redeliver, StartTask, TaskStep, RunReturns, FindProject,
     FindGrouping, SaveGrouping, TaskFails
<1>3. \A n \in Name : ProjectRows(n) \subseteq ProjectRows(n)'
  BY <1>1, <1>2 DEF ProjectRows
<1>4. \A j \in Job : name[j] \in Name
  BY DEF ProjectInv, TypeOK
<1>5. ASSUME \A j \in Job : kind[j] = "documentation" /\ UnderWay(j)' =>
               UnderWay(j) \/ ProjectRows(name[j])' # {}
      PROVE  HasProject'
  BY <1>1, <1>3, <1>4, <1>5 DEF ProjectInv, HasProject
<1>6. ASSUME UNCHANGED <<sent, work>>,
             NEW j \in Job, \A i \in Job \ {j} : sub'[i] = sub[i],
             kind[j] = "documentation" /\ sub'[j] \in {"send", "sent"} =>
               sub[j] \in {"send", "sent"} \/ ProjectRows(name[j])' # {}
      PROVE  HasProject'
  <2>1. \A i \in Job : kind[i] = "documentation" /\ UnderWay(i)' =>
               UnderWay(i) \/ ProjectRows(name[i])' # {}
    BY <1>6 DEF UnderWay, At
  <2> QED
    BY <2>1, <1>5
<1>7. ASSUME UNCHANGED <<sub, project>>,
             \A j \in Job : sent'[j] > 0 => UnderWay(j),
             NEW w \in Worker, \A v \in Worker \ {w} : work'[v] = work[v],
             work'[w] = Free \/ UnderWay(work'[w].job)
      PROVE  HasProject'
  <2>1. \A j \in Job : UnderWay(j)' => UnderWay(j)
    BY <1>7 DEF UnderWay, At, Free
  <2> QED
    BY <2>1, <1>5
<1>8. ASSUME NEW j \in Job, Submission(j) \/ DeleteJob(j) \/ Redeliver(j)
      PROVE  HasProject' /\ missed' = missed
  <2> USE DEF ProjectInv, TypeOK, saves, broker
  <2>1. CASE CreateJob(j)
    BY <2>1, <1>6 DEF CreateJob
  <2>2. CASE CheckProject(j)
    <3>1. sub'[j] = "send" => ProjectRows(name[j])' # {}
      <4>1. sub'[j] = IF ProjectRows(name[j]) = {} THEN "insert" ELSE "send"
        BY <2>2 DEF CheckProject
      <4>2. ProjectRows(name[j])' = ProjectRows(name[j])
        BY <2>2 DEF CheckProject, ProjectRows, jobs
      <4> QED
        BY <4>1, <4>2
    <3>2. sub'[j] \in {"send", "insert"} /\ \A i \in Job \ {j} : sub'[i] = sub[i]
      BY <2>2 DEF CheckProject
    <3> QED
      BY <2>2, <3>1, <3>2, <1>6 DEF CheckProject
  <2>3. CASE InsertProject(j)
    <3>1. j \in ProjectRows(name[j])'
      BY <2>3, <1>1 DEF InsertProject, ProjectRows
    <3> QED
      BY <2>3, <3>1, <1>6 DEF InsertProject
  <2>4. CASE SendTask(j)
    <3>1. \A i \in Job : UnderWay(i)' => UnderWay(i)
      BY <2>4 DEF SendTask, UnderWay, At
    <3> QED
      BY <2>4, <3>1, <1>5 DEF SendTask
  <2>5. CASE SubmitFails(j)
    BY <2>5, <1>6 DEF SubmitFails
  <2>6. CASE DeleteJob(j)
    BY <2>6, <1>6 DEF DeleteJob
  <2>7. CASE Redeliver(j)
    <3>1. \A i \in Job : UnderWay(i)' => UnderWay(i)
      BY <2>7 DEF Redeliver, UnderWay, At
    <3> QED
      BY <2>7, <3>1, <1>5 DEF Redeliver
  <2> QED
    BY <1>8, <2>1, <2>2, <2>3, <2>4, <2>5, <2>6, <2>7 DEF Submission
<1>9. ASSUME NEW w \in Worker, (\E j \in Job : StartTask(w, j)) \/ TaskStep(w)
      PROVE  HasProject' /\ DocumentationHasProject'
  <2> USE DEF ProjectInv, TypeOK, saves, broker
  <2>1. UNCHANGED <<sub, project>> /\ \A v \in Worker \ {w} : work'[v] = work[v]
    BY <1>9 DEF StartTask, TaskStep, RunReturns, FindProject, FindGrouping, SaveGrouping,
       TaskFails, Leave
  <2>2. ASSUME NEW j \in Job, StartTask(w, j) PROVE HasProject'
    <3>1. \A i \in Job : sent'[i] > 0 => UnderWay(i)
      BY <2>2 DEF StartTask, UnderWay
    <3>2. UnderWay(j)
      BY <2>2 DEF StartTask, UnderWay
    <3>3. work' = work \/ work'[w] = [Free EXCEPT !.step = "run", !.job = j]
      BY <2>2 DEF StartTask
    <3>4. CASE work' = work
      <4>1. \A i \in Job : UnderWay(i)' => UnderWay(i)
        BY <2>1, <3>1, <3>4 DEF UnderWay, At
      <4> QED
        BY <4>1, <1>5
    <3>5. CASE work'[w] = [Free EXCEPT !.step = "run", !.job = j]
      <4>1. work'[w].job = j
        BY <3>5 DEF Free
      <4> QED
        BY <2>1, <3>1, <3>2, <4>1, <1>7
    <3> QED
      BY <3>3, <3>4, <3>5
  <2>3. ASSUME TaskStep(w) PROVE HasProject'
    <3>1. sent' = sent
      BY <2>3 DEF TaskStep, RunReturns, FindProject, FindGrouping, SaveGrouping, TaskFails
    <3>2. work[w] \in Task /\ ~ At(w, "idle") /\ work[w].job \in Job
      BY <2>3, TaskTyped DEF TaskStep, RunReturns, FindProject, FindGrouping, SaveGrouping,
         TaskFails, At
    <3>3. work'[w] = Free \/ work'[w].job = work[w].job
      BY <2>3, <3>2 DEF TaskStep, RunReturns, FindProject, FindGrouping, SaveGrouping,
         TaskFails, Leave, Task, Free
    <3> QED
      BY <2>1, <3>1, <3>2, <3>3, <1>7 DEF UnderWay
  <2>4. DocumentationHasProject'
    <3>1. CASE FindProject(w)
      <4>1. work[w].job \in Job /\ UnderWay(work[w].job)
        BY <3>1, TaskTyped DEF FindProject, At, UnderWay
      <4> QED
        BY <3>1, <4>1, <1>1 DEF FindProject, HasProject, DocumentationHasProject
    <3>2. CASE missed' = missed
      BY <3>2, <1>1 DEF DocumentationHasProject
    <3> QED
      BY <1>9, <3>1, <3>2 DEF StartTask, TaskStep, RunReturns, FindGrouping, SaveGrouping, TaskFails
  <2> QED
    BY <1>9, <2>2, <2>3, <2>4
<1>10. CASE UNCHANGED vars
  BY <1>10, <1>1 DEF ProjectInv, HasProject, UnderWay, At, ProjectRows, DocumentationHasProject,
     vars, broker, saves, jobs
<1>11. CASE Next
  BY <1>1, <1>8, <1>9, <1>11 DEF Next, ProjectInv, DocumentationHasProject
<1> QED
  BY <1>10, <1>11

(* The project of a documentation task is there when its clusters are      *)
(* saved (job_service 51-80, worker_service 80-93), whatever dies in       *)
(* between.                                                                *)
THEOREM DocumentationFindsProject == Spec => []DocumentationHasProject
  BY ProjectInvInit, ProjectInvNext, PTL DEF Spec, ProjectInv

-----------------------------------------------------------------------------
(* One row for a project: of a name that no two submissions raced for, one *)
(* request at most is about to insert the row, there is no row yet, and    *)
(* there is one row at most afterwards.                                    *)
OneInsert ==
  \A i, j \in Job :
    sub[i] = "insert" /\ sub[j] = "insert" /\ name[i] = name[j] /\ i # j => name[i] \in raced

StillAbsent ==
  \A j \in Job, p \in project :
    sub[j] = "insert" /\ name[p] = name[j] => name[j] \in raced

OneProject == \A p, q \in project : name[p] = name[q] /\ p # q => name[p] \in raced

RowInv == TypeOK /\ OneInsert /\ StillAbsent /\ OneProject

LEMMA RowInvInit == Init => RowInv
<1> SUFFICES ASSUME Init PROVE RowInv
  OBVIOUS
<1>1. sub = [j \in Job |-> "new"] /\ project = {}
  BY Zenon DEF Init
<1>2. \A j \in Job : sub[j] # "insert"
  BY <1>1
<1> QED
  BY <1>1, <1>2, TypeInit DEF RowInv, OneInsert, StillAbsent, OneProject

LEMMA RowInvNext == RowInv /\ [Next]_vars => RowInv'
<1> SUFFICES ASSUME RowInv, [Next]_vars PROVE RowInv'
  OBVIOUS
<1>1. TypeOK' /\ UNCHANGED name
  BY TypeNext DEF RowInv, vars, jobs, Next, Submission, CreateJob, CheckProject, InsertProject,
     SendTask, SubmitFails, DeleteJob, Redeliver, StartTask, TaskStep, RunReturns, FindProject,
     FindGrouping, SaveGrouping, TaskFails
<1>2. ASSUME UNCHANGED <<project, raced>>,
             \A j \in Job : sub'[j] = "insert" => sub[j] = "insert"
      PROVE  RowInv'
  BY <1>1, <1>2 DEF RowInv, OneInsert, StillAbsent, OneProject
<1>3. ASSUME NEW j \in Job, CheckProject(j) PROVE RowInv'
  <2>1. /\ UNCHANGED project /\ raced \subseteq raced'
        /\ \A i \in Job \ {j} : sub'[i] = sub[i]
        /\ sub'[j] = IF ProjectRows(name[j]) = {} THEN "insert" ELSE "send"
    BY <1>3 DEF CheckProject, RowInv, TypeOK
  <2>2. ASSUME sub'[j] = "insert"
        PROVE  /\ \A p \in project : name[p] # name[j]
               /\ \A i \in Job : sub[i] = "insert" /\ name[i] = name[j] => name[j] \in raced'
    <3>1. ProjectRows(name[j]) = {}
      BY <2>1, <2>2
    <3>2. (\E i \in Job : sub[i] = "insert" /\ name[i] = name[j]) => name[j] \in raced'
      BY <1>3, <3>1 DEF CheckProject
    <3> QED
      BY <3>1, <3>2 DEF ProjectRows
  <2>3. OneInsert'
    BY <1>1, <2>1, <2>2 DEF RowInv, OneInsert
  <2>4. StillAbsent'
    BY <1>1, <2>1, <2>2 DEF RowInv, StillAbsent, TypeOK
  <2>5. OneProject'
    BY <1>1, <2>1 DEF RowInv, OneProject
  <2> QED
    BY <1>1, <2>3, <2>4, <2>5 DEF RowInv
<1>4. ASSUME NEW j \in Job, InsertProject(j) PROVE RowInv'
  <2>1. /\ project' = project \cup {j} /\ UNCHANGED raced
        /\ sub[j] = "insert" /\ sub'[j] = "send"
        /\ \A i \in Job \ {j} : sub'[i] = sub[i]
    BY <1>4 DEF InsertProject, races, RowInv, TypeOK
  <2>2. OneInsert'
    BY <1>1, <2>1 DEF RowInv, OneInsert
  <2>3. StillAbsent'
    BY <1>1, <2>1 DEF RowInv, OneInsert, StillAbsent
  <2>4. OneProject'
    BY <1>1, <2>1 DEF RowInv, StillAbsent, OneProject
  <2> QED
    BY <1>1, <2>2, <2>3, <2>4 DEF RowInv
<1>5. ASSUME NEW j \in Job,
             CreateJob(j) \/ SendTask(j) \/ SubmitFails(j) \/ DeleteJob(j) \/ Redeliver(j)
      PROVE  RowInv'
  <2>1. \A i \in Job : sub'[i] = "insert" => sub[i] = "insert"
    BY <1>5 DEF CreateJob, SendTask, SubmitFails, DeleteJob, Redeliver, RowInv, TypeOK
  <2>2. UNCHANGED <<project, raced>>
    BY <1>5 DEF CreateJob, SendTask, SubmitFails, DeleteJob, Redeliver, races
  <2> QED
    BY <2>1, <2>2, <1>2
<1>6. ASSUME NEW w \in Worker, (\E j \in Job : StartTask(w, j)) \/ TaskStep(w)
      PROVE  RowInv'
  <2>1. UNCHANGED <<sub, project, raced>>
    BY <1>6 DEF StartTask, TaskStep, RunReturns, FindProject, FindGrouping, SaveGrouping,
       TaskFails, races
  <2> QED
    BY <2>1, <1>2
<1>7. CASE UNCHANGED vars
  BY <1>7, <1>2 DEF vars, races
<1> QED
  BY <1>3, <1>4, <1>5, <1>6, <1>7 DEF Next, Submission

-----------------------------------------------------------------------------
(* One row for a grouping, along the same argument: the tasks that found   *)
(* none take the place of the submissions.                                 *)
Inserting(w, p) == At(w, "write") /\ work[w].proj = p /\ work[w].row = 0

OneInsertion ==
  \A v, w \in Worker, p \in Job : Inserting(v, p) /\ Inserting(w, p) /\ v # w => p \in rushed

StillNone == \A w \in Worker, p \in Job : Inserting(w, p) /\ Len(groupings[p]) > 0 => p \in rushed

OneGrouping == \A p \in Job : Len(groupings[p]) > 1 => p \in rushed

GroupingInv == TypeOK /\ OneInsertion /\ StillNone /\ OneGrouping

LEMMA GroupingInvInit == Init => GroupingInv
<1> SUFFICES ASSUME Init PROVE GroupingInv
  OBVIOUS
<1>1. work = [w \in Worker |-> Free] /\ groupings = [p \in Job |-> <<>>]
  BY Zenon DEF Init
<1>2. \A w \in Worker, p \in Job : ~ Inserting(w, p)
  BY <1>1 DEF Inserting, At, Free
<1>3. \A p \in Job : Len(groupings[p]) = 0
  BY <1>1
<1> QED
  BY <1>2, <1>3, TypeInit DEF GroupingInv, OneInsertion, StillNone, OneGrouping

LEMMA GroupingInvNext == GroupingInv /\ [Next]_vars => GroupingInv'
<1> SUFFICES ASSUME GroupingInv, [Next]_vars PROVE GroupingInv'
  OBVIOUS
<1>1. TypeOK'
  BY TypeNext DEF GroupingInv
<1>2. ASSUME UNCHANGED <<groupings, rushed>>,
             \A w \in Worker, p \in Job : Inserting(w, p)' => Inserting(w, p)
      PROVE  GroupingInv'
  BY <1>1, <1>2 DEF GroupingInv, OneInsertion, StillNone, OneGrouping
<1>3. ASSUME NEW w \in Worker, FindGrouping(w) PROVE GroupingInv'
  <2> DEFINE p == work[w].proj
  <2>1. p \in Job /\ groupings[p] \in Seq(Job) /\ ~ At(w, "write")
    BY <1>3, TaskTyped DEF FindGrouping, At, GroupingInv, TypeOK
  <2>2. /\ UNCHANGED groupings /\ rushed \subseteq rushed'
        /\ \A v \in Worker \ {w} : work'[v] = work[v]
    <3>1. UNCHANGED groupings /\ rushed \subseteq rushed'
      BY <1>3 DEF FindGrouping
    <3>2. \A v \in Worker \ {w} : work'[v] = work[v]
      BY <1>3 DEF FindGrouping, GroupingInv, TypeOK
    <3> QED
      BY <3>1, <3>2
  <2>3. PICK i \in IF 1..Len(groupings[p]) = {} THEN {0} ELSE 1..Len(groupings[p]) :
          work' = [work EXCEPT ![w] = [work[w] EXCEPT !.step = "write", !.row = i]]
    BY <1>3 DEF FindGrouping
  <2>4. work[w] \in [step : {"grouping"}, job : Job, proj : Job, row : {0}]
    BY <1>3, TaskTyped DEF FindGrouping, At, GroupingInv
  <2>5. work'[w].proj = p /\ work'[w].row = i
    BY <2>3, <2>4 DEF GroupingInv, TypeOK
  <2>6. i = 0 => 1..Len(groupings[p]) = {} /\ Len(groupings[p]) = 0
    <3>1. Len(groupings[p]) \in Nat
      BY <2>1
    <3>2. i = 0 => 1..Len(groupings[p]) = {}
      BY <2>3, <3>1
    <3>3. 1..Len(groupings[p]) = {} => Len(groupings[p]) = 0
      <4> SUFFICES ASSUME Len(groupings[p]) # 0 PROVE 1 \in 1..Len(groupings[p])
        OBVIOUS
      <4> QED
        BY <3>1
    <3> QED
      BY <3>2, <3>3
  <2>7. \A q \in Job : Inserting(w, q)' => q = p /\ i = 0
    BY <2>5 DEF Inserting
  <2>8. \A v \in Worker \ {w}, q \in Job : Inserting(v, q)' => Inserting(v, q)
    BY <2>2 DEF Inserting, At
  <2>9. i = 0 /\ (\E v \in Worker : Inserting(v, p)) => p \in rushed'
    <3>1. 1..Len(groupings[p]) = {} /\ (\E v \in Worker : Inserting(v, p)) => p \in rushed'
      BY <1>3 DEF FindGrouping, Inserting
    <3> QED
      BY <2>6, <3>1
  <2>10. OneInsertion'
    BY <2>2, <2>7, <2>8, <2>9 DEF GroupingInv, OneInsertion
  <2>11. StillNone'
    <3> SUFFICES ASSUME NEW v \in Worker, NEW q \in Job, Inserting(v, q)', Len(groupings'[q]) > 0
                 PROVE  q \in rushed'
      BY DEF StillNone
    <3>1. CASE v = w
      <4>1. q = p /\ Len(groupings[p]) = 0
        BY <3>1, <2>6, <2>7
      <4> QED
        BY <4>1, <2>2
    <3>2. CASE v # w
      BY <3>2, <2>2, <2>8 DEF GroupingInv, StillNone
    <3> QED
      BY <3>1, <3>2
  <2>12. OneGrouping'
    BY <2>2 DEF GroupingInv, OneGrouping
  <2> QED
    BY <1>1, <2>10, <2>11, <2>12 DEF GroupingInv
<1>4. ASSUME NEW w \in Worker, SaveGrouping(w) PROVE GroupingInv'
  <2> DEFINE j == work[w].job
             p == work[w].proj
             i == work[w].row
             new == IF i = 0 THEN Append(groupings[p], j) ELSE [groupings[p] EXCEPT ![i] = j]
  <2>1. /\ j \in Job /\ p \in Job /\ i \in Nat /\ At(w, "write")
        /\ groupings \in [Job -> Seq(Job)] /\ groupings[p] \in Seq(Job)
    BY <1>4, TaskTyped DEF SaveGrouping, At, GroupingInv, TypeOK
  <2>2. groupings' = [groupings EXCEPT ![p] = new] /\ UNCHANGED rushed
    BY <1>4 DEF SaveGrouping, races
  <2>3. Len(new) = IF i = 0 THEN Len(groupings[p]) + 1 ELSE Len(groupings[p])
    <3>1. CASE i = 0
      BY <2>1, <3>1, AppendProperties
    <3>2. CASE i # 0
      BY <2>1, <3>2, UpdateRow
    <3> QED
      BY <3>1, <3>2
  <2>4. /\ groupings'[p] = new
        /\ \A q \in Job \ {p} : groupings'[q] = groupings[q]
    BY <2>1, <2>2
  <2>5. \A v \in Worker, q \in Job : Inserting(v, q)' => v # w /\ Inserting(v, q)
    BY <1>4 DEF SaveGrouping, Leave, Inserting, At, Free, GroupingInv, TypeOK
  <2>6. i = 0 <=> Inserting(w, p)
    BY <2>1 DEF Inserting
  <2>7. i # 0 => Len(groupings'[p]) = Len(groupings[p])
    BY <2>3, <2>4
  <2>8. OneInsertion'
    BY <2>2, <2>5 DEF GroupingInv, OneInsertion
  <2>9. StillNone'
    <3> SUFFICES ASSUME NEW v \in Worker, NEW q \in Job, Inserting(v, q)', Len(groupings'[q]) > 0
                 PROVE  q \in rushed
      BY <2>2 DEF StillNone
    <3>1. v # w /\ Inserting(v, q)
      BY <2>5
    <3>2. CASE q = p /\ i = 0
      BY <3>1, <3>2, <2>6 DEF GroupingInv, OneInsertion
    <3>3. CASE ~ (q = p /\ i = 0)
      BY <3>1, <3>3, <2>4, <2>7 DEF GroupingInv, StillNone
    <3> QED
      BY <3>2, <3>3
  <2>10. OneGrouping'
    <3> SUFFICES ASSUME NEW q \in Job, Len(groupings'[q]) > 1
                 PROVE  q \in rushed
      BY <2>2 DEF OneGrouping
    <3>1. CASE q = p /\ i = 0
      <4>1. Len(groupings[p]) > 0
        BY <2>1, <2>3, <2>4, <3>1
      <4> QED
        BY <3>1, <4>1, <2>1, <2>6 DEF GroupingInv, StillNone
    <3>2. CASE ~ (q = p /\ i = 0)
      BY <3>2, <2>4, <2>7 DEF GroupingInv, OneGrouping
    <3> QED
      BY <3>1, <3>2
  <2> QED
    BY <1>1, <2>8, <2>9, <2>10 DEF GroupingInv
<1>5. ASSUME NEW w \in Worker,
             \/ \E j \in Job : StartTask(w, j)
             \/ RunReturns(w) \/ FindProject(w) \/ TaskFails(w)
      PROVE  GroupingInv'
  <2>1. \A v \in Worker \ {w} : work'[v] = work[v]
    BY <1>5 DEF StartTask, RunReturns, FindProject, TaskFails, Leave, GroupingInv, TypeOK
  <2>2. work' = work \/ work'[w].step \in {"idle", "run", "project", "grouping"}
    <3>1. ASSUME NEW j \in Job, StartTask(w, j) PROVE work' = work \/ work'[w].step = "run"
      BY <3>1 DEF StartTask, Free, GroupingInv, TypeOK
    <3>2. CASE RunReturns(w)
      <4>1. work[w] \in [step : {"run", "project"}, job : Job, proj : {None}, row : {0}]
        BY <3>2, TaskTyped DEF RunReturns, At, GroupingInv
      <4> QED
        BY <3>2, <4>1 DEF RunReturns, Leave, Free, GroupingInv, TypeOK
    <3>3. CASE FindProject(w)
      <4>1. work[w] \in [step : {"run", "project"}, job : Job, proj : {None}, row : {0}]
        BY <3>3, TaskTyped DEF FindProject, At, GroupingInv
      <4> QED
        BY <3>3, <4>1 DEF FindProject, Leave, Free, GroupingInv, TypeOK
    <3>4. CASE TaskFails(w)
      BY <3>4 DEF TaskFails, Leave, Free, GroupingInv, TypeOK
    <3> QED
      BY <1>5, <3>1, <3>2, <3>3, <3>4
  <2>3. \A v \in Worker, q \in Job : Inserting(v, q)' => Inserting(v, q)
    BY <2>1, <2>2 DEF Inserting, At
  <2>4. UNCHANGED <<groupings, rushed>>
    BY <1>5 DEF StartTask, RunReturns, FindProject, TaskFails, races
  <2> QED
    BY <2>3, <2>4, <1>2
<1>6. ASSUME NEW j \in Job, Submission(j) \/ DeleteJob(j) \/ Redeliver(j)
      PROVE  GroupingInv'
  <2>1. UNCHANGED <<work, groupings, rushed>>
    BY <1>6 DEF Submission, CreateJob, CheckProject, InsertProject, SendTask, SubmitFails,
       DeleteJob, Redeliver, races
  <2> QED
    BY <2>1, <1>2 DEF Inserting, At
<1>7. CASE UNCHANGED vars
  BY <1>7, <1>2 DEF vars, races, Inserting, At
<1> QED
  BY <1>3, <1>4, <1>5, <1>6, <1>7 DEF Next, TaskStep

(* A grouping can be fetched unless two submissions raced for the project  *)
(* or two tasks for the grouping (endpoints 92-110), for any number of     *)
(* jobs, tasks and redeliveries.                                           *)
THEOREM GroupingFetched == Spec => []FetchAnswers
<1>1. RowInv /\ GroupingInv => FetchAnswers
  <2> SUFFICES ASSUME RowInv, GroupingInv, NEW n \in Name, FetchRaises(n)
               PROVE  n \in raced \/ ProjectRows(n) \cap rushed # {}
    BY DEF FetchAnswers
  <2>1. CASE \E p, q \in ProjectRows(n) : p # q
    BY <2>1 DEF ProjectRows, RowInv, OneProject
  <2>2. CASE \E p \in ProjectRows(n) : Len(groupings[p]) > 1
    BY <2>2 DEF ProjectRows, RowInv, TypeOK, GroupingInv, OneGrouping
  <2> QED
    BY <2>1, <2>2 DEF FetchRaises
<1> QED
  BY <1>1, RowInvInit, RowInvNext, GroupingInvInit, GroupingInvNext, PTL DEF Spec
-----------------------------------------------------------------------------
(* What a task carries from step to step: clusters its run returned, and   *)
(* a row of the project of its job.                                        *)
FoundRow(w) ==
  /\ work[w].step \in {"project", "grouping", "write"} => work[w].job \in clustered
  /\ work[w].step \in {"grouping", "write"} =>
       work[w].proj \in project /\ name[work[w].proj] = sought[work[w].job]

Carried == \A w \in Worker : FoundRow(w)

ClusterInv == TypeOK /\ Carried /\ GroupingIsOfProject /\ ClustersAccountedFor

LEMMA ClusterInvInit == Init => ClusterInv
<1> SUFFICES ASSUME Init PROVE ClusterInv
  OBVIOUS
<1>1. Carried
  BY DEF Init, Carried, FoundRow, Free
<1>2. GroupingIsOfProject
  <2>1. groupings = [p \in Job |-> <<>>]
    BY Zenon DEF Init
  <2> QED
    BY <2>1 DEF GroupingIsOfProject
<1>3. ClustersAccountedFor
  <2>1. clustered = {}
    BY Zenon DEF Init
  <2> QED
    BY <2>1 DEF ClustersAccountedFor
<1> QED
  BY <1>1, <1>2, <1>3, TypeInit DEF ClusterInv

(* No row of a grouping changes.                                           *)
LEMMA RowsKept ==
  ASSUME TypeOK, GroupingIsOfProject, UNCHANGED <<groupings, name, sought>>,
         project \subseteq project', clustered \subseteq clustered'
  PROVE  GroupingIsOfProject'
  BY DEF GroupingIsOfProject

(* Only the task of w moves, and it is accounted for.                      *)
LEMMA TaskMoves ==
  ASSUME ClusterInv, NEW w \in Worker, \A v \in Worker \ {w} : work'[v] = work[v],
         UNCHANGED <<name, sought>>, project \subseteq project', clustered \subseteq clustered',
         clustered' \subseteq clustered \cup {work[w].job},
         saved \cup missed \cup failed \subseteq saved' \cup missed' \cup failed',
         FoundRow(w)',
         work[w].job \in clustered' =>
           \/ work[w].job \in saved' \cup missed' \cup failed'
           \/ work'[w].job = work[w].job /\ work'[w].step # "run"
           \/ At(w, "run") /\ work[w].job \in clustered
  PROVE  Carried' /\ ClustersAccountedFor'
<1>1. Carried'
  <2> SUFFICES ASSUME NEW v \in Worker, v # w
               PROVE  FoundRow(v)'
    BY DEF Carried
  <2> QED
    BY DEF ClusterInv, Carried, FoundRow
<1>2. ClustersAccountedFor'
  <2> SUFFICES ASSUME NEW j \in clustered'
               PROVE  \/ j \in saved' \cup missed' \cup failed'
                      \/ \E v \in Worker : work'[v].job = j /\ work'[v].step # "run"
    BY DEF ClustersAccountedFor, At
  <2>1. CASE j \in clustered
    <3>1. CASE j \in saved \cup missed \cup failed
      BY <3>1
    <3>2. ASSUME NEW v \in Worker, work[v].job = j, ~ At(v, "run")
          PROVE  \/ j \in saved' \cup missed' \cup failed'
                 \/ \E u \in Worker : work'[u].job = j /\ work'[u].step # "run"
      <4>1. CASE v # w
        BY <3>2, <4>1 DEF At
      <4>2. CASE v = w
        BY <3>2, <4>2
      <4> QED
        BY <4>1, <4>2
    <3> QED
      BY <2>1, <3>1, <3>2 DEF ClusterInv, ClustersAccountedFor
  <2>2. CASE j \notin clustered
    <3>1. j = work[w].job
      BY <2>2
    <3> QED
      BY <3>1, <2>2
  <2> QED
    BY <2>1, <2>2
<1> QED
  BY <1>1, <1>2

LEMMA ClusterInvNext == ClusterInv /\ [Next]_vars => ClusterInv'
<1> SUFFICES ASSUME ClusterInv, [Next]_vars PROVE ClusterInv'
  OBVIOUS
<1> USE DEF saves
<1>1. TypeOK' /\ UNCHANGED <<name, sought>>
  BY TypeNext DEF ClusterInv, vars, jobs, Next, Submission, CreateJob, CheckProject, InsertProject,
     SendTask, SubmitFails, DeleteJob, Redeliver, StartTask, TaskStep, RunReturns, FindProject,
     FindGrouping, SaveGrouping, TaskFails
<1>2. project \subseteq project' /\ clustered \subseteq clustered'
  BY DEF vars, Next, Submission, CreateJob, CheckProject, InsertProject,
     SendTask, SubmitFails, DeleteJob, Redeliver, StartTask, TaskStep, RunReturns, FindProject,
     FindGrouping, SaveGrouping, TaskFails
<1>3. ASSUME UNCHANGED <<work, groupings, clustered, saved, missed, failed>>
      PROVE  ClusterInv'
  <2>1. Carried' /\ ClustersAccountedFor'
    BY <1>1, <1>2, <1>3 DEF ClusterInv, Carried, FoundRow, ClustersAccountedFor, At
  <2> QED
    BY <1>1, <1>2, <1>3, <2>1, RowsKept DEF ClusterInv
<1>4. ASSUME NEW w \in Worker, NEW j \in Job, StartTask(w, j)
      PROVE  ClusterInv'
  <2>1. CASE work' = work
    BY <1>3, <1>4, <2>1 DEF StartTask
  <2>2. CASE work' = [work EXCEPT ![w] = [Free EXCEPT !.step = "run", !.job = j]]
    <3>1. work'[w].step = "run" /\ \A v \in Worker \ {w} : work'[v] = work[v]
      BY <2>2 DEF Free, ClusterInv, TypeOK
    <3>2. work[w].job \notin Job
      BY <1>4, TaskTyped, NoneAssumption DEF StartTask, At, Free, ClusterInv
    <3>3. UNCHANGED <<project, groupings, clustered, saved, missed, failed>> /\ clustered \subseteq Job
      BY <1>4 DEF StartTask, ClusterInv, TypeOK
    <3>4. Carried' /\ ClustersAccountedFor'
      BY <1>1, <3>1, <3>2, <3>3, TaskMoves DEF FoundRow
    <3> QED
      BY <1>1, <1>2, <3>3, <3>4, RowsKept DEF ClusterInv
  <2> QED
    BY <1>4, <2>1, <2>2 DEF StartTask
<1>5. ASSUME NEW w \in Worker, TaskStep(w)
      PROVE  ClusterInv'
  <2> DEFINE j == work[w].job
  <2>1. /\ \A v \in Worker \ {w} : work'[v] = work[v]
        /\ work[w] \in Task /\ j \in Job /\ FoundRow(w) /\ work' \in [Worker -> Task]
    BY <1>1, <1>5, TaskTyped DEF TaskStep, RunReturns, FindProject, FindGrouping, SaveGrouping, TaskFails,
       Leave, At, ClusterInv, Carried, TypeOK
  <2>2. CASE RunReturns(w)
    <3>1. work[w] \in [step : {"run", "project"}, job : Job, proj : {None}, row : {0}] /\ At(w, "run")
      BY <2>2, TaskTyped DEF RunReturns, At, ClusterInv
    <3>2. CASE work' = [work EXCEPT ![w].step = "project"] /\ clustered' = clustered \cup {j}
      <4>1. work'[w].step = "project" /\ work'[w].job = j
        BY <3>1, <3>2 DEF ClusterInv, TypeOK
      <4>2. FoundRow(w)'
        BY <3>2, <4>1 DEF FoundRow
      <4> QED
        BY <1>1, <1>2, <2>1, <2>2, <3>2, <4>1, <4>2, RowsKept, TaskMoves DEF RunReturns, ClusterInv
    <3>3. CASE Leave(w) /\ UNCHANGED clustered
      <4>1. FoundRow(w)'
        BY <3>3 DEF FoundRow, Leave, Free, ClusterInv, TypeOK
      <4> QED
        BY <1>1, <1>2, <2>1, <2>2, <3>1, <3>3, <4>1, RowsKept, TaskMoves DEF RunReturns, ClusterInv
    <3> QED
      BY <2>2, <3>2, <3>3 DEF RunReturns
  <2>3. CASE FindProject(w)
    <3>1. work[w] \in [step : {"run", "project"}, job : Job, proj : {None}, row : {0}] /\ j \in clustered
      BY <2>1, <2>3, TaskTyped DEF FindProject, At, ClusterInv, FoundRow
    <3>2. CASE Leave(w) /\ missed' = missed \cup {j}
      <4>1. FoundRow(w)'
        BY <3>2 DEF FoundRow, Leave, Free, ClusterInv, TypeOK
      <4> QED
        BY <1>1, <1>2, <2>1, <2>3, <3>2, <4>1, RowsKept, TaskMoves DEF FindProject, ClusterInv
    <3>3. ASSUME NEW p \in ProjectRows(sought[j]), missed' = missed,
                 work' = [work EXCEPT ![w].step = "grouping", ![w].proj = p]
          PROVE  ClusterInv'
      <4>1. work'[w].step = "grouping" /\ work'[w].job = j /\ work'[w].proj = p
        BY <3>1, <3>3 DEF ClusterInv, TypeOK
      <4>2. FoundRow(w)'
        BY <1>1, <1>2, <3>1, <4>1 DEF FoundRow, ProjectRows
      <4> QED
        BY <1>1, <1>2, <2>1, <2>3, <3>3, <4>1, <4>2, RowsKept, TaskMoves DEF FindProject, ClusterInv
    <3> QED
      BY <2>3, <3>2, <3>3 DEF FindProject
  <2>4. CASE FindGrouping(w)
    <3>1. work[w] \in [step : {"grouping"}, job : Job, proj : Job, row : {0}] /\ At(w, "grouping")
      BY <2>4, TaskTyped DEF FindGrouping, At, ClusterInv
    <3>2. PICK i : work' = [work EXCEPT ![w].step = "write", ![w].row = i]
      BY <2>4 DEF FindGrouping
    <3>3. work'[w].step = "write" /\ work'[w].job = j /\ work'[w].proj = work[w].proj
      BY <3>1, <3>2 DEF ClusterInv, TypeOK
    <3>4. FoundRow(w)'
      BY <1>1, <1>2, <2>1, <3>1, <3>3 DEF FoundRow, At
    <3> QED
      BY <1>1, <1>2, <2>1, <2>4, <3>3, <3>4, RowsKept, TaskMoves DEF FindGrouping, ClusterInv
  <2>5. CASE SaveGrouping(w)
    <3> DEFINE p == work[w].proj
               i == work[w].row
    <3>1. p \in Job /\ i \in Nat /\ p \in project /\ name[p] = sought[j] /\ j \in clustered
      BY <2>1, <2>5, TaskTyped DEF SaveGrouping, At, ClusterInv, FoundRow
    <3>2. FoundRow(w)'
      BY <2>5 DEF SaveGrouping, FoundRow, Leave, Free, ClusterInv, TypeOK
    <3>3. Carried' /\ ClustersAccountedFor'
      BY <1>1, <1>2, <2>1, <2>5, <3>2, TaskMoves DEF SaveGrouping
    <3>4. UNCHANGED <<project, clustered>>
      BY <2>5 DEF SaveGrouping
    <3>5. ASSUME NEW q \in Job, NEW k \in 1..Len(groupings'[q])
          PROVE  (q = p /\ groupings'[q][k] = j) \/ (k \in 1..Len(groupings[q]) /\ groupings'[q][k] = groupings[q][k])
      <4>1. groupings[q] \in Seq(Job)
        BY DEF ClusterInv, TypeOK
      <4>2. groupings' = [groupings EXCEPT ![p] = IF i = 0 THEN Append(groupings[p], j)
                                                           ELSE [groupings[p] EXCEPT ![i] = j]]
        BY <2>5 DEF SaveGrouping
      <4>3. CASE q # p
        BY <4>2, <4>3, <3>5 DEF ClusterInv, TypeOK
      <4>4. CASE q = p /\ i = 0
        <5>1. groupings'[q] = Append(groupings[q], j)
          BY <4>2, <4>4 DEF ClusterInv, TypeOK
        <5> QED
          BY <2>1, <3>5, <4>1, <4>4, <5>1, AppendProperties
      <4>5. CASE q = p /\ i # 0
        <5>1. groupings'[q] = [groupings[q] EXCEPT ![i] = j]
          BY <4>2, <4>5 DEF ClusterInv, TypeOK
        <5>2. Len(groupings'[q]) = Len(groupings[q])
          BY <2>1, <3>1, <4>1, <5>1, UpdateRow
        <5>3. k \in 1..Len(groupings[q])
          BY <3>5, <5>2
        <5> QED
          BY <3>1, <4>1, <4>5, <5>1, <5>3
      <4> QED
        BY <4>3, <4>4, <4>5
    <3>6. GroupingIsOfProject'
      BY <1>1, <3>1, <3>4, <3>5 DEF GroupingIsOfProject, ClusterInv
    <3> QED
      BY <1>1, <3>3, <3>6 DEF ClusterInv
  <2>6. CASE TaskFails(w)
    <3>1. FoundRow(w)'
      BY <2>6 DEF TaskFails, FoundRow, Leave, Free, ClusterInv, TypeOK
    <3>2. failed' = IF At(w, "run") THEN failed ELSE failed \cup {j}
      BY <2>6 DEF TaskFails
    <3>3. Carried' /\ ClustersAccountedFor'
      BY <1>1, <1>2, <2>1, <2>6, <3>1, <3>2, TaskMoves DEF TaskFails
    <3> QED
      BY <1>1, <1>2, <2>6, <3>3, RowsKept DEF TaskFails, ClusterInv
  <2> QED
    BY <1>5, <2>2, <2>3, <2>4, <2>5, <2>6 DEF TaskStep
<1>6. ASSUME NEW j \in Job, Submission(j) \/ DeleteJob(j) \/ Redeliver(j)
      PROVE  ClusterInv'
  BY <1>3, <1>6 DEF Submission, CreateJob, CheckProject, InsertProject, SendTask, SubmitFails, DeleteJob,
     Redeliver
<1>7. CASE UNCHANGED vars
  BY <1>3, <1>7 DEF vars
<1> QED
  BY <1>4, <1>5, <1>6, <1>7 DEF Next

LEMMA ClusterInvariant == Spec => []ClusterInv
  BY ClusterInvInit, ClusterInvNext, PTL DEF Spec

(* A grouping holds clusters that a run for this very project returned     *)
(* (worker_service 80-109, tasks 79 and 192), whichever tasks interleave   *)
(* and however often a message is delivered.                               *)
THEOREM GroupingsAreTheirs == Spec => []GroupingIsOfProject
  BY ClusterInvariant, PTL DEF ClusterInv

(* No clusters vanish without a named reason.                              *)
THEOREM ClustersNotLost == Spec => []ClustersAccountedFor
  BY ClusterInvariant, PTL DEF ClusterInv
=============================================================================
