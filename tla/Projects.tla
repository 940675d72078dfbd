------------------------------ MODULE Projects ------------------------------
(***************************************************************************)
(* Projects and their groupings. Submitting a documentation job creates    *)
(* the project of its name if there is none; documentation and clustering  *)
(* tasks save the clusters they computed as the grouping of the project;   *)
(* the API serves the grouping. Submissions and tasks run concurrently,    *)
(* one SQL statement at a time; neither table has a unique constraint on   *)
(* what they look up.                                                      *)
(*                                                                         *)
(* Code: api/services/job_service.py (submit_job, submit_task),            *)
(* api/services/worker_service.py (save_project_grouping),                 *)
(* worker/tasks.py (the calls of it), api/api/routers/endpoints.py.        *)
(* How a job runs otherwise is module Jobs.                                *)
(*                                                                         *)
(* A definition announced as a mutant is a plausible mistake in the code,  *)
(* kept to show that a property would see it; no specification uses it.    *)
(***************************************************************************)
EXTENDS Naturals, Sequences

CONSTANTS
  Job,
  Name,          \* names of projects of one team (every look-up names the team)
  Unnamed,       \* of these, the empty one: no name given, and a path such as "x/.git"
  Worker,        \* worker processes
  MaxRedeliver,  \* bound: copies the broker makes of one message
  None

ASSUME NoneAssumption == None \notin Job
ASSUME UnnamedAssumption == Unnamed \subseteq Name
ASSUME RedeliverAssumption == MaxRedeliver \in Nat

VARIABLES
  kind,       \* "documentation" or "clustering"
  name,       \* the project that job j is about
  sought,     \* the project its task looks for
  sub,        \* next statement of the request that submits j
  deleted,    \* jobs whose row was deleted
  sent,       \* messages of j in the broker
  copies,     \* messages of j the broker added by redelivery
  work,       \* the task of worker w: next step, job, project row, grouping row
  project,    \* project rows, each named by the job whose submission inserted it
  groupings,  \* grouping rows of project row p: whose clusters each holds
  clustered,  \* history: jobs whose run returned clusters to save
  saved,      \* history: jobs whose clusters were written
  failed,     \* history: jobs one of whose saves raised or was killed
  missed,     \* history: jobs that found no project to save for
  raced,      \* history: names two submissions were about to insert
  rushed      \* history: project rows two tasks were about to insert a grouping for

jobs == <<kind, name, sought>>
broker == <<sent, copies>>
saves == <<clustered, saved, failed, missed>>
races == <<raced, rushed>>
vars == <<jobs, sub, deleted, broker, work, project, groupings, saves, races>>

Free == [step |-> "idle", job |-> None, proj |-> None, row |-> 0]

(* A documentation task given an empty name falls back on the one that     *)
(* DocGen finds in the path; otherwise a task looks for what it was given. *)
FallsBack(j) == kind[j] = "documentation" /\ name[j] \in Unnamed

Init ==
  /\ kind \in [Job -> {"documentation", "clustering"}]
  /\ name \in [Job -> Name]
  /\ sought \in [Job -> Name]
  /\ \A j \in Job : sought[j] = name[j] \/ FallsBack(j)
  /\ sub = [j \in Job |-> "new"]
  /\ deleted = {}
  /\ sent = [j \in Job |-> 0]
  /\ copies = [j \in Job |-> 0]
  /\ work = [w \in Worker |-> Free]
  /\ project = {}
  /\ groupings = [p \in Job |-> <<>>]
  /\ clustered = {} /\ saved = {} /\ failed = {} /\ missed = {}
  /\ raced = {} /\ rushed = {}

ProjectRows(n) == {p \in project : name[p] = n}

-----------------------------------------------------------------------------
(* Submission. create_job commits the row; only submit_job, which sends    *)
(* documentation jobs, looks for the project.                              *)

CreateJob(j) ==
  /\ sub[j] = "new"
  /\ sub' = [sub EXCEPT ![j] = IF kind[j] = "documentation" THEN "check" ELSE "send"]
  /\ UNCHANGED <<jobs, deleted, broker, work, project, groupings, saves, races>>

(* Mutant of CheckProject: the task is sent without waiting for the row.   *)
CheckProjectSends(j) ==
  /\ sub[j] = "check"
  /\ sub' = [sub EXCEPT ![j] = IF ProjectRows(name[j]) = {} THEN "insert" ELSE "sent"]
  /\ sent' = [sent EXCEPT ![j] = @ + 1]
  /\ UNCHANGED <<jobs, deleted, copies, work, project, groupings, saves, races>>

CheckProject(j) ==
  /\ sub[j] = "check"
  /\ LET absent == ProjectRows(name[j]) = {}
     IN /\ sub' = [sub EXCEPT ![j] = IF absent THEN "insert" ELSE "send"]
        /\ raced' = IF absent /\ \E i \in Job : sub[i] = "insert" /\ name[i] = name[j]
                    THEN raced \cup {name[j]} ELSE raced
  /\ UNCHANGED <<jobs, deleted, broker, work, project, groupings, saves, rushed>>

InsertProject(j) ==
  /\ sub[j] = "insert"
  /\ project' = project \cup {j}
  /\ sub' = [sub EXCEPT ![j] = "send"]
  /\ UNCHANGED <<jobs, deleted, broker, work, groupings, saves, races>>

SendTask(j) ==
  /\ sub[j] = "send"
  /\ sent' = [sent EXCEPT ![j] = @ + 1]
  /\ sub' = [sub EXCEPT ![j] = "sent"]
  /\ UNCHANGED <<jobs, deleted, copies, work, project, groupings, saves, races>>

(* A statement or send_task raises, or the API stops.                      *)
SubmitFails(j) ==
  /\ sub[j] \in {"check", "insert", "send"}
  /\ sub' = [sub EXCEPT ![j] = "failed"]
  /\ UNCHANGED <<jobs, deleted, broker, work, project, groupings, saves, races>>

DeleteJob(j) ==
  /\ sub[j] # "new"
  /\ j \notin deleted
  /\ deleted' = deleted \cup {j}
  /\ UNCHANGED <<jobs, sub, broker, work, project, groupings, saves, races>>

Redeliver(j) ==
  /\ sent[j] > 0
  /\ copies[j] < MaxRedeliver
  /\ sent' = [sent EXCEPT ![j] = @ + 1]
  /\ copies' = [copies EXCEPT ![j] = @ + 1]
  /\ UNCHANGED <<jobs, sub, deleted, work, project, groupings, saves, races>>

-----------------------------------------------------------------------------
(* The tasks.                                                              *)

At(w, s) == work[w].step = s

(* The end of worker w's task, or of what concerns groupings in it.        *)
Leave(w) == work' = [work EXCEPT ![w] = Free]

(* A task up to get_job_basic_details: without a row there is no team, and *)
(* nothing will be saved.                                                  *)
StartTask(w, j) ==
  /\ At(w, "idle")
  /\ sent[j] > 0
  /\ sent' = [sent EXCEPT ![j] = @ - 1]
  /\ IF j \in deleted THEN UNCHANGED work
     ELSE work' = [work EXCEPT ![w] = [Free EXCEPT !.step = "run", !.job = j]]
  /\ UNCHANGED <<jobs, sub, deleted, copies, project, groupings, saves, races>>

(* Mutant of RunReturns: whatever the run returned is saved.               *)
RunSavesAnything(w) ==
  /\ At(w, "run")
  /\ work' = [work EXCEPT ![w].step = "project"]
  /\ \/ clustered' = clustered \cup {work[w].job}
     \/ UNCHANGED clustered
  /\ UNCHANGED <<jobs, sub, deleted, broker, project, groupings, saved, failed, missed, races>>

(* The run returns, and COMPLETED is written (module Jobs); clusters, if   *)
(* there are any, are saved after that.                                    *)
RunReturns(w) ==
  /\ At(w, "run")
  /\ \/ /\ work' = [work EXCEPT ![w].step = "project"]
        /\ clustered' = clustered \cup {work[w].job}
     \/ /\ Leave(w)
        /\ UNCHANGED clustered
  /\ UNCHANGED <<jobs, sub, deleted, broker, project, groupings, saved, failed, missed, races>>

(* Mutant of FindProject: a missing project is not noticed.                *)
FindProjectUnchecked(w) ==
  /\ At(w, "project")
  /\ \E p \in ProjectRows(sought[work[w].job]) \cup {None} :
       work' = [work EXCEPT ![w].step = "grouping", ![w].proj = p]
  /\ UNCHANGED <<jobs, sub, deleted, broker, project, groupings, saves, races>>

(* The project by team and name, the first row of any.                     *)
FindProject(w) ==
  /\ At(w, "project")
  /\ LET j == work[w].job
         rows == ProjectRows(sought[j])
     IN \/ rows = {} /\ Leave(w) /\ missed' = missed \cup {j}
        \/ /\ \E p \in rows :
                work' = [work EXCEPT ![w].step = "grouping", ![w].proj = p]
           /\ UNCHANGED missed
  /\ UNCHANGED <<jobs, sub, deleted, broker, project, groupings, clustered, saved, failed, races>>

(* Mutant of FindGrouping: every save inserts a row.                       *)
FindNoGrouping(w) ==
  /\ At(w, "grouping")
  /\ work' = [work EXCEPT ![w].step = "write"]
  /\ UNCHANGED <<jobs, sub, deleted, broker, project, groupings, saves, races>>

(* Its grouping, the first row of any; row 0 stands for none.              *)
FindGrouping(w) ==
  /\ At(w, "grouping")
  /\ LET p == work[w].proj
         rows == 1..Len(groupings[p])
     IN /\ \E i \in IF rows = {} THEN {0} ELSE rows :
             work' = [work EXCEPT ![w].step = "write", ![w].row = i]
        /\ rushed' = IF rows = {} /\ \E v \in Worker :
                          At(v, "write") /\ work[v].proj = p /\ work[v].row = 0
                     THEN rushed \cup {p} ELSE rushed
  /\ UNCHANGED <<jobs, sub, deleted, broker, project, groupings, saves, raced>>

(* Mutant of SaveGrouping: the commit is missing.                          *)
SaveWithoutCommit(w) ==
  /\ At(w, "write")
  /\ Leave(w)
  /\ UNCHANGED <<jobs, sub, deleted, broker, project, groupings, saves, races>>

(* The row that was found is updated, or a new one inserted; then commit.  *)
SaveGrouping(w) ==
  /\ At(w, "write")
  /\ LET j == work[w].job
         p == work[w].proj
         i == work[w].row
     IN /\ groupings' = [groupings EXCEPT ![p] = IF i = 0 THEN Append(@, j) ELSE [@ EXCEPT ![i] = j]]
        /\ saved' = saved \cup {j}
  /\ Leave(w)
  /\ UNCHANGED <<jobs, sub, deleted, broker, project, clustered, failed, missed, races>>

(* A statement of the save raises, which is logged and swallowed; the run  *)
(* raises; or the process is killed.                                       *)
TaskFails(w) ==
  /\ ~ At(w, "idle")
  /\ failed' = IF At(w, "run") THEN failed ELSE failed \cup {work[w].job}
  /\ Leave(w)
  /\ UNCHANGED <<jobs, sub, deleted, broker, project, groupings, clustered, saved, missed, races>>

-----------------------------------------------------------------------------
Submission(j) ==
  CreateJob(j) \/ CheckProject(j) \/ InsertProject(j) \/ SendTask(j) \/ SubmitFails(j)

TaskStep(w) ==
  RunReturns(w) \/ FindProject(w) \/ FindGrouping(w) \/ SaveGrouping(w) \/ TaskFails(w)

Next ==
  \/ \E j \in Job : Submission(j) \/ DeleteJob(j) \/ Redeliver(j)
  \/ \E w \in Worker, j \in Job : StartTask(w, j)
  \/ \E w \in Worker : TaskStep(w)

Spec == Init /\ [][Next]_vars

-----------------------------------------------------------------------------
(* What GET /endpoints/{project_name}/grouping does with its two reads,    *)
(* each of which accepts one row at most (scalar_one_or_none).             *)
FetchRaises(n) ==
  \/ \E p, q \in ProjectRows(n) : p # q
  \/ \E p \in ProjectRows(n) : Len(groupings[p]) > 1

(* A task that saves names the project row it has found.                   *)
Task ==
  {Free}
  \cup [step : {"run", "project"}, job : Job, proj : {None}, row : {0}]
  \cup [step : {"grouping"}, job : Job, proj : Job, row : {0}]
  \cup [step : {"write"}, job : Job, proj : Job, row : Nat]

TypeOK ==
  /\ kind \in [Job -> {"documentation", "clustering"}]
  /\ name \in [Job -> Name]
  /\ sought \in [Job -> Name]
  /\ sub \in [Job -> {"new", "check", "insert", "send", "sent", "failed"}]
  /\ sent \in [Job -> Nat]
  /\ copies \in [Job -> Nat]
  /\ work \in [Worker -> Task]
  /\ groupings \in [Job -> Seq(Job)]
  /\ deleted \cup project \cup clustered \cup saved \cup failed \cup missed \cup rushed \subseteq Job
  /\ raced \subseteq Name

(* The grouping of a project can be fetched: no lookup finds two rows,     *)
(* unless two submissions inserted the project at the same time, or two    *)
(* tasks the grouping.                                                     *)
FetchAnswers ==
  \A n \in Name : FetchRaises(n) => n \in raced \/ ProjectRows(n) \cap rushed # {}

(* A documentation task that looks for the project it was submitted for    *)
(* finds it: submission, broker and worker keep the order of the insert    *)
(* and the save, and a failed submission sends nothing. Only clustering,   *)
(* or a job that came without a name, may look for no project.             *)
DocumentationHasProject ==
  \A j \in missed : kind[j] = "clustering" \/ sought[j] # name[j]

(* The rows of a grouping hold clusters that a run returned which looked   *)
(* for this very project: an empty result does not wipe what was there.    *)
GroupingIsOfProject ==
  \A p \in Job : \A i \in 1..Len(groupings[p]) :
    /\ p \in project
    /\ groupings[p][i] \in clustered
    /\ sought[groupings[p][i]] = name[p]

(* Clusters that a run returned are about to be saved, were saved, or were *)
(* dropped for one of two named reasons: no project, a save that failed.   *)
ClustersAccountedFor ==
  \A j \in clustered :
    \/ j \in saved \cup missed \cup failed
    \/ \E w \in Worker : work[w].job = j /\ ~ At(w, "run")
=============================================================================
