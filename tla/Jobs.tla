-------------------------------- MODULE Jobs --------------------------------
(***************************************************************************)
(* The life of a generation job: the API commits its row and sends a       *)
(* Celery message, the Redis broker delivers the message to a worker node, *)
(* a worker process runs the task and writes the row's status, and the     *)
(* task's `finally' blocks release what it opened.                         *)
(*                                                                         *)
(* Code: api/services/job_service.py, api/services/worker_service.py,      *)
(* worker/tasks.py, worker/celery_app.py, shared/models.py.                *)
(*                                                                         *)
(* A step of a worker process is what happens between two points at which  *)
(* another actor can interleave: a commit, a file operation, a publish.    *)
(* Each session of worker_service reads and commits in one step: its       *)
(* UPDATE names the columns it sets, and updates no row when the job was   *)
(* deleted after the read (the ORM then raises and the helper rolls back). *)
(*                                                                         *)
(* A definition announced as a mutant is a plausible mistake in the code,  *)
(* kept to show that a property would see it; no specification uses it.    *)
(***************************************************************************)
EXTENDS Naturals

CONSTANTS
  Job,           \* ids of the jobs that requests create
  Worker,        \* worker processes (celery --concurrency)
  Kinds,         \* the kinds of task the requests submit
  NoJob,         \* "this worker process runs nothing"
  MaxRedeliver   \* bound: copies the broker makes of one job's message

AllKinds == {"documentation", "search", "clustering", "examples", "list", "details"}

ASSUME NoJobAssumption == NoJob \notin Job
ASSUME KindsAssumption == Kinds \subseteq AllKinds
ASSUME RedeliverAssumption == MaxRedeliver \in Nat

(* The tasks that compose a temporary config file, and the one task that   *)
(* opens a log stream.                                                     *)
UsesConfig == {"documentation", "search", "clustering", "examples"}
Streams == {"documentation"}

Stored == {"pending", "processing", "completed", "failed"}  \* JobStatus
Terminal == {"completed", "failed"}
Status == Stored \cup {"absent", "deleted"}                 \* no row yet, row deleted

VARIABLES
  kind,      \* task the request for job j submits
  status,    \* generation_jobs.status of j
  result,    \* TRUE: generation_jobs.result of j is set
  error,     \* TRUE: generation_jobs.error of j is set
  submit,    \* the API request that submits j: "none", "created", "done"
  queued,    \* messages of j in the Redis queue
  reserved,  \* messages of j a worker node has prefetched and not acknowledged
  copies,    \* messages of j the broker added by redelivery
  pc,        \* next step of worker process w
  task,      \* job worker process w runs
  holds,     \* TRUE: config_path of w's task names a file
  files,     \* temporary config files w has left on disk
  harmed,    \* history: workers on which a config file lost its owner
  closed,    \* jobs whose "complete" sentinel has been published
  lost       \* history: jobs whose last chance of a final status was lost

row == <<status, result, error>>
broker == <<queued, reserved, copies>>
proc == <<pc, task, holds>>
disk == <<files, harmed>>
vars == <<kind, row, submit, broker, proc, disk, closed, lost>>

PC == {"idle", "accepted", "compose", "run", "complete", "fail", "cleanup", "close"}

(* The steps of a task that come before its final status write.            *)
BeforeFinal == {"accepted", "compose", "run", "complete", "fail"}

RowExists(j) == status[j] \in Stored

-----------------------------------------------------------------------------
Init ==
  /\ kind \in [Job -> Kinds]
  /\ status = [j \in Job |-> "absent"]
  /\ result = [j \in Job |-> FALSE]
  /\ error = [j \in Job |-> FALSE]
  /\ submit = [j \in Job |-> "none"]
  /\ queued = [j \in Job |-> 0]
  /\ reserved = [j \in Job |-> 0]
  /\ copies = [j \in Job |-> 0]
  /\ pc = [w \in Worker |-> "idle"]
  /\ task = [w \in Worker |-> NoJob]
  /\ holds = [w \in Worker |-> FALSE]
  /\ files = [w \in Worker |-> 0]
  /\ harmed = {}
  /\ closed = {}
  /\ lost = {}

-----------------------------------------------------------------------------
(* The API.                                                                *)

(* create_job commits the row before anything is sent.                     *)
CreateJob(j) ==
  /\ submit[j] = "none"
  /\ submit' = [submit EXCEPT ![j] = "created"]
  /\ status' = [status EXCEPT ![j] = "pending"]
  /\ UNCHANGED <<kind, result, error, broker, proc, disk, closed, lost>>

(* send_task, after which the request answers.                             *)
Dispatch(j) ==
  /\ submit[j] = "created"
  /\ submit' = [submit EXCEPT ![j] = "done"]
  /\ queued' = [queued EXCEPT ![j] = @ + 1]
  /\ UNCHANGED <<kind, row, reserved, copies, proc, disk, closed, lost>>

(* The request ends after the commit and before the message is on the      *)
(* queue: the project insert or send_task raises, or the API stops.        *)
SubmitFails(j) ==
  /\ submit[j] = "created"
  /\ submit' = [submit EXCEPT ![j] = "done"]
  /\ lost' = lost \cup {j}
  /\ UNCHANGED <<kind, row, broker, proc, disk, closed>>

(* delete_job: the row and its logs go in one transaction, whatever the    *)
(* status; the message and a running task are not told.                    *)
DeleteJob(j) ==
  /\ RowExists(j)
  /\ status' = [status EXCEPT ![j] = "deleted"]
  /\ result' = [result EXCEPT ![j] = FALSE]
  /\ error' = [error EXCEPT ![j] = FALSE]
  /\ UNCHANGED <<kind, submit, broker, proc, disk, closed, lost>>

-----------------------------------------------------------------------------
(* The broker (Redis through kombu, configured by celery_app.py).          *)

Prefetch(j) ==
  /\ queued[j] > 0
  /\ queued' = [queued EXCEPT ![j] = @ - 1]
  /\ reserved' = [reserved EXCEPT ![j] = @ + 1]
  /\ UNCHANGED <<kind, row, submit, copies, proc, disk, closed, lost>>

(* A message prefetched longer than the visibility timeout (one hour, the  *)
(* time limit of one task) goes back to the queue while the node still     *)
(* holds it: both will run.                                                *)
VisibilityTimeout(j) ==
  /\ reserved[j] > 0
  /\ copies[j] < MaxRedeliver
  /\ queued' = [queued EXCEPT ![j] = @ + 1]
  /\ copies' = [copies EXCEPT ![j] = @ + 1]
  /\ UNCHANGED <<kind, row, submit, reserved, proc, disk, closed, lost>>

-----------------------------------------------------------------------------
(* The worker process.                                                     *)

(* Messages are acknowledged before the task runs (the default, which      *)
(* celery_app.py keeps).                                                   *)
Accept(w, j) ==
  /\ pc[w] = "idle"
  /\ reserved[j] > 0
  /\ reserved' = [reserved EXCEPT ![j] = @ - 1]
  /\ pc' = [pc EXCEPT ![w] = "accepted"]
  /\ task' = [task EXCEPT ![w] = j]
  /\ UNCHANGED <<kind, row, submit, queued, copies, holds, disk, closed, lost>>

(* Mutant of UpdateJobStatus: the row is inserted when it is gone.         *)
UpsertJobStatus(j, s) ==
  \/ UNCHANGED row
  \/ /\ status' = [status EXCEPT ![j] = s]
     /\ result' = [result EXCEPT ![j] = @ \/ s = "completed"]
     /\ error' = [error EXCEPT ![j] = @ \/ s = "failed"]

(* update_job_status: no row, or an exception that is logged and           *)
(* swallowed, leaves the row as it was; no column is ever cleared.         *)
UpdateJobStatus(j, s) ==
  \/ UNCHANGED row
  \/ /\ RowExists(j)
     /\ status' = [status EXCEPT ![j] = s]
     /\ result' = [result EXCEPT ![j] = @ \/ s = "completed"]
     /\ error' = [error EXCEPT ![j] = @ \/ s = "failed"]

MarkProcessing(w) ==
  /\ pc[w] = "accepted"
  /\ UpdateJobStatus(task[w], "processing")
  /\ pc' = [pc EXCEPT ![w] = IF kind[task[w]] \in UsesConfig THEN "compose" ELSE "run"]
  /\ UNCHANGED <<kind, submit, broker, task, holds, disk, closed, lost>>

(* Mutant of Compose: the call stands before the task's `try'.             *)
ComposeOutsideTry(w) ==
  /\ pc[w] = "compose"
  /\ \/ /\ pc' = [pc EXCEPT ![w] = "run"]
        /\ holds' = [holds EXCEPT ![w] = TRUE]
        /\ files' = [files EXCEPT ![w] = @ + 1]
     \/ /\ pc' = [pc EXCEPT ![w] = "cleanup"]
        /\ UNCHANGED <<holds, files>>
  /\ UNCHANGED <<kind, row, submit, broker, task, harmed, closed, lost>>

(* get_dynamic_config_path. The file is created with delete=False, so an   *)
(* exception while it is written leaves it behind with no path returned.   *)
Compose(w) ==
  /\ pc[w] = "compose"
  /\ \/ /\ pc' = [pc EXCEPT ![w] = "run"]
        /\ holds' = [holds EXCEPT ![w] = TRUE]
        /\ files' = [files EXCEPT ![w] = @ + 1]
        /\ UNCHANGED harmed
     \/ /\ pc' = [pc EXCEPT ![w] = "fail"]
        /\ UNCHANGED <<holds, files, harmed>>
     \/ /\ pc' = [pc EXCEPT ![w] = "fail"]
        /\ files' = [files EXCEPT ![w] = @ + 1]
        /\ harmed' = harmed \cup {w}
        /\ UNCHANGED holds
  /\ UNCHANGED <<kind, row, submit, broker, task, closed, lost>>

(* Mutant of RunPipeline: an exception is not caught, only the `finally'   *)
(* blocks run.                                                             *)
RunPipelineUncaught(w) ==
  /\ pc[w] = "run"
  /\ \E next \in {"complete", "cleanup"} : pc' = [pc EXCEPT ![w] = next]
  /\ UNCHANGED <<kind, row, submit, broker, task, holds, disk, closed, lost>>

(* The pipeline, clusterer, generator or service call: it returns, or it   *)
(* raises (get_endpoint_details_task: or finds nothing).                   *)
RunPipeline(w) ==
  /\ pc[w] = "run"
  /\ \E next \in {"complete", "fail"} : pc' = [pc EXCEPT ![w] = next]
  /\ UNCHANGED <<kind, row, submit, broker, task, holds, disk, closed, lost>>

(* The final write, on success or in the `except' block. A task is never   *)
(* run again by itself (max_retries=0), so a write that does not reach an  *)
(* existing row was the job's last chance.                                 *)
FinalWrite(w, s) ==
  /\ UpdateJobStatus(task[w], s)
  /\ lost' = IF status'[task[w]] \in {s, "deleted"} THEN lost ELSE lost \cup {task[w]}
  /\ pc' = [pc EXCEPT ![w] = "cleanup"]
  /\ UNCHANGED <<kind, submit, broker, task, holds, disk, closed>>

(* Mutants of WriteFailed: the message is sent again (max_retries > 0), or *)
(* the task starts over in place.                                          *)
WriteFailedResends(w) ==
  /\ pc[w] = "fail"
  /\ UpdateJobStatus(task[w], "failed")
  /\ queued' = [queued EXCEPT ![task[w]] = @ + 1]
  /\ pc' = [pc EXCEPT ![w] = "cleanup"]
  /\ UNCHANGED <<kind, submit, reserved, copies, task, holds, disk, closed, lost>>
WriteFailedStartsOver(w) ==
  /\ pc[w] = "fail"
  /\ UpdateJobStatus(task[w], "failed")
  /\ pc' = [pc EXCEPT ![w] = "run"]
  /\ UNCHANGED <<kind, submit, broker, task, holds, disk, closed, lost>>

WriteCompleted(w) == pc[w] = "complete" /\ FinalWrite(w, "completed")
WriteFailed(w) == pc[w] = "fail" /\ FinalWrite(w, "failed")

(* Mutants of Cleanup: the file is removed only after success, or without  *)
(* the test that there is one.                                             *)
CleanupAfterSuccess(w) ==
  /\ pc[w] = "cleanup"
  /\ holds' = [holds EXCEPT ![w] = FALSE]
  /\ files' = [files EXCEPT ![w] =
       IF holds[w] /\ status[task[w]] = "completed" THEN @ - 1 ELSE @]
  /\ pc' = [pc EXCEPT ![w] = "idle"]
  /\ task' = [task EXCEPT ![w] = NoJob]
  /\ UNCHANGED <<kind, row, submit, broker, harmed, closed, lost>>
CleanupUnguarded(w) ==
  /\ pc[w] = "cleanup"
  /\ holds' = [holds EXCEPT ![w] = FALSE]
  /\ files' = [files EXCEPT ![w] = @ - 1]
  /\ pc' = [pc EXCEPT ![w] = "idle"]
  /\ task' = [task EXCEPT ![w] = NoJob]
  /\ UNCHANGED <<kind, row, submit, broker, harmed, closed, lost>>

(* The `finally' block of the task.                                        *)
Cleanup(w) ==
  /\ pc[w] = "cleanup"
  /\ holds' = [holds EXCEPT ![w] = FALSE]
  /\ files' = [files EXCEPT ![w] = IF holds[w] THEN @ - 1 ELSE @]
  /\ IF kind[task[w]] \in Streams
     THEN pc' = [pc EXCEPT ![w] = "close"] /\ UNCHANGED task
     ELSE pc' = [pc EXCEPT ![w] = "idle"] /\ task' = [task EXCEPT ![w] = NoJob]
  /\ UNCHANGED <<kind, row, submit, broker, harmed, closed, lost>>

(* RedisLogHandler.close, called by the `finally' of job_log_stream: a     *)
(* failed publish is swallowed.                                            *)
CloseStream(w) ==
  /\ pc[w] = "close"
  /\ closed' \in {closed, closed \cup {task[w]}}
  /\ pc' = [pc EXCEPT ![w] = "idle"]
  /\ task' = [task EXCEPT ![w] = NoJob]
  /\ UNCHANGED <<kind, row, submit, broker, holds, disk, lost>>

(* A worker process dies: no `except', no `finally'. The file of its task  *)
(* stays, and a job whose final write had not come is lost.                *)
Die(W) ==
  /\ pc' = [w \in Worker |-> IF w \in W THEN "idle" ELSE pc[w]]
  /\ task' = [w \in Worker |-> IF w \in W THEN NoJob ELSE task[w]]
  /\ holds' = [w \in Worker |-> IF w \in W THEN FALSE ELSE holds[w]]
  /\ harmed' = harmed \cup {w \in W : holds[w]}
  /\ lost' = lost \cup {task[w] : w \in {v \in W : pc[v] \in BeforeFinal}}
  /\ UNCHANGED <<kind, row, submit, files, closed>>

(* task_time_limit: the pool kills the process; the message was already    *)
(* acknowledged.                                                           *)
HardKill(w) ==
  /\ pc[w] # "idle"
  /\ Die({w})
  /\ UNCHANGED broker

(* Mutant of NodeRestart: prefetched messages go down with the node.       *)
NodeRestartDrops ==
  /\ (\E w \in Worker : pc[w] # "idle") \/ (\E j \in Job : reserved[j] > 0)
  /\ Die(Worker)
  /\ reserved' = [j \in Job |-> 0]
  /\ UNCHANGED <<queued, copies>>

(* The node stops (watchmedo restarts it on every source change, or it     *)
(* crashes). kombu returns its prefetched messages to the queue, at exit   *)
(* or when their visibility times out.                                     *)
NodeRestart ==
  /\ (\E w \in Worker : pc[w] # "idle") \/ (\E j \in Job : reserved[j] > 0)
  /\ Die(Worker)
  /\ queued' = [j \in Job |-> queued[j] + reserved[j]]
  /\ reserved' = [j \in Job |-> 0]
  /\ UNCHANGED copies

-----------------------------------------------------------------------------
TaskStep(w) ==
  \/ MarkProcessing(w)
  \/ Compose(w)
  \/ RunPipeline(w)
  \/ WriteCompleted(w)
  \/ WriteFailed(w)
  \/ Cleanup(w)
  \/ CloseStream(w)

Next ==
  \/ \E j \in Job :
       \/ CreateJob(j)
       \/ Dispatch(j)
       \/ SubmitFails(j)
       \/ DeleteJob(j)
       \/ Prefetch(j)
       \/ VisibilityTimeout(j)
       \/ \E w \in Worker : Accept(w, j)
  \/ \E w \in Worker : TaskStep(w) \/ HardKill(w)
  \/ NodeRestart

(* A started request goes on or ends. A task goes on or is killed at its   *)
(* time limit. A node that is up prefetches; the node may restart again    *)
(* and again, each time taking back what it had prefetched, so a worker    *)
(* takes a message it could take infinitely often.                         *)
Fairness ==
  /\ \A j \in Job :
       /\ WF_vars(Dispatch(j) \/ SubmitFails(j))
       /\ WF_vars(Prefetch(j))
       /\ SF_vars(\E w \in Worker : Accept(w, j))
  /\ \A w \in Worker : WF_vars(TaskStep(w) \/ HardKill(w))

Spec == Init /\ [][Next]_vars /\ Fairness

-----------------------------------------------------------------------------
TypeOK ==
  /\ kind \in [Job -> Kinds]
  /\ status \in [Job -> Status]
  /\ result \in [Job -> BOOLEAN]
  /\ error \in [Job -> BOOLEAN]
  /\ submit \in [Job -> {"none", "created", "done"}]
  /\ queued \in [Job -> Nat]
  /\ reserved \in [Job -> Nat]
  /\ copies \in [Job -> Nat]
  /\ pc \in [Worker -> PC]
  /\ task \in [Worker -> Job \cup {NoJob}]
  /\ holds \in [Worker -> BOOLEAN]
  /\ files \in [Worker -> Nat]
  /\ harmed \subseteq Worker
  /\ closed \subseteq Job
  /\ lost \subseteq Job
  /\ \A w \in Worker : (task[w] = NoJob) <=> (pc[w] = "idle")

(* Somebody will still write a final status for j: its request, a message, *)
(* or a task before its final write.                                       *)
Carried(j) ==
  \/ submit[j] = "created"
  \/ queued[j] > 0
  \/ reserved[j] > 0
  \/ \E w \in Worker : task[w] = j /\ pc[w] \in BeforeFinal

(* A job that polls as "pending" or "processing" is being taken care of,   *)
(* unless its submission failed after the commit, its worker was killed or *)
(* its final write was swallowed: no other path through the tasks'         *)
(* try/except/finally drops a job.                                         *)
NoOrphan ==
  \A j \in Job : status[j] \in {"pending", "processing"} => Carried(j) \/ j \in lost

(* The sentinel follows the final write: a page that refetches the job     *)
(* when the stream completes sees its final status. (Not when the broker   *)
(* redelivered the message: a second task may be starting.)                *)
SettledWhenStreamCloses ==
  \A j \in closed : status[j] \in Terminal \cup {"deleted"} \/ j \in lost \/ copies[j] > 0

(* However often a job runs, and in whatever order its runs write, a       *)
(* completed job has a result, a failed one an error, and one that no run  *)
(* has touched neither. The columns are never cleared, so only a job       *)
(* delivered once is sure to carry no other than the one that goes with    *)
(* its status.                                                             *)
ColumnsMatchStatus ==
  \A j \in Job :
    /\ status[j] = "completed" => result[j]
    /\ status[j] = "failed" => error[j]
    /\ status[j] \in {"absent", "pending", "deleted"} => ~ result[j] /\ ~ error[j]
    /\ copies[j] = 0 /\ result[j] => status[j] = "completed"
    /\ copies[j] = 0 /\ error[j] => status[j] = "failed"

(* Two processes run the same job only if the broker redelivered it.       *)
OneTaskPerJob ==
  \A v, w \in Worker :
    v # w /\ task[v] = task[w] /\ task[v] # NoJob => copies[task[v]] > 0

(* Every way through a task that composes a config file removes it; what   *)
(* stays on disk was left by a kill or a failed write of the file.         *)
NoConfigFileLeft ==
  \A w \in Worker : pc[w] = "idle" /\ files[w] > 0 => w \in harmed

(* A poller that saw a final status never sees another one, unless the     *)
(* job was delivered twice (or deleted).                                   *)
FinalUnlessRedelivered ==
  [][\A j \in Job : status[j] \in Terminal /\ status'[j] # status[j] =>
       status'[j] = "deleted" \/ copies[j] > 0]_vars

(* A submitted job reaches a final status, is deleted, or was lost.        *)
EveryJobSettles ==
  \A j \in Job : status[j] = "pending" ~>
    status[j] \in Terminal \cup {"deleted"} \/ j \in lost

(* A worker process always becomes free for the next message.              *)
WorkerFreed == \A w \in Worker : pc[w] # "idle" ~> pc[w] = "idle"

(* Without redelivery the status column keeps the promise of JobPromise.   *)
Promise == INSTANCE JobPromise WITH Job <- Job, status <- status
KeepsPromise == Promise!Spec
=============================================================================
