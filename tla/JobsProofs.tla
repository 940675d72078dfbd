----------------------------- MODULE JobsProofs -----------------------------
(***************************************************************************)
(* Proofs about Jobs, for any sets of jobs and worker processes and any    *)
(* number of redelivered messages.                                         *)
(***************************************************************************)
EXTENDS Jobs, TLAPS

(* A task that knows its config file is between composing and removing it, *)
(* and on a worker where no file lost its owner that file is the only one. *)
(* TypeOK needs it: Cleanup must not count below zero.                     *)
FilesOwned ==
  \A w \in Worker :
    /\ holds[w] => files[w] > 0 /\ pc[w] \in {"run", "complete", "fail", "cleanup"}
    /\ w \notin harmed => files[w] = IF holds[w] THEN 1 ELSE 0

TypeInv == TypeOK /\ FilesOwned

LEMMA TypeInvInit == Init => TypeInv
  BY NoJobAssumption DEF Init, TypeInv, TypeOK, FilesOwned, Status, Stored, PC

(* What every step keeps, one lemma for the API and the broker, one for    *)
(* the steps of a task, one for the death of worker processes.             *)
LEMMA TypeInvApiBroker ==
  ASSUME TypeInv, NEW j \in Job,
         \/ CreateJob(j) \/ Dispatch(j) \/ SubmitFails(j) \/ DeleteJob(j)
         \/ Prefetch(j) \/ VisibilityTimeout(j)
         \/ \E w \in Worker : Accept(w, j)
  PROVE  TypeInv'
<1> USE DEF TypeInv, TypeOK, FilesOwned, row, broker, proc, disk
<1>1. CASE CreateJob(j)
  BY <1>1 DEF CreateJob, Status, Stored
<1>2. CASE Dispatch(j)
  BY <1>2 DEF Dispatch
<1>3. CASE SubmitFails(j)
  BY <1>3 DEF SubmitFails
<1>4. CASE DeleteJob(j)
  BY <1>4 DEF DeleteJob, Status, Stored
<1>5. CASE Prefetch(j)
  BY <1>5 DEF Prefetch
<1>6. CASE VisibilityTimeout(j)
  BY <1>6 DEF VisibilityTimeout
<1>7. CASE \E w \in Worker : Accept(w, j)
  <2>1. PICK w \in Worker : Accept(w, j)
    BY <1>7
  <2>2. TypeOK'
    BY <2>1, NoJobAssumption DEF Accept, PC
  <2>3. FilesOwned'
    BY <2>1 DEF Accept, PC
  <2> QED
    BY <2>2, <2>3
<1> QED
  BY <1>1, <1>2, <1>3, <1>4, <1>5, <1>6, <1>7

LEMMA RowTyped ==
  ASSUME TypeOK, NEW j \in Job, NEW s \in Stored, UpdateJobStatus(j, s)
  PROVE  /\ status' \in [Job -> Status]
         /\ result' \in [Job -> BOOLEAN]
         /\ error' \in [Job -> BOOLEAN]
<1>1. CASE UNCHANGED row
  BY <1>1 DEF TypeOK, row
<1>2. CASE ~ UNCHANGED row
  <2>1. status' \in [Job -> Status]
    BY <1>2 DEF TypeOK, UpdateJobStatus, Status
  <2>2. (result[j] \/ s = "completed") \in BOOLEAN /\ (error[j] \/ s = "failed") \in BOOLEAN
    OBVIOUS
  <2>3. result' \in [Job -> BOOLEAN] /\ error' \in [Job -> BOOLEAN]
    BY <1>2, <2>2 DEF TypeOK, UpdateJobStatus
  <2> QED
    BY <2>1, <2>3
<1> QED
  BY <1>1, <1>2

LEMMA BusyHasJob ==
  ASSUME TypeOK, NEW w \in Worker, pc[w] # "idle"
  PROVE  task[w] \in Job
  BY DEF TypeOK

LEMMA TypeInvTask ==
  ASSUME TypeInv, NEW w \in Worker, TaskStep(w)
  PROVE  TypeInv'
<1>a. pc[w] # "idle" => task[w] \in Job
  BY BusyHasJob DEF TypeInv
<1>b. ASSUME NEW s \in Stored, pc[w] # "idle", UpdateJobStatus(task[w], s)
      PROVE  /\ status' \in [Job -> Status]
             /\ result' \in [Job -> BOOLEAN]
             /\ error' \in [Job -> BOOLEAN]
  BY <1>a, <1>b, RowTyped DEF TypeInv
<1> USE DEF TypeInv, TypeOK, FilesOwned, broker, disk
<1>1. CASE MarkProcessing(w)
  <2>1. /\ status' \in [Job -> Status]
        /\ result' \in [Job -> BOOLEAN]
        /\ error' \in [Job -> BOOLEAN]
    BY <1>1, <1>b DEF MarkProcessing, Stored
  <2> QED
    BY <1>1, <2>1 DEF MarkProcessing, PC
<1>2. CASE Compose(w)
  <2>1. TypeOK'
    <3>1. pc' \in [Worker -> PC] /\ holds' \in [Worker -> BOOLEAN]
      BY <1>2 DEF Compose, PC
    <3>2. files' \in [Worker -> Nat] /\ harmed' \subseteq Worker
      BY <1>2 DEF Compose
    <3>3. \A v \in Worker : task'[v] = NoJob <=> pc'[v] = "idle"
      BY <1>2 DEF Compose
    <3> QED
      BY <1>2, <3>1, <3>2, <3>3 DEF Compose, row
  <2>2. FilesOwned'
    BY <1>2 DEF Compose, PC
  <2> QED
    BY <2>1, <2>2
<1>3. CASE RunPipeline(w)
  BY <1>3 DEF RunPipeline, PC, row
<1>4. ASSUME NEW s \in {"completed", "failed"}, FinalWrite(w, s), pc[w] \in {"complete", "fail"}
      PROVE  TypeInv'
  <2>1. /\ status' \in [Job -> Status]
        /\ result' \in [Job -> BOOLEAN]
        /\ error' \in [Job -> BOOLEAN]
    BY <1>4, <1>b DEF FinalWrite, Stored
  <2> QED
    BY <1>4, <1>a, <2>1 DEF FinalWrite, PC
<1>5. CASE WriteCompleted(w)
  BY <1>4, <1>5 DEF WriteCompleted
<1>6. CASE WriteFailed(w)
  BY <1>4, <1>6 DEF WriteFailed
<1>7. CASE Cleanup(w)
  <2>1. TypeOK'
    BY <1>7, NoJobAssumption DEF Cleanup, PC, row
  <2>2. FilesOwned'
    BY <1>7 DEF Cleanup, PC
  <2> QED
    BY <2>1, <2>2
<1>8. CASE CloseStream(w)
  <2>1. task[w] \in Job
    BY <1>8, <1>a DEF CloseStream
  <2>2. TypeOK'
    BY <1>8, <2>1, NoJobAssumption DEF CloseStream, PC, row
  <2>3. FilesOwned'
    BY <1>8 DEF CloseStream, PC
  <2> QED
    BY <2>2, <2>3
<1> QED
  BY <1>1, <1>2, <1>3, <1>5, <1>6, <1>7, <1>8 DEF TaskStep

LEMMA TypeInvDie ==
  ASSUME TypeInv, NEW W \in SUBSET Worker, Die(W),
         queued' \in [Job -> Nat], reserved' \in [Job -> Nat], copies' \in [Job -> Nat]
  PROVE  TypeInv'
<1> USE DEF TypeInv, TypeOK, FilesOwned
<1>1. {task[w] : w \in {v \in W : pc[v] \in BeforeFinal}} \subseteq Job
  BY BusyHasJob DEF BeforeFinal
<1>2. TypeOK'
  BY <1>1 DEF Die, PC, row
<1>3. FilesOwned'
  BY DEF Die
<1> QED
  BY <1>2, <1>3

LEMMA TypeInvStep == TypeInv /\ [Next]_vars => TypeInv'
<1> SUFFICES ASSUME TypeInv, [Next]_vars PROVE TypeInv'
  OBVIOUS
<1>1. CASE UNCHANGED vars
  BY <1>1 DEF TypeInv, TypeOK, FilesOwned, vars, row, broker, proc, disk
<1>2. ASSUME NEW w \in Worker, HardKill(w) PROVE TypeInv'
  BY <1>2, TypeInvDie DEF HardKill, broker, TypeInv, TypeOK
<1>3. CASE NodeRestart
  <2>1. queued' \in [Job -> Nat] /\ reserved' \in [Job -> Nat] /\ copies' \in [Job -> Nat]
    BY <1>3 DEF NodeRestart, TypeInv, TypeOK
  <2> QED
    BY <1>3, <2>1, TypeInvDie DEF NodeRestart
<1> QED
  BY <1>1, <1>2, <1>3, TypeInvApiBroker, TypeInvTask DEF Next

(* Every variable keeps its type; in particular no message count or file   *)
(* count goes below zero, and a worker process is idle exactly when it     *)
(* runs no job.                                                            *)
THEOREM TypeCorrect == Spec => []TypeOK
<1>1. Spec => []TypeInv
  BY TypeInvInit, TypeInvStep, PTL DEF Spec
<1>2. TypeInv => TypeOK
  BY DEF TypeInv
<1> QED
  BY <1>1, <1>2, PTL

(* The temporary config file of a task is removed on every way through the *)
(* task (worker/tasks.py, `finally'), a killed process or a failed write   *)
(* of the file excepted.                                                   *)
THEOREM ConfigFilesRemoved == Spec => []NoConfigFileLeft
<1>1. Spec => []TypeInv
  BY TypeInvInit, TypeInvStep, PTL DEF Spec
<1>2. TypeInv => NoConfigFileLeft
  BY DEF TypeInv, TypeOK, FilesOwned, NoConfigFileLeft
<1> QED
  BY <1>1, <1>2, PTL

-----------------------------------------------------------------------------
(* NoOrphan is inductive once types are known: a step of j's request, of   *)
(* its message or of its task hands j on to the next carrier, settles it,  *)
(* or is one of the ways to lose it.                                       *)

LEMMA NoOrphanApiBroker ==
  ASSUME TypeOK, NoOrphan, NEW k \in Job,
         \/ CreateJob(k) \/ Dispatch(k) \/ SubmitFails(k) \/ DeleteJob(k)
         \/ Prefetch(k) \/ VisibilityTimeout(k)
         \/ \E w \in Worker : Accept(w, k)
  PROVE  NoOrphan'
<1> SUFFICES ASSUME NEW j \in Job, status'[j] \in {"pending", "processing"}
             PROVE  Carried(j)' \/ j \in lost'
  BY DEF NoOrphan
<1> USE DEF TypeOK, NoOrphan, Carried, row, broker, proc, disk
<1>1. CASE CreateJob(k)
  BY <1>1 DEF CreateJob
<1>2. CASE Dispatch(k)
  BY <1>2 DEF Dispatch
<1>3. CASE SubmitFails(k)
  BY <1>3 DEF SubmitFails
<1>4. CASE DeleteJob(k)
  BY <1>4 DEF DeleteJob
<1>5. CASE Prefetch(k)
  BY <1>5 DEF Prefetch
<1>6. CASE VisibilityTimeout(k)
  BY <1>6 DEF VisibilityTimeout
<1>7. ASSUME NEW w \in Worker, Accept(w, k)
      PROVE  Carried(j)' \/ j \in lost'
  BY <1>7, NoJobAssumption DEF Accept, BeforeFinal, PC
<1> QED
  BY <1>1, <1>2, <1>3, <1>4, <1>5, <1>6, <1>7

LEMMA NoOrphanTask ==
  ASSUME TypeOK, NoOrphan, NEW w \in Worker, TaskStep(w)
  PROVE  NoOrphan'
<1> SUFFICES ASSUME NEW j \in Job, status'[j] \in {"pending", "processing"}
             PROVE  Carried(j)' \/ j \in lost'
  BY DEF NoOrphan
<1>a. pc[w] # "idle" => task[w] \in Job
  BY BusyHasJob
<1> USE DEF TypeOK, NoOrphan, Carried, broker, disk, PC, BeforeFinal
<1>1. CASE MarkProcessing(w)
  BY <1>1, <1>a DEF MarkProcessing, UpdateJobStatus, row
<1>2. CASE Compose(w)
  BY <1>2 DEF Compose, row
<1>3. CASE RunPipeline(w)
  BY <1>3 DEF RunPipeline, row
<1>4. ASSUME NEW s \in {"completed", "failed"}, FinalWrite(w, s), pc[w] \in {"complete", "fail"}
      PROVE  Carried(j)' \/ j \in lost'
  BY <1>4, <1>a DEF FinalWrite, UpdateJobStatus, row
<1>5. CASE WriteCompleted(w)
  BY <1>4, <1>5 DEF WriteCompleted
<1>6. CASE WriteFailed(w)
  BY <1>4, <1>6 DEF WriteFailed
<1>7. CASE Cleanup(w)
  BY <1>7 DEF Cleanup, row
<1>8. CASE CloseStream(w)
  BY <1>8 DEF CloseStream, row
<1> QED
  BY <1>1, <1>2, <1>3, <1>5, <1>6, <1>7, <1>8 DEF TaskStep

LEMMA NoOrphanDie ==
  ASSUME TypeOK, NoOrphan, NEW W \in SUBSET Worker, Die(W),
         \A j \in Job : queued[j] > 0 \/ reserved[j] > 0 => queued'[j] > 0 \/ reserved'[j] > 0
  PROVE  NoOrphan'
<1> SUFFICES ASSUME NEW j \in Job, status'[j] \in {"pending", "processing"}
             PROVE  Carried(j)' \/ j \in lost'
  BY DEF NoOrphan
<1>1. Carried(j) \/ j \in lost
  BY DEF Die, row, NoOrphan
<1>2. ASSUME NEW w \in Worker, task[w] = j, pc[w] \in BeforeFinal
      PROVE  Carried(j)' \/ j \in lost'
  <2>1. CASE w \in W
    BY <1>2, <2>1 DEF Die
  <2>2. CASE w \notin W
    BY <1>2, <2>2 DEF Die, Carried
  <2> QED
    BY <2>1, <2>2
<1> QED
  BY <1>1, <1>2 DEF Carried, Die

LEMMA NoOrphanStep == TypeOK /\ NoOrphan /\ [Next]_vars => NoOrphan'
<1> SUFFICES ASSUME TypeOK, NoOrphan, [Next]_vars PROVE NoOrphan'
  OBVIOUS
<1>1. CASE UNCHANGED vars
  BY <1>1 DEF NoOrphan, Carried, vars, row, broker, proc
<1>2. ASSUME NEW w \in Worker, HardKill(w) PROVE NoOrphan'
  BY <1>2, NoOrphanDie DEF HardKill, broker
<1>3. CASE NodeRestart
  BY <1>3, NoOrphanDie DEF NodeRestart, TypeOK
<1> QED
  BY <1>1, <1>2, <1>3, NoOrphanApiBroker, NoOrphanTask DEF Next

(* A job that is neither settled nor deleted always has a request, a       *)
(* message or a task that will still write its status, unless it was lost  *)
(* in one of the three named ways: no interleaving of deliveries, kills,   *)
(* restarts, deletions and failing writes drops a job silently.            *)
THEOREM JobsAreCarried == Spec => []NoOrphan
<1>1. Init => NoOrphan
  BY DEF Init, NoOrphan
<1> QED
  BY <1>1, NoOrphanStep, TypeCorrect, PTL DEF Spec

-----------------------------------------------------------------------------
(* A job whose message was never copied has one carrier at a time: its     *)
(* request, then one message, then one task. Each conjunct says what the   *)
(* row can hold while the job is with that carrier; together they are      *)
(* inductive, and the properties about jobs delivered once follow.         *)

Unsent(j) == submit[j] \in {"none", "created"}
NoTask(j) == \A w \in Worker : task[w] # j
Settled(j) == status[j] \in {"completed", "failed", "deleted"} \/ j \in lost

OneMessage(j) ==
  /\ queued[j] + reserved[j] <= 1
  /\ Unsent(j) => queued[j] + reserved[j] = 0
  /\ submit[j] = "none" => status[j] = "absent"
  /\ submit[j] = "created" => status[j] \in {"pending", "deleted"}
  /\ Unsent(j) \/ queued[j] + reserved[j] = 1 =>
       NoTask(j) /\ j \notin closed
  /\ queued[j] + reserved[j] = 1 => status[j] \in {"pending", "deleted"}

OneTask(j) ==
  \A w \in Worker : task[w] = j =>
    /\ \A v \in Worker : task[v] = j => v = w
    /\ j \notin closed
    /\ pc[w] = "accepted" => status[j] \in {"pending", "deleted"}
    /\ pc[w] \in BeforeFinal => status[j] \in {"pending", "processing", "deleted"}
    /\ pc[w] \in {"cleanup", "close"} => Settled(j)

Columns(j) ==
  /\ result[j] <=> status[j] = "completed"
  /\ error[j] <=> status[j] = "failed"

Closed(j) == j \in closed => Settled(j)

Once(j) == OneMessage(j) /\ OneTask(j) /\ Columns(j) /\ Closed(j)
OnceInv == \A j \in Job : copies[j] = 0 => Once(j)

LEMMA OnceApiBroker ==
  ASSUME TypeOK, NEW j \in Job, copies'[j] = 0, copies[j] = 0 => Once(j), NEW k \in Job,
         \/ CreateJob(k) \/ Dispatch(k) \/ SubmitFails(k) \/ DeleteJob(k)
         \/ Prefetch(k) \/ VisibilityTimeout(k)
         \/ \E w \in Worker : Accept(w, k)
  PROVE  Once(j)'
<1>1. copies[j] = 0 /\ Once(j)
  BY DEF CreateJob, Dispatch, SubmitFails, DeleteJob, Prefetch, VisibilityTimeout, Accept,
         TypeOK, broker
<1> USE <1>1 DEF Once, OneMessage, OneTask, Columns, Closed, Settled, Unsent, NoTask,
                 TypeOK, row, broker, proc, BeforeFinal
<1>2. CASE CreateJob(k)
  BY <1>2 DEF CreateJob
<1>3. CASE Dispatch(k)
  <2>1. OneMessage(j)'
    BY <1>3 DEF Dispatch
  <2>2. OneTask(j)'
    BY <1>3 DEF Dispatch
  <2>3. Columns(j)'
    BY <1>3 DEF Dispatch
  <2>4. Closed(j)'
    BY <1>3 DEF Dispatch
  <2> QED
    BY <2>1, <2>2, <2>3, <2>4
<1>4. CASE SubmitFails(k)
  BY <1>4 DEF SubmitFails
<1>5. CASE DeleteJob(k)
  <2>1. OneMessage(j)'
    BY <1>5 DEF DeleteJob, RowExists, Stored
  <2>2. OneTask(j)'
    BY <1>5 DEF DeleteJob
  <2>3. Columns(j)'
    BY <1>5 DEF DeleteJob
  <2>4. Closed(j)'
    BY <1>5 DEF DeleteJob
  <2> QED
    BY <2>1, <2>2, <2>3, <2>4
<1>6. CASE Prefetch(k)
  BY <1>6 DEF Prefetch
<1>7. CASE VisibilityTimeout(k)
  BY <1>7 DEF VisibilityTimeout
<1>8. ASSUME NEW w \in Worker, Accept(w, k) PROVE Once(j)'
  BY <1>8 DEF Accept
<1> QED
  BY <1>2, <1>3, <1>4, <1>5, <1>6, <1>7, <1>8

LEMMA ColumnsWritten ==
  ASSUME TypeOK, NEW j \in Job, NEW k \in Job, NEW s \in {"completed", "failed"},
         UpdateJobStatus(k, s), Columns(j),
         k = j => status[j] \in {"pending", "processing", "deleted"}
  PROVE  Columns(j)'
<1>1. CASE UNCHANGED row
  BY <1>1 DEF Columns, row
<1>2. CASE ~ UNCHANGED row /\ k # j
  <2>1. status'[j] = status[j] /\ result'[j] = result[j] /\ error'[j] = error[j]
    BY <1>2 DEF UpdateJobStatus, TypeOK
  <2> QED
    BY <2>1 DEF Columns
<1>3. CASE ~ UNCHANGED row /\ k = j
  <2>1. /\ status'[j] = s
        /\ result'[j] = (result[j] \/ s = "completed")
        /\ error'[j] = (error[j] \/ s = "failed")
    BY <1>3 DEF UpdateJobStatus, TypeOK
  <2>2. ~ result[j] /\ ~ error[j]
    BY <1>3 DEF Columns
  <2> QED
    BY <2>1, <2>2 DEF Columns
<1> QED
  BY <1>1, <1>2, <1>3

LEMMA OnceTask ==
  ASSUME TypeOK, NEW j \in Job, copies[j] = 0, Once(j), NEW w \in Worker, TaskStep(w)
  PROVE  Once(j)'
<1>a. pc[w] # "idle" => task[w] \in Job
  BY BusyHasJob
<1> USE DEF Once, OneMessage, OneTask, Columns, Closed, Settled, Unsent, NoTask,
            TypeOK, broker, BeforeFinal
<1>1. CASE MarkProcessing(w)
  BY <1>1, <1>a DEF MarkProcessing, UpdateJobStatus, RowExists, Stored, row
<1>2. CASE Compose(w)
  BY <1>2 DEF Compose, row
<1>3. CASE RunPipeline(w)
  BY <1>3 DEF RunPipeline, row
<1>5. CASE WriteCompleted(w)
  <2>1. OneMessage(j)'
    BY <1>5, <1>a DEF WriteCompleted, FinalWrite, UpdateJobStatus, RowExists, Stored, row
  <2>2. OneTask(j)'
    BY <1>5, <1>a DEF WriteCompleted, FinalWrite, UpdateJobStatus, RowExists, Stored, row
  <2>3. Columns(j)'
    BY <1>5, <1>a, ColumnsWritten DEF WriteCompleted, FinalWrite
  <2>4. Closed(j)'
    BY <1>5, <1>a DEF WriteCompleted, FinalWrite, UpdateJobStatus, RowExists, Stored, row
  <2> QED
    BY <2>1, <2>2, <2>3, <2>4
<1>6. CASE WriteFailed(w)
  <2>1. OneMessage(j)'
    BY <1>6, <1>a DEF WriteFailed, FinalWrite, UpdateJobStatus, RowExists, Stored, row
  <2>2. OneTask(j)'
    BY <1>6, <1>a DEF WriteFailed, FinalWrite, UpdateJobStatus, RowExists, Stored, row
  <2>3. Columns(j)'
    BY <1>6, <1>a, ColumnsWritten DEF WriteFailed, FinalWrite
  <2>4. Closed(j)'
    BY <1>6, <1>a DEF WriteFailed, FinalWrite, UpdateJobStatus, RowExists, Stored, row
  <2> QED
    BY <2>1, <2>2, <2>3, <2>4
<1>7. CASE Cleanup(w)
  <2>1. OneMessage(j)'
    BY <1>7, <1>a, NoJobAssumption DEF Cleanup, row
  <2>2. OneTask(j)'
    BY <1>7, <1>a, NoJobAssumption DEF Cleanup, row
  <2>3. Columns(j)'
    BY <1>7, <1>a, NoJobAssumption DEF Cleanup, row
  <2>4. Closed(j)'
    BY <1>7, <1>a, NoJobAssumption DEF Cleanup, row
  <2> QED
    BY <2>1, <2>2, <2>3, <2>4
<1>8. CASE CloseStream(w)
  <2>1. OneMessage(j)'
    BY <1>8, <1>a, NoJobAssumption DEF CloseStream, row
  <2>2. OneTask(j)'
    BY <1>8, <1>a, NoJobAssumption DEF CloseStream, row
  <2>3. Columns(j)'
    BY <1>8, <1>a, NoJobAssumption DEF CloseStream, row
  <2>4. Closed(j)'
    BY <1>8, <1>a, NoJobAssumption DEF CloseStream, row
  <2> QED
    BY <2>1, <2>2, <2>3, <2>4
<1> QED
  BY <1>1, <1>2, <1>3, <1>5, <1>6, <1>7, <1>8 DEF TaskStep

LEMMA OnceDie ==
  ASSUME TypeOK, NEW j \in Job, Once(j), NEW W \in SUBSET Worker, Die(W),
         queued'[j] + reserved'[j] = queued[j] + reserved[j],
         queued'[j] \in Nat, reserved'[j] \in Nat
  PROVE  Once(j)'
  BY NoJobAssumption DEF Die, Once, OneMessage, OneTask, Columns, Closed, Settled, Unsent,
         NoTask, TypeOK, row, BeforeFinal

LEMMA OnceStep == TypeOK /\ OnceInv /\ [Next]_vars => OnceInv'
<1> SUFFICES ASSUME TypeOK, OnceInv, [Next]_vars, NEW j \in Job, copies'[j] = 0
             PROVE  Once(j)'
  BY DEF OnceInv
<1>a. copies[j] = 0 => Once(j)
  BY DEF OnceInv
<1>1. CASE UNCHANGED vars
  BY <1>1, <1>a DEF Once, OneMessage, OneTask, Columns, Closed, Settled, Unsent, NoTask,
                    vars, row, broker, proc
<1>2. ASSUME NEW w \in Worker, HardKill(w) PROVE Once(j)'
  BY <1>2, <1>a, OnceDie DEF HardKill, broker, TypeOK
<1>3. CASE NodeRestart
  BY <1>3, <1>a, OnceDie DEF NodeRestart, TypeOK
<1>4. ASSUME NEW w \in Worker, TaskStep(w) PROVE Once(j)'
  <2>1. copies[j] = 0
    BY <1>4 DEF TaskStep, MarkProcessing, Compose, RunPipeline, WriteCompleted, WriteFailed,
                FinalWrite, Cleanup, CloseStream, broker
  <2> QED
    BY <1>4, <1>a, <2>1, OnceTask
<1> QED
  BY <1>1, <1>a, <1>2, <1>3, <1>4, OnceApiBroker DEF Next

LEMMA OnceCorrect == Spec => []OnceInv
<1>1. Init => OnceInv
  BY NoJobAssumption DEF Init, OnceInv, Once, OneMessage, OneTask, Columns, Closed, Settled,
                         Unsent, NoTask
<1> QED
  BY <1>1, OnceStep, TypeCorrect, PTL DEF Spec

(* The "complete" sentinel of a log stream is never published before the   *)
(* job's row has its final status, on any path of any task, for a job      *)
(* that was delivered once and not lost.                                   *)
THEOREM SentinelAfterStatus == Spec => []SettledWhenStreamCloses
<1>1. TypeOK /\ OnceInv => SettledWhenStreamCloses
  <2> SUFFICES ASSUME TypeOK, OnceInv, NEW j \in closed
               PROVE  status[j] \in Terminal \cup {"deleted"} \/ j \in lost \/ copies[j] > 0
    BY DEF SettledWhenStreamCloses
  <2>1. j \in Job /\ copies[j] \in Nat
    BY DEF TypeOK
  <2> QED
    BY <2>1 DEF OnceInv, Once, Closed, Settled, Terminal
<1> QED
  BY <1>1, TypeCorrect, OnceCorrect, PTL

(* At-most-once execution: two worker processes meet on a job only after a *)
(* redelivery by the broker.                                               *)
THEOREM AtMostOneTask == Spec => []OneTaskPerJob
<1>1. TypeOK /\ OnceInv => OneTaskPerJob
  BY DEF TypeOK, OnceInv, Once, OneTask, OneTaskPerJob
<1> QED
  BY <1>1, TypeCorrect, OnceCorrect, PTL

(* How one step can change one job's status column, delivered once: the    *)
(* moves of JobPromise and no other.                                       *)
LEMMA StatusMoves ==
  ASSUME TypeOK, OnceInv, [Next]_vars, NEW j \in Job, copies[j] = 0, status'[j] # status[j]
  PROVE  \/ status[j] = "absent" /\ status'[j] = "pending"
         \/ status[j] = "pending" /\ status'[j] = "processing"
         \/ status[j] \in {"pending", "processing"} /\ status'[j] \in Terminal
         \/ status[j] \in Stored /\ status'[j] = "deleted"
<1>1. Once(j)
  BY DEF OnceInv
<1> USE <1>1 DEF Once, OneMessage, OneTask, TypeOK, BeforeFinal, Terminal
<1>2. CASE \E k \in Job : CreateJob(k) \/ DeleteJob(k)
  BY <1>2 DEF CreateJob, DeleteJob, RowExists, Stored
<1>3. ASSUME NEW w \in Worker, MarkProcessing(w) \/ WriteCompleted(w) \/ WriteFailed(w)
      PROVE  \/ status[j] = "pending" /\ status'[j] = "processing"
             \/ status[j] \in {"pending", "processing"} /\ status'[j] \in Terminal
  <2>1. task[w] \in Job
    BY <1>3, BusyHasJob DEF MarkProcessing, WriteCompleted, WriteFailed
  <2>2. PICK s \in {"processing", "completed", "failed"} :
          /\ UpdateJobStatus(task[w], s)
          /\ s = "processing" <=> pc[w] = "accepted"
          /\ pc[w] \in {"accepted", "complete", "fail"}
    BY <1>3 DEF MarkProcessing, WriteCompleted, WriteFailed, FinalWrite
  <2>3. task[w] = j /\ RowExists(j) /\ status'[j] = s
    BY <2>1, <2>2 DEF UpdateJobStatus, row
  <2> QED
    BY <2>2, <2>3 DEF RowExists, Stored
<1>4. CASE UNCHANGED row
  BY <1>4 DEF row
<1> QED
  BY <1>2, <1>3, <1>4 DEF Next, vars, Dispatch, SubmitFails, Prefetch, VisibilityTimeout,
       Accept, TaskStep, Compose, RunPipeline, Cleanup, CloseStream, HardKill, NodeRestart, Die

(* A final status, once seen, is never replaced, the deletion of the row   *)
(* and a redelivered message excepted.                                     *)
THEOREM FinalStatusStays == Spec => FinalUnlessRedelivered
<1>1. TypeOK /\ OnceInv /\ [Next]_vars =>
        [\A j \in Job : status[j] \in Terminal /\ status'[j] # status[j] =>
           status'[j] = "deleted" \/ copies[j] > 0]_vars
  BY StatusMoves DEF TypeOK, Terminal
<1> QED
  BY <1>1, TypeCorrect, OnceCorrect, PTL DEF Spec, FinalUnlessRedelivered

(* A job has no row before its request made one.                           *)
Fresh == \A j \in Job : submit[j] = "none" => status[j] = "absent"

(* Also a redelivered job never comes back once deleted, nor starts over   *)
(* as "pending": a second run may only take it from one stored status to   *)
(* "processing" or a final one (update_job_status finds no deleted row).   *)
LEMMA RedeliveredMoves ==
  ASSUME TypeOK, Fresh, [Next]_vars, NEW j \in Job, status'[j] # status[j]
  PROVE  \/ status[j] = "absent" /\ status'[j] = "pending"
         \/ status[j] \in Stored /\ status'[j] \in {"processing", "deleted"} \cup Terminal
<1>1. CASE \E k \in Job : CreateJob(k) \/ DeleteJob(k)
  BY <1>1 DEF CreateJob, DeleteJob, RowExists, Fresh, TypeOK
<1>2. ASSUME NEW w \in Worker, MarkProcessing(w) \/ WriteCompleted(w) \/ WriteFailed(w)
      PROVE  status[j] \in Stored /\ status'[j] \in {"processing"} \cup Terminal
  <2>1. task[w] \in Job
    BY <1>2, BusyHasJob DEF MarkProcessing, WriteCompleted, WriteFailed
  <2>2. PICK s \in {"processing", "completed", "failed"} : UpdateJobStatus(task[w], s)
    BY <1>2 DEF MarkProcessing, WriteCompleted, WriteFailed, FinalWrite
  <2>3. task[w] = j /\ RowExists(j) /\ status'[j] = s
    BY <2>1, <2>2 DEF UpdateJobStatus, row, TypeOK
  <2> QED
    BY <2>3 DEF RowExists, Stored, Terminal
<1>3. CASE UNCHANGED row
  BY <1>3 DEF row
<1> QED
  BY <1>1, <1>2, <1>3 DEF Next, vars, Dispatch, SubmitFails, Prefetch, VisibilityTimeout,
       Accept, TaskStep, Compose, RunPipeline, Cleanup, CloseStream, HardKill, NodeRestart, Die

LEMMA FreshAlways == Spec => []Fresh
<1>1. Init => Fresh
  BY DEF Init, Fresh
<1>2. TypeOK /\ Fresh /\ [Next]_vars => Fresh'
  <2> SUFFICES ASSUME TypeOK, Fresh, [Next]_vars, NEW j \in Job, submit'[j] = "none"
               PROVE  status'[j] = "absent"
    BY DEF Fresh
  <2>1. submit[j] = "none" /\ ~ CreateJob(j)
    BY DEF Next, vars, CreateJob, Dispatch, SubmitFails, DeleteJob, Prefetch, VisibilityTimeout,
         Accept, TaskStep, MarkProcessing, Compose, RunPipeline, WriteCompleted, WriteFailed,
         FinalWrite, Cleanup, CloseStream, HardKill, NodeRestart, Die, TypeOK
  <2>2. status[j] = "absent"
    BY <2>1 DEF Fresh
  <2>3. CASE status'[j] # status[j]
    <3>1. CASE \E k \in Job : CreateJob(k) \/ DeleteJob(k)
      BY <2>1, <2>2, <2>3, <3>1 DEF CreateJob, DeleteJob, RowExists, Stored, TypeOK
    <3>2. ASSUME NEW w \in Worker, MarkProcessing(w) \/ WriteCompleted(w) \/ WriteFailed(w)
          PROVE  FALSE
      <4>1. PICK s \in {"processing", "completed", "failed"} : UpdateJobStatus(task[w], s)
        BY <3>2 DEF MarkProcessing, WriteCompleted, WriteFailed, FinalWrite
      <4> QED
        BY <2>2, <2>3, <4>1 DEF UpdateJobStatus, RowExists, Stored, row, TypeOK
    <3>3. ~ UNCHANGED row
      BY <2>3 DEF row
    <3> QED
      BY <3>1, <3>2, <3>3 DEF Next, vars, Dispatch, SubmitFails, Prefetch, VisibilityTimeout,
           Accept, TaskStep, Compose, RunPipeline, Cleanup, CloseStream, HardKill, NodeRestart, Die
  <2> QED
    BY <2>2, <2>3
<1> QED
  BY <1>1, <1>2, TypeCorrect, PTL DEF Spec

(* What every run of a job leaves in its row.                              *)
Written(j) ==
  /\ status[j] = "completed" => result[j]
  /\ status[j] = "failed" => error[j]
  /\ status[j] \in {"absent", "pending", "deleted"} => ~ result[j] /\ ~ error[j]

LEMMA WrittenStep ==
  TypeOK /\ Fresh /\ (\A j \in Job : Written(j)) /\ [Next]_vars => (\A j \in Job : Written(j))'
<1> SUFFICES ASSUME TypeOK, Fresh, [Next]_vars, NEW j \in Job, Written(j) PROVE Written(j)'
  OBVIOUS
<1>1. CASE UNCHANGED row
  BY <1>1 DEF Written, row
<1>2. ASSUME NEW k \in Job, CreateJob(k) \/ DeleteJob(k) PROVE Written(j)'
  <2>1. CASE CreateJob(k)
    <3>1. UNCHANGED <<result, error>> /\ (k = j => status[j] = "absent" /\ status'[j] = "pending")
      BY <2>1 DEF CreateJob, Fresh, TypeOK
    <3>2. k # j => status'[j] = status[j]
      BY <2>1 DEF CreateJob, TypeOK
    <3> QED
      BY <3>1, <3>2 DEF Written
  <2>2. CASE DeleteJob(k)
    <3>1. k = j => status'[j] = "deleted" /\ ~ result'[j] /\ ~ error'[j]
      BY <2>2 DEF DeleteJob, TypeOK
    <3>2. k # j => status'[j] = status[j] /\ result'[j] = result[j] /\ error'[j] = error[j]
      BY <2>2 DEF DeleteJob, TypeOK
    <3> QED
      BY <3>1, <3>2 DEF Written
  <2> QED
    BY <1>2, <2>1, <2>2
<1>3. ASSUME NEW k, NEW s \in {"processing", "completed", "failed"}, UpdateJobStatus(k, s)
      PROVE  Written(j)'
  <2>1. CASE k # j \/ UNCHANGED row
    BY <1>3, <2>1 DEF UpdateJobStatus, Written, TypeOK, row
  <2>2. CASE k = j /\ ~ UNCHANGED row
    <3>1. /\ status'[j] = s
          /\ result'[j] = (result[j] \/ s = "completed")
          /\ error'[j] = (error[j] \/ s = "failed")
      BY <1>3, <2>2 DEF UpdateJobStatus, TypeOK
    <3> QED
      BY <3>1 DEF Written
  <2> QED
    BY <2>1, <2>2
<1>4. ASSUME NEW w \in Worker, TaskStep(w) PROVE Written(j)'
  BY <1>1, <1>3, <1>4 DEF TaskStep, MarkProcessing, Compose, RunPipeline, WriteCompleted, WriteFailed,
     FinalWrite, Cleanup, CloseStream
<1> QED
  BY <1>1, <1>2, <1>4 DEF Next, vars, Dispatch, SubmitFails, Prefetch, VisibilityTimeout, Accept,
     HardKill, NodeRestart, Die

(* A completed job has a result and a failed one an error, however often   *)
(* the job was delivered; and result and error agree exactly with the      *)
(* status of a job delivered once, though the worker never clears either   *)
(* column.                                                                 *)
THEOREM ColumnsAgree == Spec => []ColumnsMatchStatus
<1>1. (\A j \in Job : Written(j)) /\ OnceInv => ColumnsMatchStatus
  BY DEF OnceInv, Once, Columns, Written, ColumnsMatchStatus
<1>2. Init => \A j \in Job : Written(j)
  BY DEF Init, Written
<1> QED
  BY <1>1, <1>2, WrittenStep, FreshAlways, TypeCorrect, OnceCorrect, PTL DEF Spec

(* What a client that polls a job is promised when other messages, or its  *)
(* own, are delivered twice.                                               *)
PollsForward ==
  [][\A j \in Job : status'[j] # status[j] =>
       \/ status[j] = "absent" /\ status'[j] = "pending"
       \/ status[j] \in Stored /\ status'[j] = "deleted"
       \/ copies[j] = 0 /\ status[j] = "pending" /\ status'[j] = "processing"
       \/ copies[j] = 0 /\ status[j] \in {"pending", "processing"} /\ status'[j] \in Terminal
       \/ copies[j] > 0 /\ status[j] \in Stored /\ status'[j] \in {"processing"} \cup Terminal]_vars

(* For any number of redeliveries, a job whose own message was delivered   *)
(* once moves as JobPromise says, whatever happens to the others; and one  *)
(* that was redelivered is still never undeleted nor pending again.        *)
THEOREM RedeliverySparesOthers == Spec => PollsForward
<1>1. TypeOK /\ Fresh /\ OnceInv /\ [Next]_vars =>
        [\A j \in Job : status'[j] # status[j] =>
           \/ status[j] = "absent" /\ status'[j] = "pending"
           \/ status[j] \in Stored /\ status'[j] = "deleted"
           \/ copies[j] = 0 /\ status[j] = "pending" /\ status'[j] = "processing"
           \/ copies[j] = 0 /\ status[j] \in {"pending", "processing"} /\ status'[j] \in Terminal
           \/ copies[j] > 0 /\ status[j] \in Stored /\ status'[j] \in {"processing"} \cup Terminal]_vars
  <2> SUFFICES ASSUME TypeOK, Fresh, OnceInv, [Next]_vars, NEW j \in Job, status'[j] # status[j]
               PROVE  \/ status[j] = "absent" /\ status'[j] = "pending"
                      \/ status[j] \in Stored /\ status'[j] = "deleted"
                      \/ copies[j] = 0 /\ status[j] = "pending" /\ status'[j] = "processing"
                      \/ copies[j] = 0 /\ status[j] \in {"pending", "processing"} /\ status'[j] \in Terminal
                      \/ copies[j] > 0 /\ status[j] \in Stored /\ status'[j] \in {"processing"} \cup Terminal
    OBVIOUS
  <2>1. copies[j] = 0 \/ copies[j] > 0
    BY DEF TypeOK
  <2> QED
    BY <2>1, StatusMoves, RedeliveredMoves
<1> QED
  BY <1>1, TypeCorrect, FreshAlways, OnceCorrect, PTL DEF Spec, PollsForward

LEMMA NoCopies ==
  ASSUME MaxRedeliver = 0
  PROVE  Spec => [](\A j \in Job : copies[j] = 0)
<1> DEFINE None == \A j \in Job : copies[j] = 0
<1>1. Init => None
  BY DEF Init
<1>2. TypeOK /\ None /\ [Next]_vars => None'
  <2> SUFFICES ASSUME TypeOK, None, [Next]_vars PROVE None'
    OBVIOUS
  <2>1. ASSUME NEW k \in Job PROVE ~ VisibilityTimeout(k)
    BY MaxRedeliver = 0 DEF VisibilityTimeout
  <2>2. copies' = copies
    BY <2>1 DEF Next, vars, broker, CreateJob, Dispatch, SubmitFails, DeleteJob, Prefetch,
         Accept, TaskStep, MarkProcessing, Compose, RunPipeline, WriteCompleted, WriteFailed,
         FinalWrite, Cleanup, CloseStream, HardKill, NodeRestart
  <2> QED
    BY <2>2
<1> QED
  BY <1>1, <1>2, TypeCorrect, PTL DEF Spec

(* Every step of the detailed system moves the status columns as           *)
(* JobPromise allows: at most one job at a time, forward only.             *)
LEMMA OneJobMoves ==
  ASSUME TypeOK, [Next]_vars, status' # status
  PROVE  \E j \in Job : \E s \in Status : status' = [status EXCEPT ![j] = s]
<1>1. CASE \E k \in Job : CreateJob(k) \/ DeleteJob(k)
  BY <1>1 DEF CreateJob, DeleteJob, Status, Stored
<1>2. ASSUME NEW w \in Worker, MarkProcessing(w) \/ WriteCompleted(w) \/ WriteFailed(w)
      PROVE  \E j \in Job : \E s \in Status : status' = [status EXCEPT ![j] = s]
  <2>1. task[w] \in Job
    BY <1>2, BusyHasJob DEF MarkProcessing, WriteCompleted, WriteFailed
  <2>2. PICK s \in {"processing", "completed", "failed"} : UpdateJobStatus(task[w], s)
    BY <1>2 DEF MarkProcessing, WriteCompleted, WriteFailed, FinalWrite
  <2> QED
    BY <2>1, <2>2 DEF UpdateJobStatus, row, Status, Stored
<1>3. CASE UNCHANGED row
  BY <1>3 DEF row
<1> QED
  BY <1>1, <1>2, <1>3 DEF Next, vars, Dispatch, SubmitFails, Prefetch, VisibilityTimeout,
       Accept, TaskStep, Compose, RunPipeline, Cleanup, CloseStream, HardKill, NodeRestart, Die

(* With every message delivered once, the API, broker and workers together *)
(* implement JobPromise, under every kill, restart, failed write and       *)
(* deletion.                                                               *)
THEOREM ImplementsPromise ==
  ASSUME MaxRedeliver = 0
  PROVE  Spec => KeepsPromise
<1>1. Init => Promise!Init
  BY DEF Init, Promise!Init
<1>2. TypeOK /\ OnceInv /\ (\A j \in Job : copies[j] = 0) /\ [Next]_vars
        => [Promise!Next]_status
  <2> SUFFICES ASSUME TypeOK, OnceInv, \A j \in Job : copies[j] = 0, [Next]_vars,
                      status' # status
               PROVE  Promise!Next
    OBVIOUS
  <2>1. PICK j \in Job, s \in Status : status' = [status EXCEPT ![j] = s]
    BY OneJobMoves
  <2>2. status'[j] # status[j] /\ status'[j] = s
    BY <2>1 DEF TypeOK
  <2>3. \/ status[j] = "absent" /\ s = "pending"
        \/ status[j] = "pending" /\ s = "processing"
        \/ status[j] \in {"pending", "processing"} /\ s \in Terminal
        \/ status[j] \in Stored /\ s = "deleted"
    BY <2>2, StatusMoves
  <2> QED
    BY <2>1, <2>3 DEF Promise!Next, Promise!Submit, Promise!Start, Promise!Finish,
         Promise!Delete, Promise!Move, Terminal, Stored
<1> QED
  BY <1>1, <1>2, TypeCorrect, OnceCorrect, NoCopies, PTL
     DEF Spec, KeepsPromise, Promise!Spec
=============================================================================
