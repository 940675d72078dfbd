----------------------------- MODULE JobPromise -----------------------------
(***************************************************************************)
(* What a client of the API is promised about the status of a job it       *)
(* polls (shared/models.py: JobStatus; api/api/routers/jobs.py): the row   *)
(* appears as "pending", may be seen "processing", takes one final status  *)
(* and keeps it, and may be deleted at any time for good. How messages,    *)
(* workers and failures bring this about is left to Jobs.                  *)
(***************************************************************************)
CONSTANT Job
VARIABLE status

Init == status = [j \in Job |-> "absent"]

Move(j, From, To) ==
  /\ status[j] \in From
  /\ \E s \in To : status' = [status EXCEPT ![j] = s]

Submit(j) == Move(j, {"absent"}, {"pending"})
Start(j) == Move(j, {"pending"}, {"processing"})

(* "processing" can be skipped: the worker swallows a failed status write. *)
Finish(j) == Move(j, {"pending", "processing"}, {"completed", "failed"})

Delete(j) == Move(j, {"pending", "processing", "completed", "failed"}, {"deleted"})

Next == \E j \in Job : Submit(j) \/ Start(j) \/ Finish(j) \/ Delete(j)

Spec == Init /\ [][Next]_status
=============================================================================
