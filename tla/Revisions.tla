----------------------------- MODULE Revisions ------------------------------
(***************************************************************************)
(* Documentation revisions: members propose new content for an endpoint,   *)
(* maintainers approve or reject it, and an approval sends a task that     *)
(* patches the endpoint's document in Weaviate. A request runs one SQL     *)
(* statement at a time; the patch tasks run on any worker, in any order.   *)
(*                                                                         *)
(* Code: api/services/revision_service.py, api/repositories/revision.py,   *)
(* api/api/routers/revisions.py, worker/tasks.py                           *)
(* (update_weaviate_documentation_chunk). Weaviate is external.            *)
(*                                                                         *)
(* A definition announced as a mutant is a plausible mistake in the code,  *)
(* kept to show that a property would see it; no specification uses it.    *)
(***************************************************************************)
EXTENDS Naturals

CONSTANTS
  Revision,      \* ids of proposed revisions
  Team,
  Endpoint,      \* node ids of documents
  Request,       \* approvals and rejections running at a time
  Worker,        \* worker processes
  MaxRedeliver,  \* bound: copies the broker makes of one patch message
  None, Generated

ASSUME NoneAssumption ==
  {None, Generated} \cap Revision = {} /\ None # Generated /\ None \notin Revision \X Team
ASSUME RedeliverAssumption == MaxRedeliver \in Nat

VARIABLES
  owner,     \* team_id of revision r
  target,    \* endpoint_id of revision r
  status,    \* status of revision r
  req,       \* running approvals and rejections: next step and revision
  sent,      \* patch messages of r in the broker
  copies,    \* messages of r the broker added by redelivery
  work,      \* what worker w patches: a revision and the team of the document
  doc,       \* content of team t's document e: None, Generated or a revision
  applied,   \* history: revisions written to some document
  failed,    \* history: revisions whose dispatch or one of whose tasks failed
  overlap,   \* history: revisions two requests answered at the same time
  crossed,   \* history: revisions in flight when another of the endpoint was approved
  later      \* history: revisions of r's endpoint approved since r was

proposal == <<owner, target>>
broker == <<sent, copies>>
history == <<applied, failed, overlap, crossed, later>>
vars == <<proposal, status, req, broker, work, doc, history>>

Resolved == {"APPROVED", "REJECTED"}
Idle == [step |-> "idle", rev |-> None]

Init ==
  /\ owner \in [Revision -> Team]
  /\ target \in [Revision -> Endpoint]
  /\ status = [r \in Revision |-> "absent"]
  /\ req = [q \in Request |-> Idle]
  /\ sent = [r \in Revision |-> 0]
  /\ copies = [r \in Revision |-> 0]
  /\ work = [w \in Worker |-> None]
  /\ doc = [t \in Team |-> [e \in Endpoint |-> None]]
  /\ applied = {}
  /\ failed = {}
  /\ overlap = {}
  /\ crossed = {}
  /\ later = [r \in Revision |-> {}]

At(q, s) == req[q].step = s

(* A patch of r is on its way: to be sent, sent, or being carried out.     *)
InFlight(r) ==
  \/ \E q \in Request : At(q, "approve.send") /\ req[q].rev = r
  \/ sent[r] > 0
  \/ \E w \in Worker : work[w] # None /\ work[w][1] = r

-----------------------------------------------------------------------------
(* The API. The role checks are left out: they only make requests fail.    *)

Propose(r) ==
  /\ status[r] = "absent"
  /\ status' = [status EXCEPT ![r] = "PENDING"]
  /\ UNCHANGED <<proposal, req, broker, work, doc, history>>

(* The request reads the revision, and goes on if it is PENDING.           *)
Begin(q, r, s) ==
  /\ At(q, "idle")
  /\ req' = [req EXCEPT ![q] = [step |-> s, rev |-> r]]
  /\ overlap' = IF \E p \in Request : ~ At(p, "idle") /\ req[p].rev = r
                THEN overlap \cup {r} ELSE overlap
  /\ UNCHANGED <<proposal, status, broker, work, doc, applied, failed, crossed, later>>

(* Mutant of Approve: any revision that exists can be approved.            *)
ApproveUnchecked(q, r) == status[r] # "absent" /\ Begin(q, r, "approve.write")

Approve(q, r) == status[r] = "PENDING" /\ Begin(q, r, "approve.write")
Reject(q, r) == status[r] = "PENDING" /\ Begin(q, r, "reject.write")

End(q) == req' = [req EXCEPT ![q] = Idle]

(* Mutant of ApproveWrite: the patch is not sent.                          *)
ApproveOnlyMarks(q) ==
  /\ At(q, "approve.write")
  /\ status' = [status EXCEPT ![req[q].rev] = "APPROVED"]
  /\ End(q)
  /\ UNCHANGED <<proposal, broker, work, doc, history>>

(* update commits by primary key, whatever the status is by now.           *)
ApproveWrite(q) ==
  /\ At(q, "approve.write")
  /\ LET r == req[q].rev
         others == {x \in Revision \ {r} : target[x] = target[r]}
     IN /\ status' = [status EXCEPT ![r] = "APPROVED"]
        /\ crossed' = crossed \cup {x \in others : InFlight(x)}
        /\ later' = [x \in Revision |->
             CASE x = r -> {}
               [] x \in others /\ status[x] = "APPROVED" -> later[x] \cup {r}
               [] OTHER -> later[x]]
  /\ req' = [req EXCEPT ![q].step = "approve.send"]
  /\ UNCHANGED <<proposal, broker, work, doc, applied, failed, overlap>>

(* send_task, after which the request answers.                             *)
ApproveSend(q) ==
  /\ At(q, "approve.send")
  /\ sent' = [sent EXCEPT ![req[q].rev] = @ + 1]
  /\ End(q)
  /\ UNCHANGED <<proposal, status, copies, work, doc, history>>

(* Mutant of RejectWrite: the dispatch was copied along with the rest.     *)
RejectSends(q) ==
  /\ At(q, "reject.write")
  /\ status' = [status EXCEPT ![req[q].rev] = "REJECTED"]
  /\ sent' = [sent EXCEPT ![req[q].rev] = @ + 1]
  /\ End(q)
  /\ UNCHANGED <<proposal, copies, work, doc, history>>

RejectWrite(q) ==
  /\ At(q, "reject.write")
  /\ status' = [status EXCEPT ![req[q].rev] = "REJECTED"]
  /\ End(q)
  /\ UNCHANGED <<proposal, broker, work, doc, history>>

(* The API stops, or a commit or send_task raises: what was committed      *)
(* stays, and an approved revision cannot be approved again.               *)
Die(q) ==
  /\ ~ At(q, "idle")
  /\ failed' = IF At(q, "approve.send") THEN failed \cup {req[q].rev} ELSE failed
  /\ End(q)
  /\ UNCHANGED <<proposal, status, broker, work, doc, applied, overlap, crossed, later>>

-----------------------------------------------------------------------------
(* The broker, the worker and Weaviate.                                    *)

(* As in Jobs: a message prefetched for too long is handed out again.      *)
Redeliver(r) ==
  /\ sent[r] > 0
  /\ copies[r] < MaxRedeliver
  /\ sent' = [sent EXCEPT ![r] = @ + 1]
  /\ copies' = [copies EXCEPT ![r] = @ + 1]
  /\ UNCHANGED <<proposal, status, req, work, doc, history>>

Take(r) == sent[r] > 0 /\ sent' = [sent EXCEPT ![r] = @ - 1]

(* fetch_by_node_id, and the first document it returns: the node id is all *)
(* it is asked for.                                                        *)
FetchChunk(w, r) ==
  /\ work[w] = None
  /\ Take(r)
  /\ \E t \in Team :
       /\ doc[t][target[r]] # None
       /\ work' = [work EXCEPT ![w] = <<r, t>>]
  /\ UNCHANGED <<proposal, status, req, copies, doc, history>>

(* No document has the node id, Weaviate raises, or the process is killed: *)
(* the message was acknowledged, and nothing is retried.                   *)
FetchFails(w, r) ==
  /\ work[w] = None
  /\ Take(r)
  /\ failed' = failed \cup {r}
  /\ UNCHANGED <<proposal, status, req, copies, work, doc, applied, overlap, crossed, later>>

(* write_documents overwrites the document, whatever it holds by now.      *)
WriteChunk(w) ==
  /\ work[w] # None
  /\ LET r == work[w][1]
         t == work[w][2]
     IN /\ doc' = [doc EXCEPT ![t][target[r]] = r]
        /\ applied' = applied \cup {r}
  /\ work' = [work EXCEPT ![w] = None]
  /\ UNCHANGED <<proposal, status, req, broker, failed, overlap, crossed, later>>

(* Mutant of WriteFails: the task is retried for ever.                     *)
WriteRetries(w) ==
  /\ work[w] # None
  /\ sent' = [sent EXCEPT ![work[w][1]] = @ + 1]
  /\ work' = [work EXCEPT ![w] = None]
  /\ UNCHANGED <<proposal, status, req, copies, doc, history>>

(* Weaviate raises, or the process is killed.                              *)
WriteFails(w) ==
  /\ work[w] # None
  /\ failed' = failed \cup {work[w][1]}
  /\ work' = [work EXCEPT ![w] = None]
  /\ UNCHANGED <<proposal, status, req, broker, doc, applied, overlap, crossed, later>>

(* A documentation job writes the document of an endpoint.                 *)
Generate(t, e) ==
  /\ doc' = [doc EXCEPT ![t][e] = Generated]
  /\ UNCHANGED <<proposal, status, req, broker, work, history>>

-----------------------------------------------------------------------------
Answer(q) == ApproveWrite(q) \/ ApproveSend(q) \/ RejectWrite(q) \/ Die(q)

PatchStarts(r) == \E w \in Worker : FetchChunk(w, r) \/ FetchFails(w, r)
PatchEnds(w) == WriteChunk(w) \/ WriteFails(w)

Next ==
  \/ \E r \in Revision : Propose(r) \/ Redeliver(r) \/ PatchStarts(r)
  \/ \E q \in Request, r \in Revision : Approve(q, r) \/ Reject(q, r)
  \/ \E q \in Request : Answer(q)
  \/ \E w \in Worker : PatchEnds(w)
  \/ \E t \in Team, e \in Endpoint : Generate(t, e)

(* A request goes on or dies; a message that can be taken is taken; a task *)
(* ends, at its time limit if not before.                                  *)
Fairness ==
  /\ \A q \in Request : WF_vars(Answer(q))
  /\ \A r \in Revision : SF_vars(PatchStarts(r))
  /\ \A w \in Worker : WF_vars(PatchEnds(w))

Spec == Init /\ [][Next]_vars /\ Fairness

-----------------------------------------------------------------------------
RequestState ==
  [step : {"approve.write", "approve.send", "reject.write"}, rev : Revision] \cup {Idle}

TypeOK ==
  /\ owner \in [Revision -> Team]
  /\ target \in [Revision -> Endpoint]
  /\ status \in [Revision -> {"absent", "PENDING"} \cup Resolved]
  /\ req \in [Request -> RequestState]
  /\ sent \in [Revision -> Nat]
  /\ copies \in [Revision -> Nat]
  /\ work \in [Worker -> (Revision \X Team) \cup {None}]
  /\ doc \in [Team -> [Endpoint -> Revision \cup {None, Generated}]]
  /\ applied \subseteq Revision
  /\ failed \subseteq Revision
  /\ overlap \subseteq Revision
  /\ crossed \subseteq Revision
  /\ later \in [Revision -> SUBSET Revision]

(* An approved revision is on its way to the documentation, has been       *)
(* written to it, or failed by name: its request died between commit and   *)
(* dispatch, or its task did not write. No order of two answers to one     *)
(* revision makes an approval vanish otherwise.                            *)
ApprovedIsApplied ==
  \A r \in Revision : status[r] = "APPROVED" => InFlight(r) \/ r \in applied \cup failed

(* A rejected revision is neither in the documentation nor on its way to   *)
(* it, unless two requests answered it at the same time.                   *)
RejectedIsNotApplied ==
  \A r \in Revision : status[r] # "APPROVED" /\ r \notin overlap =>
    ~ InFlight(r) /\ \A t \in Team, e \in Endpoint : doc[t][e] # r

(* An answer is final, unless two requests gave one at the same time.      *)
AnsweredOnce ==
  [][\A r \in Revision : status[r] \in Resolved /\ status'[r] # status[r] => r \in overlap]_vars

(* A document never goes back from an approved content to one approved     *)
(* earlier, unless the patch of the earlier one was still in flight when   *)
(* the later one was approved: the tasks may run in any order, and twice.  *)
NoReturnToOlder ==
  [][\A t \in Team, e \in Endpoint :
       doc[t][e] \in Revision /\ doc'[t][e] \in Revision /\ doc[t][e] \in later[doc'[t][e]] =>
         doc'[t][e] \in crossed]_vars

(* What a revision said comes back over a newer content only by a second   *)
(* message: with neither two answers at once nor a redelivery, a patch     *)
(* that was written, or whose task failed, is not written again.           *)
NotWrittenAgain ==
  [][\A r \in Revision \ overlap : copies[r] = 0 /\ r \in applied \cup failed =>
       \A t \in Team, e \in Endpoint : doc'[t][e] = r => doc[t][e] = r]_vars

(* Every approval comes to an end: its content is written, it failed, or a *)
(* rejection that ran beside it overwrote it.                              *)
ApprovalEnds ==
  \A r \in Revision : status[r] = "APPROVED" ~> r \in applied \cup failed \/ status[r] # "APPROVED"

(* worker/tasks.py:113: "Isolated per team_id."                            *)
IsolatedPerTeam ==
  \A t \in Team, e \in Endpoint : doc[t][e] \in Revision => owner[doc[t][e]] = t
=============================================================================
