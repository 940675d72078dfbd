-------------------------- MODULE RevisionsProofs ---------------------------
(***************************************************************************)
(* Proofs about Revisions, for any revisions, teams, endpoints, requests   *)
(* and workers, and any number of redeliveries.                            *)
(***************************************************************************)
EXTENDS Revisions, TLAPS

LEMMA IdleTyped == Idle \in RequestState
  BY DEF RequestState

LEMMA TypeInit == Init => TypeOK
  BY IdleTyped DEF Init, TypeOK

(* What a request that is not idle holds.                                  *)
LEMMA ReqTyped ==
  ASSUME TypeOK, NEW q \in Request, ~ At(q, "idle")
  PROVE  /\ req[q].rev \in Revision
         /\ req[q].step \in {"approve.write", "approve.send", "reject.write"}
<1>1. req[q] \in RequestState
  BY DEF TypeOK
<1> QED
  BY <1>1 DEF RequestState, Idle, At

LEMMA TypeRequests ==
  ASSUME TypeOK, NEW q \in Request,
         \/ \E r \in Revision : Approve(q, r) \/ Reject(q, r)
         \/ Answer(q)
  PROVE  TypeOK'
<1> USE IdleTyped, ReqTyped DEF TypeOK
<1>1. ASSUME NEW r \in Revision, Approve(q, r) \/ Reject(q, r)
      PROVE  TypeOK'
  <2>1. /\ [step |-> "approve.write", rev |-> r] \in RequestState
        /\ [step |-> "reject.write", rev |-> r] \in RequestState
    BY DEF RequestState
  <2>2. req' \in [Request -> RequestState]
    BY <1>1, <2>1 DEF Approve, Reject, Begin
  <2>3. overlap' \subseteq Revision
    BY <1>1 DEF Approve, Reject, Begin
  <2> QED
    BY <1>1, <2>2, <2>3 DEF Approve, Reject, Begin, proposal, broker
<1>2. ASSUME ApproveWrite(q) PROVE TypeOK'
  <2> DEFINE r == req[q].rev
             others == {x \in Revision \ {r} : target[x] = target[r]}
  <2>1. r \in Revision /\ req[q].step = "approve.write"
    BY <1>2 DEF ApproveWrite, At
  <2>2. [req[q] EXCEPT !.step = "approve.send"] \in RequestState
    <3>1. req[q] \in RequestState
      OBVIOUS
    <3> QED
      BY <2>1, <3>1 DEF RequestState, Idle
  <2>3. req' \in [Request -> RequestState]
    <3>1. req' = [req EXCEPT ![q] = [req[q] EXCEPT !.step = "approve.send"]]
      BY <1>2 DEF ApproveWrite
    <3> QED
      BY <2>2, <3>1
  <2>4. status' \in [Revision -> {"absent", "PENDING"} \cup Resolved]
    BY <1>2, <2>1 DEF ApproveWrite, Resolved
  <2>5. crossed' \subseteq Revision
    BY <1>2 DEF ApproveWrite
  <2>6. later' \in [Revision -> SUBSET Revision]
    <3>1. later' = [x \in Revision |->
             CASE x = r -> {}
               [] x \in others /\ status[x] = "APPROVED" -> later[x] \cup {r}
               [] OTHER -> later[x]]
      BY <1>2 DEF ApproveWrite
    <3> QED
      BY <2>1, <3>1
  <2> QED
    BY <1>2, <2>3, <2>4, <2>5, <2>6 DEF ApproveWrite, proposal, broker
<1>3. ASSUME ApproveSend(q) PROVE TypeOK'
  <2>1. req[q].rev \in Revision
    BY <1>3 DEF ApproveSend, At
  <2>2. sent' \in [Revision -> Nat]
    BY <1>3, <2>1 DEF ApproveSend
  <2>3. req' \in [Request -> RequestState]
    BY <1>3 DEF ApproveSend, End
  <2> QED
    BY <1>3, <2>2, <2>3 DEF ApproveSend, proposal, history
<1>4. ASSUME RejectWrite(q) PROVE TypeOK'
  BY <1>4 DEF RejectWrite, End, proposal, broker, history, Resolved
<1>5. ASSUME Die(q) PROVE TypeOK'
  BY <1>5 DEF Die, End, proposal, broker
<1> QED
  BY <1>1, <1>2, <1>3, <1>4, <1>5 DEF Answer

LEMMA TypePatches ==
  ASSUME TypeOK,
         \/ \E r \in Revision : Propose(r) \/ Redeliver(r) \/ PatchStarts(r)
         \/ \E w \in Worker : PatchEnds(w)
         \/ \E t \in Team, e \in Endpoint : Generate(t, e)
  PROVE  TypeOK'
<1> USE DEF TypeOK, proposal, broker, history
<1>1. ASSUME NEW r \in Revision, Propose(r) PROVE TypeOK'
  BY <1>1 DEF Propose, Resolved
<1>2. ASSUME NEW r \in Revision, Redeliver(r) PROVE TypeOK'
  BY <1>2 DEF Redeliver
<1>3. ASSUME NEW r \in Revision, NEW w \in Worker, FetchChunk(w, r) PROVE TypeOK'
  BY <1>3 DEF FetchChunk, Take
<1>4. ASSUME NEW r \in Revision, NEW w \in Worker, FetchFails(w, r) PROVE TypeOK'
  BY <1>4 DEF FetchFails, Take
<1>5. ASSUME NEW w \in Worker, WriteChunk(w) PROVE TypeOK'
  <2>1. work[w] \in Revision \X Team
    BY <1>5 DEF WriteChunk
  <2>2. PICK r \in Revision, t \in Team : work[w] = <<r, t>>
    BY <2>1
  <2>3. /\ doc' = [doc EXCEPT ![t] = [doc[t] EXCEPT ![target[r]] = r]]
        /\ applied' = applied \cup {r}
    BY <1>5, <2>2 DEF WriteChunk
  <2>4. [doc[t] EXCEPT ![target[r]] = r] \in [Endpoint -> Revision \cup {None, Generated}]
    BY <2>2
  <2> QED
    BY <1>5, <2>3, <2>4 DEF WriteChunk
<1>6. ASSUME NEW w \in Worker, WriteFails(w) PROVE TypeOK'
  <2>1. work[w] \in Revision \X Team
    BY <1>6 DEF WriteFails
  <2> QED
    BY <1>6, <2>1 DEF WriteFails
<1>7. ASSUME NEW t \in Team, NEW e \in Endpoint, Generate(t, e) PROVE TypeOK'
  BY <1>7 DEF Generate
<1> QED
  BY <1>1, <1>2, <1>3, <1>4, <1>5, <1>6, <1>7 DEF PatchStarts, PatchEnds

LEMMA TypeNext == TypeOK /\ [Next]_vars => TypeOK'
<1> SUFFICES ASSUME TypeOK, [Next]_vars PROVE TypeOK'
  OBVIOUS
<1>1. CASE UNCHANGED vars
  BY <1>1 DEF TypeOK, vars, proposal, broker, history
<1>2. CASE Next
  BY <1>2, TypeRequests, TypePatches DEF Next
<1> QED
  BY <1>1, <1>2

(* Every variable keeps its type: a request that is not idle names a       *)
(* revision, a message is taken only where there is one.                   *)
THEOREM TypeCorrect == Spec => []TypeOK
  BY TypeInit, TypeNext, PTL DEF Spec

-----------------------------------------------------------------------------
(* Approvals are not forgotten.                                            *)

(* A step that leaves a carrier of r's patch where it is keeps it in       *)
(* flight; each action that ends a carrier gets a lemma of its own.        *)
LEMMA ApprovedRequests ==
  ASSUME TypeOK, ApprovedIsApplied, NEW q \in Request,
         \/ \E r \in Revision : Approve(q, r) \/ Reject(q, r)
         \/ Answer(q)
  PROVE  ApprovedIsApplied'
<1> USE DEF TypeOK, ApprovedIsApplied, InFlight
<1>1. ASSUME NEW r \in Revision, Approve(q, r) \/ Reject(q, r)
      PROVE  ApprovedIsApplied'
  <2>1. \A p \in Request : At(p, "approve.send") => req'[p] = req[p]
    BY <1>1 DEF Approve, Reject, Begin, At
  <2> QED
    BY <1>1, <2>1 DEF Approve, Reject, Begin, At, broker
<1>2. ASSUME ApproveWrite(q) PROVE ApprovedIsApplied'
  <2>1. req[q].rev \in Revision /\ req[q] \in RequestState
    BY <1>2, ReqTyped DEF ApproveWrite, At
  <2>2. req'[q].step = "approve.send" /\ req'[q].rev = req[q].rev
    BY <1>2, <2>1 DEF ApproveWrite, RequestState, Idle
  <2>3. \A p \in Request \ {q} : req'[p] = req[p]
    BY <1>2 DEF ApproveWrite
  <2>4. \A r \in Revision \ {req[q].rev} : status'[r] = status[r]
    BY <1>2, <2>1 DEF ApproveWrite
  <2>5. ~ At(q, "approve.send")
    BY <1>2 DEF ApproveWrite, At
  <2> QED
    BY <1>2, <2>2, <2>3, <2>4, <2>5 DEF ApproveWrite, At, broker
<1>3. ASSUME ApproveSend(q) PROVE ApprovedIsApplied'
  <2>1. req[q].rev \in Revision
    BY <1>3, ReqTyped DEF ApproveSend, At
  <2>2. sent'[req[q].rev] > 0
    BY <1>3, <2>1 DEF ApproveSend
  <2>3. \A r \in Revision \ {req[q].rev} : sent'[r] = sent[r]
    BY <1>3, <2>1 DEF ApproveSend
  <2>4. \A p \in Request \ {q} : req'[p] = req[p]
    BY <1>3 DEF ApproveSend, End
  <2> QED
    BY <1>3, <2>2, <2>3, <2>4 DEF ApproveSend, At, history
<1>4. ASSUME RejectWrite(q) PROVE ApprovedIsApplied'
  <2>1. req[q].rev \in Revision /\ ~ At(q, "approve.send")
    BY <1>4, ReqTyped DEF RejectWrite, At
  <2>2. \A p \in Request : At(p, "approve.send") => req'[p] = req[p]
    BY <1>4, <2>1 DEF RejectWrite, End
  <2>3. \A r \in Revision : status'[r] = "APPROVED" => status[r] = "APPROVED"
    BY <1>4, <2>1 DEF RejectWrite
  <2> QED
    BY <1>4, <2>2, <2>3 DEF RejectWrite, At, broker, history
<1>5. ASSUME Die(q) PROVE ApprovedIsApplied'
  <2>1. \A p \in Request \ {q} : req'[p] = req[p]
    BY <1>5 DEF Die, End
  <2>2. failed \subseteq failed' /\ (At(q, "approve.send") => req[q].rev \in failed')
    BY <1>5 DEF Die
  <2> QED
    BY <1>5, <2>1, <2>2 DEF Die, At, broker
<1> QED
  BY <1>1, <1>2, <1>3, <1>4, <1>5 DEF Answer

LEMMA ApprovedPatches ==
  ASSUME TypeOK, ApprovedIsApplied,
         \/ \E r \in Revision : Propose(r) \/ Redeliver(r) \/ PatchStarts(r)
         \/ \E w \in Worker : PatchEnds(w)
         \/ \E t \in Team, e \in Endpoint : Generate(t, e)
  PROVE  ApprovedIsApplied'
<1> USE DEF TypeOK, ApprovedIsApplied, InFlight, At, broker, history
<1>1. ASSUME NEW r \in Revision, Propose(r) PROVE ApprovedIsApplied'
  BY <1>1 DEF Propose
<1>2. ASSUME NEW r \in Revision, Redeliver(r) PROVE ApprovedIsApplied'
  <2>1. \A x \in Revision : sent[x] > 0 => sent'[x] > 0
    BY <1>2 DEF Redeliver
  <2> QED
    BY <1>2, <2>1 DEF Redeliver
<1>3. ASSUME NEW r \in Revision, NEW w \in Worker, FetchChunk(w, r) PROVE ApprovedIsApplied'
  <2>1. work'[w] # None /\ work'[w][1] = r
    BY <1>3, NoneAssumption DEF FetchChunk
  <2>2. \A v \in Worker : work[v] # None => work'[v] = work[v]
    BY <1>3 DEF FetchChunk
  <2>3. \A x \in Revision \ {r} : sent'[x] = sent[x]
    BY <1>3 DEF FetchChunk, Take
  <2> QED
    BY <1>3, <2>1, <2>2, <2>3 DEF FetchChunk
<1>4. ASSUME NEW r \in Revision, NEW w \in Worker, FetchFails(w, r) PROVE ApprovedIsApplied'
  <2>1. \A x \in Revision \ {r} : sent'[x] = sent[x]
    BY <1>4 DEF FetchFails, Take
  <2> QED
    BY <1>4, <2>1 DEF FetchFails
<1>5. ASSUME NEW w \in Worker, PatchEnds(w) PROVE ApprovedIsApplied'
  <2>1. \A v \in Worker \ {w} : work'[v] = work[v]
    BY <1>5 DEF PatchEnds, WriteChunk, WriteFails
  <2>2. /\ applied \cup failed \subseteq applied' \cup failed'
        /\ work[w][1] \in applied' \cup failed'
    BY <1>5 DEF PatchEnds, WriteChunk, WriteFails
  <2>3. UNCHANGED <<status, req, sent>>
    BY <1>5 DEF PatchEnds, WriteChunk, WriteFails
  <2> QED
    BY <2>1, <2>2, <2>3
<1>6. ASSUME NEW t \in Team, NEW e \in Endpoint, Generate(t, e) PROVE ApprovedIsApplied'
  BY <1>6 DEF Generate
<1> QED
  BY <1>1, <1>2, <1>3, <1>4, <1>5, <1>6 DEF PatchStarts

LEMMA ApprovedNext == TypeOK /\ ApprovedIsApplied /\ [Next]_vars => ApprovedIsApplied'
<1> SUFFICES ASSUME TypeOK, ApprovedIsApplied, [Next]_vars PROVE ApprovedIsApplied'
  OBVIOUS
<1>1. CASE UNCHANGED vars
  BY <1>1 DEF ApprovedIsApplied, InFlight, At, vars, broker, history
<1>2. CASE Next
  BY <1>2, ApprovedRequests, ApprovedPatches DEF Next
<1> QED
  BY <1>1, <1>2

(* An approved revision is in flight, written, or failed by name, however  *)
(* many requests answer it and whatever is redelivered (revision_service   *)
(* 33-53, update_weaviate_documentation_chunk).                            *)
THEOREM ApprovedApplied == Spec => []ApprovedIsApplied
<1>1. Init => ApprovedIsApplied
  BY DEF Init, ApprovedIsApplied
<1> QED
  BY <1>1, ApprovedNext, TypeInit, TypeNext, PTL DEF Spec

-----------------------------------------------------------------------------
(* An answer is final and a rejection keeps the content out, unless two    *)
(* requests answer the revision at the same time. Of any other revision    *)
(* the request that answers it is the only one, and finds the status that  *)
(* it checked.                                                             *)
Active(q, r) == ~ At(q, "idle") /\ req[q].rev = r

Alone == \A p, q \in Request, r \in Revision \ overlap : Active(p, r) /\ Active(q, r) => p = q

StillAsRead ==
  \A q \in Request, r \in Revision \ overlap : Active(q, r) =>
    status[r] = IF At(q, "approve.send") THEN "APPROVED" ELSE "PENDING"

AnswerInv == TypeOK /\ Alone /\ StillAsRead /\ RejectedIsNotApplied

LEMMA AnswerInit == Init => AnswerInv
<1> SUFFICES ASSUME Init PROVE AnswerInv
  OBVIOUS
<1>1. Alone /\ StillAsRead
  BY DEF Init, Alone, StillAsRead, Active, At, Idle
<1>2. \A r \in Revision : ~ InFlight(r)
  <2>1. \A q \in Request : req[q].step = "idle"
    BY DEF Init, Idle
  <2>2. \A q \in Request : ~ At(q, "approve.send")
    BY <2>1 DEF At
  <2>3. /\ \A r \in Revision : ~ sent[r] > 0
        /\ \A w \in Worker : work[w] = None
    BY DEF Init
  <2> QED
    BY <2>2, <2>3 DEF InFlight
<1>3. \A r \in Revision, t \in Team, e \in Endpoint : doc[t][e] # r
  BY NoneAssumption DEF Init
<1> QED
  BY <1>1, <1>2, <1>3, TypeInit DEF AnswerInv, RejectedIsNotApplied

(* A request that ends may have changed the status of its revision only.   *)
LEMMA AnswerEnds ==
  ASSUME Alone, StillAsRead, NEW q \in Request,
         req'[q].step = "idle", \A p \in Request \ {q} : req'[p] = req[p],
         overlap' = overlap,
         \A x \in Revision \ overlap : status'[x] # status[x] => Active(q, x)
  PROVE  Alone' /\ StillAsRead'
<1>1. \A p \in Request, x \in Revision : Active(p, x)' =>
        /\ p # q /\ Active(p, x)
        /\ At(p, "approve.send")' <=> At(p, "approve.send")
  BY DEF Active, At
<1>2. Alone'
  BY <1>1 DEF Alone
<1>3. StillAsRead'
  BY <1>1 DEF StillAsRead, Alone
<1> QED
  BY <1>2, <1>3

LEMMA AnswerRequests ==
  ASSUME AnswerInv, TypeOK', NEW q \in Request,
         \/ \E r \in Revision : Approve(q, r) \/ Reject(q, r)
         \/ Answer(q)
  PROVE  AnswerInv'
<1> USE DEF AnswerInv, TypeOK
<1>1. ASSUME NEW r \in Revision, NEW s \in {"approve.write", "reject.write"},
             status[r] = "PENDING", Begin(q, r, s)
      PROVE  AnswerInv'
  <2>1. /\ req'[q].rev = r /\ req'[q].step = s /\ At(q, "idle")
        /\ \A p \in Request \ {q} : req'[p] = req[p]
    BY <1>1 DEF Begin
  <2>2. /\ overlap \subseteq overlap'
        /\ r \notin overlap' => \A p \in Request : ~ Active(p, r)
    BY <1>1 DEF Begin, Active
  <2>a. \A p \in Request, x \in Revision : Active(p, x)' =>
          /\ IF p = q THEN x = r ELSE Active(p, x)
          /\ p # q => (At(p, "approve.send")' <=> At(p, "approve.send"))
    BY <2>1 DEF Active, At
  <2>b. ~ At(q, "approve.send")' /\ status' = status
    BY <1>1, <2>1 DEF At, Begin
  <2>3. Alone'
    <3> SUFFICES ASSUME NEW p \in Request, NEW p2 \in Request, NEW x \in Revision,
                        x \notin overlap', Active(p, x)', Active(p2, x)'
                 PROVE  p = p2
      BY DEF Alone
    <3>1. CASE x = r
      BY <3>1, <2>a, <2>2
    <3>2. CASE x # r
      BY <3>2, <2>a, <2>2 DEF Alone
    <3> QED
      BY <3>1, <3>2
  <2>4. StillAsRead'
    BY <1>1, <2>a, <2>b, <2>2 DEF StillAsRead
  <2>5. \A x \in Revision : InFlight(x)' => InFlight(x)
    BY <1>1, <2>1 DEF At, Begin, InFlight, broker
  <2>6. RejectedIsNotApplied'
    BY <1>1, <2>2, <2>5 DEF Begin, RejectedIsNotApplied
  <2> QED
    BY <2>3, <2>4, <2>6
<1>2. ASSUME ApproveWrite(q) PROVE AnswerInv'
  <2> DEFINE r == req[q].rev
  <2>1. r \in Revision /\ req[q] \in RequestState /\ At(q, "approve.write")
    BY <1>2, ReqTyped DEF ApproveWrite, At
  <2>2. /\ req'[q].step = "approve.send" /\ req'[q].rev = r
        /\ \A p \in Request \ {q} : req'[p] = req[p]
    BY <1>2, <2>1 DEF ApproveWrite, RequestState, Idle
  <2>3. status'[r] = "APPROVED" /\ \A x \in Revision \ {r} : status'[x] = status[x]
    BY <1>2, <2>1 DEF ApproveWrite
  <2>4. UNCHANGED <<overlap, sent, work, doc>>
    BY <1>2 DEF ApproveWrite, broker
  <2>a. \A p \in Request, x \in Revision : Active(p, x)' =>
          /\ Active(p, x)
          /\ p # q => (At(p, "approve.send")' <=> At(p, "approve.send"))
    BY <2>1, <2>2 DEF Active, At
  <2>b. At(q, "approve.send")' /\ Active(q, r)
    BY <2>1, <2>2 DEF Active, At
  <2>c. \A x \in Revision : Active(q, x)' => x = r
    BY <2>2 DEF Active
  <2>5. Alone'
    BY <2>a, <2>4 DEF Alone
  <2>6. StillAsRead'
    <3> SUFFICES ASSUME NEW p \in Request, NEW x \in Revision, x \notin overlap, Active(p, x)'
                 PROVE  status'[x] = IF At(p, "approve.send")' THEN "APPROVED" ELSE "PENDING"
      BY <2>4 DEF StillAsRead
    <3>1. CASE p = q
      BY <3>1, <2>b, <2>c, <2>3
    <3>2. CASE p # q
      <4>1. x # r
        BY <3>2, <2>a, <2>b DEF Alone
      <4> QED
        BY <3>2, <4>1, <2>a, <2>3 DEF StillAsRead
    <3> QED
      BY <3>1, <3>2
  <2>7. \A x \in Revision \ {r} : InFlight(x)' => InFlight(x)
    BY <2>1, <2>2, <2>4 DEF At, InFlight
  <2>8. RejectedIsNotApplied'
    BY <2>3, <2>4, <2>7 DEF RejectedIsNotApplied
  <2> QED
    BY <2>5, <2>6, <2>8
<1>3. ASSUME ApproveSend(q) PROVE AnswerInv'
  <2> DEFINE r == req[q].rev
  <2>1. r \in Revision /\ At(q, "approve.send")
    BY <1>3, ReqTyped DEF ApproveSend, At
  <2>2. req'[q].step = "idle" /\ \A p \in Request \ {q} : req'[p] = req[p]
    BY <1>3 DEF ApproveSend, End, Idle
  <2>3. UNCHANGED <<overlap, status, work, doc>>
    BY <1>3 DEF ApproveSend, history
  <2>4. \A x \in Revision \ {r} : sent'[x] = sent[x]
    BY <1>3 DEF ApproveSend
  <2>5. Alone' /\ StillAsRead'
    BY <2>2, <2>3, AnswerEnds
  <2>a. InFlight(r)
    BY <2>1 DEF InFlight
  <2>b. \A p \in Request : At(p, "approve.send")' => p # q /\ At(p, "approve.send")
    BY <2>2 DEF At
  <2>c. \A x \in Revision \ {r} : InFlight(x)' => InFlight(x)
    BY <2>2, <2>3, <2>4, <2>b DEF InFlight
  <2>6. InFlight(r) /\ \A x \in Revision : InFlight(x)' => InFlight(x)
    BY <2>a, <2>c
  <2>7. RejectedIsNotApplied'
    BY <2>1, <2>3, <2>6 DEF RejectedIsNotApplied
  <2> QED
    BY <2>5, <2>7
<1>4. ASSUME RejectWrite(q) PROVE AnswerInv'
  <2> DEFINE r == req[q].rev
  <2>1. r \in Revision /\ At(q, "reject.write")
    BY <1>4, ReqTyped DEF RejectWrite, At
  <2>2. req'[q].step = "idle" /\ \A p \in Request \ {q} : req'[p] = req[p]
    BY <1>4 DEF RejectWrite, End, Idle
  <2>3. \A x \in Revision \ {r} : status'[x] = status[x]
    BY <1>4 DEF RejectWrite
  <2>4. UNCHANGED <<overlap, sent, work, doc>>
    BY <1>4 DEF RejectWrite, broker, history
  <2>5. Active(q, r) /\ (r \notin overlap => status[r] = "PENDING")
    BY <2>1 DEF Active, At, StillAsRead
  <2>6. Alone' /\ StillAsRead'
    BY <2>2, <2>3, <2>4, <2>5, AnswerEnds
  <2>7. \A x \in Revision : InFlight(x)' => InFlight(x)
    BY <2>2, <2>4 DEF At, InFlight
  <2>8. RejectedIsNotApplied'
    BY <2>1, <2>3, <2>4, <2>5, <2>7 DEF RejectedIsNotApplied
  <2> QED
    BY <2>6, <2>8
<1>5. ASSUME Die(q) PROVE AnswerInv'
  <2>1. req'[q].step = "idle" /\ \A p \in Request \ {q} : req'[p] = req[p]
    BY <1>5 DEF Die, End, Idle
  <2>2. UNCHANGED <<overlap, status, sent, work, doc>>
    BY <1>5 DEF Die, broker
  <2>3. Alone' /\ StillAsRead'
    BY <2>1, <2>2, AnswerEnds
  <2>4. \A x \in Revision : InFlight(x)' => InFlight(x)
    BY <2>1, <2>2 DEF At, InFlight
  <2>5. RejectedIsNotApplied'
    BY <2>2, <2>4 DEF RejectedIsNotApplied
  <2> QED
    BY <2>3, <2>5
<1> QED
  BY <1>1, <1>2, <1>3, <1>4, <1>5 DEF Answer, Approve, Reject

LEMMA AnswerPatches ==
  ASSUME AnswerInv, TypeOK',
         \/ \E r \in Revision : Propose(r) \/ Redeliver(r) \/ PatchStarts(r)
         \/ \E w \in Worker : PatchEnds(w)
         \/ \E t \in Team, e \in Endpoint : Generate(t, e)
  PROVE  AnswerInv'
<1> USE DEF AnswerInv, TypeOK, Alone, StillAsRead, Active, At
<1>1. ASSUME NEW r \in Revision, Propose(r) PROVE AnswerInv'
  <2>1. \A x \in Revision : InFlight(x)' => InFlight(x)
    BY <1>1 DEF Propose, InFlight, broker
  <2>2. RejectedIsNotApplied'
    BY <1>1, <2>1 DEF Propose, RejectedIsNotApplied, history
  <2>3. \A x \in Revision \ {r} : status'[x] = status[x]
    BY <1>1 DEF Propose
  <2>4. Alone' /\ StillAsRead'
    BY <1>1, <2>3 DEF Propose, history
  <2> QED
    BY <2>2, <2>4
<1>2. CASE \/ \E r \in Revision : Redeliver(r) \/ PatchStarts(r)
           \/ \E w \in Worker : PatchEnds(w)
           \/ \E t \in Team, e \in Endpoint : Generate(t, e)
  <2>1. UNCHANGED <<status, req, overlap>>
    BY <1>2 DEF Redeliver, PatchStarts, FetchChunk, FetchFails, PatchEnds, WriteChunk,
                WriteFails, Generate, history
  <2>2. Alone' /\ StillAsRead'
    BY <2>1
  <2>3. \A x \in Revision : InFlight(x)' => InFlight(x)
    <3>1. ASSUME NEW r \in Revision, Redeliver(r)
          PROVE  \A x \in Revision : InFlight(x)' => InFlight(x)
      BY <3>1 DEF Redeliver, InFlight
    <3>2. ASSUME NEW r \in Revision, NEW w \in Worker, FetchChunk(w, r)
          PROVE  \A x \in Revision : InFlight(x)' => InFlight(x)
      <4>1. sent[r] > 0 /\ \A x \in Revision : sent'[x] > 0 => sent[x] > 0
        BY <3>2 DEF FetchChunk, Take
      <4>2. /\ work'[w][1] = r
            /\ \A v \in Worker \ {w} : work'[v] = work[v]
        BY <3>2 DEF FetchChunk
      <4> QED
        BY <2>1, <4>1, <4>2 DEF InFlight
    <3>3. ASSUME NEW r \in Revision, NEW w \in Worker, FetchFails(w, r)
          PROVE  \A x \in Revision : InFlight(x)' => InFlight(x)
      <4>1. \A x \in Revision : sent'[x] > 0 => sent[x] > 0
        BY <3>3 DEF FetchFails, Take
      <4> QED
        BY <3>3, <4>1 DEF FetchFails, InFlight
    <3>4. ASSUME NEW w \in Worker, PatchEnds(w)
          PROVE  \A x \in Revision : InFlight(x)' => InFlight(x)
      BY <3>4 DEF PatchEnds, WriteChunk, WriteFails, InFlight, broker
    <3>5. ASSUME NEW t \in Team, NEW e \in Endpoint, Generate(t, e)
          PROVE  \A x \in Revision : InFlight(x)' => InFlight(x)
      BY <3>5 DEF Generate, InFlight, broker
    <3> QED
      BY <1>2, <3>1, <3>2, <3>3, <3>4, <3>5 DEF PatchStarts
  <2>4. \A x \in Revision, t \in Team, e \in Endpoint :
          doc'[t][e] = x => doc[t][e] = x \/ InFlight(x)
    <3>1. ASSUME NEW w \in Worker, WriteChunk(w),
                 NEW x \in Revision, NEW t \in Team, NEW e \in Endpoint, doc'[t][e] = x
          PROVE  doc[t][e] = x \/ InFlight(x)
      <4>1. work[w] \in Revision \X Team /\ InFlight(work[w][1])
        BY <3>1 DEF WriteChunk, InFlight
      <4>2. doc' = [doc EXCEPT ![work[w][2]] =
                     [doc[work[w][2]] EXCEPT ![target[work[w][1]]] = work[w][1]]]
        BY <3>1 DEF WriteChunk
      <4>3. doc'[t][e] = doc[t][e] \/ doc'[t][e] = work[w][1]
        BY <4>1, <4>2
      <4> QED
        BY <3>1, <4>1, <4>3
    <3>2. ASSUME NEW u \in Team, NEW d \in Endpoint, Generate(u, d),
                 NEW x \in Revision, NEW t \in Team, NEW e \in Endpoint, doc'[t][e] = x
          PROVE  doc[t][e] = x
      BY <3>2, NoneAssumption DEF Generate
    <3> QED
      BY <1>2, <3>1, <3>2 DEF Redeliver, PatchStarts, FetchChunk, FetchFails, PatchEnds, WriteFails
  <2>5. RejectedIsNotApplied'
    BY <2>1, <2>3, <2>4 DEF RejectedIsNotApplied
  <2> QED
    BY <2>2, <2>5
<1> QED
  BY <1>1, <1>2

LEMMA AnswerNext == AnswerInv /\ [Next]_vars => AnswerInv'
<1> SUFFICES ASSUME AnswerInv, [Next]_vars PROVE AnswerInv'
  OBVIOUS
<1>1. TypeOK'
  BY TypeNext DEF AnswerInv
<1>2. CASE UNCHANGED vars
  BY <1>1, <1>2 DEF AnswerInv, Alone, StillAsRead, Active, RejectedIsNotApplied, InFlight, At,
                    vars, broker, history
<1>3. CASE Next
  BY <1>1, <1>3, AnswerRequests, AnswerPatches DEF Next
<1> QED
  BY <1>2, <1>3

(* A rejected revision is neither in a document nor on its way to one      *)
(* unless two requests answered it at the same time (revision_service      *)
(* 55-65), for any requests, redeliveries and failures.                    *)
THEOREM RejectedNotApplied == Spec => []RejectedIsNotApplied
  BY AnswerInit, AnswerNext, PTL DEF Spec, AnswerInv

(* The answer to a revision changes only when two requests gave one at     *)
(* the same time (revision_service 39, 61).                                *)
THEOREM AnswersAreFinal == Spec => AnsweredOnce
<1> DEFINE Final == \A r \in Revision :
             status[r] \in Resolved /\ status'[r] # status[r] => r \in overlap
<1>1. AnswerInv /\ [Next]_vars => [Final]_vars
  <2> SUFFICES ASSUME AnswerInv, Next, NEW r \in Revision,
                      status[r] \in Resolved, status'[r] # status[r]
               PROVE  r \in overlap
    OBVIOUS
  <2>1. PICK q \in Request : /\ At(q, "approve.write") \/ At(q, "reject.write")
                             /\ req[q].rev = r
    <3>1. status[r] # "absent"
      BY DEF Resolved
    <3>2. ASSUME NEW x \in Revision, Propose(x) PROVE FALSE
      BY <3>1, <3>2 DEF Propose, AnswerInv, TypeOK
    <3>3. PICK q \in Request : ApproveWrite(q) \/ RejectWrite(q)
      BY <3>2 DEF Next, Redeliver, PatchStarts, FetchChunk, FetchFails, Approve, Reject, Begin,
                  Answer, ApproveSend, Die, PatchEnds, WriteChunk, WriteFails, Generate, history
    <3> QED
      BY <3>3 DEF ApproveWrite, RejectWrite, AnswerInv, TypeOK
  <2> QED
    BY <2>1 DEF AnswerInv, StillAsRead, Active, At, Resolved
<1>2. Spec => [][Final]_vars
  BY <1>1, AnswerInit, AnswerNext, PTL DEF Spec
<1> QED
  BY <1>2 DEF AnsweredOnce
-----------------------------------------------------------------------------
(* A patch in flight beside a later approval of its endpoint was already   *)
(* in flight at that approval.                                             *)
LaterCrossed ==
  \A x \in Revision : x \notin later[x] /\ (later[x] # {} /\ InFlight(x) => x \in crossed)

OrderInv == TypeOK /\ LaterCrossed

LEMMA OrderInit == Init => OrderInv
  BY TypeInit DEF Init, OrderInv, LaterCrossed

(* No patch takes off.                                                     *)
LEMMA NothingTakesOff ==
  ASSUME OrderInv, \A x \in Revision : InFlight(x)' => InFlight(x), UNCHANGED <<crossed, later>>
  PROVE  LaterCrossed'
  BY DEF OrderInv, LaterCrossed

LEMMA OrderRequests ==
  ASSUME OrderInv, NEW q \in Request,
         \/ \E r \in Revision : Approve(q, r) \/ Reject(q, r)
         \/ Answer(q)
  PROVE  LaterCrossed'
<1> USE DEF OrderInv, TypeOK
<1>1. ASSUME NEW r \in Revision, Approve(q, r) \/ Reject(q, r)
      PROVE  LaterCrossed'
  <2>1. \A p \in Request : req'[p] = req[p] \/ req'[p].step \in {"approve.write", "reject.write"}
    BY <1>1 DEF Approve, Reject, Begin
  <2>3. UNCHANGED <<sent, work>>
    BY <1>1 DEF Approve, Reject, Begin, broker
  <2>2. \A x \in Revision : InFlight(x)' => InFlight(x)
    BY <2>1, <2>3 DEF InFlight, At
  <2> QED
    BY <1>1, <2>2, NothingTakesOff DEF Approve, Reject, Begin
<1>2. CASE ApproveWrite(q)
  <2> DEFINE r == req[q].rev
             others == {x \in Revision \ {r} : target[x] = target[r]}
  <2>1. r \in Revision
    BY <1>2, ReqTyped DEF ApproveWrite, At
  <2>2. \A x \in Revision \ {r} : InFlight(x)' => InFlight(x)
    BY <1>2 DEF ApproveWrite, InFlight, At, broker
  <2>3. /\ crossed' = crossed \cup {x \in others : InFlight(x)} /\ later'[r] = {}
        /\ \A x \in Revision \ {r} : later'[x] = later[x] \/ (x \in others /\ later'[x] = later[x] \cup {r})
    BY <1>2, <2>1 DEF ApproveWrite
  <2> QED
    BY <2>2, <2>3 DEF LaterCrossed
<1>3. CASE ApproveSend(q)
  <2>1. req[q].rev \in Revision /\ At(q, "approve.send")
    BY <1>3, ReqTyped DEF ApproveSend, At
  <2>2. \A x \in Revision : InFlight(x)' => InFlight(x)
    BY <1>3, <2>1 DEF ApproveSend, End, Idle, InFlight, At
  <2> QED
    BY <1>3, <2>2, NothingTakesOff DEF ApproveSend, history
<1>4. CASE RejectWrite(q) \/ Die(q)
  <2>1. \A x \in Revision : InFlight(x)' => InFlight(x)
    BY <1>4 DEF RejectWrite, Die, End, Idle, InFlight, At, broker
  <2> QED
    BY <1>4, <2>1, NothingTakesOff DEF RejectWrite, Die, history
<1> QED
  BY <1>1, <1>2, <1>3, <1>4 DEF Answer

LEMMA OrderPatches ==
  ASSUME OrderInv, Next, UNCHANGED req
  PROVE  LaterCrossed'
<1> USE DEF OrderInv, TypeOK
<1>1. ASSUME NEW r \in Revision, Propose(r) \/ Redeliver(r) \/ PatchStarts(r)
      PROVE  LaterCrossed'
  <2>1. \A x \in Revision : sent'[x] > 0 => sent[x] > 0
    BY <1>1 DEF Propose, Redeliver, PatchStarts, FetchChunk, FetchFails, Take, broker
  <2>2. \A w \in Worker : work'[w] = work[w] \/ (work'[w][1] = r /\ sent[r] > 0)
    BY <1>1 DEF Propose, Redeliver, PatchStarts, FetchChunk, FetchFails, Take
  <2>3. \A x \in Revision : InFlight(x)' => InFlight(x)
    BY <2>1, <2>2 DEF InFlight, At
  <2> QED
    BY <1>1, <2>3, NothingTakesOff DEF Propose, Redeliver, PatchStarts, FetchChunk, FetchFails, history
<1>2. ASSUME NEW w \in Worker, PatchEnds(w)
      PROVE  LaterCrossed'
  <2>1. \A x \in Revision : InFlight(x)' => InFlight(x)
    BY <1>2 DEF PatchEnds, WriteChunk, WriteFails, InFlight, At, broker
  <2> QED
    BY <1>2, <2>1, NothingTakesOff DEF PatchEnds, WriteChunk, WriteFails
<1>3. ASSUME NEW t \in Team, NEW e \in Endpoint, Generate(t, e)
      PROVE  LaterCrossed'
  <2>1. \A x \in Revision : InFlight(x)' => InFlight(x)
    BY <1>3 DEF Generate, InFlight, At, broker
  <2> QED
    BY <1>3, <2>1, NothingTakesOff DEF Generate, history
<1> QED
  BY <1>1, <1>2, <1>3, OrderRequests DEF Next

LEMMA OrderNext == OrderInv /\ [Next]_vars => OrderInv'
<1> SUFFICES ASSUME OrderInv, [Next]_vars PROVE OrderInv'
  OBVIOUS
<1>1. TypeOK'
  BY TypeNext DEF OrderInv
<1>2. CASE UNCHANGED vars
  BY <1>1, <1>2 DEF OrderInv, LaterCrossed, InFlight, At, vars, broker, history
<1>3. CASE \E q \in Request : Answer(q) \/ \E r \in Revision : Approve(q, r) \/ Reject(q, r)
  BY <1>1, <1>3, OrderRequests DEF OrderInv
<1>4. CASE Next /\ UNCHANGED req
  BY <1>1, <1>4, OrderPatches DEF OrderInv
<1> QED
  BY <1>2, <1>3, <1>4 DEF Next, Propose, Redeliver, PatchStarts, FetchChunk, FetchFails, PatchEnds,
     WriteChunk, WriteFails, Generate

(* A document goes back to an older approved content only if the patch of  *)
(* that one was still in flight when the newer one was approved (tasks     *)
(* 113-131), whichever workers run the patches and however often.          *)
THEOREM OrderIsKept == Spec => NoReturnToOlder
<1> DEFINE Forth == \A t \in Team, e \in Endpoint :
             doc[t][e] \in Revision /\ doc'[t][e] \in Revision /\ doc[t][e] \in later[doc'[t][e]] =>
               doc'[t][e] \in crossed
<1>1. OrderInv /\ [Next]_vars => [Forth]_vars
  <2> SUFFICES ASSUME OrderInv, Next, NEW t \in Team, NEW e \in Endpoint,
                      doc[t][e] \in Revision, doc'[t][e] \in Revision, doc[t][e] \in later[doc'[t][e]]
               PROVE  doc'[t][e] \in crossed
    OBVIOUS
  <2> DEFINE x == doc'[t][e]
  <2>1. CASE doc'[t][e] = doc[t][e]
    BY <2>1 DEF OrderInv, LaterCrossed
  <2>2. CASE doc'[t][e] # doc[t][e]
    <3>1. ASSUME NEW d \in Team, NEW f \in Endpoint, Generate(d, f)
          PROVE  FALSE
      <4>1. Generated \notin Revision
        BY NoneAssumption
      <4>2. doc'[t][e] = doc[t][e] \/ doc'[t][e] = Generated
        BY <3>1 DEF Generate, OrderInv, TypeOK
      <4> QED
        BY <2>2, <4>1, <4>2
    <3>2. PICK w \in Worker : WriteChunk(w)
      BY <2>2, <3>1 DEF Next, Propose, Redeliver, PatchStarts, FetchChunk, FetchFails, Approve, Reject, Begin,
         Answer, ApproveWrite, ApproveSend, RejectWrite, Die, PatchEnds, WriteFails
    <3>3. work[w] # None /\ work[w][1] = x
      BY <2>2, <3>2 DEF WriteChunk, OrderInv, TypeOK
    <3>4. InFlight(x)
      BY <3>3 DEF InFlight
    <3> QED
      BY <3>4 DEF OrderInv, LaterCrossed
  <2> QED
    BY <2>1, <2>2
<1>2. Spec => [][Forth]_vars
  BY <1>1, OrderInit, OrderNext, PTL DEF Spec
<1> QED
  BY <1>2 DEF NoReturnToOlder

-----------------------------------------------------------------------------
(* The patch of an approval is in one place at a time, and nowhere any     *)
(* more once it was written or has failed; before the approval it is       *)
(* nowhere either.                                                         *)
Sending(q, r) == At(q, "approve.send") /\ req[q].rev = r
Works(w, r) == work[w] # None /\ work[w][1] = r

OnePatch(r) ==
  /\ sent[r] <= 1
  /\ \A v, w \in Worker : Works(v, r) /\ Works(w, r) => v = w
  /\ \A w \in Worker : Works(w, r) => sent[r] = 0
  /\ \A q \in Request : Sending(q, r) => sent[r] = 0 /\ \A w \in Worker : ~ Works(w, r)
  /\ r \in applied \cup failed => ~ InFlight(r)
  /\ status[r] # "APPROVED" => ~ InFlight(r) /\ r \notin applied \cup failed

OnePatchEach == \A r \in Revision \ overlap : copies[r] = 0 => OnePatch(r)

PatchInv == AnswerInv /\ OnePatchEach

(* InFlight, in the words of this section.                                 *)
LEMMA InFlightIs ==
  ASSUME NEW r
  PROVE  InFlight(r) <=>
           \/ \E q \in Request : Sending(q, r)
           \/ sent[r] > 0
           \/ \E w \in Worker : Works(w, r)
  BY DEF InFlight, Sending, Works

LEMMA InFlightIsNext ==
  ASSUME NEW r
  PROVE  InFlight(r)' <=>
           \/ \E q \in Request : Sending(q, r)'
           \/ sent'[r] > 0
           \/ \E w \in Worker : Works(w, r)'
  BY DEF InFlight, Sending, Works

LEMMA PatchInit == Init => PatchInv
<1> SUFFICES ASSUME Init PROVE PatchInv
  OBVIOUS
<1>1. /\ \A q \in Request, r \in Revision : ~ Sending(q, r)
      /\ \A w \in Worker, r \in Revision : ~ Works(w, r)
      /\ \A r \in Revision : sent[r] = 0 /\ r \notin applied \cup failed
  BY DEF Init, Sending, Works, At, Idle
<1>2. \A r \in Revision : ~ InFlight(r)
  <2>1. ASSUME NEW r \in Revision PROVE ~ InFlight(r)
    BY <1>1, InFlightIs
  <2> QED
    BY <2>1
<1> QED
  BY <1>1, <1>2, AnswerInit DEF PatchInv, OnePatchEach, OnePatch

(* A step that does not take r's patch further.                            *)
LEMMA PatchFrame ==
  ASSUME NEW r \in Revision, OnePatch(r), sent'[r] = sent[r],
         \A q \in Request : Sending(q, r)' <=> Sending(q, r),
         \A w \in Worker : Works(w, r)' <=> Works(w, r),
         status'[r] # "APPROVED" => status[r] # "APPROVED",
         r \in applied' \cup failed' <=> r \in applied \cup failed
  PROVE  OnePatch(r)'
<1>1. InFlight(r)' <=> InFlight(r)
  BY InFlightIs, InFlightIsNext
<1> QED
  BY <1>1 DEF OnePatch

(* Who else sends the patch of r while q answers it: nobody.               *)
LEMMA SendsAlone ==
  ASSUME AnswerInv, NEW r \in Revision \ overlap, NEW q \in Request, Active(q, r),
         NEW p \in Request \ {q}
  PROVE  ~ Sending(p, r)
  BY DEF AnswerInv, Alone, Active, Sending, At

LEMMA PatchRequests ==
  ASSUME PatchInv, NEW q \in Request, Answer(q), NEW r \in Revision \ overlap, OnePatch(r)
  PROVE  OnePatch(r)'
<1> USE DEF PatchInv, AnswerInv, TypeOK
<1> DEFINE x == req[q].rev
<1>1. /\ \A p \in Request \ {q} : req'[p] = req[p]
      /\ UNCHANGED <<work, doc, applied>>
  BY DEF Answer, ApproveWrite, ApproveSend, RejectWrite, Die, End, history
<1>2. \A w \in Worker : Works(w, r)' <=> Works(w, r)
  BY <1>1 DEF Works
<1>3. \A p \in Request \ {q} : Sending(p, r)' <=> Sending(p, r)
  BY <1>1 DEF Sending, At
<1>4. CASE x # r
  <2>1. x \in Revision
    BY ReqTyped DEF Answer, ApproveWrite, ApproveSend, RejectWrite, Die, At
  <2>2. ~ Sending(q, r) /\ ~ Sending(q, r)'
    <3>1. CASE ApproveWrite(q)
      <4>1. req'[q].rev = x
        BY <3>1, ReqTyped DEF ApproveWrite, At, RequestState, Idle
      <4> QED
        BY <1>4, <4>1 DEF Sending
    <3>2. CASE ApproveSend(q) \/ RejectWrite(q) \/ Die(q)
      BY <1>4, <3>2 DEF ApproveSend, RejectWrite, Die, End, Idle, Sending, At
    <3> QED
      BY <3>1, <3>2 DEF Answer
  <2>3. sent'[r] = sent[r] /\ status'[r] = status[r] /\ (r \in failed' <=> r \in failed)
    BY <1>4, <2>1 DEF Answer, ApproveWrite, ApproveSend, RejectWrite, Die, broker, history
  <2> QED
    BY <1>1, <1>2, <1>3, <2>2, <2>3, PatchFrame
<1>5. CASE x = r /\ ApproveWrite(q)
  <2>1. Active(q, r) /\ ~ At(q, "approve.send")
    BY <1>5 DEF ApproveWrite, Active, At
  <2>2. status[r] = "PENDING" /\ status'[r] = "APPROVED"
    BY <1>5, <2>1 DEF StillAsRead, ApproveWrite
  <2>3. ~ InFlight(r) /\ r \notin applied \cup failed
    BY <2>2 DEF OnePatch
  <2>4. sent' = sent /\ failed' = failed
    BY <1>5 DEF ApproveWrite, broker
  <2>5. sent[r] = 0 /\ \A w \in Worker : ~ Works(w, r)
    BY <2>3, InFlightIs
  <2> QED
    BY <1>1, <1>2, <2>2, <2>3, <2>4, <2>5 DEF OnePatch
<1>6. CASE x = r /\ ApproveSend(q)
  <2>1. Active(q, r) /\ Sending(q, r)
    BY <1>6 DEF ApproveSend, Active, Sending, At
  <2>2. \A p \in Request : ~ Sending(p, r)'
    <3>1. ~ Sending(q, r)'
      BY <1>6 DEF ApproveSend, End, Idle, Sending, At
    <3> QED
      BY <1>3, <2>1, <3>1, SendsAlone
  <2>3. sent[r] = 0 /\ sent'[r] = 1 /\ \A w \in Worker : ~ Works(w, r)
    BY <1>6, <2>1 DEF OnePatch, ApproveSend
  <2>4. status[r] = "APPROVED" /\ r \notin applied \cup failed
    BY <2>1, InFlightIs DEF OnePatch
  <2>5. status' = status /\ failed' = failed
    BY <1>6 DEF ApproveSend, history
  <2> QED
    BY <1>1, <1>2, <2>2, <2>3, <2>4, <2>5 DEF OnePatch
<1>7. CASE x = r /\ RejectWrite(q)
  <2>1. Active(q, r) /\ ~ At(q, "approve.send")
    BY <1>7 DEF RejectWrite, Active, At
  <2>2. status[r] = "PENDING"
    BY <2>1 DEF StillAsRead
  <2>3. ~ Sending(q, r) /\ ~ Sending(q, r)'
    BY <1>7, <2>1 DEF RejectWrite, End, Idle, Sending, At
  <2>4. sent' = sent /\ failed' = failed
    BY <1>7 DEF RejectWrite, broker, history
  <2> QED
    BY <1>1, <1>2, <1>3, <2>2, <2>3, <2>4, PatchFrame
<1>8. CASE x = r /\ Die(q)
  <2>1. ~ Sending(q, r)' /\ sent' = sent /\ status' = status
    BY <1>8 DEF Die, End, Idle, Sending, At, broker
  <2>2. CASE At(q, "approve.send")
    <3>1. Active(q, r) /\ Sending(q, r)
      BY <1>8, <2>2 DEF Active, Sending, At
    <3>2. \A p \in Request : ~ Sending(p, r)'
      BY <1>3, <2>1, <3>1, SendsAlone
    <3>3. sent[r] = 0 /\ (\A w \in Worker : ~ Works(w, r)) /\ status[r] = "APPROVED"
      BY <3>1, InFlightIs DEF OnePatch
    <3>4. ~ InFlight(r)'
      BY <1>2, <2>1, <3>2, <3>3, InFlightIsNext
    <3> QED
      BY <1>2, <2>1, <3>2, <3>3, <3>4 DEF OnePatch
  <2>3. CASE ~ At(q, "approve.send")
    <3>1. ~ Sending(q, r) /\ failed' = failed
      BY <1>8, <2>3 DEF Die, Sending
    <3> QED
      BY <1>1, <1>2, <1>3, <2>1, <3>1, PatchFrame
  <2> QED
    BY <2>2, <2>3
<1> QED
  BY <1>4, <1>5, <1>6, <1>7, <1>8 DEF Answer

LEMMA PatchBegins ==
  ASSUME PatchInv, NEW q \in Request, NEW x \in Revision, Approve(q, x) \/ Reject(q, x),
         NEW r \in Revision \ overlap, OnePatch(r)
  PROVE  OnePatch(r)'
<1>1. /\ \A p \in Request : Sending(p, r)' <=> Sending(p, r)
      /\ UNCHANGED <<sent, status, work, applied, failed>>
  BY DEF Approve, Reject, Begin, Sending, At, broker, PatchInv, AnswerInv, TypeOK
<1>2. \A w \in Worker : Works(w, r)' <=> Works(w, r)
  BY <1>1 DEF Works
<1> QED
  BY <1>1, <1>2, PatchFrame

(* A worker takes the message of r: there was one, and no other worker.    *)
LEMMA PatchStartsOnce ==
  ASSUME PatchInv, NEW x \in Revision, PatchStarts(x), NEW r \in Revision, OnePatch(r)
  PROVE  OnePatch(r)'
<1> USE DEF PatchInv, AnswerInv, TypeOK
<1>1. PICK w \in Worker : FetchChunk(w, x) \/ FetchFails(w, x)
  BY DEF PatchStarts
<1>2. UNCHANGED <<req, status, applied>> /\ sent[x] > 0 /\ sent' = [sent EXCEPT ![x] = @ - 1]
  BY <1>1 DEF FetchChunk, FetchFails, Take, history
<1>3. \A q \in Request : Sending(q, r)' <=> Sending(q, r)
  BY <1>2 DEF Sending, At
<1>4. \A v \in Worker \ {w} : Works(v, r)' <=> Works(v, r)
  BY <1>1 DEF FetchChunk, FetchFails, Works
<1>5. CASE x # r
  <2>1. Works(w, r)' <=> Works(w, r)
    BY <1>1, <1>5, NoneAssumption DEF FetchChunk, FetchFails, Works
  <2>2. sent'[r] = sent[r] /\ (r \in failed' <=> r \in failed)
    BY <1>1, <1>2, <1>5 DEF FetchChunk, FetchFails, history
  <2> QED
    BY <1>2, <1>3, <1>4, <2>1, <2>2, PatchFrame
<1>6. CASE x = r
  <2>1. /\ sent[r] = 1 /\ sent'[r] = 0
        /\ \A v \in Worker : ~ Works(v, r)
        /\ \A q \in Request : ~ Sending(q, r)
    BY <1>2, <1>6 DEF OnePatch
  <2>2. status[r] = "APPROVED" /\ r \notin applied \cup failed
    BY <2>1, InFlightIs DEF OnePatch
  <2>3. CASE FetchChunk(w, x)
    <3>1. failed' = failed
      BY <2>3 DEF FetchChunk, history
    <3> QED
      BY <1>2, <1>3, <1>4, <2>1, <2>2, <3>1 DEF OnePatch
  <2>4. CASE FetchFails(w, x)
    <3>1. \A v \in Worker : ~ Works(v, r)'
      BY <2>1, <2>4 DEF FetchFails, Works
    <3>2. ~ InFlight(r)'
      BY <1>3, <2>1, <3>1, InFlightIsNext
    <3> QED
      BY <1>2, <1>3, <2>1, <2>2, <3>1, <3>2 DEF OnePatch
  <2> QED
    BY <1>1, <2>3, <2>4
<1> QED
  BY <1>5, <1>6

(* The task ends: the patch was nowhere else.                              *)
LEMMA PatchEndsOnce ==
  ASSUME PatchInv, NEW w \in Worker, PatchEnds(w), NEW r \in Revision, OnePatch(r)
  PROVE  OnePatch(r)'
<1> USE DEF PatchInv, AnswerInv, TypeOK
<1>1. UNCHANGED <<req, status, sent>> /\ work' = [work EXCEPT ![w] = None] /\ work[w] # None
  BY DEF PatchEnds, WriteChunk, WriteFails, broker
<1>2. \A q \in Request : Sending(q, r)' <=> Sending(q, r)
  BY <1>1 DEF Sending, At
<1>3. ~ Works(w, r)' /\ \A v \in Worker \ {w} : Works(v, r)' <=> Works(v, r)
  BY <1>1 DEF Works
<1>4. CASE ~ Works(w, r)
  <2>1. r \in applied' \cup failed' <=> r \in applied \cup failed
    BY <1>1, <1>4 DEF PatchEnds, WriteChunk, WriteFails, Works
  <2> QED
    BY <1>1, <1>2, <1>3, <1>4, <2>1, PatchFrame
<1>5. CASE Works(w, r)
  <2>1. /\ sent[r] = 0 /\ status[r] = "APPROVED"
        /\ \A v \in Worker \ {w} : ~ Works(v, r)
        /\ \A q \in Request : ~ Sending(q, r)
    BY <1>5, InFlightIs DEF OnePatch
  <2>2. /\ sent'[r] = 0
        /\ \A v \in Worker : ~ Works(v, r)'
        /\ \A q \in Request : ~ Sending(q, r)'
    BY <1>1, <1>2, <1>3, <2>1
  <2>3. ~ InFlight(r)'
    BY <2>2, InFlightIsNext
  <2> QED
    BY <1>1, <2>1, <2>2, <2>3 DEF OnePatch
<1> QED
  BY <1>4, <1>5

LEMMA PatchNext == PatchInv /\ [Next]_vars => PatchInv'
<1> SUFFICES ASSUME PatchInv, [Next]_vars, NEW r \in Revision, r \notin overlap', copies'[r] = 0
             PROVE  OnePatch(r)'
  BY AnswerNext DEF PatchInv, OnePatchEach
<1> USE DEF PatchInv, AnswerInv, TypeOK
<1>1. overlap \subseteq overlap'
  BY DEF Next, Propose, Redeliver, PatchStarts, FetchChunk, FetchFails, Approve, Reject, Begin, Answer,
         ApproveWrite, ApproveSend, RejectWrite, Die, PatchEnds, WriteChunk, WriteFails, Generate, vars, history
<1>2. copies[r] = 0
  <2>1. ASSUME NEW x \in Revision, Redeliver(x) PROVE copies[r] = 0
    BY <2>1 DEF Redeliver
  <2> QED
    BY <2>1 DEF Next, Propose, PatchStarts, FetchChunk, FetchFails, Approve, Reject, Begin, Answer,
         ApproveWrite, ApproveSend, RejectWrite, Die, PatchEnds, WriteChunk, WriteFails, Generate, vars, broker
<1>3. OnePatch(r) /\ r \in Revision \ overlap
  BY <1>1, <1>2 DEF OnePatchEach
<1>4. ASSUME UNCHANGED <<req, sent, work, applied, failed>>,
             status'[r] # "APPROVED" => status[r] # "APPROVED"
      PROVE  OnePatch(r)'
  BY <1>3, <1>4, PatchFrame DEF Sending, Works, At
<1>5. ASSUME NEW x \in Revision, Propose(x) PROVE OnePatch(r)'
  <2>1. status'[r] # "APPROVED" => status[r] # "APPROVED"
    BY <1>5 DEF Propose
  <2> QED
    BY <1>4, <1>5, <2>1 DEF Propose, broker, history
<1>6. ASSUME NEW x \in Revision, Redeliver(x) PROVE OnePatch(r)'
  <2>1. x # r
    BY <1>2, <1>6 DEF Redeliver
  <2>2. sent'[r] = sent[r] /\ UNCHANGED <<req, work, status, applied, failed>>
    BY <1>6, <2>1 DEF Redeliver, history
  <2> QED
    BY <1>3, <2>2, PatchFrame DEF Sending, Works, At
<1>7. ASSUME NEW t \in Team, NEW e \in Endpoint, Generate(t, e) PROVE OnePatch(r)'
  BY <1>4, <1>7 DEF Generate, broker, history
<1>8. CASE UNCHANGED vars
  BY <1>4, <1>8 DEF vars, broker, history
<1> QED
  BY <1>3, <1>5, <1>6, <1>7, <1>8, PatchRequests, PatchBegins, PatchStartsOnce, PatchEndsOnce DEF Next

(* An approval's patch is in one place at a time, and a document that has  *)
(* moved on is not overwritten by a patch that was written, or had failed, *)
(* before (revision_service 33-53, tasks 110-135), for any workers and     *)
(* failures: only a redelivered message or two answers at once do that.    *)
THEOREM PatchedOnce == Spec => []OnePatchEach /\ NotWrittenAgain
<1> DEFINE Stays == \A r \in Revision \ overlap : copies[r] = 0 /\ r \in applied \cup failed =>
             \A t \in Team, e \in Endpoint : doc'[t][e] = r => doc[t][e] = r
<1>1. PatchInv /\ [Next]_vars => [Stays]_vars
  <2> SUFFICES ASSUME PatchInv, Next,
                      NEW r \in Revision \ overlap, copies[r] = 0, r \in applied \cup failed,
                      NEW t \in Team, NEW e \in Endpoint, doc'[t][e] = r
               PROVE  doc[t][e] = r
    OBVIOUS
  <2> USE DEF PatchInv, AnswerInv, TypeOK
  <2>1. CASE UNCHANGED doc
    BY <2>1
  <2>2. ASSUME NEW w \in Worker, WriteChunk(w) PROVE doc[t][e] = r
    <3>1. work[w][1] # r
      BY <2>2, InFlightIs DEF OnePatchEach, OnePatch, WriteChunk, Works
    <3>2. work[w] \in Revision \X Team
      BY <2>2 DEF WriteChunk
    <3>3. doc' = [doc EXCEPT ![work[w][2]] =
                   [doc[work[w][2]] EXCEPT ![target[work[w][1]]] = work[w][1]]]
      BY <2>2 DEF WriteChunk
    <3> QED
      BY <3>1, <3>2, <3>3
  <2>3. ASSUME NEW u \in Team, NEW d \in Endpoint, Generate(u, d) PROVE doc[t][e] = r
    BY <2>3, NoneAssumption DEF Generate
  <2> QED
    BY <2>1, <2>2, <2>3 DEF Next, Propose, Redeliver, PatchStarts, FetchChunk, FetchFails, Approve, Reject,
         Begin, Answer, ApproveWrite, ApproveSend, RejectWrite, Die, PatchEnds, WriteFails
<1>2. PatchInv => OnePatchEach
  BY DEF PatchInv
<1> QED
  BY <1>1, <1>2, PatchInit, PatchNext, PTL DEF Spec, NotWrittenAgain
=============================================================================
