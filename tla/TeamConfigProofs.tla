-------------------------- MODULE TeamConfigProofs ---------------------------
(***************************************************************************)
(* Theorems of TeamConfig, for any documents, merge and encryption that    *)
(* meet the assumptions: its types; that it implements ConfigPromise; that *)
(* a merge overlays documents path by path, so that no partial update      *)
(* wipes anything; that secrets are sealed and come back.                  *)
(***************************************************************************)
EXTENDS TeamConfig, WellFoundedInduction, TLAPS

-----------------------------------------------------------------------------
(* Types.                                                                  *)

LEMMA DecryptType == \A x \in Stored \cup {NoDoc} : Plain(x) \in Doc \cup {NoDoc}
  BY SecretAssumption DEF Stored, Plain

LEMMA CurrentType == TypeOK => Current \in Doc \cup {NoDoc}
  BY DecryptType DEF TypeOK, Current

(* What Encrypt makes of a document is a row that decrypts to it.          *)
LEMMA Sealed ==
  ASSUME NEW d \in Doc
  PROVE  Encrypt(d) \in Stored /\ Encrypt(d) # NoDoc /\ Plain(Encrypt(d)) = d
  BY SecretAssumption DEF Stored, Plain

LEMMA StartType ==
  ASSUME TypeOK, NEW r \in Request, NEW first \in Active, NEW u \in Update \cup {NoDoc},
         Start(r, first, u)
  PROVE  TypeOK'
  <1>1. Current \in Doc \cup {NoDoc}
    BY CurrentType
  <1>2. {Current} \in SUBSET (Doc \cup {NoDoc})
    BY <1>1
  <1> QED
    BY <1>2 DEF TypeOK, Start, Goto, At

LEMMA StoreType ==
  ASSUME TypeOK, NEW r \in Request, NEW d \in Doc, Store(r, d)
  PROVE  TypeOK'
  <1>1. row' \in Stored \cup {NoDoc}
    BY Sealed DEF Store
  <1>2. since' \in [Request -> SUBSET (Doc \cup {NoDoc})]
    <2>1. \A s \in Request : {d} \in SUBSET (Doc \cup {NoDoc}) /\ since[s] \in SUBSET (Doc \cup {NoDoc})
      BY DEF TypeOK
    <2>2. \A s \in Request : since[s] \cup {d} \in SUBSET (Doc \cup {NoDoc})
      BY <2>1
    <2> QED
      BY <2>1, <2>2 DEF Store
  <1>3. pc' \in [Request -> {"new"} \cup Active \cup Ended]
    BY DEF Store, Goto, TypeOK, Active
  <1> QED
    BY <1>1, <1>2, <1>3 DEF TypeOK, Store

LEMMA ReplyType ==
  ASSUME TypeOK, NEW r \in Request, NEW d \in Doc \cup {NoDoc}, NEW s \in Ended, Reply(r, d, s)
  PROVE  TypeOK'
  <1>1. View(d) \in Views
    BY DEF Views
  <1>2. answer' \in [Request -> Views \cup {NoDoc}]
    BY <1>1 DEF Reply, TypeOK
  <1>3. pc' \in [Request -> {"new"} \cup Active \cup Ended]
    BY DEF Reply, Goto, TypeOK
  <1> QED
    BY <1>2, <1>3 DEF TypeOK, Reply

(* A statement that changes only where its request stands.                 *)
LEMMA StepType ==
  ASSUME TypeOK, NEW r \in Request, NEW s \in Active \cup Ended, Goto(r, s),
         UNCHANGED <<row, job, asked, read, answer, since>>
  PROVE  TypeOK'
  BY DEF TypeOK, Goto

(* Whoever is about to update has been asked to, onto what it has read.    *)
Asking ==
  \A r \in Request :
    /\ pc[r] \in Changing \cup {"refresh"} => asked[r] # NoDoc
    /\ pc[r] \in {"get", "job", "config"} => asked[r] = NoDoc
    /\ At(r, "update") => read[r] # NoDoc

LEMMA MergeType ==
  ASSUME TypeOK, Asking, NEW r \in Request, At(r, "update")
  PROVE  Merge(read[r], asked[r]) \in Doc
  <1>1. read[r] \in Doc /\ asked[r] \in Update
    BY DEF TypeOK, Asking, At, Changing
  <1> QED
    BY <1>1, MergeAssumption

TypeInv == TypeOK /\ Asking

LEMMA InitType == Init => TypeInv
  BY DEF Init, TypeInv, TypeOK, Asking, At, Changing

LEMMA RequestType ==
  ASSUME TypeOK, Asking, NEW r \in Request, RequestNext(r)
  PROVE  TypeOK'
  <1>1. CASE \E u \in Update : Upsert(r, u)
    BY <1>1, StartType DEF Upsert, Active, Changing
  <1>2. CASE Fetch(r)
    <2>1. Current \in Doc \cup {NoDoc}
      BY CurrentType
    <2>2. read' \in [Request -> Doc \cup {NoDoc}]
      BY <1>2, <2>1 DEF Fetch, TypeOK
    <2>3. since' \in [Request -> SUBSET (Doc \cup {NoDoc})]
      BY <1>2, <2>1 DEF Fetch, TypeOK
    <2>4. pc' \in [Request -> {"new"} \cup Active \cup Ended]
      BY <1>2 DEF Fetch, Goto, TypeOK, Active, Changing
    <2> QED
      BY <1>2, <2>2, <2>3, <2>4 DEF Fetch, TypeOK
  <1>3. CASE UpdateRow(r)
    BY <1>3, StoreType, MergeType DEF UpdateRow
  <1>4. CASE CreateRow(r)
    <2>1. asked[r] \in Doc
      BY <1>4, UpdateAssumption DEF CreateRow, TypeOK, Asking, At, Changing
    <2>2. CASE Store(r, asked[r])
      BY <2>1, <2>2, StoreType
    <2>3. CASE Goto(r, "conflict") /\ UNCHANGED <<row, job, asked, read, answer, since>>
      BY <2>3, StepType DEF Ended
    <2> QED
      BY <1>4, <2>2, <2>3 DEF CreateRow
  <1>5. CASE Refresh(r) \/ GetConfig(r) \/ ComposeConfig(r)
    BY <1>5, ReplyType, CurrentType DEF Refresh, GetConfig, ComposeConfig, Ended
  <1>6. CASE Get(r) \/ Compose(r)
    BY <1>6, StartType DEF Get, Compose, Active
  <1>7. CASE FindJob(r)
    <2>1. CASE Goto(r, "config") /\ UNCHANGED <<row, job, asked, read, answer, since>>
      BY <2>1, StepType DEF Active
    <2>2. CASE Reply(r, NoDoc, "unknown")
      BY <2>2, ReplyType DEF Ended
    <2> QED
      BY <1>7, <2>1, <2>2 DEF FindJob
  <1>8. CASE Die(r)
    BY <1>8, StepType DEF Die, Ended
  <1> QED
    BY <1>1, <1>2, <1>3, <1>4, <1>5, <1>6, <1>7, <1>8 DEF RequestNext

LEMMA RequestAsking ==
  ASSUME TypeOK, Asking, NEW r \in Request, RequestNext(r)
  PROVE  Asking'
  <1>1. \A u \in Update : u # NoDoc
    BY UpdateAssumption, NoDocAssumption
  <1>2. CASE \E u \in Update : Upsert(r, u)
    BY <1>1, <1>2 DEF Upsert, Start, Asking, Goto, At, TypeOK, Changing
  <1>3. CASE Get(r) \/ Compose(r)
    BY <1>3 DEF Get, Compose, Start, Asking, Goto, At, TypeOK, Changing
  <1>4. CASE Fetch(r)
    <2>1. row # NoDoc => Current # NoDoc
      BY SecretAssumption, NoDocAssumption DEF TypeOK, Stored, Current, Plain
    <2> QED
      BY <1>4, <2>1 DEF Fetch, Asking, Goto, At, TypeOK, Changing
  <1>5. CASE UpdateRow(r) \/ CreateRow(r)
    BY <1>5 DEF UpdateRow, CreateRow, Store, Asking, Goto, At, TypeOK, Changing
  <1>6. CASE Refresh(r) \/ GetConfig(r) \/ FindJob(r) \/ ComposeConfig(r)
    BY <1>6 DEF Refresh, GetConfig, FindJob, ComposeConfig, Reply, Asking, Goto, At, TypeOK, Changing
  <1>7. CASE Die(r)
    BY <1>7 DEF Die, Asking, Goto, At, TypeOK, Changing
  <1> QED
    BY <1>2, <1>3, <1>4, <1>5, <1>6, <1>7 DEF RequestNext

LEMMA NextType == TypeInv /\ [Next]_vars => TypeInv'
  <1> SUFFICES ASSUME TypeOK, Asking, [Next]_vars
               PROVE  TypeOK' /\ Asking'
    BY DEF TypeInv
  <1>1. CASE \E r \in Request : RequestNext(r)
    BY <1>1, RequestType, RequestAsking
  <1>2. CASE DeleteJob
    BY <1>2 DEF DeleteJob, request, TypeOK, Asking, At
  <1>3. CASE UNCHANGED vars
    BY <1>3 DEF vars, request, TypeOK, Asking, At
  <1> QED
    BY <1>1, <1>2, <1>3 DEF Next

LEMMA TypeInvariant == Spec => []TypeInv
  BY InitType, NextType, PTL DEF Spec

(* Every variable keeps its type: what is stored is always the encryption  *)
(* of a document, and what is answered a document over the defaults.       *)
THEOREM TypeCorrect == Spec => []TypeOK
  <1>1. TypeInv => TypeOK
    BY DEF TypeInv
  <1> QED
    BY <1>1, TypeInvariant, PTL

-----------------------------------------------------------------------------
(* The refinement.                                                         *)

(* A request under way has watched the configuration since it began, and   *)
(* works on a configuration it has seen.                                   *)
Watching ==
  \A r \in Request :
    /\ pc[r] \in Active => Current \in since[r]
    /\ At(r, "update") => read[r] \in since[r]
    /\ At(r, "create") => NoDoc \in since[r]

LEMMA InitWatching == Init => Watching
  BY DEF Init, Watching, At, Active, Changing

(* A statement that leaves the row and the histories alone.                *)
LEMMA StepWatching ==
  ASSUME TypeOK, Watching, NEW r \in Request, NEW s \in (Active \ {"update", "create"}) \cup Ended,
         pc[r] \in Active, Goto(r, s), UNCHANGED <<row, read, since>>
  PROVE  Watching'
  <1>1. Current' = Current
    BY DEF Current
  <1> QED
    BY <1>1 DEF Watching, Goto, At, TypeOK, Active, Changing, Ended

LEMMA StoreWatching ==
  ASSUME TypeOK, Watching, NEW r \in Request, NEW d \in Doc, Store(r, d), pc[r] \in Active
  PROVE  Watching'
  <1>1. Current' = d
    BY Sealed DEF Store, Current, Plain
  <1>2. \A s \in Request : pc'[s] = IF s = r THEN "refresh" ELSE pc[s]
    BY DEF Store, Goto, TypeOK
  <1>3. since'[r] = {d}
    BY DEF Store
  <1>4. \A s \in Request \ {r} : pc[s] \in Active => since'[s] = since[s] \cup {d}
    BY DEF Store
  <1>5. read' = read
    BY DEF Store
  <1> QED
    BY <1>1, <1>2, <1>3, <1>4, <1>5 DEF Watching, At, Active, Changing

LEMMA StartWatching ==
  ASSUME TypeOK, Watching, NEW r \in Request, NEW first \in {"fetch", "get", "job"}, NEW u,
         Start(r, first, u)
  PROVE  Watching'
  <1>1. Current' = Current
    BY DEF Start, Current
  <1> QED
    BY <1>1 DEF Start, Watching, Goto, At, TypeOK

LEMMA FetchWatching ==
  ASSUME TypeOK, Watching, NEW r \in Request, Fetch(r)
  PROVE  Watching'
  <1>1. Current' = Current /\ Current \in since[r]
    BY DEF Fetch, Current, Watching, At, Active, Changing
  <1>2. row = NoDoc => Current = NoDoc
    BY DEF Current, Plain
  <1>3. CASE Goto(r, "create") /\ row = NoDoc /\ UNCHANGED since
    BY <1>1, <1>2, <1>3 DEF Fetch, Watching, Goto, At, TypeOK
  <1>4. CASE Goto(r, "refresh") /\ since' = [since EXCEPT ![r] = {Current}]
    BY <1>1, <1>4 DEF Fetch, Watching, Goto, At, TypeOK
  <1>5. CASE Goto(r, "update") /\ UNCHANGED since
    BY <1>1, <1>5 DEF Fetch, Watching, Goto, At, TypeOK
  <1> QED
    BY <1>3, <1>4, <1>5 DEF Fetch

LEMMA RequestWatching ==
  ASSUME TypeOK, Asking, Watching, NEW r \in Request, RequestNext(r)
  PROVE  Watching'
  <1>1. CASE \E u \in Update : Upsert(r, u)
    BY <1>1, StartWatching DEF Upsert
  <1>2. CASE Get(r) \/ Compose(r)
    BY <1>2, StartWatching DEF Get, Compose
  <1>3. CASE Fetch(r)
    BY <1>3, FetchWatching
  <1>4. CASE UpdateRow(r)
    BY <1>4, StoreWatching, MergeType DEF UpdateRow, At, Active, Changing
  <1>5. CASE CreateRow(r)
    <2>1. asked[r] \in Doc /\ pc[r] \in Active
      BY <1>5, UpdateAssumption DEF CreateRow, TypeOK, Asking, At, Changing, Active
    <2>2. CASE Store(r, asked[r])
      BY <2>1, <2>2, StoreWatching
    <2>3. CASE Goto(r, "conflict") /\ UNCHANGED <<row, job, asked, read, answer, since>>
      BY <2>1, <2>3, StepWatching DEF Ended
    <2> QED
      BY <1>5, <2>2, <2>3 DEF CreateRow
  <1>6. CASE Refresh(r) \/ GetConfig(r) \/ ComposeConfig(r)
    BY <1>6, StepWatching DEF Refresh, GetConfig, ComposeConfig, Reply, At, Active, Ended
  <1>7. CASE FindJob(r)
    <2>1. pc[r] \in Active /\ UNCHANGED <<row, read, since>>
      BY <1>7 DEF FindJob, Reply, At, Active
    <2>2. Goto(r, "config") \/ Goto(r, "unknown")
      BY <1>7 DEF FindJob, Reply
    <2> QED
      BY <2>1, <2>2, StepWatching DEF Active, Ended
  <1>8. CASE Die(r)
    BY <1>8, StepWatching DEF Die, Ended
  <1> QED
    BY <1>1, <1>2, <1>3, <1>4, <1>5, <1>6, <1>7, <1>8 DEF RequestNext

LEMMA NextWatching == TypeInv /\ Watching /\ [Next]_vars => Watching'
  <1> SUFFICES ASSUME TypeOK, Asking, Watching, [Next]_vars
               PROVE  Watching'
    BY DEF TypeInv
  <1>1. CASE \E r \in Request : RequestNext(r)
    BY <1>1, RequestWatching
  <1>2. CASE UNCHANGED <<row, request, since>>
    BY <1>2 DEF request, Watching, At, Current
  <1> QED
    BY <1>1, <1>2 DEF Next, DeleteJob, vars

(* What the abstract specification sees of a request.                      *)
Lives == [r \in Request |-> Life(pc[r])]

LEMMA LifeStep ==
  ASSUME TypeOK, NEW r \in Request, NEW s, Goto(r, s)
  PROVE  Lives' = [Lives EXCEPT ![r] = Life(s)]
  BY DEF TypeOK, Goto, Lives

LEMMA LifeOfChanging == \A s \in Changing \cup {"get", "job", "config"} : Life(s) = "pending"
  BY DEF Life, Changing

LEMMA LifeOfEnds ==
  /\ Life("new") = "idle"
  /\ Life("refresh") = "applied"
  /\ Life("conflict") = "refused"
  /\ Life("dead") = "failed"
  /\ Life("answered") = "answered"
  /\ Life("unknown") = "unknown"
  BY DEF Life, Changing

LEMMA LifeOfActive ==
  ASSUME TypeOK, NEW s \in Request
  PROVE  pc[s] \in Active <=> Lives[s] \in {"pending", "applied"}
  <1>1. pc[s] \in {"new"} \cup Active \cup Ended
    BY DEF TypeOK
  <1>2. Lives[s] = Life(pc[s])
    BY DEF Lives
  <1>3. CASE pc[s] \in Active
    BY <1>2, <1>3, LifeOfChanging, LifeOfEnds DEF Active
  <1>4. CASE pc[s] \in {"new"} \cup Ended
    BY <1>2, <1>4, LifeOfEnds DEF Active, Changing, Ended
  <1> QED
    BY <1>1, <1>3, <1>4

(* A step in which a request goes on and nothing else shows.               *)
LEMMA Unseen ==
  ASSUME TypeOK, NEW r \in Request, NEW s \in Changing \cup {"get", "job", "config"},
         pc[r] \in Changing \cup {"get", "job", "config"}, Goto(r, s),
         UNCHANGED <<row, asked, since, answer>>
  PROVE  UNCHANGED Promise!vars
  <1>1. Lives' = Lives
    BY LifeStep, LifeOfChanging DEF Lives
  <1>2. Current' = Current
    BY DEF Current
  <1> QED
    BY <1>1, <1>2 DEF Promise!vars, Lives

LEMMA StartAsks ==
  ASSUME TypeOK, NEW r \in Request, NEW first \in {"fetch", "get", "job"},
         NEW u \in Update \cup {NoDoc}, Start(r, first, u)
  PROVE  Promise!Ask(r, u)
  <1>1. Lives[r] = "idle"
    BY LifeOfEnds DEF Start, At, Lives
  <1>2. Lives' = [Lives EXCEPT ![r] = "pending"]
    BY LifeStep, LifeOfChanging DEF Start, Changing
  <1>3. Current' = Current
    BY DEF Start, Current
  <1> QED
    BY <1>1, <1>2, <1>3 DEF Promise!Ask, Start, Lives

LEMMA StoreApplies ==
  ASSUME TypeOK, NEW r \in Request, NEW d \in Doc, Store(r, d), pc[r] \in Changing,
         asked[r] # NoDoc, \E x \in since[r] : d = Promise!Merged(x, asked[r])
  PROVE  Promise!Apply(r)
  <1>1. Lives[r] = "pending"
    BY LifeOfChanging DEF Lives
  <1>2. Lives' = [Lives EXCEPT ![r] = "applied"]
    BY LifeStep, LifeOfEnds DEF Store
  <1>3. Current' = d
    BY Sealed DEF Store, Current, Plain
  <1>4. since' = [s \in Request |->
                    IF s = r THEN {d}
                    ELSE IF Lives[s] \in {"pending", "applied"} THEN since[s] \cup {d}
                    ELSE since[s]]
    BY LifeOfActive DEF Store
  <1>5. UNCHANGED <<asked, answer>>
    BY DEF Store
  <1> QED
    BY <1>1, <1>2, <1>3, <1>4, <1>5 DEF Promise!Apply, Lives

(* An update without effect is applied when it is found to be one.         *)
LEMMA NothingApplies ==
  ASSUME TypeOK, Asking, Watching, NEW r \in Request, At(r, "fetch"), row # NoDoc,
         NoChange(Current, asked[r]), Goto(r, "refresh"),
         since' = [since EXCEPT ![r] = {Current}], UNCHANGED <<row, asked, answer>>
  PROVE  Promise!Apply(r)
  <1>1. Lives[r] = "pending" /\ asked[r] # NoDoc
    BY LifeOfChanging DEF Lives, At, Changing, Asking
  <1>2. Lives' = [Lives EXCEPT ![r] = "applied"]
    BY LifeStep, LifeOfEnds
  <1>3. Current' = Current
    BY DEF Current
  <1>4. Current # NoDoc
    BY SecretAssumption, NoDocAssumption DEF TypeOK, Stored, Current, Plain
  <1>5. Current \in since[r] /\ Current = Promise!Merged(Current, asked[r])
    BY <1>4 DEF Watching, At, Active, Changing, Promise!Merged, NoChange
  <1>6. \A s \in Request : Lives[s] \in {"pending", "applied"} => since[s] \cup {Current} = since[s]
    BY LifeOfActive DEF Watching
  <1>7. since' = [s \in Request |->
                    IF s = r THEN {Current}
                    ELSE IF Lives[s] \in {"pending", "applied"} THEN since[s] \cup {Current}
                    ELSE since[s]]
    BY <1>6 DEF TypeOK
  <1> QED
    BY <1>1, <1>2, <1>3, <1>5, <1>7 DEF Promise!Apply, Lives

LEMMA ReplyAnswers ==
  ASSUME TypeOK, NEW r \in Request, Reply(r, Current, "answered"), Current \in since[r],
         Lives[r] = IF asked[r] = NoDoc THEN "pending" ELSE "applied"
  PROVE  Promise!Answer(r)
  <1>1. Lives' = [Lives EXCEPT ![r] = "answered"]
    BY LifeStep, LifeOfEnds DEF Reply
  <1>2. Current' = Current
    BY DEF Reply, Current
  <1>3. View(Current) = Promise!View(Current)
    BY DEF View, Promise!View
  <1> QED
    BY <1>1, <1>2, <1>3 DEF Promise!Answer, Reply, Lives

LEMMA CreateKeeps ==
  ASSUME TypeOK, Asking, Watching, NEW r \in Request, CreateRow(r)
  PROVE  Promise!Next
  <1>1. asked[r] # NoDoc /\ asked[r] \in Doc /\ NoDoc \in since[r] /\ pc[r] \in Changing
    BY UpdateAssumption DEF CreateRow, Asking, Watching, At, Changing, TypeOK
  <1>2. CASE row = NoDoc /\ Store(r, asked[r])
    <2>1. asked[r] = Promise!Merged(NoDoc, asked[r])
      BY DEF Promise!Merged
    <2>2. Promise!Apply(r)
      BY <1>1, <1>2, <2>1, StoreApplies
    <2> QED
      BY <2>2 DEF Promise!Next
  <1>3. CASE row # NoDoc /\ Goto(r, "conflict") /\ UNCHANGED <<row, job, asked, read, answer, since>>
    <2>1. Lives[r] = "pending"
      BY <1>1, LifeOfChanging DEF Lives
    <2>2. Lives' = [Lives EXCEPT ![r] = "refused"]
      BY <1>3, LifeStep, LifeOfEnds
    <2>3. Current' = Current /\ Current # NoDoc
      BY <1>3, SecretAssumption, NoDocAssumption DEF TypeOK, Stored, Current, Plain
    <2>4. Promise!Refuse(r)
      BY <1>1, <1>3, <2>1, <2>2, <2>3 DEF Promise!Refuse, Lives
    <2> QED
      BY <2>4 DEF Promise!Next
  <1> QED
    BY <1>2, <1>3 DEF CreateRow

LEMMA FetchKeeps ==
  ASSUME TypeOK, Asking, Watching, NEW r \in Request, Fetch(r)
  PROVE  [Promise!Next]_(Promise!vars)
  <1>1. At(r, "fetch") /\ UNCHANGED <<row, asked, answer>>
    BY DEF Fetch
  <1>2. CASE (Goto(r, "create") \/ Goto(r, "update")) /\ UNCHANGED since
    BY <1>1, <1>2, Unseen DEF At, Changing
  <1>3. CASE /\ row # NoDoc /\ NoChange(Current, asked[r])
             /\ Goto(r, "refresh") /\ since' = [since EXCEPT ![r] = {Current}]
    <2>1. Promise!Apply(r)
      BY <1>1, <1>3, NothingApplies
    <2> QED
      BY <2>1 DEF Promise!Next
  <1> QED
    BY <1>2, <1>3 DEF Fetch

LEMMA RequestKeeps ==
  ASSUME TypeOK, Asking, Watching, NEW r \in Request, RequestNext(r)
  PROVE  [Promise!Next]_(Promise!vars)
  <1>1. CASE \E u \in Update : Upsert(r, u)
    <2>1. \E u \in Update : Promise!Ask(r, u)
      BY <1>1, StartAsks DEF Upsert
    <2> QED
      BY <2>1 DEF Promise!Next
  <1>2. CASE Get(r) \/ Compose(r)
    <2>1. Promise!Ask(r, NoDoc)
      BY <1>2, StartAsks DEF Get, Compose
    <2> QED
      BY <2>1 DEF Promise!Next
  <1>3. CASE Fetch(r)
    BY <1>3, FetchKeeps
  <1>4. CASE UpdateRow(r)
    <2>1. /\ pc[r] \in Changing /\ asked[r] # NoDoc /\ Merge(read[r], asked[r]) \in Doc
          /\ read[r] \in since[r] /\ read[r] # NoDoc
      BY <1>4, MergeType DEF UpdateRow, At, Changing, Asking, Watching
    <2>2. Merge(read[r], asked[r]) = Promise!Merged(read[r], asked[r])
      BY <2>1 DEF Promise!Merged
    <2>3. Promise!Apply(r)
      BY <1>4, <2>1, <2>2, StoreApplies DEF UpdateRow
    <2> QED
      BY <2>3 DEF Promise!Next
  <1>5. CASE CreateRow(r)
    BY <1>5, CreateKeeps
  <1>6. CASE Refresh(r) \/ GetConfig(r) \/ ComposeConfig(r)
    <2>1. Reply(r, Current, "answered") /\ Current \in since[r]
      BY <1>6 DEF Refresh, GetConfig, ComposeConfig, At, Watching, Active
    <2>2. Lives[r] = IF asked[r] = NoDoc THEN "pending" ELSE "applied"
      BY <1>6, LifeOfChanging, LifeOfEnds DEF Refresh, GetConfig, ComposeConfig, At, Lives, Asking
    <2>3. Promise!Answer(r)
      BY <2>1, <2>2, ReplyAnswers
    <2> QED
      BY <2>3 DEF Promise!Next
  <1>7. CASE FindJob(r)
    <2>1. Lives[r] = "pending" /\ asked[r] = NoDoc /\ pc[r] = "job"
      BY <1>7, LifeOfChanging DEF FindJob, At, Lives, Asking
    <2>2. CASE Goto(r, "config") /\ UNCHANGED <<row, job, asked, read, answer, since>>
      BY <2>1, <2>2, Unseen
    <2>3. CASE Reply(r, NoDoc, "unknown")
      <3>1. Lives' = [Lives EXCEPT ![r] = "unknown"]
        BY <2>3, LifeStep, LifeOfEnds DEF Reply
      <3>2. Current' = Current /\ answer' = [answer EXCEPT ![r] = DefaultConfig]
        BY <2>3 DEF Reply, Current, View
      <3>3. Promise!Unknown(r)
        BY <2>1, <2>3, <3>1, <3>2 DEF Promise!Unknown, Reply, Lives
      <3> QED
        BY <3>3 DEF Promise!Next
    <2> QED
      BY <1>7, <2>2, <2>3 DEF FindJob
  <1>8. CASE Die(r)
    <2>1. Lives[r] \in {"pending", "applied"}
      BY <1>8, LifeOfActive DEF Die
    <2>2. Lives' = [Lives EXCEPT ![r] = "failed"]
      BY <1>8, LifeStep, LifeOfEnds DEF Die
    <2>3. Current' = Current
      BY <1>8 DEF Die, Current
    <2>4. Promise!Fail(r)
      BY <1>8, <2>1, <2>2, <2>3 DEF Promise!Fail, Die, Lives
    <2> QED
      BY <2>4 DEF Promise!Next
  <1> QED
    BY <1>1, <1>2, <1>3, <1>4, <1>5, <1>6, <1>7, <1>8 DEF RequestNext

LEMMA StepKeeps == TypeInv /\ Watching /\ [Next]_vars => [Promise!Next]_(Promise!vars)
  <1> SUFFICES ASSUME TypeOK, Asking, Watching, [Next]_vars
               PROVE  [Promise!Next]_(Promise!vars)
    BY DEF TypeInv
  <1>1. CASE \E r \in Request : RequestNext(r)
    BY <1>1, RequestKeeps
  <1>2. CASE UNCHANGED <<row, request, since>>
    BY <1>2 DEF request, Current, Promise!vars
  <1> QED
    BY <1>1, <1>2 DEF Next, DeleteJob, vars

LEMMA InitKeeps == Init => Promise!Init
  BY LifeOfEnds DEF Init, Promise!Init, Current, Plain

(* TeamConfig implements ConfigPromise: whatever overlaps, an update is    *)
(* merged onto a configuration that was current since it began, and no     *)
(* reader is answered anything else than a configuration over the defaults.*)
THEOREM ImplementsPromise == Spec => KeepsPromise
  <1>1. Init => Promise!Init /\ Watching
    BY InitKeeps, InitWatching
  <1> QED
    BY <1>1, TypeInvariant, NextWatching, StepKeeps, PTL DEF Spec, KeepsPromise, Promise!Spec
-----------------------------------------------------------------------------
(* The merge, path by path. A document is walked from key to key, so what  *)
(* holds along a walk is shown by induction on its length.                 *)

Before == OpToRel(<, Nat)

LEMMA BeforeWellFounded == IsWellFoundedOn(Before, Nat)
  BY NatLessThanWellFounded, Zenon DEF Before

(* Induction, for sets of naturals.                                        *)
LEMMA SetInduction ==
  ASSUME NEW S, 0 \in S, \A n \in Nat : n \in S => n + 1 \in S
  PROVE  \A n \in Nat : n \in S
  <1> SUFFICES ASSUME Nat \ S # {} PROVE FALSE
    OBVIOUS
  <1>1. Nat \ S \subseteq Nat
    OBVIOUS
  <1>2. PICK x \in Nat \ S : \A y \in Nat \ S : ~ (<<y, x>> \in Before)
    BY <1>1, BeforeWellFounded, WFMin
  <1>3. x # 0 /\ x - 1 \in Nat /\ x - 1 < x
    BY <1>2
  <1>4. <<x - 1, x>> \in Before
    BY <1>2, <1>3 DEF Before, OpToRel
  <1>5. x - 1 \in S
    BY <1>2, <1>3, <1>4
  <1>6. x - 1 + 1 = x
    BY <1>2
  <1> QED
    BY <1>2, <1>3, <1>5, <1>6

(* The walk from d along p, as far as its step n.                          *)
IsWalk(w, d, p, n) == w = [i \in 0..n |-> IF i = 0 THEN d ELSE Child(w[i - 1], p[i])]

LEMMA WalkExists ==
  ASSUME NEW d, NEW p
  PROVE  \A n \in Nat : \E w : IsWalk(w, d, p, n)
  <1> DEFINE S == {n \in Nat : \E w : IsWalk(w, d, p, n)}
  <1>1. 0 \in S
    <2>1. IsWalk([i \in 0..0 |-> d], d, p, 0)
      BY DEF IsWalk
    <2> QED
      BY <2>1
  <1>2. ASSUME NEW n \in Nat, n \in S
        PROVE  n + 1 \in S
    <2>1. PICK w : IsWalk(w, d, p, n)
      BY <1>2
    <2> DEFINE v == [i \in 0..(n + 1) |-> IF i = n + 1 THEN Child(w[n], p[n + 1]) ELSE w[i]]
    <2>2. w = [i \in 0..n |-> IF i = 0 THEN d ELSE Child(w[i - 1], p[i])]
      BY <2>1 DEF IsWalk
    <2>3. \A i \in 0..n : w[i] = IF i = 0 THEN d ELSE Child(w[i - 1], p[i])
      BY <2>2
    <2>4. \A i \in 0..(n + 1) : v[i] = IF i = 0 THEN d ELSE Child(v[i - 1], p[i])
      <3> TAKE i \in 0..(n + 1)
      <3>1. CASE i = n + 1
        BY <3>1
      <3>2. CASE i \in 0..n
        BY <2>3, <3>2
      <3> QED
        BY <3>1, <3>2
    <2>5. IsWalk(v, d, p, n + 1)
      BY <2>4 DEF IsWalk
    <2> QED
      BY <2>5
  <1> QED
    <2>1. \A n \in Nat : n \in S
      BY <1>1, <1>2, SetInduction
    <2> QED
      BY <2>1

(* Each step of a walk goes to the child under the next key.               *)
LEMMA WalkSteps ==
  ASSUME NEW d, NEW p, Len(p) \in Nat
  PROVE  /\ Walk(d, p)[0] = d
         /\ \A i \in 0..Len(p) : i < Len(p) => Walk(d, p)[i + 1] = Child(Walk(d, p)[i], p[i + 1])
  <1>1. Walk(d, p) = CHOOSE w : IsWalk(w, d, p, Len(p))
    BY DEF Walk, IsWalk
  <1>2. IsWalk(Walk(d, p), d, p, Len(p))
    BY <1>1, WalkExists
  <1> DEFINE w == Walk(d, p)
  <1>3. w = [i \in 0..Len(p) |-> IF i = 0 THEN d ELSE Child(w[i - 1], p[i])]
    BY <1>2 DEF IsWalk
  <1> HIDE DEF w
  <1>4. \A i \in 0..Len(p) : w[i] = IF i = 0 THEN d ELSE Child(w[i - 1], p[i])
    BY <1>3
  <1>5. w[0] = d
    BY <1>4
  <1>6. \A i \in 0..Len(p) : i < Len(p) => w[i + 1] = Child(w[i], p[i + 1])
    <2> TAKE i \in 0..Len(p)
    <2> HAVE i < Len(p)
    <2>1. i + 1 \in 0..Len(p) /\ i + 1 # 0 /\ (i + 1) - 1 = i
      OBVIOUS
    <2> QED
      BY <1>4, <2>1
  <1> QED
    BY <1>5, <1>6 DEF w

(* What one call of the merge finds under a key.                           *)
LEMMA ChildOfMerge ==
  ASSUME NEW d1 \in Object, NEW d2 \in Object, NEW k
  PROVE  Child(Merge(d1, d2), k) =
           IF k \notin Keys(d2) THEN Child(d1, k)
           ELSE IF BothObjects(d1, d2, k) THEN Merge(d1.dict[k], d2.dict[k])
           ELSE Child(d2, k)
  <1>1. Merge(d1, d2) = MergeKeys(Merge, d1, d2) /\ IsDict(d1) /\ IsDict(d2)
    BY MergesKeyByKey, ObjectAssumption
  <1>2. Keys(Merge(d1, d2)) = Keys(d1) \cup Keys(d2) /\ IsDict(Merge(d1, d2))
    BY <1>1 DEF MergeKeys, Dict, Keys, IsDict
  <1>3. \A i \in Keys(d1) \cup Keys(d2) :
          Merge(d1, d2).dict[i] =
            IF i \notin Keys(d2) THEN d1.dict[i]
            ELSE IF BothObjects(d1, d2, i) THEN Merge(d1.dict[i], d2.dict[i])
            ELSE d2.dict[i]
    BY <1>1 DEF MergeKeys, Dict
  <1> QED
    BY <1>1, <1>2, <1>3 DEF Child

LEMMA MergeIsObject ==
  ASSUME NEW d1 \in Object, NEW d2 \in Object
  PROVE  IsDict(Merge(d1, d2))
  <1>1. Merge(d1, d2) = MergeKeys(Merge, d1, d2)
    BY MergesKeyByKey
  <1> QED
    BY <1>1 DEF MergeKeys, Dict, IsDict

LEMMA AbsentIsNoObject == ~ IsDict(Absent)
  BY DEF Absent, IsDict

LEMMA ChildOfObject ==
  ASSUME NEW d \in Object, NEW k \in Keys(d)
  PROVE  /\ Child(d, k) = d.dict[k] /\ Child(d, k) # Absent
         /\ IsDict(Child(d, k)) => Child(d, k) \in Object
  BY ObjectAssumption DEF Child

(* Where the three walks along p - of d1, d2 and their merge - are after i *)
(* keys: in two objects and their merge, in a part that only d2 has or     *)
(* that it replaces, in a part that only d1 has, or out of the merge.      *)
Merging(d1, d2, p, i) ==
  /\ Walk(d1, p)[i] \in Object /\ Walk(d2, p)[i] \in Object
  /\ Walk(Merge(d1, d2), p)[i] = Merge(Walk(d1, p)[i], Walk(d2, p)[i])
InSecond(d1, d2, p, i) ==
  /\ Walk(Merge(d1, d2), p)[i] = Walk(d2, p)[i] /\ Walk(d2, p)[i] # Absent
  /\ IsDict(Walk(d2, p)[i]) => Walk(d2, p)[i] \in Object /\ ~ IsDict(Walk(d1, p)[i])
  /\ i > 0
InFirst(d1, d2, p, i) ==
  /\ Walk(Merge(d1, d2), p)[i] = Walk(d1, p)[i] /\ Walk(d2, p)[i] = Absent
Outside(d1, d2, p, i) ==
  /\ Walk(Merge(d1, d2), p)[i] = Absent /\ Walk(d2, p)[i] = Absent
  /\ \/ Walk(d1, p)[i] = Absent
     \/ \E j \in 1..(i - 1) : ~ IsDict(Walk(d2, p)[j]) /\ Walk(d2, p)[j] # Absent

(* Nothing of d2 on the way hides what d1 has.                             *)
Clear(d2, p, i) == \A j \in 1..i : IsDict(Walk(d2, p)[j]) \/ Walk(d2, p)[j] = Absent

Where(d1, d2, p, i) ==
  \/ Merging(d1, d2, p, i) /\ Clear(d2, p, i)
  \/ InSecond(d1, d2, p, i)
  \/ InFirst(d1, d2, p, i) /\ Clear(d2, p, i)
  \/ Outside(d1, d2, p, i)

LEMMA WhereStep ==
  ASSUME NEW d1 \in Object, NEW d2 \in Object, NEW p, Len(p) \in Nat,
         NEW i \in 0..Len(p), i < Len(p), Where(d1, d2, p, i)
  PROVE  Where(d1, d2, p, i + 1)
  <1> DEFINE w1 == Walk(d1, p)
             w2 == Walk(d2, p)
             w == Walk(Merge(d1, d2), p)
             k == p[i + 1]
  <1>1. w1[i + 1] = Child(w1[i], k) /\ w2[i + 1] = Child(w2[i], k) /\ w[i + 1] = Child(w[i], k)
    BY WalkSteps
  <1>2. i \in Nat /\ i + 1 > 0 /\ \A j \in 1..(i + 1) : j \in 1..i \/ j = i + 1
    OBVIOUS
  <1>3. Child(Absent, k) = Absent
    BY AbsentIsNoObject DEF Child
  <1>4. CASE Merging(d1, d2, p, i) /\ Clear(d2, p, i)
    <2>1. /\ w1[i] \in Object /\ w2[i] \in Object /\ IsDict(w1[i]) /\ IsDict(w2[i])
          /\ w[i] = Merge(w1[i], w2[i])
      BY <1>4, ObjectAssumption DEF Merging
    <2>2. CASE k \notin Keys(w2[i])
      <3>1. w2[i + 1] = Absent /\ w[i + 1] = w1[i + 1]
        BY <1>1, <2>1, <2>2, ChildOfMerge DEF Child
      <3>2. Clear(d2, p, i + 1)
        BY <1>2, <1>4, <3>1 DEF Clear
      <3> QED
        BY <3>1, <3>2 DEF Where, InFirst
    <2>3. CASE k \in Keys(w2[i]) /\ BothObjects(w1[i], w2[i], k)
      <3>1. /\ w1[i + 1] = w1[i].dict[k] /\ w2[i + 1] = w2[i].dict[k]
            /\ w1[i + 1] \in Object /\ w2[i + 1] \in Object /\ IsDict(w2[i + 1])
        BY <1>1, <2>1, <2>3, ChildOfObject DEF BothObjects
      <3>2. w[i + 1] = Merge(w1[i + 1], w2[i + 1])
        BY <1>1, <2>1, <2>3, <3>1, ChildOfMerge
      <3>3. Clear(d2, p, i + 1)
        BY <1>2, <1>4, <3>1 DEF Clear
      <3> QED
        BY <3>1, <3>2, <3>3 DEF Where, Merging
    <2>4. CASE k \in Keys(w2[i]) /\ ~ BothObjects(w1[i], w2[i], k)
      <3>1. /\ w2[i + 1] = w2[i].dict[k] /\ w2[i + 1] # Absent
            /\ IsDict(w2[i + 1]) => w2[i + 1] \in Object
        BY <1>1, <2>1, <2>4, ChildOfObject
      <3>2. w[i + 1] = w2[i + 1]
        BY <1>1, <2>1, <2>4, ChildOfMerge
      <3>3. IsDict(w2[i + 1]) => ~ IsDict(w1[i + 1])
        BY <1>1, <2>1, <2>4, <3>1, AbsentIsNoObject DEF BothObjects, Child
      <3> QED
        BY <1>2, <3>1, <3>2, <3>3 DEF Where, InSecond
    <2> QED
      BY <2>2, <2>3, <2>4
  <1>5. CASE InSecond(d1, d2, p, i)
    <2>1. w[i + 1] = w2[i + 1]
      BY <1>1, <1>5 DEF InSecond
    <2>2. CASE IsDict(w2[i])
      <3>1. w2[i] \in Object /\ w1[i + 1] = Absent
        BY <1>1, <1>5, <2>2 DEF InSecond, Child
      <3>2. CASE k \in Keys(w2[i])
        BY <1>1, <1>2, <2>1, <3>1, <3>2, ChildOfObject, AbsentIsNoObject DEF Where, InSecond
      <3>3. CASE k \notin Keys(w2[i])
        BY <1>1, <2>1, <3>1, <3>3 DEF Where, Outside, Child
      <3> QED
        BY <3>2, <3>3
    <2>3. CASE ~ IsDict(w2[i])
      <3>1. w2[i + 1] = Absent
        BY <1>1, <2>3 DEF Child
      <3>2. i \in 1..((i + 1) - 1) /\ w2[i] # Absent
        BY <1>2, <1>5 DEF InSecond
      <3> QED
        BY <2>1, <2>3, <3>1, <3>2 DEF Where, Outside
    <2> QED
      BY <2>2, <2>3
  <1>6. CASE InFirst(d1, d2, p, i) /\ Clear(d2, p, i)
    <2>1. w[i + 1] = w1[i + 1] /\ w2[i + 1] = Absent
      BY <1>1, <1>3, <1>6 DEF InFirst
    <2>2. Clear(d2, p, i + 1)
      BY <1>2, <1>6, <2>1 DEF Clear
    <2> QED
      BY <2>1, <2>2 DEF Where, InFirst
  <1>7. CASE Outside(d1, d2, p, i)
    <2>1. w[i + 1] = Absent /\ w2[i + 1] = Absent
      BY <1>1, <1>3, <1>7 DEF Outside
    <2>2. w1[i] = Absent => w1[i + 1] = Absent
      BY <1>1, <1>3
    <2>3. \A j \in 1..(i - 1) : j \in 1..((i + 1) - 1)
      BY <1>2
    <2> QED
      BY <1>7, <2>1, <2>2, <2>3 DEF Where, Outside
  <1> QED
    BY <1>4, <1>5, <1>6, <1>7 DEF Where

LEMMA WhereAlong ==
  ASSUME NEW d1 \in Object, NEW d2 \in Object, NEW p, Len(p) \in Nat
  PROVE  Where(d1, d2, p, Len(p))
  <1> DEFINE S == {i \in Nat : i <= Len(p) => Where(d1, d2, p, i)}
  <1>1. 0 \in S
    <2>1. Walk(d1, p)[0] = d1 /\ Walk(d2, p)[0] = d2 /\ Walk(Merge(d1, d2), p)[0] = Merge(d1, d2)
      BY WalkSteps
    <2>2. Clear(d2, p, 0)
      BY DEF Clear
    <2>3. Where(d1, d2, p, 0)
      BY <2>1, <2>2 DEF Where, Merging
    <2> QED
      BY <2>3
  <1>2. ASSUME NEW i \in Nat, i \in S
        PROVE  i + 1 \in S
    <2> SUFFICES ASSUME i + 1 <= Len(p) PROVE Where(d1, d2, p, i + 1)
      OBVIOUS
    <2>1. i \in 0..Len(p) /\ i < Len(p) /\ i <= Len(p)
      OBVIOUS
    <2> QED
      BY <1>2, <2>1, WhereStep
  <1>3. Len(p) \in S
    <2> HIDE DEF S
    <2> QED
      BY <1>1, <1>2, SetInduction
  <1> QED
    BY <1>3

(* Whatever the documents are and however deeply they are nested, the      *)
(* merge overlays the second on the first at every path: what _deep_merge, *)
(* a recursion over values, does to the document as a whole.               *)
THEOREM MergeOverlays ==
  ASSUME NEW d1 \in Object, NEW d2 \in Object
  PROVE  IsOverlay(Merge(d1, d2), d1, d2, Path)
  <1> SUFFICES ASSUME NEW p \in Path
               PROVE  Value(Merge(d1, d2), p) = Overlaid(d1, d2, p)
    BY DEF IsOverlay
  <1> DEFINE n == Len(p)
  <1>1. n \in Nat /\ Where(d1, d2, p, n)
    BY PathAssumption, WhereAlong
  <1>2. Dict(<<>>) # Absent /\ ~ IsDict(Absent)
    BY AbsentIsNoObject DEF Dict, IsDict
  <1>3. CASE Merging(d1, d2, p, n)
    <2>1. IsDict(Walk(d2, p)[n]) /\ IsDict(Walk(Merge(d1, d2), p)[n])
      BY <1>3, ObjectAssumption, MergeIsObject DEF Merging
    <2>2. Value(d2, p) = Dict(<<>>) /\ Value(Merge(d1, d2), p) = Dict(<<>>)
      BY <2>1 DEF Value
    <2> QED
      BY <1>2, <2>2 DEF Overlaid
  <1>4. CASE InSecond(d1, d2, p, n)
    <2>1. Value(Merge(d1, d2), p) = Value(d2, p)
      BY <1>4 DEF InSecond, Value
    <2>2. Value(d2, p) # Absent
      BY <1>2, <1>4 DEF InSecond, Value
    <2> QED
      BY <2>1, <2>2 DEF Overlaid
  <1>5. CASE InFirst(d1, d2, p, n) /\ Clear(d2, p, n)
    <2>1. ~ Hides(d2, p)
      BY <1>1, <1>5 DEF Clear, Hides
    <2> QED
      BY <1>2, <1>5, <2>1 DEF InFirst, Value, Overlaid
  <1>6. CASE Outside(d1, d2, p, n)
    <2>1. Walk(d1, p)[n] = Absent \/ Hides(d2, p)
      BY <1>6 DEF Outside, Hides
    <2> QED
      BY <1>2, <1>6, <2>1 DEF Outside, Value, Overlaid
  <1> QED
    BY <1>1, <1>3, <1>4, <1>5, <1>6 DEF Where

-----------------------------------------------------------------------------
(* Updates.                                                                *)

(* A request that becomes applied or answered does so by that step of the  *)
(* abstract specification.                                                 *)
LEMMA AppliedByApply ==
  ASSUME TypeOK, Asking, Watching, [Next]_vars, NEW r \in Request,
         pc[r] \in Changing, pc'[r] = "refresh"
  PROVE  \E d \in since[r] : Current' = Promise!Merged(d, asked[r])
  <1>1. Lives[r] = "pending" /\ Lives'[r] = "applied"
    BY LifeOfChanging, LifeOfEnds DEF Lives
  <1>2. [Promise!Next]_(Promise!vars)
    BY StepKeeps DEF TypeInv
  <1>3. Lives' # Lives
    BY <1>1
  <1>4. ASSUME NEW s \in Request,
               \/ \E u \in Update \cup {NoDoc} : Promise!Ask(s, u)
               \/ Promise!Answer(s) \/ Promise!Unknown(s) \/ Promise!Refuse(s) \/ Promise!Fail(s)
        PROVE  Lives'[r] # "applied"
    BY <1>1, <1>4 DEF Promise!Ask, Promise!Answer, Promise!Unknown, Promise!Refuse, Promise!Fail, Lives
  <1>5. PICK s \in Request : Promise!Apply(s)
    <2>1. Promise!Next
      BY <1>2, <1>3 DEF Promise!vars, Lives
    <2> QED
      BY <1>4, <1>1, <2>1 DEF Promise!Next
  <1>6. s = r
    BY <1>1, <1>5 DEF Promise!Apply, Lives
  <1> QED
    BY <1>5, <1>6 DEF Promise!Apply

LEMMA AnsweredByAnswer ==
  ASSUME TypeOK, Asking, Watching, [Next]_vars, NEW r \in Request,
         pc[r] \in Active, pc'[r] = "answered"
  PROVE  \E d \in since[r] : answer'[r] = View(d)
  <1>1. Lives[r] \in {"pending", "applied"} /\ Lives'[r] = "answered"
    BY LifeOfActive, LifeOfEnds DEF Lives
  <1>2. [Promise!Next]_(Promise!vars)
    BY StepKeeps DEF TypeInv
  <1>3. Lives' # Lives
    BY <1>1
  <1>4. ASSUME NEW s \in Request,
               \/ \E u \in Update \cup {NoDoc} : Promise!Ask(s, u)
               \/ Promise!Apply(s) \/ Promise!Unknown(s) \/ Promise!Refuse(s) \/ Promise!Fail(s)
        PROVE  Lives'[r] # "answered"
    BY <1>1, <1>4 DEF Promise!Ask, Promise!Apply, Promise!Unknown, Promise!Refuse, Promise!Fail, Lives
  <1>5. PICK s \in Request : Promise!Answer(s)
    <2>1. Promise!Next
      BY <1>2, <1>3 DEF Promise!vars, Lives
    <2> QED
      BY <1>4, <1>1, <2>1 DEF Promise!Next
  <1>6. s = r
    BY <1>1, <1>5 DEF Promise!Answer, Lives
  <1>7. \A d : Promise!View(d) = View(d)
    BY DEF Promise!View, View
  <1> QED
    BY <1>5, <1>6, <1>7 DEF Promise!Answer, TypeOK

LEMMA StepOverlays ==
  ASSUME TypeOK, Asking, Watching, [Next]_vars, NEW r \in Request
  PROVE  /\ pc[r] \in Changing /\ pc'[r] = "refresh" =>
              \E d \in since[r] :
                IF d = NoDoc THEN Current' = asked[r]
                ELSE IsOverlay(Current', d, asked[r], Path)
         /\ pc[r] \in Active /\ pc'[r] = "answered" =>
              \E d \in since[r] :
                IF d = NoDoc THEN answer'[r] = DefaultConfig
                ELSE IsOverlay(answer'[r], DefaultConfig, d, Path)
  <1>1. \A d \in since[r] : d # NoDoc => d \in Object
    BY DocAssumption DEF TypeOK
  <1>2. ASSUME pc[r] \in Changing, pc'[r] = "refresh"
        PROVE  \E d \in since[r] :
                 IF d = NoDoc THEN Current' = asked[r]
                 ELSE IsOverlay(Current', d, asked[r], Path)
    <2>1. asked[r] \in Object
      BY <1>2, UpdateAssumption, DocAssumption DEF TypeOK, Asking
    <2>2. PICK d \in since[r] : Current' = Promise!Merged(d, asked[r])
      BY <1>2, AppliedByApply
    <2>3. d # NoDoc => IsOverlay(Current', d, asked[r], Path)
      BY <1>1, <2>1, <2>2, MergeOverlays DEF Promise!Merged
    <2> QED
      BY <2>2, <2>3 DEF Promise!Merged
  <1>3. ASSUME pc[r] \in Active, pc'[r] = "answered"
        PROVE  \E d \in since[r] :
                 IF d = NoDoc THEN answer'[r] = DefaultConfig
                 ELSE IsOverlay(answer'[r], DefaultConfig, d, Path)
    <2>1. DefaultConfig \in Object
      BY DocAssumption
    <2>2. PICK d \in since[r] : answer'[r] = View(d)
      BY <1>3, AnsweredByAnswer
    <2>3. d # NoDoc => IsOverlay(answer'[r], DefaultConfig, d, Path)
      BY <1>1, <2>1, <2>2, MergeOverlays DEF View
    <2> QED
      BY <2>2, <2>3 DEF View
  <1> QED
    BY <1>2, <1>3

(* Partial updates wipe nothing, however many overlap: an applied update   *)
(* left the configuration with its own values at its paths and, elsewhere, *)
(* those of a configuration current since it was asked for; an answer has  *)
(* the team's values over the defaults (upsert_team_config).               *)
THEOREM NothingIsWiped == Spec => UpdatesOverlay
  <1>1. TypeInv /\ Watching /\ [Next]_vars =>
          [\A r \in Request :
             /\ pc[r] \in Changing /\ pc'[r] = "refresh" =>
                  \E d \in since[r] :
                    IF d = NoDoc THEN Current' = asked[r]
                    ELSE IsOverlay(Current', d, asked[r], Path)
             /\ pc[r] \in Active /\ pc'[r] = "answered" =>
                  \E d \in since[r] :
                    IF d = NoDoc THEN answer'[r] = DefaultConfig
                    ELSE IsOverlay(answer'[r], DefaultConfig, d, Path)]_vars
    BY StepOverlays DEF TypeInv
  <1> QED
    BY <1>1, InitWatching, TypeInvariant, NextWatching, PTL DEF Spec, UpdatesOverlay

-----------------------------------------------------------------------------
(* Secrets.                                                                *)

(* Encryption leaves no secret of a document in plain text, and decryption *)
(* gives the document back: for any object [dict |-> f] that holds no      *)
(* ciphertext of its own (_encrypt_payload, _decrypt_payload).             *)
THEOREM SecretsSealed ==
  ASSUME NEW K, NEW V, NEW f \in [K -> V],
         \A v \in V : ~ IsCipher(v) /\ (IsStr(v) => v = [str |-> v.str])
  PROVE  /\ DecryptPayload(EncryptPayload(Dict(f))) = Dict(f)
         /\ \A k \in K \cap SensitiveKeys :
              LET v == EncryptPayload(Dict(f)).dict[k] IN IsStr(v) => v.str = ""
  <1> DEFINE g == [k \in K |-> IF k \in SensitiveKeys THEN EncryptValue(f[k]) ELSE f[k]]
  <1>1. EncryptPayload(Dict(f)) = Dict(g)
    BY DEF EncryptPayload, OnSensitive, Dict, Keys
  <1>2. \A s : IsCipher([cipher |-> s]) /\ ~ IsStr([cipher |-> s])
    BY DEF IsCipher, IsStr
  <1>3. \A v \in V : DecryptValue(EncryptValue(v)) = v
    <2> TAKE v \in V
    <2>1. CASE IsStr(v) /\ v.str # ""
      <3>1. EncryptValue(v) = [cipher |-> v.str]
        BY <2>1 DEF EncryptValue
      <3>2. DecryptValue([cipher |-> v.str]) = [str |-> v.str]
        BY <1>2 DEF DecryptValue
      <3> QED
        BY <2>1, <3>1, <3>2
    <2>2. CASE ~ (IsStr(v) /\ v.str # "")
      BY <2>2 DEF EncryptValue, DecryptValue
    <2> QED
      BY <2>1, <2>2
  <1>4. DecryptPayload(Dict(g)) = Dict([k \in K |-> IF k \in SensitiveKeys THEN DecryptValue(g[k]) ELSE g[k]])
    BY DEF DecryptPayload, OnSensitive, Dict, Keys
  <1>5. [k \in K |-> IF k \in SensitiveKeys THEN DecryptValue(g[k]) ELSE g[k]] = f
    BY <1>3
  <1>6. \A k \in K \cap SensitiveKeys : IsStr(g[k]) => g[k].str = ""
    BY <1>2 DEF EncryptValue
  <1>7. Dict(g).dict = g
    BY DEF Dict
  <1>8. DecryptPayload(EncryptPayload(Dict(f))) = Dict(f)
    BY <1>1, <1>4, <1>5
  <1> HIDE DEF g
  <1> QED
    BY <1>1, <1>6, <1>7, <1>8
=============================================================================
