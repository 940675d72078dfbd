---------------------------- MODULE TeamsProofs -----------------------------
(***************************************************************************)
(* Proofs about Teams, for any users, any number of requests at a time and *)
(* any bounds.                                                             *)
(***************************************************************************)
EXTENDS Teams, FiniteSetTheorems, TLAPS

(* A request that answers an invitation names one, and an invitation that  *)
(* exists names a user: the steps after respond.read depend on it.         *)
Responding == {"respond.read", "respond.write", "respond.add"}

ReqOK ==
  /\ req \in [Request -> RequestState]
  /\ \A r \in Request : req[r].step \in Responding => req[r].inv \in Invitation

InviteesKnown == \A i \in Invitation : status[i] # "absent" => invitee[i] \in User

AnswersExisting == \A r \in Request : req[r].step \in Responding => status[req[r].inv] # "absent"

TypeInv == TypeOK /\ ReqOK /\ InviteesKnown /\ AnswersExisting

LEMMA IdleTyped == Idle \in RequestState
  BY FounderAssumption, MaxTokenAssumption DEF Idle, RequestState, Step, AllRoles

LEMMA TypeInvInit == Init => TypeInv
<1> SUFFICES ASSUME Init PROVE TypeInv
  OBVIOUS
<1>1. req \in [Request -> RequestState]
  BY IdleTyped DEF Init
<1>2. TypeOK
  BY <1>1, FounderAssumption, MaxTokenAssumption DEF Init, TypeOK, AllRoles
<1>3. ReqOK /\ InviteesKnown /\ AnswersExisting
  BY <1>1 DEF Init, ReqOK, InviteesKnown, AnswersExisting, Idle, Responding
<1> QED
  BY <1>2, <1>3 DEF TypeInv

(* The ways a step changes its request.                                    *)
LEMMA ReqSet ==
  ASSUME ReqOK, NEW r \in Request, NEW q \in RequestState, req' = [req EXCEPT ![r] = q],
         q.step \in Responding => q.inv \in Invitation
  PROVE  ReqOK'
  BY DEF ReqOK

LEMMA ReqEnd ==
  ASSUME ReqOK, NEW r \in Request, End(r)
  PROVE  ReqOK'
  BY IdleTyped, ReqSet DEF End, Idle, Responding

LEMMA ReqGoto ==
  ASSUME ReqOK, NEW r \in Request, NEW s \in Step, Goto(r, s),
         s \in Responding => req[r].step \in Responding
  PROVE  ReqOK'
<1>1. req[r] \in RequestState
  BY DEF ReqOK
<1>2. [req[r] EXCEPT !.step = s] \in RequestState
  BY <1>1 DEF RequestState
<1>3. req' = [req EXCEPT ![r] = [req[r] EXCEPT !.step = s]]
  BY DEF Goto
<1> QED
  BY <1>1, <1>2, <1>3, ReqSet DEF ReqOK, RequestState

LEMMA ReqStart ==
  ASSUME TypeInv, NEW r \in Request, Start(r)
  PROVE  ReqOK'
<1> USE IdleTyped DEF TypeInv, Begin, RequestState, Idle, Step, Responding
<1>1. ASSUME NEW u \in User, NEW ro \in Role, Join(r, u, ro)
      PROVE  ReqOK'
  <2>1. [Idle EXCEPT !.step = "join.member", !.user = u, !.role = ro, !.tok = token] \in RequestState
    BY RoleAssumption DEF TypeOK
  <2> QED
    BY <2>1, <1>1, ReqSet DEF Join
<1>2. ASSUME NEW u \in User, Ask(r, u)
      PROVE  ReqOK'
  <2>1. [Idle EXCEPT !.step = "ask.member", !.user = u] \in RequestState
    BY RoleAssumption DEF TypeOK
  <2> QED
    BY <2>1, <1>2, ReqSet DEF Ask
<1>3. ASSUME NEW i \in Invitation, NEW b \in BOOLEAN, NEW a \in User, Respond(r, a, i, b)
      PROVE  ReqOK'
  <2>1. [Idle EXCEPT !.step = "respond.read", !.inv = i, !.flag = b] \in RequestState
    BY RoleAssumption DEF TypeOK
  <2> QED
    BY <2>1, <1>3, ReqSet DEF Respond
<1>4. ASSUME NEW a \in User, NEW u \in User, NEW ro \in Role, SetRole(r, a, u, ro)
      PROVE  ReqOK'
  <2>1. [Idle EXCEPT !.step = "role.read", !.user = u, !.role = ro, !.row = row[u],
              !.flag = (a = u)] \in RequestState
    BY RoleAssumption DEF TypeOK
  <2> QED
    BY <2>1, <1>4, ReqSet DEF SetRole
<1>5. ASSUME NEW a \in User, NEW u \in User, Remove(r, a, u)
      PROVE  ReqOK'
  <2>1. [Idle EXCEPT !.step = "remove.read", !.user = u] \in RequestState
    BY RoleAssumption DEF TypeOK
  <2> QED
    BY <2>1, <1>5, ReqSet DEF Remove
<1>6. ASSUME NEW a \in User, Rotate(r, a)
      PROVE  ReqOK'
  <2>1. [Idle EXCEPT !.step = "rotate.write"] \in RequestState
    BY RoleAssumption DEF TypeOK
  <2> QED
    BY <2>1, <1>6, ReqSet DEF Rotate
<1>7. ASSUME NEW a \in User, NEW b \in BOOLEAN, SetPublic(r, a, b)
      PROVE  ReqOK'
  <2>1. [Idle EXCEPT !.step = "public.read", !.flag = b] \in RequestState
    BY RoleAssumption DEF TypeOK
  <2> QED
    BY <2>1, <1>7, ReqSet DEF SetPublic
<1> QED
  BY <1>1, <1>2, <1>3, <1>4, <1>5, <1>6, <1>7 DEF Start

LEMMA TypeInvStart ==
  ASSUME TypeInv, NEW r \in Request, Start(r)
  PROVE  TypeInv'
<1>1. UNCHANGED <<team, invitations, history>>
  BY DEF Start, Join, Ask, Respond, SetRole, Remove, Rotate, SetPublic
<1>2. ReqOK'
  BY ReqStart
<1>3. AnswersExisting'
  <2>1. req'[r].step \in Responding => status[req'[r].inv] # "absent"
    <3>1. CASE \E a \in User, i \in Invitation, accept \in BOOLEAN : Respond(r, a, i, accept)
      BY <3>1 DEF Respond, Begin, Idle, TypeInv, ReqOK
    <3>2. ASSUME ~ \E a \in User, i \in Invitation, accept \in BOOLEAN : Respond(r, a, i, accept)
          PROVE  req'[r].step \notin Responding
      BY <3>2 DEF Start, Join, Ask, SetRole, Remove, Rotate, SetPublic, Begin, Idle, TypeInv,
         ReqOK, Responding
    <3> QED
      BY <3>1, <3>2
  <2>2. \A q \in Request : q # r => req'[q] = req[q]
    BY DEF Start, Join, Ask, Respond, SetRole, Remove, Rotate, SetPublic, Begin, TypeInv, ReqOK
  <2> QED
    BY <1>1, <2>1, <2>2 DEF AnswersExisting, TypeInv, invitations
<1> QED
  BY <1>1, <1>2, <1>3 DEF TypeInv, TypeOK, ReqOK, InviteesKnown, team, invitations, history

(* What every continuing step does to its own request.                     *)
LEMMA ReqContinue ==
  ASSUME TypeInv, NEW r \in Request, Continue(r) \/ Die(r)
  PROVE  ReqOK'
<1> USE DEF TypeInv
<1>1. CASE End(r)
  BY <1>1, ReqEnd
<1>2. CASE \E s \in {"join.rotate", "join.add", "ask.pending", "ask.create", "public.write"} : Goto(r, s)
  BY <1>2, ReqGoto DEF Step, Responding
<1>3. CASE RespondRead(r) /\ ~ End(r)
  <2> DEFINE q == [req[r] EXCEPT !.step = "respond.write", !.user = invitee[req[r].inv]]
  <2>1. req[r] \in RequestState /\ req[r].inv \in Invitation
    BY <1>3 DEF RespondRead, At, ReqOK, Responding
  <2>2. invitee[req[r].inv] \in User
    BY <1>3, <2>1 DEF RespondRead, InviteesKnown
  <2>3. q \in RequestState /\ q.inv \in Invitation
    BY <2>1, <2>2 DEF RequestState, Step
  <2>4. req' = [req EXCEPT ![r] = q]
    BY <1>3 DEF RespondRead
  <2> QED
    BY <2>3, <2>4, ReqSet
<1>4. CASE RespondWrite(r) /\ ~ End(r)
  BY <1>4, ReqGoto DEF RespondWrite, At, Step, Responding
<1>5. CASE RoleRead(r) /\ ~ End(r)
  <2>1. PICK b \in BOOLEAN :
          req' = [req EXCEPT ![r] = [req[r] EXCEPT !.step = "role.write",
                                                   !.row = row[req[r].user], !.flag = b]]
    BY <1>5 DEF RoleRead
  <2> DEFINE q == [req[r] EXCEPT !.step = "role.write", !.row = row[req[r].user], !.flag = b]
  <2>2. req[r] \in RequestState
    BY DEF ReqOK
  <2>3. q \in RequestState /\ q.step = "role.write"
    BY <2>2 DEF RequestState, Step, TypeOK
  <2> QED
    BY <2>1, <2>3, ReqSet DEF Responding
<1>6. CASE RemoveRead(r) /\ ~ End(r)
  <2> DEFINE q == [req[r] EXCEPT !.step = "remove.write", !.row = row[req[r].user]]
  <2>1. req' = [req EXCEPT ![r] = q]
    BY <1>6 DEF RemoveRead
  <2>2. req[r] \in RequestState
    BY DEF ReqOK
  <2>3. q \in RequestState /\ q.step = "remove.write"
    BY <2>2 DEF RequestState, Step, TypeOK
  <2> QED
    BY <2>1, <2>3, ReqSet DEF Responding
<1> QED
  BY <1>1, <1>2, <1>3, <1>4, <1>5, <1>6 DEF Continue, Die, JoinMember, JoinRotate, JoinAdd,
     AskMember, AskPending, AskCreate, RespondRead, RespondWrite, RespondAdd, RoleRead,
     RoleWrite, RemoveRead, RemoveWrite, RotateWrite, PublicRead, PublicWrite

(* An answer once begun stays about the same invitation, and no invitation *)
(* is ever deleted.                                                        *)
LEMMA AnswersContinue ==
  ASSUME TypeInv, NEW r \in Request, Continue(r) \/ Die(r)
  PROVE  AnswersExisting'
<1> USE DEF Continue, Die, JoinMember, JoinRotate, JoinAdd, AskMember, AskPending, AskCreate,
       RespondRead, RespondWrite, RespondAdd, RoleRead, RoleWrite, RemoveRead, RemoveWrite,
       RotateWrite, PublicRead, PublicWrite
<1>1. \A i \in Invitation : status[i] # "absent" => status'[i] # "absent"
  BY DEF TypeInv, TypeOK, invitations
<1>2. \A q \in Request : q # r => req'[q] = req[q]
  BY DEF TypeInv, ReqOK, End, Goto
<1>3. /\ req[r] \in RequestState
      /\ req'[r].step \in Responding => req[r].step \in Responding /\ req'[r].inv = req[r].inv
  BY DEF TypeInv, ReqOK, RequestState, End, Goto, At, Idle, Responding
<1> QED
  BY <1>1, <1>2, <1>3 DEF AnswersExisting, TypeInv, ReqOK

LEMMA TypeInvContinue ==
  ASSUME TypeInv, NEW r \in Request, Continue(r) \/ Die(r)
  PROVE  TypeInv'
<1>1. ReqOK' /\ AnswersExisting'
  BY ReqContinue, AnswersContinue
<1>2. /\ req[r] \in RequestState
      /\ req[r].step \in Responding => req[r].inv \in Invitation /\ status[req[r].inv] # "absent"
  BY DEF TypeInv, ReqOK, AnswersExisting
<1> USE <1>1, <1>2 DEF TypeInv, TypeOK, ReqOK, InviteesKnown, RequestState, Responding, At,
                      team, invitations, history
<1>3. CASE JoinMember(r) \/ AskMember(r) \/ AskPending(r) \/ RespondRead(r) \/ RoleRead(r)
           \/ RemoveRead(r) \/ PublicRead(r)
  BY <1>3 DEF JoinMember, AskMember, AskPending, RespondRead, RoleRead, RemoveRead, PublicRead
<1>4. CASE JoinRotate(r) \/ RotateWrite(r) \/ PublicWrite(r)
  <2>1. token' \in 0..MaxToken
    BY <1>4, MaxTokenAssumption DEF JoinRotate, RotateWrite, PublicWrite
  <2>2. public' \in BOOLEAN
    BY <1>4 DEF JoinRotate, RotateWrite, PublicWrite
  <2> QED
    BY <1>4, <2>1, <2>2 DEF JoinRotate, RotateWrite, PublicWrite
<1>5. CASE JoinAdd(r)
  <2>1. req[r].user \in User /\ req[r].role \in AllRoles /\ req[r].tok \in 0..MaxToken
    OBVIOUS
  <2>2. member' \in [User -> AllRoles \cup {None}]
    BY <1>5, <2>1 DEF JoinAdd
  <2>3. uses' \in [0..MaxToken -> Nat]
    BY <1>5, <2>1 DEF JoinAdd
  <2> QED
    BY <1>5, <2>2, <2>3 DEF JoinAdd
<1>6. CASE AskCreate(r)
  BY <1>6 DEF AskCreate
<1>7. CASE RespondWrite(r)
  <2>1. req[r].inv \in Invitation /\ status[req[r].inv] # "absent"
    BY <1>7 DEF RespondWrite
  <2>2. PICK s \in Resolved : status' = [status EXCEPT ![req[r].inv] = s]
    BY <1>7 DEF RespondWrite, Resolved
  <2>3. status' \in [Invitation -> {"absent", "PENDING"} \cup Resolved]
    BY <2>1, <2>2
  <2>4. InviteesKnown'
    BY <1>7, <2>1, <2>2 DEF RespondWrite
  <2> QED
    BY <1>7, <2>3, <2>4 DEF RespondWrite
<1>8. CASE RespondAdd(r)
  BY <1>8 DEF RespondAdd, AllRoles
<1>9. CASE RoleWrite(r)
  BY <1>9 DEF RoleWrite
<1>10. CASE RemoveWrite(r)
  <2>1. req[r].user \in User
    OBVIOUS
  <2>2. member' \in [User -> AllRoles \cup {None}]
    BY <1>10, <2>1 DEF RemoveWrite
  <2>3. row' \in [User -> Nat]
    <3> DEFINE u == req[r].user
    <3>1. row' = [row EXCEPT ![u] = row[u] + 1] \/ row' = row
      BY <1>10 DEF RemoveWrite
    <3>2. row[u] \in Nat /\ row[u] + 1 \in Nat
      BY <2>1
    <3> HIDE DEF u
    <3> QED
      BY <3>1, <3>2
  <2> QED
    BY <1>10, <2>2, <2>3 DEF RemoveWrite
<1>11. CASE Die(r)
  BY <1>11 DEF Die
<1> QED
  BY <1>3, <1>4, <1>5, <1>6, <1>7, <1>8, <1>9, <1>10, <1>11 DEF Continue

LEMMA TypeInvStep == TypeInv /\ [Next]_vars => TypeInv'
<1>1. TypeInv /\ UNCHANGED vars => TypeInv'
  BY DEF TypeInv, TypeOK, ReqOK, InviteesKnown, AnswersExisting, vars, team, invitations, history
<1> QED
  BY <1>1, TypeInvStart, TypeInvContinue DEF Next

LEMMA TypeInvAlways == Spec => []TypeInv
  BY TypeInvInit, TypeInvStep, PTL DEF Spec

(* Every variable keeps its type; in particular a request only ever        *)
(* resolves an invitation that exists, and adds a registered user.         *)
THEOREM TypeCorrect == Spec => []TypeOK
<1>1. TypeInv => TypeOK
  BY DEF TypeInv
<1> QED
  BY <1>1, TypeInvAlways, PTL

-----------------------------------------------------------------------------
(* An ACCEPTED invitation is honoured, broken, or on its way.              *)

LEMMA HonouredStep == TypeInv /\ AcceptedIsHonoured /\ [Next]_vars => AcceptedIsHonoured'
<1> SUFFICES ASSUME TypeInv, AcceptedIsHonoured, [Next]_vars,
                    NEW i \in Invitation, status'[i] = "ACCEPTED"
             PROVE  \/ i \in (honoured \cup broken)'
                    \/ \E r \in Request : At(r, "respond.add")' /\ req'[r].inv = i
  BY DEF AcceptedIsHonoured
<1> USE DEF TypeInv, TypeOK, AcceptedIsHonoured, At
<1>1. CASE UNCHANGED vars
  BY <1>1 DEF vars, invitations, history
<1>2. ASSUME NEW r \in Request, RespondWrite(r)
      PROVE  \/ i \in (honoured \cup broken)'
             \/ \E q \in Request : At(q, "respond.add")' /\ req'[q].inv = i
  <2>1. req[r] \in RequestState /\ req[r].inv \in Invitation
    BY <1>2 DEF ReqOK, RespondWrite, Responding
  <2>2. \A q \in Request : At(q, "respond.add") => At(q, "respond.add")' /\ req'[q] = req[q]
    BY <1>2 DEF RespondWrite, Goto, End
  <2>3. honoured' = honoured /\ broken' = broken
    BY <1>2 DEF RespondWrite, history
  <2>4. CASE req[r].inv # i
    BY <1>2, <2>1, <2>2, <2>3, <2>4 DEF RespondWrite
  <2>5. CASE req[r].inv = i
    <3>1. req[r].flag
      BY <1>2, <2>1, <2>5 DEF RespondWrite
    <3>2. At(r, "respond.add")' /\ req'[r].inv = i
      BY <1>2, <2>1, <2>5, <3>1 DEF RespondWrite, Goto, RequestState
    <3> QED
      BY <3>2
  <2> QED
    BY <2>4, <2>5
<1>3. ASSUME NEW r \in Request, RespondAdd(r) \/ Die(r)
      PROVE  \/ i \in (honoured \cup broken)'
             \/ \E q \in Request : At(q, "respond.add")' /\ req'[q].inv = i
  <2>1. status' = status
    BY <1>3 DEF RespondAdd, Die, invitations
  <2>2. honoured \cup broken \subseteq (honoured \cup broken)'
    BY <1>3 DEF RespondAdd, Die
  <2>3. At(r, "respond.add") => req[r].inv \in (honoured \cup broken)'
    BY <1>3 DEF RespondAdd, Die
  <2>4. \A q \in Request : q # r => req'[q] = req[q]
    BY <1>3 DEF RespondAdd, Die, End
  <2> QED
    BY <2>1, <2>2, <2>3, <2>4
<1>4. ASSUME NEW r \in Request, Start(r) \/ Continue(r), ~ RespondWrite(r), ~ RespondAdd(r)
      PROVE  \/ i \in (honoured \cup broken)'
             \/ \E q \in Request : At(q, "respond.add")' /\ req'[q].inv = i
  <2>1. status[i] = "ACCEPTED"
    BY <1>4 DEF Start, Join, Ask, Respond, SetRole, Remove, Rotate, SetPublic,
       Continue, JoinMember, JoinRotate, JoinAdd, AskMember, AskPending, AskCreate, RespondRead,
       RoleRead, RoleWrite, RemoveRead, RemoveWrite, RotateWrite, PublicRead, PublicWrite, invitations
  <2>2. honoured' = honoured /\ broken' = broken
    BY <1>4 DEF Start, Join, Ask, Respond, SetRole, Remove, Rotate, SetPublic,
       Continue, JoinMember, JoinRotate, JoinAdd, AskMember, AskPending, AskCreate, RespondRead,
       RoleRead, RoleWrite, RemoveRead, RemoveWrite, RotateWrite, PublicRead, PublicWrite, history
  <2>3. ~ At(r, "respond.add")
    BY <1>4 DEF Start, Join, Ask, Respond, SetRole, Remove, Rotate, SetPublic, Begin,
       Continue, JoinMember, JoinRotate, JoinAdd, AskMember, AskPending, AskCreate, RespondRead,
       RoleRead, RoleWrite, RemoveRead, RemoveWrite, RotateWrite, PublicRead, PublicWrite
  <2>4. \A q \in Request : q # r => req'[q] = req[q]
    BY <1>4 DEF Start, Join, Ask, Respond, SetRole, Remove, Rotate, SetPublic, Begin,
       Continue, JoinMember, JoinRotate, JoinAdd, AskMember, AskPending, AskCreate, RespondRead,
       RoleRead, RoleWrite, RemoveRead, RemoveWrite, RotateWrite, PublicRead, PublicWrite, Goto, End
  <2> QED
    BY <2>1, <2>2, <2>3, <2>4
<1> QED
  BY <1>1, <1>2, <1>3, <1>4 DEF Next

(* Accepting an invitation takes two commits, and the second may find the  *)
(* invitee a member, or the first overwritten by another answer; still no  *)
(* interleaving of requests leaves an ACCEPTED invitation whose invitee    *)
(* was never given a row, unless the request died between the commits.     *)
THEOREM AcceptedHonoured == Spec => []AcceptedIsHonoured
<1>1. Init => AcceptedIsHonoured
  BY DEF Init, AcceptedIsHonoured
<1> QED
  BY <1>1, HonouredStep, TypeInvAlways, PTL DEF Spec

(* A row of team_members appears only in the adding step of a join or of   *)
(* an accepted invitation: a role update that read a row since removed     *)
(* cannot bring it back.                                                   *)
THEOREM RemovedStays == Spec => RemovedStaysRemoved
<1>1. TypeInv /\ [Next]_vars =>
        [\A u \in User : member[u] = None /\ member'[u] # None =>
           \E r \in Request : req[r].user = u /\ req[r].step \in {"join.add", "respond.add"}]_vars
  <2> SUFFICES ASSUME TypeInv, Next, NEW u \in User, member[u] = None, member'[u] # None
               PROVE  \E r \in Request :
                        req[r].user = u /\ req[r].step \in {"join.add", "respond.add"}
    OBVIOUS
  <2> USE DEF TypeInv, TypeOK
  <2>1. CASE UNCHANGED member
    BY <2>1
  <2>2. ASSUME NEW r \in Request, JoinAdd(r) \/ RespondAdd(r)
        PROVE  req[r].user = u /\ req[r].step \in {"join.add", "respond.add"}
    BY <2>2 DEF JoinAdd, RespondAdd, At
  <2>3. ASSUME NEW r \in Request PROVE ~ RoleWrite(r) /\ ~ RemoveWrite(r)
    BY DEF RoleWrite, RemoveWrite
  <2> QED
    BY <2>1, <2>2, <2>3 DEF Next, team, Start, Join, Ask, Respond, SetRole, Remove, Rotate,
       SetPublic, Continue, JoinMember, JoinRotate, AskMember, AskPending, AskCreate,
       RespondRead, RespondWrite, RoleRead, RemoveRead, RotateWrite, PublicRead, PublicWrite, Die
<1> QED
  BY <1>1, TypeInvAlways, PTL DEF Spec, RemovedStaysRemoved
-----------------------------------------------------------------------------
(* One request at a time keeps the rules of TeamPromise: what it has read  *)
(* still holds when it writes.                                             *)
One(r) == \A q \in Request : q = r

Somebody(roles) == \E a \in User : member[a] \in roles

Ready(r) ==
  LET q == req[r]
  IN /\ q.step \in {"join.member", "join.rotate", "join.add", "role.read", "role.write"} => q.role \in Role
     /\ q.step \in {"join.member", "join.rotate"} => q.tok = token
     /\ q.step \in {"join.rotate", "join.add", "ask.pending", "ask.create"} => member[q.user] = None
     /\ q.step = "join.add" => q.tok + 1 = token /\ uses[q.tok] = 0
     /\ q.step \in {"ask.member", "ask.pending", "ask.create"} => public
     /\ q.step = "ask.create" => \A i \in Invitation : ~ (status[i] = "PENDING" /\ invitee[i] = q.user)
     /\ q.step \in {"respond.read", "respond.write", "public.read", "public.write"} => Somebody(Maintains)
     /\ q.step = "respond.write" => status[q.inv] = "PENDING" /\ invitee[q.inv] = q.user
     /\ q.step = "respond.add" =>
          status[q.inv] = "ACCEPTED" /\ q.inv \notin honoured /\ invitee[q.inv] = q.user
     /\ q.step \in {"role.read", "role.write", "remove.read", "remove.write", "rotate.write"} =>
          Somebody({"ADMIN"})
     /\ q.step = "role.write" => member[q.user] # None
     /\ q.step = "remove.write" => member[q.user] \notin {None, "ADMIN"}

(* A token that admitted somebody is not the team's any more: no request   *)
(* that comes later can join with it.                                      *)
SpentLinkIsDead == \A t \in 0..MaxToken : uses[t] > 0 => t < token
HonouredAccepted == \A i \in honoured : status[i] = "ACCEPTED"

SerialInv == SpentLinkIsDead /\ HonouredAccepted /\ \A r \in Request : Ready(r)

Used == {t \in 0..MaxToken : uses[t] > 0}
PromiseStep == [Promise!Next]_(Promise!vars)

LEMMA InitSerial == Init => SerialInv /\ Promise!Init
<1> SUFFICES ASSUME Init PROVE SerialInv /\ Promise!Init
  OBVIOUS
<1>1. \A t \in 0..MaxToken : ~ uses[t] > 0
  <2>1. uses = [t \in 0..MaxToken |-> 0]
    BY Zenon DEF Init
  <2> QED
    BY <2>1
<1>2. SerialInv
  BY <1>1 DEF Init, SerialInv, SpentLinkIsDead, HonouredAccepted, Ready, Idle
<1> QED
  BY <1>1, <1>2 DEF Init, Promise!Init, None

(* The request of a step, when it is the only one.                         *)
LEMMA OnlyRequest ==
  ASSUME NEW r \in Request, One(r), Ready(r)'
  PROVE  \A q \in Request : Ready(q)'
  BY DEF One

LEMMA Quiet ==
  ASSUME UNCHANGED <<team, invitations, uses, honoured>>
  PROVE  PromiseStep
  BY DEF PromiseStep, team, invitations, Promise!vars, Promise!people, Promise!link, Promise!asked

LEMMA Kept ==
  ASSUME SerialInv, UNCHANGED <<team, invitations, uses, honoured>>
  PROVE  SpentLinkIsDead' /\ HonouredAccepted'
  BY DEF SerialInv, SpentLinkIsDead, HonouredAccepted, team, invitations

LEMMA EndReady ==
  ASSUME TypeInv, NEW r \in Request, End(r)
  PROVE  Ready(r)'
  BY DEF End, Ready, Idle, TypeInv, TypeOK

LEMMA GotoReq ==
  ASSUME TypeInv, NEW r \in Request, NEW s, Goto(r, s)
  PROVE  /\ req'[r].step = s /\ req'[r].user = req[r].user /\ req'[r].role = req[r].role
         /\ req'[r].inv = req[r].inv /\ req'[r].tok = req[r].tok /\ req'[r].flag = req[r].flag
<1>1. req[r] \in RequestState /\ req' = [req EXCEPT ![r] = [req[r] EXCEPT !.step = s]]
  BY DEF Goto, TypeInv, TypeOK
<1>2. req'[r] = [req[r] EXCEPT !.step = s]
  BY <1>1 DEF TypeInv, TypeOK
<1> QED
  BY <1>1, <1>2 DEF RequestState

LEMMA StartSerial ==
  ASSUME TypeInv, SerialInv, NEW r \in Request, One(r), Start(r)
  PROVE  SerialInv' /\ PromiseStep
<1>1. UNCHANGED <<team, invitations, history>>
  BY DEF Start, Join, Ask, Respond, SetRole, Remove, Rotate, SetPublic
<1>2. Ready(r)'
  <2> USE <1>1 DEF Ready, Begin, Idle, TypeInv, TypeOK, Somebody, team
  <2>1. ASSUME NEW u \in User, NEW ro \in Role, Join(r, u, ro) PROVE Ready(r)'
    BY <2>1 DEF Join
  <2>2. ASSUME NEW u \in User, Ask(r, u) PROVE Ready(r)'
    BY <2>2 DEF Ask
  <2>3. ASSUME NEW a \in User, NEW i \in Invitation, NEW b \in BOOLEAN, Respond(r, a, i, b) PROVE Ready(r)'
    BY <2>3 DEF Respond
  <2>4. ASSUME NEW a \in User, NEW u \in User, NEW ro \in Role, SetRole(r, a, u, ro) PROVE Ready(r)'
    BY <2>4 DEF SetRole
  <2>5. ASSUME NEW a \in User, NEW u \in User, Remove(r, a, u) PROVE Ready(r)'
    BY <2>5 DEF Remove
  <2>6. ASSUME NEW a \in User, Rotate(r, a) PROVE Ready(r)'
    BY <2>6 DEF Rotate
  <2>7. ASSUME NEW a \in User, NEW b \in BOOLEAN, SetPublic(r, a, b) PROVE Ready(r)'
    BY <2>7 DEF SetPublic
  <2> QED
    BY <2>1, <2>2, <2>3, <2>4, <2>5, <2>6, <2>7 DEF Start
<1> QED
  BY <1>1, <1>2, OnlyRequest, Kept, Quiet DEF SerialInv, history

(* Steps that only read, or die.                                           *)
LEMMA ReadSerial ==
  ASSUME TypeInv, SerialInv, NEW r \in Request, One(r),
         \/ JoinMember(r) \/ AskMember(r) \/ AskPending(r) \/ RespondRead(r)
         \/ RoleRead(r) \/ RemoveRead(r) \/ PublicRead(r) \/ Die(r)
  PROVE  SerialInv' /\ PromiseStep
<1>1. UNCHANGED <<team, invitations, uses, honoured>>
  BY DEF JoinMember, AskMember, AskPending, RespondRead, RoleRead, RemoveRead, PublicRead, Die, history
<1>2. Ready(r)'
  <2> USE DEF SerialInv
  <2>1. CASE End(r)
    BY <2>1, EndReady
  <2>2. CASE JoinMember(r) /\ ~ End(r)
    <3>1. Goto(r, "join.rotate") /\ At(r, "join.member") /\ member[req[r].user] = None
      BY <2>2 DEF JoinMember
    <3> QED
      BY <1>1, <3>1, GotoReq DEF Ready, At, team
  <2>3. CASE AskMember(r) /\ ~ End(r)
    <3>1. Goto(r, "ask.pending") /\ At(r, "ask.member") /\ member[req[r].user] = None
      BY <2>3 DEF AskMember
    <3> QED
      BY <1>1, <3>1, GotoReq DEF Ready, At, team
  <2>4. CASE AskPending(r) /\ ~ End(r)
    <3>1. /\ Goto(r, "ask.create") /\ At(r, "ask.pending")
          /\ \A i \in Invitation : ~ (status[i] = "PENDING" /\ invitee[i] = req[r].user)
      BY <2>4 DEF AskPending
    <3> QED
      BY <1>1, <3>1, GotoReq DEF Ready, At, team, invitations
  <2>5. CASE RespondRead(r) /\ ~ End(r)
    <3>1. At(r, "respond.read") /\ status[req[r].inv] = "PENDING"
      BY <2>5 DEF RespondRead
    <3>2. req'[r].step = "respond.write" /\ req'[r].inv = req[r].inv /\ req'[r].user = invitee[req[r].inv]
      BY <2>5 DEF RespondRead, TypeInv, TypeOK, RequestState
    <3> QED
      BY <1>1, <3>1, <3>2 DEF Ready, At, team, invitations, Somebody
  <2>6. CASE RoleRead(r) /\ ~ End(r)
    <3>1. At(r, "role.read") /\ member[req[r].user] # None
      BY <2>6 DEF RoleRead
    <3>2. req'[r].step = "role.write" /\ req'[r].user = req[r].user /\ req'[r].role = req[r].role
      BY <2>6 DEF RoleRead, TypeInv, TypeOK, RequestState
    <3> QED
      BY <1>1, <3>1, <3>2 DEF Ready, At, team, Somebody
  <2>7. CASE RemoveRead(r) /\ ~ End(r)
    <3>1. At(r, "remove.read") /\ member[req[r].user] \notin {None, "ADMIN"}
      BY <2>7 DEF RemoveRead
    <3>2. req'[r].step = "remove.write" /\ req'[r].user = req[r].user
      BY <2>7 DEF RemoveRead, TypeInv, TypeOK, RequestState
    <3> QED
      BY <1>1, <3>1, <3>2 DEF Ready, At, team, Somebody
  <2>8. CASE PublicRead(r) /\ ~ End(r)
    <3>1. Goto(r, "public.write") /\ At(r, "public.read")
      BY <2>8 DEF PublicRead
    <3> QED
      BY <1>1, <3>1, GotoReq DEF Ready, At, team, Somebody
  <2> QED
    BY <2>1, <2>2, <2>3, <2>4, <2>5, <2>6, <2>7, <2>8 DEF Die
<1> QED
  BY <1>1, <1>2, OnlyRequest, Kept, Quiet DEF SerialInv

LEMMA LinkSerial ==
  ASSUME TypeInv, SerialInv, NEW r \in Request, One(r), JoinRotate(r) \/ RotateWrite(r) \/ JoinAdd(r)
  PROVE  SerialInv' /\ PromiseStep
<1> USE DEF SerialInv
<1>1. token \in Nat /\ \A t \in 0..MaxToken : uses[t] \in Nat
  BY MaxTokenAssumption DEF TypeInv, TypeOK
<1>2. CASE JoinRotate(r) \/ RotateWrite(r)
  <2>1. /\ token' = token + 1 /\ UNCHANGED <<member, row, public, invitee, status, uses, honoured>>
    BY <1>2 DEF JoinRotate, RotateWrite, invitations, history
  <2>2. SpentLinkIsDead' /\ HonouredAccepted'
    BY <1>1, <2>1 DEF SpentLinkIsDead, HonouredAccepted
  <2>3. Ready(r)'
    <3>1. CASE RotateWrite(r)
      BY <3>1, EndReady DEF RotateWrite
    <3>2. CASE JoinRotate(r)
      <4>1. Goto(r, "join.add") /\ At(r, "join.rotate") /\ Ready(r)
        BY <3>2 DEF JoinRotate
      <4>2. req[r].tok = token /\ member[req[r].user] = None /\ req[r].role \in Role
        BY <4>1 DEF Ready, At
      <4>3. ~ uses[token] > 0 /\ uses[token] \in Nat
        BY <1>1 DEF SpentLinkIsDead, TypeInv, TypeOK
      <4>4. uses[token] = 0
        BY <4>3
      <4>5. uses'[req'[r].tok] = 0 /\ req'[r].tok + 1 = token'
        BY <2>1, <4>1, <4>2, <4>4, GotoReq
      <4> QED
        BY <2>1, <4>1, <4>2, <4>5, GotoReq DEF Ready
    <3> QED
      BY <1>2, <3>1, <3>2
  <2>4. (\E a \in User : member[a] = "ADMIN") \/ (\E u \in User : member[u] = None)
    BY <1>2 DEF JoinRotate, RotateWrite, Ready, At, Somebody, TypeInv, TypeOK, RequestState
  <2>5. Promise!Rotate
    BY <2>1, <2>4 DEF Promise!Rotate, Promise!Admin, Promise!Outsider, Promise!people, Promise!asked, None
  <2> QED
    BY <2>2, <2>3, <2>5, OnlyRequest DEF PromiseStep, Promise!Next
<1>3. CASE JoinAdd(r)
  <2> DEFINE u == req[r].user
             t == req[r].tok
  <2>1. /\ u \in User /\ t \in 0..MaxToken /\ member[u] = None /\ req[r].role \in Role
        /\ t + 1 = token /\ uses[t] = 0
    BY <1>3 DEF JoinAdd, Ready, At, TypeInv, TypeOK, RequestState
  <2>2. /\ member' = [member EXCEPT ![u] = req[r].role] /\ uses' = [uses EXCEPT ![t] = uses[t] + 1]
        /\ UNCHANGED <<public, token, invitee, status, honoured>> /\ End(r)
    BY <1>3, <2>1 DEF JoinAdd, invitations
  <2>3. uses'[t] = 1 /\ \A k \in (0..MaxToken) \ {t} : uses'[k] = uses[k]
    BY <2>1, <2>2 DEF TypeInv, TypeOK
  <2>4. SpentLinkIsDead' /\ HonouredAccepted'
    BY <1>1, <2>1, <2>2, <2>3 DEF SpentLinkIsDead, HonouredAccepted
  <2>5. Used' = Used \cup {t} /\ t \notin Used /\ t \in 0..(token - 1)
    BY <1>1, <2>1, <2>3 DEF Used
  <2>6. Promise!Admit(u, req[r].role)
    BY <2>1, <2>2, <2>5 DEF Promise!Admit, Promise!Outsider, Promise!asked, Used, None
  <2>7. PromiseStep
    <3>1. PICK v \in User, ro \in Role : v = u /\ ro = req[r].role
      BY <2>1
    <3>2. Promise!Admit(v, ro)
      BY <2>6, <3>1 DEF Promise!Admit, Promise!Outsider
    <3> QED
      BY <3>2 DEF PromiseStep, Promise!Next
  <2>8. \A q \in Request : Ready(q)'
    BY <2>2, EndReady, OnlyRequest
  <2> QED
    BY <2>4, <2>7, <2>8
<1> QED
  BY <1>2, <1>3

LEMMA AnswerSerial ==
  ASSUME TypeInv, SerialInv, NEW r \in Request, One(r), AskCreate(r) \/ RespondWrite(r) \/ RespondAdd(r)
  PROVE  SerialInv' /\ PromiseStep
<1> USE DEF SerialInv
<1> DEFINE u == req[r].user
           i == req[r].inv
<1>1. u \in User /\ Ready(r)
  BY DEF TypeInv, TypeOK, RequestState
<1>2. CASE AskCreate(r)
  <2>1. PICK k \in Invitation : /\ status[k] = "absent" /\ status' = [status EXCEPT ![k] = "PENDING"]
                                /\ invitee' = [invitee EXCEPT ![k] = u]
    BY <1>2 DEF AskCreate
  <2>2. End(r) /\ UNCHANGED <<member, public, token, uses, honoured>> /\ At(r, "ask.create")
    BY <1>2 DEF AskCreate, team, history
  <2>3. SpentLinkIsDead' /\ HonouredAccepted'
    BY <2>1, <2>2 DEF SpentLinkIsDead, HonouredAccepted, TypeInv, TypeOK
  <2>4. Promise!Ask(u, k)
    BY <1>1, <2>1, <2>2 DEF Promise!Ask, Promise!Outsider, Promise!people, Promise!link, Ready, At, None
  <2> QED
    BY <1>1, <2>2, <2>3, <2>4, EndReady, OnlyRequest DEF PromiseStep, Promise!Next
<1>3. CASE RespondWrite(r)
  <2>1. i \in Invitation /\ Somebody(Maintains) /\ status[i] = "PENDING" /\ invitee[i] = u
    BY <1>1, <1>3 DEF RespondWrite, At, Ready, TypeInv, ReqOK, Responding
  <2>2. UNCHANGED <<member, public, token, uses, honoured, invitee>>
    BY <1>3 DEF RespondWrite, team, history
  <2>3. PICK s \in Resolved : status' = [status EXCEPT ![i] = s]
    BY <1>3 DEF RespondWrite, Resolved
  <2>4. i \notin honoured
    BY <2>1 DEF HonouredAccepted
  <2>5. SpentLinkIsDead' /\ HonouredAccepted'
    BY <2>2, <2>3, <2>4 DEF SpentLinkIsDead, HonouredAccepted, TypeInv, TypeOK
  <2>6. Ready(r)'
    <3>1. CASE End(r)
      BY <3>1, EndReady
    <3>2. CASE status' = [status EXCEPT ![i] = "ACCEPTED"] /\ Goto(r, "respond.add")
      <4>1. status'[i] = "ACCEPTED"
        BY <2>1, <3>2 DEF TypeInv, TypeOK
      <4> QED
        BY <2>1, <2>2, <2>4, <3>2, <4>1, GotoReq DEF Ready
    <3> QED
      BY <1>3, <3>1, <3>2 DEF RespondWrite
  <2>7. Promise!Answer(i)
    BY <2>1, <2>2, <2>3 DEF Promise!Answer, Promise!Maintainer, Promise!people, Promise!link, Somebody,
       Maintains, Resolved
  <2> QED
    BY <2>1, <2>5, <2>6, <2>7, OnlyRequest DEF PromiseStep, Promise!Next
<1>4. CASE RespondAdd(r)
  <2>1. i \in Invitation /\ status[i] = "ACCEPTED" /\ i \notin honoured /\ invitee[i] = u
    BY <1>1, <1>4 DEF RespondAdd, At, Ready, TypeInv, ReqOK, Responding
  <2>2. /\ honoured' = honoured \cup {i} /\ End(r) /\ UNCHANGED <<public, token, uses, invitee, status>>
        /\ member' = IF member[u] = None THEN [member EXCEPT ![u] = "VIEWER"] ELSE member
    BY <1>4 DEF RespondAdd, invitations
  <2>3. SpentLinkIsDead' /\ HonouredAccepted'
    BY <2>1, <2>2 DEF SpentLinkIsDead, HonouredAccepted
  <2>4. Promise!Honour(i)
    BY <2>1, <2>2 DEF Promise!Honour, Promise!Outsider, Promise!link, Promise!asked, None
  <2> QED
    BY <2>1, <2>2, <2>3, <2>4, EndReady, OnlyRequest DEF PromiseStep, Promise!Next
<1> QED
  BY <1>2, <1>3, <1>4

LEMMA MemberSerial ==
  ASSUME TypeInv, SerialInv, NEW r \in Request, One(r), RoleWrite(r) \/ RemoveWrite(r) \/ PublicWrite(r)
  PROVE  SerialInv' /\ PromiseStep
<1> USE DEF SerialInv
<1> DEFINE u == req[r].user
<1>1. u \in User /\ Ready(r) /\ End(r) /\ UNCHANGED <<token, invitee, status, uses, honoured>>
  BY DEF TypeInv, TypeOK, RequestState, RoleWrite, RemoveWrite, PublicWrite, invitations, history
<1>2. SerialInv'
  BY <1>1, EndReady, OnlyRequest DEF SpentLinkIsDead, HonouredAccepted
<1> USE DEF PromiseStep, Promise!vars, Promise!people, Promise!link, Promise!asked, None, Somebody
<1>3. CASE RoleWrite(r)
  <2>1. Somebody({"ADMIN"}) /\ member[u] # None /\ req[r].role \in Role
    BY <1>1, <1>3 DEF RoleWrite, At, Ready
  <2>2. public' = public /\ (member' = member \/ member' = [member EXCEPT ![u] = req[r].role])
    BY <1>3 DEF RoleWrite
  <2>3. CASE member' = member
    BY <1>1, <1>2, <2>2, <2>3
  <2>4. CASE member' = [member EXCEPT ![u] = req[r].role]
    <3>1. Promise!SetRole(u, req[r].role)
      BY <1>1, <2>1, <2>2, <2>4 DEF Promise!SetRole, Promise!Admin, Promise!Outsider
    <3> QED
      BY <1>1, <1>2, <2>1, <3>1 DEF Promise!Next
  <2> QED
    BY <2>2, <2>3, <2>4
<1>4. CASE RemoveWrite(r)
  <2>1. Somebody({"ADMIN"}) /\ member[u] \notin {None, "ADMIN"}
    BY <1>1, <1>4 DEF RemoveWrite, At, Ready
  <2>2. public' = public /\ (member' = member \/ member' = [member EXCEPT ![u] = None])
    BY <1>4 DEF RemoveWrite
  <2>3. CASE member' = member
    BY <1>1, <1>2, <2>2, <2>3
  <2>4. CASE member' = [member EXCEPT ![u] = None]
    <3>1. Promise!Remove(u)
      BY <1>1, <2>1, <2>2, <2>4 DEF Promise!Remove, Promise!Admin
    <3> QED
      BY <1>1, <1>2, <3>1 DEF Promise!Next
  <2> QED
    BY <2>2, <2>3, <2>4
<1>5. CASE PublicWrite(r)
  <2>1. Somebody(Maintains) /\ member' = member /\ public' = req[r].flag
    BY <1>1, <1>5 DEF PublicWrite, At, Ready
  <2>2. public' \in BOOLEAN /\ public \in BOOLEAN
    BY <2>1 DEF TypeInv, TypeOK, RequestState
  <2>3. CASE public' = public
    BY <1>1, <1>2, <2>1, <2>3
  <2>4. CASE public' # public
    <3>1. Promise!SetPublic
      BY <1>1, <2>1, <2>2, <2>4 DEF Promise!SetPublic, Promise!Maintainer, Maintains
    <3> QED
      BY <1>2, <3>1 DEF Promise!Next
  <2> QED
    BY <2>3, <2>4
<1> QED
  BY <1>3, <1>4, <1>5

LEMMA SerialStep ==
  ASSUME \A q, r \in Request : q = r, TypeInv, SerialInv, [Next]_vars
  PROVE  SerialInv' /\ PromiseStep
<1>1. CASE UNCHANGED vars
  <2>1. UNCHANGED <<team, invitations, uses, honoured, req>>
    BY <1>1 DEF vars, history
  <2>2. \A r \in Request : Ready(r)'
    BY <2>1 DEF SerialInv, Ready, Somebody, team, invitations
  <2> QED
    BY <2>1, <2>2, Kept, Quiet DEF SerialInv
<1>2. \A r \in Request : One(r)
  BY DEF One
<1> QED
  BY <1>1, <1>2, StartSerial, ReadSerial, LinkSerial, AnswerSerial, MemberSerial DEF Next, Continue

(* Where there is one request at a time the service keeps the rules it     *)
(* states, for any users, roles, invitations and rotations, and wherever a *)
(* request stops between its commits.                                      *)
THEOREM SerialKeepsRules ==
  ASSUME \A q, r \in Request : q = r
  PROVE  Spec => KeepsRules
<1>1. TypeInv /\ SerialInv /\ [Next]_vars => SerialInv' /\ [Promise!Next]_(Promise!vars)
  BY SerialStep DEF PromiseStep
<1> QED
  BY <1>1, InitSerial, TypeInvAlways, PTL DEF Spec, KeepsRules, Promise!Spec

-----------------------------------------------------------------------------
(* The invite link when requests overlap. The link is found by its current *)
(* token and rotated in a later commit, so several requests may hold one   *)
(* token (get_by_invite_token, regenerate_invite_token).                   *)
Holding == {"join.member", "join.rotate", "join.add"}
Holders(t) == {r \in Request : req[r].step \in Holding /\ req[r].tok = t}

(* A token admits no more members than requests were running at once.      *)
LinkUseIsBounded == \A t \in 0..MaxToken : uses[t] <= Cardinality(Request)

RotatedBeforeAdding ==
  \A r \in Request :
    /\ req[r].step \in Holding => req[r].tok <= token
    /\ At(r, "join.add") => req[r].tok < token

UsesAndHolders ==
  \A t \in 0..MaxToken : uses[t] + Cardinality(Holders(t)) <= Cardinality(Request)

LinkInv == RotatedBeforeAdding /\ SpentLinkIsDead /\ UsesAndHolders

LEMMA HoldersFinite ==
  ASSUME IsFiniteSet(Request), NEW t
  PROVE  /\ IsFiniteSet(Holders(t)) /\ Cardinality(Holders(t)) \in Nat
         /\ Cardinality(Request) \in Nat /\ Cardinality(Holders(t)) <= Cardinality(Request)
<1>1. Holders(t) \subseteq Request
  BY DEF Holders
<1> QED
  BY <1>1, FS_Subset, FS_CardinalityType

LEMMA InitLink ==
  ASSUME IsFiniteSet(Request), Init
  PROVE  LinkInv
<1>1. \A r \in Request : req[r].step = "idle"
  BY DEF Init, Idle
<1>2. \A t \in 0..MaxToken : uses[t] = 0 /\ Holders(t) = {}
  BY <1>1 DEF Init, Holders, Holding
<1>3. Cardinality({}) = 0 /\ Cardinality(Request) \in Nat
  BY FS_EmptySet, FS_CardinalityType
<1>4. UsesAndHolders
  BY <1>2, <1>3 DEF UsesAndHolders
<1> QED
  BY <1>1, <1>2, <1>4 DEF LinkInv, RotatedBeforeAdding, SpentLinkIsDead, At, Holding

(* A step changes its own request only, and takes up a token only when it  *)
(* begins a join.                                                          *)
LEMMA OwnRequestOnly ==
  ASSUME TypeInv, NEW r \in Request, Start(r) \/ Continue(r) \/ Die(r)
  PROVE  \A q \in Request : q # r => req'[q] = req[q]
BY DEF TypeInv, TypeOK, Start, Join, Ask, Respond, SetRole, Remove, Rotate, SetPublic, Begin,
   Continue, JoinMember, JoinRotate, JoinAdd, AskMember, AskPending, AskCreate, RespondRead,
   RespondWrite, RespondAdd, RoleRead, RoleWrite, RemoveRead, RemoveWrite, RotateWrite, PublicRead, PublicWrite,
   Die, Goto, End

LEMMA NoTokenTakenUp ==
  ASSUME TypeInv, NEW r \in Request, Start(r) \/ Continue(r) \/ Die(r),
         ~ \E u \in User, ro \in Role : Join(r, u, ro),
         req'[r].step \in Holding
  PROVE  /\ req[r].step \in Holding /\ req'[r].tok = req[r].tok
         /\ req'[r].step = "join.add" => JoinRotate(r)
<1>1. ~ Start(r) /\ ~ End(r)
  <2> USE DEF Begin, Idle, Holding, TypeInv, TypeOK
  <2>1. \A u \in User : ~ Ask(r, u)
    BY DEF Ask
  <2>2. \A a \in User, i \in Invitation, accept \in BOOLEAN : ~ Respond(r, a, i, accept)
    BY DEF Respond
  <2>3. \A a, u \in User, ro \in Role : ~ SetRole(r, a, u, ro)
    BY DEF SetRole
  <2>4. \A a, u \in User : ~ Remove(r, a, u)
    BY DEF Remove
  <2>5. \A a \in User, p \in BOOLEAN : ~ Rotate(r, a) /\ ~ SetPublic(r, a, p)
    BY DEF Rotate, SetPublic
  <2>6. ~ End(r)
    BY DEF End
  <2> QED
    BY <2>1, <2>2, <2>3, <2>4, <2>5, <2>6 DEF Start
<1>2. CASE JoinMember(r)
  BY <1>1, <1>2, GotoReq DEF JoinMember, At, Holding
<1>3. CASE JoinRotate(r)
  BY <1>3, GotoReq DEF JoinRotate, At, Holding
<1>4. CASE AskMember(r) \/ AskPending(r) \/ PublicRead(r)
  BY <1>1, <1>4, GotoReq DEF AskMember, AskPending, PublicRead, Holding
<1>5. CASE RespondWrite(r)
  BY <1>1, <1>5, GotoReq DEF RespondWrite, Holding
<1>6. CASE RespondRead(r) \/ RoleRead(r) \/ RemoveRead(r)
  BY <1>1, <1>6 DEF RespondRead, RoleRead, RemoveRead, Holding, TypeInv, TypeOK, RequestState
<1>7. ~ JoinAdd(r) /\ ~ AskCreate(r) /\ ~ RespondAdd(r) /\ ~ RoleWrite(r) /\ ~ RemoveWrite(r)
      /\ ~ RotateWrite(r) /\ ~ PublicWrite(r) /\ ~ Die(r)
  BY <1>1 DEF JoinAdd, AskCreate, RespondAdd, RoleWrite, RemoveWrite, RotateWrite, PublicWrite, Die
<1> QED
  BY <1>1, <1>2, <1>3, <1>4, <1>5, <1>6, <1>7 DEF Continue

LEMMA TokenGrows ==
  ASSUME TypeInv, NEW r \in Request, Start(r) \/ Continue(r) \/ Die(r)
  PROVE  /\ token \in Nat /\ token' \in Nat /\ token <= token'
         /\ JoinRotate(r) => token' = token + 1
         /\ ~ JoinAdd(r) => uses' = uses
<1>1. token \in Nat
  BY MaxTokenAssumption DEF TypeInv, TypeOK
<1>2. token' = token \/ token' = token + 1
  BY DEF Start, Join, Ask, Respond, SetRole, Remove, Rotate, SetPublic,
     Continue, JoinMember, JoinRotate, JoinAdd, AskMember, AskPending, AskCreate, RespondRead,
     RespondWrite, RespondAdd, RoleRead, RoleWrite, RemoveRead, RemoveWrite, RotateWrite, PublicRead, PublicWrite,
     Die, team
<1>3. ~ JoinAdd(r) => uses' = uses
  BY DEF Start, Join, Ask, Respond, SetRole, Remove, Rotate, SetPublic,
     Continue, JoinMember, JoinRotate, AskMember, AskPending, AskCreate, RespondRead,
     RespondWrite, RespondAdd, RoleRead, RoleWrite, RemoveRead, RemoveWrite, RotateWrite, PublicRead, PublicWrite,
     Die, history
<1>4. JoinRotate(r) => token' = token + 1
  BY DEF JoinRotate
<1> QED
  BY <1>1, <1>2, <1>3, <1>4

LEMMA JoinLink ==
  ASSUME IsFiniteSet(Request), TypeInv, LinkInv, NEW r \in Request, NEW u \in User, NEW ro \in Role,
         Join(r, u, ro)
  PROVE  LinkInv'
<1>1. /\ token' = token /\ uses' = uses /\ At(r, "idle")
      /\ req'[r].step = "join.member" /\ req'[r].tok = token
      /\ \A q \in Request : q # r => req'[q] = req[q]
  BY DEF Join, Begin, Idle, team, history, TypeInv, TypeOK
<1>2. token \in 0..MaxToken /\ token \in Nat /\ token <= token
  BY MaxTokenAssumption DEF TypeInv, TypeOK
<1>3. RotatedBeforeAdding'
  BY <1>1, <1>2 DEF LinkInv, RotatedBeforeAdding, At, Holding
<1>4. SpentLinkIsDead'
  BY <1>1 DEF LinkInv, SpentLinkIsDead
<1>5. ASSUME NEW t \in 0..MaxToken
      PROVE  uses'[t] + Cardinality(Holders(t)') <= Cardinality(Request)
  <2>1. uses[t] \in Nat
    BY DEF TypeInv, TypeOK
  <2>2. CASE t = token
    <3>1. ~ uses[t] > 0
      BY <1>2, <2>2 DEF LinkInv, SpentLinkIsDead
    <3>2. Holders(t)' \subseteq Request
      BY DEF Holders
    <3>3. Cardinality(Holders(t)') <= Cardinality(Request) /\ Cardinality(Holders(t)') \in Nat
      BY <3>2, FS_Subset, FS_CardinalityType
    <3> QED
      BY <1>1, <2>1, <3>1, <3>3
  <2>3. CASE t # token
    <3>1. Holders(t)' = Holders(t)
      BY <1>1, <2>3 DEF Holders, At, Holding
    <3> QED
      BY <1>1, <3>1 DEF LinkInv, UsesAndHolders
  <2> QED
    BY <2>2, <2>3
<1> QED
  BY <1>3, <1>4, <1>5 DEF LinkInv, UsesAndHolders

LEMMA JoinAddLink ==
  ASSUME IsFiniteSet(Request), TypeInv, LinkInv, NEW r \in Request, JoinAdd(r)
  PROVE  LinkInv'
<1> DEFINE k == req[r].tok
<1>1. /\ token' = token /\ At(r, "join.add") /\ req'[r] = Idle
      /\ \A q \in Request : q # r => req'[q] = req[q]
  BY DEF JoinAdd, End, TypeInv, TypeOK
<1>2. k \in 0..MaxToken /\ k < token /\ token \in Nat /\ \A t \in 0..MaxToken : uses[t] \in Nat
  BY <1>1, MaxTokenAssumption DEF LinkInv, RotatedBeforeAdding, TypeInv, TypeOK, RequestState
<1>3. \A t \in 0..MaxToken : uses'[t] = uses[t] \/ (t = k /\ uses'[t] = uses[t] + 1)
  <2>1. uses' = uses \/ uses' = [uses EXCEPT ![k] = uses[k] + 1]
    BY DEF JoinAdd
  <2> QED
    BY <1>2, <2>1 DEF TypeInv, TypeOK
<1>4. RotatedBeforeAdding'
  BY <1>1 DEF LinkInv, RotatedBeforeAdding, At, Holding, Idle
<1>5. SpentLinkIsDead'
  BY <1>1, <1>2, <1>3 DEF LinkInv, SpentLinkIsDead
<1>6. ASSUME NEW t \in 0..MaxToken
      PROVE  uses'[t] + Cardinality(Holders(t)') <= Cardinality(Request)
  <2>1. Holders(t)' = Holders(t) \ {r}
    BY <1>1 DEF Holders, Holding, Idle
  <2>2. /\ IsFiniteSet(Holders(t)) /\ Cardinality(Holders(t)) \in Nat /\ Cardinality(Request) \in Nat
        /\ uses[t] + Cardinality(Holders(t)) <= Cardinality(Request) /\ uses[t] \in Nat
    BY <1>2, HoldersFinite DEF LinkInv, UsesAndHolders
  <2>3. CASE t = k
    <3>1. r \in Holders(t)
      BY <1>1, <2>3 DEF Holders, Holding, At
    <3>2. Cardinality(Holders(t) \ {r}) = Cardinality(Holders(t)) - 1
      BY <2>2, <3>1, FS_RemoveElement
    <3> QED
      BY <1>3, <2>1, <2>2, <2>3, <3>2
  <2>4. CASE t # k
    <3>1. r \notin Holders(t)
      BY <2>4 DEF Holders
    <3> QED
      BY <1>3, <2>1, <2>2, <2>4, <3>1
  <2> QED
    BY <2>3, <2>4
<1> QED
  BY <1>4, <1>5, <1>6 DEF LinkInv, UsesAndHolders

LEMMA OtherLink ==
  ASSUME IsFiniteSet(Request), TypeInv, LinkInv, NEW r \in Request, Start(r) \/ Continue(r) \/ Die(r),
         ~ JoinAdd(r), ~ \E u \in User, ro \in Role : Join(r, u, ro)
  PROVE  LinkInv'
<1>1. /\ token \in Nat /\ token' \in Nat /\ token <= token' /\ uses' = uses
      /\ JoinRotate(r) => token' = token + 1
  BY TokenGrows
<1>2. \A q \in Request : q # r => req'[q] = req[q]
  BY OwnRequestOnly
<1>3. req'[r].step \in Holding =>
        /\ req[r].step \in Holding /\ req'[r].tok = req[r].tok
        /\ req'[r].step = "join.add" => JoinRotate(r)
  BY NoTokenTakenUp
<1>4. \A q \in Request : req[q].tok \in Nat
  BY MaxTokenAssumption DEF TypeInv, TypeOK, RequestState
<1>5. RotatedBeforeAdding'
  <2> SUFFICES ASSUME NEW q \in Request
               PROVE  /\ req'[q].step \in Holding => req'[q].tok <= token'
                      /\ req'[q].step = "join.add" => req'[q].tok < token'
    BY DEF RotatedBeforeAdding, At
  <2>1. /\ req[q].step \in Holding => req[q].tok <= token
        /\ req[q].step = "join.add" => req[q].tok < token
    BY DEF LinkInv, RotatedBeforeAdding, At
  <2>2. CASE q # r
    BY <1>1, <1>2, <1>4, <2>1, <2>2
  <2>3. CASE q = r
    BY <1>1, <1>3, <1>4, <2>1, <2>3 DEF Holding
  <2> QED
    BY <2>2, <2>3
<1>6. SpentLinkIsDead'
  BY <1>1, MaxTokenAssumption DEF LinkInv, SpentLinkIsDead
<1>7. ASSUME NEW t \in 0..MaxToken
      PROVE  uses'[t] + Cardinality(Holders(t)') <= Cardinality(Request)
  <2>1. Holders(t)' \subseteq Holders(t)
    BY <1>2, <1>3 DEF Holders
  <2>2. Cardinality(Holders(t)') <= Cardinality(Holders(t)) /\ Cardinality(Holders(t)') \in Nat
    BY <2>1, HoldersFinite, FS_Subset, FS_CardinalityType
  <2>3. /\ uses[t] \in Nat /\ uses[t] + Cardinality(Holders(t)) <= Cardinality(Request)
        /\ Cardinality(Holders(t)) \in Nat /\ Cardinality(Request) \in Nat
    BY HoldersFinite DEF LinkInv, UsesAndHolders, TypeInv, TypeOK
  <2> QED
    BY <1>1, <2>2, <2>3
<1> QED
  BY <1>5, <1>6, <1>7 DEF LinkInv, UsesAndHolders

LEMMA NextLink ==
  ASSUME IsFiniteSet(Request), TypeInv, LinkInv, [Next]_vars
  PROVE  LinkInv'
<1>1. CASE UNCHANGED vars
  BY <1>1 DEF vars, team, history, LinkInv, RotatedBeforeAdding, SpentLinkIsDead, UsesAndHolders, Holders, At
<1>2. CASE Next
  BY <1>2, JoinLink, JoinAddLink, OtherLink DEF Next
<1> QED
  BY <1>1, <1>2

(* Under any interleaving, a token that admitted somebody has been         *)
(* rotated, so only requests that found the team before the rotation can   *)
(* still use it; and they, and so the members that one token admits, are   *)
(* at most as many as the requests that run at once: one, if they do not   *)
(* overlap (team_service.py:69, "Rotate token to prevent reuse").          *)
THEOREM LinkIsSpent ==
  ASSUME IsFiniteSet(Request)
  PROVE  Spec => [](SpentLinkIsDead /\ LinkUseIsBounded)
<1>1. TypeInv /\ LinkInv => SpentLinkIsDead /\ LinkUseIsBounded
  <2> SUFFICES ASSUME TypeInv, LinkInv, NEW t \in 0..MaxToken
               PROVE  uses[t] <= Cardinality(Request)
    BY DEF LinkInv, LinkUseIsBounded
  <2>1. uses[t] + Cardinality(Holders(t)) <= Cardinality(Request) /\ uses[t] \in Nat
    BY DEF TypeInv, TypeOK, LinkInv, UsesAndHolders
  <2> QED
    BY <2>1, HoldersFinite
<1>2. Init => LinkInv
  BY InitLink
<1>3. TypeInv /\ LinkInv /\ [Next]_vars => LinkInv'
  BY NextLink
<1> QED
  BY <1>1, <1>2, <1>3, TypeInvAlways, PTL DEF Spec

-----------------------------------------------------------------------------
(* Open join requests when requests overlap. The look-up and the insertion *)
(* are two statements and no constraint backs them up (request_to_join).   *)
Pending(u) == {i \in Invitation : status[i] = "PENDING" /\ invitee[i] = u}
Creators(u) == {r \in Request : At(r, "ask.create") /\ req[r].user = u}

(* Nobody has more open join requests than requests run at once.           *)
PendingBounded ==
  \A u \in User : IsFiniteSet(Pending(u)) /\ Cardinality(Pending(u)) <= Cardinality(Request)

(* Whoever passed the look-up counts as well: he inserts without looking   *)
(* again.                                                                  *)
PendingOrCreating(u) ==
  /\ IsFiniteSet(Pending(u))
  /\ Cardinality(Pending(u)) + Cardinality(Creators(u)) <= Cardinality(Request)

PendingInv == \A u \in User : PendingOrCreating(u)

LEMMA CreatorsFinite ==
  ASSUME IsFiniteSet(Request), NEW u
  PROVE  /\ IsFiniteSet(Creators(u)) /\ Cardinality(Creators(u)) \in Nat
         /\ Cardinality(Request) \in Nat /\ Cardinality(Creators(u)) <= Cardinality(Request)
<1>1. Creators(u) \subseteq Request
  BY DEF Creators
<1> QED
  BY <1>1, FS_Subset, FS_CardinalityType

LEMMA InitPending ==
  ASSUME IsFiniteSet(Request), Init
  PROVE  PendingInv
<1> SUFFICES ASSUME NEW u \in User PROVE PendingOrCreating(u)
  BY DEF PendingInv
<1>1. Pending(u) = {} /\ Creators(u) = {}
  BY DEF Init, Pending, Creators, At, Idle
<1> QED
  BY <1>1, FS_EmptySet, FS_CardinalityType DEF PendingOrCreating

(* A step that neither adds to the open requests nor to those about to be  *)
(* inserted.                                                               *)
LEMMA PendingShrinks ==
  ASSUME IsFiniteSet(Request), NEW u, PendingOrCreating(u),
         Pending(u)' \subseteq Pending(u), Creators(u)' \subseteq Creators(u)
  PROVE  PendingOrCreating(u)'
<1>1. /\ IsFiniteSet(Pending(u)') /\ Cardinality(Pending(u)') <= Cardinality(Pending(u))
      /\ Cardinality(Pending(u)') \in Nat /\ Cardinality(Pending(u)) \in Nat
  BY FS_Subset, FS_CardinalityType DEF PendingOrCreating
<1>2. /\ Cardinality(Creators(u)') <= Cardinality(Creators(u))
      /\ Cardinality(Creators(u)') \in Nat /\ Cardinality(Creators(u)) \in Nat
  BY CreatorsFinite, FS_Subset, FS_CardinalityType
<1>3. Cardinality(Pending(u)) + Cardinality(Creators(u)) <= Cardinality(Request)
  BY DEF PendingOrCreating
<1>4. Cardinality(Pending(u)') + Cardinality(Creators(u)') <= Cardinality(Request)
  BY <1>1, <1>2, <1>3, CreatorsFinite
<1> QED
  BY <1>1, <1>4 DEF PendingOrCreating

(* The look-up lets a request pass only while its user has none open.      *)
LEMMA AskPendingBound ==
  ASSUME IsFiniteSet(Request), TypeInv, PendingInv, NEW r \in Request, AskPending(r)
  PROVE  PendingInv'
<1> SUFFICES ASSUME NEW u \in User PROVE PendingOrCreating(u)'
  BY DEF PendingInv
<1>1. PendingOrCreating(u) /\ Pending(u)' = Pending(u)
  BY DEF PendingInv, AskPending, invitations, Pending
<1>2. \A q \in Request : q # r => req'[q] = req[q]
  BY OwnRequestOnly DEF Continue
<1>3. CASE End(r) \/ req[r].user # u
  <2>1. Creators(u)' \subseteq Creators(u)
    <3>1. r \notin Creators(u)'
      <4>1. CASE End(r)
        BY <4>1 DEF End, Idle, Creators, At, TypeInv, TypeOK
      <4>2. CASE Goto(r, "ask.create") /\ req[r].user # u
        BY <4>2, GotoReq DEF Creators
      <4> QED
        BY <1>3, <4>1, <4>2 DEF AskPending
    <3> QED
      BY <1>2, <3>1 DEF Creators, At
  <2> QED
    BY <1>1, <2>1, PendingShrinks
<1>4. CASE ~ End(r) /\ req[r].user = u
  <2>1. Pending(u) = {}
    BY <1>4 DEF AskPending, Pending
  <2>2. Creators(u)' \subseteq Request
    BY DEF Creators
  <2>3. Cardinality(Creators(u)') <= Cardinality(Request) /\ Cardinality(Creators(u)') \in Nat
    BY <2>2, FS_Subset, FS_CardinalityType
  <2> QED
    BY <1>1, <2>1, <2>3, FS_EmptySet, CreatorsFinite DEF PendingOrCreating
<1> QED
  BY <1>3, <1>4

(* The insertion makes one of those about to be inserted an open one.      *)
LEMMA AskCreateBound ==
  ASSUME IsFiniteSet(Request), TypeInv, PendingInv, NEW r \in Request, AskCreate(r)
  PROVE  PendingInv'
<1> SUFFICES ASSUME NEW u \in User PROVE PendingOrCreating(u)'
  BY DEF PendingInv
<1>1. PICK k \in Invitation : /\ status[k] = "absent"
                              /\ status' = [status EXCEPT ![k] = "PENDING"]
                              /\ invitee' = [invitee EXCEPT ![k] = req[r].user]
  BY DEF AskCreate
<1>2. \A i \in Invitation \ {k} : status'[i] = status[i] /\ invitee'[i] = invitee[i]
  BY <1>1 DEF TypeInv, TypeOK
<1>3. status'[k] = "PENDING" /\ invitee'[k] = req[r].user
  BY <1>1 DEF TypeInv, TypeOK
<1>4. \A q \in Request : q # r => req'[q] = req[q]
  BY OwnRequestOnly DEF Continue
<1>5. r \notin Creators(u)'
  BY DEF AskCreate, End, Idle, Creators, At, TypeInv, TypeOK
<1>6. Creators(u)' = Creators(u) \ {r}
  BY <1>4, <1>5 DEF Creators, At
<1>7. PendingOrCreating(u)
  BY DEF PendingInv
<1>8. CASE req[r].user # u
  <2>1. Pending(u)' \subseteq Pending(u)
    BY <1>2, <1>3, <1>8 DEF Pending
  <2> QED
    BY <1>6, <1>7, <2>1, PendingShrinks
<1>9. CASE req[r].user = u
  <2>1. Pending(u)' = Pending(u) \cup {k} /\ k \notin Pending(u)
    BY <1>1, <1>2, <1>3, <1>9 DEF Pending
  <2>2. IsFiniteSet(Pending(u)') /\ Cardinality(Pending(u)') = Cardinality(Pending(u)) + 1
    BY <1>7, <2>1, FS_AddElement DEF PendingOrCreating
  <2>3. r \in Creators(u)
    BY <1>9 DEF Creators, AskCreate
  <2>4. Cardinality(Creators(u)') = Cardinality(Creators(u)) - 1
    BY <1>6, <2>3, CreatorsFinite, FS_RemoveElement
  <2>5. Cardinality(Pending(u)) \in Nat /\ Cardinality(Creators(u)) \in Nat
    BY <1>7, CreatorsFinite, FS_CardinalityType DEF PendingOrCreating
  <2>6. Cardinality(Pending(u)) + Cardinality(Creators(u)) <= Cardinality(Request)
    BY <1>7 DEF PendingOrCreating
  <2>7. Cardinality(Pending(u)') + Cardinality(Creators(u)') <= Cardinality(Request)
    BY <2>2, <2>4, <2>5, <2>6, CreatorsFinite
  <2> QED
    BY <2>2, <2>7 DEF PendingOrCreating
<1> QED
  BY <1>8, <1>9

(* Nothing else opens a join request, and no other request gets as far.    *)
LEMMA NotCreating ==
  ASSUME TypeInv, NEW r \in Request, Start(r) \/ Continue(r) \/ Die(r), ~ AskPending(r)
  PROVE  ~ At(r, "ask.create")'
<1>1. CASE Start(r)
  <2> USE DEF Begin, Idle, At, TypeInv, TypeOK
  <2>1. CASE \E u \in User : Ask(r, u) \/ \E ro \in Role : Join(r, u, ro)
    BY <2>1 DEF Ask, Join
  <2>2. CASE \E a \in User, i \in Invitation, accept \in BOOLEAN : Respond(r, a, i, accept)
    BY <2>2 DEF Respond
  <2>3. \A a, u \in User : Remove(r, a, u) => ~ At(r, "ask.create")'
    BY DEF Remove
  <2>4. \A a, u \in User, ro \in Role : SetRole(r, a, u, ro) => ~ At(r, "ask.create")'
    BY DEF SetRole
  <2>5. CASE \E a \in User, p \in BOOLEAN : Rotate(r, a) \/ SetPublic(r, a, p)
    BY <2>5 DEF Rotate, SetPublic
  <2> QED
    BY <1>1, <2>1, <2>2, <2>3, <2>4, <2>5 DEF Start
<1>2. CASE End(r)
  BY <1>2 DEF End, Idle, At, TypeInv, TypeOK
<1>3. CASE \E s \in {"join.rotate", "join.add", "ask.pending", "respond.add", "public.write"} : Goto(r, s)
  BY <1>3, GotoReq DEF At
<1>4. CASE (RespondRead(r) \/ RoleRead(r) \/ RemoveRead(r)) /\ ~ End(r)
  BY <1>4 DEF RespondRead, RoleRead, RemoveRead, At, TypeInv, TypeOK, RequestState
<1> QED
  BY <1>1, <1>2, <1>3, <1>4 DEF Continue, Die, JoinMember, JoinRotate, JoinAdd, AskMember,
     AskCreate, RespondRead, RespondWrite, RespondAdd, RoleRead, RoleWrite, RemoveRead,
     RemoveWrite, RotateWrite, PublicRead, PublicWrite

LEMMA OtherBound ==
  ASSUME IsFiniteSet(Request), TypeInv, PendingInv, NEW r \in Request, Start(r) \/ Continue(r) \/ Die(r),
         ~ AskPending(r), ~ AskCreate(r)
  PROVE  PendingInv'
<1> SUFFICES ASSUME NEW u \in User PROVE PendingOrCreating(u)'
  BY DEF PendingInv
<1>1. Creators(u)' \subseteq Creators(u)
  BY OwnRequestOnly, NotCreating DEF Creators, At
<1>2. Pending(u)' \subseteq Pending(u)
  <2>1. CASE RespondWrite(r)
    BY <2>1 DEF RespondWrite, Pending, TypeInv, TypeOK
  <2>2. CASE UNCHANGED invitations
    BY <2>2 DEF invitations, Pending
  <2> QED
    BY <2>1, <2>2 DEF Start, Join, Ask, Respond, SetRole, Remove, Rotate, SetPublic, Continue,
       JoinMember, JoinRotate, JoinAdd, AskMember, RespondRead, RespondAdd, RoleRead, RoleWrite,
       RemoveRead, RemoveWrite, RotateWrite, PublicRead, PublicWrite, Die, invitations
<1> QED
  BY <1>1, <1>2, PendingShrinks DEF PendingInv

(* Under any interleaving, a user has at most as many join requests open   *)
(* as requests of the API run at once: the check "Join request already     *)
(* pending" can be passed by several requests together, but never again    *)
(* while one of theirs is open, however the rest of the team changes.      *)
THEOREM PendingIsBounded ==
  ASSUME IsFiniteSet(Request)
  PROVE  Spec => []PendingBounded
<1>1. TypeInv /\ PendingInv /\ [Next]_vars => PendingInv'
  <2> SUFFICES ASSUME TypeInv, PendingInv, [Next]_vars PROVE PendingInv'
    OBVIOUS
  <2>1. CASE UNCHANGED vars
    BY <2>1 DEF vars, invitations, PendingInv, PendingOrCreating, Pending, Creators, At
  <2>2. CASE Next
    BY <2>2, AskPendingBound, AskCreateBound, OtherBound DEF Next
  <2> QED
    BY <2>1, <2>2
<1>2. Init => PendingInv
  BY InitPending
<1>3. PendingInv => PendingBounded
  <2> SUFFICES ASSUME PendingInv, NEW u \in User
               PROVE  IsFiniteSet(Pending(u)) /\ Cardinality(Pending(u)) <= Cardinality(Request)
    BY DEF PendingBounded
  <2>1. /\ IsFiniteSet(Pending(u)) /\ Cardinality(Pending(u)) \in Nat
        /\ Cardinality(Pending(u)) + Cardinality(Creators(u)) <= Cardinality(Request)
    BY FS_CardinalityType DEF PendingInv, PendingOrCreating
  <2> QED
    BY <2>1, CreatorsFinite
<1> QED
  BY <1>1, <1>2, <1>3, TypeInvAlways, PTL DEF Spec
=============================================================================
