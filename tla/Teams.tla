------------------------------- MODULE Teams --------------------------------
(***************************************************************************)
(* One team: its members and their roles, its invite link, its join        *)
(* requests, and the requests of the API that change them. A request runs  *)
(* one SQL statement at a time under READ COMMITTED; other requests        *)
(* interleave between the statements, so what it checked may no longer     *)
(* hold when it writes.                                                    *)
(*                                                                         *)
(* Code: api/api/routers/team.py, api/api/dependencies.py,                 *)
(* api/services/team_service.py, api/repositories/team.py, api/models/.    *)
(*                                                                         *)
(* A request that is turned down before it wrote anything has no step of   *)
(* its own when that shows at its first read; later it ends (End). The     *)
(* role check of the dependencies is the first read of a request.          *)
(*                                                                         *)
(* A definition announced as a mutant is a plausible mistake in the code,  *)
(* kept to show that a property would see it; no specification uses it.    *)
(***************************************************************************)
EXTENDS Naturals

CONSTANTS
  User,       \* registered users
  Founder,    \* the user who created the team
  Role,       \* roles a request may name
  Invitation, \* ids of invitations (bound: how many are ever created)
  Request,    \* requests running at a time
  MaxToken,   \* bound: how often the invite token is rotated
  NoOne       \* neither a user nor an invitation

AllRoles == {"ADMIN", "MAINTAINER", "EDITOR", "VIEWER"}
Maintains == {"ADMIN", "MAINTAINER"}   \* verify_team_maintainer

ASSUME FounderAssumption == Founder \in User /\ NoOne \notin User \cup Invitation
ASSUME RoleAssumption == {"ADMIN", "VIEWER"} \subseteq Role /\ Role \subseteq AllRoles
ASSUME MaxTokenAssumption == MaxToken \in Nat

None == "none"   \* role of a user with no team_members row

VARIABLES
  member,    \* role in u's team_members row, or None (uq_team_member: one row)
  row,       \* how often u's row was deleted: tells a row from a later one
  public,    \* teams.is_public
  token,     \* teams.invite_token: the n-th token issued
  invitee,   \* whom invitation i is about, NoOne if not created
  status,    \* status of invitation i
  req,       \* the running requests: next step and what they read
  uses,      \* history: members admitted with token n
  honoured,  \* history: invitations whose invitee got, or had, a row
  broken     \* history: invitations whose request died between its commits

team == <<member, row, public, token>>
invitations == <<invitee, status>>
history == <<uses, honoured, broken>>
vars == <<team, invitations, req, history>>

Step == {"idle", "join.member", "join.rotate", "join.add",
         "ask.member", "ask.pending", "ask.create",
         "respond.read", "respond.write", "respond.add",
         "role.read", "role.write", "remove.read", "remove.write",
         "rotate.write", "public.read", "public.write"}

Resolved == {"ACCEPTED", "DECLINED"}

(* What a request carries from one statement to the next: the user it is   *)
(* about, a role, an invitation, the token it came with, the version of    *)
(* the row it read, and a flag.                                            *)
Idle == [step |-> "idle", user |-> Founder, role |-> "VIEWER",
         inv |-> NoOne, tok |-> 0, row |-> 0, flag |-> FALSE]

Init ==
  /\ member = [u \in User |-> IF u = Founder THEN "ADMIN" ELSE None]
  /\ row = [u \in User |-> 0]
  /\ public \in BOOLEAN
  /\ token = 0
  /\ invitee = [i \in Invitation |-> NoOne]
  /\ status = [i \in Invitation |-> "absent"]
  /\ req = [r \in Request |-> Idle]
  /\ uses = [t \in 0..MaxToken |-> 0]
  /\ honoured = {}
  /\ broken = {}

At(r, s) == req[r].step = s
Goto(r, s) == req' = [req EXCEPT ![r].step = s]
End(r) == req' = [req EXCEPT ![r] = Idle]
Begin(r, q) == At(r, "idle") /\ req' = [req EXCEPT ![r] = q]

-----------------------------------------------------------------------------
(* POST /teams/join/{invite_token}: join_via_invite_link.                  *)

(* Mutant of Join: a missing role is not replaced by VIEWER.               *)
JoinWithoutRole(r, u, ro) ==
  /\ Begin(r, [Idle EXCEPT !.step = "join.member", !.user = u, !.role = None, !.tok = token])
  /\ UNCHANGED <<team, invitations, history>>

(* get_by_invite_token finds the team only by its current token. The body  *)
(* names the role, VIEWER by default.                                      *)
Join(r, u, ro) ==
  /\ Begin(r, [Idle EXCEPT !.step = "join.member", !.user = u, !.role = ro, !.tok = token])
  /\ UNCHANGED <<team, invitations, history>>

(* "Already a team member"                                                 *)
JoinMember(r) ==
  /\ At(r, "join.member")
  /\ IF member[req[r].user] # None THEN End(r) ELSE Goto(r, "join.rotate")
  /\ UNCHANGED <<team, invitations, history>>

(* regenerate_invite_token: whatever the token is by now, and in a commit  *)
(* of its own.                                                             *)
JoinRotate(r) ==
  /\ At(r, "join.rotate")
  /\ token < MaxToken
  /\ token' = token + 1
  /\ Goto(r, "join.add")
  /\ UNCHANGED <<member, row, public, invitations, history>>

(* add_member; a second row for the user violates uq_team_member.          *)
JoinAdd(r) ==
  /\ At(r, "join.add")
  /\ \/ /\ member[req[r].user] = None
        /\ member' = [member EXCEPT ![req[r].user] = req[r].role]
        /\ uses' = [uses EXCEPT ![req[r].tok] = @ + 1]
     \/ /\ member[req[r].user] # None
        /\ UNCHANGED <<member, uses>>
  /\ End(r)
  /\ UNCHANGED <<row, public, token, invitations, honoured, broken>>

-----------------------------------------------------------------------------
(* POST /teams/{id}/request-join: request_to_join.                         *)

Ask(r, u) ==
  /\ public
  /\ Begin(r, [Idle EXCEPT !.step = "ask.member", !.user = u])
  /\ UNCHANGED <<team, invitations, history>>

AskMember(r) ==
  /\ At(r, "ask.member")
  /\ IF member[req[r].user] # None THEN End(r) ELSE Goto(r, "ask.pending")
  /\ UNCHANGED <<team, invitations, history>>

(* Mutant of AskPending: get_pending_request is not asked.                 *)
AskUnchecked(r) ==
  /\ At(r, "ask.pending")
  /\ Goto(r, "ask.create")
  /\ UNCHANGED <<team, invitations, history>>

(* "Join request already pending"                                          *)
AskPending(r) ==
  /\ At(r, "ask.pending")
  /\ IF \E i \in Invitation : invitee[i] = req[r].user /\ status[i] = "PENDING"
     THEN End(r)
     ELSE Goto(r, "ask.create")
  /\ UNCHANGED <<team, invitations, history>>

AskCreate(r) ==
  /\ At(r, "ask.create")
  /\ \E i \in Invitation :
       /\ status[i] = "absent"
       /\ status' = [status EXCEPT ![i] = "PENDING"]
       /\ invitee' = [invitee EXCEPT ![i] = req[r].user]
  /\ End(r)
  /\ UNCHANGED <<team, history>>

-----------------------------------------------------------------------------
(* POST /teams/{id}/invitations/{id}/respond: respond_to_invitation.       *)

Respond(r, a, i, accept) ==
  /\ member[a] \in Maintains
  /\ status[i] # "absent"
  /\ Begin(r, [Idle EXCEPT !.step = "respond.read", !.inv = i, !.flag = accept])
  /\ UNCHANGED <<team, invitations, history>>

(* "Invitation already resolved"                                           *)
RespondRead(r) ==
  /\ At(r, "respond.read")
  /\ IF status[req[r].inv] # "PENDING"
     THEN End(r)
     ELSE req' = [req EXCEPT ![r].step = "respond.write", ![r].user = invitee[req[r].inv]]
  /\ UNCHANGED <<team, invitations, history>>

(* Mutant of RespondWrite: nobody is added.                                *)
RespondOnlyMarks(r) ==
  /\ At(r, "respond.write")
  /\ status' = [status EXCEPT ![req[r].inv] = IF req[r].flag THEN "ACCEPTED" ELSE "DECLINED"]
  /\ End(r)
  /\ UNCHANGED <<team, invitee, history>>

(* update_status commits by primary key, whatever the status is by now.    *)
RespondWrite(r) ==
  /\ At(r, "respond.write")
  /\ IF req[r].flag
     THEN status' = [status EXCEPT ![req[r].inv] = "ACCEPTED"] /\ Goto(r, "respond.add")
     ELSE status' = [status EXCEPT ![req[r].inv] = "DECLINED"] /\ End(r)
  /\ UNCHANGED <<team, invitee, history>>

RespondAdd(r) ==
  /\ At(r, "respond.add")
  /\ \/ /\ member[req[r].user] = None
        /\ member' = [member EXCEPT ![req[r].user] = "VIEWER"]
     \/ /\ member[req[r].user] # None
        /\ UNCHANGED member
  /\ honoured' = honoured \cup {req[r].inv}
  /\ End(r)
  /\ UNCHANGED <<row, public, token, invitations, uses, broken>>

-----------------------------------------------------------------------------
(* PATCH /teams/{id}/members/{id}/role: update_member_role.                *)

(* An admin may name himself; the session then keeps the row it loaded for *)
(* the role check, and finds it again while it is there.                   *)
SetRole(r, a, u, ro) ==
  /\ member[a] = "ADMIN"
  /\ Begin(r, [Idle EXCEPT !.step = "role.read", !.user = u, !.role = ro, !.row = row[u],
                           !.flag = (a = u)])
  /\ UNCHANGED <<team, invitations, history>>

(* From here on flag says that the UPDATE has something to change.         *)
RoleRead(r) ==
  /\ At(r, "role.read")
  /\ LET u == req[r].user
         seen == IF req[r].flag /\ row[u] = req[r].row THEN "ADMIN" ELSE member[u]
     IN IF member[u] = None
        THEN End(r)
        ELSE req' = [req EXCEPT ![r].step = "role.write", ![r].row = row[u],
                                ![r].flag = (seen # req[r].role)]
  /\ UNCHANGED <<team, invitations, history>>

(* Mutant of RoleWrite: the row is inserted when it is gone.               *)
RoleUpsert(r) ==
  /\ At(r, "role.write")
  /\ member' = [member EXCEPT ![req[r].user] = req[r].role]
  /\ End(r)
  /\ UNCHANGED <<row, public, token, invitations, history>>

(* The UPDATE names the row it read: when that was deleted it matches no   *)
(* row and the request fails, even if the user has joined again.           *)
RoleWrite(r) ==
  /\ At(r, "role.write")
  /\ LET u == req[r].user
     IN IF req[r].flag /\ member[u] # None /\ row[u] = req[r].row
        THEN member' = [member EXCEPT ![u] = req[r].role]
        ELSE UNCHANGED member
  /\ End(r)
  /\ UNCHANGED <<row, public, token, invitations, history>>

-----------------------------------------------------------------------------
(* DELETE /teams/{id}/members/{id}: remove_member.                         *)

(* An admin who names himself is always refused.                           *)
Remove(r, a, u) ==
  /\ member[a] = "ADMIN"
  /\ a # u
  /\ Begin(r, [Idle EXCEPT !.step = "remove.read", !.user = u])
  /\ UNCHANGED <<team, invitations, history>>

(* "Member not found", "Cannot remove team admin"                          *)
RemoveRead(r) ==
  /\ At(r, "remove.read")
  /\ IF member[req[r].user] \in {None, "ADMIN"}
     THEN End(r)
     ELSE req' = [req EXCEPT ![r].step = "remove.write", ![r].row = row[req[r].user]]
  /\ UNCHANGED <<team, invitations, history>>

(* The DELETE names the row it read, whatever its role is by now.          *)
RemoveWrite(r) ==
  /\ At(r, "remove.write")
  /\ LET u == req[r].user
     IN IF member[u] # None /\ row[u] = req[r].row
        THEN /\ member' = [member EXCEPT ![u] = None]
             /\ row' = [row EXCEPT ![u] = @ + 1]
        ELSE UNCHANGED <<member, row>>
  /\ End(r)
  /\ UNCHANGED <<public, token, invitations, history>>

-----------------------------------------------------------------------------
(* POST /teams/{id}/invite-link/regenerate and PATCH /teams/{id}.          *)

Rotate(r, a) ==
  /\ member[a] = "ADMIN"
  /\ Begin(r, [Idle EXCEPT !.step = "rotate.write"])
  /\ UNCHANGED <<team, invitations, history>>

RotateWrite(r) ==
  /\ At(r, "rotate.write")
  /\ token < MaxToken
  /\ token' = token + 1
  /\ End(r)
  /\ UNCHANGED <<member, row, public, invitations, history>>

SetPublic(r, a, p) ==
  /\ member[a] \in Maintains
  /\ Begin(r, [Idle EXCEPT !.step = "public.read", !.flag = p])
  /\ UNCHANGED <<team, invitations, history>>

(* get_team; for a value that is the team's already there is no UPDATE.    *)
PublicRead(r) ==
  /\ At(r, "public.read")
  /\ IF public = req[r].flag THEN End(r) ELSE Goto(r, "public.write")
  /\ UNCHANGED <<team, invitations, history>>

PublicWrite(r) ==
  /\ At(r, "public.write")
  /\ public' = req[r].flag
  /\ End(r)
  /\ UNCHANGED <<member, row, token, invitations, history>>

-----------------------------------------------------------------------------
(* The API process stops, or a statement raises: what the request has      *)
(* committed stays.                                                        *)
Die(r) ==
  /\ ~ At(r, "idle")
  /\ broken' = IF At(r, "respond.add") THEN broken \cup {req[r].inv} ELSE broken
  /\ End(r)
  /\ UNCHANGED <<team, invitations, uses, honoured>>

Start(r) ==
  \/ \E u \in User, ro \in Role : Join(r, u, ro)
  \/ \E u \in User : Ask(r, u)
  \/ \E a \in User, i \in Invitation, accept \in BOOLEAN : Respond(r, a, i, accept)
  \/ \E a, u \in User, ro \in Role : SetRole(r, a, u, ro)
  \/ \E a, u \in User : Remove(r, a, u)
  \/ \E a \in User : Rotate(r, a)
  \/ \E a \in User, p \in BOOLEAN : SetPublic(r, a, p)

Continue(r) ==
  \/ JoinMember(r)
  \/ JoinRotate(r)
  \/ JoinAdd(r)
  \/ AskMember(r)
  \/ AskPending(r)
  \/ AskCreate(r)
  \/ RespondRead(r)
  \/ RespondWrite(r)
  \/ RespondAdd(r)
  \/ RoleRead(r)
  \/ RoleWrite(r)
  \/ RemoveRead(r)
  \/ RemoveWrite(r)
  \/ RotateWrite(r)
  \/ PublicRead(r)
  \/ PublicWrite(r)

Next == \E r \in Request : Start(r) \/ Continue(r) \/ Die(r)

Spec == Init /\ [][Next]_vars

-----------------------------------------------------------------------------
RequestState ==
  [step : Step, user : User, role : AllRoles, inv : Invitation \cup {NoOne}, tok : 0..MaxToken,
   row : Nat, flag : BOOLEAN]

TypeOK ==
  /\ member \in [User -> AllRoles \cup {None}]
  /\ row \in [User -> Nat]
  /\ public \in BOOLEAN
  /\ token \in 0..MaxToken
  /\ invitee \in [Invitation -> User \cup {NoOne}]
  /\ status \in [Invitation -> {"absent", "PENDING"} \cup Resolved]
  /\ req \in [Request -> RequestState]
  /\ uses \in [0..MaxToken -> Nat]
  /\ honoured \subseteq Invitation
  /\ broken \subseteq Invitation

(* Under any interleaving of requests: accepting and adding are two        *)
(* commits, yet an accepted invitation gives its invitee a row (or finds   *)
(* one), unless the request died in between; nobody can answer it again.   *)
AcceptedIsHonoured ==
  \A i \in Invitation : status[i] = "ACCEPTED" =>
    \/ i \in honoured \cup broken
    \/ \E r \in Request : At(r, "respond.add") /\ req[r].inv = i

(* Under any interleaving: a removed member comes back only by a join or   *)
(* an accepted invitation, never by a role update that read the old row.   *)
RemovedStaysRemoved ==
  [][\A u \in User : member[u] = None /\ member'[u] # None =>
       \E r \in Request : req[r].user = u /\ req[r].step \in {"join.add", "respond.add"}]_vars

(* api/services/team_service.py:69: "Rotate token to prevent reuse".       *)
TokenAdmitsOne == \A t \in 0..MaxToken : uses[t] <= 1

(* The service keeps the rules of TeamPromise, where the database gives    *)
(* them one request at a time; each request may still die between two of   *)
(* its commits.                                                            *)
Promise == INSTANCE TeamPromise WITH used <- {t \in 0..MaxToken : uses[t] > 0}
KeepsRules == Promise!Spec
=============================================================================
