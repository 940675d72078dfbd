----------------------------- MODULE TeamPromise -----------------------------
(***************************************************************************)
(* The rules of a team, as its service states them in its errors and       *)
(* comments (api/services/team_service.py, api/api/dependencies.py), with  *)
(* each change a single step: a link admits one user and is spent before,  *)
(* a public team holds one open request per outsider, a maintainer answers *)
(* it once, and only an accepted one admits; admins change roles and       *)
(* remove whoever is not an admin. Which statements a request runs, and    *)
(* where it may stop, is left to Teams.                                    *)
(***************************************************************************)
EXTENDS Naturals

CONSTANTS User, Founder, Role, Invitation, NoOne

VARIABLES
  member,   \* the role of each user, "none" for an outsider
  public,   \* the team can be asked
  token,    \* the link in force
  used,     \* the links that have admitted somebody
  invitee,  \* who asked with each invitation
  status,   \* "absent", "PENDING", "ACCEPTED" or "DECLINED"
  honoured  \* accepted invitations that have led to a member

people == <<member, honoured>>
link == <<token, used>>
asked == <<invitee, status>>
vars == <<people, public, link, asked>>

Admin == \E a \in User : member[a] = "ADMIN"
Maintainer == \E a \in User : member[a] \in {"ADMIN", "MAINTAINER"}
Outsider(u) == member[u] = "none"

Init ==
  /\ member = [u \in User |-> IF u = Founder THEN "ADMIN" ELSE "none"]
  /\ public \in BOOLEAN
  /\ token = 0
  /\ used = {}
  /\ invitee = [i \in Invitation |-> NoOne]
  /\ status = [i \in Invitation |-> "absent"]
  /\ honoured = {}

(* A link is replaced by an admin, or by the outsider who used it ...      *)
Rotate ==
  /\ Admin \/ \E u \in User : Outsider(u)
  /\ token' = token + 1
  /\ UNCHANGED <<people, public, used, asked>>

(* ... who is then admitted, if nobody was with the same link.             *)
Admit(u, ro) ==
  /\ Outsider(u)
  /\ \E t \in 0..(token - 1) : t \notin used /\ used' = used \cup {t}
  /\ member' = [member EXCEPT ![u] = ro]
  /\ UNCHANGED <<honoured, public, token, asked>>

Ask(u, i) ==
  /\ public /\ Outsider(u)
  /\ \A k \in Invitation : ~ (status[k] = "PENDING" /\ invitee[k] = u)
  /\ status[i] = "absent"
  /\ status' = [status EXCEPT ![i] = "PENDING"]
  /\ invitee' = [invitee EXCEPT ![i] = u]
  /\ UNCHANGED <<people, public, link>>

Answer(i) ==
  /\ Maintainer
  /\ status[i] = "PENDING"
  /\ \E s \in {"ACCEPTED", "DECLINED"} : status' = [status EXCEPT ![i] = s]
  /\ UNCHANGED <<people, public, link, invitee>>

Honour(i) ==
  /\ status[i] = "ACCEPTED" /\ i \notin honoured
  /\ honoured' = honoured \cup {i}
  /\ member' = IF Outsider(invitee[i]) THEN [member EXCEPT ![invitee[i]] = "VIEWER"] ELSE member
  /\ UNCHANGED <<public, link, asked>>

SetRole(u, ro) ==
  /\ Admin /\ ~ Outsider(u)
  /\ member' = [member EXCEPT ![u] = ro]
  /\ UNCHANGED <<honoured, public, link, asked>>

Remove(u) ==
  /\ Admin /\ member[u] \notin {"none", "ADMIN"}
  /\ member' = [member EXCEPT ![u] = "none"]
  /\ UNCHANGED <<honoured, public, link, asked>>

SetPublic ==
  /\ Maintainer
  /\ public' = ~ public
  /\ UNCHANGED <<people, link, asked>>

Next ==
  \/ Rotate
  \/ SetPublic
  \/ \E u \in User :
       \/ \E ro \in Role : Admit(u, ro) \/ SetRole(u, ro)
       \/ \E i \in Invitation : Ask(u, i)
       \/ Remove(u)
  \/ \E i \in Invitation : Answer(i) \/ Honour(i)

Spec == Init /\ [][Next]_vars
=============================================================================
