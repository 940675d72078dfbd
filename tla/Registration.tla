---------------------------- MODULE Registration ----------------------------
(***************************************************************************)
(* Accounts: users register and get a personal team, users create further  *)
(* teams, and a session is what keeps a user's requests accepted. A user   *)
(* and a team are committed one after the other, and a slug is looked up   *)
(* before it is inserted; other requests interleave between the            *)
(* statements, and a request may stop between them.                        *)
(*                                                                         *)
(* Code: api/services/auth_service.py, api/repositories/user.py,           *)
(* api/repositories/team.py (slugs and creation), api/core/security.py,    *)
(* api/api/dependencies.py, api/api/routers/auth.py and team.py.           *)
(*                                                                         *)
(* The user inserted by request r, and the team inserted by r, are both    *)
(* named r. A Name is a username or the name of a team.                    *)
(*                                                                         *)
(* A definition announced as a mutant is a plausible mistake in the code,  *)
(* kept to show that a property would see it; no specification uses it.    *)
(***************************************************************************)
EXTENDS Naturals

CONSTANTS
  Request,     \* requests to /auth/register and POST /teams (bound: how many there are)
  Client,      \* users, by their registration, whose sessions are modelled (bound)
  Email, Name, \* what a request may carry
  Slug,
  Base,        \* the slug of a name: _slugify
  Numbered,    \* a slug with "-k" appended
  MaxCounter,  \* bound: largest k ever appended
  AccessLife,  \* ticks an access token lives (ACCESS_TOKEN_EXPIRE_MINUTES)
  RefreshLife, \* ticks a refresh token lives (REFRESH_TOKEN_EXPIRE_DAYS)
  Nothing      \* no email, name or owner

ASSUME ClientAssumption == Client \subseteq Request
ASSUME SlugAssumption ==
  /\ MaxCounter \in Nat \ {0}
  /\ Base \in [Name -> Slug]
  /\ Numbered \in [Slug \X (2..MaxCounter) -> Slug]
ASSUME LifeAssumption ==
  /\ AccessLife \in Nat \ {0}
  /\ RefreshLife \in Nat \ {0}

VARIABLES
  pc,        \* the next statement of a request, or how it ended
  email,     \* the email a registration carries
  name,      \* the username of a registration, or the name of a team
  owner,     \* the user a request makes ADMIN of its team
  counter,   \* k of the slug a request tries, 1 for the bare base
  users,     \* committed users
  teams,     \* committed teams, each with owner as its ADMIN
  active,    \* users.is_active
  session,   \* ticks a client's newest tokens still live, and what they were issued for
  raced,     \* history: requests that passed a check together with a rival
  broken     \* history: users whose registration stopped without a team

request == <<pc, email, name, owner, counter>>
tables == <<users, teams, active>>
history == <<raced, broken>>
vars == <<request, tables, session, history>>

Running == {"email", "username", "insert", "slug", "team"}
Ended == {"done", "refused", "conflict", "dead"}

NoSession == [access |-> 0, refresh |-> 0, by |-> "password"]

Init ==
  /\ pc = [r \in Request |-> "new"]
  /\ email = [r \in Request |-> Nothing]
  /\ name = [r \in Request |-> Nothing]
  /\ owner = [r \in Request |-> Nothing]
  /\ counter = [r \in Request |-> 1]
  /\ users = {}
  /\ teams = {}
  /\ active = {}
  /\ session = [c \in Client |-> NoSession]
  /\ raced = {}
  /\ broken = {}

At(r, s) == pc[r] = s
Goto(r, s) == pc' = [pc EXCEPT ![r] = s]

(* r and the rivals that have passed the same check may insert the same.   *)
Note(r, rivals) == raced' = IF rivals = {} THEN raced ELSE raced \cup rivals \cup {r}

EmailTaken(r) == \E u \in users : email[u] = email[r]
NameTaken(r) == \E u \in users : name[u] = name[r]

(* _generate_unique_slug tries base, base-2, base-3 and so on.             *)
Candidate(n, k) == IF k = 1 THEN Base[n] ELSE Numbered[Base[n], k]
SlugOf(r) == Candidate(name[r], counter[r])
SlugTaken(r) == \E t \in teams : SlugOf(t) = SlugOf(r)

EmailRivals(r) == {s \in Request \ {r} : pc[s] \in {"username", "insert"} /\ email[s] = email[r]}
NameRivals(r) == {s \in Request \ {r} : pc[s] = "insert" /\ name[s] = name[r]}
SlugRivals(r) == {s \in Request \ {r} : pc[s] = "team" /\ SlugOf(s) = SlugOf(r)}

-----------------------------------------------------------------------------
(* POST /auth/register: register_new_user.                                 *)

Register(r, e, n) ==
  /\ At(r, "new")
  /\ Goto(r, "email")
  /\ email' = [email EXCEPT ![r] = e]
  /\ name' = [name EXCEPT ![r] = n]
  /\ owner' = [owner EXCEPT ![r] = r]
  /\ UNCHANGED <<counter, tables, session, history>>

(* get_by_email: "Email already registered"                                *)
CheckEmail(r) ==
  /\ At(r, "email")
  /\ \/ EmailTaken(r) /\ Goto(r, "refused") /\ UNCHANGED raced
     \/ ~ EmailTaken(r) /\ Goto(r, "username") /\ Note(r, EmailRivals(r))
  /\ UNCHANGED <<email, name, owner, counter, tables, session, broken>>

(* get_by_username: "Username already taken"                               *)
CheckUsername(r) ==
  /\ At(r, "username")
  /\ \/ NameTaken(r) /\ Goto(r, "refused") /\ UNCHANGED raced
     \/ ~ NameTaken(r) /\ Goto(r, "insert") /\ Note(r, NameRivals(r))
  /\ UNCHANGED <<email, name, owner, counter, tables, session, broken>>

(* Mutant of InsertUser: no personal team is provisioned.                  *)
InsertUserOnly(r) ==
  /\ At(r, "insert")
  /\ ~ EmailTaken(r) /\ ~ NameTaken(r)
  /\ users' = users \cup {r}
  /\ active' = active \cup {r}
  /\ Goto(r, "done")
  /\ UNCHANGED <<email, name, owner, counter, teams, session, history>>

(* user_repo.create: a commit of its own. Email and username are unique    *)
(* columns, so the loser of a race gets an integrity error.                *)
InsertUser(r) ==
  /\ At(r, "insert")
  /\ \/ /\ EmailTaken(r) \/ NameTaken(r)
        /\ Goto(r, "conflict")
        /\ UNCHANGED <<users, active>>
     \/ /\ ~ EmailTaken(r) /\ ~ NameTaken(r)
        /\ users' = users \cup {r}
        /\ active' = active \cup {r}
        /\ Goto(r, "slug")
  /\ UNCHANGED <<email, name, owner, counter, teams, session, history>>

-----------------------------------------------------------------------------
(* create_team_with_member, for a registration and for POST /teams.        *)

(* get_current_user decodes a token that has not expired, access or        *)
(* refresh: it looks at the subject only. get_current_active_user refuses  *)
(* an inactive user. (The log WebSocket, logs.py, decodes the token and    *)
(* asks no more: neither for the user's row nor for is_active.)            *)
Admitted(u) ==
  /\ session[u].access > 0 \/ session[u].refresh > 0
  /\ u \in users
  /\ u \in active

CreateTeam(r, u, n) ==
  /\ At(r, "new")
  /\ Admitted(u)
  /\ Goto(r, "slug")
  /\ name' = [name EXCEPT ![r] = n]
  /\ owner' = [owner EXCEPT ![r] = u]
  /\ UNCHANGED <<email, counter, tables, session, history>>

(* Mutants of CheckSlug: the loop is a single `if', or it starts to count  *)
(* at 3.                                                                   *)
CheckSlugOnce(r) ==
  /\ At(r, "slug")
  /\ Goto(r, "team")
  /\ IF SlugTaken(r)
     THEN counter' = [counter EXCEPT ![r] = 2] /\ UNCHANGED raced
     ELSE Note(r, SlugRivals(r)) /\ UNCHANGED counter
  /\ UNCHANGED <<email, name, owner, tables, session, broken>>
CheckSlugFromThree(r) ==
  /\ At(r, "slug")
  /\ \/ /\ SlugTaken(r)
        /\ counter[r] < MaxCounter
        /\ counter' = [counter EXCEPT ![r] = IF @ = 1 THEN 3 ELSE @ + 1]
        /\ UNCHANGED <<pc, raced>>
     \/ /\ ~ SlugTaken(r)
        /\ Goto(r, "team")
        /\ Note(r, SlugRivals(r))
        /\ UNCHANGED counter
  /\ UNCHANGED <<email, name, owner, tables, session, broken>>

(* One turn of the loop of _generate_unique_slug: get_by_slug.             *)
CheckSlug(r) ==
  /\ At(r, "slug")
  /\ \/ /\ SlugTaken(r)
        /\ counter[r] < MaxCounter
        /\ counter' = [counter EXCEPT ![r] = @ + 1]
        /\ UNCHANGED <<pc, raced>>
     \/ /\ ~ SlugTaken(r)
        /\ Goto(r, "team")
        /\ Note(r, SlugRivals(r))
        /\ UNCHANGED counter
  /\ UNCHANGED <<email, name, owner, tables, session, broken>>

(* A registration that stops here has committed its user.                  *)
Abandon(r) == broken' = IF r \in users THEN broken \cup {r} ELSE broken

(* Team and ADMIN member in one transaction; slug is a unique column.      *)
InsertTeam(r) ==
  /\ At(r, "team")
  /\ \/ SlugTaken(r) /\ Goto(r, "conflict") /\ Abandon(r) /\ UNCHANGED teams
     \/ ~ SlugTaken(r) /\ Goto(r, "done") /\ teams' = teams \cup {r} /\ UNCHANGED broken
  /\ UNCHANGED <<email, name, owner, counter, users, active, session, raced>>

(* The API process is killed, or the database is lost for a moment.        *)
Die(r) ==
  /\ pc[r] \in Running
  /\ Goto(r, "dead")
  /\ Abandon(r)
  /\ UNCHANGED <<email, name, owner, counter, tables, session, raced>>

-----------------------------------------------------------------------------
(* Tokens. A client uses its newest ones.                                  *)

(* Mutant of Issue: each token is given the lifetime of the other.         *)
IssueSwapped(u, by) ==
  session' = [session EXCEPT ![u] = [access |-> RefreshLife, refresh |-> AccessLife, by |-> by]]

(* _issue_token_pair, for a password or for a refresh token                *)
Issue(u, by) ==
  session' = [session EXCEPT ![u] = [access |-> AccessLife, refresh |-> RefreshLife, by |-> by]]

(* authenticate_user: an identifier with an "@" (all of Email) is looked   *)
(* up as an email, any other as a username; a client knows its own         *)
(* password only. is_active is not asked.                                  *)
Found(id) == {u \in users : id = IF id \in Email THEN email[u] ELSE name[u]}
Login(u, id) ==
  /\ Found(id) = {u}
  /\ Issue(u, "password")
  /\ UNCHANGED <<request, tables, history>>

(* Mutant of Refresh: the user is not looked up.                           *)
RefreshUnchecked(u) ==
  /\ session[u].refresh > 0
  /\ Issue(u, "refresh")
  /\ UNCHANGED <<request, tables, history>>

(* refresh_access_token                                                    *)
Refresh(u) ==
  /\ session[u].refresh > 0
  /\ u \in users
  /\ u \in active
  /\ Issue(u, "refresh")
  /\ UNCHANGED <<request, tables, history>>

Before(n) == IF n > 0 THEN n - 1 ELSE 0

(* "exp" is a fixed time: both tokens come closer to it.                   *)
Tick(u) ==
  /\ session[u].access > 0 \/ session[u].refresh > 0
  /\ session' = [session EXCEPT ![u].access = Before(@), ![u].refresh = Before(@)]
  /\ UNCHANGED <<request, tables, history>>

(* Nothing in the API clears is_active; an operator does, in the database. *)
Deactivate(u) ==
  /\ u \in active
  /\ active' = active \ {u}
  /\ UNCHANGED <<request, users, teams, session, history>>

-----------------------------------------------------------------------------
Statement(r) ==
  \/ CheckEmail(r)
  \/ CheckUsername(r)
  \/ InsertUser(r)
  \/ CheckSlug(r)
  \/ InsertTeam(r)

RequestNext(r) ==
  \/ \E e \in Email, n \in Name : Register(r, e, n)
  \/ \E u \in Client, n \in Name : CreateTeam(r, u, n)
  \/ Statement(r)
  \/ Die(r)

ClientNext(u) ==
  \/ \E id \in Email \cup Name : Login(u, id)
  \/ Refresh(u)
  \/ Tick(u)
  \/ Deactivate(u)

Next == (\E r \in Request : RequestNext(r)) \/ (\E u \in Client : ClientNext(u))

(* Time passes. Nothing is assumed of clients, operators and requests.     *)
Fairness == \A u \in Client : WF_vars(Tick(u))

Spec == Init /\ [][Next]_vars /\ Fairness

-----------------------------------------------------------------------------
TypeOK ==
  /\ pc \in [Request -> {"new"} \cup Running \cup Ended]
  /\ email \in [Request -> Email \cup {Nothing}]
  /\ name \in [Request -> Name \cup {Nothing}]
  /\ owner \in [Request -> Request \cup {Nothing}]
  /\ counter \in [Request -> 1..MaxCounter]
  /\ users \subseteq Request
  /\ teams \subseteq Request
  /\ active \subseteq users
  /\ session \in [Client ->
       [access : 0..AccessLife, refresh : 0..RefreshLife, by : {"password", "refresh"}]]
  /\ raced \subseteq Request
  /\ broken \subseteq users

(* api/services/auth_service.py:42: "Auto-provision personal team for      *)
(* every new user". A committed user is ADMIN of the team of his           *)
(* registration, or will be, or the registration stopped between its two   *)
(* commits, by a death or a lost race, and nothing will repair it.         *)
UserHasTeam ==
  \A u \in users :
    \/ u \in teams /\ owner[u] = u
    \/ pc[u] \in {"slug", "team"} /\ owner[u] = u
    \/ u \in broken /\ pc[u] \in {"conflict", "dead"}

(* An integrity error reaches a client only after a real race: two         *)
(* requests that had both passed the check of the same email, username or  *)
(* slug. Without one, the checks and the numbering of slugs suffice.       *)
ConflictOnlyIfRaced == \A r \in Request : pc[r] = "conflict" => r \in raced

(* A team has the first free slug of its name: base-k is used only while   *)
(* base and every lower number are, and they stay used.                    *)
FirstFreeSlug ==
  \A t \in teams : \A k \in 1..(counter[t] - 1) :
    \E s \in teams : SlugOf(s) = Candidate(name[t], k)

(* A deactivated user cannot keep his tokens alive by refreshing them: if  *)
(* he does not log in with his password again, they expire for good. (The  *)
(* login itself does not ask is_active, and gives him tokens; what they    *)
(* open is Admitted, which refuses him, and the log WebSocket, which does  *)
(* not.)                                                                   *)
DeactivatedIsLockedOut ==
  \A u \in Client :
    <>[](u \in users \ active) =>
      \/ []<><<\E id \in Email \cup Name : Login(u, id)>>_vars
      \/ <>[](session[u].access = 0 /\ session[u].refresh = 0)
=============================================================================
