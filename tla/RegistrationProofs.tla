------------------------- MODULE RegistrationProofs -------------------------
(***************************************************************************)
(* Proofs about Registration, for any requests, clients, emails and names, *)
(* any way of making slugs and any lifetimes of the tokens.                *)
(***************************************************************************)
EXTENDS Registration, TLAPS

LEMMA TypeInit == Init => TypeOK
<1> SUFFICES ASSUME Init PROVE TypeOK
  OBVIOUS
<1>1. NoSession \in [access : 0..AccessLife, refresh : 0..RefreshLife, by : {"password", "refresh"}]
  BY LifeAssumption DEF NoSession
<1> QED
  BY <1>1, SlugAssumption DEF Init, TypeOK

LEMMA TypeRequest ==
  ASSUME TypeOK, NEW r \in Request, RequestNext(r)
  PROVE  TypeOK'
<1> USE DEF TypeOK, At, Goto, Note, Running, Ended, request, tables, history
<1>1. CASE \E e \in Email, n \in Name : Register(r, e, n)
  BY <1>1 DEF Register
<1>2. CASE CheckEmail(r)
  BY <1>2 DEF CheckEmail, EmailRivals
<1>3. CASE CheckUsername(r)
  BY <1>3 DEF CheckUsername, NameRivals
<1>4. CASE InsertUser(r)
  BY <1>4 DEF InsertUser
<1>5. CASE \E u \in Client, n \in Name : CreateTeam(r, u, n)
  BY <1>5, ClientAssumption DEF CreateTeam
<1>6. CASE CheckSlug(r)
  <2>1. counter' \in [Request -> 1..MaxCounter]
    BY <1>6, SlugAssumption DEF CheckSlug
  <2> QED
    BY <1>6, <2>1 DEF CheckSlug, SlugRivals
<1>7. CASE InsertTeam(r)
  BY <1>7 DEF InsertTeam, Abandon
<1>8. CASE Die(r)
  BY <1>8 DEF Die, Abandon
<1> QED
  BY <1>1, <1>2, <1>3, <1>4, <1>5, <1>6, <1>7, <1>8 DEF RequestNext, Statement

LEMMA TypeClient ==
  ASSUME TypeOK, NEW u \in Client, ClientNext(u)
  PROVE  TypeOK'
<1> DEFINE S == [access : 0..AccessLife, refresh : 0..RefreshLife, by : {"password", "refresh"}]
<1> USE DEF request, tables, history
<1>1. ASSUME Issue(u, "password") \/ Issue(u, "refresh")
      PROVE  session' \in [Client -> S]
  <2>1. \A by \in {"password", "refresh"} :
          [access |-> AccessLife, refresh |-> RefreshLife, by |-> by] \in S
    BY LifeAssumption
  <2> QED
    BY <1>1, <2>1 DEF Issue, TypeOK
<1>2. CASE \E id \in Email \cup Name : Login(u, id)
  BY <1>1, <1>2 DEF Login, TypeOK
<1>3. CASE Refresh(u)
  BY <1>1, <1>3 DEF Refresh, TypeOK
<1>4. CASE Tick(u)
  <2>1. session[u] \in S
    BY DEF TypeOK
  <2>2. /\ Before(session[u].access) \in 0..AccessLife
        /\ Before(session[u].refresh) \in 0..RefreshLife
    BY <2>1, LifeAssumption DEF Before
  <2>3. session' \in [Client -> S]
    BY <1>4, <2>1, <2>2 DEF Tick, TypeOK
  <2> QED
    BY <1>4, <2>3 DEF Tick, TypeOK
<1>5. CASE Deactivate(u)
  BY <1>5 DEF Deactivate, TypeOK
<1> QED
  BY <1>2, <1>3, <1>4, <1>5 DEF ClientNext

LEMMA TypeNext == TypeOK /\ [Next]_vars => TypeOK'
<1>1. CASE UNCHANGED vars
  BY <1>1 DEF TypeOK, vars, request, tables, history
<1> QED
  BY <1>1, TypeRequest, TypeClient DEF Next

(* All variables keep the values their declarations promise.               *)
THEOREM TypeCorrect == Spec => []TypeOK
  BY TypeInit, TypeNext, PTL DEF Spec

-----------------------------------------------------------------------------
(* What a request is, by its place: a user is committed with its own       *)
(* registration as owner, and what follows is his team or a named failure; *)
(* a team is never without the end of its request.                         *)
PlaceInv ==
  \A r \in Request :
    /\ pc[r] \in {"new", "email", "username", "insert"} => r \notin users /\ counter[r] = 1
    /\ pc[r] \in {"email", "username", "insert"} => owner[r] = r
    /\ r \in teams => pc[r] = "done"

Inv == TypeOK /\ PlaceInv /\ UserHasTeam

LEMMA InvInit == Init => Inv
  BY TypeInit DEF Init, Inv, PlaceInv, UserHasTeam

(* A client's step leaves requests, users and teams alone.                 *)
LEMMA ClientFrame ==
  ASSUME NEW u \in Client, ClientNext(u)
  PROVE  UNCHANGED <<request, users, teams, history>>
  BY DEF ClientNext, Login, Refresh, Tick, Deactivate, tables

LEMMA InvNext == Inv /\ [Next]_vars => Inv'
<1> SUFFICES ASSUME Inv, [Next]_vars PROVE Inv'
  OBVIOUS
<1>1. TypeOK'
  BY TypeNext DEF Inv
<1>2. ASSUME UNCHANGED <<request, users, teams, history>> PROVE Inv'
  BY <1>1, <1>2 DEF Inv, PlaceInv, UserHasTeam, request, history
<1>3. ASSUME NEW r \in Request, RequestNext(r) PROVE Inv'
  <2> USE DEF Inv, TypeOK, PlaceInv, UserHasTeam, At, Goto, Running, tables
  <2>1. CASE \E e \in Email, n \in Name : Register(r, e, n)
    BY <1>1, <2>1 DEF Register, history
  <2>2. CASE CheckEmail(r)
    BY <1>1, <2>2 DEF CheckEmail
  <2>3. CASE CheckUsername(r)
    BY <1>1, <2>3 DEF CheckUsername
  <2>4. CASE InsertUser(r)
    BY <1>1, <2>4 DEF InsertUser, history
  <2>5. CASE \E u \in Client, n \in Name : CreateTeam(r, u, n)
    BY <1>1, <2>5 DEF CreateTeam, history
  <2>6. CASE CheckSlug(r)
    BY <1>1, <2>6 DEF CheckSlug
  <2>7. CASE InsertTeam(r)
    BY <1>1, <2>7 DEF InsertTeam, Abandon
  <2>8. CASE Die(r)
    BY <1>1, <2>8 DEF Die, Abandon
  <2> QED
    BY <1>3, <2>1, <2>2, <2>3, <2>4, <2>5, <2>6, <2>7, <2>8 DEF RequestNext, Statement
<1>4. CASE UNCHANGED vars
  BY <1>2, <1>4 DEF vars, tables
<1> QED
  BY <1>2, <1>3, <1>4, ClientFrame DEF Next

(* Every user has his personal team, or will, or his registration stopped  *)
(* in between (auth_service 37-43), for any number of requests.            *)
THEOREM EveryUserHasTeam == Spec => []UserHasTeam
  BY InvInit, InvNext, PTL DEF Spec, Inv

-----------------------------------------------------------------------------
(* The numbering of slugs: of a request that looks for a slug, has found   *)
(* one or has inserted its team, every lower candidate is some team's.     *)
Numbering == {"slug", "team"}

LowerTaken(r) == \A k \in 1..(counter[r] - 1) : \E s \in teams : SlugOf(s) = Candidate(name[r], k)

SlugInv == \A r \in Request : pc[r] \in Numbering \/ r \in teams => LowerTaken(r)

LEMMA SlugInvInit == Init => SlugInv
  BY DEF Init, SlugInv, Numbering

(* Committed teams stay, with their names and their slugs.                 *)
LEMMA TeamsStay ==
  ASSUME Inv, NEW r \in Request, RequestNext(r)
  PROVE  /\ teams \subseteq teams'
         /\ \A s \in teams : name'[s] = name[s] /\ counter'[s] = counter[s]
         /\ \A s \in Request \ {r} : /\ name'[s] = name[s] /\ counter'[s] = counter[s]
                                     /\ email'[s] = email[s] /\ pc'[s] = pc[s]
<1> USE DEF Inv, TypeOK, PlaceInv, At, Goto, tables
<1>1. CASE \E e \in Email, n \in Name : Register(r, e, n)
  BY <1>1 DEF Register
<1>2. CASE \E u \in Client, n \in Name : CreateTeam(r, u, n)
  BY <1>2 DEF CreateTeam
<1>3. CASE CheckSlug(r)
  BY <1>3 DEF CheckSlug
<1>4. CASE CheckEmail(r) \/ CheckUsername(r) \/ InsertUser(r) \/ InsertTeam(r) \/ Die(r)
  BY <1>4 DEF CheckEmail, CheckUsername, InsertUser, InsertTeam, Die
<1> QED
  BY <1>1, <1>2, <1>3, <1>4 DEF RequestNext, Statement

LEMMA SlugInvNext == Inv /\ SlugInv /\ [Next]_vars => SlugInv'
<1> SUFFICES ASSUME Inv, SlugInv, [Next]_vars PROVE SlugInv'
  OBVIOUS
<1>1. ASSUME UNCHANGED <<request, users, teams, history>> PROVE SlugInv'
  BY <1>1 DEF SlugInv, LowerTaken, SlugOf, Candidate, Numbering, request
<1>2. ASSUME NEW r \in Request, RequestNext(r) PROVE SlugInv'
  <2>1. \A s \in teams : SlugOf(s)' = SlugOf(s)
    BY <1>2, TeamsStay DEF SlugOf, Candidate
  <2>2. ASSUME NEW q \in Request, LowerTaken(q), name'[q] = name[q], counter'[q] = counter[q]
        PROVE  LowerTaken(q)'
    <3>1. teams \subseteq teams' /\ Candidate(name'[q], 1) = Candidate(name[q], 1)
      BY <1>2, <2>2, TeamsStay
    <3>2. ASSUME NEW k \in 1..(counter[q] - 1)
          PROVE  \E s \in teams' : SlugOf(s)' = Candidate(name[q], k)
      BY <2>1, <2>2, <3>1, <3>2 DEF LowerTaken
    <3> QED
      BY <2>2, <3>2 DEF LowerTaken, Candidate
  <2>3. ASSUME NEW q \in Request, q # r, pc'[q] \in Numbering \/ q \in teams' PROVE LowerTaken(q)'
    <3>1. pc[q] \in Numbering \/ q \in teams
      <4>1. teams' \subseteq teams \cup {r}
        BY <1>2 DEF RequestNext, Statement, Register, CreateTeam, CheckEmail, CheckUsername,
           InsertUser, CheckSlug, InsertTeam, Die, tables
      <4> QED
        BY <1>2, <2>3, <4>1, TeamsStay
    <3> QED
      BY <1>2, <2>2, <2>3, <3>1, TeamsStay DEF SlugInv
  <2>4. ASSUME pc'[r] \in Numbering \/ r \in teams' PROVE LowerTaken(r)'
    <3>1. CASE counter'[r] = 1
      BY <3>1 DEF LowerTaken
    <3>2. CASE /\ pc[r] \in Numbering \/ r \in teams
               /\ name'[r] = name[r] /\ counter'[r] = counter[r]
      BY <2>2, <3>2 DEF SlugInv
    <3>3. CASE CheckSlug(r) /\ counter'[r] = counter[r] + 1
      <4>1. At(r, "slug") /\ SlugTaken(r) /\ name' = name /\ teams' = teams /\ counter[r] \in Nat
        BY <3>3 DEF CheckSlug, tables, Inv, TypeOK
      <4>2. PICK s \in teams : SlugOf(s) = Candidate(name[r], counter[r])
        BY <4>1 DEF SlugTaken, SlugOf
      <4>3. LowerTaken(r)
        BY <4>1 DEF SlugInv, At, Numbering
      <4>4. ASSUME NEW k \in 1..(counter'[r] - 1)
            PROVE  \E t \in teams : SlugOf(t)' = Candidate(name[r], k)
        <5>1. CASE k = counter[r]
          BY <2>1, <4>2, <5>1
        <5>2. CASE k # counter[r]
          <6>1. k \in 1..(counter[r] - 1)
            BY <3>3, <4>1, <5>2
          <6> QED
            BY <2>1, <4>3, <6>1 DEF LowerTaken
        <5> QED
          BY <5>1, <5>2
      <4> QED
        BY <4>1, <4>4 DEF LowerTaken, Candidate
    <3> QED
      <4> USE DEF Inv, TypeOK, PlaceInv, At, Goto, Numbering, tables
      <4>1. CASE \E e \in Email, n \in Name : Register(r, e, n)
        BY <3>1, <4>1 DEF Register
      <4>2. CASE \E u \in Client, n \in Name : CreateTeam(r, u, n)
        BY <3>1, <4>2 DEF CreateTeam
      <4>3. CASE CheckEmail(r) \/ CheckUsername(r) \/ InsertUser(r)
        BY <3>1, <4>3 DEF CheckEmail, CheckUsername, InsertUser
      <4>4. CASE CheckSlug(r)
        BY <3>2, <3>3, <4>4 DEF CheckSlug
      <4>5. CASE InsertTeam(r) \/ Die(r)
        BY <2>4, <3>2, <4>5 DEF InsertTeam, Die
      <4> QED
        BY <1>2, <4>1, <4>2, <4>3, <4>4, <4>5 DEF RequestNext, Statement
  <2> QED
    BY <2>3, <2>4 DEF SlugInv
<1>3. CASE UNCHANGED vars
  BY <1>1, <1>3 DEF vars, tables
<1> QED
  BY <1>1, <1>2, <1>3, ClientFrame DEF Next

(* The slug of a team is the first that was free (repositories/team 30-38), *)
(* for any way of making slugs, colliding ones included.                   *)
THEOREM SlugsAreFirstFree == Spec => []FirstFreeSlug
<1>1. Inv /\ SlugInv => FirstFreeSlug
  BY DEF Inv, TypeOK, SlugInv, LowerTaken, FirstFreeSlug
<1> QED
  BY <1>1, InvInit, InvNext, SlugInvInit, SlugInvNext, PTL DEF Spec

-----------------------------------------------------------------------------
(* What a request that nobody races with has checked still holds when it   *)
(* inserts: no row has come in between, and nobody else is about to.       *)
EmailFree(r) == pc[r] \in {"username", "insert"} => ~ EmailTaken(r) /\ EmailRivals(r) = {}
NameFree(r) == pc[r] = "insert" => ~ NameTaken(r) /\ NameRivals(r) = {}
SlugFree(r) == pc[r] = "team" => ~ SlugTaken(r) /\ SlugRivals(r) = {}

RaceInv ==
  \A r \in Request \ raced :
    EmailFree(r) /\ NameFree(r) /\ SlugFree(r) /\ pc[r] # "conflict"

LEMMA RaceInvInit == Init => RaceInv
  BY DEF Init, RaceInv, EmailFree, NameFree, SlugFree

(* What one request's step does to the tables and to its own place.        *)
LEMMA RequestFrame ==
  ASSUME Inv, NEW r \in Request, RequestNext(r)
  PROVE  /\ raced \subseteq raced'
         /\ users' \subseteq users \cup {r}
         /\ teams' \subseteq teams \cup {r}
         /\ r \in users' /\ r \notin users => pc[r] = "insert"
         /\ r \in teams' /\ r \notin teams => pc[r] = "team"
         /\ r \in users' \/ pc[r] # "new" => email'[r] = email[r]
         /\ pc[r] # "new" => name'[r] = name[r]
         /\ pc[r] # "slug" => counter'[r] = counter[r]
<1> USE DEF Inv, TypeOK, PlaceInv, At, Goto, Note, tables, history
<1>1. CASE \E e \in Email, n \in Name : Register(r, e, n)
  BY <1>1 DEF Register
<1>2. CASE \E u \in Client, n \in Name : CreateTeam(r, u, n)
  BY <1>2 DEF CreateTeam
<1>3. CASE CheckEmail(r) \/ CheckUsername(r) \/ InsertUser(r)
  BY <1>3 DEF CheckEmail, CheckUsername, InsertUser
<1>4. CASE CheckSlug(r)
  BY <1>4 DEF CheckSlug
<1>5. CASE InsertTeam(r) \/ Die(r)
  BY <1>5 DEF InsertTeam, Die
<1> QED
  BY <1>1, <1>2, <1>3, <1>4, <1>5 DEF RequestNext, Statement

(* The places a step can bring a request to, and who is then in raced.     *)
LEMMA Checked ==
  ASSUME Inv, NEW r \in Request, RequestNext(r)
  PROVE  /\ pc'[r] = "username" =>
              /\ ~ EmailTaken(r) /\ users' = users /\ email' = email
              /\ EmailRivals(r) \subseteq raced'
              /\ EmailRivals(r) # {} => r \in raced'
         /\ pc'[r] = "insert" =>
              /\ pc[r] = "username"
              /\ ~ NameTaken(r) /\ users' = users /\ name' = name
              /\ NameRivals(r) \subseteq raced'
              /\ NameRivals(r) # {} => r \in raced'
         /\ pc'[r] = "team" =>
              /\ ~ SlugTaken(r) /\ teams' = teams /\ name' = name /\ counter' = counter
              /\ SlugRivals(r) \subseteq raced'
              /\ SlugRivals(r) # {} => r \in raced'
         /\ pc'[r] = "conflict" =>
              \/ pc[r] = "insert" /\ (EmailTaken(r) \/ NameTaken(r))
              \/ pc[r] = "team" /\ SlugTaken(r)
<1> USE DEF Inv, TypeOK, At, Goto, Note, tables
<1>1. CASE \E e \in Email, n \in Name : Register(r, e, n)
  BY <1>1 DEF Register
<1>2. CASE \E u \in Client, n \in Name : CreateTeam(r, u, n)
  BY <1>2 DEF CreateTeam
<1>3. CASE CheckEmail(r)
  BY <1>3 DEF CheckEmail
<1>4. CASE CheckUsername(r)
  BY <1>4 DEF CheckUsername
<1>5. CASE InsertUser(r)
  BY <1>5 DEF InsertUser
<1>6. CASE CheckSlug(r)
  BY <1>6 DEF CheckSlug
<1>7. CASE InsertTeam(r) \/ Die(r)
  BY <1>7 DEF InsertTeam, Die
<1> QED
  BY <1>1, <1>2, <1>3, <1>4, <1>5, <1>6, <1>7 DEF RequestNext, Statement

(* Of the others, those who stay out of raced keep what they have checked. *)
LEMMA OthersStayFree ==
  ASSUME Inv, RaceInv, NEW r \in Request, RequestNext(r), NEW q \in Request \ raced', q # r
  PROVE  EmailFree(q)' /\ NameFree(q)' /\ SlugFree(q)' /\ pc'[q] # "conflict"
<1>1. /\ q \notin raced
      /\ pc'[q] = pc[q] /\ email'[q] = email[q] /\ name'[q] = name[q] /\ counter'[q] = counter[q]
      /\ EmailFree(q) /\ NameFree(q) /\ SlugFree(q) /\ pc[q] # "conflict"
  BY RequestFrame, TeamsStay DEF RaceInv
<1>2. \A s \in Request \ {r} : /\ pc'[s] = pc[s] /\ email'[s] = email[s]
                              /\ name'[s] = name[s] /\ counter'[s] = counter[s]
  BY TeamsStay
<1>3. users \subseteq Request /\ teams \subseteq Request
  BY DEF Inv, TypeOK
<1>4. EmailFree(q)'
  <2> SUFFICES ASSUME pc[q] \in {"username", "insert"}
               PROVE  ~ EmailTaken(q)' /\ EmailRivals(q)' = {}
    BY <1>1 DEF EmailFree
  <2>1. ~ EmailTaken(q) /\ EmailRivals(q) = {}
    BY <1>1 DEF EmailFree
  <2>2. ASSUME NEW u \in users' PROVE email'[u] # email[q]
    <3>1. CASE u # r
      BY <1>2, <1>3, <2>1, <2>2, <3>1, RequestFrame DEF EmailTaken
    <3>2. CASE u = r /\ r \in users
      BY <2>1, <2>2, <3>2, RequestFrame DEF EmailTaken
    <3>3. CASE u = r /\ r \notin users
      <4>1. pc[r] = "insert" /\ email'[r] = email[r]
        BY <2>2, <3>3, RequestFrame
      <4> QED
        BY <2>1, <3>3, <4>1 DEF EmailRivals
    <3> QED
      BY <3>1, <3>2, <3>3
  <2>3. ASSUME NEW s \in Request \ {q}, pc'[s] \in {"username", "insert"}, email'[s] = email[q]
        PROVE  FALSE
    <3>1. CASE s # r
      BY <1>2, <2>1, <2>3, <3>1 DEF EmailRivals
    <3>2. CASE s = r /\ pc'[r] = "username"
      <4>1. q \in EmailRivals(r)
        BY <2>3, <3>2, Checked DEF EmailRivals
      <4> QED
        BY <3>2, <4>1, Checked
    <3>3. CASE s = r /\ pc'[r] = "insert"
      <4>1. pc[r] = "username" /\ email'[r] = email[r]
        BY <3>3, Checked, RequestFrame
      <4> QED
        BY <2>1, <2>3, <3>3, <4>1 DEF EmailRivals
    <3> QED
      BY <2>3, <3>1, <3>2, <3>3
  <2> QED
    BY <1>1, <2>2, <2>3 DEF EmailTaken, EmailRivals
<1>5. NameFree(q)'
  <2> SUFFICES ASSUME pc[q] = "insert"
               PROVE  ~ NameTaken(q)' /\ NameRivals(q)' = {}
    BY <1>1 DEF NameFree
  <2>1. ~ NameTaken(q) /\ NameRivals(q) = {}
    BY <1>1 DEF NameFree
  <2>2. ASSUME NEW u \in users' PROVE name'[u] # name[q]
    <3>1. CASE u # r
      BY <1>2, <1>3, <2>1, <2>2, <3>1, RequestFrame DEF NameTaken
    <3>2. CASE u = r /\ r \in users
      <4>1. pc[r] # "new"
        BY <3>2 DEF Inv, PlaceInv
      <4> QED
        BY <2>1, <3>2, <4>1, RequestFrame DEF NameTaken
    <3>3. CASE u = r /\ r \notin users
      <4>1. pc[r] = "insert" /\ name'[r] = name[r]
        BY <2>2, <3>3, RequestFrame
      <4> QED
        BY <2>1, <3>3, <4>1 DEF NameRivals
    <3> QED
      BY <3>1, <3>2, <3>3
  <2>3. ASSUME NEW s \in Request \ {q}, pc'[s] = "insert", name'[s] = name[q]
        PROVE  FALSE
    <3>1. CASE s # r
      BY <1>2, <2>1, <2>3, <3>1 DEF NameRivals
    <3>2. CASE s = r
      <4>1. q \in NameRivals(r)
        BY <2>3, <3>2, Checked DEF NameRivals
      <4> QED
        BY <2>3, <3>2, <4>1, Checked
    <3> QED
      BY <3>1, <3>2
  <2> QED
    BY <1>1, <2>2, <2>3 DEF NameTaken, NameRivals
<1>6. SlugFree(q)'
  <2> SUFFICES ASSUME pc[q] = "team"
               PROVE  ~ SlugTaken(q)' /\ SlugRivals(q)' = {}
    BY <1>1 DEF SlugFree
  <2>1. ~ SlugTaken(q) /\ SlugRivals(q) = {}
    BY <1>1 DEF SlugFree
  <2>2. \A s \in Request \ {r} : SlugOf(s)' = SlugOf(s)
    BY <1>2 DEF SlugOf, Candidate
  <2>3. ASSUME NEW t \in teams' PROVE SlugOf(t)' # SlugOf(q)
    <3>1. CASE t # r
      BY <1>3, <2>1, <2>2, <2>3, <3>1, RequestFrame DEF SlugTaken
    <3>2. CASE t = r /\ r \in teams
      <4>1. SlugOf(r)' = SlugOf(r)
        BY <3>2, TeamsStay DEF SlugOf, Candidate
      <4> QED
        BY <2>1, <3>2, <4>1 DEF SlugTaken
    <3>3. CASE t = r /\ r \notin teams
      <4>1. pc[r] = "team" /\ name'[r] = name[r] /\ counter'[r] = counter[r]
        BY <2>3, <3>3, RequestFrame
      <4>2. SlugOf(r)' = SlugOf(r)
        BY <4>1 DEF SlugOf, Candidate
      <4> QED
        BY <2>1, <3>3, <4>1, <4>2 DEF SlugRivals
    <3> QED
      BY <3>1, <3>2, <3>3
  <2>4. ASSUME NEW s \in Request \ {q}, pc'[s] = "team", SlugOf(s)' = SlugOf(q)
        PROVE  FALSE
    <3>1. CASE s # r
      BY <1>2, <2>1, <2>2, <2>4, <3>1 DEF SlugRivals
    <3>2. CASE s = r
      <4>1. SlugOf(r)' = SlugOf(r)
        BY <2>4, <3>2, Checked DEF SlugOf, Candidate
      <4>2. q \in SlugRivals(r)
        BY <2>4, <3>2, <4>1 DEF SlugRivals
      <4> QED
        BY <2>4, <3>2, <4>2, Checked
    <3> QED
      BY <3>1, <3>2
  <2>5. SlugOf(q)' = SlugOf(q)
    BY <2>2
  <2> QED
    BY <1>1, <2>3, <2>4, <2>5 DEF SlugTaken, SlugRivals
<1> QED
  BY <1>1, <1>4, <1>5, <1>6

LEMMA RaceInvNext == Inv /\ RaceInv /\ [Next]_vars => RaceInv'
<1> SUFFICES ASSUME Inv, RaceInv, [Next]_vars PROVE RaceInv'
  OBVIOUS
<1>1. ASSUME UNCHANGED <<request, users, teams, history>> PROVE RaceInv'
  <2>1. \A r \in Request : EmailFree(r)' = EmailFree(r)
    BY <1>1 DEF EmailFree, EmailTaken, EmailRivals, request
  <2>2. \A r \in Request : NameFree(r)' = NameFree(r)
    BY <1>1 DEF NameFree, NameTaken, NameRivals, request
  <2>3. \A r \in Request : SlugFree(r)' = SlugFree(r)
    BY <1>1 DEF SlugFree, SlugTaken, SlugRivals, SlugOf, Candidate, request
  <2> QED
    BY <1>1, <2>1, <2>2, <2>3 DEF RaceInv, request, history
<1>2. ASSUME NEW r \in Request, RequestNext(r) PROVE RaceInv'
  <2>1. ASSUME r \notin raced'
        PROVE  EmailFree(r)' /\ NameFree(r)' /\ SlugFree(r)' /\ pc'[r] # "conflict"
    <3>1. /\ r \notin raced
          /\ EmailFree(r) /\ NameFree(r) /\ SlugFree(r)
      BY <1>2, <2>1, RequestFrame DEF RaceInv
    <3>2. \A s \in Request \ {r} : pc'[s] = pc[s]
      BY <1>2, TeamsStay
    <3>3. pc'[r] # "conflict"
      BY <1>2, <3>1, Checked DEF EmailFree, NameFree, SlugFree
    <3>4. EmailFree(r)'
      <4>1. CASE pc'[r] = "username"
        BY <1>2, <2>1, <3>2, <4>1, Checked DEF EmailFree, EmailTaken, EmailRivals
      <4>2. CASE pc'[r] = "insert"
        <5>1. pc[r] = "username" /\ users' = users
          BY <1>2, <4>2, Checked
        <5>2. email' = email
          BY <1>2, <5>1 DEF RequestNext, Statement, At, CheckEmail, CheckUsername,
             InsertUser, CheckSlug, InsertTeam, Die, Register, CreateTeam
        <5> QED
          BY <3>1, <3>2, <5>1, <5>2 DEF EmailFree, EmailTaken, EmailRivals
      <4> QED
        BY <4>1, <4>2 DEF EmailFree
    <3>5. NameFree(r)'
      BY <1>2, <2>1, <3>2, Checked DEF NameFree, NameTaken, NameRivals
    <3>6. SlugFree(r)'
      <4> SUFFICES ASSUME pc'[r] = "team" PROVE ~ SlugTaken(r)' /\ SlugRivals(r)' = {}
        BY DEF SlugFree
      <4>1. /\ ~ SlugTaken(r) /\ SlugRivals(r) = {}
            /\ teams' = teams /\ name' = name /\ counter' = counter
        BY <1>2, <2>1, Checked
      <4>2. \A s \in Request : SlugOf(s)' = SlugOf(s)
        BY <4>1 DEF SlugOf, Candidate
      <4>3. teams \subseteq Request
        BY DEF Inv, TypeOK
      <4> QED
        BY <3>2, <4>1, <4>2, <4>3 DEF SlugTaken, SlugRivals
    <3> QED
      BY <3>3, <3>4, <3>5, <3>6
  <2> QED
    BY <1>2, <2>1, OthersStayFree DEF RaceInv
<1>3. CASE UNCHANGED vars
  BY <1>1, <1>3 DEF vars, tables
<1> QED
  BY <1>1, <1>2, <1>3, ClientFrame DEF Next

(* Without a race nobody sees an integrity error (auth_service 25-40,      *)
(* repositories/team 30-75), for any number of requests.                   *)
THEOREM ConflictsAreRaces == Spec => []ConflictOnlyIfRaced
<1>1. RaceInv => ConflictOnlyIfRaced
  BY DEF RaceInv, ConflictOnlyIfRaced
<1> QED
  BY <1>1, InvInit, InvNext, RaceInvInit, RaceInvNext, PTL DEF Spec
-----------------------------------------------------------------------------
(* What a step may do to a deactivated user: he stays deactivated, his     *)
(* tokens come nearer to their end unless he gives his password            *)
(* (auth_service 47-81: refreshing refuses him, logging in does not), and   *)
(* no request starts in his name.                                          *)
Nearer(s, t) ==
  /\ t.access <= s.access
  /\ t.refresh <= s.refresh
  /\ t.access < s.access \/ t.refresh < s.refresh

Outside(u) ==
  /\ u \in users' \ active'
  /\ \/ session'[u] = session[u]
     \/ Nearer(session[u], session'[u])
     \/ \E id \in Email \cup Name : Login(u, id)
  /\ \A r \in Request : pc[r] = "new" /\ owner'[r] = u => pc'[r] = "new"

DeactivatedStaysOut == [][\A u \in Client : u \in users \ active => Outside(u)]_vars

LEMMA RequestKeepsOut ==
  ASSUME Inv, NEW r \in Request, RequestNext(r), NEW u \in Client, u \in users \ active
  PROVE  Outside(u)
<1> USE DEF Inv, TypeOK, At, Goto, tables
<1> SUFFICES /\ session' = session
             /\ u \in users' \ active'
             /\ owner'[r] = u /\ pc[r] = "new" => pc'[r] = "new"
             /\ \A q \in Request \ {r} : pc'[q] = pc[q]
  BY DEF Outside
<1>1. CASE \E e \in Email, n \in Name : Register(r, e, n)
  <2>1. r \notin users
    BY <1>1 DEF Register, PlaceInv
  <2> QED
    BY <1>1, <2>1 DEF Register
<1>2. CASE CheckEmail(r)
  BY <1>2 DEF CheckEmail
<1>3. CASE CheckUsername(r)
  BY <1>3 DEF CheckUsername
<1>4. CASE InsertUser(r)
  <2>1. r \notin users
    BY <1>4 DEF InsertUser, PlaceInv
  <2> QED
    BY <1>4, <2>1 DEF InsertUser
<1>5. CASE \E v \in Client, n \in Name : CreateTeam(r, v, n)
  BY <1>5 DEF CreateTeam, Admitted
<1>6. CASE CheckSlug(r)
  BY <1>6 DEF CheckSlug
<1>7. CASE InsertTeam(r)
  BY <1>7 DEF InsertTeam
<1>8. CASE Die(r)
  BY <1>8 DEF Die, Running
<1> QED
  BY <1>1, <1>2, <1>3, <1>4, <1>5, <1>6, <1>7, <1>8 DEF RequestNext, Statement

LEMMA ClientKeepsOut ==
  ASSUME Inv, NEW v \in Client, ClientNext(v), NEW u \in Client, u \in users \ active
  PROVE  Outside(u)
<1> USE DEF Inv, TypeOK, tables
<1>1. UNCHANGED <<pc, owner, users>>
  BY ClientFrame DEF request
<1> SUFFICES /\ u \notin active'
             /\ \/ session'[u] = session[u]
                \/ Nearer(session[u], session'[u])
                \/ \E id \in Email \cup Name : Login(u, id)
  BY <1>1 DEF Outside
<1>2. CASE \E id \in Email \cup Name : Login(v, id)
  <2>1. CASE v = u
    BY <1>2, <2>1 DEF Login
  <2>2. CASE v # u
    BY <1>2, <2>2 DEF Login, Issue
  <2> QED
    BY <2>1, <2>2
<1>3. CASE Refresh(v)
  BY <1>3 DEF Refresh, Issue
<1>4. CASE Tick(v)
  <2>1. /\ session[u] \in [access : 0..AccessLife, refresh : 0..RefreshLife, by : {"password", "refresh"}]
        /\ active' = active
    BY <1>4 DEF Tick
  <2>2. CASE v = u
    <3>1. /\ session'[u].access = Before(session[u].access)
          /\ session'[u].refresh = Before(session[u].refresh)
          /\ session[u].access > 0 \/ session[u].refresh > 0
      BY <1>4, <2>2 DEF Tick
    <3>2. Nearer(session[u], session'[u])
      BY <2>1, <3>1, LifeAssumption DEF Nearer, Before
    <3> QED
      BY <2>1, <3>2
  <2>3. CASE v # u
    BY <1>4, <2>1, <2>3 DEF Tick
  <2> QED
    BY <2>2, <2>3
<1>5. CASE Deactivate(v)
  BY <1>5 DEF Deactivate
<1> QED
  BY <1>2, <1>3, <1>4, <1>5 DEF ClientNext

(* Deactivation holds, for any lifetimes of the tokens and any requests    *)
(* under way: nothing gives a deactivated user a token but his password,   *)
(* and every other step takes time from those he has, so of                *)
(* DeactivatedIsLockedOut only the passing of time itself is left to TLC.  *)
THEOREM DeactivationHolds == Spec => DeactivatedStaysOut
<1>1. Inv /\ [Next]_vars => [\A u \in Client : u \in users \ active => Outside(u)]_vars
  BY RequestKeepsOut, ClientKeepsOut DEF Next
<1> QED
  BY <1>1, InvInit, InvNext, PTL DEF Spec, DeactivatedStaysOut
=============================================================================
