---------------------------- MODULE ConfigPromise ----------------------------
(***************************************************************************)
(* What the members and the jobs of a team are promised about its          *)
(* configuration: an update takes effect at one moment, merged onto a      *)
(* configuration that was current at some time since it was asked for, and *)
(* what a reader is answered was current at some time since it asked - or  *)
(* since its own update. So an update that overlaps no other one loses     *)
(* nothing. How rows, statements and secrets bring this about is left to   *)
(* TeamConfig.                                                             *)
(***************************************************************************)
CONSTANTS Request, Update, DefaultConfig, NoDoc, Merge(_, _)

VARIABLES
  doc,     \* the team's configuration, NoDoc before the first
  asked,   \* the update a request wants; NoDoc for a reader
  life,    \* "idle", "pending", "applied" or how the request ended
  since,   \* the configurations that have been current since it was asked
  answer   \* what it was answered

vars == <<doc, asked, life, since, answer>>

(* A first update is stored as it is.                                      *)
Merged(d, u) == IF d = NoDoc THEN u ELSE Merge(d, u)

(* A reader sees the team's values over the defaults.                      *)
View(d) == IF d = NoDoc THEN DefaultConfig ELSE Merge(DefaultConfig, d)

Init ==
  /\ doc = NoDoc
  /\ asked = [r \in Request |-> NoDoc]
  /\ life = [r \in Request |-> "idle"]
  /\ since = [r \in Request |-> {}]
  /\ answer = [r \in Request |-> NoDoc]

Ask(r, u) ==
  /\ life[r] = "idle"
  /\ life' = [life EXCEPT ![r] = "pending"]
  /\ asked' = [asked EXCEPT ![r] = u]
  /\ since' = [since EXCEPT ![r] = {doc}]
  /\ UNCHANGED <<doc, answer>>

Apply(r) ==
  /\ life[r] = "pending" /\ asked[r] # NoDoc
  /\ \E d \in since[r] : doc' = Merged(d, asked[r])
  /\ since' = [s \in Request |->
                 IF s = r THEN {doc'}
                 ELSE IF life[s] \in {"pending", "applied"} THEN since[s] \cup {doc'}
                 ELSE since[s]]
  /\ life' = [life EXCEPT ![r] = "applied"]
  /\ UNCHANGED <<asked, answer>>

Answer(r) ==
  /\ life[r] = (IF asked[r] = NoDoc THEN "pending" ELSE "applied")
  /\ \E d \in since[r] : answer' = [answer EXCEPT ![r] = View(d)]
  /\ life' = [life EXCEPT ![r] = "answered"]
  /\ UNCHANGED <<doc, asked, since>>

(* Nothing is promised to a job that has been deleted.                     *)
Unknown(r) ==
  /\ life[r] = "pending" /\ asked[r] = NoDoc
  /\ answer' = [answer EXCEPT ![r] = DefaultConfig]
  /\ life' = [life EXCEPT ![r] = "unknown"]
  /\ UNCHANGED <<doc, asked, since>>

(* Only an update asked for before the first one was stored is refused.    *)
Refuse(r) ==
  /\ life[r] = "pending" /\ asked[r] # NoDoc
  /\ NoDoc \in since[r] /\ doc # NoDoc
  /\ life' = [life EXCEPT ![r] = "refused"]
  /\ UNCHANGED <<doc, asked, since, answer>>

Fail(r) ==
  /\ life[r] \in {"pending", "applied"}
  /\ life' = [life EXCEPT ![r] = "failed"]
  /\ UNCHANGED <<doc, asked, since, answer>>

Next ==
  \E r \in Request :
    \/ \E u \in Update \cup {NoDoc} : Ask(r, u)
    \/ Apply(r)
    \/ Answer(r)
    \/ Unknown(r)
    \/ Refuse(r)
    \/ Fail(r)

Spec == Init /\ [][Next]_vars
=============================================================================
