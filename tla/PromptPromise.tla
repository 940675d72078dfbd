---------------------------- MODULE PromptPromise ----------------------------
(***************************************************************************)
(* What a team is promised about one prompt: overriding it and reverting   *)
(* it behave as if each were done at one moment between the request and    *)
(* its answer, at most once, and what a reader gets is the last of them; a *)
(* revert restores the default. The promise ends when two overrides exist  *)
(* at once (doubled). How rows, statements and failures bring this about   *)
(* is left to Prompts.                                                     *)
(***************************************************************************)
CONSTANTS Request, Content, Default

VARIABLES
  asked,    \* what a request wants readers to get; Default for a revert
  life,     \* "idle", "pending", "applied" or "failed"
  seen,     \* what a reader may get
  doubled   \* two overrides have existed at once

vars == <<asked, life, seen, doubled>>

Init ==
  /\ asked = [r \in Request |-> Default]
  /\ life = [r \in Request |-> "idle"]
  /\ seen = {Default}
  /\ doubled = FALSE

Ask(r, c) ==
  /\ life[r] = "idle"
  /\ life' = [life EXCEPT ![r] = "pending"]
  /\ asked' = [asked EXCEPT ![r] = c]
  /\ UNCHANGED <<seen, doubled>>

(* Requests that want the same may be served by one change.                *)
Apply(R, c) ==
  /\ \A r \in R : life[r] = "pending" /\ asked[r] = c
  /\ life' = [r \in Request |-> IF r \in R THEN "applied" ELSE life[r]]
  /\ seen' = {c}
  /\ UNCHANGED <<asked, doubled>>

Fail(r) ==
  /\ life[r] = "pending"
  /\ life' = [life EXCEPT ![r] = "failed"]
  /\ UNCHANGED <<asked, seen, doubled>>

Double(r) ==
  /\ life[r] = "pending"
  /\ life' = [life EXCEPT ![r] = "applied"]
  /\ seen' = seen \cup {asked[r]}
  /\ doubled' = TRUE
  /\ UNCHANGED asked

Wanted == Content \cup {Default}

Next ==
  \/ \E r \in Request, c \in Wanted : Ask(r, c)
  \/ \E R \in (SUBSET Request) \ {{}}, c \in Wanted : Apply(R, c)
  \/ \E r \in Request : Fail(r) \/ Double(r)
  \/ doubled /\ doubled'

Spec == Init /\ [][Next]_vars
=============================================================================
