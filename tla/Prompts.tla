------------------------------ MODULE Prompts -------------------------------
(***************************************************************************)
(* One prompt template: its system default, which every API process seeds  *)
(* before it serves, and one team's override of it. A row is looked up     *)
(* before it is inserted, updated or deleted; other requests and processes *)
(* interleave between the statements, and no unique constraint joins them. *)
(*                                                                         *)
(* Code: api/core/init_db.py, api/main.py (lifespan),                      *)
(* api/services/prompt_service.py, api/repositories/prompt.py and base.py, *)
(* api/api/routers/prompt.py, api/models/prompt.py.                        *)
(*                                                                         *)
(* A row is named by the process or the request that inserted it, which    *)
(* each does at most once. All prompts are seeded alike in one commit, so  *)
(* one stands for all.                                                     *)
(*                                                                         *)
(* A definition announced as a mutant is a plausible mistake in the code,  *)
(* kept to show that a property would see it; no specification uses it.    *)
(***************************************************************************)
EXTENDS Naturals

CONSTANTS
  Process,   \* API processes
  Request,   \* requests about the prompt (bound: how many there are)
  Content,   \* contents of a prompt
  Code,      \* the content in the code that a process runs
  NoRow,     \* neither a row nor the content of one
  Default    \* stands for the system default, whatever it is

ASSUME CodeAssumption == Code \in [Process -> Content]
ASSUME NoRowAssumption == NoRow \notin Content \cup Process \cup Request
ASSUME DefaultAssumption == Default \notin Content

VARIABLES
  proc,      \* start-up of a process: its next statement, or "serving"
  target,    \* the system row a process is about to update
  system,    \* contents of the system rows
  pc,        \* next statement of a request, or how it ended
  asked,     \* the content of an override, Default for a revert or a look-up
  row,       \* the override a request has read
  override,  \* contents of the team's overrides
  current,   \* history: the code of the process that seeded last
  clash,     \* history: two processes were seeding at once
  raced,     \* history: overrides that found none together with a rival
  doubled    \* history: an override was inserted beside another

startup == <<proc, target, system, current, clash>>
request == <<pc, asked, row>>
team == <<override, raced, doubled>>
vars == <<startup, request, team>>

Seeding == {"insert", "update", "keep"}
Changing == {"check", "read", "update", "insert", "find", "delete"}
Reading == {"team", "system"}
Ended == {"done", "stale", "dead", "answered", "notfound"}

Init ==
  /\ proc = [p \in Process |-> "down"]
  /\ target = [p \in Process |-> NoRow]
  /\ system = [p \in Process |-> NoRow]
  /\ pc = [r \in Request |-> "new"]
  /\ asked = [r \in Request |-> Default]
  /\ row = [r \in Request |-> NoRow]
  /\ override = [r \in Request |-> NoRow]
  /\ current = NoRow
  /\ clash = FALSE
  /\ raced = {}
  /\ doubled = FALSE

SystemRows == {p \in Process : system[p] # NoRow}
Overrides == {r \in Request : override[r] # NoRow}

At(r, s) == pc[r] = s
Goto(r, s) == pc' = [pc EXCEPT ![r] = s]

-----------------------------------------------------------------------------
(* seed_system_prompts, in the lifespan of a process.                      *)

(* Mutant of SeedRead: an existing row is kept as it is.                   *)
SeedReadKeeps(p) ==
  /\ proc[p] = "down"
  /\ clash' = (clash \/ \E q \in Process : proc[q] \in Seeding)
  /\ proc' = [proc EXCEPT ![p] = IF SystemRows = {} THEN "insert" ELSE "keep"]
  /\ UNCHANGED <<target, system, current, request, team>>

(* The first row found, if any, and whether its content is the code's.     *)
SeedRead(p) ==
  /\ proc[p] = "down"
  /\ clash' = (clash \/ \E q \in Process : proc[q] \in Seeding)
  /\ \/ /\ SystemRows = {}
        /\ proc' = [proc EXCEPT ![p] = "insert"]
        /\ UNCHANGED target
     \/ \E x \in SystemRows :
          /\ proc' = [proc EXCEPT ![p] = IF system[x] = Code[p] THEN "keep" ELSE "update"]
          /\ target' = [target EXCEPT ![p] = x]
  /\ UNCHANGED <<system, current, request, team>>

(* One commit; system rows are never deleted. Then the process serves.     *)
SeedCommit(p) ==
  /\ proc[p] \in Seeding
  /\ proc' = [proc EXCEPT ![p] = "serving"]
  /\ \/ proc[p] = "insert" /\ system' = [system EXCEPT ![p] = Code[p]]
     \/ proc[p] = "update" /\ system' = [system EXCEPT ![target[p]] = Code[p]]
     \/ proc[p] = "keep" /\ UNCHANGED system
  /\ current' = Code[p]
  /\ UNCHANGED <<target, clash, request, team>>

(* A process ends, or its seeding raises, with no commit; it is started    *)
(* again (docker-compose: restart).                                        *)
Crash(p) ==
  /\ proc[p] # "down"
  /\ proc' = [proc EXCEPT ![p] = "down"]
  /\ UNCHANGED <<target, system, current, clash, request, team>>

-----------------------------------------------------------------------------
(* The requests of a team's members.                                       *)

(* Mutant of Served: requests are accepted while the prompts are seeded.   *)
ServedEarly == \E p \in Process : proc[p] # "down"

(* The lifespan seeds before it yields: only then is a request accepted.   *)
Served == \E p \in Process : proc[p] = "serving"

(* Mutant of Start: the body of the request is dropped.                    *)
StartEmpty(r, first, c) ==
  /\ Served
  /\ At(r, "new")
  /\ Goto(r, first)
  /\ asked' = [asked EXCEPT ![r] = NoRow]
  /\ UNCHANGED <<startup, row, team>>

Start(r, first, c) ==
  /\ Served
  /\ At(r, "new")
  /\ Goto(r, first)
  /\ asked' = [asked EXCEPT ![r] = c]
  /\ UNCHANGED <<startup, row, team>>

Override(r, c) == Start(r, "check", c)
Revert(r) == Start(r, "find", Default)
Get(r) == Start(r, "team", Default)

(* override_prompt_for_team: "Cannot override unknown system prompt"       *)
CheckSystem(r) ==
  /\ At(r, "check")
  /\ Goto(r, IF SystemRows = {} THEN "notfound" ELSE "read")
  /\ UNCHANGED <<startup, asked, row, team>>

(* Mutant of ReadOverride: the existing override is not looked for.        *)
ReadNothing(r) ==
  /\ At(r, "read")
  /\ Goto(r, "insert")
  /\ UNCHANGED <<startup, asked, row, team>>

(* get_by_name_and_team. An unchanged content makes no UPDATE: the request *)
(* has had its effect already.                                             *)
ReadOverride(r) ==
  /\ At(r, "read")
  /\ \/ \E x \in Overrides :
          /\ Goto(r, IF override[x] = asked[r] THEN "done" ELSE "update")
          /\ row' = [row EXCEPT ![r] = x]
          /\ UNCHANGED raced
     \/ /\ Overrides = {}
        /\ Goto(r, "insert")
        /\ LET rivals == {s \in Request \ {r} : pc[s] = "insert"}
           IN  raced' = IF rivals = {} THEN raced ELSE raced \cup rivals \cup {r}
        /\ UNCHANGED row
  /\ UNCHANGED <<startup, asked, override, doubled>>

(* Mutant of UpdateOverride: the object is not added to the session's      *)
(* changes, and nothing is written.                                        *)
UpdateOverrideLost(r) ==
  /\ At(r, "update")
  /\ Goto(r, "done")
  /\ UNCHANGED <<startup, asked, row, team>>

(* UPDATE by primary key: a row that was deleted meanwhile raises. (So     *)
(* does the refresh after the commit, with the override already written:   *)
(* "done" says what was written, and not that the client was told.)        *)
UpdateOverride(r) ==
  /\ At(r, "update")
  /\ \/ /\ row[r] \in Overrides
        /\ override' = [override EXCEPT ![row[r]] = asked[r]]
        /\ Goto(r, "done")
     \/ row[r] \notin Overrides /\ Goto(r, "stale") /\ UNCHANGED override
  /\ UNCHANGED <<startup, asked, row, raced, doubled>>

(* Nothing makes (name, team_id) unique.                                   *)
InsertOverride(r) ==
  /\ At(r, "insert")
  /\ override' = [override EXCEPT ![r] = asked[r]]
  /\ doubled' = (doubled \/ Overrides # {})
  /\ Goto(r, "done")
  /\ UNCHANGED <<startup, asked, row, raced>>

(* revert_prompt_for_team: "no override found, already using system        *)
(* default"                                                                *)
FindOverride(r) ==
  /\ At(r, "find")
  /\ \/ \E x \in Overrides : Goto(r, "delete") /\ row' = [row EXCEPT ![r] = x]
     \/ Overrides = {} /\ Goto(r, "done") /\ UNCHANGED row
  /\ UNCHANGED <<startup, asked, team>>

(* BaseRepository.delete looks the row up again; it may be gone.           *)
DeleteOverride(r) ==
  /\ At(r, "delete")
  /\ override' = [override EXCEPT ![row[r]] = NoRow]
  /\ Goto(r, "done")
  /\ UNCHANGED <<startup, asked, row, raced, doubled>>

(* get_prompt_for_team: first the override, then the default.              *)
GetOverride(r) ==
  /\ At(r, "team")
  /\ Goto(r, IF Overrides = {} THEN "system" ELSE "answered")
  /\ UNCHANGED <<startup, asked, row, team>>

GetDefault(r) ==
  /\ At(r, "system")
  /\ Goto(r, IF SystemRows = {} THEN "notfound" ELSE "answered")
  /\ UNCHANGED <<startup, asked, row, team>>

(* A revert whose row is gone has had its effect.                          *)
Reverted(r) == At(r, "delete") /\ row[r] \notin Overrides

(* A request stops between two statements, with its process or alone. (A   *)
(* look-up that stops has no effect.)                                      *)
Die(r) ==
  /\ pc[r] \in Changing
  /\ ~ Reverted(r)
  /\ Goto(r, "dead")
  /\ UNCHANGED <<startup, asked, row, team>>

-----------------------------------------------------------------------------
ProcessNext(p) == SeedRead(p) \/ SeedCommit(p) \/ Crash(p)

RequestNext(r) ==
  \/ \E c \in Content : Override(r, c)
  \/ Revert(r)
  \/ Get(r)
  \/ CheckSystem(r)
  \/ ReadOverride(r)
  \/ UpdateOverride(r)
  \/ InsertOverride(r)
  \/ FindOverride(r)
  \/ DeleteOverride(r)
  \/ GetOverride(r)
  \/ GetDefault(r)
  \/ Die(r)

Next == (\E p \in Process : ProcessNext(p)) \/ (\E r \in Request : RequestNext(r))

Spec == Init /\ [][Next]_vars

-----------------------------------------------------------------------------
TypeOK ==
  /\ proc \in [Process -> {"down", "serving"} \cup Seeding]
  /\ target \in [Process -> Process \cup {NoRow}]
  /\ system \in [Process -> Content \cup {NoRow}]
  /\ pc \in [Request -> {"new"} \cup Changing \cup Reading \cup Ended]
  /\ asked \in [Request -> Content \cup {Default}]
  /\ row \in [Request -> Request \cup {NoRow}]
  /\ override \in [Request -> Content \cup {NoRow}]
  /\ current \in Content \cup {NoRow}
  /\ clash \in BOOLEAN
  /\ raced \subseteq Request
  /\ doubled \in BOOLEAN

(* A team has one override of a prompt, whatever overrides, updates and    *)
(* reverts overlap, but for overrides that all found none: then a revert   *)
(* would remove one and leave the others in force.                         *)
OneOverride == \A x, y \in Overrides : x # y => x \in raced /\ y \in raced

(* api/core/init_db.py:51: "Overwrite system prompt content to ensure      *)
(* codebase updates are synced". The default is what the process that      *)
(* seeded last has in its code, unless processes have seeded at once.      *)
DefaultIsCurrent == ~ clash => \A x \in SystemRows : system[x] = current

(* No request ever fails for want of a system prompt: seeding comes before *)
(* the first request, and no row is ever removed.                          *)
PromptAlwaysFound == \A r \in Request : pc[r] # "notfound"

(* The overrides of a team are a register that overlapping requests set    *)
(* one at a time: Prompts implements PromptPromise.                        *)
Life(r) ==
  CASE pc[r] \in {"new", "answered", "notfound"} \cup Reading -> "idle"
    [] pc[r] = "done" \/ Reverted(r) -> "applied"
    [] pc[r] \in {"stale", "dead"} -> "failed"
    [] OTHER -> "pending"
Promise == INSTANCE PromptPromise WITH
  life <- [r \in Request |-> Life(r)],
  seen <- IF Overrides = {} THEN {Default} ELSE {override[x] : x \in Overrides}
KeepsPromise == Promise!Spec
=============================================================================
