----------------------------- MODULE TeamConfig -----------------------------
(***************************************************************************)
(* The configuration of one team: members who update it and look at it,    *)
(* and tasks that compose the configuration file of a job from it. An      *)
(* update reads the row, merges, and writes the whole document back; other *)
(* requests interleave between its statements. Secrets are ciphertext in   *)
(* the row and nowhere else.                                               *)
(*                                                                         *)
(* Code: api/services/team_config_service.py, api/repositories/            *)
(* team_config.py and base.py, api/api/routers/team_config.py,             *)
(* api/models/team_config.py, api/services/worker_service.py               *)
(* (get_dynamic_config_path).                                              *)
(*                                                                         *)
(* Which documents there are, their merge and their encryption are         *)
(* parameters here; ConfigPaths and ConfigDocs translate them.             *)
(*                                                                         *)
(* A definition announced as a mutant is a plausible mistake in the code,  *)
(* kept to show that a property would see it; no specification uses it.    *)
(***************************************************************************)
EXTENDS ConfigPaths

CONSTANTS
  Request,        \* requests and tasks (bound: how many there are)
  Object,         \* JSON objects: documents, and the objects in them
  Path,           \* sequences of keys
  Doc,            \* documents
  Update,         \* documents that clients post
  DefaultConfig,  \* DEFAULT_TEAM_CONFIG
  NoDoc,          \* no document
  Merge(_, _),    \* _deep_merge
  Encrypt(_),     \* _encrypt_payload
  Decrypt(_)      \* _decrypt_payload

ASSUME NoDocAssumption == NoDoc \notin Doc
ASSUME UpdateAssumption == Update \subseteq Doc
ASSUME MergeAssumption == \A d \in Doc, u \in Update : Merge(d, u) \in Doc
ASSUME MergesKeyByKey == \A d1, d2 \in Object : Merge(d1, d2) = MergeKeys(Merge, d1, d2)
ASSUME ObjectAssumption ==
  \A d \in Object :
    /\ IsDict(d)
    /\ \A k \in Keys(d) : d.dict[k] # Absent /\ (IsDict(d.dict[k]) => d.dict[k] \in Object)
ASSUME DocAssumption == Doc \cup {DefaultConfig} \subseteq Object
ASSUME PathAssumption == \A p \in Path : Len(p) \in Nat
ASSUME SecretAssumption == \A d \in Doc : Encrypt(d) # NoDoc /\ Decrypt(Encrypt(d)) = d

VARIABLES
  row,     \* config_data of the team's row, NoDoc while there is none
  job,     \* the row of the job exists
  pc,      \* next statement of a request, or how it ended
  asked,   \* the update a request was sent; NoDoc for a reader
  read,    \* what it has read of the configuration, decrypted
  answer,  \* what it answers, or writes to the job's file
  since    \* history: configurations current since the request began

request == <<pc, asked, read, answer>>
vars == <<row, job, request, since>>

Changing == {"fetch", "update", "create"}
Active == Changing \cup {"refresh", "get", "job", "config"}
Ended == {"answered", "unknown", "conflict", "dead"}

Plain(x) == IF x = NoDoc THEN NoDoc ELSE Decrypt(x)
Current == Plain(row)

Merged(d, u) == IF d = NoDoc THEN u ELSE Merge(d, u)
View(d) == IF d = NoDoc THEN DefaultConfig ELSE Merge(DefaultConfig, d)

Init ==
  /\ row = NoDoc
  /\ job = TRUE
  /\ pc = [r \in Request |-> "new"]
  /\ asked = [r \in Request |-> NoDoc]
  /\ read = [r \in Request |-> NoDoc]
  /\ answer = [r \in Request |-> NoDoc]
  /\ since = [r \in Request |-> {}]

At(r, s) == pc[r] = s
Goto(r, s) == pc' = [pc EXCEPT ![r] = s]

Start(r, first, u) ==
  /\ At(r, "new")
  /\ Goto(r, first)
  /\ asked' = [asked EXCEPT ![r] = u]
  /\ since' = [since EXCEPT ![r] = {Current}]
  /\ UNCHANGED <<row, job, read, answer>>

-----------------------------------------------------------------------------
(* upsert_team_config                                                      *)
Upsert(r, u) == Start(r, "fetch", u)

(* An update without effect makes no UPDATE: SQLAlchemy finds the same     *)
(* value. With a secret in it the ciphertext is new each time.             *)
NoChange(d, u) == Merge(d, u) = d /\ Encrypt(d) = d

Fetch(r) ==
  /\ At(r, "fetch")
  /\ read' = [read EXCEPT ![r] = Current]
  /\ \/ row = NoDoc /\ Goto(r, "create") /\ UNCHANGED since
     \/ /\ row # NoDoc
        /\ IF NoChange(Current, asked[r])
             THEN Goto(r, "refresh") /\ since' = [since EXCEPT ![r] = {Current}]
             ELSE Goto(r, "update") /\ UNCHANGED since
  /\ UNCHANGED <<row, job, asked, answer>>

(* A row is written, and every request that is under way could see it.     *)
Store(r, d) ==
  /\ row' = Encrypt(d)
  /\ since' = [s \in Request |->
                 IF s = r THEN {d}
                 ELSE IF pc[s] \in Active THEN since[s] \cup {d}
                 ELSE since[s]]
  /\ Goto(r, "refresh")
  /\ UNCHANGED <<job, asked, read, answer>>

(* Mutant of UpdateRow: what was posted is stored, and wipes the rest.     *)
UpdateRowReplaces(r) == At(r, "update") /\ Store(r, asked[r])

(* update_config: by primary key, the whole document; rows are not deleted.*)
UpdateRow(r) == At(r, "update") /\ Store(r, Merge(read[r], asked[r]))

(* team_id is unique: a second first configuration raises.                 *)
CreateRow(r) ==
  /\ At(r, "create")
  /\ \/ row = NoDoc /\ Store(r, asked[r])
     \/ row # NoDoc /\ Goto(r, "conflict") /\ UNCHANGED <<row, job, asked, read, answer, since>>

(* Mutant of Reply: an answer is the document alone.                       *)
ReplyBare(r, d, last) ==
  /\ answer' = [answer EXCEPT ![r] = d]
  /\ Goto(r, last)
  /\ UNCHANGED <<row, job, asked, read, since>>

Reply(r, d, last) ==
  /\ answer' = [answer EXCEPT ![r] = View(d)]
  /\ Goto(r, last)
  /\ UNCHANGED <<row, job, asked, read, since>>

(* The row is read once more after the commit, and answered.               *)
Refresh(r) == At(r, "refresh") /\ Reply(r, Current, "answered")

-----------------------------------------------------------------------------
(* get_team_config                                                         *)
Get(r) == Start(r, "get", NoDoc)
GetConfig(r) == At(r, "get") /\ Reply(r, Current, "answered")

(* get_dynamic_config_path: the job first, then its team's row.            *)
Compose(r) == Start(r, "job", NoDoc)

FindJob(r) ==
  /\ At(r, "job")
  /\ \/ job /\ Goto(r, "config") /\ UNCHANGED <<row, job, asked, read, answer, since>>
     \/ ~ job /\ Reply(r, NoDoc, "unknown")

ComposeConfig(r) == At(r, "config") /\ Reply(r, Current, "answered")

(* JobService.delete_job, which waits for no task.                         *)
DeleteJob ==
  /\ job
  /\ job' = FALSE
  /\ UNCHANGED <<row, request, since>>

(* A request or a task stops between two statements.                       *)
Die(r) ==
  /\ pc[r] \in Active
  /\ Goto(r, "dead")
  /\ UNCHANGED <<row, job, asked, read, answer, since>>

-----------------------------------------------------------------------------
RequestNext(r) ==
  \/ \E u \in Update : Upsert(r, u)
  \/ Fetch(r)
  \/ UpdateRow(r)
  \/ CreateRow(r)
  \/ Refresh(r)
  \/ Get(r)
  \/ GetConfig(r)
  \/ Compose(r)
  \/ FindJob(r)
  \/ ComposeConfig(r)
  \/ Die(r)

Next == DeleteJob \/ \E r \in Request : RequestNext(r)

Spec == Init /\ [][Next]_vars

-----------------------------------------------------------------------------
Stored == {Encrypt(d) : d \in Doc}
Views == {View(d) : d \in Doc \cup {NoDoc}}

TypeOK ==
  /\ row \in Stored \cup {NoDoc}
  /\ job \in BOOLEAN
  /\ pc \in [Request -> {"new"} \cup Active \cup Ended]
  /\ asked \in [Request -> Update \cup {NoDoc}]
  /\ read \in [Request -> Doc \cup {NoDoc}]
  /\ answer \in [Request -> Views \cup {NoDoc}]
  /\ since \in [Request -> SUBSET (Doc \cup {NoDoc})]

(* team_config_service.py:54: "to avoid wiping keys on partial updates".   *)
(* Path by path, a request that has updated the configuration left it as   *)
(* the overlay of what it was asked on one that was current since it       *)
(* began, and an answer is such a configuration laid over the defaults.    *)
UpdatesOverlay ==
  [][\A r \in Request :
       /\ pc[r] \in Changing /\ pc'[r] = "refresh" =>
            \E d \in since[r] :
              IF d = NoDoc THEN Current' = asked[r]
              ELSE IsOverlay(Current', d, asked[r], Path)
       /\ pc[r] \in Active /\ pc'[r] = "answered" =>
            \E d \in since[r] :
              IF d = NoDoc THEN answer'[r] = DefaultConfig
              ELSE IsOverlay(answer'[r], DefaultConfig, d, Path)]_vars

(* Updates that do not overlap lose nothing, an overlapping one is merged  *)
(* onto a configuration that was current since it began, only a first one  *)
(* is refused, and no reader - client or job - gets what was never         *)
(* current, or a ciphertext: TeamConfig implements ConfigPromise.          *)
Life(s) ==
  CASE s = "new" -> "idle"
    [] s \in Changing \cup {"get", "job", "config"} -> "pending"
    [] s = "refresh" -> "applied"
    [] s = "conflict" -> "refused"
    [] s = "dead" -> "failed"
    [] OTHER -> s
Promise == INSTANCE ConfigPromise WITH
  doc <- Current,
  life <- [r \in Request |-> Life(pc[r])]
KeepsPromise == Promise!Spec
=============================================================================
