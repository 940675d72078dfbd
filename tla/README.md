# DocGen-API in TLA+

Specifications, model-checking configurations and machine-checked proofs for
DocGen-API: a FastAPI service that takes documentation jobs, Celery workers that
run them, and the Redis channel on which their logs reach the browser.
Paths below are relative to `src/`.

## 1. The system

| Component | State | Operations |
|---|---|---|
| **Job lifecycle** `api/services/job_service.py`, `api/services/worker_service.py`, `worker/tasks.py`, `worker/celery_app.py` | `generation_jobs` rows; messages in the Redis queue; what each worker process runs; temporary config files | submit a job (six kinds of task), deliver, run, write status, delete, kill, restart, redeliver |
| **Log streaming** `worker/redis_log_handler.py`, `api/api/routers/logs.py` | Redis channel `logs:{job_id}`; `generation_jobs_logs` rows; one subscription and deadline per WebSocket | log a line, close the stream, subscribe, poll, forward, time out, load the job |
| **Team management** `api/services/team_service.py`, `api/repositories/team.py`, `api/api/dependencies.py` | `teams` (visibility, invite token), `team_members` (one row per user), `team_invitations` | join by link, ask to join, answer, change a role, remove, rotate the link, update |
| **Projects and groupings** `job_service.py`, `worker_service.py`, `endpoints.py` | `projects`, `project_groupings` | insert on first submission, save clusters, fetch |
| **Documentation revisions** `revision_service.py`, `tasks.py` | `documentation_revisions`, documents in Weaviate | propose, approve, reject, patch |
| **Registration and authentication** `auth_service.py`, `core/security.py` | `users` (email, username, is_active), `teams` and their slugs, tokens | register, create a team, log in, refresh |
| **Team configuration** `team_config_service.py` | one JSON document per team, secrets encrypted | get, upsert (merge) |
| **Prompt templates** `prompt_service.py`, `core/init_db.py` | `prompt_templates` | get, override, revert, seed |
| **Tracing** `shared/tracing.py` | per-process flags, context baggage | launch, instrument, trace a job |
| **Dashboard, searches** | none | read-only counts |

How they interact. The API never runs a pipeline: it commits a job row and sends a
message. Worker and API share the database and nothing else; a deleted job is
discovered by the worker only when it looks for the row. Log lines go to the
browser by Redis and to the database by a commit. Team roles guard every other
component, by one query at the start of a request. A task reads the team
configuration into its config file, creates groupings for projects, and patches
the documents that approved revisions name.

What is hard: the API runs its requests concurrently, one SQL statement at a time
under READ COMMITTED, with no row locks; a request may stop between two commits;
messages are acknowledged before the task runs and can be delivered again;
a worker process can be killed, and its node is restarted by `watchmedo` at each
change of a source file; a failed status write is swallowed; a browser disappears
without notice. `PROJECT.json` lists each such hazard at its line, and what would
catch it.

What makes the components correct:

* jobs: no job is forgotten, run twice or rewritten after its end, or has a status without its
  result or error; no file is left;
  a worker always becomes free; the client sees a simple life of the status column;
* logs: the stream loses and reorders nothing, its end means the end, a
  subscription does not outlive its use;
* teams: one admission per link, one pending request per user, one answer per
  request, admins kept, accepted users admitted, removed users not resurrected;
* revisions: an approved revision is applied, a rejected one is not, an answer is final,
  an older content does not come back, and no patch is written twice;
* projects: a documentation task finds its project, a grouping can be fetched and holds
  clusters of its own project;
* registration: every user has a team, a refused insert is a real race, slugs leave no gap,
  and a deactivated user cannot keep his tokens alive by refreshing them;
* configuration: an update is merged onto what was current since it began, and readers get
  configurations that were current, never a ciphertext;
* prompts: the default is what the last process to start has in its code, every prompt is
  found, and overrides and reverts of a team are a register.

## 2. The modules

| Module | Models |
|---|---|
| `Jobs` | job lifecycle, for any set of jobs and worker processes |
| `JobPromise` | what a client polling a job may see: the abstract specification of the status column |
| `LogStream` | the log stream of one job: task side, Redis, WebSocket loop, client |
| `LogPromise` | what those who watch the log are promised: the abstract specification of `LogStream` |
| `Teams` | one team and the requests that change it |
| `TeamPromise` | the rules of a team with each change a single step: what `Teams` implements for one request at a time |
| `Revisions` | proposed revisions, their answers, and the tasks that patch the documents |
| `Projects` | the project insert of submissions, the saving of clusters, the reader of groupings |
| `Registration` | registrations, creation of teams and their slugs, sessions |
| `TeamConfig` | updates and readers of one team's configuration, for any documents and any merge that works key by key |
| `ConfigPromise` | what members and jobs are promised of it: the abstract specification of `TeamConfig` |
| `ConfigPaths` | one call of the merge and of the encryption, and what a document holds at a path |
| `ConfigDocs` | the documents themselves: the recursive merge, defaults (recursive, so for TLC only) |
| `Prompts` | one prompt template: seeding by API processes, overrides of one team |
| `PromptPromise` | the overrides as a register: the abstract specification of `Prompts` |
| `MCJobs`, `MCTeams`, `MCRegistration`, `MCTeamConfig`, `MCPrompts` | instances for TLC: values of the constants, symmetry (the other modules need none) |
| `JobsProofs`, `LogStreamProofs`, `TeamsProofs`, `RevisionsProofs`, `ProjectsProofs`, `RegistrationProofs`, `TeamConfigProofs`, `PromptsProofs` | theorems and proofs |

Every module ends with its properties; each definition `X` announced as a *mutant*
of an action states a plausible mistake at that place, and `PROJECT.json` says which
property sees it.

### Jobs

A worker process is a program counter over the points at which something else can
interleave:

    accepted -> compose -> run -> complete | fail -> cleanup -> close -> idle

`MarkProcessing`, `Compose` (get_dynamic_config_path), `RunPipeline` (whatever the
task calls: it returns or raises), `WriteCompleted` / `WriteFailed` (the final
status write), `Cleanup` and `CloseStream` (the `finally` blocks). The six tasks
share this shape and differ in `kind`: four compose a config file (`UsesConfig`),
one opens a log stream (`Streams`). `UpdateJobStatus` is one step because each of
its sessions reads and commits only the columns it sets; it may do nothing, as the
code logs and swallows every exception. `SubmitFails` is the gap between the commit of
the row and send_task. The broker is modelled from its configuration: `Prefetch` moves a
message to a node, `Accept` acknowledges it and starts the task, `VisibilityTimeout`
puts a second copy in the queue, `NodeRestart` returns what was prefetched,
`HardKill` is task_time_limit. Histories: `lost` names the jobs whose last chance of
a final status has gone, by one of three failures (submission, kill, swallowed
write); `harmed` names the workers on which a config file lost its owner.

Left out: the order of the queue and the prefetch limit (any message may be taken
at any time, which allows more behaviours); the contents of results;
save_project_grouping and the project insert (module Projects); removing a failed
run's output directory. Assumed: the pipelines
either raise or return a dict, so that nothing raises after the final write of a
successful task; os.remove of an existing file succeeds.

### LogStream

`PublishLine` and `Persist` are the two halves of emit, `PublishFails` its outer
`except` (the line is not committed either), `CloseHandler` the end of
job_log_stream. Redis delivers a published message to the `inbox` of whoever is
subscribed. A client's handler alternates `CheckDeadline` with `NoMessage` or
`Forward`, and leaves the loop by sentinel, deadline, send failure or Redis
failure; `Unsubscribe` is its `finally`. `Expire` may happen at any moment after the
subscription or the last message: real time is not modelled. `LoadJob` is what a
page reload reads. `Exec` has two members where a redelivered message runs the task
twice on one channel.

`LogPromise` has one log and, of each client, where he joined and what he has seen. It leaves out
inboxes, deadlines, the two halves of emit and the database, and keeps what a viewer relies on: in
the log the lines of an execution stand in order, each at most once, its sentinel last; a viewer
sees the log from where he joined, message by message, up to a sentinel or until he is cut off.

### Teams

A request is a record of its next statement and of what it has read
(`req`). Its first read is the guard of its start (role check,
token look-up, visibility); after that every statement is an action of its own, and
other requests interleave. `row` numbers the rows of a user, because updates and
deletes name a row by its key and match nothing once it is gone. `RoleRead`
keeps the session's identity map: an admin who names himself, and still has the row of the
role check, compares with what that check has read. An update that changes nothing writes
nothing (`RoleRead`, `PublicRead`). `Die` ends a request anywhere: its commits stay.

`TeamPromise` states the rules that the errors and comments of the service claim, one
step each: a link that admitted somebody admits nobody else (`used`), a public team holds one
open request per outsider, an invitation is answered once and only an accepted one
admits, admins cannot be removed. `KeepsRules` is that refinement; a link is used once it has
led to a member, so `used` is mapped to the links whose use was counted.

### Revisions

`Approve` and `Reject` are the read and the check of a request; `ApproveWrite` and
`RejectWrite` are its update, by primary key, whatever the status has become;
`ApproveSend` is send_task, which comes after the commit. `FetchChunk` and
`WriteChunk` are the read and the write of the patch task, which another task, or a
documentation job (`Generate`), can come between; `FetchFails` and `WriteFails` are its
other ends: no document, an exception, a kill. The fetch asks for a node id only, so
the document may be any team's. Contents are the ids of the revisions that propose
them. Histories record what the properties excuse: `failed` (named failures), `overlap`
(two requests answering one revision at once), `crossed` (a patch still in flight when
another revision of its endpoint was approved). Left out: the role checks (they only
refuse), the listing, and the deletion of documents.

### Projects

`CreateJob`, `CheckProject`, `InsertProject` and `SendTask` are the statements of
submit_job (a clustering job, by submit_task, skips the middle two). A task is `StartTask`
(which reads the team from the job's row: without a row nothing will be saved),
`RunReturns`, and then save_project_grouping: `FindProject`, `FindGrouping`,
`SaveGrouping`. `FetchRaises` is what get_persisted_grouping does with two rows. A project row is
named by the job whose submission inserted it. `Name` holds the names of one team's projects, since every
look-up names the team; of these `Unnamed` is the empty one, which a submission makes of a path that
ends in `/.git`. A documentation task that is given it looks for a project of any name (`sought`,
`FallsBack`: tasks.py:53 asks DocGen for a name, which is another repository).
Histories: `raced` (two submissions about to insert one name), `rushed` (two tasks
about to insert one grouping), `clustered`, `saved`, `missed`, `failed`. Left out: listing
projects, and the status writes, which are in Jobs.

### Registration

A request is a registration (`Register`) or POST /teams (`CreateTeam`); a user and a team are
named by the request that inserts them. `CheckEmail`, `CheckUsername` and `InsertUser` are the
statements of register_new_user; `CheckSlug` is one turn of the loop that looks for a free
slug, and `InsertTeam` the commit of team and member. A slug is an abstract value: `Base` is
_slugify and `Numbered` appends "-k", so that the slug of one name can be the numbered slug of
another. `MaxCounter` bounds the loop, which the code does not. A session is the life left of the newest token
pair of a client, in ticks: `Login`, `Refresh`, `Tick`. `is_active` is cleared by nobody but
an operator (`Deactivate`). `Admitted` is the check of every HTTP request. Two paths stay open to a
deactivated user, and `DeactivatedIsLockedOut` does not say otherwise: his password still gives him
tokens (auth_service.py), and the log WebSocket (logs.py:23) takes any token that has not expired,
without a look at the user. Histories: `raced` (requests that passed a check together with a
rival), `broken` (users whose registration stopped before its second commit).

### TeamConfig, ConfigPromise, ConfigDocs

`TeamConfig` takes the documents as parameters (`Object`, `Doc`, `Merge`, `Encrypt`, `Decrypt`), so
that its proofs hold for any. Of `Merge` it asks what one call of _deep_merge does
(`MergesKeyByKey`: the keys of both, an object in both merged by `Merge` again, else the update's
value, else the document's). `Fetch` is the read of an update, `UpdateRow` and `CreateRow` its
write, and `Refresh` the read of the row after the commit that makes the answer. `GetConfig` is
a member's look-up; `FindJob` and `ComposeConfig` are what a task does to compose its file,
whose job `DeleteJob` may take away. `since` records the configurations that were current
since a request began. `ConfigPromise` asks of each update that it is merged onto one of
them, of each answer that it shows one of them, and that only a first update is ever refused. Two
overlapping updates may lose one: that is what the code does, and the promise is
worded for it; updates that do not overlap lose nothing.

`ConfigPaths` translates the body of _deep_merge and the encryption; `ConfigDocs` closes the
recursion, so that TLC computes it. A document is a function
from keys, a string or another value; of `SENSITIVE_KEYS` one stands for the five.
`IsOverlay` is the reference for the merge: path by path, the value of the update
where it has one, else that of the document. `UpdatesOverlay` asks it of every update that is
written and of every answer that is built from the defaults.

### Prompts, PromptPromise

All prompts are seeded alike, so one stands for all. A process looks its row up
(`SeedRead`), commits (`SeedCommit`), then serves; `Crash` ends it anywhere. A request runs
`CheckSystem`, `ReadOverride`, `UpdateOverride` or `InsertOverride`; or `FindOverride`,
`DeleteOverride`; or `GetOverride`, `GetDefault`. A row that another request deleted makes the
update raise ("stale"). `PromptPromise` is the register: `seen` is what a
reader gets, overlapping requests take effect one at a time, and the promise ends when two
override rows exist at once, which nothing in the database forbids. Histories: `current`
(the code of the last process to seed), `clash` (two seeded at once), `raced`,
`doubled`.

## 3. Runs

| Run | Bounds | Shows |
|---|---|---|
| `jobs_safety` | 2 jobs, 2 workers, 3 kinds, 1 redelivery | types; no job is forgotten, no stream ends before its status, columns agree (redelivered jobs too), no file is left |
| `jobs_once` | 2 jobs, 2 workers, 3 kinds, no redelivery | Jobs implements JobPromise; every job settles or was lost by a named failure; workers become free |
| `logs` | 2 executions of 1 line, 1 client | LogStream implements LogPromise; the sentinel is last, in the database too; subscriptions end |
| `teams_serial` | 1 request at a time, 3 users, 4 roles, 2 invitations, 2 rotations | Teams implements TeamPromise: the service's rules hold |
| `teams_race` | 2 requests, 2 users, 2 invitations, 1 rotation | what holds under any interleaving |
| `revisions` | 2 revisions, 1 team, 1 endpoint, 2 requests, 2 workers, 1 redelivery each | what holds of answers and patches, that no patch is written twice, and that every approval ends |
| `projects` | 2 jobs of either kind, 2 names (1 empty), 2 workers, 1 redelivery each | what holds of projects and groupings |
| `registration` | 3 requests, 1 client, 2 emails, 2 names, slugs up to -3, tokens of 1 and 2 ticks | users have teams, conflicts are races, slugs leave no gap, refreshing does not outlive a deactivation |
| `prompts` | 2 processes, of old and of new code, that start any number of times, 3 requests | the default follows the code; Prompts implements PromptPromise |
| `config` | 3 requests or tasks, 5 updates and every document they make | TeamConfig implements ConfigPromise; every write and every answer is an overlay, at every path of the documents |
| `teams_token`, `revisions_team` | the smallest that shows it | what a comment in the code says and the code does not do |

Why the bounds are enough: two jobs on two workers give every pair of positions of
two tasks, and with one redelivered copy also two tasks of one job; further jobs
only add independent rows. Three kinds cover the three shapes of task (file and
stream, file only, neither). Two executions with a line and a sentinel each give a
channel of up to four messages and a client that subscribes before, between and after
them; clients do not affect each other. In Teams the properties relate at most two requests
on one or two users; the four roles matter only to which checks pass, and
`teams_serial` has all of them. In Revisions two revisions of one endpoint, two requests
and two workers give every order of two answers and of two patches; endpoints and teams
meet only in the fetch by node id, which `revisions_team` isolates. In Projects a
redelivered job counts as another task, so that two submissions and up to four tasks, two at
a time, meet on one name or pass each other on two, and one that was given the empty name looks for
either. In Registration two of three requests
race for an email, a username or a slug while the third has taken it or takes the next
number; the slug of one of the two names is the numbered slug of the other, so that the loop
also skips slugs of a stranger. One tick of access and two of refresh give every order of the
two expiries. In Prompts two processes give every overlap of two seedings and every order of
two versions; three requests are two that overlap and one that reads, removes or overrides
between them. In TeamConfig the updates add to an object, add beside it, replace an
object by a value, set a secret and change nothing; three requests are two that
overlap and a reader, or three updates. Deadlock is not checked: every system here may
come to rest (jobs done, tokens or invitations used up).

Fairness. Jobs: a request that was started goes on or fails (the event loop runs
it); a live node prefetches; a task's next step is taken or its time limit strikes
(task_time_limit, so WF of `TaskStep \/ HardKill`, never of the pipeline alone); a free
worker takes a message it could take again and again (SF, because restarts may
return the message in between). Nothing is assumed of restarts, deletions or
redelivery. LogStream: only the API's event loop and time are fair; the
worker, Redis and the client may stop for good. Revisions: a request goes on or dies, a
message that can be taken again and again is taken (SF, other patches occupy the
workers), a task ends, at its time limit if not before; nothing is assumed of proposals,
answers, redelivery or jobs. Registration: time passes (`Tick`), nothing else. Teams,
Projects, Prompts and TeamConfig have no liveness property: every request is a bounded sequence
of statements.

### What the violated properties say

* `TokenAdmitsOne` (team_service.py:69 "Rotate token to prevent reuse"): the link is looked up, and
  rotated, in separate statements, and two requests pass the look-up together.
* `IsolatedPerTeam` (tasks.py:113 "Isolated per team_id."): the task takes a team_id and
  never uses it.

Other statements of the code fail in the models in the same way and have no run of their
own, since each would only repeat the pattern. Two requests that pass a check together answer one
invitation twice (team_service.py:127), open two requests of one user (92; `PendingIsBounded` says
how many) or remove a member who became an admin in between (150); each rule holds for one request at
a time, by `KeepsRules`.
The sentinel that logs.py:44 waits for is sent by the documentation task only. The inactivity
deadline of logs.py:70 is compared before the message buffer is read. "Always clean
up the temporary config file" (tasks.py:102) is broken by a kill or a failed write of the file: the
`harmed` of `NoConfigFileLeft`.

## 4. Proofs

All theorems hold for any sets of jobs, workers, clients, users, invitations, revisions,
processes and requests, any documents and any bounds, under the named assumptions of the constants, which TLC
evaluates in every run: `NoJobAssumption`, `KindsAssumption`, `RedeliverAssumption`,
`MaxLinesAssumption`, `FounderAssumption`, `RoleAssumption`, `MaxTokenAssumption`,
`NoneAssumption`, `UnnamedAssumption`, `ClientAssumption`, `SlugAssumption`, `LifeAssumption`, `CodeAssumption`,
`NoRowAssumption`, `DefaultAssumption`, `NoDocAssumption`, `UpdateAssumption`, `MergeAssumption`,
`MergesKeyByKey`, `ObjectAssumption` (what is nested in an object is an object again, or a value),
`DocAssumption`, `PathAssumption` and `SecretAssumption` (a decrypted ciphertext is the document).
Some theorems assume more, in their statement: `MaxRedeliver = 0` in
`JobsProofs!ImplementsPromise`, one request in `TeamsProofs!SerialKeepsRules`, finitely many
requests in `TeamsProofs!LinkIsSpent` and `TeamsProofs!PendingIsBounded`.

`JobsProofs`:

* `TypeCorrect`, `ConfigFilesRemoved`: types alone are not inductive, since Cleanup
  decrements `files`; `FilesOwned` adds that a process that holds a path has
  a file, and that unowned files imply `harmed`.
* `JobsAreCarried`: `NoOrphan` is inductive relative to the types. Each step that ends
  one carrier of a job (request, message, task before its final write) creates
  the next one, settles the job, or records it in `lost`.
* `SentinelAfterStatus`, `ColumnsAgree`, `AtMostOneTask`, `FinalStatusStays`: one
  invariant, `OnceInv`, says of every job without redelivered copies that its
  message exists at most once (request, queue, node, task together), that its columns agree
  with its status, and where its task stands when it is closed. A final status then
  cannot move, since no other task of the job exists. Of redelivered jobs `ColumnsAgree` says less,
  by an invariant of its own (`Written`): a final status has its column, and columns are empty
  before the first task and after deletion. `OneTaskPerJob` and
  `FinalUnlessRedelivered`, the properties of the last two, are proved and have no run.
* `ImplementsPromise`: with `MaxRedeliver = 0` every step of Jobs is a step of
  JobPromise or leaves the status column alone; the type and once invariants give the
  guards of the abstract actions.
* `RedeliverySparesOthers`: what remains of that refinement with any number of redeliveries
  (`PollsForward`): a job that was delivered once still moves by the steps of JobPromise alone, and
  a redelivered one, which may go back from a final status, never comes back from deletion and is
  never pending again. Neither run has redeliveries and the refinement together; this theorem does.

`LogStreamProofs`:

* `StreamIsComplete`: `WindowInv` says that what a client was sent stands on the channel
  from its subscription on, that its inbox comes right after, and that nothing comes
  after that. Publishing and forwarding move the border of the two; a message before the
  subscription stays out.
  `NothingSkipped` has no run of its own: it is how `KeepsPromise` comes true.
* `ImplementsPromise`: the message that is forwarded is the next one of the log, by `WindowInv`, and the
  message that is published has a higher number than all of its execution, by `OrderInv` (what an
  execution has put on the channel are lines that it has logged, until its handler is closed).
* `SentinelIsFinal`: two parts. `SentinelLast`: an execution that has published its sentinel
  is over and its sentinel is the last of its messages. `LinesDecided`: each of its lines was committed,
  failed to commit, or went with the job, except the one that is being written. With
  `WindowInv` both carry over to what a client was sent.

`TeamsProofs`:

* `TypeCorrect`: the record of a request is only as good as what it read. `ReqOK`,
  `InviteesKnown` and `AnswersExisting` say that an answer is about an existing
  invitation, which names a user, and that invitations are never deleted.
* `AcceptedHonoured`: whoever sets ACCEPTED is then at `respond.add`, and leaves it
  only through `honoured` or `broken`; an answer that overwrites the status in between
  does not matter.
* `RemovedStays`: an action property by cases over the writers of `member`: the role
  update names a row, and a removed row is never matched.
* `SerialKeepsRules`: the refinement of `TeamPromise` when there is one request. `SerialInv` (with
  `Ready`) says, statement by statement, that what the only request has read still holds: it
  is the check of the abstract step that its next write takes. Without this assumption it is false.
* `LinkIsSpent`: how far the comment at team_service.py:69 is true. The rotation comes before the member is added, so a link that has admitted somebody is
  not the team's any more (`SpentLinkIsDead`) and can admit only requests that had looked it up
  before: each of them adds at most once, so a link admits at most as many users as requests run
  at a time. The proof counts, for every link, the uses and the requests that still hold it.
* `PendingIsBounded`: the same of "Join request already pending" (team_service.py:92). The proof counts
  a user's open invitations and his requests that have passed the look-up: the sum grows only by a
  look-up that finds nothing open, and then no more than the requests count.

`RevisionsProofs`:

* `ApprovedApplied`: inductive relative to the types: a step that ends one carrier of
  an approved patch (request, message, task) creates the next, writes, or records it
  in `failed`.
* `RejectedNotApplied`, `AnswersAreFinal`: not inductive alone, since a rejection may
  overwrite an approval. `AnswerInv` adds that a revision outside `overlap` has at most one
  active request (`Alone`) and still has the status this request has read (`StillAsRead`).
* `OrderIsKept`: `OrderInv` adds (`LaterCrossed`) that a revision whose patch is still in
  flight while a later one of its endpoint is approved is in `crossed`, so that whoever
  writes outside `crossed` writes the latest.
* `PatchedOnce`: of a revision outside `overlap` whose message was not copied, `OnePatchEach` says that its
  patch is in one place (the request about to send it, the queue or one worker), and nowhere once it
  was written or has failed. So a document that has moved on is not overwritten by the same patch again
  (`NotWrittenAgain`, which the run `revisions` checks): only a redelivery or two answers at once can do that.

`ProjectsProofs`:

* `DocumentationFindsProject`: for a task that looks for the project it was submitted for,
  `HasProject` says that from the moment a request has passed
  the insert, as long as a message or a task of its job exists, the project does; projects
  are never deleted.
* `GroupingFetched`: `RowInv` and `GroupingInv` follow the same argument on both tables: of
  what nobody raced for, one actor at most is about to insert a row, there is none yet, and
  there is one at most afterwards.
* `GroupingsAreTheirs`, `ClustersNotLost`: `ClusterInv`, with `Carried`, says what a task that has clusters
  carries from step to step - the project it found, the grouping it found, the job they came
  from - and that it is on its way to saving them or to a named failure.

`RegistrationProofs`:

* `EveryUserHasTeam`: `PlaceInv` ties the place of a request to its rows (a request past the
  user insert has one, before it has none; a team exists only for an ended request).
* `SlugsAreFirstFree`: `SlugInv` extends the statement to requests in the loop: the
  slugs below the counter of any request were taken, and teams are never deleted.
* `ConflictsAreRaces`: `RaceInv` says of a request outside `raced` that what it has
  checked is still free: whoever takes it would have been a rival when the later of the two
  checked.
* `DeactivationHolds`: the safety part of `DeactivatedIsLockedOut`. No step makes a deactivated user active,
  starts a request in his name, or gives him a token unless he logs in; every other step leaves his
  tokens alone or takes time from them.

`TeamConfigProofs`:

* `ImplementsPromise`: `Asking` and `Watching` say that the request that will write is an
  updater, and that what it has read, and what is current, is in its `since`; the
  row decrypts to what was stored (`SecretAssumption`). Each write is then the `Apply` of the promise.
* `MergeOverlays`: one merge, however deeply the documents are nested, is the overlay of the update on
  the document, at every path. What a document holds at a path is a recursive function of the length
  of the path (`Walk`); the proof goes down the path, and needs of the merge only `MergesKeyByKey`.
  `BeforeWellFounded` and `SetInduction` give the induction, in the form of sets.
* `NothingIsWiped`: the same of every step of `TeamConfig`, whatever overlaps: with `Asking` and `Watching`, what is written
  is the overlay of a request's update on something current since it began, and nothing else is touched.
* `SecretsSealed`: encrypting and decrypting any object gives it back, and no secret string of it is stored as it is.

`PromptsProofs`:

* `AlwaysFound`: `FoundInv` - while a process serves, or a request is under way, a system row
  exists (`Seeded`); rows are never removed.
* `DefaultFollowsCode`: `SeedInv` - without a clash one process at most is seeding, there is at most one
  system row, and what the process has read is still there.
* `OneOverrideUnlessRaced`: `OverrideInv` - requests about to insert, and an override beside
  one of them, have all passed the look-up together and are in `raced`.
* `ImplementsPromise`: with `RowInv` (the row a request holds was inserted by a request), every
  write is an `Apply`, or a `Double` of a promise that has ended; a deletion
  serves every other revert that holds the same row.

Only model-checked: the liveness properties (`EveryJobSettles`, `WorkerFreed`, `StreamEnds`,
`ApprovalEnds`, `DeactivatedIsLockedOut`), which are outside the prover's logic (fairness is stated
with ENABLED). That the recursive `DeepMerge` of `ConfigDocs` satisfies the equation of one call,
`MergesKeyByKey`, is an assumption of the proofs that TLC evaluates on every document of the `config` run:
the prover has no recursive operators.

## 5. Not modelled

* **Tracing**: flags that are set once per process, and the baggage of a job's trace. An
  exporter that fails is logged and ignored; no row, message or answer depends on it.
* **Dashboard, searches, listings**: one read-only query each, no state.
* **Schemas, settings, application set-up, migrations**: declarations. Constraints that
  matter (unique columns, cascades) are in the models that meet them.
* **send_invite** (team.py:148): the router passes four arguments to a method that
  takes three, so each call raises before it does anything.
* **The output directory of a failed run** (tasks.py:90): its contents are written by the
  external pipelines; only its removal is in this code.
* **RAG pipelines and Weaviate**: another repository; a call returns or raises.
* **Teams and projects that disappear**: nothing in the code deletes them.

Every hazard listed in `PROJECT.json` has a property. Known and without one, hence not listed there:

* the spent link is rotated in a commit of its own (team_service.py:69), so a request that dies
  after it has used the link up for nobody; `TokenAdmitsOne` covers the other order;
* role checks are the first statement of a request (dependencies.py:68; for a removal also
  team_service.py:149) and are not repeated: no rule in the code says what a request of a user
  who is demoted meanwhile should do;
* a sole admin may demote himself (team.py:185): legal calls leave a team without an admin;
* the job is COMPLETED before its clusters are saved (tasks.py:75): a client that polls may be early;
* the slug loop has no bound (team.py:30), and is modelled up to one.
