----------------------------- MODULE LogStream ------------------------------
(***************************************************************************)
(* The log stream of one job. A task attaches a RedisLogHandler: each log  *)
(* line is published on the Redis channel logs:{job_id} and then committed *)
(* to generation_jobs_logs, and a "complete" sentinel is published when    *)
(* the handler closes. A WebSocket handler of the API subscribes to the    *)
(* channel for one client and forwards what arrives until the sentinel, a  *)
(* deadline without activity, or an error. A client reads the committed    *)
(* lines with GET /jobs/{id}.                                              *)
(*                                                                         *)
(* Code: worker/redis_log_handler.py, api/api/routers/logs.py,             *)
(* api/services/job_service.py (get_job_logs, delete_job).                 *)
(*                                                                         *)
(* A definition announced as a mutant is a plausible mistake in the code,  *)
(* kept to show that a property would see it; no specification uses it.    *)
(***************************************************************************)
EXTENDS Naturals, Sequences, SequencesExt

CONSTANTS
  Exec,      \* executions of the job's task (two when its message is redelivered)
  Client,    \* WebSocket clients of the job
  MaxLines   \* bound: log lines of one execution

ASSUME MaxLinesAssumption == MaxLines \in Nat

(* A message on the channel: line n of an execution, or its sentinel.      *)
Complete == MaxLines + 1
Message == Exec \X (1..Complete)
Line == Exec \X (1..MaxLines)
IsComplete(m) == m[2] = Complete

VARIABLES
  epc,         \* e's handler: "waiting", "attached", "persist", "closed", "dead"
  line,        \* lines e has logged
  channel,     \* history: every message published, in order
  exists,      \* the job's row is in the database
  stored,      \* log lines committed to the database
  dropped,     \* history: lines that will never be committed
  cpc,         \* c's WebSocket handler
  subscribed,  \* clients whose handler holds a subscription
  start,       \* history: length of channel when c subscribed
  inbox,       \* messages Redis delivered to c's subscription, not yet read
  received,    \* messages forwarded to c
  expired,     \* c's deadline has passed
  gone,        \* clients that have hung up
  outcome,     \* why c's loop ended
  page         \* log lines c saw when it last loaded the job

task == <<epc, line, channel>>
db == <<exists, stored, dropped>>
socket == <<cpc, subscribed, start, received, expired, outcome>>
vars == <<task, db, socket, inbox, gone, page>>

Looping == {"check", "poll"}
CPC == {"away", "accepted", "finally", "closed"} \cup Looping
Outcome == {"none", "complete", "timeout", "gone", "error"}

Init ==
  /\ epc = [e \in Exec |-> "waiting"]
  /\ line = [e \in Exec |-> 0]
  /\ channel = <<>>
  /\ exists = TRUE
  /\ stored = {}
  /\ dropped = {}
  /\ cpc = [c \in Client |-> "away"]
  /\ subscribed = {}
  /\ start = [c \in Client |-> 0]
  /\ inbox = [c \in Client |-> <<>>]
  /\ received = [c \in Client |-> <<>>]
  /\ expired = [c \in Client |-> FALSE]
  /\ gone = {}
  /\ outcome = [c \in Client |-> "none"]
  /\ page = [c \in Client |-> {}]

-----------------------------------------------------------------------------
(* The task.                                                               *)

(* Redis delivers to whoever is subscribed at this moment, in order.       *)
Publish(m) ==
  /\ channel' = Append(channel, m)
  /\ inbox' = [c \in Client |-> IF c \in subscribed THEN Append(inbox[c], m) ELSE inbox[c]]

(* job_log_stream adds the handler to the root logger.                     *)
Attach(e) ==
  /\ epc[e] = "waiting"
  /\ epc' = [epc EXCEPT ![e] = "attached"]
  /\ UNCHANGED <<line, channel, db, socket, inbox, gone, page>>

(* emit, first half: the line goes to the channel.                         *)
PublishLine(e) ==
  /\ epc[e] = "attached"
  /\ line[e] < MaxLines
  /\ line' = [line EXCEPT ![e] = @ + 1]
  /\ Publish(<<e, line[e] + 1>>)
  /\ epc' = [epc EXCEPT ![e] = "persist"]
  /\ UNCHANGED <<db, socket, gone, page>>

(* emit, when publish raises: the one `try' around both halves ends, and   *)
(* the line is not committed either.                                       *)
PublishFails(e) ==
  /\ epc[e] = "attached"
  /\ line[e] < MaxLines
  /\ line' = [line EXCEPT ![e] = @ + 1]
  /\ dropped' = dropped \cup {<<e, line[e] + 1>>}
  /\ UNCHANGED <<epc, channel, exists, stored, socket, inbox, gone, page>>

(* emit, second half. A failed commit is rolled back and swallowed; so is  *)
(* the foreign key error once the job is deleted.                          *)
Persist(e) ==
  /\ epc[e] = "persist"
  /\ epc' = [epc EXCEPT ![e] = "attached"]
  /\ \/ /\ exists
        /\ stored' = stored \cup {<<e, line[e]>>}
        /\ UNCHANGED dropped
     \/ /\ dropped' = dropped \cup {<<e, line[e]>>}
        /\ UNCHANGED stored
  /\ UNCHANGED <<line, channel, exists, socket, inbox, gone, page>>

(* Mutants of CloseHandler: the sentinel is logged like a line, or the     *)
(* handler stays on the root logger.                                       *)
CloseHandlerLogsSentinel(e) ==
  /\ epc[e] = "attached"
  /\ epc' = [epc EXCEPT ![e] = "closed"]
  /\ Publish(<<e, Complete>>)
  /\ stored' = stored \cup {<<e, Complete>>}
  /\ UNCHANGED <<line, exists, dropped, socket, gone, page>>
CloseHandlerStaysAttached(e) ==
  /\ epc[e] = "attached"
  /\ \A m \in Range(channel) : m # <<e, Complete>>
  /\ Publish(<<e, Complete>>)
  /\ UNCHANGED <<epc, line, db, socket, gone, page>>

(* The end of job_log_stream: the handler is removed, then close publishes *)
(* the sentinel; a publish that fails is swallowed.                        *)
CloseHandler(e) ==
  /\ epc[e] = "attached"
  /\ epc' = [epc EXCEPT ![e] = "closed"]
  /\ \/ Publish(<<e, Complete>>)
     \/ UNCHANGED <<channel, inbox>>
  /\ UNCHANGED <<line, db, socket, gone, page>>

(* The worker process is killed: no sentinel, and a line between its two   *)
(* halves is never committed.                                              *)
Killed(e) ==
  /\ epc[e] \in {"attached", "persist"}
  /\ epc' = [epc EXCEPT ![e] = "dead"]
  /\ dropped' = IF epc[e] = "persist" THEN dropped \cup {<<e, line[e]>>} ELSE dropped
  /\ UNCHANGED <<line, channel, exists, stored, socket, inbox, gone, page>>

(* delete_job: the row and its logs, in one transaction.                   *)
DeleteJob ==
  /\ exists
  /\ exists' = FALSE
  /\ stored' = {}
  /\ UNCHANGED <<task, dropped, socket, inbox, gone, page>>

-----------------------------------------------------------------------------
(* stream_job_logs, one handler per client.                                *)

(* The token decodes and the socket is accepted.                           *)
AcceptSocket(c) ==
  /\ cpc[c] = "away"
  /\ cpc' = [cpc EXCEPT ![c] = "accepted"]
  /\ UNCHANGED <<task, db, subscribed, start, received, expired, outcome, inbox, gone, page>>

(* c's handler leaves its loop, or never reaches it.                       *)
End(c, why) ==
  /\ cpc' = [cpc EXCEPT ![c] = "finally"]
  /\ outcome' = [outcome EXCEPT ![c] = why]

Subscribe(c) ==
  /\ cpc[c] = "accepted"
  /\ cpc' = [cpc EXCEPT ![c] = "check"]
  /\ subscribed' = subscribed \cup {c}
  /\ start' = [start EXCEPT ![c] = Len(channel)]
  /\ UNCHANGED <<task, db, received, expired, outcome, inbox, gone, page>>

(* The top of the loop: the deadline is looked at before the inbox.        *)
CheckDeadline(c) ==
  /\ cpc[c] = "check"
  /\ \/ /\ expired[c]
        /\ End(c, IF c \in gone THEN "gone" ELSE "timeout")
     \/ /\ ~ expired[c]
        /\ cpc' = [cpc EXCEPT ![c] = "poll"]
        /\ UNCHANGED outcome
  /\ UNCHANGED <<task, db, subscribed, start, received, expired, inbox, gone, page>>

(* Mutant of NoMessage: polling counts as activity.                        *)
NoMessageResetsDeadline(c) ==
  /\ cpc[c] = "poll"
  /\ inbox[c] = <<>>
  /\ cpc' = [cpc EXCEPT ![c] = "check"]
  /\ expired' = [expired EXCEPT ![c] = FALSE]
  /\ UNCHANGED <<task, db, subscribed, start, received, outcome, inbox, gone, page>>

(* get_message times out.                                                  *)
NoMessage(c) ==
  /\ cpc[c] = "poll"
  /\ inbox[c] = <<>>
  /\ cpc' = [cpc EXCEPT ![c] = "check"]
  /\ UNCHANGED <<task, db, subscribed, start, received, expired, outcome, inbox, gone, page>>

(* Mutant of Forward: everything waiting is read, the first is sent.       *)
ForwardFirst(c) ==
  /\ cpc[c] = "poll"
  /\ inbox[c] # <<>>
  /\ inbox' = [inbox EXCEPT ![c] = <<>>]
  /\ c \notin gone
  /\ received' = [received EXCEPT ![c] = Append(@, Head(inbox[c]))]
  /\ expired' = [expired EXCEPT ![c] = FALSE]
  /\ IF IsComplete(Head(inbox[c]))
     THEN End(c, "complete")
     ELSE cpc' = [cpc EXCEPT ![c] = "check"] /\ UNCHANGED outcome
  /\ UNCHANGED <<task, db, subscribed, start, gone, page>>

(* One message is read and sent. That a client has hung up shows only      *)
(* here, and in the send of the timeout notice.                            *)
Forward(c) ==
  /\ cpc[c] = "poll"
  /\ inbox[c] # <<>>
  /\ inbox' = [inbox EXCEPT ![c] = Tail(@)]
  /\ \/ /\ c \in gone
        /\ End(c, "gone")
        /\ UNCHANGED <<received, expired>>
     \/ /\ c \notin gone
        /\ received' = [received EXCEPT ![c] = Append(@, Head(inbox[c]))]
        /\ expired' = [expired EXCEPT ![c] = FALSE]
        /\ IF IsComplete(Head(inbox[c]))
           THEN End(c, "complete")
           ELSE cpc' = [cpc EXCEPT ![c] = "check"] /\ UNCHANGED outcome
  /\ UNCHANGED <<task, db, subscribed, start, gone, page>>

(* Redis raises, from subscribe or from get_message.                       *)
RedisFails(c) ==
  /\ cpc[c] \in {"accepted", "poll"}
  /\ End(c, "error")
  /\ UNCHANGED <<task, db, subscribed, start, received, expired, inbox, gone, page>>

(* The `finally' block. When a call of it raises, the connection to Redis  *)
(* is gone, and the subscription with it.                                  *)
Unsubscribe(c) ==
  /\ cpc[c] = "finally"
  /\ cpc' = [cpc EXCEPT ![c] = "closed"]
  /\ subscribed' = subscribed \ {c}
  /\ inbox' = [inbox EXCEPT ![c] = <<>>]
  /\ UNCHANGED <<task, db, start, received, expired, outcome, gone, page>>

(* LOG_STREAM_TIMEOUT_SECONDS have passed since the deadline was set.      *)
Expire(c) ==
  /\ cpc[c] \in Looping
  /\ ~ expired[c]
  /\ expired' = [expired EXCEPT ![c] = TRUE]
  /\ UNCHANGED <<task, db, cpc, subscribed, start, received, outcome, inbox, gone, page>>

(* The client hangs up; the handler is not told.                           *)
Leave(c) ==
  /\ cpc[c] \in {"accepted"} \cup Looping
  /\ c \notin gone
  /\ gone' = gone \cup {c}
  /\ UNCHANGED <<task, db, socket, inbox, page>>

(* get_job_status returns the committed lines of an existing job.          *)
LoadJob(c) ==
  /\ exists
  /\ page' = [page EXCEPT ![c] = stored]
  /\ UNCHANGED <<task, db, socket, inbox, gone>>

-----------------------------------------------------------------------------
TaskNext(e) ==
  \/ Attach(e)
  \/ PublishLine(e)
  \/ PublishFails(e)
  \/ Persist(e)
  \/ CloseHandler(e)
  \/ Killed(e)

LoopStep(c) == NoMessage(c) \/ Forward(c)

ClientNext(c) ==
  \/ AcceptSocket(c)
  \/ Subscribe(c)
  \/ CheckDeadline(c)
  \/ LoopStep(c)
  \/ RedisFails(c)
  \/ Unsubscribe(c)
  \/ Expire(c)
  \/ Leave(c)
  \/ LoadJob(c)

Next ==
  \/ \E e \in Exec : TaskNext(e)
  \/ \E c \in Client : ClientNext(c)
  \/ DeleteJob

(* The event loop runs every handler, and time passes. Nothing is assumed  *)
(* of the worker, the client or Redis.                                     *)
Fairness ==
  \A c \in Client :
    /\ WF_vars(CheckDeadline(c))
    /\ WF_vars(LoopStep(c))
    /\ WF_vars(Unsubscribe(c))
    /\ WF_vars(Expire(c))

Spec == Init /\ [][Next]_vars /\ Fairness

-----------------------------------------------------------------------------
TypeOK ==
  /\ epc \in [Exec -> {"waiting", "attached", "persist", "closed", "dead"}]
  /\ line \in [Exec -> 0..MaxLines]
  /\ channel \in Seq(Message)
  /\ exists \in BOOLEAN
  /\ stored \subseteq Line
  /\ dropped \subseteq Line
  /\ cpc \in [Client -> CPC]
  /\ subscribed \subseteq Client
  /\ start \in [Client -> Nat]
  /\ inbox \in [Client -> Seq(Message)]
  /\ received \in [Client -> Seq(Message)]
  /\ expired \in [Client -> BOOLEAN]
  /\ gone \subseteq Client
  /\ outcome \in [Client -> Outcome]
  /\ page \in [Client -> SUBSET Line]

(* What the channel carried since c subscribed.                            *)
Since(c) == SubSeq(channel, start[c] + 1, Len(channel))

(* After the sentinel of an execution nothing of it is still to come, on   *)
(* the channel or in the database: a client that got the sentinel and      *)
(* loads the job finds every line it was sent, unless the line's commit    *)
(* failed or the job was deleted.                                          *)
CompleteIsFinal ==
  \A c \in Client, e \in Exec : <<e, Complete>> \in Range(received[c]) =>
    /\ \A m \in Range(Since(c)) : m[1] = e => m \in Range(received[c])
    /\ exists => \A m \in Range(received[c]) :
         m[1] = e /\ ~ IsComplete(m) => m \in stored \cup dropped

(* What a client is sent is a piece of one log, without a gap and ending   *)
(* at a sentinel at the latest, and the log keeps the lines of every       *)
(* execution in order: LogStream implements LogPromise.                    *)
Watch(c) ==
  CASE cpc[c] \in {"away", "accepted"} -> "before"
    [] cpc[c] \in Looping -> "during"
    [] OTHER -> "after"
Promise == INSTANCE LogPromise WITH
  log <- channel, watch <- [c \in Client |-> Watch(c)], joined <- start, seen <- received
KeepsPromise == Promise!Spec

(* A subscription never outlives its handler by more than the deadline,    *)
(* even if the worker dies silently or the client has hung up.             *)
StreamEnds == \A c \in Client : c \in subscribed ~> c \notin subscribed
=============================================================================
