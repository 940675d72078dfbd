----------------------------- MODULE LogPromise -----------------------------
(***************************************************************************)
(* What those who watch the log of a job are promised (api/api/routers/    *)
(* logs.py, worker/redis_log_handler.py). There is one log. In it the      *)
(* lines of an execution stand in order, each at most once, and its        *)
(* sentinel last. Who starts to watch sees what is logged from then on, in *)
(* order and without a gap, until he sees a sentinel or is cut off.        *)
(* How lines, inboxes, deadlines and failures bring this about is left to  *)
(* LogStream.                                                              *)
(***************************************************************************)
EXTENDS Naturals, Sequences

CONSTANTS Exec, Client, Complete

VARIABLES log, watch, joined, seen
vars == <<log, watch, joined, seen>>

Init ==
  /\ log = <<>>
  /\ watch = [c \in Client |-> "before"]
  /\ joined = [c \in Client |-> 0]
  /\ seen = [c \in Client |-> <<>>]

Write(e, n) ==
  /\ \A i \in 1..Len(log) : log[i][1] = e => log[i][2] < n
  /\ log' = Append(log, <<e, n>>)
  /\ UNCHANGED <<watch, joined, seen>>

Join(c) ==
  /\ watch[c] = "before"
  /\ watch' = [watch EXCEPT ![c] = "during"]
  /\ joined' = [joined EXCEPT ![c] = Len(log)]
  /\ UNCHANGED <<log, seen>>

See(c) ==
  LET i == joined[c] + Len(seen[c]) + 1 IN
  /\ watch[c] = "during"
  /\ i <= Len(log)
  /\ seen' = [seen EXCEPT ![c] = Append(@, log[i])]
  /\ watch' = IF log[i][2] = Complete THEN [watch EXCEPT ![c] = "after"] ELSE watch
  /\ UNCHANGED <<log, joined>>

CutOff(c) ==
  /\ watch[c] # "after"
  /\ watch' = [watch EXCEPT ![c] = "after"]
  /\ UNCHANGED <<log, joined, seen>>

Next ==
  \/ \E e \in Exec, n \in 1..Complete : Write(e, n)
  \/ \E c \in Client : Join(c) \/ See(c) \/ CutOff(c)

Spec == Init /\ [][Next]_vars
=============================================================================
