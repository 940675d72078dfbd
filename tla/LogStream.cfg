\* Two executions of the job (a redelivered message) of one line each, one client.
CONSTANTS
  Exec = {e1, e2}
  Client = {c1}
  MaxLines = 1
SPECIFICATION Spec
INVARIANTS TypeOK CompleteIsFinal
PROPERTIES KeepsPromise StreamEnds
\* Everything may have ended.
CHECK_DEADLOCK FALSE
