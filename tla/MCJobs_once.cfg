\* Two jobs of every behaviour, two workers, each message delivered once.
CONSTANTS
  Job = {j1, j2}
  Worker = {w1, w2}
  Kinds <- MCKinds
  NoJob = NoJob
  MaxRedeliver = 0
SPECIFICATION Spec
PROPERTIES KeepsPromise EveryJobSettles WorkerFreed
\* The system stops when every job is done.
CHECK_DEADLOCK FALSE
