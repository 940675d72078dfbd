\* Two jobs of every behaviour, two workers, one redelivered copy of each.
CONSTANTS
  Job = {j1, j2}
  Worker = {w1, w2}
  Kinds <- MCKinds
  NoJob = NoJob
  MaxRedeliver = 1
SYMMETRY MCSymmetry
SPECIFICATION Spec
INVARIANTS TypeOK NoOrphan SettledWhenStreamCloses ColumnsMatchStatus NoConfigFileLeft
\* The system stops when every job is done.
CHECK_DEADLOCK FALSE
