\* One revision, and a document of another team with the same node id.
CONSTANTS
  Revision = {r1}
  Team = {t1, t2}
  Endpoint = {e1}
  Request = {q1}
  Worker = {w1}
  MaxRedeliver = 0
  None = None
  Generated = Generated
SPECIFICATION Spec
INVARIANTS IsolatedPerTeam
\* Every revision may have been answered and patched.
CHECK_DEADLOCK FALSE
