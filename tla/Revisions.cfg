\* Two revisions of one endpoint, two answers at a time, two workers.
CONSTANTS
  Revision = {r1, r2}
  Team = {t1}
  Endpoint = {e1}
  Request = {q1, q2}
  Worker = {w1, w2}
  MaxRedeliver = 1
  None = None
  Generated = Generated
SPECIFICATION Spec
INVARIANTS ApprovedIsApplied RejectedIsNotApplied
PROPERTIES AnsweredOnce NoReturnToOlder NotWrittenAgain ApprovalEnds
\* Every revision may have been answered and patched.
CHECK_DEADLOCK FALSE
