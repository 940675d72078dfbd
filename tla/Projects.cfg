\* Two jobs of either kind on two names, two workers, one redelivery each.
CONSTANTS
  Job = {j1, j2}
  Name = {n1, n2}
  Unnamed = {n2}
  Worker = {w1, w2}
  MaxRedeliver = 1
  None = None
SPECIFICATION Spec
INVARIANTS TypeOK FetchAnswers DocumentationHasProject GroupingIsOfProject ClustersAccountedFor
\* Every job may have ended.
CHECK_DEADLOCK FALSE
