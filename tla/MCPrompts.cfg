\* Three requests, and as many starts of the two processes as it takes.
CONSTANTS
  p1 = p1
  p2 = p2
  old = old
  new = new
  Process <- MCProcess
  Request = {r1, r2, r3}
  Content <- MCContent
  Code <- MCCode
  NoRow = NoRow
  Default = Default
SYMMETRY MCSymmetry
SPECIFICATION Spec
INVARIANTS TypeOK OneOverride DefaultIsCurrent PromptAlwaysFound
PROPERTIES KeepsPromise
\* Every request may have ended.
CHECK_DEADLOCK FALSE
