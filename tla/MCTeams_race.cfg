\* Two requests at a time.
CONSTANTS
  User = {u0, u1}
  Founder = u0
  Role <- MCRoles
  Invitation = {i1, i2}
  Request = {r1, r2}
  MaxToken = 1
  NoOne = NoOne
SYMMETRY MCSymmetry
SPECIFICATION Spec
INVARIANTS AcceptedIsHonoured
PROPERTIES RemovedStaysRemoved
CHECK_DEADLOCK FALSE
