CONSTANTS
  User = {u0, u1, u2}
  Founder = u0
  Role <- MCRoles
  Invitation = {i1, i2}
  Request = {r1, r2}
  MaxToken = 2
  NoOne = NoOne
SYMMETRY MCSymmetry
SPECIFICATION Spec
INVARIANTS TokenAdmitsOne
CHECK_DEADLOCK FALSE
