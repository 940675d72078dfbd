\* One request at a time.
CONSTANTS
  User = {u0, u1, u2}
  Founder = u0
  Role <- AllRoles
  Invitation = {i1, i2}
  Request = {r1}
  MaxToken = 2
  NoOne = NoOne
SYMMETRY MCSymmetry
SPECIFICATION Spec
INVARIANTS TypeOK
PROPERTIES KeepsRules
\* Tokens and invitations run out.
CHECK_DEADLOCK FALSE
