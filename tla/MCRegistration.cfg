\* Three requests; the first, once registered, may create teams.
CONSTANTS
  Request = {r1, r2, r3}
  Client = {r1}
  Email = {e1, e2}
  Name <- MCName
  Slug <- MCSlug
  Base <- MCBase
  Numbered <- MCNumbered
  MaxCounter = 3
  AccessLife = 1
  RefreshLife = 2
  Nothing = Nothing
SPECIFICATION Spec
INVARIANTS TypeOK UserHasTeam ConflictOnlyIfRaced FirstFreeSlug
PROPERTIES DeactivatedIsLockedOut
\* Every request may have ended.
CHECK_DEADLOCK FALSE
