SPECIFICATION Spec
CONSTANTS
  u1 = u1
  u2 = u2
  g1 = g1
  h1 = h1
  h2 = h2
  q1 = q1
  None = None
  User <- TwoUsers
  Group = {}
  GroupsOf <- NoGroups
  Admin <- OneAdmin
  Handler <- TwoHandlers
  Request <- OneAccessRequest
  Granted <- OnlyManager
  RowLocks = FALSE
SYMMETRY Symmetry
CHECK_DEADLOCK FALSE
INVARIANTS
  OwnerRemains
  PurgeLeavesNothing
PROPERTIES
  DecisionsStand
