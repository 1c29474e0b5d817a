CONSTANTS
  u1 = u1  u2 = u2
  f1 = f1  f2 = f2  f3 = f3
  g1 = g1  g2 = g2
  t1 = t1
  Users <- TwoUsers
  Folders <- ThreeFolders
  Hidden <- OneHidden
  Space = Space  None = None  Nowhere = Nowhere
  Roles <- TwoRoles
  MaxCalls = 2
  Members <- TwoUsers
  PermissionGroups <- TwoGroups
  Teams <- OneTeam
  MaxPermissionCalls = 6
SPECIFICATION MCSpec
SYMMETRY Symmetry
INVARIANTS Backed ReadersAreMembers RowsFollow
PROPERTIES OwnerKept GrantReaches
CHECK_DEADLOCK FALSE
