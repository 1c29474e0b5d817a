CONSTANTS
  u1 = u1  u2 = u2  u3 = u3  c1 = c1  c2 = c2
  Users <- ThreeUsers
  Requests <- OneRequest
  Quorums = {1, 2}
  Panels <- SomePanels
  MaxLog = 3
SPECIFICATION Spec

INVARIANTS ActsOnce RejectedIsBacked
PROPERTY ImplementsDesk
CHECK_DEADLOCK FALSE
