CONSTANTS
  u1 = u1  u2 = u2  u3 = u3  c1 = c1  c2 = c2
  Users <- TwoUsers
  Requests <- TwoRequests
  Quorums = {1}
  Panels <- OnePanel
  MaxLog = 3
SPECIFICATION Spec
SYMMETRY ConnectionSymmetry
INVARIANTS TypeOK OncePerRequest OnlyStragglersAfterDelete
PROPERTIES AuditTrail
CHECK_DEADLOCK FALSE
