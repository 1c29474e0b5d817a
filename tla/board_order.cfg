CONSTANTS
  t1 = t1  t2 = t2  t3 = t3
  f1 = f1  f2 = f2
  u1 = u1
  w1 = w1  w2 = w2
  s1 = s1  s2 = s2  s3 = s3
  Tasks <- ThreeTasks
  Folders <- OneFolder
  Users <- OneUser
  Workflows <- TwoFlows
  States <- TwoStates
  Trusted <- OneUser
  None = None
  Ops = {"create", "position"}
  MaxColumns = 2
  MaxIndex = 2
  MaxPlace = 2
  MaxRows = 3
SPECIFICATION Spec
SYMMETRY BoardSymmetry
PROPERTIES MoveInserts ColumnInserts
