CONSTANTS
  t1 = t1  t2 = t2  t3 = t3
  f1 = f1  f2 = f2
  u1 = u1
  w1 = w1  w2 = w2
  s1 = s1  s2 = s2  s3 = s3
  Tasks <- TwoTasks
  Folders <- TwoFolders
  Users <- OneUser
  Workflows <- TwoFlows
  States <- ThreeStates
  Trusted <- OneUser
  None = None
  Ops = {"create", "position", "move", "share", "workflows"}
  MaxColumns = 2
  MaxIndex = 0
  MaxPlace = 2
  MaxRows = 2
SPECIFICATION Spec
SYMMETRY BoardSymmetry
PROPERTIES StaysOnBoard
