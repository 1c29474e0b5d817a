CONSTANTS
  t1 = t1  t2 = t2  t3 = t3
  f1 = f1  f2 = f2
  u1 = u1  u2 = u2
  Tasks <- ThreeTasks
  Folders <- TwoFolders
  Users <- TwoUsers
  Owner <- OneOwner
  None = None
  ShowsIn <- Unlike
  MaxBatch = 2
  MaxCopies = 2
  MaxRows = 4
SPECIFICATION Spec
SYMMETRY TaskFolderSymmetry
PROPERTIES OnlyMovesBreakATree KeepsAFolder SeenStaysInTree
