CONSTANTS
  t1 = t1  t2 = t2  t3 = t3
  f1 = f1
  Tasks <- ThreeTasks
  Folders <- OneFolder
  None = None
  Days <- MiddleDays
  Reach <- SevenDays
  MaxDeps = 2
  MaxCalls = 2
  Types <- TwoTypes
SPECIFICATION ScheduleSpec
SYMMETRY TaskSymmetry
INVARIANTS AncestorsSpan FolderCovers DependencyKept
PROPERTIES StaysInOrder
CHECK_DEADLOCK FALSE
