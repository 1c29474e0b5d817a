CONSTANTS
  f1 = f1  f2 = f2  f3 = f3
  Folders <- ThreeFolders
  Space = Space
  Top = Top
  Orders <- AllOrders
  MaxVisits = 7
  Ops = {"create", "bind", "unbind", "move", "archive", "delete", "restoreArchived", "restoreDeleted", "purge"}
SPECIFICATION Spec
SYMMETRY FolderSymmetry
INVARIANTS Acyclic
PROPERTIES KeepsAParent ArchiveTakesAll RestoreBringsBack
