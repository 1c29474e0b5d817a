---- MODULE MCFolderTree ----
(* FolderTree on three folders in one space. *)
EXTENDS FolderTree, TLC
LOCAL INSTANCE SequencesExt
CONSTANTS f1, f2, f3
ThreeFolders == {f1, f2, f3}
AllOrders == SetToSeqs(ThreeFolders)
FolderSymmetry == Permutations(ThreeFolders)
====
