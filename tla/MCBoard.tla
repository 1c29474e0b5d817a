---- MODULE MCBoard ----
(* Board on a few tasks, two folders and two workflows. *)
EXTENDS Board, TLC
CONSTANTS t1, t2, t3, f1, f2, u1, w1, w2, s1, s2, s3
TwoTasks == {t1, t2}
ThreeTasks == {t1, t2, t3}
OneFolder == {f1}
TwoFolders == {f1, f2}
OneUser == {u1}
TwoFlows == {w1, w2}
TwoStates == {s1, s2}
ThreeStates == {s1, s2, s3}
BoardSymmetry == Permutations(ThreeTasks) \cup Permutations(TwoFolders) \cup
                 Permutations(TwoFlows) \cup Permutations(ThreeStates)
====
