---- MODULE MCTaskTree ----
(* TaskTree on three tasks and two folders.  Unlike are tasks of one user whose ids
   do not contain one another; in Lookalikes the id of t2 contains that of t1. *)
EXTENDS TaskTree, TLC
CONSTANTS t1, t2, t3, f1, f2, u1, u2
ThreeTasks == {t1, t2, t3}
TwoFolders == {f1, f2}
TwoUsers == {u1, u2}
OneOwner == [t \in ThreeTasks |-> u1]
Unlike == {<<t, t>> : t \in ThreeTasks}
Lookalikes == Unlike \cup {<<t1, t2>>}
TaskFolderSymmetry == {p @@ q : p \in Permutations(ThreeTasks), q \in Permutations(TwoFolders)}
====
