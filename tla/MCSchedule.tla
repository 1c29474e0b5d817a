---- MODULE MCSchedule ----
(* Schedule on three tasks of one folder: the days asked for lie in the middle of those a
   task may come to have, so that a chain of moves is not cut short. *)
EXTENDS Schedule, TLC
CONSTANTS t1, t2, t3, f1
ThreeTasks == {t1, t2, t3}
OneFolder == {f1}
MiddleDays == {4, 6}
SevenDays == 2..8
TwoTypes == {"FINISH_TO_START", "START_TO_FINISH"}
TaskSymmetry == Permutations(ThreeTasks)
====
