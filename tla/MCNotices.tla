------------------------------ MODULE MCNotices ------------------------------
(* Notifications on one task and its folder, Dashboards on two dashboards, two widgets and one
   folder, for two users.  The two share no row: area says which one moves. *)
EXTENDS Notifications, Dashboards, TLC
CONSTANTS u1, u2, out, t1, f1, none, b1, b2, w1, w2, s1, s2
VARIABLE area
vars == <<noticeVars, boardVars, area>>
TwoUsers == {u1, u2}
OneTask == {t1}
Some == {{}, {u1}, {u2}, TwoUsers \cup {out}}
TwoBoards == {b1, b2}
TwoWidgets == {w1, w2}
OneFolder == {f1}
TwoSlots == {s1, s2}
AllRead == TwoUsers \X OneFolder
Symmetry == Permutations(TwoUsers) \cup Permutations(TwoBoards) \cup Permutations(TwoWidgets) \cup Permutations(TwoSlots)

(* The other area stands still. *)
NoticesStill == NoticeInit /\ \A x \in Things : status[x] = "ALIVE"
BoardsStill ==
    /\ boards = {} /\ system = {} /\ links = {} /\ shows = {} /\ favourites = {} /\ spent = {} /\ raced = {}
    /\ rights = [b \in Boards |-> [v \in Viewers |-> {}]] /\ home = [w \in Widgets |-> Nothing]
    /\ default = [v \in Viewers |-> Nothing] /\ calls = [c \in Slots |-> Idle] /\ started = 0

MCInit ==
    \/ area = "notices" /\ NoticeInit /\ BoardsStill
    \/ area = "dashboards" /\ NoticesStill /\ BoardsInit
MCNext ==
    /\ UNCHANGED area
    /\ \/ area = "notices" /\ NoticeNext /\ UNCHANGED boardVars
       \/ area = "dashboards" /\ BoardsNext /\ UNCHANGED noticeVars
MCSpec == MCInit /\ [][MCNext]_vars
=============================================================================
