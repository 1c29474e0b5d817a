------------------------------ MODULE MCCatalogue ------------------------------
(* Catalogue on two spaces, two folders, of which one is not shown in task management, two tasks
   and one item of each kind; Shelf on two users, two folders and two spaces to mark, two views
   and two rows.  The two share no row: area says which one moves. *)
EXTENDS Catalogue, Shelf, TLC
CONSTANTS s1, s2, f1, f2, t1, t2, i1, u1, u2, v1, v2, r1, r2
VARIABLE area
allVars == <<vars, shelfVars, area>>
TwoSpaces == {s1, s2}
TwoFolders == {f1, f2}
TwoTasks == {t1, t2}
OneItem == {i1}
OneElsewhere == {f2}
TwoUsers == {u1, u2}
Both == TwoFolders \cup TwoSpaces
TwoViews == {v1, v2}
TwoRows == {r1, r2}
Symmetry == Permutations(TwoSpaces) \cup Permutations(TwoTasks)

(* Catalogue stands still with nothing made. *)
Nothing ==
    /\ home = [f \in Folders |-> None] /\ made = {} /\ archived = {} /\ deleted = {}
    /\ lists = [x \in Nodes |-> {}] /\ own = {} /\ strayed = [f \in Folders |-> {}] /\ withdrawn = [x \in Spaces |-> {}]
    /\ placed = {} /\ over = [t \in Tasks |-> None] /\ has = [t \in Tasks |-> {}] /\ excused = {} /\ calls = 0

MCInit ==
    /\ ShelfInit
    /\ \/ area = "catalogue" /\ Init
       \/ area = "shelf" /\ Nothing
MCNext ==
    /\ UNCHANGED area
    /\ \/ area = "catalogue" /\ Next /\ UNCHANGED shelfVars
       \/ area = "shelf" /\ ShelfNext /\ UNCHANGED vars
MCSpec == MCInit /\ [][MCNext]_allVars
=============================================================================
