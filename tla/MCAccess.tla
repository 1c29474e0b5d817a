------------------------------ MODULE MCAccess ------------------------------
(* FolderAccess and Groups on two users.  They write rows of assigned_permission that no query of
   the other finds (with and without an entity), so one run checks each by itself: area says which
   one moves. *)
EXTENDS FolderAccess, Groups, TLC
CONSTANTS u1, u2, f1, f2, f3, g1, g2, t1
VARIABLE area
vars == <<folderVars, groupVars, area>>
TwoUsers == {u1, u2}
ThreeFolders == {f1, f2, f3}
OneHidden == {f3}
TwoGroups == {g1, g2}
OneTeam == {t1}
TwoRoles == {"FULL", "READONLY"}
Symmetry == Permutations(TwoUsers) \cup Permutations(TwoGroups)

(* Which folder is the outer one is no matter, and the one below it is the hidden one or not. *)
FirstIsOuter == parent[f1] = Space /\ (parent[f3] = f1 => view = [n \in Nodes |-> "PUBLIC"])

(* The other area stands still: no folder yet, no group yet. *)
FoldersStill ==
    /\ parent = [f \in Folders |-> None] /\ view = [n \in Nodes |-> "PUBLIC"] /\ held = [k \in Nodes \X Users \X Kinds |-> {}]
    /\ strayed = {} /\ foreign = {} /\ team = {} /\ invited = [n \in Nodes |-> None] /\ excused = {} /\ accessed = 0
    /\ \E u \in Users : owner = [n \in Nodes |-> u]
GroupsStill == GroupsInit /\ \A u \in Members : own[u] = {Row({"READ"})}

MCInit ==
    \/ area = "folders" /\ Init /\ FirstIsOuter /\ GroupsStill
    \/ area = "groups" /\ FoldersStill /\ GroupsInit
MCNext ==
    /\ UNCHANGED area
    /\ \/ area = "folders" /\ Next /\ UNCHANGED groupVars
       \/ area = "groups" /\ GroupsNext /\ UNCHANGED folderVars
MCSpec == MCInit /\ [][MCNext]_vars
=============================================================================
