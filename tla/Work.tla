--------------------------------- MODULE Work ---------------------------------
(***************************************************************************)
(* What Board and Schedule are both about: the tasks of folders.           *)
(***************************************************************************)
EXTENDS FiniteSets

CONSTANTS
    Folders, Tasks,
    None   \* no parent; for Board also no owner, an unknown code

ASSUME NoneAssumption == None \notin Tasks
ASSUME FiniteAssumption == IsFiniteSet(Folders) /\ IsFiniteSet(Tasks)
=============================================================================
