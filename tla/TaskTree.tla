------------------------------ MODULE TaskTree ------------------------------
(***************************************************************************)
(* The tasks of some folders: tables task and task_relation, and the calls *)
(* of task-base.service.ts that change who hangs where and who is live.    *)
(*                                                                         *)
(* A row <<f, p, c>> of task_relation says that task c is in folder f,     *)
(* below p, or at the root of f when p is None.  A task shared with other  *)
(* folders has rows there too.  Two equal rows are refused by the unique   *)
(* constraint unless the parent is null, so the table is a bag.  Columns   *)
(* (workflow states), indexes and paths are not modelled.                  *)
(*                                                                         *)
(* One call runs at a time here: each call is one action.  A call whose    *)
(* recursion does not end, or that throws, leaves nothing and is no step.  *)
(***************************************************************************)
EXTENDS Naturals, Sequences, FiniteSets, Bags, Functions

CONSTANTS
    Folders,    \* the ids of the folders
    Tasks,      \* the ids tasks may get
    Users,      \* the users who own tasks and call
    Owner,      \* the user a task is created for, its user_id
    None,       \* the missing parent
    ShowsIn,    \* pairs <<t, u>>: the digits of id t are part of those of u
    MaxBatch,   \* bound: tasks moved by one call
    MaxCopies,  \* bound: equal rows
    MaxRows     \* bound: different rows

ASSUME NoneAssumption == None \notin Tasks
ASSUME ShowsInAssumption == ShowsIn \subseteq Tasks \X Tasks /\ \A t \in Tasks : <<t, t>> \in ShowsIn
ASSUME OwnerAssumption == Owner \in [Tasks -> Users]
ASSUME BoundsAssumption == {MaxBatch, MaxCopies, MaxRows} \subseteq Nat \ {0}

VARIABLES
    known,     \* the rows of task
    archived,  \* those with archived_at set
    deleted,   \* those with deleted_at set
    rows       \* the rows of task_relation, a bag

vars == <<known, archived, deleted, rows>>

Parents == Tasks \cup {None}
Slots   == Folders \X Parents \X Tasks
Live    == known \ (archived \cup deleted)

EdgesOf(r, f) == {<<s[2], s[3]>> : s \in {x \in DOMAIN r : x[1] = f}}
Edges(f) == EdgesOf(rows, f)
AllEdges == {<<s[2], s[3]>> : s \in DOMAIN rows}
LiveOnly(E) == {e \in E : e[2] \in Live}

In(f, t)   == \E e \in Edges(f) : e[2] = t
Kids(E, p) == {e[2] : e \in {d \in E : d[1] = p}}

(* The nodes of S and all that is reached from them along the edges E. *)
Closed(E, T) == \A e \in E : e[1] \in T => e[2] \in T
Reach(E, S) ==
    LET ends   == {e[2] : e \in E}
        around == {T \in {S \cup U : U \in SUBSET ends} : Closed(E, T)}
    IN  {x \in S \cup ends : \A T \in around : x \in T}

(* A walk along E from t comes to an end: it meets no loop. *)
Ends(E, t) == \A x \in Reach(E, {t}) : x \notin Reach(E, Kids(E, x))

(* The query taskTree: what comes down from the roots of a folder. *)
Rooted(f) == Reach(Edges(f), {None}) \ {None}

(* What share and unshare walk over below t: live tasks, when t is in the tree. *)
Under(f, t) == IF t \in Rooted(f) THEN Reach(LiveOnly(Edges(f)), Kids(LiveOnly(Edges(f)), t)) ELSE {}
Walkable(f, t) == t \in Rooted(f) => Ends(LiveOnly(Edges(f)), t)

Below(t) == Reach(AllEdges, Kids(AllEdges, t))

(* The unique constraint, and the bounds. *)
Fits(r) ==
    /\ \A s \in DOMAIN r : r[s] <= IF s[2] = None THEN MaxCopies ELSE 1
    /\ Cardinality(DOMAIN r) <= MaxRows

Without(r, gone) == Restrict(r, DOMAIN r \ gone)

Init ==
    /\ known = {}
    /\ archived = {} /\ deleted = {}
    /\ rows = EmptyBag

-----------------------------------------------------------------------------
(* create: the parent is any task that is in some folder. *)
Create(t, f, p) ==
    /\ t \notin known
    /\ p # None => \E g \in Folders : In(g, p)
    /\ known' = known \cup {t}
    /\ rows' = rows (+) SetToBag({<<f, p, t>>})
    /\ Fits(rows')
    /\ UNCHANGED <<archived, deleted>>

(* updatePosition to another parent.  To the root goes any of the rows the task
   has below a parent in the folder.  Loops are not looked for: the database only
   refuses a task below itself. *)
Reparent(t, f, old, new) ==
    /\ t \in Live
    /\ new \in known \cup {None}
    /\ <<old, new>> # <<None, None>> /\ new # t
    /\ \E from \in IF new = None THEN Tasks ELSE {old} :
          /\ <<from, t>> \in Edges(f)
          /\ from # new
          /\ rows' = (rows (-) SetToBag({<<f, from, t>>})) (+) SetToBag({<<f, new, t>>})
    /\ Fits(rows')
    /\ UNCHANGED <<known, archived, deleted>>

ShareBeside(t, from, to) ==   \* mutant: the rows the task has in the folder stay
    /\ t \in known
    /\ from # to
    /\ Walkable(from, t)
    /\ LET all == Under(from, t) \cup {t}
           new == {<<to, None, t>>} \cup
                     {<<to, e[1], e[2]>> : e \in {d \in Edges(from) : {d[1], d[2]} \subseteq all}}
       IN  rows' = rows (+) SetToBag(new)
    /\ Fits(rows')
    /\ UNCHANGED <<known, archived, deleted>>

(* share: the task becomes a root of the other folder, its live subtasks follow
   below it.  Each first loses the rows it had there; the parent it is visited
   under last stays, and the order of the visits is free. *)
Share(t, from, to) ==
    /\ t \in known
    /\ from # to
    /\ Walkable(from, t)
    /\ LET under == Under(from, t)
           all   == under \cup {t}
       IN  \E above \in [under -> all] :
          /\ \A c \in under : <<above[c], c>> \in Edges(from)
          /\ rows' = Without(rows, {to} \X Parents \X all) (+)
                        SetToBag({<<to, None, t>>} \cup {<<to, above[c], c>> : c \in under})
    /\ Fits(rows')
    /\ UNCHANGED <<known, archived, deleted>>

UnshareLast(t, f) ==   \* mutant: not looked whether the task is elsewhere
    /\ t \in known
    /\ Walkable(f, t)
    /\ LET under == Under(f, t) IN
       rows' = Without(rows, ({f} \X (under \cup {t}) \X under) \cup {<<f, None, t>>})
    /\ UNCHANGED <<known, archived, deleted>>

(* unshare: the live subtasks lose their rows below the task, whether they are in
   another folder or not; the task, which must be, loses its row at the root. *)
Unshare(t, f) ==
    /\ t \in known
    /\ \E g \in Folders \ {f} : In(g, t)
    /\ Walkable(f, t)
    /\ LET under == Under(f, t) IN
       rows' = Without(rows, ({f} \X (under \cup {t}) \X under) \cup {<<f, None, t>>})
    /\ UNCHANGED <<known, archived, deleted>>

MovedWithKids(r, t, p, src, dst) ==   \* mutant: only the subtasks just below it
    LET main == {<<src, p, t>>}
        subs == {<<src, t, c>> : c \in Kids(LiveOnly(EdgesOf(r, src)), t)} \ main
    IN  (r (-) SetToBag(main \cup subs))
           (+) SetToBag({<<dst, None, t>>})
           (+) SetToBag({<<dst, s[2], s[3]>> : s \in subs})

(* One round of moveBetweenFolders: a row of t in src, any, becomes one at the root
   of dst; the rows of the live tasks below t only change their folder. *)
Moved(r, t, p, src, dst) ==
    LET E    == LiveOnly(EdgesOf(r, src))
        all  == Reach(E, {t})
        main == {<<src, p, t>>}
        subs == {<<src, e[1], e[2]>> : e \in {d \in E : d[1] \in all}} \ main
    IN  (r (-) SetToBag(main \cup subs))
           (+) SetToBag({<<dst, None, t>>})
           (+) SetToBag({<<dst, s[2], s[3]>> : s \in subs})

(* The round for t, of which its row in src is any; nothing when a task before it has brought it along. *)
Round(b, t, src, dst) ==
    LET E == LiveOnly(EdgesOf(b.rows, src)) IN
    IF t \in b.brought THEN {b}
    ELSE {[rows |-> Moved(b.rows, t, p, src, dst),
           brought |-> b.brought \cup Reach(E, Kids(E, t))] :
             p \in {q \in Parents : <<q, t>> \in EdgesOf(b.rows, src)}}

(* moveBetweenFolders takes the tasks in the order the query returned them. *)
AfterRounds(ts, src, dst) ==
    LET go[i \in 0..Len(ts)] ==
          IF i = 0 THEN {[rows |-> rows, brought |-> {}]}
          ELSE UNION {{a \in Round(b, ts[i], src, dst) : Fits(a.rows)} : b \in go[i - 1]}
    IN  go[Len(ts)]

MoveBetweenFolders(ts, src, dst) ==
    /\ \E end \in AfterRounds(ts, src, dst) : rows' = end.rows
    /\ UNCHANGED <<known, archived, deleted>>

Batches == {ts \in UNION {[1..n -> Tasks] : n \in 1..MaxBatch} :
              \A i, j \in DOMAIN ts : i # j => ts[i] # ts[j]}

-----------------------------------------------------------------------------
(* archive, restore and restoreDeleted go down all folders and over tasks in any
   state: conditions on null are ignored. *)
Archive(t) ==
    /\ t \in known
    /\ Ends(AllEdges, t)
    /\ archived' = archived \cup Below(t) \cup {t}
    /\ UNCHANGED <<known, deleted, rows>>

RestoreRecursive(t, left) == left \ Below(t)
Restore(t) ==
    /\ t \in known
    /\ Ends(AllEdges, t)
    /\ archived' = RestoreRecursive(t, archived \ {t})
    /\ UNCHANGED <<known, deleted, rows>>

RestoreDeletedRecursive(t, left) == left \ Below(t)
RestoreDeleted(t) ==
    /\ t \in known
    /\ Ends(AllEdges, t)
    /\ deleted' = RestoreDeletedRecursive(t, deleted \ {t})
    /\ UNCHANGED <<known, archived, rows>>

(* delete throws at the first subtask of another owner, in whatever folder. *)
Delete(t, u) ==
    /\ t \in known
    /\ Ends(AllEdges, t)
    /\ \A c \in Below(t) : Owner[c] = u
    /\ deleted' = deleted \cup Below(t) \cup {t}
    /\ UNCHANGED <<known, archived, rows>>

(* permanentDelete takes every task on whose way down from a root of a folder there
   is a task whose id, as text, contains that of t; a task in no tree is not found. *)
PermanentDelete(t) ==
    LET gone == UNION {Reach(Edges(f), {y \in Rooted(f) : <<t, y>> \in ShowsIn}) : f \in Folders}
    IN  /\ t \in known
        /\ gone # {}
        /\ known' = known \ gone
        /\ archived' = archived \ gone
        /\ deleted' = deleted \ gone
        /\ rows' = Without(rows, {s \in Slots : {s[2], s[3]} \cap gone # {}})

Next ==
    \/ \E t \in Tasks, f \in Folders, p \in Parents : Create(t, f, p)
    \/ \E t \in Tasks, f \in Folders, old, new \in Parents : Reparent(t, f, old, new)
    \/ \E t \in Tasks, from, to \in Folders : Share(t, from, to)
    \/ \E t \in Tasks, f \in Folders : Unshare(t, f)
    \/ \E ts \in Batches, src, dst \in Folders : MoveBetweenFolders(ts, src, dst)
    \/ \E t \in Tasks : Archive(t)
    \/ \E t \in Tasks, u \in Users : Delete(t, u)
    \/ \E t \in Tasks : Restore(t)
    \/ \E t \in Tasks : RestoreDeleted(t)
    \/ \E t \in Tasks : PermanentDelete(t)

Spec == Init /\ [][Next]_vars

-----------------------------------------------------------------------------
(* Every variable has its type, and what hangs below a task or in a folder is
   there. *)
TypeOK ==
    /\ known \subseteq Tasks
    /\ archived \subseteq known /\ deleted \subseteq known
    /\ DOMAIN rows \subseteq Folders \X (known \cup {None}) \X known
    /\ \A s \in DOMAIN rows : rows[s] \in 1..MaxCopies
(* A folder is a tree: a task has one row in it and does not hang below itself. *)
IsTree(f) ==
    /\ \A s \in DOMAIN rows : s[1] = f => rows[s] = 1
    /\ \A d, e \in Edges(f) : d[2] = e[2] => d = e
    /\ \A t \in Tasks : t \notin Reach(Edges(f), Kids(Edges(f), t))

(* The tasks of a folder stay a tree, also when trees that differ are shared into
   it and out of it, but for two calls that do not look: a move of tasks to a
   folder that has some of them, and a task hung below its own subtask. *)
OnlyMovesBreakATree ==
    [][ \A f \in Folders : ~IsTree(f)' /\ IsTree(f) =>
          \/ \E ts \in Batches, src \in Folders : MoveBetweenFolders(ts, src, f)
          \/ \E t \in Tasks, old \in Parents : \E new \in Reach(Edges(f), {t}) :
                Reparent(t, f, old, new) ]_vars

(* "You cannot unbind the last project from the task": a task that is in some folder
   stays in some folder, unless a task above it is unshared from its last one or is
   deleted for good. *)
KeepsAFolder ==
    [][ \A c \in known \cap known' :
          (\E f \in Folders : In(f, c)) /\ ~(\E f \in Folders : In(f, c))' =>
             \/ \E f \in Folders, t \in Tasks : c \in Under(f, t) /\ Unshare(t, f)
             \/ \E s \in DOMAIN rows : s[3] = c /\ s[2] \in known \ known' ]_vars

(* What a user finds in a folder that is a tree, coming down through live tasks from its roots, is
   still found there after any call, as long as it has a row in the folder: no
   call leaves it hanging below a task that is not there.  Only a task hung below
   one that is not in the folder, or below its own subtask, gets out of sight, and what
   is below a task deleted for good with the tree of another folder. *)
Seen(f) == Reach(LiveOnly(Edges(f)), {None}) \ {None}

SeenStaysInTree ==
    [][ \A f \in Folders : IsTree(f) => \A c \in Seen(f) \cap known' :
          (In(f, c) /\ c \notin Rooted(f))' =>
             \/ \E t \in Tasks, old, new \in Parents :
                   /\ new \notin Rooted(f) \cup {None} \/ new \in Reach(Edges(f), {t})
                   /\ Reparent(t, f, old, new)
             \/ \E t \in Tasks, x \in known \ known' :
                   PermanentDelete(t) /\ c \in Reach(Edges(f), {x}) ]_vars
=============================================================================
