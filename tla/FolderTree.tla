----------------------------- MODULE FolderTree -----------------------------
(***************************************************************************)
(* The folders of one space: tables folder and folder_relation, and the    *)
(* calls of src/module/folder that change them (folder-base.service.ts).   *)
(*                                                                         *)
(* A row of folder_relation is a pair <<parent, child>>.  A folder hangs   *)
(* at home below the folder it was created in or moved to (is_bind false)  *)
(* and may be bound, as a copy, below others (is_bind true).  A relation   *)
(* without a parent, as the one of the space, has parent Top.  Positions,  *)
(* path_ids and permissions are not modelled.                              *)
(*                                                                         *)
(* One call runs at a time here: each call is one action.                  *)
(***************************************************************************)
EXTENDS Naturals, Sequences, FiniteSets

CONSTANTS
    Folders,   \* the ids folders may get
    Space,     \* the space
    Top,       \* the missing parent
    Orders,    \* the orders in which a query may return rows
    Ops,       \* the calls that are made: subset of AllOps
    MaxVisits  \* bound: children looked at by one call that archives or deletes

AllOps == {"create", "bind", "unbind", "move", "archive", "delete",
           "restoreArchived", "restoreDeleted", "purge"}

ASSUME NodesAssumption == Space \notin Folders /\ Top \notin Folders \cup {Space}
ASSUME OpsAssumption == Ops \subseteq AllOps
ASSUME OrdersAssumption ==
    Orders \subseteq Seq(Folders) /\ \A ord \in Orders, f \in Folders : \E i \in DOMAIN ord : ord[i] = f
ASSUME VisitsAssumption == MaxVisits \in Nat

VARIABLES
    known,     \* the rows of folder, the space included
    archived,  \* those with archived_at set
    deleted,   \* those with deleted_at set
    home,      \* the rows of folder_relation with is_bind false
    bind       \* ... and true

vars == <<known, archived, deleted, home, bind>>

Nodes   == Folders \cup {Space}
links   == home \cup bind
Live    == known \ (archived \cup deleted)

Parents(E, f)  == {e[1] : e \in {d \in E : d[2] = f}}
Children(E, p) == {e[2] : e \in {d \in E : d[1] = p}}

(* The nodes of S and all that hangs below them through the relations E. *)
Closed(E) == {T \in SUBSET Nodes : \A e \in E : e[1] \in T => e[2] \in T}
Reach(E, S) ==
    LET around == {T \in Closed(E) : S \subseteq T}
    IN  {x \in Nodes : \A T \in around : x \in T}

Below(x) == Reach(links, Children(links, x))

(* getSpaceFromFolderId: the folders without a parent from which one comes down
   to f, through live folders only or through any. *)
RootsIn(E, f) == {r \in Children(home, Top) : f \in Reach(E, {r})}
LiveRoots(f)  == IF f \in Live
                 THEN RootsIn({e \in links : {e[1], e[2]} \subseteq Live}, f) \cap Live
                 ELSE {}

Init ==
    /\ known = {Space}
    /\ archived = {} /\ deleted = {}
    /\ home = {<<Top, Space>>} /\ bind = {}

-----------------------------------------------------------------------------
(* createFolder: the parent must have a home for its path to be read. *)
Create(p, f) ==
    /\ "create" \in Ops
    /\ f \notin known
    /\ Parents(home, p) # {}
    /\ known' = known \cup {f}
    /\ home' = home \cup {<<p, f>>}
    /\ UNCHANGED <<archived, deleted, bind>>

(* The folders of the tree that are copies or hang below one, in which parents. *)
BoundIn(f) ==
    LET tree == Reach(links, {Space})
        copies == Reach(links, {e[2] : e \in {d \in bind : d[1] \in tree}})
    IN  {p \in Parents(links, f) \cap tree : p \in copies \/ <<p, f>> \in bind}

InTreeUnbound(f) == f \in Reach(home, Children(home, Space))

NoLoopFoundShallow(p, f) ==   \* mutant: only a copy next to the folder is looked for
    /\ p # f
    /\ InTreeUnbound(f)
    /\ \E q \in BoundIn(f) \cup {f} : q # p

(* checkForFolderLoopV2, which throws when the folder is not in the tree of the
   space outside every copy.  It looks for the new parent below the folder, below
   the new parent's own copies for the folder, and at the parent of a copy of the
   folder: of the first one it meets, any.  checkForFolderLoop reads a column its
   query does not return and finds no loop, ever. *)
NoLoopFound(p, f) ==
    /\ p # f
    /\ InTreeUnbound(f)
    /\ p \notin Below(f)
    /\ BoundIn(f) = {} \/ \E q \in BoundIn(f) : q # p
    /\ BoundIn(p) = {} \/ f \notin Below(p)

(* bindFolder; the pair is unique in the table.  The caller owns the parent as a
   folder, which a space is not. *)
Bind(p, f) ==
    /\ "bind" \in Ops
    /\ {p, f} \subseteq known \cap Folders
    /\ <<p, f>> \notin links
    /\ Parents(links, p) # {}
    /\ Space \in LiveRoots(f)
    /\ NoLoopFound(p, f)
    /\ bind' = bind \cup {<<p, f>>}
    /\ UNCHANGED <<known, archived, deleted, home>>

UnbindToNowhere(p, f) ==   \* mutant: a folder left without a parent stays so
    /\ "unbind" \in Ops
    /\ <<p, f>> \in links
    /\ home' = home \ {<<p, f>>}
    /\ bind' = bind \ {<<p, f>>}
    /\ UNCHANGED <<known, archived, deleted>>

(* unbindFolder removes the relation, a home too; a folder left with none goes to
   its space, or to no parent when it has no live way up.  As for bindFolder, the
   parent is no space. *)
Unbind(p, f) ==
    /\ "unbind" \in Ops
    /\ <<p, f>> \in links
    /\ \E s \in IF LiveRoots(f) = {} THEN {Top} ELSE LiveRoots(f) :
          home' = (home \ {<<p, f>>}) \cup
                     {<<q, f>> : q \in IF Parents(links, f) = {p} THEN {s} ELSE {}}
    /\ bind' = bind \ {<<p, f>>}
    /\ UNCHANGED <<known, archived, deleted>>

(* _updateFolderPositionEx to another parent: what was a copy becomes a home. *)
Move(old, new, f) ==
    /\ "move" \in Ops
    /\ {old, new} \subseteq known /\ old # new
    /\ <<old, f>> \in links /\ <<new, f>> \notin links
    /\ Parents(links, new) # {}
    /\ LiveRoots(old) = {} \/ LiveRoots(new) = {} \/ LiveRoots(old) \cap LiveRoots(new) # {}
    /\ Space \in LiveRoots(f)
    /\ NoLoopFound(new, f)
    /\ home' = (home \ {<<old, f>>}) \cup {<<new, f>>}
    /\ bind' = bind \ {<<old, f>>}
    /\ UNCHANGED <<known, archived, deleted>>

-----------------------------------------------------------------------------
(* archiveRecursive and deleteRecursive walk down the homes: a child whose other
   parents are all gone goes too, and its children after it; any other child only
   loses its home here.  A query returns the children in some order. *)
ChildHomes(H, p, ord) ==
    LET first[n \in 0..Len(ord)] ==
            IF n = 0 THEN << >>
            ELSE IF <<p, ord[n]>> \in H THEN Append(first[n - 1], <<p, ord[n]>>) ELSE first[n - 1]
    IN  first[Len(ord)]

Visit(at, ord, copiesCount) ==
    LET c == Head(at.todo)[2]
        counts == IF copiesCount THEN at.home \cup bind ELSE at.home
    IN  IF (Parents(counts, c) \cap Nodes) \ at.gone # {}
        THEN [at EXCEPT !.todo = Tail(@), !.home = @ \ {Head(at.todo)}]
        ELSE [at EXCEPT !.todo = ChildHomes(at.home, c, ord) \o Tail(@), !.gone = @ \cup {c}]

Sweep(x, gone0, ord, copiesCount) ==
    LET start == [todo |-> ChildHomes(home, x, ord), gone |-> gone0 \cup {x}, home |-> home]
        at[n \in 0..MaxVisits] ==
            IF n = 0 THEN start
            ELSE LET last == at[n - 1]
                 IN  IF last.todo = << >> THEN last ELSE Visit(last, ord, copiesCount)
    IN  at[MaxVisits]

ArchiveChildrenOnly(x) ==   \* mutant: no recursion below the children
    /\ "archive" \in Ops
    /\ x \in known \ deleted
    /\ archived' = archived \cup {x} \cup
          {c \in Children(home, x) : Parents(home, c) \cap Nodes \subseteq archived \cup {x}}
    /\ home' = {e \in home : e[1] = x => e[2] \in archived'}
    /\ UNCHANGED <<known, deleted, bind>>

Archive(x) ==
    /\ "archive" \in Ops
    /\ x \in known \ deleted
    /\ \E ord \in Orders :
          LET end == Sweep(x, archived, ord, FALSE)
          IN  end.todo = << >> /\ archived' = end.gone /\ home' = end.home
    /\ UNCHANGED <<known, deleted, bind>>

Delete(x) ==
    /\ "delete" \in Ops
    /\ x \in known
    /\ archived' = archived \ {x}
    /\ \E ord \in Orders :
          LET end == Sweep(x, deleted, ord, TRUE)
          IN  end.todo = << >> /\ deleted' = end.gone /\ home' = end.home
    /\ UNCHANGED <<known, bind>>

RestoreInPlace(x) ==   \* mutant: the archived parents are not looked at
    /\ "restoreArchived" \in Ops
    /\ x \in known \ deleted
    /\ archived' = archived \ (Below(x) \cup {x})
    /\ UNCHANGED <<known, deleted, home, bind>>

(* restoreArchivedFolder, of a folder that need not be archived.  All below it,
   copies included, is restored too.  Then each relation to an archived parent
   goes, and a home becomes one under the space, which is saved once at most.
   The missing parent, which the query ignores, counts as archived when any
   folder is. *)
RestoreArchived(x) ==
    /\ "restoreArchived" \in Ops
    /\ x \in known \ deleted
    /\ archived' = archived \ (Below(x) \cup {x})
    /\ IF x = Space THEN UNCHANGED <<home, bind>> ELSE
       LET hidden == {p \in Parents(links, x) :
                         p \in archived' \/ (p = Top /\ archived' # {})}
           moved  == hidden \cap Parents(home, x)
       IN  /\ Cardinality(moved) <= 1
           /\ bind' = bind \ {<<p, x>> : p \in hidden}
           /\ \E s \in RootsIn(links, x) \cup (IF RootsIn(links, x) = {} THEN {Top} ELSE {}) :
                 /\ moved # {} => s # x /\ (s \in hidden \/ <<s, x>> \notin links)
                 /\ home' = (home \ {<<p, x>> : p \in hidden}) \cup {<<s, x>> : p \in moved}
    /\ UNCHANGED <<known, deleted>>

(* restoreDeletedFolder restores the folder and its children; below them it calls
   restoreArchivedFolderRecursive. *)
RestoreDeleted(x) ==
    /\ "restoreDeleted" \in Ops
    /\ x \in known
    /\ deleted' = deleted \ (Children(links, x) \cup {x})
    /\ archived' = archived \ UNION {Below(c) : c \in Children(links, x)}
    /\ UNCHANGED <<known, home, bind>>

(* permanentDeleteFolder takes the folder and all its relations, whatever hangs
   below it and whether it was archived or deleted before or not. *)
Purge(x) ==
    /\ "purge" \in Ops
    /\ x \in known \cap Folders
    /\ known' = known \ {x}
    /\ archived' = archived \ {x}
    /\ deleted' = deleted \ {x}
    /\ home' = {e \in home : x \notin {e[1], e[2]}}
    /\ bind' = {e \in bind : x \notin {e[1], e[2]}}

Next ==
    \/ \E p \in Nodes, f \in Folders : Create(p, f)
    \/ \E p, f \in Folders : Bind(p, f)
    \/ \E p, f \in Folders : Unbind(p, f)
    \/ \E old, new \in Nodes, f \in Folders : Move(old, new, f)
    \/ \E x \in Nodes : Archive(x)
    \/ \E x \in Nodes : Delete(x)
    \/ \E x \in Nodes : RestoreArchived(x)
    \/ \E x \in Nodes : RestoreDeleted(x)
    \/ \E x \in Folders : Purge(x)

Spec == Init /\ [][Next]_vars

-----------------------------------------------------------------------------
(* Every variable has its type. *)
TypeOK ==
    /\ {Space} \subseteq known /\ known \subseteq Nodes
    /\ archived \subseteq known /\ deleted \subseteq known
    /\ home \subseteq (known \cup {Top}) \X known
    /\ bind \subseteq known \X known
    /\ home \cap bind = {}

(* However binds, moves, archives, deletes and restores follow each other, no
   folder comes to hang below itself, neither at home nor through copies: the
   check before a bind and a move keeps the tree a tree. *)
Acyclic == \A x \in known : x \notin Below(x)

(* A folder that hangs below another keeps a parent whatever is done to it or to
   others, with three exceptions: a parent is deleted for good; it is restored below
   archived folders only, without a home or without a space above; its last
   relation is unbound while it has no live way up to the space, or stands without
   a parent as well. *)
KeepsAParent ==
    [][ \A f \in known \cap known' :
          LET above == Parents(links, f) \ {Top} IN
          above # {} /\ (Parents(links, f) \ {Top})' = {} =>
             \/ \E x \in above : Purge(x)
             \/ RestoreArchived(f) /\ (Parents(home, f) = {} \/ RootsIn(links, f) = {})
             \/ \E x \in above : Unbind(x, f) /\ (LiveRoots(f) = {} \/ f \in Children(home, Top)) ]_vars

(* Archiving a folder archives everything that stays at home below it, at any
   depth; what has a live home elsewhere leaves the folder instead. *)
ArchiveTakesAll ==
    [][ \A x \in known : Archive(x) =>
          Reach(home, {x})' \subseteq archived' ]_vars

(* Restoring an archived folder brings back all that hangs below it, and leaves it
   below no archived folder except one without a parent, its space: the test
   "should send the folder back to Space when unarchiving a folder with an
   archived parent folder". *)
RestoreBringsBack ==
    [][ \A x \in Folders : RestoreArchived(x) =>
          /\ archived' \cap ({x} \cup Below(x)) = {}
          /\ (Parents(links, x) \cap archived)' \subseteq Children(home, Top)' ]_vars
=============================================================================
