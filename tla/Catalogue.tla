------------------------------- MODULE Catalogue -------------------------------
(***************************************************************************)
(* What a folder uses must be on offer in its space: teams, common         *)
(* workflows, tags, custom fields, and collections of fields and of tags   *)
(* (folder-base.service.ts, space-base.service.ts), and the custom fields  *)
(* of its tasks (task-base.service.ts).                                    *)
(*                                                                         *)
(* A list is a set of pairs <<kind, item>>.  Folders hang directly below   *)
(* their space: the levels between are FolderTree's.  A call is one        *)
(* transaction and one action; whose a personal field is, is left out.     *)
(***************************************************************************)
EXTENDS Integers, FiniteSets

CONSTANTS Spaces, Folders, Tasks, Items,
          Elsewhere,   \* the folders that are not shown in task management
          None,
          MaxCalls     \* bound: calls made

Kinds == {"teams", "workflow", "tags", "fieldSets", "tagSets", "fields"}
Entries == Kinds \X Items
Nodes == Spaces \cup Folders

ASSUME CatalogueAssumption ==
    /\ Elsewhere \subseteq Folders /\ Spaces \cap Folders = {}
    /\ None \notin Nodes \cup Tasks /\ MaxCalls \in Nat

VARIABLES
    home,      \* the space of a folder
    made,      \* the spaces there are
    archived, deleted,
    lists,     \* what a space offers, what a folder uses
    own,       \* folders with a personalised workflow
    placed,    \* task_relation: <<folder, task>>
    over,      \* the task above a task
    has,       \* custom_field_value of tasks
    strayed,   \* ghost: what came to a folder while no space vouched for it, or from another one
    withdrawn, \* ghost: what a space no longer offers and its folders were left with
    excused,   \* ghost: <<task, field>> taken off the task, or not brought along by it
    calls

nodeVars == <<home, made, archived, deleted>>
listVars == <<lists, own, strayed, withdrawn>>
taskVars == <<placed, over, has, excused>>
vars == <<nodeVars, listVars, taskVars, calls>>

Known == made \cup {f \in Folders : home[f] # None}
Under(s) == {f \in Folders : home[f] = s}
Live(x) == x \notin archived \cup deleted
Of(S, K) == {e \in S : e[1] \in K}
In(f) == {t \in Tasks : <<f, t>> \in placed}
Owned == {p[2] : p \in placed}

(* t and all below it in the folder: what every set has that holds t and, with a task, those under it *)
Tree(f, t) ==
    LET closed(S) == \A c \in In(f) : over[c] \in S => c \in S
    IN  {c \in Tasks : \A S \in SUBSET Tasks : (t \in S /\ closed(S)) => c \in S}

(* getSpaceFromFolderId: none above or through what is archived or deleted. *)
Vouching(s) == IF Live(s) THEN s ELSE None
Top(f) == IF Live(f) THEN Vouching(home[f]) ELSE None

\* mutant: nothing is validated
NoneChecked(s, S) == TRUE

(* validateTeams, validateTagsOnFolders, validateWorkflowsOnFolders, validateCustomFields,
   validateCustomFieldCollections, validateTagsCollections: where no space vouches all passes. *)
Checked(s, S) == s # None => S \subseteq lists[s]

Kept(f, old, S) == (strayed[f] \cap old) \cup (IF Top(f) = None THEN S ELSE {})

Calls == calls < MaxCalls /\ calls' = calls + 1

-----------------------------------------------------------------------------
(* createOneSpace: what it names is its own to offer *)
CreateSpace(s, S) ==
    /\ Calls /\ s \in Spaces \ made
    /\ made' = made \cup {s} /\ lists' = [lists EXCEPT ![s] = S]
    /\ UNCHANGED <<home, archived, deleted, own, strayed, withdrawn, taskVars>>

(* createFolder below a space: each list it names is validated before it is written. *)
CreateFolder(s, f, S, personal) ==
    /\ Calls /\ s \in made /\ home[f] = None
    /\ Cardinality(Of(S, {"workflow"})) <= (IF personal THEN 0 ELSE 1)
    /\ Checked(Vouching(s), S)
    /\ home' = [home EXCEPT ![f] = s] /\ lists' = [lists EXCEPT ![f] = S]
    /\ own' = IF personal THEN own \cup {f} ELSE own
    /\ strayed' = [strayed EXCEPT ![f] = IF Vouching(s) = None THEN S ELSE {}]
    /\ UNCHANGED <<made, archived, deleted, withdrawn, taskVars>>

(* update of a space's or a folder's tags or collections; the collections of what is archived are
   not found, its tags are.  What a space withdraws its folders keep. *)
UpdateLists(x, k, ins, del) ==
    /\ Calls /\ x \in Known /\ k \in {"tags", "fieldSets", "tagSets"} /\ (k # "tags" => x \notin archived)
    /\ (ins \cup del) \subseteq Entries /\ Of(ins \cup del, {k}) = ins \cup del
    /\ x \in Folders => Checked(Top(x), ins)
    /\ LET new == (lists[x] \cup ins) \ del IN
       /\ lists' = [lists EXCEPT ![x] = new]
       /\ IF x \in Spaces
          THEN withdrawn' = [withdrawn EXCEPT ![x] = (@ \ ins) \cup del] /\ UNCHANGED strayed
          ELSE strayed' = [strayed EXCEPT ![x] = Kept(x, new, ins)] /\ UNCHANGED withdrawn
    /\ UNCHANGED <<own, nodeVars, taskVars>>

UpdateFolderTags(x, ins, del) == UpdateLists(x, "tags", ins, del)

(* updateOneFolderTeams: teams withdrawn by a space leave all its folders, archived and deleted
   ones too, that task management shows. *)
UpdateTeams(x, ins, del) ==
    LET reached == {x} \cup (IF x \in Spaces THEN Under(x) \ Elsewhere ELSE {})
        new == [y \in Nodes |-> (IF y = x THEN lists[y] \cup ins ELSE lists[y]) \ (IF y \in reached THEN del ELSE {})] IN
    /\ Calls /\ x \in Known \ archived /\ Of(ins \cup del, {"teams"}) = ins \cup del
    /\ x \in Folders => Checked(Top(x), ins)
    /\ lists' = new
    /\ withdrawn' = IF x \in Spaces THEN [withdrawn EXCEPT ![x] = @ \ ins] ELSE withdrawn
    /\ strayed' = [f \in Folders |->
                     IF f = x THEN Kept(f, new[f], ins)
                     ELSE (strayed[f] \cup (IF home[f] = x /\ f \in Elsewhere THEN del ELSE {})) \cap new[f]]
    /\ UNCHANGED <<own, nodeVars, taskVars>>

\* mutant: the tasks the folder has are forgotten
SetFieldsHere(x, keep, drop) ==
    /\ Calls /\ x \in Known /\ keep \cap drop = {} /\ Of(keep \cup drop, {"fields"}) = keep \cup drop
    /\ x \in Folders => Checked(Top(x), keep \cup drop)
    /\ lists' = [lists EXCEPT ![x] = (@ \ Of(@, {"fields"})) \cup keep]
    /\ withdrawn' = IF x \in Spaces THEN [withdrawn EXCEPT ![x] = (@ \ keep) \cup (Of(lists[x], {"fields"}) \ keep)] ELSE withdrawn
    /\ strayed' = IF x \in Folders THEN [strayed EXCEPT ![x] = Kept(x, lists'[x], keep)] ELSE strayed
    /\ UNCHANGED <<own, nodeVars, taskVars>>

(* addFolderCustomFieldValue: the fields named, but for those to be removed from the tasks as
   well, become the folder's, and each of its tasks gets those it has not. *)
SetFields(x, keep, drop) ==
    LET new == (lists[x] \ Of(lists[x], {"fields"})) \cup keep
        T == IF x \in Folders THEN In(x) ELSE {} IN
    /\ Calls /\ x \in Known /\ keep \cap drop = {} /\ Of(keep \cup drop, {"fields"}) = keep \cup drop
    /\ x \in Folders => Checked(Top(x), keep \cup drop)
    /\ lists' = [lists EXCEPT ![x] = new]
    /\ IF x \in Spaces
       THEN withdrawn' = [withdrawn EXCEPT ![x] = (@ \ keep) \cup (Of(lists[x], {"fields"}) \ keep)] /\ UNCHANGED strayed
       ELSE strayed' = [strayed EXCEPT ![x] = Kept(x, new, keep)] /\ UNCHANGED withdrawn
    /\ has' = [t \in Tasks |-> IF t \in T THEN (has[t] \cup keep) \ drop ELSE has[t]]
    /\ excused' = (excused \ (T \X keep)) \cup (T \X drop)
    /\ UNCHANGED <<own, placed, over, nodeVars>>

(* changeWorkflow of a folder: a common workflow, W, or else a personalised one *)
ChangeWorkflow(f, W) ==
    LET new == (lists[f] \ Of(lists[f], {"workflow"})) \cup W IN
    /\ Calls /\ f \in Known \cap Folders /\ Cardinality(W) <= 1 /\ Of(W, {"workflow"}) = W
    /\ Checked(Top(f), W)
    /\ lists' = [lists EXCEPT ![f] = new]
    /\ own' = IF W = {} THEN own \cup {f} ELSE own \ {f}
    /\ strayed' = [strayed EXCEPT ![f] = Kept(f, new, W)]
    /\ UNCHANGED <<withdrawn, nodeVars, taskVars>>

UpdateOneSpaceWorkflows(s, ins, del) ==
    /\ Calls /\ s \in made /\ Of(ins \cup del, {"workflow"}) = ins \cup del
    /\ lists' = [lists EXCEPT ![s] = (@ \cup ins) \ del]
    /\ withdrawn' = [withdrawn EXCEPT ![s] = (@ \ ins) \cup del]
    /\ UNCHANGED <<own, strayed, nodeVars, taskVars>>

-----------------------------------------------------------------------------
(* A folder, or a space with its folders, is archived, deleted, restored. *)
Down(x) == {x} \cup (IF x \in Spaces THEN Under(x) ELSE {})
Shelve(x) ==
    /\ Calls /\ x \in Known /\ Live(x)
    /\ archived' = archived \cup Down(x) /\ UNCHANGED <<home, made, deleted, listVars, taskVars>>

(* restoreArchivedFolder: a folder below an archived space is hung below that space again; of what
   is not archived it restores what is below. *)
Unshelve(x) ==
    /\ Calls /\ x \in Known \ deleted
    /\ archived' = archived \ Down(x) /\ UNCHANGED <<home, made, deleted, listVars, taskVars>>
DeleteFolder(f) ==
    /\ Calls /\ f \in Known \cap Folders /\ f \notin deleted
    /\ deleted' = deleted \cup {f} /\ archived' = archived \ {f}
    /\ UNCHANGED <<home, made, listVars, taskVars>>

(* deleteOneSpace: four of its lists are emptied for good; a restored space has its tags and fields. *)
DeleteOneSpace(s) ==
    LET gone == Of(lists[s], {"teams", "workflow", "fieldSets", "tagSets"}) IN
    /\ Calls /\ s \in made \ deleted
    /\ deleted' = deleted \cup Down(s) /\ archived' = archived \ {s}
    /\ lists' = [lists EXCEPT ![s] = @ \ gone] /\ withdrawn' = [withdrawn EXCEPT ![s] = @ \cup gone]
    /\ UNCHANGED <<home, made, own, strayed, taskVars>>

(* restoreDeletedFolder asks neither whether it is deleted nor whether its space is. *)
Undelete(x) ==
    /\ Calls /\ x \in Known
    /\ deleted' = deleted \ Down(x) /\ UNCHANGED <<home, made, archived, listVars, taskVars>>

(* Into another space a folder is moved only when no space vouches for it there. *)
MoveFolder(f, s) ==
    /\ Calls /\ f \in Known \cap Folders /\ s \in made \ {home[f]}
    /\ Top(f) # None /\ Vouching(s) = None
    /\ home' = [home EXCEPT ![f] = s] /\ strayed' = [strayed EXCEPT ![f] = lists[f]]
    /\ UNCHANGED <<made, archived, deleted, lists, own, withdrawn, taskVars>>

(* What a copy takes along: fields and tags when asked to. *)
Copied(f, withFields, withTags) ==
    Of(lists[f], {"workflow", "teams", "fieldSets", "tagSets"}
                 \cup (IF withFields THEN {"fields"} ELSE {}) \cup (IF withTags THEN {"tags"} ELSE {}))

(* copyTask: M[t], the copy of t, gets the fields t has; the folder's own come later. *)
CopyTasks(g, fields, M) ==
    LET new == {M[t] : t \in DOMAIN M}
        from(c) == CHOOSE t \in DOMAIN M : M[t] = c IN
    /\ placed' = placed \cup ({g} \X new)
    /\ over' = [c \in Tasks |-> IF c \notin new THEN over[c]
                               ELSE IF over[from(c)] \in DOMAIN M THEN M[over[from(c)]] ELSE None]
    /\ has' = [c \in Tasks |-> IF c \in new THEN has[from(c)] ELSE has[c]]
    /\ excused' = excused \cup {p \in new \X fields : p[2] \notin has'[p[1]]}

(* copyFolder into a space: only the common workflow is validated there.  A folder without a
   workflow, as every space, is not copied. *)
CopyFolder(f, g, s, withFields, withTags, M) ==
    LET workflow == Of(lists[f], {"workflow"})  S == Copied(f, withFields, withTags) IN
    /\ Calls /\ f \in (Known \cap Folders) \ archived /\ s \in made /\ home[g] = None
    /\ workflow # {} \/ f \in own
    /\ Checked(Vouching(s), workflow)
    /\ home' = [home EXCEPT ![g] = s] /\ lists' = [lists EXCEPT ![g] = S]
    /\ own' = IF f \in own THEN own \cup {g} ELSE own
    /\ strayed' = [strayed EXCEPT ![g] = CASE Vouching(s) = None -> S
                                           [] Live(s) /\ s = home[f] -> (strayed[f] \cap S) \ workflow
                                           [] OTHER -> S \ workflow]
    /\ CopyTasks(g, Of(S, {"fields"}), M)
    /\ UNCHANGED <<made, archived, deleted, withdrawn>>

-----------------------------------------------------------------------------
(* createOneTask: a task starts with the fields of its folder. *)
CreateTask(t, f, p) ==
    /\ Calls /\ t \notin Owned /\ f \in Known /\ p \in In(f) \cup {None}
    /\ placed' = placed \cup {<<f, t>>} /\ over' = [over EXCEPT ![t] = p]
    /\ has' = [has EXCEPT ![t] = Of(lists[f], {"fields"})]
    /\ UNCHANGED <<excused, listVars, nodeVars>>

(* moveBetweenFolders and share: the task and its subtasks bring their fields and get none. *)
Arrive(t, from, to, leaves) ==
    LET T == Tree(from, t) IN
    /\ Calls /\ t \in In(from) /\ to \in Known \ {from} /\ T \cap In(to) = {}
    /\ placed' = (placed \ (IF leaves THEN {from} \X T ELSE {})) \cup ({to} \X T)
    /\ over' = IF leaves THEN [over EXCEPT ![t] = None] ELSE over
    /\ excused' = excused \cup {p \in T \X Of(lists[to], {"fields"}) : p[2] \notin has[p[1]]}
    /\ UNCHANGED <<has, listVars, nodeVars>>

(* addCustomFields and addCustomFieldToSubTasks: the task and those right below it *)
Added(t, ins) == [c \in Tasks |-> IF c = t \/ (c \in Owned /\ over[c] = t) THEN has[c] \cup ins ELSE has[c]]

(* addTaskCustomFields inserts, then deletes, from the task alone: a field that is there, or is
   not, makes the call fail. *)
AddTaskCustomFields(t, ins, del) ==
    LET new == [Added(t, ins) EXCEPT ![t] = @ \ del] IN
    /\ Calls /\ t \in Owned /\ Of(ins \cup del, {"fields"}) = ins \cup del
    /\ ins \cap has[t] = {} /\ del \subseteq has[t] \cup ins
    /\ has' = new
    /\ excused' = {p \in excused \cup ({t} \X del) : p[2] \notin new[p[1]]}
    /\ UNCHANGED <<placed, over, listVars, nodeVars>>

-----------------------------------------------------------------------------
Init ==
    \E s \in Spaces, f \in Folders, t \in Tasks, K \in {{}, Kinds} :
        /\ f \notin Elsewhere
        /\ home = [g \in Folders |-> IF g = f THEN s ELSE None] /\ made = {s} /\ archived = {} /\ deleted = {}
        /\ lists = [x \in Nodes |-> IF x = s THEN Entries ELSE IF x = f THEN {e \in K \X Items : e[1] # "workflow"} ELSE {}]
        /\ own = {f} /\ strayed = [g \in Folders |-> {}] /\ withdrawn = [x \in Spaces |-> {}]
        /\ placed = {<<f, t>>} /\ over = [c \in Tasks |-> None]
        /\ has = [c \in Tasks |-> IF c = t THEN Of(K \X Items, {"fields"}) ELSE {}] /\ excused = {} /\ calls = 0

(* A call names items of one kind: a call that names several is refused if one kind would be. *)
OfKind(k) == SUBSET ({k} \X Items)
Next ==
    \/ \E s \in Spaces, k \in Kinds : \E S \in OfKind(k) : CreateSpace(s, S)
    \/ \E s \in Spaces, f \in Folders, k \in Kinds : \E S \in OfKind(k), mine \in BOOLEAN : CreateFolder(s, f, S, mine)
    \/ \E x \in Nodes : \E ins, del \in OfKind("tags") : ins # del /\ UpdateFolderTags(x, ins, del)
    \/ \E x \in Nodes, k \in {"fieldSets", "tagSets"} : \E ins, del \in OfKind(k) : ins # del /\ UpdateLists(x, k, ins, del)
    \/ \E x \in Nodes : \E ins, del \in OfKind("teams") : ins # del /\ UpdateTeams(x, ins, del)
    \/ \E x \in Nodes : \E keep, drop \in OfKind("fields") : SetFields(x, keep, drop)
    \/ \E f \in Folders : \E W \in OfKind("workflow") : ChangeWorkflow(f, W)
    \/ \E s \in Spaces : \E ins, del \in OfKind("workflow") : ins # del /\ UpdateOneSpaceWorkflows(s, ins, del)
    \/ \E x \in Nodes : Shelve(x) \/ Unshelve(x) \/ Undelete(x)
    \/ \E f \in Folders : DeleteFolder(f) \/ \E s \in Spaces : MoveFolder(f, s)
    \/ \E s \in Spaces : DeleteOneSpace(s)
    \/ \E f, g \in Folders, s \in Spaces, withFields, withTags \in BOOLEAN :
          \E M \in {m \in [In(f) -> Tasks \ Owned] : \A a, b \in In(f) : a # b => m[a] # m[b]} \cup {[t \in {} |-> None]} :
             CopyFolder(f, g, s, withFields, withTags, M)
    \/ \E t \in Tasks, f \in Folders : \E p \in In(f) \cup {None} : CreateTask(t, f, p)
    \/ \E t \in Tasks, from, to \in Folders, leaves \in BOOLEAN : Arrive(t, from, to, leaves)
    \/ \E t \in Tasks : \E ins, del \in OfKind("fields") : ins \cup del # {} /\ AddTaskCustomFields(t, ins, del)

Spec == Init /\ [][Next]_vars

-----------------------------------------------------------------------------
(* Every variable has its type. *)
TypeOK ==
    /\ home \in [Folders -> Spaces \cup {None}] /\ made \subseteq Spaces
    /\ archived \subseteq Known /\ deleted \subseteq Known
    /\ lists \in [Nodes -> SUBSET Entries] /\ own \subseteq Folders
    /\ placed \subseteq Folders \X Tasks /\ over \in [Tasks -> Tasks \cup {None}]
    /\ has \in [Tasks -> SUBSET Of(Entries, {"fields"})] /\ excused \subseteq Tasks \X Of(Entries, {"fields"})
    /\ strayed \in [Folders -> SUBSET Entries] /\ withdrawn \in [Spaces -> SUBSET Entries] /\ calls \in 0..MaxCalls

(* Whatever is archived, deleted, restored, moved and copied between, a folder uses nothing its
   space does not offer, but for what its space withdrew from under it, what it got when no live
   space stood above it and what a copy brought from another space.  Withdrawn teams are no
   exception where task management shows the folder. *)
Offered == \A f \in Folders : home[f] # None => lists[f] \subseteq lists[home[f]] \cup withdrawn[home[f]] \cup strayed[f]

(* Each task of a folder has each field of the folder, whenever either came, unless the field was
   taken off the task or the task came from another folder without it. *)
FieldsReachTasks ==
    \A p \in placed : \A d \in Of(lists[p[1]], {"fields"}) : d \in has[p[2]] \/ <<p[2], d>> \in excused
=============================================================================
