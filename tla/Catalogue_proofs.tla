--------------------------- MODULE Catalogue_proofs ---------------------------
(***************************************************************************)
(* Proofs about Catalogue, for any spaces, folders, tasks and items, and   *)
(* below about Shelf, which shares no row with it.                         *)
(***************************************************************************)
EXTENDS Catalogue, Shelf, FiniteSetTheorems, TLAPS

-----------------------------------------------------------------------------
(* The inductive invariant: besides the properties, folders are in spaces there are and tasks in
   folders there are, so that nothing is used before it is written. *)
HomesMade == \A f \in Folders : home[f] \in made \cup {None}
PlacedKnown == \A p \in placed : home[p[1]] # None

OfferInv == TypeOK /\ HomesMade /\ Offered
FieldInv == TypeOK /\ PlacedKnown /\ FieldsReachTasks

-----------------------------------------------------------------------------
(* The operators *)

LEMMA ListsOf ==
    ASSUME NEW S, NEW K
    PROVE  \A e : e \in Of(S, K) <=> e \in S /\ e[1] \in K
BY DEF Of

LEMMA KnownFolder ==
    ASSUME TypeOK, NEW f \in Folders
    PROVE  f \in Known <=> home[f] # None
BY CatalogueAssumption DEF TypeOK, Known

LEMMA KnownSpace ==
    ASSUME TypeOK, NEW s \in Spaces
    PROVE  s \in Known <=> s \in made
BY CatalogueAssumption DEF TypeOK, Known

(* A space that vouches for a folder is the one the folder is in. *)
LEMMA TopIsHome ==
    ASSUME NEW f, Top(f) # None
    PROVE  Top(f) = home[f]
BY DEF Top, Vouching

(* What a folder may newly use, its space offers, or no space vouched for it. *)
LEMMA CheckedOrStrayed ==
    ASSUME NEW f, NEW S, Checked(Top(f), S)
    PROVE  Top(f) = None \/ S \subseteq lists[home[f]]
BY TopIsHome DEF Checked

LEMMA TreeType == ASSUME NEW f, NEW t PROVE Tree(f, t) \in SUBSET Tasks
BY DEF Tree

LEMMA CallsType == TypeOK /\ Calls => calls' \in 0..MaxCalls
BY CatalogueAssumption DEF TypeOK, Calls

LEMMA ItemsOfKind ==
    ASSUME NEW k \in Kinds, NEW S \in OfKind(k)
    PROVE  S \in SUBSET Entries /\ \A e \in S : e[1] = k
BY DEF OfKind, Entries

-----------------------------------------------------------------------------
(* Type correctness *)

LEMMA InitType == Init => TypeOK
<1> SUFFICES ASSUME Init PROVE TypeOK
  OBVIOUS
<1>1. PICK s \in Spaces, f \in Folders, t \in Tasks, K \in {{}, Kinds} :
        /\ f \notin Elsewhere
        /\ home = [g \in Folders |-> IF g = f THEN s ELSE None] /\ made = {s} /\ archived = {} /\ deleted = {}
        /\ lists = [x \in Nodes |-> IF x = s THEN Entries ELSE IF x = f THEN {e \in K \X Items : e[1] # "workflow"} ELSE {}]
        /\ own = {f} /\ strayed = [g \in Folders |-> {}] /\ withdrawn = [x \in Spaces |-> {}]
        /\ placed = {<<f, t>>} /\ over = [c \in Tasks |-> None]
        /\ has = [c \in Tasks |-> IF c = t THEN Of(K \X Items, {"fields"}) ELSE {}] /\ excused = {} /\ calls = 0
  BY DEF Init
<1>2. K \X Items \subseteq Entries
  BY DEF Entries
<1>3. lists \in [Nodes -> SUBSET Entries]
  BY <1>1, <1>2
<1>4. has \in [Tasks -> SUBSET Of(Entries, {"fields"})]
  BY <1>1, <1>2 DEF Of
<1>5. home \in [Folders -> Spaces \cup {None}] /\ over \in [Tasks -> Tasks \cup {None}]
  BY <1>1
<1>6. strayed \in [Folders -> SUBSET Entries] /\ withdrawn \in [Spaces -> SUBSET Entries]
  BY <1>1
<1>7. made \subseteq Spaces /\ archived \subseteq Known /\ deleted \subseteq Known /\ own \subseteq Folders
  BY <1>1
<1>8. placed \subseteq Folders \X Tasks /\ excused \subseteq Tasks \X Of(Entries, {"fields"}) /\ calls \in 0..MaxCalls
  BY <1>1, CatalogueAssumption
<1> QED  BY <1>3, <1>4, <1>5, <1>6, <1>7, <1>8 DEF TypeOK

(* The variables in groups: a call leaves the other groups alone. *)
NodeType == home \in [Folders -> Spaces \cup {None}] /\ made \subseteq Spaces /\ archived \subseteq Known /\ deleted \subseteq Known
ListType ==
    /\ lists \in [Nodes -> SUBSET Entries] /\ own \subseteq Folders
    /\ strayed \in [Folders -> SUBSET Entries] /\ withdrawn \in [Spaces -> SUBSET Entries]
TaskType ==
    /\ placed \subseteq Folders \X Tasks /\ over \in [Tasks -> Tasks \cup {None}]
    /\ has \in [Tasks -> SUBSET Of(Entries, {"fields"})] /\ excused \subseteq Tasks \X Of(Entries, {"fields"})

LEMMA TypeParts == TypeOK <=> NodeType /\ ListType /\ TaskType /\ calls \in 0..MaxCalls
BY DEF TypeOK, NodeType, ListType, TaskType

LEMMA TypePartsNext == NodeType' /\ ListType' /\ TaskType' /\ calls' \in 0..MaxCalls => TypeOK'
BY DEF TypeOK, NodeType, ListType, TaskType

LEMMA NodesStay == NodeType /\ UNCHANGED nodeVars => NodeType'
BY DEF NodeType, nodeVars, Known
LEMMA ListsStay == ListType /\ UNCHANGED listVars => ListType'
BY DEF ListType, listVars
LEMMA TasksStay == TaskType /\ UNCHANGED taskVars => TaskType'
BY DEF TaskType, taskVars

LEMMA KeptType ==
    ASSUME TypeOK, NEW f \in Folders, NEW old, NEW S \in SUBSET Entries
    PROVE  Kept(f, old, S) \in SUBSET Entries
BY DEF TypeOK, Kept

LEMMA CreateSpaceType ==
    ASSUME TypeOK, NEW s \in Spaces, NEW S \in SUBSET Entries, CreateSpace(s, S)
    PROVE  TypeOK'
<1>1. NodeType' /\ ListType'
  BY DEF CreateSpace, TypeOK, NodeType, ListType, Known, Nodes
<1> QED  BY <1>1, TypeParts, TypePartsNext, TasksStay, CallsType DEF CreateSpace

LEMMA CreateFolderType ==
    ASSUME TypeOK, NEW s \in Spaces, NEW f \in Folders, NEW S \in SUBSET Entries, NEW personal \in BOOLEAN,
           CreateFolder(s, f, S, personal)
    PROVE  TypeOK'
<1>1. NodeType'
  BY DEF CreateFolder, TypeOK, NodeType, Known
<1>2. ListType'
  BY DEF CreateFolder, TypeOK, ListType, Nodes
<1> QED  BY <1>1, <1>2, TypeParts, TypePartsNext, TasksStay, CallsType DEF CreateFolder

LEMMA UpdateListsType ==
    ASSUME TypeOK, NEW x \in Nodes, NEW k, NEW ins, NEW del, UpdateLists(x, k, ins, del)
    PROVE  TypeOK'
<1>1. ins \in SUBSET Entries /\ del \in SUBSET Entries
  BY DEF UpdateLists
<1>2. lists' \in [Nodes -> SUBSET Entries] /\ own' \subseteq Folders
  BY <1>1 DEF UpdateLists, TypeOK
<1>3. CASE x \in Spaces
  <2>1. withdrawn' = [withdrawn EXCEPT ![x] = (@ \ ins) \cup del] /\ UNCHANGED strayed
    BY <1>3 DEF UpdateLists
  <2> QED  BY <1>1, <1>2, <2>1, TypeParts, TypePartsNext, TasksStay, NodesStay, CallsType DEF UpdateLists, ListType
<1>4. CASE x \notin Spaces
  <2>1. x \in Folders
    BY <1>4 DEF Nodes
  <2>2. strayed' = [strayed EXCEPT ![x] = Kept(x, (lists[x] \cup ins) \ del, ins)] /\ UNCHANGED withdrawn
    BY <1>4 DEF UpdateLists
  <2>3. Kept(x, (lists[x] \cup ins) \ del, ins) \in SUBSET Entries
    BY <1>1, <2>1, KeptType
  <2>4. strayed' \in [Folders -> SUBSET Entries] /\ withdrawn' \in [Spaces -> SUBSET Entries]
    BY <2>2, <2>3 DEF TypeOK
  <2> QED  BY <1>2, <2>4, TypeParts, TypePartsNext, TasksStay, NodesStay, CallsType DEF UpdateLists, ListType
<1> QED  BY <1>3, <1>4

LEMMA UpdateTeamsType ==
    ASSUME TypeOK, NEW x \in Nodes, NEW ins \in SUBSET Entries, NEW del \in SUBSET Entries, UpdateTeams(x, ins, del)
    PROVE  TypeOK'
<1> DEFINE reached == {x} \cup (IF x \in Spaces THEN Under(x) \ Elsewhere ELSE {})
           new == [y \in Nodes |-> (IF y = x THEN lists[y] \cup ins ELSE lists[y]) \ (IF y \in reached THEN del ELSE {})]
<1>1. /\ lists' = new
      /\ withdrawn' = IF x \in Spaces THEN [withdrawn EXCEPT ![x] = @ \ ins] ELSE withdrawn
      /\ strayed' = [f \in Folders |->
                       IF f = x THEN Kept(f, new[f], ins)
                       ELSE (strayed[f] \cup (IF home[f] = x /\ f \in Elsewhere THEN del ELSE {})) \cap new[f]]
  BY DEF UpdateTeams
<1>2. lists' \in [Nodes -> SUBSET Entries]
  BY <1>1 DEF TypeOK
<1>3. withdrawn' \in [Spaces -> SUBSET Entries]
  BY <1>1 DEF TypeOK
<1>4. strayed' \in [Folders -> SUBSET Entries]
  <2> HIDE DEF new
  <2>1. \A f \in Folders : Kept(f, new[f], ins) \in SUBSET Entries
    BY KeptType
  <2> QED  BY <1>1, <2>1 DEF TypeOK
<1> QED  BY <1>2, <1>3, <1>4, TypeParts, TypePartsNext, TasksStay, NodesStay, CallsType DEF UpdateTeams, ListType

LEMMA SetFieldsType ==
    ASSUME TypeOK, NEW x \in Nodes, NEW keep \in SUBSET Entries, NEW drop \in SUBSET Entries, SetFields(x, keep, drop)
    PROVE  TypeOK'
<1> DEFINE new == (lists[x] \ Of(lists[x], {"fields"})) \cup keep
           T == IF x \in Folders THEN In(x) ELSE {}
<1>1. /\ lists' = [lists EXCEPT ![x] = new]
      /\ has' = [t \in Tasks |-> IF t \in T THEN (has[t] \cup keep) \ drop ELSE has[t]]
      /\ excused' = (excused \ (T \X keep)) \cup (T \X drop)
  BY DEF SetFields
<1>2. lists' \in [Nodes -> SUBSET Entries] /\ own' \subseteq Folders
  BY <1>1 DEF SetFields, TypeOK
<1>3. keep \in SUBSET Of(Entries, {"fields"}) /\ drop \in SUBSET Of(Entries, {"fields"})
  <2>1. \A e \in keep \cup drop : e \in Of(keep \cup drop, {"fields"})
    BY DEF SetFields
  <2> QED  BY <2>1, ListsOf
<1>4. strayed' \in [Folders -> SUBSET Entries] /\ withdrawn' \in [Spaces -> SUBSET Entries]
  <2>1. CASE x \in Spaces
    BY <2>1 DEF SetFields, TypeOK, Of
  <2>2. CASE x \notin Spaces
    <3>1. x \in Folders
      BY <2>2 DEF Nodes
    <3>2. strayed' = [strayed EXCEPT ![x] = Kept(x, new, keep)] /\ UNCHANGED withdrawn
      BY <2>2 DEF SetFields
    <3> HIDE DEF new
    <3>3. Kept(x, new, keep) \in SUBSET Entries
      BY <3>1, KeptType
    <3> QED  BY <3>2, <3>3 DEF TypeOK
  <2> QED  BY <2>1, <2>2
<1>5. T \in SUBSET Tasks
  BY DEF In
<1>6. TaskType'
  <2> HIDE DEF T
  <2>1. has' \in [Tasks -> SUBSET Of(Entries, {"fields"})]
    BY <1>1, <1>3 DEF TypeOK
  <2>2. excused' \subseteq Tasks \X Of(Entries, {"fields"})
    BY <1>1, <1>3, <1>5 DEF TypeOK
  <2> QED  BY <2>1, <2>2 DEF TaskType, TypeOK, SetFields
<1> QED  BY <1>2, <1>4, <1>6, TypeParts, TypePartsNext, NodesStay, CallsType DEF SetFields, ListType

LEMMA ChangeWorkflowType ==
    ASSUME TypeOK, NEW f \in Folders, NEW W \in SUBSET Entries, ChangeWorkflow(f, W)
    PROVE  TypeOK'
<1> DEFINE new == (lists[f] \ Of(lists[f], {"workflow"})) \cup W
<1>1. lists' = [lists EXCEPT ![f] = new] /\ strayed' = [strayed EXCEPT ![f] = Kept(f, new, W)]
  BY DEF ChangeWorkflow
<1>2. lists' \in [Nodes -> SUBSET Entries]
  BY <1>1 DEF TypeOK
<1>3. own' \subseteq Folders
  BY DEF ChangeWorkflow, TypeOK
<1>4. strayed' \in [Folders -> SUBSET Entries]
  <2> HIDE DEF new
  <2>1. Kept(f, new, W) \in SUBSET Entries
    BY KeptType
  <2> QED  BY <1>1, <2>1 DEF TypeOK
<1>5. withdrawn' \in [Spaces -> SUBSET Entries]
  BY DEF ChangeWorkflow, TypeOK
<1> QED  BY <1>2, <1>3, <1>4, <1>5, TypeParts, TypePartsNext, TasksStay, NodesStay, CallsType DEF ChangeWorkflow, ListType

LEMMA UpdateOneSpaceWorkflowsType ==
    ASSUME TypeOK, NEW s \in Spaces, NEW ins \in SUBSET Entries, NEW del \in SUBSET Entries,
           UpdateOneSpaceWorkflows(s, ins, del)
    PROVE  TypeOK'
<1>1. ListType'
  BY DEF UpdateOneSpaceWorkflows, TypeOK, ListType, Nodes
<1> QED  BY <1>1, TypeParts, TypePartsNext, TasksStay, NodesStay, CallsType DEF UpdateOneSpaceWorkflows

LEMMA DownKnown == ASSUME TypeOK, NEW x \in Known PROVE Down(x) \subseteq Known
BY CatalogueAssumption DEF TypeOK, Down, Under, Known, Nodes

LEMMA ShelvingType ==
    ASSUME TypeOK, NEW x, Shelve(x) \/ Unshelve(x) \/ Undelete(x)
    PROVE  TypeOK'
<1>1. NodeType'
  <2>1. CASE Shelve(x)
    BY <2>1, DownKnown DEF Shelve, TypeOK, NodeType, Known
  <2>2. CASE Unshelve(x)
    BY <2>2 DEF Unshelve, TypeOK, NodeType, Known
  <2>3. CASE Undelete(x)
    BY <2>3 DEF Undelete, TypeOK, NodeType, Known
  <2> QED  BY <2>1, <2>2, <2>3
<1> QED  BY <1>1, TypeParts, TypePartsNext, TasksStay, ListsStay, CallsType DEF Shelve, Unshelve, Undelete

LEMMA DeleteFolderType ==
    ASSUME TypeOK, NEW f, DeleteFolder(f)
    PROVE  TypeOK'
<1>1. NodeType'
  BY DEF DeleteFolder, TypeOK, NodeType, Known
<1> QED  BY <1>1, TypeParts, TypePartsNext, TasksStay, ListsStay, CallsType DEF DeleteFolder

LEMMA DeleteOneSpaceType ==
    ASSUME TypeOK, NEW s \in Spaces, DeleteOneSpace(s)
    PROVE  TypeOK'
<1> DEFINE gone == Of(lists[s], {"teams", "workflow", "fieldSets", "tagSets"})
<1>1. gone \in SUBSET Entries
  BY DEF TypeOK, Of, Nodes
<1>2. NodeType'
  <2>1. Down(s) \subseteq Known
    BY DownKnown DEF DeleteOneSpace, Known
  <2> QED  BY <2>1 DEF DeleteOneSpace, TypeOK, NodeType, Known
<1>3. lists' = [lists EXCEPT ![s] = @ \ gone] /\ withdrawn' = [withdrawn EXCEPT ![s] = @ \cup gone] /\ UNCHANGED <<own, strayed>>
  BY DEF DeleteOneSpace
<1>4. ListType'
  <2> HIDE DEF gone
  <2> QED  BY <1>1, <1>3 DEF TypeOK, ListType, Nodes
<1> QED  BY <1>2, <1>4, TypeParts, TypePartsNext, TasksStay, CallsType DEF DeleteOneSpace

LEMMA MoveFolderType ==
    ASSUME TypeOK, NEW f \in Folders, NEW s \in Spaces, MoveFolder(f, s)
    PROVE  TypeOK'
<1>1. NodeType'
  BY CatalogueAssumption DEF MoveFolder, TypeOK, NodeType, Known, Nodes
<1>2. ListType'
  BY DEF MoveFolder, TypeOK, ListType, Nodes
<1> QED  BY <1>1, <1>2, TypeParts, TypePartsNext, TasksStay, CallsType DEF MoveFolder

(* A copy is a task nobody had, and each copy has one original. *)
Copies(M) ==
    /\ DOMAIN M \in SUBSET Tasks /\ \A t \in DOMAIN M : M[t] \in Tasks \ Owned
    /\ \A a, b \in DOMAIN M : a # b => M[a] # M[b]

LEMMA CopiesOf ==
    ASSUME NEW f \in Folders,
           NEW M \in {m \in [In(f) -> Tasks \ Owned] : \A a, b \in In(f) : a # b => m[a] # m[b]} \cup {[t \in {} |-> None]}
    PROVE  Copies(M)
<1>1. In(f) \subseteq Tasks
  BY DEF In
<1>2. CASE M \in {m \in [In(f) -> Tasks \ Owned] : \A a, b \in In(f) : a # b => m[a] # m[b]}
  BY <1>1, <1>2 DEF Copies
<1>3. CASE M = [t \in {} |-> None]
  BY <1>3 DEF Copies
<1> QED  BY <1>2, <1>3

LEMMA CopyTasksStep ==
    ASSUME TypeOK, NEW g \in Folders, NEW fields \in SUBSET Of(Entries, {"fields"}), NEW M, Copies(M),
           CopyTasks(g, fields, M)
    PROVE  /\ TaskType'
           /\ \E new \in SUBSET (Tasks \ Owned) :
                /\ placed' = placed \cup ({g} \X new)
                /\ \A t \in Tasks \ new : has'[t] = has[t]
                /\ excused' = excused \cup {p \in new \X fields : p[2] \notin has'[p[1]]}
<1> DEFINE new == {M[t] : t \in DOMAIN M}
           from(c) == CHOOSE t \in DOMAIN M : M[t] = c
<1>1. /\ placed' = placed \cup ({g} \X new)
      /\ over' = [c \in Tasks |-> IF c \notin new THEN over[c]
                                 ELSE IF over[from(c)] \in DOMAIN M THEN M[over[from(c)]] ELSE None]
      /\ has' = [c \in Tasks |-> IF c \in new THEN has[from(c)] ELSE has[c]]
      /\ excused' = excused \cup {p \in new \X fields : p[2] \notin has'[p[1]]}
  BY DEF CopyTasks
<1>2. new \in SUBSET (Tasks \ Owned)
  BY DEF Copies
<1>3. \A c \in new : from(c) \in Tasks
  <2> TAKE c \in new
  <2>1. \E t \in DOMAIN M : M[t] = c
    OBVIOUS
  <2>2. from(c) \in DOMAIN M
    BY <2>1
  <2> QED  BY <2>2 DEF Copies
<1>4. \A t \in DOMAIN M : M[t] \in Tasks
  BY DEF Copies
<1> HIDE DEF new, from
<1>5. has' \in [Tasks -> SUBSET Of(Entries, {"fields"})]
  BY <1>1, <1>3 DEF TypeOK
<1>6. over' \in [Tasks -> Tasks \cup {None}]
  BY <1>1, <1>3, <1>4 DEF TypeOK
<1>7. placed' \subseteq Folders \X Tasks /\ excused' \subseteq Tasks \X Of(Entries, {"fields"})
  BY <1>1, <1>2 DEF TypeOK
<1>8. \A t \in Tasks \ new : has'[t] = has[t]
  BY <1>1
<1> QED  BY <1>1, <1>2, <1>5, <1>6, <1>7, <1>8 DEF TaskType

LEMMA CopiedType ==
    ASSUME TypeOK, NEW f \in Folders, NEW withFields, NEW withTags
    PROVE  Copied(f, withFields, withTags) \in SUBSET lists[f] /\ lists[f] \in SUBSET Entries
BY DEF TypeOK, Nodes, Copied, Of

LEMMA CopyFolderType ==
    ASSUME TypeOK, NEW f \in Folders, NEW g \in Folders, NEW s \in Spaces, NEW withFields, NEW withTags, NEW M, Copies(M),
           CopyFolder(f, g, s, withFields, withTags, M)
    PROVE  TypeOK'
<1> DEFINE workflow == Of(lists[f], {"workflow"})  
           S == Copied(f, withFields, withTags)
<1>1. S \in SUBSET Entries
  BY CopiedType
<1>2. CopyTasks(g, Of(S, {"fields"}), M)
  BY DEF CopyFolder
<1>3. NodeType'
  BY DEF CopyFolder, TypeOK, NodeType, Known
<1>4. /\ lists' = [lists EXCEPT ![g] = S] /\ own' = IF f \in own THEN own \cup {g} ELSE own
      /\ strayed' = [strayed EXCEPT ![g] = CASE Vouching(s) = None -> S
                                             [] Live(s) /\ s = home[f] -> (strayed[f] \cap S) \ workflow
                                             [] OTHER -> S \ workflow]
      /\ UNCHANGED withdrawn
  BY DEF CopyFolder
<1> HIDE DEF S, workflow
<1>5. TaskType'
  <2>1. Of(S, {"fields"}) \in SUBSET Of(Entries, {"fields"})
    BY <1>1 DEF Of
  <2> QED  BY <1>2, <2>1, CopyTasksStep
<1>6. lists' \in [Nodes -> SUBSET Entries] /\ own' \subseteq Folders
  BY <1>1, <1>4 DEF TypeOK
<1>7. strayed' \in [Folders -> SUBSET Entries] /\ withdrawn' \in [Spaces -> SUBSET Entries]
  BY <1>1, <1>4 DEF TypeOK
<1> QED  BY <1>3, <1>5, <1>6, <1>7, TypeParts, TypePartsNext, CallsType DEF CopyFolder, ListType

LEMMA CreateTaskType ==
    ASSUME TypeOK, NEW t \in Tasks, NEW f \in Folders, NEW p \in In(f) \cup {None}, CreateTask(t, f, p)
    PROVE  TypeOK'
<1>1. p \in Tasks \cup {None}
  BY DEF In
<1>2. Of(lists[f], {"fields"}) \in SUBSET Of(Entries, {"fields"})
  BY DEF TypeOK, Of, Nodes
<1>3. TaskType'
  BY <1>1, <1>2 DEF CreateTask, TaskType, TypeOK
<1> QED  BY <1>3, TypeParts, TypePartsNext, NodesStay, ListsStay, CallsType DEF CreateTask

LEMMA ArriveType ==
    ASSUME TypeOK, NEW t \in Tasks, NEW from \in Folders, NEW to \in Folders, NEW leaves \in BOOLEAN,
           Arrive(t, from, to, leaves)
    PROVE  TypeOK'
<1> DEFINE T == Tree(from, t)
<1>1. /\ placed' = (placed \ (IF leaves THEN {from} \X T ELSE {})) \cup ({to} \X T)
      /\ over' = IF leaves THEN [over EXCEPT ![t] = None] ELSE over
      /\ excused' = excused \cup {p \in T \X Of(lists[to], {"fields"}) : p[2] \notin has[p[1]]}
      /\ UNCHANGED has
  BY DEF Arrive
<1>2. T \in SUBSET Tasks
  BY TreeType
<1>3. Of(lists[to], {"fields"}) \in SUBSET Of(Entries, {"fields"})
  BY DEF TypeOK, Of, Nodes
<1> HIDE DEF T
<1>4. placed' \subseteq Folders \X Tasks
  BY <1>1, <1>2 DEF TypeOK
<1>5. excused' \subseteq Tasks \X Of(Entries, {"fields"})
  BY <1>1, <1>2, <1>3 DEF TypeOK
<1>6. over' \in [Tasks -> Tasks \cup {None}] /\ has' \in [Tasks -> SUBSET Of(Entries, {"fields"})]
  BY <1>1 DEF TypeOK
<1> QED  BY <1>4, <1>5, <1>6, TypeParts, TypePartsNext, NodesStay, ListsStay, CallsType DEF Arrive, TaskType

LEMMA FieldsOnly ==
    ASSUME NEW ins, NEW del, Of(ins \cup del, {"fields"}) = ins \cup del, ins \in SUBSET Entries, del \in SUBSET Entries
    PROVE  ins \in SUBSET Of(Entries, {"fields"}) /\ del \in SUBSET Of(Entries, {"fields"})
<1>1. \A e \in ins \cup del : e \in Of(ins \cup del, {"fields"})
  OBVIOUS
<1> QED  BY <1>1, ListsOf

LEMMA AddTaskCustomFieldsType ==
    ASSUME TypeOK, NEW t \in Tasks, NEW ins \in SUBSET Entries, NEW del \in SUBSET Entries,
           AddTaskCustomFields(t, ins, del)
    PROVE  TypeOK'
<1> DEFINE new == [Added(t, ins) EXCEPT ![t] = @ \ del]
<1>1. ins \in SUBSET Of(Entries, {"fields"}) /\ del \in SUBSET Of(Entries, {"fields"})
  BY FieldsOnly DEF AddTaskCustomFields
<1>2. Added(t, ins) \in [Tasks -> SUBSET Of(Entries, {"fields"})]
  BY <1>1 DEF Added, TypeOK
<1>3. new \in [Tasks -> SUBSET Of(Entries, {"fields"})]
  BY <1>2
<1>4. has' = new /\ excused' = {p \in excused \cup ({t} \X del) : p[2] \notin new[p[1]]} /\ UNCHANGED <<placed, over>>
  BY DEF AddTaskCustomFields
<1> HIDE DEF new
<1>5. excused' \subseteq Tasks \X Of(Entries, {"fields"})
  BY <1>1, <1>4 DEF TypeOK
<1>6. TaskType'
  BY <1>3, <1>4, <1>5 DEF TaskType, TypeOK
<1> QED  BY <1>6, TypeParts, TypePartsNext, NodesStay, ListsStay, CallsType DEF AddTaskCustomFields

(* A step is one of the calls, with lists of the type they have. *)
Lists == SUBSET Entries
LEMMA Step ==
    ASSUME Next
    PROVE  \/ \E s \in Spaces, S \in Lists : CreateSpace(s, S)
           \/ \E s \in Spaces, f \in Folders, S \in Lists, mine \in BOOLEAN : CreateFolder(s, f, S, mine)
           \/ \E x \in Nodes, ins, del \in Lists, k \in {"tags", "fieldSets", "tagSets"} : UpdateLists(x, k, ins, del)
           \/ \E x \in Nodes, ins, del \in Lists : UpdateTeams(x, ins, del)
           \/ \E x \in Nodes, keep, drop \in Lists : SetFields(x, keep, drop)
           \/ \E f \in Folders, W \in Lists : ChangeWorkflow(f, W)
           \/ \E s \in Spaces, ins, del \in Lists : UpdateOneSpaceWorkflows(s, ins, del)
           \/ \E x \in Nodes : Shelve(x) \/ Unshelve(x) \/ Undelete(x)
           \/ \E f \in Folders : DeleteFolder(f)
           \/ \E f \in Folders, s \in Spaces : MoveFolder(f, s)
           \/ \E s \in Spaces : DeleteOneSpace(s)
           \/ \E f, g \in Folders, s \in Spaces, withFields, withTags \in BOOLEAN : \E M :
                 Copies(M) /\ CopyFolder(f, g, s, withFields, withTags, M)
           \/ \E t \in Tasks, f \in Folders : \E p \in In(f) \cup {None} : CreateTask(t, f, p)
           \/ \E t \in Tasks, from, to \in Folders, leaves \in BOOLEAN : Arrive(t, from, to, leaves)
           \/ \E t \in Tasks, ins, del \in Lists : AddTaskCustomFields(t, ins, del)
<1>1. \A k \in Kinds : OfKind(k) \subseteq Lists
  BY ItemsOfKind DEF Lists
<1>2. {"tags", "fieldSets", "tagSets", "teams", "fields", "workflow"} \subseteq Kinds
  BY DEF Kinds
<1>3. CASE \E s \in Spaces, k \in Kinds : \E S \in OfKind(k) : CreateSpace(s, S)
  BY <1>1, <1>3
<1>4. CASE \E s \in Spaces, f \in Folders, k \in Kinds : \E S \in OfKind(k), mine \in BOOLEAN : CreateFolder(s, f, S, mine)
  BY <1>1, <1>4
<1>5. CASE \E x \in Nodes : \E ins, del \in OfKind("tags") : ins # del /\ UpdateFolderTags(x, ins, del)
  BY <1>1, <1>2, <1>5 DEF UpdateFolderTags
<1>6. CASE \E x \in Nodes, k \in {"fieldSets", "tagSets"} : \E ins, del \in OfKind(k) : ins # del /\ UpdateLists(x, k, ins, del)
  BY <1>1, <1>2, <1>6
<1>7. CASE \E x \in Nodes : \E ins, del \in OfKind("teams") : ins # del /\ UpdateTeams(x, ins, del)
  BY <1>1, <1>2, <1>7
<1>8. CASE \E x \in Nodes : \E keep, drop \in OfKind("fields") : SetFields(x, keep, drop)
  BY <1>1, <1>2, <1>8
<1>9. CASE \E f \in Folders : \E W \in OfKind("workflow") : ChangeWorkflow(f, W)
  BY <1>1, <1>2, <1>9
<1>10. CASE \E s \in Spaces : \E ins, del \in OfKind("workflow") : ins # del /\ UpdateOneSpaceWorkflows(s, ins, del)
  BY <1>1, <1>2, <1>10
<1>11. CASE \E f, g \in Folders, s \in Spaces, withFields, withTags \in BOOLEAN :
              \E M \in {m \in [In(f) -> Tasks \ Owned] : \A a, b \in In(f) : a # b => m[a] # m[b]} \cup {[t \in {} |-> None]} :
                 CopyFolder(f, g, s, withFields, withTags, M)
  BY <1>11, CopiesOf
<1>12. CASE \E t \in Tasks : \E ins, del \in OfKind("fields") : ins \cup del # {} /\ AddTaskCustomFields(t, ins, del)
  BY <1>1, <1>2, <1>12
<1> QED  BY <1>3, <1>4, <1>5, <1>6, <1>7, <1>8, <1>9, <1>10, <1>11, <1>12 DEF Next

LEMMA StepType == TypeOK /\ [Next]_vars => TypeOK'
<1> SUFFICES ASSUME TypeOK, [Next]_vars PROVE TypeOK'
  OBVIOUS
<1>1. CASE Next
  <2>1. CASE \E s \in Spaces, S \in Lists : CreateSpace(s, S)
    BY <2>1, CreateSpaceType DEF Lists
  <2>2. CASE \E s \in Spaces, f \in Folders, S \in Lists, mine \in BOOLEAN : CreateFolder(s, f, S, mine)
    BY <2>2, CreateFolderType DEF Lists
  <2>3. CASE \E x \in Nodes, ins, del \in Lists, k \in {"tags", "fieldSets", "tagSets"} : UpdateLists(x, k, ins, del)
    BY <2>3, UpdateListsType
  <2>4. CASE \E x \in Nodes, ins, del \in Lists : UpdateTeams(x, ins, del)
    BY <2>4, UpdateTeamsType DEF Lists
  <2>5. CASE \E x \in Nodes, keep, drop \in Lists : SetFields(x, keep, drop)
    BY <2>5, SetFieldsType DEF Lists
  <2>6. CASE \E f \in Folders, W \in Lists : ChangeWorkflow(f, W)
    BY <2>6, ChangeWorkflowType DEF Lists
  <2>7. CASE \E s \in Spaces, ins, del \in Lists : UpdateOneSpaceWorkflows(s, ins, del)
    BY <2>7, UpdateOneSpaceWorkflowsType DEF Lists
  <2>8. CASE \E x \in Nodes : Shelve(x) \/ Unshelve(x) \/ Undelete(x)
    BY <2>8, ShelvingType
  <2>9. CASE \E f \in Folders : DeleteFolder(f)
    BY <2>9, DeleteFolderType
  <2>10. CASE \E f \in Folders, s \in Spaces : MoveFolder(f, s)
    BY <2>10, MoveFolderType
  <2>11. CASE \E s \in Spaces : DeleteOneSpace(s)
    BY <2>11, DeleteOneSpaceType
  <2>12. CASE \E f, g \in Folders, s \in Spaces, withFields, withTags \in BOOLEAN : \E M :
                 Copies(M) /\ CopyFolder(f, g, s, withFields, withTags, M)
    BY <2>12, CopyFolderType
  <2>13. CASE \E t \in Tasks, f \in Folders : \E p \in In(f) \cup {None} : CreateTask(t, f, p)
    BY <2>13, CreateTaskType
  <2>14. CASE \E t \in Tasks, from, to \in Folders, leaves \in BOOLEAN : Arrive(t, from, to, leaves)
    BY <2>14, ArriveType
  <2>15. CASE \E t \in Tasks, ins, del \in Lists : AddTaskCustomFields(t, ins, del)
    BY <2>15, AddTaskCustomFieldsType DEF Lists
  <2> QED  BY <1>1, <2>1, <2>2, <2>3, <2>4, <2>5, <2>6, <2>7, <2>8, <2>9, <2>10, <2>11, <2>12, <2>13, <2>14, <2>15, Step
<1>2. CASE UNCHANGED vars
  BY <1>2 DEF vars, nodeVars, listVars, taskVars, TypeOK, Known
<1> QED  BY <1>1, <1>2

(* Every variable of the catalogues has its type, through every call. *)
THEOREM TypeCorrect == Spec => []TypeOK
<1> QED  BY InitType, StepType, PTL DEF Spec

-----------------------------------------------------------------------------
(* What folders use is on offer *)

LEMMA SpacesAndFolders == \A f \in Folders : f \notin Spaces /\ f \in Nodes /\ f # None
BY CatalogueAssumption DEF Nodes

LEMMA HomeIsSpace ==
    ASSUME TypeOK, NEW f \in Folders, home[f] # None
    PROVE  home[f] \in Spaces /\ home[f] \notin Folders /\ home[f] \in Nodes
BY CatalogueAssumption DEF TypeOK, Nodes

LEMMA OfferStays ==
    ASSUME HomesMade, Offered, UNCHANGED <<home, lists, strayed, withdrawn>>, made \subseteq made'
    PROVE  HomesMade' /\ Offered'
BY DEF HomesMade, Offered

(* A folder that keeps what it has, and gets what its space was asked for, uses what is on offer. *)
LEMMA FolderStaysOffered ==
    ASSUME TypeOK, Offered, NEW f \in Folders, home[f] # None, NEW S, Checked(Top(f), S), NEW new \in SUBSET (lists[f] \cup S)
    PROVE  new \subseteq lists[home[f]] \cup withdrawn[home[f]] \cup Kept(f, new, S)
BY CheckedOrStrayed DEF Offered, Kept

(* One folder's list changes and its space is left alone. *)
LEMMA FolderListChanges ==
    ASSUME TypeOK, HomesMade, Offered, NEW f \in Folders, home[f] # None, NEW S, Checked(Top(f), S),
           NEW new \in SUBSET (lists[f] \cup S),
           lists' = [lists EXCEPT ![f] = new], strayed' = [strayed EXCEPT ![f] = Kept(f, new, S)],
           UNCHANGED <<home, made, withdrawn>>
    PROVE  HomesMade' /\ Offered'
<1>1. new \subseteq lists[home[f]] \cup withdrawn[home[f]] \cup Kept(f, new, S)
  BY FolderStaysOffered
<1>2. ASSUME NEW g \in Folders, home[g] # None
      PROVE  lists'[g] \subseteq lists'[home[g]] \cup withdrawn[home[g]] \cup strayed'[g]
  <2>1. lists'[home[g]] = lists[home[g]]
    BY <1>2, HomeIsSpace DEF TypeOK
  <2>2. CASE g = f
    BY <1>1, <2>1, <2>2, SpacesAndFolders DEF TypeOK
  <2>3. CASE g # f
    BY <1>2, <2>1, <2>3, SpacesAndFolders DEF TypeOK, Offered
  <2> QED  BY <2>2, <2>3
<1> QED  BY <1>2 DEF HomesMade, Offered

(* A space moves what it no longer offers to what it withdrew, and no folder is touched. *)
LEMMA SpaceListChanges ==
    ASSUME TypeOK, HomesMade, Offered, NEW s \in Spaces, NEW new, NEW gone,
           lists[s] \cup withdrawn[s] \subseteq new \cup gone,
           lists' = [lists EXCEPT ![s] = new], withdrawn' = [withdrawn EXCEPT ![s] = gone],
           UNCHANGED <<home, made, strayed>>
    PROVE  HomesMade' /\ Offered'
<1>1. ASSUME NEW g \in Folders, home[g] # None
      PROVE  lists'[g] \subseteq lists'[home[g]] \cup withdrawn'[home[g]] \cup strayed[g]
  <2>1. lists'[g] = lists[g]
    BY SpacesAndFolders DEF TypeOK
  <2>2. lists[home[g]] \cup withdrawn[home[g]] \subseteq lists'[home[g]] \cup withdrawn'[home[g]]
    BY <1>1, HomeIsSpace DEF TypeOK
  <2> QED  BY <1>1, <2>1, <2>2 DEF Offered
<1> QED  BY <1>1 DEF HomesMade, Offered

LEMMA CreateSpaceOffers ==
    ASSUME TypeOK, HomesMade, Offered, NEW s \in Spaces, NEW S, CreateSpace(s, S)
    PROVE  HomesMade' /\ Offered'
<1>1. ASSUME NEW g \in Folders, home[g] # None
      PROVE  lists'[g] \subseteq lists'[home[g]] \cup withdrawn[home[g]] \cup strayed[g]
  <2>1. home[g] # s
    BY <1>1, CatalogueAssumption DEF HomesMade, CreateSpace
  <2>2. lists'[g] = lists[g] /\ lists'[home[g]] = lists[home[g]]
    BY <1>1, <2>1, SpacesAndFolders, HomeIsSpace DEF TypeOK, CreateSpace
  <2> QED  BY <1>1, <2>2 DEF Offered
<1> QED  BY <1>1 DEF CreateSpace, HomesMade, Offered

LEMMA CreateFolderOffers ==
    ASSUME TypeOK, HomesMade, Offered, NEW s \in Spaces, NEW f \in Folders, NEW S, NEW personal,
           CreateFolder(s, f, S, personal)
    PROVE  HomesMade' /\ Offered'
<1>1. /\ home' = [home EXCEPT ![f] = s] /\ lists' = [lists EXCEPT ![f] = S]
      /\ strayed' = [strayed EXCEPT ![f] = IF Vouching(s) = None THEN S ELSE {}]
      /\ UNCHANGED <<made, withdrawn>> /\ s \in made /\ Checked(Vouching(s), S)
  BY DEF CreateFolder
<1>2. s # None /\ s # f
  BY CatalogueAssumption DEF Nodes
<1>3. S \subseteq lists[s] \cup strayed'[f]
  BY <1>1, <1>2 DEF TypeOK, Checked, Vouching
<1>4. ASSUME NEW g \in Folders, home'[g] # None
      PROVE  lists'[g] \subseteq lists'[home'[g]] \cup withdrawn[home'[g]] \cup strayed'[g]
  <2>1. CASE g = f
    <3>1. home'[g] = s /\ lists'[g] = S /\ lists'[s] = lists[s]
      BY <1>1, <1>2, <2>1 DEF TypeOK, Nodes
    <3> QED  BY <1>3, <2>1, <3>1
  <2>2. CASE g # f
    <3>1. home'[g] = home[g] /\ lists'[g] = lists[g] /\ strayed'[g] = strayed[g]
      BY <1>1, <2>2 DEF TypeOK, Nodes
    <3>2. lists'[home[g]] = lists[home[g]]
      BY <1>1, <1>4, <3>1, HomeIsSpace DEF TypeOK
    <3> QED  BY <1>4, <3>1, <3>2 DEF Offered
  <2> QED  BY <2>1, <2>2
<1>5. HomesMade'
  BY <1>1 DEF HomesMade, TypeOK
<1> QED  BY <1>1, <1>4, <1>5 DEF Offered

LEMMA UpdateListsOffers ==
    ASSUME TypeOK, HomesMade, Offered, NEW x \in Nodes, NEW k, NEW ins, NEW del, UpdateLists(x, k, ins, del)
    PROVE  HomesMade' /\ Offered'
<1> DEFINE new == (lists[x] \cup ins) \ del
<1>1. lists' = [lists EXCEPT ![x] = new] /\ UNCHANGED <<home, made>> /\ x \in Known
  BY DEF UpdateLists, nodeVars
<1>2. CASE x \in Spaces
  <2>1. withdrawn' = [withdrawn EXCEPT ![x] = (withdrawn[x] \ ins) \cup del] /\ UNCHANGED strayed
    BY <1>2 DEF UpdateLists, TypeOK
  <2>2. lists[x] \cup withdrawn[x] \subseteq new \cup ((withdrawn[x] \ ins) \cup del)
    OBVIOUS
  <2> HIDE DEF new
  <2> QED  BY <1>1, <1>2, <2>1, <2>2, SpaceListChanges
<1>3. CASE x \in Folders
  <2>1. strayed' = [strayed EXCEPT ![x] = Kept(x, new, ins)] /\ UNCHANGED withdrawn /\ Checked(Top(x), ins)
    BY <1>3, SpacesAndFolders DEF UpdateLists
  <2>2. home[x] # None
    BY <1>1, <1>3, KnownFolder
  <2>3. new \in SUBSET (lists[x] \cup ins)
    OBVIOUS
  <2> HIDE DEF new
  <2> QED  BY <1>1, <1>3, <2>1, <2>2, <2>3, FolderListChanges
<1> QED  BY <1>2, <1>3 DEF Nodes

(* Teams a space withdraws leave the folders that are shown, and stray in the others. *)
LEMMA UpdateTeamsOffers ==
    ASSUME TypeOK, HomesMade, Offered, NEW x \in Nodes, NEW ins, NEW del, UpdateTeams(x, ins, del)
    PROVE  HomesMade' /\ Offered'
<1> DEFINE reached == {x} \cup (IF x \in Spaces THEN Under(x) \ Elsewhere ELSE {})
           new == [y \in Nodes |-> (IF y = x THEN lists[y] \cup ins ELSE lists[y]) \ (IF y \in reached THEN del ELSE {})]
<1>1. /\ lists' = new
      /\ withdrawn' = IF x \in Spaces THEN [withdrawn EXCEPT ![x] = @ \ ins] ELSE withdrawn
      /\ strayed' = [f \in Folders |->
                       IF f = x THEN Kept(f, new[f], ins)
                       ELSE (strayed[f] \cup (IF home[f] = x /\ f \in Elsewhere THEN del ELSE {})) \cap new[f]]
      /\ UNCHANGED <<home, made>> /\ x \in Known /\ (x \in Folders => Checked(Top(x), ins))
  BY DEF UpdateTeams, nodeVars
<1>2. ASSUME NEW g \in Folders, home[g] # None
      PROVE  lists'[g] \subseteq lists'[home[g]] \cup withdrawn'[home[g]] \cup strayed'[g]
  <2>1. home[g] \in Spaces /\ home[g] \in Nodes /\ g \in Nodes /\ home[g] \notin Folders /\ g \notin Spaces
    BY <1>2, HomeIsSpace, SpacesAndFolders
  <2>2. lists[g] \subseteq lists[home[g]] \cup withdrawn[home[g]] \cup strayed[g]
    BY <1>2 DEF Offered
  <2>3. CASE g = x
    <3>1. new[g] \in SUBSET (lists[g] \cup ins)
      BY <2>1, <2>3
    <3>2. new[home[g]] = lists[home[g]]
      BY <2>1, <2>3
    <3>3. strayed'[g] = Kept(g, new[g], ins) /\ withdrawn'[home[g]] = withdrawn[home[g]] /\ Checked(Top(g), ins)
      BY <1>1, <2>1, <2>3
    <3> HIDE DEF new
    <3> QED  BY <1>1, <1>2, <3>1, <3>2, <3>3, FolderStaysOffered
  <2>4. CASE g # x /\ home[g] = x
    <3>1. x \in Spaces /\ withdrawn'[x] = withdrawn[x] \ ins /\ new[x] = (lists[x] \cup ins) \ del
      BY <1>1, <2>1, <2>4 DEF TypeOK
    <3>2. CASE g \in Elsewhere
      <4>1. new[g] = lists[g]
        BY <2>1, <2>4, <3>1, <3>2
      <4>2. strayed'[g] = (strayed[g] \cup del) \cap new[g]
        BY <1>1, <2>4, <3>2
      <4> HIDE DEF new
      <4> QED  BY <1>1, <2>2, <2>4, <3>1, <4>1, <4>2
    <3>3. CASE g \notin Elsewhere
      <4>1. g \in reached
        BY <2>4, <3>1, <3>3 DEF Under
      <4>2. new[g] = lists[g] \ del
        BY <2>1, <2>4, <4>1
      <4>3. strayed'[g] = strayed[g] \cap new[g]
        BY <1>1, <2>4, <3>3
      <4> HIDE DEF new
      <4> QED  BY <1>1, <2>2, <2>4, <3>1, <4>2, <4>3
    <3> QED  BY <3>2, <3>3
  <2>5. CASE g # x /\ home[g] # x
    <3>1. g \notin reached /\ home[g] \notin reached
      BY <2>1, <2>5 DEF Under
    <3>2. new[g] = lists[g] /\ new[home[g]] = lists[home[g]]
      BY <2>1, <2>5, <3>1
    <3>3. strayed'[g] = strayed[g] \cap new[g] /\ withdrawn'[home[g]] = withdrawn[home[g]]
      BY <1>1, <2>1, <2>5 DEF TypeOK
    <3> HIDE DEF new
    <3> QED  BY <1>1, <2>2, <3>2, <3>3
  <2> QED  BY <2>3, <2>4, <2>5
<1> HIDE DEF new
<1> QED  BY <1>1, <1>2 DEF HomesMade, Offered

LEMMA SetFieldsOffers ==
    ASSUME TypeOK, HomesMade, Offered, NEW x \in Nodes, NEW keep, NEW drop, SetFields(x, keep, drop)
    PROVE  HomesMade' /\ Offered'
<1> DEFINE fields == Of(lists[x], {"fields"})
           new == (lists[x] \ fields) \cup keep
<1>1. lists' = [lists EXCEPT ![x] = new] /\ UNCHANGED <<home, made>> /\ x \in Known
  BY DEF SetFields, nodeVars
<1>2. CASE x \in Spaces
  <2>1. withdrawn' = [withdrawn EXCEPT ![x] = (withdrawn[x] \ keep) \cup (fields \ keep)] /\ UNCHANGED strayed
    BY <1>2 DEF SetFields, TypeOK
  <2>2. lists[x] \cup withdrawn[x] \subseteq new \cup ((withdrawn[x] \ keep) \cup (fields \ keep))
    OBVIOUS
  <2> HIDE DEF new, fields
  <2> QED  BY <1>1, <1>2, <2>1, <2>2, SpaceListChanges
<1>3. CASE x \in Folders
  <2>1. strayed' = [strayed EXCEPT ![x] = Kept(x, new, keep)] /\ UNCHANGED withdrawn /\ Checked(Top(x), keep)
    BY <1>3, SpacesAndFolders DEF SetFields, Checked
  <2>2. home[x] # None
    BY <1>1, <1>3, KnownFolder
  <2>3. new \in SUBSET (lists[x] \cup keep)
    OBVIOUS
  <2> HIDE DEF new
  <2> QED  BY <1>1, <1>3, <2>1, <2>2, <2>3, FolderListChanges
<1> QED  BY <1>2, <1>3 DEF Nodes

LEMMA ChangeWorkflowOffers ==
    ASSUME TypeOK, HomesMade, Offered, NEW f \in Folders, NEW W, ChangeWorkflow(f, W)
    PROVE  HomesMade' /\ Offered'
<1> DEFINE new == (lists[f] \ Of(lists[f], {"workflow"})) \cup W
<1>1. /\ lists' = [lists EXCEPT ![f] = new] /\ strayed' = [strayed EXCEPT ![f] = Kept(f, new, W)]
      /\ UNCHANGED <<home, made, withdrawn>> /\ f \in Known /\ Checked(Top(f), W)
  BY DEF ChangeWorkflow, nodeVars
<1>2. home[f] # None
  BY <1>1, KnownFolder
<1>3. new \in SUBSET (lists[f] \cup W)
  OBVIOUS
<1> HIDE DEF new
<1> QED  BY <1>1, <1>2, <1>3, FolderListChanges

LEMMA SpaceWorkflowsOffers ==
    ASSUME TypeOK, HomesMade, Offered, NEW s \in Spaces, NEW ins, NEW del, UpdateOneSpaceWorkflows(s, ins, del)
    PROVE  HomesMade' /\ Offered'
<1> DEFINE new == (lists[s] \cup ins) \ del
           gone == (withdrawn[s] \ ins) \cup del
<1>1. lists' = [lists EXCEPT ![s] = new] /\ withdrawn' = [withdrawn EXCEPT ![s] = gone] /\ UNCHANGED <<home, made, strayed>>
  BY DEF UpdateOneSpaceWorkflows, nodeVars, TypeOK, Nodes
<1>2. lists[s] \cup withdrawn[s] \subseteq new \cup gone
  OBVIOUS
<1> HIDE DEF new, gone
<1> QED  BY <1>1, <1>2, SpaceListChanges

LEMMA DeleteOneSpaceOffers ==
    ASSUME TypeOK, HomesMade, Offered, NEW s \in Spaces, DeleteOneSpace(s)
    PROVE  HomesMade' /\ Offered'
<1> DEFINE gone == Of(lists[s], {"teams", "workflow", "fieldSets", "tagSets"})
<1>1. /\ lists' = [lists EXCEPT ![s] = lists[s] \ gone] /\ withdrawn' = [withdrawn EXCEPT ![s] = withdrawn[s] \cup gone]
      /\ UNCHANGED <<home, made, strayed>>
  BY DEF DeleteOneSpace, TypeOK, Nodes
<1>2. lists[s] \cup withdrawn[s] \subseteq (lists[s] \ gone) \cup (withdrawn[s] \cup gone)
  OBVIOUS
<1> HIDE DEF gone
<1> QED  BY <1>1, <1>2, SpaceListChanges

(* Whatever a moved folder used has strayed: no space vouched for it. *)
LEMMA MoveFolderOffers ==
    ASSUME TypeOK, HomesMade, Offered, NEW f \in Folders, NEW s \in Spaces, MoveFolder(f, s)
    PROVE  HomesMade' /\ Offered'
<1>1. /\ home' = [home EXCEPT ![f] = s] /\ strayed' = [strayed EXCEPT ![f] = lists[f]]
      /\ UNCHANGED <<made, lists, withdrawn>> /\ s \in made
  BY DEF MoveFolder
<1>2. ASSUME NEW g \in Folders, home'[g] # None
      PROVE  lists[g] \subseteq lists[home'[g]] \cup withdrawn[home'[g]] \cup strayed'[g]
  <2>1. CASE g = f
    BY <1>1, <2>1 DEF TypeOK
  <2>2. CASE g # f
    BY <1>1, <1>2, <2>2 DEF TypeOK, Offered
  <2> QED  BY <2>1, <2>2
<1>3. HomesMade'
  BY <1>1 DEF HomesMade, TypeOK
<1> QED  BY <1>1, <1>2, <1>3 DEF Offered

LEMMA CopyFolderOffers ==
    ASSUME TypeOK, HomesMade, Offered, NEW f \in Folders, NEW g \in Folders, NEW s \in Spaces, NEW withFields, NEW withTags,
           NEW M, CopyFolder(f, g, s, withFields, withTags, M)
    PROVE  HomesMade' /\ Offered'
<1> DEFINE workflow == Of(lists[f], {"workflow"})
           S == Copied(f, withFields, withTags)
<1>1. /\ home' = [home EXCEPT ![g] = s] /\ lists' = [lists EXCEPT ![g] = S]
      /\ strayed' = [strayed EXCEPT ![g] = CASE Vouching(s) = None -> S
                                             [] Live(s) /\ s = home[f] -> (strayed[f] \cap S) \ workflow
                                             [] OTHER -> S \ workflow]
      /\ UNCHANGED <<made, withdrawn>> /\ s \in made /\ f \in Known /\ Checked(Vouching(s), workflow)
  BY DEF CopyFolder
<1>2. s # None /\ s # g /\ home[f] # None
  BY <1>1, CatalogueAssumption, KnownFolder DEF Nodes
<1>3. S \subseteq lists[f]
  BY CopiedType
<1>4. lists[f] \subseteq lists[home[f]] \cup withdrawn[home[f]] \cup strayed[f]
  BY <1>2 DEF Offered
<1> HIDE DEF workflow, S
<1>5. S \subseteq lists[s] \cup withdrawn[s] \cup strayed'[g]
  <2>1. CASE Vouching(s) = None
    <3>1. ~ Live(s)
      BY <1>2, <2>1 DEF Vouching
    <3>2. strayed'[g] = S
      BY <1>1, <2>1, <3>1 DEF TypeOK
    <3> QED  BY <3>2
  <2>2. CASE Vouching(s) # None /\ Live(s) /\ s = home[f]
    <3>1. strayed'[g] = (strayed[f] \cap S) \ workflow
      BY <1>1, <2>2 DEF TypeOK
    <3>2. workflow \subseteq lists[s]
      BY <1>1, <2>2 DEF Checked, Vouching
    <3> QED  BY <1>3, <1>4, <2>2, <3>1, <3>2
  <2>3. CASE Vouching(s) # None /\ ~(Live(s) /\ s = home[f])
    <3>1. strayed'[g] = S \ workflow
      BY <1>1, <2>3 DEF TypeOK
    <3>2. workflow \subseteq lists[s]
      BY <1>1, <2>3 DEF Checked, Vouching
    <3> QED  BY <3>1, <3>2
  <2> QED  BY <2>1, <2>2, <2>3
<1>6. ASSUME NEW h \in Folders, home'[h] # None
      PROVE  lists'[h] \subseteq lists'[home'[h]] \cup withdrawn[home'[h]] \cup strayed'[h]
  <2>1. CASE h = g
    <3>1. home'[h] = s /\ lists'[h] = S /\ lists'[s] = lists[s]
      BY <1>1, <1>2, <2>1 DEF TypeOK, Nodes
    <3> QED  BY <1>5, <2>1, <3>1
  <2>2. CASE h # g
    <3>1. home'[h] = home[h] /\ lists'[h] = lists[h] /\ strayed'[h] = strayed[h]
      BY <1>1, <2>2 DEF TypeOK, Nodes
    <3>2. lists'[home[h]] = lists[home[h]]
      BY <1>1, <1>6, <3>1, HomeIsSpace DEF TypeOK
    <3> QED  BY <1>6, <3>1, <3>2 DEF Offered
  <2> QED  BY <2>1, <2>2
<1>7. HomesMade'
  BY <1>1 DEF HomesMade, TypeOK
<1> QED  BY <1>1, <1>6, <1>7 DEF Offered

LEMMA InitOffers == Init => HomesMade /\ Offered
<1> SUFFICES ASSUME Init PROVE HomesMade /\ Offered
  OBVIOUS
<1>1. PICK s \in Spaces, f \in Folders, t \in Tasks, K \in {{}, Kinds} :
        /\ f \notin Elsewhere
        /\ home = [g \in Folders |-> IF g = f THEN s ELSE None] /\ made = {s} /\ archived = {} /\ deleted = {}
        /\ lists = [x \in Nodes |-> IF x = s THEN Entries ELSE IF x = f THEN {e \in K \X Items : e[1] # "workflow"} ELSE {}]
        /\ own = {f} /\ strayed = [g \in Folders |-> {}] /\ withdrawn = [x \in Spaces |-> {}]
        /\ placed = {<<f, t>>} /\ over = [c \in Tasks |-> None]
        /\ has = [c \in Tasks |-> IF c = t THEN Of(K \X Items, {"fields"}) ELSE {}] /\ excused = {} /\ calls = 0
  BY DEF Init
<1>2. HomesMade
  BY <1>1 DEF HomesMade
<1>3. ASSUME NEW g \in Folders, home[g] # None
      PROVE  lists[g] \subseteq lists[home[g]]
  <2>1. g = f /\ home[g] = s
    BY <1>1, <1>3
  <2>2. lists[s] = Entries /\ lists[g] \subseteq K \X Items
    BY <1>1, <2>1, SpacesAndFolders DEF Nodes
  <2> QED  BY <2>1, <2>2 DEF Entries
<1> QED  BY <1>2, <1>3 DEF Offered

LEMMA StepOffers == OfferInv /\ [Next]_vars => OfferInv'
<1> SUFFICES ASSUME TypeOK, HomesMade, Offered, [Next]_vars PROVE HomesMade' /\ Offered'
  BY StepType DEF OfferInv
<1>1. CASE Next
  <2>1. CASE \E s \in Spaces, S \in Lists : CreateSpace(s, S)
    BY <2>1, CreateSpaceOffers
  <2>2. CASE \E s \in Spaces, f \in Folders, S \in Lists, mine \in BOOLEAN : CreateFolder(s, f, S, mine)
    BY <2>2, CreateFolderOffers
  <2>3. CASE \E x \in Nodes, ins, del \in Lists, k \in {"tags", "fieldSets", "tagSets"} : UpdateLists(x, k, ins, del)
    BY <2>3, UpdateListsOffers
  <2>4. CASE \E x \in Nodes, ins, del \in Lists : UpdateTeams(x, ins, del)
    BY <2>4, UpdateTeamsOffers
  <2>5. CASE \E x \in Nodes, keep, drop \in Lists : SetFields(x, keep, drop)
    BY <2>5, SetFieldsOffers
  <2>6. CASE \E f \in Folders, W \in Lists : ChangeWorkflow(f, W)
    BY <2>6, ChangeWorkflowOffers
  <2>7. CASE \E s \in Spaces, ins, del \in Lists : UpdateOneSpaceWorkflows(s, ins, del)
    BY <2>7, SpaceWorkflowsOffers
  <2>8. CASE \E x \in Nodes : Shelve(x) \/ Unshelve(x) \/ Undelete(x)
    BY <2>8, OfferStays DEF Shelve, Unshelve, Undelete, listVars
  <2>9. CASE \E f \in Folders : DeleteFolder(f)
    BY <2>9, OfferStays DEF DeleteFolder, listVars
  <2>10. CASE \E f \in Folders, s \in Spaces : MoveFolder(f, s)
    BY <2>10, MoveFolderOffers
  <2>11. CASE \E s \in Spaces : DeleteOneSpace(s)
    BY <2>11, DeleteOneSpaceOffers
  <2>12. CASE \E f, g \in Folders, s \in Spaces, withFields, withTags \in BOOLEAN : \E M :
                 Copies(M) /\ CopyFolder(f, g, s, withFields, withTags, M)
    BY <2>12, CopyFolderOffers
  <2>13. CASE \E t \in Tasks, f \in Folders : \E p \in In(f) \cup {None} : CreateTask(t, f, p)
    BY <2>13, OfferStays DEF CreateTask, listVars, nodeVars
  <2>14. CASE \E t \in Tasks, from, to \in Folders, leaves \in BOOLEAN : Arrive(t, from, to, leaves)
    BY <2>14, OfferStays DEF Arrive, listVars, nodeVars
  <2>15. CASE \E t \in Tasks, ins, del \in Lists : AddTaskCustomFields(t, ins, del)
    BY <2>15, OfferStays DEF AddTaskCustomFields, listVars, nodeVars
  <2> QED  BY <1>1, <2>1, <2>2, <2>3, <2>4, <2>5, <2>6, <2>7, <2>8, <2>9, <2>10, <2>11, <2>12, <2>13, <2>14, <2>15, Step
<1>2. CASE UNCHANGED vars
  BY <1>2, OfferStays DEF vars, nodeVars, listVars
<1> QED  BY <1>1, <1>2

(* Offered: through every call, in any order, a folder uses nothing its space does not offer, but
   for what the space withdrew from under it and what came while no space vouched for it. *)
THEOREM UsesWhatIsOffered == Spec => []Offered
<1>1. Init => OfferInv
  BY InitType, InitOffers DEF OfferInv
<1>2. OfferInv => Offered
  BY DEF OfferInv
<1> QED  BY <1>1, <1>2, StepOffers, PTL DEF Spec

-----------------------------------------------------------------------------
(* The fields of a folder reach its tasks *)

LEMMA PlacedAt ==
    ASSUME TypeOK, NEW p \in placed
    PROVE  p[1] \in Folders /\ p[2] \in Tasks /\ p = <<p[1], p[2]>> /\ p[2] \in Owned
BY DEF TypeOK, Owned

(* A call that names other kinds, or no folder that has tasks, gives no folder with tasks a field. *)
LEMMA FieldsStay ==
    ASSUME TypeOK, PlacedKnown, FieldsReachTasks, UNCHANGED <<placed, has, excused>>,
           \A f \in Folders : home[f] # None =>
               home'[f] # None /\ \A d \in lists'[f] : d[1] = "fields" => d \in lists[f]
    PROVE  PlacedKnown' /\ FieldsReachTasks'
<1>1. PlacedKnown'
  BY PlacedAt DEF PlacedKnown
<1>2. ASSUME NEW p \in placed, NEW d \in Of(lists'[p[1]], {"fields"})
      PROVE  d \in has[p[2]] \/ <<p[2], d>> \in excused
  <2>1. d \in lists'[p[1]] /\ d[1] = "fields"
    BY <1>2, ListsOf
  <2>2. d \in Of(lists[p[1]], {"fields"})
    BY <2>1, PlacedAt, ListsOf DEF PlacedKnown
  <2> QED  BY <2>2 DEF FieldsReachTasks
<1> QED  BY <1>1, <1>2 DEF FieldsReachTasks

LEMMA CreateSpaceFields ==
    ASSUME TypeOK, PlacedKnown, FieldsReachTasks, NEW s \in Spaces, NEW S, CreateSpace(s, S)
    PROVE  PlacedKnown' /\ FieldsReachTasks'
<1>1. \A f \in Folders : home'[f] = home[f] /\ lists'[f] = lists[f]
  BY SpacesAndFolders DEF CreateSpace, TypeOK
<1> QED  BY <1>1, FieldsStay DEF CreateSpace, taskVars

LEMMA CreateFolderFields ==
    ASSUME TypeOK, PlacedKnown, FieldsReachTasks, NEW s \in Spaces, NEW f \in Folders, NEW S, NEW personal,
           CreateFolder(s, f, S, personal)
    PROVE  PlacedKnown' /\ FieldsReachTasks'
<1>1. \A g \in Folders : home[g] # None => g # f /\ home'[g] = home[g] /\ lists'[g] = lists[g]
  BY DEF CreateFolder, TypeOK, Nodes
<1> QED  BY <1>1, FieldsStay DEF CreateFolder, taskVars

LEMMA UpdateListsFields ==
    ASSUME TypeOK, PlacedKnown, FieldsReachTasks, NEW x \in Nodes, NEW k \in {"tags", "fieldSets", "tagSets"},
           NEW ins, NEW del, UpdateLists(x, k, ins, del)
    PROVE  PlacedKnown' /\ FieldsReachTasks'
<1>1. \A d \in ins : d[1] = k
  <2>1. ins \subseteq Of(ins \cup del, {k})
    BY DEF UpdateLists
  <2> QED  BY <2>1, ListsOf
<1>2. lists' = [lists EXCEPT ![x] = (lists[x] \cup ins) \ del] /\ UNCHANGED <<home, placed, has, excused>>
  BY DEF UpdateLists, nodeVars, taskVars
<1>3. \A f \in Folders : \A d \in lists'[f] : d[1] = "fields" => d \in lists[f]
  BY <1>1, <1>2 DEF TypeOK, Nodes
<1> QED  BY <1>2, <1>3, FieldsStay

LEMMA UpdateTeamsFields ==
    ASSUME TypeOK, PlacedKnown, FieldsReachTasks, NEW x \in Nodes, NEW ins, NEW del, UpdateTeams(x, ins, del)
    PROVE  PlacedKnown' /\ FieldsReachTasks'
<1> DEFINE reached == {x} \cup (IF x \in Spaces THEN Under(x) \ Elsewhere ELSE {})
           new == [y \in Nodes |-> (IF y = x THEN lists[y] \cup ins ELSE lists[y]) \ (IF y \in reached THEN del ELSE {})]
<1>1. \A d \in ins : d[1] = "teams"
  <2>1. ins \subseteq Of(ins \cup del, {"teams"})
    BY DEF UpdateTeams
  <2> QED  BY <2>1, ListsOf
<1>2. lists' = new /\ UNCHANGED <<home, placed, has, excused>>
  BY DEF UpdateTeams, nodeVars, taskVars
<1>3. \A y \in Nodes : new[y] \subseteq lists[y] \cup ins
  OBVIOUS
<1> HIDE DEF new
<1>4. \A f \in Folders : \A d \in lists'[f] : d[1] = "fields" => d \in lists[f]
  BY <1>1, <1>2, <1>3 DEF Nodes
<1> QED  BY <1>2, <1>4, FieldsStay

LEMMA ChangeWorkflowFields ==
    ASSUME TypeOK, PlacedKnown, FieldsReachTasks, NEW f \in Folders, NEW W, ChangeWorkflow(f, W)
    PROVE  PlacedKnown' /\ FieldsReachTasks'
<1>1. \A d \in W : d[1] = "workflow"
  <2>1. W \subseteq Of(W, {"workflow"})
    BY DEF ChangeWorkflow
  <2> QED  BY <2>1, ListsOf
<1>2. /\ lists' = [lists EXCEPT ![f] = (lists[f] \ Of(lists[f], {"workflow"})) \cup W]
      /\ UNCHANGED <<home, placed, has, excused>>
  BY DEF ChangeWorkflow, nodeVars, taskVars
<1>3. \A g \in Folders : \A d \in lists'[g] : d[1] = "fields" => d \in lists[g]
  BY <1>1, <1>2 DEF TypeOK, Nodes
<1> QED  BY <1>2, <1>3, FieldsStay

LEMMA SpaceFields ==
    ASSUME TypeOK, PlacedKnown, FieldsReachTasks, NEW s \in Spaces, NEW new,
           lists' = [lists EXCEPT ![s] = new], UNCHANGED <<home, placed, has, excused>>
    PROVE  PlacedKnown' /\ FieldsReachTasks'
<1>1. \A f \in Folders : lists'[f] = lists[f]
  BY SpacesAndFolders DEF TypeOK
<1> QED  BY <1>1, FieldsStay

LEMMA SpaceWorkflowsFields ==
    ASSUME TypeOK, PlacedKnown, FieldsReachTasks, NEW s \in Spaces, NEW ins, NEW del, UpdateOneSpaceWorkflows(s, ins, del)
    PROVE  PlacedKnown' /\ FieldsReachTasks'
<1>1. lists' = [lists EXCEPT ![s] = (lists[s] \cup ins) \ del] /\ UNCHANGED <<home, placed, has, excused>>
  BY DEF UpdateOneSpaceWorkflows, nodeVars, taskVars, TypeOK, Nodes
<1> QED  BY <1>1, SpaceFields

LEMMA DeleteOneSpaceFields ==
    ASSUME TypeOK, PlacedKnown, FieldsReachTasks, NEW s \in Spaces, DeleteOneSpace(s)
    PROVE  PlacedKnown' /\ FieldsReachTasks'
<1> DEFINE gone == Of(lists[s], {"teams", "workflow", "fieldSets", "tagSets"})
<1>1. lists' = [lists EXCEPT ![s] = lists[s] \ gone] /\ UNCHANGED <<home, placed, has, excused>>
  BY DEF DeleteOneSpace, taskVars, TypeOK, Nodes
<1> HIDE DEF gone
<1> QED  BY <1>1, SpaceFields

LEMMA MoveFolderFields ==
    ASSUME TypeOK, PlacedKnown, FieldsReachTasks, NEW f \in Folders, NEW s \in Spaces, MoveFolder(f, s)
    PROVE  PlacedKnown' /\ FieldsReachTasks'
<1>1. home' = [home EXCEPT ![f] = s] /\ UNCHANGED <<lists, placed, has, excused>> /\ s # None
  BY CatalogueAssumption DEF MoveFolder, taskVars, Nodes
<1>2. \A g \in Folders : home[g] # None => home'[g] # None
  BY <1>1 DEF TypeOK
<1> QED  BY <1>1, <1>2, FieldsStay

(* A field set on a folder is given to each of its tasks; one dropped is excused. *)
LEMMA SetFieldsFields ==
    ASSUME TypeOK, PlacedKnown, FieldsReachTasks, NEW x \in Nodes, NEW keep, NEW drop, SetFields(x, keep, drop)
    PROVE  PlacedKnown' /\ FieldsReachTasks'
<1> DEFINE new == (lists[x] \ Of(lists[x], {"fields"})) \cup keep
           T == IF x \in Folders THEN In(x) ELSE {}
<1>1. /\ lists' = [lists EXCEPT ![x] = new]
      /\ has' = [t \in Tasks |-> IF t \in T THEN (has[t] \cup keep) \ drop ELSE has[t]]
      /\ excused' = (excused \ (T \X keep)) \cup (T \X drop)
      /\ UNCHANGED <<home, placed>> /\ keep \cap drop = {}
  BY DEF SetFields, nodeVars
<1>2. ASSUME NEW p \in placed, NEW d \in Of(lists'[p[1]], {"fields"})
      PROVE  d \in has'[p[2]] \/ <<p[2], d>> \in excused'
  <2>1. d \in lists'[p[1]] /\ d[1] = "fields" /\ p[1] \in Folders /\ p[2] \in Tasks /\ p[1] \in Nodes
    BY <1>2, ListsOf, PlacedAt, SpacesAndFolders
  <2>2. CASE p[1] = x
    <3>1. p[2] \in T
      BY <2>1, <2>2, PlacedAt DEF In
    <3>2. d \in keep
      <4>1. lists'[p[1]] = new
        BY <1>1, <2>1, <2>2 DEF TypeOK
      <4> QED  BY <2>1, <4>1 DEF Of
    <3> HIDE DEF T
    <3> QED  BY <1>1, <2>1, <3>1, <3>2
  <2>3. CASE p[1] # x
    <3>1. lists'[p[1]] = lists[p[1]]
      BY <1>1, <2>1, <2>3 DEF TypeOK
    <3>2. d \in has[p[2]] \/ <<p[2], d>> \in excused
      BY <1>2, <3>1 DEF FieldsReachTasks
    <3> HIDE DEF T
    <3> QED  BY <1>1, <2>1, <3>2
  <2> QED  BY <2>2, <2>3
<1> QED  BY <1>1, <1>2 DEF PlacedKnown, FieldsReachTasks

LEMMA CopyFolderFields ==
    ASSUME TypeOK, PlacedKnown, FieldsReachTasks, NEW f \in Folders, NEW g \in Folders, NEW s \in Spaces,
           NEW withFields, NEW withTags, NEW M, Copies(M), CopyFolder(f, g, s, withFields, withTags, M)
    PROVE  PlacedKnown' /\ FieldsReachTasks'
<1> DEFINE S == Copied(f, withFields, withTags)
           fields == Of(S, {"fields"})
<1>1. home' = [home EXCEPT ![g] = s] /\ lists' = [lists EXCEPT ![g] = S] /\ home[g] = None /\ CopyTasks(g, fields, M)
  BY DEF CopyFolder
<1>2. fields \in SUBSET Of(Entries, {"fields"})
  BY CopiedType DEF Of
<1>3. s # None
  BY CatalogueAssumption DEF Nodes
<1> HIDE DEF S
<1>4. PICK new \in SUBSET (Tasks \ Owned) :
        /\ placed' = placed \cup ({g} \X new)
        /\ \A t \in Tasks \ new : has'[t] = has[t]
        /\ excused' = excused \cup {p \in new \X fields : p[2] \notin has'[p[1]]}
  <2> HIDE DEF fields
  <2> QED  BY <1>1, <1>2, CopyTasksStep
<1>5. ASSUME NEW p \in placed
      PROVE  /\ home'[p[1]] # None
             /\ \A d \in Of(lists'[p[1]], {"fields"}) : d \in has'[p[2]] \/ <<p[2], d>> \in excused'
  <2>1. p[1] \in Folders /\ p[1] \in Nodes /\ p[2] \in Tasks \ new /\ p[1] # g /\ home[p[1]] # None
    BY <1>1, PlacedAt, SpacesAndFolders DEF PlacedKnown
  <2>2. home'[p[1]] = home[p[1]] /\ lists'[p[1]] = lists[p[1]] /\ has'[p[2]] = has[p[2]]
    BY <1>1, <1>4, <2>1 DEF TypeOK
  <2> HIDE DEF fields
  <2> QED  BY <1>4, <2>1, <2>2 DEF FieldsReachTasks
<1>6. ASSUME NEW p \in {g} \X new
      PROVE  /\ home'[p[1]] # None
             /\ \A d \in Of(lists'[p[1]], {"fields"}) : d \in has'[p[2]] \/ <<p[2], d>> \in excused'
  <2>1. p[1] = g /\ p[2] \in new /\ home'[g] = s /\ lists'[g] = S
    BY <1>1 DEF TypeOK, Nodes
  <2>2. ASSUME NEW d \in fields, d \notin has'[p[2]] PROVE <<p[2], d>> \in excused'
    <3> HIDE DEF fields
    <3> QED  BY <1>4, <2>1, <2>2
  <2> QED  BY <1>3, <2>1, <2>2
<1> HIDE DEF fields
<1> QED  BY <1>4, <1>5, <1>6 DEF PlacedKnown, FieldsReachTasks

LEMMA CreateTaskFields ==
    ASSUME TypeOK, PlacedKnown, FieldsReachTasks, NEW t \in Tasks, NEW f \in Folders, NEW p0, CreateTask(t, f, p0)
    PROVE  PlacedKnown' /\ FieldsReachTasks'
<1>1. /\ placed' = placed \cup {<<f, t>>} /\ has' = [has EXCEPT ![t] = Of(lists[f], {"fields"})]
      /\ UNCHANGED <<home, lists, excused>> /\ t \notin Owned /\ home[f] # None
  BY KnownFolder DEF CreateTask, listVars, nodeVars
<1>2. ASSUME NEW p \in placed', NEW d \in Of(lists[p[1]], {"fields"})
      PROVE  d \in has'[p[2]] \/ <<p[2], d>> \in excused
  <2>1. CASE p = <<f, t>>
    BY <1>1, <1>2, <2>1 DEF TypeOK
  <2>2. CASE p \in placed
    <3>1. has'[p[2]] = has[p[2]]
      BY <1>1, <2>2, PlacedAt DEF TypeOK
    <3> QED  BY <1>2, <2>2, <3>1 DEF FieldsReachTasks
  <2> QED  BY <1>1, <2>1, <2>2
<1> QED  BY <1>1, <1>2 DEF PlacedKnown, FieldsReachTasks

(* A task that arrives is excused from the fields it did not bring. *)
LEMMA ArriveFields ==
    ASSUME TypeOK, PlacedKnown, FieldsReachTasks, NEW t, NEW from, NEW to \in Folders, NEW leaves, Arrive(t, from, to, leaves)
    PROVE  PlacedKnown' /\ FieldsReachTasks'
<1> DEFINE T == Tree(from, t)
<1>1. /\ placed' = (placed \ (IF leaves THEN {from} \X T ELSE {})) \cup ({to} \X T)
      /\ excused' = excused \cup {p \in T \X Of(lists[to], {"fields"}) : p[2] \notin has[p[1]]}
      /\ UNCHANGED <<has, home, lists>> /\ home[to] # None
  BY KnownFolder DEF Arrive, listVars, nodeVars
<1> HIDE DEF T
<1>2. ASSUME NEW p \in placed', NEW d \in Of(lists[p[1]], {"fields"})
      PROVE  d \in has[p[2]] \/ <<p[2], d>> \in excused'
  <2>1. CASE p \in placed
    BY <1>1, <1>2, <2>1 DEF FieldsReachTasks
  <2>2. CASE p \in {to} \X T
    <3>1. p[1] = to /\ p[2] \in T
      BY <2>2
    <3>2. d \in has[p[2]] \/ <<p[2], d>> \in {q \in T \X Of(lists[to], {"fields"}) : q[2] \notin has[q[1]]}
      BY <1>2, <3>1
    <3> QED  BY <1>1, <3>2
  <2> QED  BY <1>1, <2>1, <2>2
<1>3. \A p \in placed' : home[p[1]] # None
  BY <1>1 DEF PlacedKnown
<1> QED  BY <1>1, <1>2, <1>3 DEF PlacedKnown, FieldsReachTasks

LEMMA AddTaskCustomFieldsFields ==
    ASSUME TypeOK, PlacedKnown, FieldsReachTasks, NEW t \in Tasks, NEW ins, NEW del, AddTaskCustomFields(t, ins, del)
    PROVE  PlacedKnown' /\ FieldsReachTasks'
<1> DEFINE new == [Added(t, ins) EXCEPT ![t] = @ \ del]
<1>1. /\ has' = new /\ excused' = {p \in excused \cup ({t} \X del) : p[2] \notin new[p[1]]}
      /\ UNCHANGED <<placed, home, lists>>
  BY DEF AddTaskCustomFields, listVars, nodeVars
<1>2. \A c \in Tasks : has[c] \subseteq Added(t, ins)[c]
  BY DEF Added
<1>3. \A c \in Tasks : c # t => has[c] \subseteq new[c]
  BY <1>2 DEF Added
<1>4. has[t] \ del \subseteq new[t]
  BY <1>2 DEF Added
<1> HIDE DEF new
<1>5. ASSUME NEW p \in placed, NEW d \in Of(lists[p[1]], {"fields"}), d \notin new[p[2]]
      PROVE  <<p[2], d>> \in excused'
  <2>1. p[2] \in Tasks /\ (d \in has[p[2]] \/ <<p[2], d>> \in excused)
    BY <1>5, PlacedAt DEF FieldsReachTasks
  <2>2. CASE d \in has[p[2]]
    <3>1. p[2] = t /\ d \in del
      BY <1>3, <1>4, <1>5, <2>1, <2>2
    <3>2. <<p[2], d>> \in {t} \X del
      BY <3>1
    <3> QED  BY <1>1, <1>5, <3>2
  <2>3. CASE <<p[2], d>> \in excused
    BY <1>1, <1>5, <2>3
  <2> QED  BY <2>1, <2>2, <2>3
<1> QED  BY <1>1, <1>5 DEF PlacedKnown, FieldsReachTasks

LEMMA InitFields == Init => PlacedKnown /\ FieldsReachTasks
<1> SUFFICES ASSUME Init PROVE PlacedKnown /\ FieldsReachTasks
  OBVIOUS
<1>1. PICK s \in Spaces, f \in Folders, t \in Tasks, K \in {{}, Kinds} :
        /\ f \notin Elsewhere
        /\ home = [g \in Folders |-> IF g = f THEN s ELSE None] /\ made = {s} /\ archived = {} /\ deleted = {}
        /\ lists = [x \in Nodes |-> IF x = s THEN Entries ELSE IF x = f THEN {e \in K \X Items : e[1] # "workflow"} ELSE {}]
        /\ own = {f} /\ strayed = [g \in Folders |-> {}] /\ withdrawn = [x \in Spaces |-> {}]
        /\ placed = {<<f, t>>} /\ over = [c \in Tasks |-> None]
        /\ has = [c \in Tasks |-> IF c = t THEN Of(K \X Items, {"fields"}) ELSE {}] /\ excused = {} /\ calls = 0
  BY DEF Init
<1>2. PlacedKnown
  BY <1>1, CatalogueAssumption DEF PlacedKnown, Nodes
<1>3. has[t] = Of(K \X Items, {"fields"}) /\ lists[f] \subseteq K \X Items
  BY <1>1, SpacesAndFolders DEF Nodes
<1>4. \A d \in Of(lists[f], {"fields"}) : d \in has[t]
  BY <1>3, ListsOf
<1>5. \A p \in placed : p[1] = f /\ p[2] = t
  BY <1>1
<1> QED  BY <1>2, <1>4, <1>5 DEF FieldsReachTasks

LEMMA StepFields == FieldInv /\ [Next]_vars => FieldInv'
<1> SUFFICES ASSUME TypeOK, PlacedKnown, FieldsReachTasks, [Next]_vars PROVE PlacedKnown' /\ FieldsReachTasks'
  BY StepType DEF FieldInv
<1>1. CASE Next
  <2>1. CASE \E s \in Spaces, S \in Lists : CreateSpace(s, S)
    BY <2>1, CreateSpaceFields
  <2>2. CASE \E s \in Spaces, f \in Folders, S \in Lists, mine \in BOOLEAN : CreateFolder(s, f, S, mine)
    BY <2>2, CreateFolderFields
  <2>3. CASE \E x \in Nodes, ins, del \in Lists, k \in {"tags", "fieldSets", "tagSets"} : UpdateLists(x, k, ins, del)
    BY <2>3, UpdateListsFields
  <2>4. CASE \E x \in Nodes, ins, del \in Lists : UpdateTeams(x, ins, del)
    BY <2>4, UpdateTeamsFields
  <2>5. CASE \E x \in Nodes, keep, drop \in Lists : SetFields(x, keep, drop)
    BY <2>5, SetFieldsFields
  <2>6. CASE \E f \in Folders, W \in Lists : ChangeWorkflow(f, W)
    BY <2>6, ChangeWorkflowFields
  <2>7. CASE \E s \in Spaces, ins, del \in Lists : UpdateOneSpaceWorkflows(s, ins, del)
    BY <2>7, SpaceWorkflowsFields
  <2>8. CASE \E x \in Nodes : Shelve(x) \/ Unshelve(x) \/ Undelete(x)
    BY <2>8, FieldsStay DEF Shelve, Unshelve, Undelete, listVars, taskVars
  <2>9. CASE \E f \in Folders : DeleteFolder(f)
    BY <2>9, FieldsStay DEF DeleteFolder, listVars, taskVars
  <2>10. CASE \E f \in Folders, s \in Spaces : MoveFolder(f, s)
    BY <2>10, MoveFolderFields
  <2>11. CASE \E s \in Spaces : DeleteOneSpace(s)
    BY <2>11, DeleteOneSpaceFields
  <2>12. CASE \E f, g \in Folders, s \in Spaces, withFields, withTags \in BOOLEAN : \E M :
                 Copies(M) /\ CopyFolder(f, g, s, withFields, withTags, M)
    BY <2>12, CopyFolderFields
  <2>13. CASE \E t \in Tasks, f \in Folders : \E p \in In(f) \cup {None} : CreateTask(t, f, p)
    BY <2>13, CreateTaskFields
  <2>14. CASE \E t \in Tasks, from, to \in Folders, leaves \in BOOLEAN : Arrive(t, from, to, leaves)
    BY <2>14, ArriveFields
  <2>15. CASE \E t \in Tasks, ins, del \in Lists : AddTaskCustomFields(t, ins, del)
    BY <2>15, AddTaskCustomFieldsFields
  <2> QED  BY <1>1, <2>1, <2>2, <2>3, <2>4, <2>5, <2>6, <2>7, <2>8, <2>9, <2>10, <2>11, <2>12, <2>13, <2>14, <2>15, Step
<1>2. CASE UNCHANGED vars
  BY <1>2, FieldsStay DEF vars, nodeVars, listVars, taskVars
<1> QED  BY <1>1, <1>2

(* FieldsReachTasks: whichever came first, the field or the task, each task of a folder has each
   field of the folder, but for those taken off it and those it did not bring. *)
THEOREM TasksGetFields == Spec => []FieldsReachTasks
<1>1. Init => FieldInv
  BY InitType, InitFields DEF FieldInv
<1>2. FieldInv => FieldsReachTasks
  BY DEF FieldInv
<1> QED  BY <1>1, <1>2, StepFields, PTL DEF Spec

-----------------------------------------------------------------------------
(* Shelf: for any users, folders, spaces, views and rows *)

(* The inductive invariant of Shelf: its types; OneEach with "at most one" said of the members; a
   view that is active is somebody's; and of each call that has read, that what it will write
   follows from what it read. *)
Places == Nat \cup {Absent}
Marking == [op : {"MARK"}, user : Readers, what : Shelved, next : Nat]
Numbering == [op : {"FAVOURITE"}, user : Readers, puts : [Shelved -> Places]]
Moving == [op : {"SPACE"}, user : Readers, what : SpacesOf, to : Nat, saw : [Shelved -> Places]]
Viewing == [op : {"VIEW"}, user : Readers, puts : [Views -> Places], saw : [Views -> Places \cup {Gone}]]
Writing == [op : {"CREATE", "UPDATE"}, what : Rows, mark : BOOLEAN, saw : SUBSET Rows]

ShelfType ==
    /\ place \in [Readers -> [Shelved -> Places]]
    /\ viewer \in [Views -> Readers \cup {Nobody}]
    /\ viewAt \in [Views -> Nat]
    /\ marked \subseteq Rows
    /\ reading \subseteq Marking \cup Numbering \cup Moving \cup Viewing \cup Writing
AtMostOne(S) == \A x, y \in S : x = y
OneMarked == ~doubled => AtMostOne(marked)
OneActive == \A u \in Readers \ borrowed : AtMostOne(active \cap Mine(u))
ActiveViewed == \A v \in active : v \in Views /\ viewer[v] # Nobody

(* the places that updatePosition makes of those it read *)
Moved(saw, v, k) ==
    [w \in Views |->
        CASE w = v -> k
          [] w # v /\ saw[w] # Absent /\ k > saw[v] /\ saw[w] \in saw[v]..k -> Larger(saw[w] - 1, 0)
          [] w # v /\ saw[w] # Absent /\ k <= saw[v] /\ saw[w] \in k..saw[v] -> saw[w] + 1
          [] OTHER -> Absent]
NumbersApart(r) == \A x, y \in Shelved : (x # y /\ r.puts[x] # Absent) => r.puts[x] # r.puts[y]
ViewsFollow(r) ==
    \/ \E w \in Views : r.saw[w] = Gone
    \/ \E v \in Views, k \in Nat : r.saw[v] # Absent /\ r.puts = Moved(r.saw, v, k)
MarkFree(r) == r.mark => (r.saw = {} \/ (r.op = "UPDATE" /\ r.what \in r.saw))
Follows(r) ==
    /\ r.op = "FAVOURITE" => NumbersApart(r)
    /\ r.op = "SPACE" /\ r.to # 0 => r.saw[r.what] # Absent
    /\ r.op = "VIEW" => ViewsFollow(r)
    /\ r.op \in {"CREATE", "UPDATE"} => MarkFree(r)
ReadingFollows == \A r \in reading : Follows(r)

ShelfInv == ShelfType /\ OneMarked /\ OneActive /\ ActiveViewed /\ ReadingFollows

LEMMA AtMostOneCounts ==
    ASSUME NEW S, AtMostOne(S)
    PROVE  Cardinality(S) <= 1
<1>1. CASE S = {}
  BY <1>1, FS_EmptySet
<1>2. CASE S # {}
  <2>1. PICK x : x \in S
    BY <1>2
  <2>2. S = {x}
    BY <2>1 DEF AtMostOne
  <2>3. Cardinality({x}) = 1
    BY FS_Singleton
  <2> QED  BY <2>2, <2>3
<1> QED  BY <1>1, <1>2

(* A finite set of numbers that is not empty has a largest one. *)
LEMMA Largest ==
    ASSUME NEW S \in SUBSET Nat, IsFiniteSet(S), S # {}
    PROVE  \E i \in S : \A j \in S : i >= j
<1> DEFINE HasLargest(U) == \E i \in U : \A j \in U : i >= j
           T == {U \in SUBSET S : U # {} /\ ~ HasLargest(U)}
           R == StrictSubsetOrdering(S)
<1>1. SUFFICES ASSUME S \in T  PROVE FALSE
  OBVIOUS
<1>2. IsWellFoundedOn(R, FiniteSubsetsOf(S))
  BY FS_StrictSubsetOrderingWellFounded
<1>3. T \subseteq FiniteSubsetsOf(S) /\ T # {}
  <2>1. \A U \in SUBSET S : IsFiniteSet(U)
    BY FS_Subset
  <2> QED  BY <1>1, <2>1 DEF FiniteSubsetsOf
<1>4. PICK U \in T : \A W \in T : ~ (<<W, U>> \in R)
  <2> HIDE DEF R, T
  <2> QED  BY <1>2, <1>3, WFMin
<1>5. PICK x \in U : TRUE
  OBVIOUS
<1>6. U \ {x} \notin T
  <2>1. U \in SUBSET S /\ U \ {x} \in SUBSET S /\ U \ {x} \subseteq U /\ U \ {x} # U
    BY <1>5
  <2>2. <<U \ {x}, U>> \in R
    BY <2>1 DEF StrictSubsetOrdering
  <2> QED  BY <1>4, <2>2
<1>7. HasLargest(U)
  <2>1. CASE U \ {x} = {}
    <3>1. \A j \in U : j = x
      BY <2>1
    <3> QED  BY <1>5, <3>1
  <2>2. CASE U \ {x} # {}
    <3>1. PICK i \in U \ {x} : \A j \in U \ {x} : i >= j
      BY <1>6, <2>2
    <3>2. CASE i >= x
      BY <3>1, <3>2
    <3>3. CASE ~ (i >= x)
      <4>1. \A j \in U : x >= j
        BY <1>5, <3>1, <3>3
      <4> QED  BY <1>5, <4>1
    <3> QED  BY <3>2, <3>3
  <2> QED  BY <2>1, <2>2
<1> QED  BY <1>4, <1>7

(* The next place is free. *)
LEMMA NextPlaceFree ==
    ASSUME ShelfType, NEW u \in Readers, NEW x \in Shelved
    PROVE  /\ NextPlace(u, x) \in Nat
           /\ \A y \in Shelved : Like(x) = Like(y) => place[u][y] # NextPlace(u, x)
<1> DEFINE F == Favourites(u) \cap Like(x)
           used == {place[u][y] : y \in F}
<1>1. F \subseteq Shelved /\ \A y \in F : place[u][y] \in Nat
  BY DEF ShelfType, Places, Favourites, Absent
<1>2. IsFiniteSet(used)
  <2>1. IsFiniteSet(F)
    BY <1>1, ShelfAssumption, FS_Subset
  <2> DEFINE at == [y \in F |-> place[u][y]]
  <2>2. at \in Surjection(F, used)
    BY DEF Surjection
  <2> HIDE DEF F, used, at
  <2> QED  BY <2>1, <2>2, FS_Surjection
<1>3. used \in SUBSET Nat
  BY <1>1
<1>4. \A y \in Shelved : (Like(x) = Like(y) /\ place[u][y] # Absent) => place[u][y] \in used
  BY DEF Favourites, Like
<1>5. NextPlace(u, x) = IF used = {} THEN 0 ELSE 1 + CHOOSE i \in used : \A j \in used : i >= j
  BY DEF NextPlace
<1> HIDE DEF used
<1>6. CASE used = {}
  BY <1>4, <1>5, <1>6 DEF Absent
<1>7. CASE used # {}
  <2>1. \E i \in used : \A j \in used : i >= j
    BY <1>2, <1>3, <1>7, Largest
  <2>2. PICK i \in used : i = (CHOOSE h \in used : \A j \in used : h >= j) /\ \A j \in used : i >= j
    BY <2>1
  <2>3. NextPlace(u, x) = 1 + i /\ i \in Nat
    BY <1>3, <1>5, <1>7, <2>2
  <2>5. i \in Nat /\ \A j \in used : j \in Nat /\ i >= j
    BY <1>3, <2>2, Zenon
  <2>4. \A j \in used : j # 1 + i
    BY <2>5
  <2> QED  BY <1>4, <2>3, <2>4 DEF Absent
<1> QED  BY <1>6, <1>7

-----------------------------------------------------------------------------
LEMMA InitShelf == ShelfInit => ShelfInv
BY DEF ShelfInit, ShelfInv, ShelfType, Places, OneMarked, OneActive, ActiveViewed, AtMostOne, ReadingFollows

(* What kind of record a call that has read left. *)
LEMMA RecordsKind ==
    ASSUME ShelfType, NEW r \in reading
    PROVE  /\ r.op = "MARK" => r \in Marking
           /\ r.op = "FAVOURITE" => r \in Numbering
           /\ r.op = "SPACE" => r \in Moving
           /\ r.op = "VIEW" => r \in Viewing
           /\ r.op \in {"CREATE", "UPDATE"} => r \in Writing
           /\ r.op \in {"MARK", "FAVOURITE", "SPACE", "VIEW", "CREATE", "UPDATE"}
<1>1. r \in Marking \/ r \in Numbering \/ r \in Moving \/ r \in Viewing \/ r \in Writing
  BY DEF ShelfType
<1>2. r \in Marking => r.op = "MARK"
  BY DEF Marking
<1>3. r \in Numbering => r.op = "FAVOURITE"
  BY DEF Numbering
<1>4. r \in Moving => r.op = "SPACE"
  BY DEF Moving
<1>5. r \in Viewing => r.op = "VIEW"
  BY DEF Viewing
<1>6. r \in Writing => r.op \in {"CREATE", "UPDATE"}
  BY DEF Writing
<1> QED  BY <1>1, <1>2, <1>3, <1>4, <1>5, <1>6

LEMMA FavouritesFinite ==
    ASSUME NEW u, NEW x
    PROVE  IsFiniteSet(Favourites(u) \ {x}) /\ Cardinality(Favourites(u) \ {x}) \in Nat
<1>1. Favourites(u) \ {x} \in SUBSET Shelved
  BY DEF Favourites
<1>2. IsFiniteSet(Favourites(u) \ {x})
  BY <1>1, ShelfAssumption, FS_Subset
<1> QED  BY <1>2, FS_CardinalityType

-----------------------------------------------------------------------------
(* What a call reads *)

LEMMA OrderRead ==
    ASSUME ShelfType, NEW u \in Readers, NEW x \in Shelved, NEW k \in 0..MaxAt, ReadOrder(u, x, k)
    PROVE  \E r \in Numbering : NumbersApart(r) /\ Reads(r)
<1> USE ShelfAssumption
<1> DEFINE rest == Favourites(u) \ {x}
           here == IF k > Cardinality(rest) THEN Cardinality(rest) ELSE k
<1>1. Cardinality(rest) \in Nat
  BY FavouritesFinite
<1>2. PICK at \in [rest -> 0..Cardinality(rest)] :
         /\ Apart(rest, at) /\ \A y \in rest : at[y] # here
         /\ Reads([op |-> "FAVOURITE", user |-> u,
                   puts |-> [y \in Shelved |-> IF y = x THEN here ELSE IF y \in rest THEN at[y] ELSE Absent]])
  BY DEF ReadOrder
<1> DEFINE puts == [y \in Shelved |-> IF y = x THEN here ELSE IF y \in rest THEN at[y] ELSE Absent]
           r == [op |-> "FAVOURITE", user |-> u, puts |-> puts]
<1> HIDE DEF rest
<1>3. here \in Nat /\ \A y \in rest : at[y] \in Nat
  BY <1>1
<1>4. here # Absent /\ \A y \in rest : at[y] # Absent
  BY <1>3 DEF Absent
<1> HIDE DEF here
<1>5. puts \in [Shelved -> Places]
  BY <1>3 DEF Places
<1>6. r \in Numbering
  BY <1>5 DEF Numbering
<1>7. NumbersApart(r)
  BY <1>2, <1>4 DEF NumbersApart, Apart
<1> QED  BY <1>2, <1>6, <1>7

LEMMA SpaceRead ==
    ASSUME ShelfType, NEW u \in Readers, NEW x \in Shelved, NEW k \in 0..MaxAt, ReadSpace(u, x, k)
    PROVE  \E r \in Moving : (r.to # 0 => r.saw[r.what] # Absent) /\ Reads(r)
<1> DEFINE r == [op |-> "SPACE", user |-> u, what |-> x, to |-> k, saw |-> place[u]]
<1>1. r \in Moving /\ Reads(r)
  BY ShelfAssumption DEF ReadSpace, Moving, ShelfType
<1>2. r.to # 0 => r.saw[r.what] # Absent
  BY DEF ReadSpace, Favourites
<1> QED  BY <1>1, <1>2

LEMMA ViewsRead ==
    ASSUME ShelfType, NEW u \in Readers, NEW v \in Views, NEW k \in 0..MaxAt, ReadViews(u, v, k)
    PROVE  \E r \in Viewing : ViewsFollow(r) /\ Reads(r)
<1> USE ShelfAssumption
<1> DEFINE saw == Ordered(u)
           r == [op |-> "VIEW", user |-> u, puts |-> Shifted(u, v, k), saw |-> saw]
<1>1. v \in Mine(u) /\ Reads(r) /\ k \in Nat /\ \A w \in Views : viewAt[w] \in Nat
  BY DEF ReadViews, ShelfType
<1>2. \A w \in Views : saw[w] = IF w \in Mine(u) THEN viewAt[w] ELSE Absent
  BY DEF Ordered
<1>3. saw \in [Views -> Places \cup {Gone}]
  BY <1>1 DEF Ordered, Places
<1>4. saw[v] = viewAt[v] /\ saw[v] # Absent
  BY <1>1, <1>2 DEF Absent, Mine
<1>5. \A w \in Views : w \in Mine(u) <=> saw[w] # Absent
  BY <1>1, <1>2 DEF Absent
<1> HIDE DEF saw
<1>6. Shifted(u, v, k) = Moved(saw, v, k)
  <2>1. \A w \in Views :
           (CASE w = v -> k
              [] w \in Mine(u) \ {v} /\ k > viewAt[v] /\ viewAt[w] \in viewAt[v]..k -> Larger(viewAt[w] - 1, 0)
              [] w \in Mine(u) \ {v} /\ k <= viewAt[v] /\ viewAt[w] \in k..viewAt[v] -> viewAt[w] + 1
              [] OTHER -> Absent)
           = (CASE w = v -> k
                [] w # v /\ saw[w] # Absent /\ k > saw[v] /\ saw[w] \in saw[v]..k -> Larger(saw[w] - 1, 0)
                [] w # v /\ saw[w] # Absent /\ k <= saw[v] /\ saw[w] \in k..saw[v] -> saw[w] + 1
                [] OTHER -> Absent)
    <3> TAKE w \in Views
    <3>1. CASE w = v
      BY <3>1
    <3>2. CASE w # v /\ w \notin Mine(u)
      <4>1. saw[w] = Absent
        BY <3>2, <1>5
      <4> QED  BY <3>2, <4>1
    <3>3. CASE w # v /\ w \in Mine(u)
      <4>1. saw[w] = viewAt[w] /\ saw[w] # Absent
        BY <3>3, <1>2, <1>5
      <4> QED  BY <3>3, <4>1, <1>4
    <3> QED  BY <3>1, <3>2, <3>3
  <2> QED  BY <2>1 DEF Shifted, Moved
<1>7. Shifted(u, v, k) \in [Views -> Places]
  <2>1. \A w \in Views : /\ viewAt[w] \in Places /\ viewAt[w] + 1 \in Places /\ k \in Places
                          /\ Larger(viewAt[w] - 1, 0) \in Places /\ Absent \in Places
    BY <1>1 DEF Larger, Places
  <2>2. \A w \in Views : Shifted(u, v, k)[w] \in {k, Larger(viewAt[w] - 1, 0), viewAt[w] + 1, Absent}
    BY DEF Shifted
  <2>3. Shifted(u, v, k) = [w \in Views |-> Shifted(u, v, k)[w]]
    BY DEF Shifted
  <2>4. \A w \in Views : Shifted(u, v, k)[w] \in Places
    BY <2>1, <2>2
  <2> QED  BY <2>3, <2>4
<1>8. r \in Viewing
  BY <1>3, <1>7 DEF Viewing
<1>9. ViewsFollow(r)
  BY <1>1, <1>4, <1>6 DEF ViewsFollow
<1> QED  BY <1>1, <1>8, <1>9

(* Whatever is read, the record is of its type and what it will write follows from it. *)
LEMMA ReadsFollow ==
    ASSUME ShelfType,
           \/ \E u \in Readers, x \in Shelved : ReadFavourites(u, x)
           \/ \E u \in Readers, x \in Shelved, k \in 0..MaxAt : ReadOrder(u, x, k) \/ ReadSpace(u, x, k)
           \/ \E u \in Readers, v \in Views, k \in 0..MaxAt : ReadViews(u, v, k)
           \/ \E x \in Rows, mark \in BOOLEAN : ReadMarked(x, mark) \/ ReadDefault(x, mark)
    PROVE  \E r \in Marking \cup Numbering \cup Moving \cup Viewing \cup Writing : Follows(r) /\ Reads(r)
<1>1. ASSUME NEW u \in Readers, NEW x \in Shelved, ReadFavourites(u, x)
      PROVE  \E r \in Marking : Follows(r) /\ Reads(r)
  <2> DEFINE r == [op |-> "MARK", user |-> u, what |-> x, next |-> NextPlace(u, x)]
  <2>1. r \in Marking
    BY NextPlaceFree DEF Marking
  <2>2. Follows(r)
    BY DEF Follows
  <2> QED  BY <1>1, <2>1, <2>2 DEF ReadFavourites
<1>2. ASSUME NEW u \in Readers, NEW x \in Shelved, NEW k \in 0..MaxAt, ReadOrder(u, x, k)
      PROVE  \E r \in Numbering : Follows(r) /\ Reads(r)
  <2>1. PICK r \in Numbering : NumbersApart(r) /\ Reads(r)
    BY <1>2, OrderRead
  <2>2. r.op = "FAVOURITE"
    BY DEF Numbering
  <2> QED  BY <2>1, <2>2 DEF Follows
<1>3. ASSUME NEW u \in Readers, NEW x \in Shelved, NEW k \in 0..MaxAt, ReadSpace(u, x, k)
      PROVE  \E r \in Moving : Follows(r) /\ Reads(r)
  <2>1. PICK r \in Moving : (r.to # 0 => r.saw[r.what] # Absent) /\ Reads(r)
    BY <1>3, SpaceRead
  <2>2. r.op = "SPACE"
    BY DEF Moving
  <2> QED  BY <2>1, <2>2 DEF Follows
<1>4. ASSUME NEW u \in Readers, NEW v \in Views, NEW k \in 0..MaxAt, ReadViews(u, v, k)
      PROVE  \E r \in Viewing : Follows(r) /\ Reads(r)
  <2>1. PICK r \in Viewing : ViewsFollow(r) /\ Reads(r)
    BY <1>4, ViewsRead
  <2>2. r.op = "VIEW"
    BY DEF Viewing
  <2> QED  BY <2>1, <2>2 DEF Follows
<1>5. ASSUME NEW x \in Rows, NEW mark \in BOOLEAN, ReadMarked(x, mark) \/ ReadDefault(x, mark)
      PROVE  \E r \in Writing : Follows(r) /\ Reads(r)
  <2>1. PICK r \in Writing : MarkFree(r) /\ Reads(r)
    BY <1>5 DEF ReadMarked, ReadDefault, Writing, ShelfType, MarkFree
  <2>2. r.op \in {"CREATE", "UPDATE"}
    BY DEF Writing
  <2> QED  BY <2>1, <2>2 DEF Follows
<1> QED  BY <1>1, <1>2, <1>3, <1>4, <1>5

-----------------------------------------------------------------------------
(* What other calls do to what was read *)

LEMMA UnmarkRead ==
    ASSUME NEW r \in Numbering, NumbersApart(r), NEW x \in Shelved
    PROVE  [r EXCEPT !.puts[x] = Absent] \in Numbering /\ Follows([r EXCEPT !.puts[x] = Absent])
<1> DEFINE s == [r EXCEPT !.puts[x] = Absent]
<1>1. r.puts \in [Shelved -> Places] /\ r.op = "FAVOURITE" /\ r.user \in Readers
  BY DEF Numbering
<1>2. s = [op |-> "FAVOURITE", user |-> r.user, puts |-> [r.puts EXCEPT ![x] = Absent]]
  BY DEF Numbering
<1>3. [r.puts EXCEPT ![x] = Absent] \in [Shelved -> Places]
  BY <1>1 DEF Places
<1>4. s \in Numbering /\ s.op = "FAVOURITE"
  BY <1>1, <1>2, <1>3 DEF Numbering
<1>5. \A y \in Shelved : s.puts[y] = IF y = x THEN Absent ELSE r.puts[y]
  BY <1>1, <1>2
<1>6. NumbersApart(s)
  BY <1>5 DEF NumbersApart
<1> HIDE DEF s
<1> QED  BY <1>4, <1>6 DEF Follows, s

LEMMA RemoveRead ==
    ASSUME NEW r \in Viewing, NEW v \in Views
    PROVE  [r EXCEPT !.saw[v] = Gone] \in Viewing /\ Follows([r EXCEPT !.saw[v] = Gone])
<1> DEFINE s == [r EXCEPT !.saw[v] = Gone]
<1>1. /\ r.puts \in [Views -> Places] /\ r.saw \in [Views -> Places \cup {Gone}]
      /\ r.op = "VIEW" /\ r.user \in Readers
  BY DEF Viewing
<1>2. s = [op |-> "VIEW", user |-> r.user, puts |-> r.puts, saw |-> [r.saw EXCEPT ![v] = Gone]]
  BY DEF Viewing
<1>3. [r.saw EXCEPT ![v] = Gone] \in [Views -> Places \cup {Gone}]
  BY <1>1 DEF Places
<1>4. s \in Viewing /\ s.op = "VIEW"
  BY <1>1, <1>2, <1>3 DEF Viewing
<1>5. s.saw[v] = Gone
  BY <1>1, <1>2
<1>6. ViewsFollow(s)
  BY <1>5 DEF ViewsFollow
<1> HIDE DEF s
<1> QED  BY <1>4, <1>6 DEF Follows, s

LEMMA StepReading ==
    ASSUME ShelfType, ReadingFollows, [ShelfNext]_shelfVars
    PROVE  /\ reading' \subseteq Marking \cup Numbering \cup Moving \cup Viewing \cup Writing
           /\ ReadingFollows'
<1> DEFINE Records == Marking \cup Numbering \cup Moving \cup Viewing \cup Writing
<1>0. \A r \in reading : r \in Records /\ Follows(r)
  BY DEF ShelfType, ReadingFollows
<1>1. SUFFICES \A r \in reading' : r \in Records /\ Follows(r)
  BY DEF ReadingFollows
<1>2. CASE reading' \subseteq reading
  BY <1>0, <1>2
<1>3. ASSUME \/ \E u \in Readers, x \in Shelved : ReadFavourites(u, x)
             \/ \E u \in Readers, x \in Shelved, k \in 0..MaxAt : ReadOrder(u, x, k) \/ ReadSpace(u, x, k)
             \/ \E u \in Readers, v \in Views, k \in 0..MaxAt : ReadViews(u, v, k)
             \/ \E x \in Rows, mark \in BOOLEAN : ReadMarked(x, mark) \/ ReadDefault(x, mark)
      PROVE  \A r \in reading' : r \in Records /\ Follows(r)
  <2>1. PICK c \in Records : Follows(c) /\ Reads(c)
    BY <1>3, ReadsFollow
  <2>2. reading' = reading \cup {c}
    BY <2>1 DEF Reads
  <2> HIDE DEF Records
  <2> QED  BY <1>0, <2>1, <2>2
<1>4. ASSUME NEW u \in Readers, NEW x \in Shelved, UnmarkFavourite(u, x)
      PROVE  \A r \in reading' : r \in Records /\ Follows(r)
  <2>1. ASSUME NEW r \in reading'  PROVE r \in Records /\ Follows(r)
    <3>1. PICK q \in reading :
             r = IF q.op = "FAVOURITE" /\ q.user = u THEN [q EXCEPT !.puts[x] = Absent] ELSE q
      BY <1>4, <2>1 DEF UnmarkFavourite
    <3>2. CASE q.op = "FAVOURITE" /\ q.user = u
      <4>1. q \in Numbering /\ NumbersApart(q)
        BY <1>0, <3>2, RecordsKind DEF Follows
      <4> QED  BY <3>1, <3>2, <4>1, UnmarkRead
    <3>3. CASE ~ (q.op = "FAVOURITE" /\ q.user = u)
      BY <1>0, <3>1, <3>3
    <3> QED  BY <3>2, <3>3
  <2> QED  BY <2>1
<1>5. ASSUME NEW v \in Views, RemoveView(v)
      PROVE  \A r \in reading' : r \in Records /\ Follows(r)
  <2>1. ASSUME NEW r \in reading'  PROVE r \in Records /\ Follows(r)
    <3>1. PICK q \in reading :
             r = IF q.op = "VIEW" /\ q.saw[v] # Absent THEN [q EXCEPT !.saw[v] = Gone] ELSE q
      BY <1>5, <2>1 DEF RemoveView
    <3>2. CASE q.op = "VIEW" /\ q.saw[v] # Absent
      <4>1. q \in Viewing
        BY <3>2, RecordsKind
      <4> QED  BY <3>1, <3>2, <4>1, RemoveRead
    <3>3. CASE ~ (q.op = "VIEW" /\ q.saw[v] # Absent)
      BY <1>0, <3>1, <3>3
    <3> QED  BY <3>2, <3>3
  <2> QED  BY <2>1
<1>6. ASSUME \/ \E u \in Readers, v \in Views : SetActive(u, v)
             \/ \E u \in Readers, v \in Views, k \in 0..MaxAt : CreateView(u, v, k)
             \/ \E v \in Views, k \in 0..MaxAt, on \in BOOLEAN : UpdateView(v, k, on)
             \/ \E x \in Rows : UpdateOneCode(x) \/ DeleteOne(x)
             \/ \E r \in reading :
                   \/ MarkFolderFavourite(r) \/ UpdateFavouritePosition(r) \/ UpdateFavouriteSpacePosition(r)
                   \/ UpdatePosition(r) \/ CreateOne(r) \/ UpdateOne(r) \/ Abandon(r)
             \/ UNCHANGED shelfVars
      PROVE  reading' \subseteq reading
  BY <1>6 DEF SetActive, CreateView, UpdateView, UpdateOneCode, DeleteOne, MarkFolderFavourite, UpdateFavouritePosition,
              UpdateFavouriteSpacePosition, UpdatePosition, CreateOne, UpdateOne, Abandon, shelfVars
<1> HIDE DEF Records
<1> QED  BY <1>2, <1>3, <1>4, <1>5, <1>6 DEF ShelfNext

-----------------------------------------------------------------------------
(* What a call writes *)

(* updateFavouritePosition leaves every favourite of the user where its reading put it. *)
LEMMA OrderWritten ==
    ASSUME ShelfType, NEW r \in reading, UpdateFavouritePosition(r)
    PROVE  /\ r \in Numbering
           /\ place' \in [Readers -> [Shelved -> Places]]
           /\ \A y \in Shelved : place'[r.user][y] = IF r.puts[y] = Absent THEN place[r.user][y] ELSE r.puts[y]
<1>1. r \in Numbering
  BY RecordsKind DEF UpdateFavouritePosition
<1>2. r.user \in Readers /\ r.puts \in [Shelved -> Places]
  BY <1>1 DEF Numbering
<1> DEFINE now == [y \in Shelved |-> IF r.puts[y] = Absent THEN place[r.user][y] ELSE r.puts[y]]
<1>3. place \in [Readers -> [Shelved -> Places]]
  BY DEF ShelfType
<1>4. now \in [Shelved -> Places]
  BY <1>2, <1>3
<1>5. place' = [place EXCEPT ![r.user] = now]
  BY <1>2, <1>3 DEF UpdateFavouritePosition
<1>6. \A y \in Shelved : now[y] = IF r.puts[y] = Absent THEN place[r.user][y] ELSE r.puts[y]
  OBVIOUS
<1> HIDE DEF now
<1> QED  BY <1>1, <1>2, <1>3, <1>4, <1>5, <1>6

(* The places that updateFavouriteSpacePosition gives, row being the new numbers of the others. *)
SpaceGoes(r, row) ==
    LET p == place[r.user] IN
    /\ Apart(Favourites(r.user) \ {r.what}, row)
    /\ \A y \in Shelved :
          place'[r.user][y] = IF p[y] = Absent THEN Absent
                              ELSE IF y = r.what THEN r.to
                              ELSE IF r.to = 0 THEN row[y]
                              ELSE IF r.saw[r.what] < p[y] /\ p[y] <= r.to THEN p[y] - 1
                              ELSE p[y]

LEMMA SpaceWritten ==
    ASSUME ShelfType, ReadingFollows, NEW r \in reading, UpdateFavouriteSpacePosition(r)
    PROVE  /\ r \in Moving
           /\ place' \in [Readers -> [Shelved -> Places]]
           /\ \A w \in Readers \ {r.user} : place'[w] = place[w]
           /\ \E row \in [Favourites(r.user) \ {r.what} -> Nat \ {0}] : SpaceGoes(r, row)
<1> DEFINE u == r.user
           x == r.what
           k == r.to
           rest == Favourites(u) \ {x}
           p == place[u]
<1>1. r \in Moving
  BY RecordsKind DEF UpdateFavouriteSpacePosition
<1>2. /\ u \in Readers /\ x \in Shelved /\ k \in Nat /\ p \in [Shelved -> Places]
      /\ (k # 0 => r.saw[x] \in Nat)
  <2>1. u \in Readers /\ x \in SpacesOf /\ k \in Nat /\ r.saw \in [Shelved -> Places]
    BY <1>1 DEF Moving
  <2>2. k # 0 => r.saw[x] # Absent
    BY <1>1 DEF ReadingFollows, Follows, Moving
  <2> QED  BY <2>1, <2>2, ShelfAssumption DEF ShelfType, Places
<1>3. Cardinality(rest) \in Nat
  BY FavouritesFinite
<1>4. \A y \in Shelved : y \in rest <=> (p[y] # Absent /\ y # x)
  BY DEF Favourites
<1>5. \A y \in rest : y \in Shelved /\ p[y] \in Nat
  BY <1>2 DEF Favourites, Places
<1>6. PICK row \in [rest -> 1..Cardinality(rest)] :
         /\ Apart(rest, row)
         /\ place' = [place EXCEPT ![u] = [y \in Shelved |->
                CASE p[y] = Absent -> Absent
                  [] p[y] # Absent /\ y = x -> k
                  [] y \in rest /\ k = 0 -> row[y]
                  [] y \in rest /\ k # 0 /\ r.saw[x] < p[y] /\ p[y] <= k -> p[y] - 1
                  [] OTHER -> p[y]]]
  BY <1>2 DEF UpdateFavouriteSpacePosition, ShelfType
<1> HIDE DEF rest, p, u, x, k
<1>7. \A y \in rest : row[y] \in Nat \ {0}
  BY <1>3
<1> DEFINE To(y) == IF p[y] = Absent THEN Absent
                    ELSE IF y = x THEN k
                    ELSE IF k = 0 THEN row[y]
                    ELSE IF r.saw[x] < p[y] /\ p[y] <= k THEN p[y] - 1
                    ELSE p[y]
           Case(y) == CASE p[y] = Absent -> Absent
                        [] p[y] # Absent /\ y = x -> k
                        [] y \in rest /\ k = 0 -> row[y]
                        [] y \in rest /\ k # 0 /\ r.saw[x] < p[y] /\ p[y] <= k -> p[y] - 1
                        [] OTHER -> p[y]
<1>8. ASSUME NEW y \in Shelved  PROVE Case(y) = To(y)
  <2>1. CASE p[y] = Absent
    BY <2>1, <1>4
  <2>2. CASE p[y] # Absent /\ y = x
    BY <2>2, <1>4
  <2>3. CASE y \in rest /\ k = 0
    BY <2>3, <1>4
  <2>4. CASE y \in rest /\ k # 0
    BY <2>4, <1>4
  <2> QED  BY <2>1, <2>2, <2>3, <2>4, <1>4
<1>9. \A y \in Shelved : To(y) \in Places
  <2>1. \A y \in rest : (k # 0 /\ r.saw[x] < p[y]) => p[y] - 1 \in Nat
    BY <1>2, <1>5 DEF u, x, k
  <2>2. k \in Nat
    BY <1>2
  <2> QED  BY <1>4, <1>5, <1>7, <2>1, <2>2 DEF Places
<1>10. place' = [place EXCEPT ![u] = [y \in Shelved |-> To(y)]]
  <2>1. [y \in Shelved |-> Case(y)] = [y \in Shelved |-> To(y)]
    BY <1>8
  <2> QED  BY <1>6, <2>1
<1> HIDE DEF To, Case
<1>11. /\ place' \in [Readers -> [Shelved -> Places]]
       /\ \A w \in Readers \ {u} : place'[w] = place[w]
       /\ \A y \in Shelved : place'[u][y] = To(y)
  BY <1>2, <1>9, <1>10 DEF ShelfType
<1>12. row \in [rest -> Nat \ {0}]
  BY <1>7
<1>13. SpaceGoes(r, row)
  BY <1>6, <1>11 DEF SpaceGoes, To, rest, p, u, x, k
<1> QED  BY <1>1, <1>11, <1>12, <1>13 DEF rest, u, x

(* updatePosition of views *)
LEMMA ViewsWritten ==
    ASSUME ShelfType, NEW r \in reading, UpdatePosition(r)
    PROVE  /\ r \in Viewing
           /\ viewAt' \in [Views -> Nat]
           /\ \A w \in Views : viewAt'[w] = IF r.puts[w] = Absent \/ r.saw[w] = Gone THEN viewAt[w] ELSE r.puts[w]
<1>1. r \in Viewing
  BY RecordsKind DEF UpdatePosition
<1>2. r.puts \in [Views -> Places]
  BY <1>1 DEF Viewing
<1>3. viewAt \in [Views -> Nat]
  BY DEF ShelfType
<1>4. viewAt' = [w \in Views |-> IF r.puts[w] = Absent \/ r.saw[w] = Gone THEN viewAt[w] ELSE r.puts[w]]
  BY DEF UpdatePosition
<1>5. \A w \in Views : viewAt'[w] = IF r.puts[w] = Absent \/ r.saw[w] = Gone THEN viewAt[w] ELSE r.puts[w]
  BY <1>4
<1>6. \A w \in Views : viewAt'[w] \in Nat
  BY <1>2, <1>3, <1>5 DEF Places
<1>7. viewAt' \in [Views -> Nat]
  BY <1>4, <1>6
<1> QED  BY <1>1, <1>5, <1>7

LEMMA ShelfStepTypes == ShelfInv /\ [ShelfNext]_shelfVars => ShelfType' /\ ReadingFollows'
<1> SUFFICES ASSUME ShelfInv, [ShelfNext]_shelfVars  PROVE ShelfType' /\ ReadingFollows'
  OBVIOUS
<1>0. ShelfType /\ ReadingFollows
  BY DEF ShelfInv
<1>1. /\ reading' \subseteq Marking \cup Numbering \cup Moving \cup Viewing \cup Writing
      /\ ReadingFollows'
  BY <1>0, StepReading
<1>2. SUFFICES place' \in [Readers -> [Shelved -> Places]] /\ viewer' \in [Views -> Readers \cup {Nobody}]
               /\ viewAt' \in [Views -> Nat] /\ marked' \subseteq Rows
  BY <1>1 DEF ShelfType
<1>t. /\ place \in [Readers -> [Shelved -> Places]] /\ viewer \in [Views -> Readers \cup {Nobody}]
      /\ viewAt \in [Views -> Nat] /\ marked \subseteq Rows
  BY <1>0 DEF ShelfType
<1>k. \A k \in 0..MaxAt : k \in Nat
  BY ShelfAssumption
<1> DEFINE Hold == place' \in [Readers -> [Shelved -> Places]] /\ viewer' \in [Views -> Readers \cup {Nobody}]
                   /\ viewAt' \in [Views -> Nat] /\ marked' \subseteq Rows
<1>3. ASSUME \/ \E u \in Readers, x \in Shelved : ReadFavourites(u, x)
             \/ \E u \in Readers, x \in Shelved, k \in 0..MaxAt : ReadOrder(u, x, k) \/ ReadSpace(u, x, k)
             \/ \E u \in Readers, v \in Views, k \in 0..MaxAt : ReadViews(u, v, k)
             \/ \E x \in Rows, mark \in BOOLEAN : ReadMarked(x, mark) \/ ReadDefault(x, mark)
      PROVE  Hold
  BY <1>0, <1>3, <1>t, ReadsFollow DEF Reads, favVars, viewVars, rowVars
<1>4. ASSUME NEW u \in Readers, NEW x \in Shelved, UnmarkFavourite(u, x)  PROVE Hold
  BY <1>4, <1>t DEF UnmarkFavourite, Places, viewVars, rowVars
<1>5. ASSUME NEW u \in Readers, NEW v \in Views, SetActive(u, v)  PROVE Hold
  BY <1>5, <1>t DEF SetActive, favVars, rowVars
<1>6. ASSUME NEW u \in Readers, NEW v \in Views, NEW k \in 0..MaxAt, CreateView(u, v, k)  PROVE Hold
  BY <1>6, <1>k, <1>t DEF CreateView, favVars, rowVars
<1>7. ASSUME NEW v \in Views, NEW k \in 0..MaxAt, NEW on \in BOOLEAN, UpdateView(v, k, on)  PROVE Hold
  BY <1>7, <1>k, <1>t DEF UpdateView, favVars, rowVars
<1>8. ASSUME NEW v \in Views, RemoveView(v)  PROVE Hold
  BY <1>8, <1>t DEF RemoveView, favVars, rowVars
<1>9. ASSUME NEW x \in Rows, UpdateOneCode(x) \/ DeleteOne(x)  PROVE Hold
  BY <1>9, <1>t DEF UpdateOneCode, DeleteOne, favVars, viewVars
<1>10. ASSUME NEW r \in reading, MarkFolderFavourite(r)  PROVE Hold
  <2>1. r.user \in Readers /\ r.what \in Shelved /\ r.next \in Nat
    BY <1>0, <1>10, RecordsKind DEF MarkFolderFavourite, Marking
  <2>2. place' = [place EXCEPT ![r.user][r.what] = r.next]
    BY <1>10 DEF MarkFolderFavourite
  <2>3. place' \in [Readers -> [Shelved -> Places]]
    BY <1>t, <2>1, <2>2 DEF Places
  <2> QED  BY <1>10, <1>t, <2>3 DEF MarkFolderFavourite, viewVars, rowVars
<1>11. ASSUME NEW r \in reading, UpdateFavouritePosition(r)  PROVE Hold
  <2>1. place' \in [Readers -> [Shelved -> Places]]
    BY <1>0, <1>11, OrderWritten
  <2> QED  BY <1>11, <1>t, <2>1 DEF UpdateFavouritePosition, viewVars, rowVars
<1>12. ASSUME NEW r \in reading, UpdateFavouriteSpacePosition(r)  PROVE Hold
  <2>1. place' \in [Readers -> [Shelved -> Places]]
    BY <1>0, <1>12, SpaceWritten
  <2> QED  BY <1>12, <1>t, <2>1 DEF UpdateFavouriteSpacePosition, viewVars, rowVars
<1>13. ASSUME NEW r \in reading, UpdatePosition(r)  PROVE Hold
  <2>1. viewAt' \in [Views -> Nat]
    BY <1>0, <1>13, ViewsWritten
  <2> QED  BY <1>13, <1>t, <2>1 DEF UpdatePosition, favVars, rowVars
<1>14. ASSUME NEW r \in reading, CreateOne(r) \/ UpdateOne(r)  PROVE Hold
  <2>1. r.what \in Rows
    BY <1>0, <1>14, RecordsKind DEF CreateOne, UpdateOne, Writing
  <2> QED  BY <1>14, <1>t, <2>1 DEF CreateOne, UpdateOne, favVars, viewVars
<1>15. ASSUME NEW r \in reading, Abandon(r)  PROVE Hold
  BY <1>15, <1>t DEF Abandon, favVars, viewVars, rowVars
<1>16. ASSUME UNCHANGED shelfVars  PROVE Hold
  BY <1>16, <1>t DEF shelfVars
<1> HIDE DEF Hold
<1>17. ASSUME ShelfNext  PROVE Hold
  <2>1. CASE \E r \in reading : \/ MarkFolderFavourite(r) \/ UpdateFavouritePosition(r) \/ UpdateFavouriteSpacePosition(r)
                              \/ UpdatePosition(r) \/ CreateOne(r) \/ UpdateOne(r) \/ Abandon(r)
    BY <1>10, <1>11, <1>12, <1>13, <1>14, <1>15, <2>1
  <2>2. CASE \/ \E v \in Views : RemoveView(v)
             \/ \E v \in Views, k \in 0..MaxAt, on \in BOOLEAN : UpdateView(v, k, on)
             \/ \E x \in Rows : UpdateOneCode(x) \/ DeleteOne(x)
    BY <1>7, <1>8, <1>9, <2>2
  <2>3. CASE \/ \E u \in Readers, x \in Shelved : UnmarkFavourite(u, x)
             \/ \E u \in Readers, v \in Views : SetActive(u, v)
             \/ \E u \in Readers, v \in Views, k \in 0..MaxAt : CreateView(u, v, k)
    BY <1>4, <1>5, <1>6, <2>3
  <2> QED  BY <1>3, <1>17, <2>1, <2>2, <2>3 DEF ShelfNext
<1>18. Hold
  BY <1>16, <1>17
<1> QED  BY <1>18 DEF Hold

LEMMA StepMarks == ShelfInv /\ [ShelfNext]_shelfVars => OneMarked'
<1> SUFFICES ASSUME ShelfInv, [ShelfNext]_shelfVars  PROVE OneMarked'
  OBVIOUS
<1>0. ShelfType /\ ReadingFollows /\ OneMarked
  BY DEF ShelfInv
<1>1. ASSUME marked' \subseteq marked, doubled' = doubled  PROVE OneMarked'
  BY <1>0, <1>1 DEF OneMarked, AtMostOne
<1>2. ASSUME NEW r \in reading, CreateOne(r) \/ UpdateOne(r)  PROVE OneMarked'
  <2>1. r.mark => (r.saw = {} \/ (UpdateOne(r) /\ r.what \in r.saw))
    BY <1>0, <1>2 DEF ReadingFollows, Follows, MarkFree, CreateOne, UpdateOne
  <2>2. /\ marked' \subseteq IF r.mark THEN marked \cup {r.what} ELSE marked
        /\ doubled' = (doubled \/ (r.mark /\ marked # r.saw))
    BY <1>2 DEF CreateOne, UpdateOne
  <2>3. ~ doubled' => ~ doubled /\ (r.mark => marked = r.saw)
    BY <2>2
  <2>4. ASSUME ~ doubled'  PROVE AtMostOne(marked')
    <3>1. AtMostOne(marked)
      BY <1>0, <2>3, <2>4 DEF OneMarked
    <3>2. CASE ~ r.mark
      BY <2>2, <3>1, <3>2 DEF AtMostOne
    <3>3. CASE r.mark
      <4>1. marked = {} \/ r.what \in marked
        BY <2>1, <2>3, <2>4, <3>3
      <4>2. \A y \in marked : y = r.what
        BY <3>1, <4>1 DEF AtMostOne
      <4> QED  BY <2>2, <3>3, <4>2 DEF AtMostOne
    <3> QED  BY <3>2, <3>3
  <2> QED  BY <2>4 DEF OneMarked
<1>3. ASSUME NEW x \in Rows, UpdateOneCode(x)  PROVE OneMarked'
  <2>1. marked' = marked \cup {x} /\ doubled' = (doubled \/ marked \ {x} # {})
    BY <1>3 DEF UpdateOneCode
  <2> QED  BY <2>1 DEF OneMarked, AtMostOne
<1>4. ASSUME \/ \E u \in Readers, x \in Shelved : ReadFavourites(u, x)
             \/ \E u \in Readers, x \in Shelved, k \in 0..MaxAt : ReadOrder(u, x, k) \/ ReadSpace(u, x, k)
             \/ \E u \in Readers, v \in Views, k \in 0..MaxAt : ReadViews(u, v, k)
             \/ \E x \in Rows, mark \in BOOLEAN : ReadMarked(x, mark) \/ ReadDefault(x, mark)
      PROVE  OneMarked'
  BY <1>0, <1>1, <1>4, ReadsFollow DEF Reads, rowVars
<1>5. ASSUME \/ \E u \in Readers, x \in Shelved : UnmarkFavourite(u, x)
             \/ \E u \in Readers, v \in Views : SetActive(u, v)
             \/ \E u \in Readers, v \in Views, k \in 0..MaxAt : CreateView(u, v, k)
             \/ \E v \in Views, k \in 0..MaxAt, on \in BOOLEAN : UpdateView(v, k, on)
             \/ \E v \in Views : RemoveView(v)
             \/ \E x \in Rows : DeleteOne(x)
             \/ \E r \in reading :
                   \/ MarkFolderFavourite(r) \/ UpdateFavouritePosition(r) \/ UpdateFavouriteSpacePosition(r)
                   \/ UpdatePosition(r) \/ Abandon(r)
             \/ UNCHANGED shelfVars
      PROVE  marked' \subseteq marked /\ doubled' = doubled
  BY <1>5 DEF UnmarkFavourite, SetActive, CreateView, UpdateView, RemoveView, DeleteOne, MarkFolderFavourite,
              UpdateFavouritePosition, UpdateFavouriteSpacePosition, UpdatePosition, Abandon, rowVars, shelfVars
<1> QED  BY <1>1, <1>2, <1>3, <1>4, <1>5 DEF ShelfNext

LEMMA StepActive == ShelfInv /\ [ShelfNext]_shelfVars => OneActive' /\ ActiveViewed'
<1> SUFFICES ASSUME ShelfInv, [ShelfNext]_shelfVars  PROVE OneActive' /\ ActiveViewed'
  OBVIOUS
<1>0. ShelfType
  BY DEF ShelfInv
<1> USE DEF ShelfInv, OneActive, ActiveViewed, AtMostOne, Mine
<1>t. viewer \in [Views -> Readers \cup {Nobody}]
  BY DEF ShelfType
<1>1. ASSUME UNCHANGED <<viewer, active, borrowed>>  PROVE OneActive' /\ ActiveViewed'
  BY <1>1
<1>2. ASSUME NEW u \in Readers, NEW v \in Views, SetActive(u, v)  PROVE OneActive' /\ ActiveViewed'
  <2>1. /\ active' = (active \ Mine(u)) \cup {v} /\ viewer' = viewer /\ viewer[v] # Nobody
        /\ borrowed' = IF viewer[v] # u THEN borrowed \cup {viewer[v]} ELSE borrowed \ {u}
    BY <1>2 DEF SetActive
  <2>2. ActiveViewed'
    BY <2>1
  <2>3. ASSUME NEW w \in Readers, w \notin borrowed', NEW a \in active', NEW b \in active',
               a \in Views, b \in Views, viewer[a] = w, viewer[b] = w
        PROVE  a = b
    <3>1. CASE w = u
      BY <2>1, <2>3, <3>1
    <3>2. CASE w # u
      BY <2>1, <2>3, <3>2
    <3> QED  BY <3>1, <3>2
  <2> QED  BY <2>1, <2>2, <2>3
<1>3. ASSUME NEW u \in Readers, NEW v \in Views, NEW k \in 0..MaxAt, CreateView(u, v, k)
      PROVE  OneActive' /\ ActiveViewed'
  <2>1. active' = active /\ borrowed' = borrowed /\ v \notin active
    BY <1>3 DEF CreateView
  <2>2. \A w \in Views \ {v} : viewer'[w] = viewer[w]
    BY <1>3, <1>t DEF CreateView
  <2> QED  BY <2>1, <2>2
<1>4. ASSUME NEW v \in Views, NEW k \in 0..MaxAt, NEW on \in BOOLEAN, UpdateView(v, k, on)
      PROVE  OneActive' /\ ActiveViewed'
  BY <1>4 DEF UpdateView
<1>5. ASSUME NEW v \in Views, RemoveView(v)  PROVE OneActive' /\ ActiveViewed'
  <2>1. active' = active \ {v} /\ borrowed' = borrowed
    BY <1>5 DEF RemoveView
  <2>2. \A w \in Views \ {v} : viewer'[w] = viewer[w]
    BY <1>5, <1>t DEF RemoveView
  <2> QED  BY <2>1, <2>2
<1>6. ASSUME \/ \E u \in Readers, x \in Shelved : ReadFavourites(u, x)
             \/ \E u \in Readers, x \in Shelved, k \in 0..MaxAt : ReadOrder(u, x, k) \/ ReadSpace(u, x, k)
             \/ \E u \in Readers, v \in Views, k \in 0..MaxAt : ReadViews(u, v, k)
             \/ \E x \in Rows, mark \in BOOLEAN : ReadMarked(x, mark) \/ ReadDefault(x, mark)
      PROVE  UNCHANGED <<viewer, active, borrowed>>
  BY <1>0, <1>6, ReadsFollow DEF Reads, viewVars
<1>7. ASSUME \/ \E u \in Readers, x \in Shelved : UnmarkFavourite(u, x)
             \/ \E x \in Rows : UpdateOneCode(x) \/ DeleteOne(x)
             \/ \E r \in reading :
                   \/ MarkFolderFavourite(r) \/ UpdateFavouritePosition(r) \/ UpdateFavouriteSpacePosition(r)
                   \/ UpdatePosition(r) \/ CreateOne(r) \/ UpdateOne(r) \/ Abandon(r)
             \/ UNCHANGED shelfVars
      PROVE  UNCHANGED <<viewer, active, borrowed>>
  BY <1>7 DEF UnmarkFavourite, UpdateOneCode, DeleteOne, MarkFolderFavourite, UpdateFavouritePosition,
              UpdateFavouriteSpacePosition, UpdatePosition, CreateOne, UpdateOne, Abandon, viewVars, shelfVars
<1> HIDE DEF ShelfInv, OneActive, ActiveViewed, AtMostOne, Mine
<1> QED  BY <1>1, <1>2, <1>3, <1>4, <1>5, <1>6, <1>7 DEF ShelfNext

(* In every state each variable of Shelf keeps its type, one row is marked, one view of a user
   active, what is active is somebody's, and what calls will write follows from what they read. *)
THEOREM ShelfInvariance == ShelfSpec => []ShelfInv
<1>1. ShelfInv /\ [ShelfNext]_shelfVars => ShelfInv'
  BY ShelfStepTypes, StepMarks, StepActive DEF ShelfInv
<1> QED  BY InitShelf, <1>1, PTL DEF ShelfSpec

(* Whatever users do at once, one importance at most is the default and one view at most of a
   user is active, but for what OneEach names: a row marked after the marks had changed that the
   call had read, a code given the stage later, a view that another user activated or that was
   written as active. *)
THEOREM OneOfEach == ShelfSpec => []OneEach
<1>1. ShelfInv => OneEach
  BY AtMostOneCounts DEF ShelfInv, OneMarked, OneActive, OneEach
<1> QED  BY ShelfInvariance, <1>1, PTL

-----------------------------------------------------------------------------
(* Places of favourites and of views *)

(* A call that has just marked, numbered or moved favourites, by a reading that still holds. *)
LEMMA MarkApart ==
    ASSUME ShelfType, NEW r \in reading, MarkFolderFavourite(r), ~ Stale(r), FavouritesApart(place, r.user)
    PROVE  FavouritesApart(place', r.user)
<1>1. r.op = "MARK" /\ r.user \in Readers /\ r.what \in Shelved /\ r.next \in Nat
  BY RecordsKind DEF MarkFolderFavourite, Marking
<1>2. r.next = NextPlace(r.user, r.what)
  BY <1>1 DEF Stale
<1>3. \A y \in Shelved : Like(r.what) = Like(y) => place[r.user][y] # r.next
  BY <1>1, <1>2, NextPlaceFree
<1>4. place' = [place EXCEPT ![r.user][r.what] = r.next] /\ place \in [Readers -> [Shelved -> Places]]
  BY DEF MarkFolderFavourite, ShelfType
<1>5. \A y \in Shelved : place'[r.user][y] = IF y = r.what THEN r.next ELSE place[r.user][y]
  BY <1>1, <1>4
<1> QED  BY <1>3, <1>5 DEF FavouritesApart

LEMMA OrderApart ==
    ASSUME ShelfType, ReadingFollows, NEW r \in reading, UpdateFavouritePosition(r), ~ Stale(r)
    PROVE  FavouritesApart(place', r.user)
<1>1. r.op = "FAVOURITE" /\ NumbersApart(r)
  BY DEF UpdateFavouritePosition, ReadingFollows, Follows
<1>2. \A y \in Shelved : place[r.user][y] # Absent => r.puts[y] # Absent
  BY <1>1 DEF Stale, Favourites
<1>3. \A y \in Shelved : place'[r.user][y] = IF r.puts[y] = Absent THEN place[r.user][y] ELSE r.puts[y]
  BY OrderWritten
<1>4. \A y \in Shelved : place'[r.user][y] = r.puts[y]
  BY <1>2, <1>3
<1> QED  BY <1>1, <1>4 DEF FavouritesApart, NumbersApart

(* What stood in order below o and up to k closes up on o, and leaves k free. *)
Closed(i, o, k) == IF o < i /\ i <= k THEN i - 1 ELSE i

LEMMA ClosesUp ==
    ASSUME NEW o \in Nat, NEW k \in Nat, o <= k
    PROVE  /\ \A i \in Nat : i # o => Closed(i, o, k) # k
           /\ \A i, j \in Nat : (i # j /\ (i # o \/ k = o) /\ (j # o \/ k = o)) => Closed(i, o, k) # Closed(j, o, k)
BY DEF Closed

LEMMA SpaceApart ==
    ASSUME ShelfType, ReadingFollows, NEW r \in reading, UpdateFavouriteSpacePosition(r),
           ~ Stale(r), ~ Meets(r), FavouritesApart(place, r.user)
    PROVE  FavouritesApart(place', r.user)
<1> DEFINE u == r.user
           x == r.what
           k == r.to
           p == place[u]
           q == place'[u]
           F == Favourites(u)
<1>1. PICK row \in [F \ {x} -> Nat \ {0}] : SpaceGoes(r, row)
  BY SpaceWritten
<1>2. /\ Apart(F \ {x}, row)
      /\ \A y \in Shelved :
            q[y] = IF p[y] = Absent THEN Absent
                   ELSE IF y = x THEN k
                   ELSE IF k = 0 THEN row[y]
                   ELSE IF r.saw[x] < p[y] /\ p[y] <= k THEN p[y] - 1
                   ELSE p[y]
  BY <1>1 DEF SpaceGoes
<1>3. /\ r.op = "SPACE" /\ u \in Readers /\ x \in SpacesOf /\ x \in Shelved /\ k \in Nat
      /\ (k # 0 => r.saw[x] # Absent)
  <2>1. r \in Moving
    BY SpaceWritten
  <2>2. r.op = "SPACE" /\ u \in Readers /\ x \in SpacesOf /\ k \in Nat
    BY <2>1 DEF Moving
  <2>3. k # 0 => r.saw[x] # Absent
    BY <2>2 DEF ReadingFollows, Follows
  <2> QED  BY <2>2, <2>3, ShelfAssumption
<1>4. p \in [Shelved -> Places]
  BY <1>3 DEF ShelfType
<1>5. /\ k # 0 => r.saw = p
      /\ k # 0 => ~ (k < r.saw[x]) /\ ~ (k > r.saw[x] /\ \E y \in F \ SpacesOf : p[y] = r.saw[x])
  BY <1>3 DEF Stale, Meets
<1>6. \A y \in Shelved : (y \in F <=> p[y] # Absent) /\ (y \in F => p[y] \in Nat)
  BY <1>4 DEF Favourites, Places
<1>7. \A y \in F : y \in Shelved
  BY DEF Favourites
<1>8. \A y, z \in Shelved : (y # z /\ Like(y) = Like(z) /\ p[y] # Absent) => p[y] # p[z]
  BY DEF FavouritesApart
<1>9. \A y, z \in Shelved : Like(y) = Like(z) => (y \in SpacesOf <=> z \in SpacesOf)
  BY DEF Like
<1>10. \A y, z \in Shelved : (y \in SpacesOf <=> z \in SpacesOf) => Like(y) = Like(z)
  BY DEF Like
<1> HIDE DEF p, q, u, x, k, F
<1>11. ASSUME NEW y \in Shelved, NEW z \in Shelved, y # z, Like(y) = Like(z), q[y] # Absent, q[y] = q[z]
       PROVE  FALSE
  <2>1. y \in F /\ z \in F
    BY <1>2, <1>6, <1>11
  <2>2. CASE k = 0
    <3>1. \A a \in F : q[a] = IF a = x THEN 0 ELSE row[a]
      BY <1>2, <1>6, <1>7, <2>2
    <3>2. \A a \in F \ {x} : row[a] # 0
      BY <1>1
    <3> QED  BY <1>2, <1>11, <2>1, <3>1, <3>2 DEF Apart
  <2>3. CASE k # 0
    <3> DEFINE o == p[x]
    <3>1. r.saw[x] = o /\ x \in F /\ o \in Nat /\ o <= k
      BY <1>3, <1>5, <1>6, <2>3
    <3>2. \A a \in F : q[a] = IF a = x THEN k ELSE IF o < p[a] /\ p[a] <= k THEN p[a] - 1 ELSE p[a]
      BY <1>2, <1>6, <1>7, <2>3, <3>1
    <3>3. k > o => \A a \in F : a \notin SpacesOf => p[a] # o
      BY <1>5, <2>3, <3>1
    <3>4. ASSUME NEW a \in F, a # x, a \in SpacesOf  PROVE p[a] # o
      <4>1. a \in Shelved /\ Like(a) = Like(x) /\ p[a] # Absent
        BY <1>3, <1>6, <1>7, <1>10, <3>4
      <4> QED  BY <1>3, <1>8, <3>4, <4>1
    <3>5. p[y] # p[z] /\ p[y] \in Nat /\ p[z] \in Nat
      BY <1>6, <1>8, <1>11, <2>1
    <3>6. (y = x => z \in SpacesOf) /\ (z = x => y \in SpacesOf)
      BY <1>3, <1>9, <1>11
    <3>7. \A a \in F : a # x => p[a] # o \/ (k = o /\ a \notin SpacesOf)
      BY <1>3, <3>1, <3>3, <3>4
    <3>8. q[y] = (IF y = x THEN k ELSE Closed(p[y], o, k)) /\ q[z] = (IF z = x THEN k ELSE Closed(p[z], o, k))
      BY <2>1, <3>2 DEF Closed
    <3>9. /\ \A i \in Nat : i # o => Closed(i, o, k) # k
          /\ \A i, j \in Nat : (i # j /\ (i # o \/ k = o) /\ (j # o \/ k = o)) => Closed(i, o, k) # Closed(j, o, k)
      BY <1>3, <3>1, ClosesUp
    <3>n. p[y] # p[z] /\ p[y] \in Nat /\ p[z] \in Nat /\ q[y] = q[z]
      BY <1>3, <1>11, <3>1, <3>5
    <3> HIDE DEF o
    <3>10. CASE y = x
      <4>1. z # x /\ p[z] # o
        BY <1>11, <2>1, <3>6, <3>7, <3>10
      <4> QED  BY <3>n, <3>8, <3>9, <3>10, <4>1
    <3>11. CASE z = x
      <4>1. y # x /\ p[y] # o
        BY <1>11, <2>1, <3>6, <3>7, <3>11
      <4> QED  BY <3>n, <3>8, <3>9, <3>11, <4>1
    <3>12. CASE y # x /\ z # x
      <4>1. (p[y] # o \/ k = o) /\ (p[z] # o \/ k = o)
        BY <2>1, <3>7, <3>12
      <4> QED  BY <3>n, <3>8, <3>9, <3>12, <4>1
    <3> QED  BY <3>10, <3>11, <3>12
  <2> QED  BY <2>2, <2>3
<1> QED  BY <1>11 DEF FavouritesApart, q, u

(* A move among the views of a user, that were apart and are where it read them, leaves them apart. *)
LEMMA ViewsApart ==
    ASSUME ShelfType, ReadingFollows, NEW r \in reading, UpdatePosition(r), ~ Stale(r), Apart(Mine(r.user), viewAt)
    PROVE  Apart(Mine(r.user), viewAt')
<1> DEFINE u == r.user
<1>1. r.op = "VIEW" /\ r.saw = Ordered(u) /\ \A w \in Views : viewAt[w] \in Nat
  BY DEF UpdatePosition, Stale, ShelfType
<1>2. \A w \in Views : r.saw[w] = IF w \in Mine(u) THEN viewAt[w] ELSE Absent
  BY <1>1 DEF Ordered
<1>3. \A w \in Views : r.saw[w] # Gone /\ (r.saw[w] # Absent <=> w \in Mine(u))
  BY <1>1, <1>2 DEF Absent, Gone
<1>4. PICK v \in Views, k \in Nat : r.saw[v] # Absent /\ r.puts = Moved(r.saw, v, k)
  BY <1>1, <1>3 DEF ReadingFollows, Follows, ViewsFollow
<1>5. v \in Mine(u) /\ \A w \in Mine(u) : w \in Views
  BY <1>3, <1>4 DEF Mine
<1> DEFINE old == viewAt[v]
<1>6. \A w \in Mine(u) : r.saw[w] = viewAt[w] /\ r.saw[w] # Absent /\ viewAt[w] \in Nat /\ (w # v => viewAt[w] # old)
  BY <1>1, <1>2, <1>3, <1>5 DEF Apart
<1>7. \A w \in Views : r.puts[w] =
        CASE w = v -> k
          [] w # v /\ r.saw[w] # Absent /\ k > r.saw[v] /\ r.saw[w] \in r.saw[v]..k -> Larger(r.saw[w] - 1, 0)
          [] w # v /\ r.saw[w] # Absent /\ k <= r.saw[v] /\ r.saw[w] \in k..r.saw[v] -> r.saw[w] + 1
          [] OTHER -> Absent
  BY <1>4 DEF Moved
<1>8. ASSUME NEW w \in Mine(u)
      PROVE  viewAt'[w] = IF w = v THEN k
                          ELSE IF old < viewAt[w] /\ viewAt[w] <= k THEN viewAt[w] - 1
                          ELSE IF k <= viewAt[w] /\ viewAt[w] < old THEN viewAt[w] + 1
                          ELSE viewAt[w]
  <2>1. w \in Views /\ viewAt'[w] = IF r.puts[w] = Absent THEN viewAt[w] ELSE r.puts[w]
    BY <1>3, <1>5, ViewsWritten
  <2>2. r.saw[w] = viewAt[w] /\ r.saw[w] # Absent /\ viewAt[w] \in Nat /\ old \in Nat /\ r.saw[v] = old
    BY <1>5, <1>6
  <2> HIDE DEF old
  <2>3. CASE w = v
    <3>1. r.puts[w] = k
      BY <1>7, <2>1, <2>3
    <3> QED  BY <1>4, <2>1, <2>3, <3>1 DEF Absent
  <2>4. CASE w # v /\ k > old /\ viewAt[w] \in old..k
    <3>1. r.puts[w] = Larger(viewAt[w] - 1, 0)
      BY <1>7, <2>1, <2>2, <2>4
    <3>2. viewAt[w] # old
      BY <1>6, <2>4 DEF old
    <3> QED  BY <1>4, <2>1, <2>2, <2>4, <3>1, <3>2 DEF Larger, Absent
  <2>5. CASE w # v /\ k <= old /\ viewAt[w] \in k..old
    <3>1. r.puts[w] = viewAt[w] + 1
      BY <1>4, <1>7, <2>1, <2>2, <2>5
    <3>2. viewAt[w] # old
      BY <1>6, <2>5 DEF old
    <3> QED  BY <1>4, <2>1, <2>2, <2>5, <3>1, <3>2 DEF Absent
  <2>6. CASE w # v /\ ~ (k > old /\ viewAt[w] \in old..k) /\ ~ (k <= old /\ viewAt[w] \in k..old)
    <3>1. r.puts[w] = Absent
      BY <1>7, <2>1, <2>2, <2>6
    <3> QED  BY <1>4, <2>1, <2>2, <2>6, <3>1
  <2> QED  BY <2>3, <2>4, <2>5, <2>6
<1>9. ASSUME NEW a \in Mine(u), NEW b \in Mine(u), a # b  PROVE viewAt'[a] # viewAt'[b]
  <2>1. viewAt[a] # viewAt[b] /\ viewAt[a] \in Nat /\ viewAt[b] \in Nat /\ old \in Nat
        /\ (a # v => viewAt[a] # old) /\ (b # v => viewAt[b] # old)
    BY <1>5, <1>6, <1>9 DEF Apart
  <2> HIDE DEF old
  <2> QED  BY <1>4, <1>8, <1>9, <2>1
<1> QED  BY <1>9 DEF Apart

(* Who read and reads no more has written, or was refused, or what it read was taken away; the
   places that PlacesApart is about keep apart in each case. *)
LEMMA StepPlaces ==
    ASSUME ShelfInv, ShelfNext
    PROVE  PlacesStep
<1>0. ShelfType /\ ReadingFollows
  BY DEF ShelfInv
<1>1. SUFFICES ASSUME NEW r \in reading, r \notin reading', ~ Stale(r), ~ Meets(r)
               PROVE  /\ r.op \in {"MARK", "FAVOURITE", "SPACE"} /\ FavouritesApart(place, r.user)
                         => FavouritesApart(place', r.user)
                      /\ r.op = "VIEW" /\ Apart(Mine(r.user), viewAt) => Apart(Mine(r.user)', viewAt')
  BY DEF PlacesStep
<1> DEFINE Hold == /\ r.op \in {"MARK", "FAVOURITE", "SPACE"} /\ FavouritesApart(place, r.user)
                      => FavouritesApart(place', r.user)
                   /\ r.op = "VIEW" /\ Apart(Mine(r.user), viewAt) => Apart(Mine(r.user)', viewAt')
<1>2. ASSUME UNCHANGED <<place, viewer, viewAt>>  PROVE Hold
  BY <1>2 DEF FavouritesApart, Apart, Mine
<1>3. ASSUME NEW s \in reading, s # r, reading' = reading \ {s}  PROVE FALSE
  BY <1>1, <1>3
<1>4. ASSUME NEW s \in reading, MarkFolderFavourite(s)  PROVE Hold
  <2>1. s = r /\ r.op = "MARK"
    BY <1>3, <1>4 DEF MarkFolderFavourite
  <2> QED  BY <1>0, <1>1, <1>4, <2>1, MarkApart
<1>5. ASSUME NEW s \in reading, UpdateFavouritePosition(s)  PROVE Hold
  <2>1. s = r /\ r.op = "FAVOURITE"
    BY <1>3, <1>5 DEF UpdateFavouritePosition
  <2> QED  BY <1>0, <1>1, <1>5, <2>1, OrderApart
<1>6. ASSUME NEW s \in reading, UpdateFavouriteSpacePosition(s)  PROVE Hold
  <2>1. s = r /\ r.op = "SPACE"
    BY <1>3, <1>6 DEF UpdateFavouriteSpacePosition
  <2> QED  BY <1>0, <1>1, <1>6, <2>1, SpaceApart
<1>7. ASSUME NEW s \in reading, UpdatePosition(s)  PROVE Hold
  <2>1. s = r /\ r.op = "VIEW" /\ viewer' = viewer
    BY <1>3, <1>7 DEF UpdatePosition
  <2>2. Mine(r.user)' = Mine(r.user)
    BY <2>1 DEF Mine
  <2> QED  BY <1>0, <1>1, <1>7, <2>1, <2>2, ViewsApart
<1>8. ASSUME NEW s \in reading, CreateOne(s) \/ UpdateOne(s) \/ Abandon(s)  PROVE Hold
  BY <1>2, <1>8 DEF CreateOne, UpdateOne, Abandon, favVars, viewVars
<1>9. ASSUME NEW u \in Readers, NEW x \in Shelved, UnmarkFavourite(u, x)  PROVE Hold
  <2>1. place' = [place EXCEPT ![u][x] = Absent] /\ UNCHANGED <<viewer, viewAt>> /\ place \in [Readers -> [Shelved -> Places]]
    BY <1>0, <1>9 DEF UnmarkFavourite, viewVars, ShelfType
  <2>2. r.op = "VIEW" /\ Apart(Mine(r.user), viewAt) => Apart(Mine(r.user)', viewAt')
    BY <2>1 DEF Apart, Mine
  <2>3. ASSUME r.op \in {"MARK", "FAVOURITE", "SPACE"}, FavouritesApart(place, r.user)  PROVE FavouritesApart(place', r.user)
    <3>1. r.user \in Readers
      BY <1>0, <2>3, RecordsKind DEF Marking, Numbering, Moving
    <3>2. \A y \in Shelved : place'[r.user][y] = IF r.user = u /\ y = x THEN Absent ELSE place[r.user][y]
      BY <2>1, <3>1
    <3> QED  BY <2>3, <3>2 DEF FavouritesApart
  <2> QED  BY <2>2, <2>3
<1>10. ASSUME NEW v \in Views, RemoveView(v)  PROVE Hold
  <2>1. /\ viewer' = [viewer EXCEPT ![v] = Nobody] /\ viewAt' = [viewAt EXCEPT ![v] = 0] /\ place' = place
        /\ viewer \in [Views -> Readers \cup {Nobody}] /\ viewAt \in [Views -> Nat]
    BY <1>0, <1>10 DEF RemoveView, favVars, ShelfType
  <2>2. FavouritesApart(place, r.user) => FavouritesApart(place', r.user)
    BY <2>1 DEF FavouritesApart
  <2>3. ASSUME r.op = "VIEW", Apart(Mine(r.user), viewAt)  PROVE Apart(Mine(r.user)', viewAt')
    <3>1. r.user \in Readers
      BY <1>0, <2>3, RecordsKind DEF Viewing
    <3>2. \A w \in Mine(r.user)' : w \in Views \ {v}
      BY <2>1, <3>1, ShelfAssumption DEF Mine
    <3>3. \A w \in Views \ {v} : viewer'[w] = viewer[w] /\ viewAt'[w] = viewAt[w]
      BY <2>1
    <3> QED  BY <2>3, <3>2, <3>3 DEF Apart, Mine
  <2> QED  BY <2>2, <2>3
<1>11. ASSUME \/ \E u \in Readers, x \in Shelved : ReadFavourites(u, x)
              \/ \E u \in Readers, x \in Shelved, k \in 0..MaxAt : ReadOrder(u, x, k) \/ ReadSpace(u, x, k)
              \/ \E u \in Readers, v \in Views, k \in 0..MaxAt : ReadViews(u, v, k)
              \/ \E x \in Rows, mark \in BOOLEAN : ReadMarked(x, mark) \/ ReadDefault(x, mark)
       PROVE  Hold
  <2>1. reading \subseteq reading'
    BY <1>0, <1>11, ReadsFollow DEF Reads
  <2> QED  BY <1>1, <2>1
<1>12. ASSUME \/ \E u \in Readers, v \in Views : SetActive(u, v)
              \/ \E u \in Readers, v \in Views, k \in 0..MaxAt : CreateView(u, v, k)
              \/ \E v \in Views, k \in 0..MaxAt, on \in BOOLEAN : UpdateView(v, k, on)
              \/ \E x \in Rows : UpdateOneCode(x)
       PROVE  Hold
  <2>1. reading' = reading
    BY <1>12 DEF SetActive, CreateView, UpdateView, UpdateOneCode
  <2> QED  BY <1>1, <2>1
<1>13. ASSUME NEW x \in Rows, DeleteOne(x)  PROVE Hold
  BY <1>2, <1>13 DEF DeleteOne, favVars, viewVars
<1> HIDE DEF Hold
<1>14. Hold
  BY <1>4, <1>5, <1>6, <1>7, <1>8, <1>9, <1>10, <1>11, <1>12, <1>13 DEF ShelfNext
<1> QED  BY <1>14 DEF Hold

(* No call puts two views of a user, or two favourites of a kind, in one place where there were
   none, whatever other calls do between its reading and its writing, but for a call whose reading
   is no more so when it writes, and for the space that meets another. *)
THEOREM PlacesStayApart == ShelfSpec => PlacesApart
<1>1. ShelfInv /\ [ShelfNext]_shelfVars => [PlacesStep]_shelfVars
  BY StepPlaces
<1> QED  BY ShelfInvariance, <1>1, PTL DEF ShelfSpec, PlacesApart
===============================================================================
