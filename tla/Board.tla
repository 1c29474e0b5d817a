------------------------------- MODULE Board -------------------------------
(***************************************************************************)
(* Where the tasks of some folders stand on their boards: the workflows of *)
(* workflow.service.ts, the workflow each folder uses, and, in the rows of *)
(* task_relation, the column (workflow state) of a task, its position      *)
(* among the tasks below the same parent (index) and its position in the   *)
(* column (stateIndex).                                                    *)
(*                                                                         *)
(* A task has one row per folder here; TaskTree says which calls give it   *)
(* two, and models archiving, deleting and unsharing, by which rows only   *)
(* leave.  The folders are in one space and none is archived.  A state's   *)
(* generated code stands for its id, which is as unique.  A call that      *)
(* throws, or whose rows the database refuses, rolls back and is no step.  *)
(***************************************************************************)
EXTENDS Integers, Sequences, Functions, Loops, Work

CONSTANTS
    Users,
    Workflows,   \* the ids of workflows
    States,      \* the ids of workflow states
    Trusted,     \* the users a constraint on a transition names
    Ops,         \* the calls that are made: subset of AllOps
    MaxColumns,  \* bound: states of a workflow
    MaxIndex,    \* bound: positions asked for
    MaxPlace,    \* bound: positions there are
    MaxRows      \* bound: rows of task_relation

AllOps == {"create", "position", "move", "share", "workflows"}

ASSUME NobodyAssumption == None \notin Users \cup States
ASSUME TrustedAssumption == Trusted \subseteq Users
ASSUME OpsAssumption == Ops \subseteq AllOps
ASSUME BoundsAssumption == MaxColumns \in Nat \ {0} /\ {MaxIndex, MaxPlace, MaxRows} \subseteq Nat

VARIABLES
    owner,    \* the rows of workflow: its user, None for a common one
    columns,  \* the rows of workflow_state: workflow and index
    lanes,    \* the rows of workflow_transition
    guarded,  \* the lanes with a constraint: only Trusted may use them
    offered,  \* the workflows in the list of the space
    flow,     \* the workflow of each folder
    rows      \* the rows of task_relation, by folder and task

vars == <<owner, columns, lanes, guarded, offered, flow, rows>>
flows == <<owner, columns, lanes, guarded, offered, flow>>

Parents == Tasks \cup {None}
Row == [parent : Parents, state : States, index : Int, stateIndex : Int]
ColumnsOf(w) == {s \in DOMAIN columns : columns[s].of = w}

(* The board of a folder shows a task when the state of its row is a column of the
   folder's workflow. *)
OnBoard(x) == columns[rows[x].state].of = flow[x[1]]

(* The check validate_workflow_state(folder_id, workflow_state_id) of task_relation,
   which PostgreSQL evaluates on each row that is written, and on no other: a folder
   or a state that changes below a row is not its business. *)
Checked ==
    \A x \in DOMAIN rows' :
       (IF x \in DOMAIN rows THEN rows'[x] # rows[x] ELSE TRUE) => OnBoard(x)'

Fits(R) ==
    /\ Cardinality(DOMAIN R) <= MaxRows
    /\ \A x \in DOMAIN R : {R[x].index, R[x].stateIndex} \subseteq 0..MaxPlace

(* The folders begin empty, on a common workflow without constraints. *)
Init ==
    /\ \E w \in Workflows, q \in UNION {[1..n -> States] : n \in 1..MaxColumns} :
          /\ IsInjective(q)
          /\ owner = [v \in {w} |-> None]
          /\ columns = [s \in Range(q) |-> [of |-> w, at |-> AntiFunction(q)[s] - 1]]
          /\ lanes = {l \in Range(q) \X Range(q) : l[1] # l[2]}
          /\ offered = {w}
          /\ flow = [f \in Folders |-> w]
    /\ guarded = {}
    /\ rows = << >>

-----------------------------------------------------------------------------
(* Positions.  R is a table of rows, fld is "index" or "stateIndex". *)
With(R, S, fld, n) == [x \in DOMAIN R |-> IF x \in S THEN [R[x] EXCEPT ![fld] = n[x]] ELSE R[x]]
Shift(R, S, fld, by) == With(R, S, fld, [x \in S |-> R[x][fld] + by])

(* row_number() over (order by fld): equal positions come in any order. *)
RowNumbers(R, S, fld) ==
    {n \in Bijection(S, 1..Cardinality(S)) :
        \A x, y \in S : R[x][fld] < R[y][fld] => n[x] < n[y]}

(* The rows of a task get its new position in every folder it is in. *)
Everywhere(R, t, fld, k) ==
    LET S == {x \in DOMAIN R : x[2] = t} IN With(R, S, fld, [x \in S |-> k])

Siblings(R, f, p, t) == {x \in DOMAIN R : x[1] = f /\ x[2] # t /\ R[x].parent = p}
InColumn(R, S, s)    == {x \in S : R[x].state = s}

PlaceShort(R, S, fld, k, old) ==   \* mutant: the task at the new position stays there
    IF k = 0 THEN {With(R, S, fld, n) : n \in RowNumbers(R, S, fld)}
    ELSE IF k > old THEN {Shift(R, {x \in S : R[x][fld] \in (old + 1)..(k - 1)}, fld, -1)}
    ELSE {Shift(R, {x \in S : R[x][fld] \in k..(old - 1)}, fld, 1)}

(* The others of a list make room for one that goes from old to k. *)
Place(R, S, fld, k, old) ==
    IF k = 0 THEN {With(R, S, fld, n) : n \in RowNumbers(R, S, fld)}
    ELSE IF k > old THEN {Shift(R, {x \in S : R[x][fld] \in (old + 1)..k}, fld, -1)}
    ELSE {Shift(R, {x \in S : R[x][fld] \in k..(old - 1)}, fld, 1)}

UpdateTaskSiblings(R, p, f, k, t, old) ==
    Place(Everywhere(R, t, "index", k), Siblings(R, f, p, t), "index", k, old)

KeepGap(R, S, T, k, old) ==   \* mutant: the column it leaves is not closed up
    IF k = 0 THEN {With(R, T, "stateIndex", n) : n \in RowNumbers(R, T, "stateIndex")} ELSE {R}

(* Between columns the old one is closed up.  In the new one all are renumbered for
   position 0; for another it is the old position from which room is made. *)
ChangeColumn(R, S, T, k, old) ==
    IF k = 0
    THEN {With(R2, T, "stateIndex", n) :
             R2 \in {Shift(R, {x \in S : R[x].stateIndex >= old}, "stateIndex", -1)},
             n \in RowNumbers(R, T, "stateIndex")}
    ELSE {Shift(Shift(R, {x \in S : R[x].stateIndex > old}, "stateIndex", -1),
                {x \in T : R[x].stateIndex >= old}, "stateIndex", 1)}

UpdateFolderWorkflowStateSiblings(R, p, f, k, t, to, old, from) ==
    LET M == Everywhere(R, t, "stateIndex", k)
        S == InColumn(R, Siblings(R, f, p, t), from)
        T == InColumn(R, Siblings(R, f, p, t), to)
    IN  IF to = from THEN Place(M, T, "stateIndex", k, old) ELSE ChangeColumn(M, S, T, k, old)

Added(R, x, row) == [y \in DOMAIN R \cup {x} |-> IF y = x THEN row ELSE R[y]]

(* What create and share do with a row they have just saved. *)
Saved(R, f, t, k) ==
    UNION {UpdateFolderWorkflowStateSiblings(R2, R[<<f, t>>].parent, f, 0, t,
                                             R[<<f, t>>].state, 0, R[<<f, t>>].state) :
              R2 \in UpdateTaskSiblings(R, R[<<f, t>>].parent, f, k, t, k)}

-----------------------------------------------------------------------------
(* create: the state is the one the caller names. *)
Create(t, f, p, s, k) ==
    /\ \A x \in DOMAIN rows : x[2] # t
    /\ p = None \/ \E x \in DOMAIN rows : x[2] = p
    /\ LET row == [parent |-> p, state |-> s, index |-> k, stateIndex |-> 0]
       IN  rows' \in Saved(Added(rows, <<f, t>>, row), f, t, k)
    /\ UNCHANGED flows
    /\ Checked /\ Fits(rows')

(* updatePosition, part one: the task stays in its column or takes a transition. *)
Columned(f, t, to, k, board) ==
    LET r == rows[<<f, t>>]
        moved == [rows EXCEPT ![<<f, t>>].state = to]
    IN  IF to = r.state
        THEN UNION {UpdateTaskSiblings(R, r.parent, f, k, t, r.index) :
                       R \in IF board
                             THEN UpdateFolderWorkflowStateSiblings(rows, r.parent, f, k, t, to,
                                                                    r.stateIndex, to)
                             ELSE {rows}}
        ELSE UpdateFolderWorkflowStateSiblings(moved, r.parent, f, k, t, to, r.stateIndex, r.state)

MayTake(t, f, u, to) ==
    /\ <<f, t>> \in DOMAIN rows
    /\ OnBoard(<<f, t>>)
    /\ LET from == rows[<<f, t>>].state IN
       to # from => <<from, to>> \in lanes /\ (<<from, to>> \in guarded => u \in Trusted)

(* Without parents in the call there is no more to it. *)
UpdatePosition(t, f, u, to, k, board) ==
    /\ MayTake(t, f, u, to)
    /\ rows' \in Columned(f, t, to, k, board)
    /\ UNCHANGED flows
    /\ Checked /\ Fits(rows')

(* Part two: the task goes below the new parent, or to the root from below another.
   That the new parent is the old one is not looked at.  Room is made from the
   position the task had before part one, except at the root. *)
Hung(R, f, t, k, new) ==
    LET M == [R EXCEPT ![<<f, t>>].parent = new]
    IN  UpdateTaskSiblings(M, new, f, k, t, IF new = None THEN R[<<f, t>>].index
                                            ELSE rows[<<f, t>>].index)

UpdatePositionAndParent(t, f, u, to, k, board, new) ==
    /\ MayTake(t, f, u, to)
    /\ new # t
    /\ new = None => rows[<<f, t>>].parent # None
    /\ \E R \in Columned(f, t, to, k, board) : rows' \in Hung(R, f, t, k, new)
    /\ UNCHANGED flows
    /\ Checked /\ Fits(rows')

(* The task and its subtasks in a folder. *)
Tree(f, t) ==
    LET closed == {T \in SUBSET Tasks : \A c \in Tasks :
                      <<f, c>> \in DOMAIN rows /\ rows[<<f, c>>].parent \in T => c \in T}
    IN  {c \in Tasks : \A T \in closed : t \in T => c \in T}

(* moveBetweenFolders of one task: the state is the one its code is mapped to, and
   the subtasks get the same. *)
MoveBetweenFolders(t, from, to, s) ==
    /\ from # to
    /\ <<from, t>> \in DOMAIN rows
    /\ LET tree == Tree(from, t)
           gone == {from} \X tree
           new(c) == [rows[<<from, c>>] EXCEPT !.state = s, !.stateIndex = columns[s].at,
                                               !.parent = IF c = t THEN None ELSE @]
       IN  /\ \A c \in tree : <<to, c>> \notin DOMAIN rows
           /\ rows' = [x \in (DOMAIN rows \ gone) \cup ({to} \X tree) |->
                          IF x \in {to} \X tree THEN new(x[2]) ELSE rows[x]]
    /\ UNCHANGED flows
    /\ Checked /\ Fits(rows')

(* share: the task, then its subtasks, each saved anew at position 0 of its list. *)
Share(t, from, to, s) ==
    /\ from # to
    /\ <<from, t>> \in DOMAIN rows
    /\ LET tree == Tree(from, t)
           visits == {v \in Bijection(1..Cardinality(tree), tree) :
                         \A i \in DOMAIN v : v[i] = t \/ \E j \in 1..(i - 1) : v[j] = rows[<<from, v[i]>>].parent}
           row(c) == [parent |-> IF c = t THEN None ELSE rows[<<from, c>>].parent,
                      state |-> s, index |-> 0, stateIndex |-> 0]
           Shared(Rs, c) == UNION {Saved(Added(R, <<to, c>>, row(c)), to, c, 0) : R \in Rs}
       IN  \E v \in visits :
             LET go[i \in 0..Len(v)] == IF i = 0 THEN {rows} ELSE Shared(go[i - 1], v[i])
             IN  rows' \in go[Len(v)]
    /\ UNCHANGED flows
    /\ Checked /\ Fits(rows')

-----------------------------------------------------------------------------
(* New states of a workflow, in their order; a transition to each that the state
   names, or to all others when it names none; constraints go with the target. *)
NewStates == {q \in UNION {[1..n -> States \ DOMAIN columns] : n \in 1..MaxColumns} : IsInjective(q)}
NewColumns(w, q) == [s \in Range(q) |-> [of |-> w, at |-> AntiFunction(q)[s] - 1]]
NewLanes(q, names) ==
    {<<a, b>> : a \in Range(q), b \in Range(q)} \cap
    {l \in States \X States : l[1] # l[2] /\ (names[l[1]] = {} \/ l[2] \in names[l[1]])}
Swimlanes(q) == {n \in [Range(q) -> SUBSET Range(q)] : \A s \in Range(q) : s \notin n[s]}

CreateWorkflow(w, by, q, names, constrained) ==
    /\ w \notin DOMAIN owner
    /\ owner' = [v \in DOMAIN owner \cup {w} |-> IF v = w THEN by ELSE owner[v]]
    /\ columns' = [s \in DOMAIN columns \cup Range(q) |->
                      IF s \in Range(q) THEN NewColumns(w, q)[s] ELSE columns[s]]
    /\ lanes' = lanes \cup NewLanes(q, names)
    /\ guarded' = guarded \cup {l \in NewLanes(q, names) : l[2] \in constrained}
    /\ UNCHANGED <<offered, flow, rows>>

(* CreateCommonFromPersonaliseWorkflow: the transitions are copied by code, the
   constraints are not; a state without a transition gets all. *)
CreateCommonFromPersonalise(w, v, u, q) ==
    /\ v \in DOMAIN owner
    /\ owner[v] = u
    /\ Len(q) = Cardinality(ColumnsOf(v))
    /\ LET like(s) == CHOOSE r \in ColumnsOf(v) : columns[r].at = NewColumns(w, q)[s].at
           names == [s \in Range(q) |-> {r \in Range(q) : <<like(s), like(r)>> \in lanes}]
       IN  CreateWorkflow(w, None, q, names, {})

(* One step of the mapping of updateWorkflowState.  A source code the workflow does
   not have is a condition on an undefined id, which the find leaves out. *)
Remapped(R, m, old) ==
    [x \in DOMAIN R |-> IF m[1] \notin old \/ R[x].state = m[1]
                        THEN [R[x] EXCEPT !.state = m[2]] ELSE R[x]]

(* updateWorkflowState with states: old ones go once no row is in them.  A mapping
   to a state that is not there throws as soon as there is a row to map. *)
UpdateWorkflow(w, q, names, constrained, mapping) ==
    /\ w \in DOMAIN owner
    /\ LET old == ColumnsOf(w)
           kept == {l \in lanes : l[1] \notin old}
       IN  /\ rows' = Loop([i \in DOMAIN mapping |-> [R \in [DOMAIN rows -> Row] |-> Remapped(R, mapping[i], old)]], rows)
           /\ \A x \in DOMAIN rows' : rows'[x].state \notin old
           /\ columns' = [s \in (DOMAIN columns \ old) \cup Range(q) |->
                             IF s \in Range(q) THEN NewColumns(w, q)[s] ELSE columns[s]]
           /\ lanes' = kept \cup NewLanes(q, names)
           /\ guarded' = (guarded \cap kept) \cup {l \in NewLanes(q, names) : l[2] \in constrained}
    /\ UNCHANGED <<owner, offered, flow>>
    /\ Checked

(* The mappings one may send: old codes, or one the workflow lacks, to new states. *)
Mappings(w, q) ==
    UNION {[1..n -> (ColumnsOf(w) \cup {None}) \X Range(q)] : n \in 0..Cardinality(ColumnsOf(w))}

(* deleteWorkFlow: refused for a workflow a folder uses, and by the foreign keys of
   the list of the space, of the rows in its states and of constraints. *)
DeleteWorkflow(w) ==
    /\ w \in DOMAIN owner
    /\ \A f \in Folders : flow[f] # w
    /\ w \notin offered
    /\ \A x \in DOMAIN rows : rows[x].state \notin ColumnsOf(w)
    /\ \A l \in guarded : l[1] \notin ColumnsOf(w)
    /\ owner' = Restrict(owner, DOMAIN owner \ {w})
    /\ columns' = Restrict(columns, DOMAIN columns \ ColumnsOf(w))
    /\ lanes' = {l \in lanes : l[1] \notin ColumnsOf(w)}
    /\ UNCHANGED <<guarded, offered, flow, rows>>

(* updateOneSpaceWorkflows: whether a folder uses one taken off is not looked at. *)
UpdateSpaceWorkflows(add, drop) ==
    /\ add \subseteq DOMAIN owner \ offered
    /\ offered' = (offered \cup add) \ drop
    /\ UNCHANGED <<owner, columns, lanes, guarded, flow, rows>>

ChangeRootsOnly(f, w, u, mapping) ==   \* mutant: subtasks are not mapped
    LET mapped == {x \in DOMAIN rows : x[1] = f /\ OnBoard(x) /\ mapping # << >> /\ rows[x].parent = None}
    IN  /\ w \in DOMAIN owner
        /\ w \in offered \/ owner[w] = u
        /\ \A x \in mapped : rows[x].state \in DOMAIN mapping
        /\ flow' = [flow EXCEPT ![f] = w]
        /\ rows' = [x \in DOMAIN rows |-> IF x \in mapped THEN [rows[x] EXCEPT !.state = mapping[@]] ELSE rows[x]]
        /\ UNCHANGED <<owner, columns, lanes, guarded, offered>>
        /\ Checked

(* changeWorkflow to one the space offers, or to a personal one.  With a mapping,
   each row in a state of the old workflow must be mapped; without, all stay. *)
ChangeWorkflow(f, w, u, mapping) ==
    LET mapped == {x \in DOMAIN rows : x[1] = f /\ OnBoard(x) /\ mapping # << >>}
    IN  /\ w \in DOMAIN owner
        /\ w \in offered \/ owner[w] = u
        /\ \A x \in mapped : rows[x].state \in DOMAIN mapping
        /\ flow' = [flow EXCEPT ![f] = w]
        /\ rows' = [x \in DOMAIN rows |-> IF x \in mapped THEN [rows[x] EXCEPT !.state = mapping[@]] ELSE rows[x]]
        /\ UNCHANGED <<owner, columns, lanes, guarded, offered>>
        /\ Checked

CodeMaps(f, w) == UNION {[S -> ColumnsOf(w)] : S \in SUBSET ColumnsOf(flow[f])}

-----------------------------------------------------------------------------
Next ==
    \/ /\ "create" \in Ops
       /\ \E t \in Tasks, f \in Folders, p \in Parents, s \in DOMAIN columns, k \in 0..MaxIndex :
             Create(t, f, p, s, k)
    \/ /\ "position" \in Ops
       /\ \E t \in Tasks, f \in Folders, u \in Users, to \in DOMAIN columns, k \in 0..MaxIndex,
             board \in BOOLEAN :
             \/ UpdatePosition(t, f, u, to, k, board)
             \/ \E new \in {p \in Parents : p = None \/ \E x \in DOMAIN rows : x[2] = p} :
                   UpdatePositionAndParent(t, f, u, to, k, board, new)
    \/ /\ "move" \in Ops
       /\ \E t \in Tasks, from, to \in Folders, s \in DOMAIN columns : MoveBetweenFolders(t, from, to, s)
    \/ /\ "share" \in Ops
       /\ \E t \in Tasks, from, to \in Folders, s \in DOMAIN columns : Share(t, from, to, s)
    \/ /\ "workflows" \in Ops
       /\ \/ \E w \in Workflows, by \in Users \cup {None}, q \in NewStates :
                \E names \in Swimlanes(q), constrained \in SUBSET Range(q) :
                   CreateWorkflow(w, by, q, names, constrained)
          \/ \E w, v \in Workflows, u \in Users, q \in NewStates :
                CreateCommonFromPersonalise(w, v, u, q)
          \/ \E w \in Workflows, q \in NewStates :
                \E names \in Swimlanes(q), constrained \in SUBSET Range(q), mapping \in Mappings(w, q) :
                   UpdateWorkflow(w, q, names, constrained, mapping)
          \/ \E w \in Workflows : DeleteWorkflow(w)
          \/ \E add, drop \in SUBSET Workflows : UpdateSpaceWorkflows(add, drop)
          \/ \E f \in Folders, w \in Workflows, u \in Users : \E mapping \in CodeMaps(f, w) :
                ChangeWorkflow(f, w, u, mapping)

Spec == Init /\ [][Next]_vars

-----------------------------------------------------------------------------
(* Every variable has its type: what refers to a state or a workflow refers to one
   that is there, and a transition joins two states of one workflow. *)
TypeOK ==
    /\ owner \in [DOMAIN owner -> Users \cup {None}] /\ DOMAIN owner \subseteq Workflows
    /\ columns \in [DOMAIN columns -> [of : DOMAIN owner, at : Nat]] /\ DOMAIN columns \subseteq States
    /\ lanes \subseteq (DOMAIN columns) \X (DOMAIN columns)
    /\ \A l \in lanes : columns[l[1]].of = columns[l[2]].of
    /\ guarded \subseteq lanes
    /\ offered \subseteq DOMAIN owner
    /\ flow \in [Folders -> DOMAIN owner]
    /\ rows \in [DOMAIN rows -> Row] /\ DOMAIN rows \subseteq Folders \X Tasks
    /\ \A x \in DOMAIN rows : rows[x].state \in DOMAIN columns

(* A task stays on the board of its folder: whatever is moved, shared, remapped or
   redefined, its state remains a column of the folder's workflow.  The check of
   task_relation looks at the rows a call writes, the workflow of the folder and the
   columns change below the others.  One call leaves tasks behind: changeWorkflow
   without a mapping. *)
StaysOnBoard ==
    [][ \A x \in DOMAIN rows \cap DOMAIN rows' :
          OnBoard(x) /\ ~OnBoard(x)' =>
             \E w \in Workflows, u \in Users : ChangeWorkflow(x[1], w, u, << >>) ]_vars

(* The reference: a list whose positions are 0, 1, ... without gap. *)
Ranked(R, S, fld) == {R[x][fld] : x \in S} = 0..(Cardinality(S) - 1)
Taken(n, old) == IF n > old THEN n - 1 ELSE n
Given(n, k)   == IF n >= k THEN n + 1 ELSE n

(* A move among the tasks below a parent takes the task out of the list and puts it
   in at the position asked for: no other changes its place.  It holds of a list
   that was in order, of a position in it, and of a call that names no parents: one
   that names the parent the task has makes room twice. *)
MoveInserts ==
    [][ \A t \in Tasks, f \in Folders :
          <<f, t>> \in DOMAIN rows =>
          LET r == rows[<<f, t>>]
              S == Siblings(rows, f, r.parent, t)
          IN  Ranked(rows, S \cup {<<f, t>>}, "index") =>
              \A u \in Users, k \in 0..Cardinality(S), board \in BOOLEAN :
                 k <= MaxIndex /\ UpdatePosition(t, f, u, r.state, k, board) =>
                 /\ rows'[<<f, t>>].index = k
                 /\ \A x \in S : rows'[x].index = Given(Taken(rows[x].index, r.index), k) ]_vars

(* The same of a column of the board: a task moved within it is put in where asked;
   one moved to another column is taken out of the first, and put in before all
   others when it is dropped at the top. *)
ColumnInserts ==
    [][ \A t \in Tasks, f \in Folders :
          <<f, t>> \in DOMAIN rows =>
          LET r == rows[<<f, t>>]
              S == InColumn(rows, Siblings(rows, f, r.parent, t), r.state)
              T(to) == InColumn(rows, Siblings(rows, f, r.parent, t), to)
          IN  Ranked(rows, S \cup {<<f, t>>}, "stateIndex") =>
              \A to \in DOMAIN columns, u \in Users, k \in 0..MaxIndex :
                 (IF to = r.state THEN k <= Cardinality(S) ELSE Ranked(rows, T(to), "stateIndex"))
                 /\ UpdatePosition(t, f, u, to, k, TRUE) =>
                 /\ rows'[<<f, t>>].stateIndex = k
                 /\ to = r.state =>
                       \A x \in S : rows'[x].stateIndex = Given(Taken(rows[x].stateIndex, r.stateIndex), k)
                 /\ to # r.state =>
                       /\ \A x \in S : rows'[x].stateIndex = Taken(rows[x].stateIndex, r.stateIndex)
                       /\ k = 0 => \A x \in T(to) : rows'[x].stateIndex = rows[x].stateIndex + 1 ]_vars
=============================================================================
