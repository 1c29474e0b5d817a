------------------------------ MODULE Schedule ------------------------------
(***************************************************************************)
(* The dates of tasks and of the folders they are in: a change of a task's *)
(* dates is carried to the tasks that depend on it, to the tasks below it  *)
(* and to those above it, and the folder is widened                        *)
(* (handleTaskDateChanges of task-base.service.ts).                        *)
(*                                                                         *)
(* A date is a day.  The code compares dates with < and >, where a missing *)
(* one counts as 0: so does NoDate, and every day is a positive number.    *)
(* The rows of one call's queries come in any order their ORDER BY or      *)
(* recursion leaves open; "order" is that choice.  The queries read all    *)
(* the rows before the first update, so the dates a loop takes from its    *)
(* rows may be out of date: "old" below.  A call that throws rolls back    *)
(* and is no step.                                                         *)
(***************************************************************************)
EXTENDS Integers, Sequences, Functions, Work, Loops

CONSTANTS
    Types,    \* the types of dependency there are: subset of AllTypes
    Days,     \* the days a call asks for
    MaxDeps,  \* bound: rows of folder_task_predecessor
    Reach,    \* bound: the days a task may come to have
    MaxCalls  \* bound: calls made

NoDate == 0
AllTypes == {"START_TO_START", "START_TO_FINISH", "FINISH_TO_START", "FINISH_TO_FINISH"}

ASSUME TypesAssumption == Types \subseteq AllTypes
ASSUME DaysAssumption == Days \subseteq Reach /\ Reach \subseteq Nat \ {NoDate}
ASSUME ScheduleBounds == {MaxDeps, MaxCalls} \subseteq Nat

VARIABLES
    dates,     \* start and end of each task
    span,      \* start and end of each folder
    up,        \* the rows of task_relation: the parent, by folder and task
    deps,      \* the rows of folder_task_predecessor: the type, by folder, predecessor, successor
    archived,  \* the tasks with archived_at (TaskTree says how they come to have it)
    handled,   \* the folder and the task whose dates the last call handled
    calls      \* how many calls there were

scheduleVars == <<dates, span, up, deps, archived, handled, calls>>

Live == Tasks \ archived
Undated == [start |-> NoDate, end |-> NoDate]
Dated(x) == x.start # NoDate /\ x.end # NoDate

(* Below, r holds the rows the call leaves, r.up and r.deps, and which tasks are live. *)
Rows == [up |-> up, deps |-> deps, live |-> Live]
InFolder(r, f) == {t \in Tasks : <<f, t>> \in DOMAIN r.up}
Children(r, t) == {c \in r.live : \E f \in Folders : <<f, c>> \in DOMAIN r.up /\ r.up[<<f, c>>] = t}

Count == Cardinality(Tasks)
Orders == Bijection(1..Count, Tasks)

(* The parents of t in a folder, up to an archived one, nearest first: the rows of the
   queries that go up from t or, read backwards, come down to it. *)
Climb(r, f, t) ==
    LET above(x) == IF <<f, x>> \in DOMAIN r.up /\ r.up[<<f, x>>] \in r.live THEN r.up[<<f, x>>] ELSE None
        at[i \in 0..Count] == IF i = 0 THEN t ELSE above(at[i - 1])
    IN  at
LiveAbove(f, t) == {Climb(Rows, f, t)[i] : i \in 1..Count} \ {None}

(* All tasks above t in a folder, the archived ones too. *)
Above(f, t) ==
    {a \in Tasks : \A S \in SUBSET Tasks :
        (\A x \in S \cup {t} : up[<<f, x>>] \in S \cup {None}) => a \in S}

(* No tasks of a folder each have their parent among them: there is no ring. *)
Forest == \A f \in Folders, S \in SUBSET Tasks : (\A x \in S : up[<<f, x>>] \in S) => S = {}

(* The rows of the query for successors: the ways along dependencies of a folder from t
   over live tasks that repeat a task at their end only. *)
Walks(r, f, t) ==
    LET linked(p, s) == <<f, p, s>> \in DOMAIN r.deps /\ s \in r.live
        met == {t} \cup {x[3] : x \in DOMAIN r.deps}
    IN  {w \in UNION {[1..n -> met] : n \in 2..(Count + 1)} :
            /\ w[1] = t /\ IsInjective([i \in 1..(Len(w) - 1) |-> w[i]])
            /\ \A i \in 1..(Len(w) - 1) : linked(w[i], w[i + 1])}

(* Any forest of tasks with the same dates, and one dependency, one task without dates or one
   archived task. *)
ScheduleInit ==
    /\ up \in [Folders \X Tasks -> Tasks \cup {None}]
    /\ deps \in UNION {[S -> Types] : S \in {X \in SUBSET {e \in Folders \X Tasks \X Tasks : e[2] # e[3]} : Cardinality(X) <= 1}}
    /\ \E x \in [start : Days, end : Days], undated \in SUBSET Tasks :
          /\ x.start < x.end
          /\ dates = [t \in Tasks |-> IF t \in undated THEN Undated ELSE x]
          /\ span = [f \in Folders |-> [x EXCEPT !.end = NoDate]]
          /\ archived \in SUBSET Tasks
          /\ Cardinality(undated) + Cardinality(archived) + Cardinality(DOMAIN deps) <= 1
    /\ handled = None
    /\ calls = 0
    /\ Forest

-----------------------------------------------------------------------------
(* Below, d is the dates of the tasks as the call has changed them so far, or Thrown. *)
Thrown == << >>
Span == [start : Reach \cup {NoDate}, end : Reach \cup {NoDate}]
Left == [Tasks -> Span] \cup {Thrown}

(* updateTaskDate.  A date that is not given stays; where there is no start the text of
   the old one cannot be written, and the call throws.  Nor is a call followed that takes a
   task out of Reach. *)
TaskDate(d, t, start, end) ==
    LET new == [start |-> IF start # NoDate THEN start ELSE d[t].start,
                end |-> IF end # NoDate THEN end ELSE d[t].end]
    IN  IF (start # NoDate /\ d[t].start = NoDate) \/ new \notin Span THEN Thrown
        ELSE [d EXCEPT ![t] = new]

\* mutant: the successor is moved, and its other date stays
SuccessorEnd(d, p, s, type, old) ==
    IF d[p].end <= old.start THEN d ELSE IF ~Dated(old) THEN Thrown ELSE TaskDate(d, s, d[p].end, NoDate)

(* updateSuccessor: moves s behind p and keeps the days it lasts.  Without both dates there
   is no number of days, and the date it makes cannot be stored. *)
Successor(d, p, s, type, old) ==
    LET mark == IF type \in {"START_TO_START", "START_TO_FINISH"} THEN d[p].start ELSE d[p].end
        toStart == type \in {"START_TO_START", "FINISH_TO_START"}
        days == old.end - old.start
    IN  IF mark <= (IF toStart THEN old.start ELSE old.end) THEN d
        ELSE IF ~Dated(old) THEN Thrown
        ELSE IF toStart THEN TaskDate(d, s, mark, mark + days) ELSE TaskDate(d, s, mark - days, mark)

Smaller(a, b) == IF a < b THEN a ELSE b
Apart(a, b) == IF a < b THEN b - a ELSE a - b
Back(day, n) == IF day = n THEN -1 ELSE day - n  \* NoDate is no day: out of Reach as -1 is

(* updateChildTaskDate: moves c into the dates of its parent, if it has both. *)
ChildDate(d, parent, c, old) ==
    LET late == parent.start # NoDate /\ parent.start > old.start
        early == parent.end # NoDate /\ parent.end < old.end
        start == IF ~early \/ NoDate \in {parent.start, old.start}
                 THEN IF late THEN parent.start ELSE NoDate
                 ELSE Back(old.start, Smaller(old.end - parent.end, Apart(old.start, parent.start)))
        end == IF early THEN parent.end
               ELSE IF late /\ NoDate \notin {parent.end, old.end}
                    THEN old.end + Smaller(parent.start - old.start, parent.end - old.end)
                    ELSE NoDate
    IN  TaskDate(d, c, start, end)

(* The loops over the tasks of S, in an order of all tasks: an undated start makes the search
   for the least start over. *)
Earliest(d, S, order) ==
    LET sooner(m, x) == IF m = NoDate \/ m > x THEN x ELSE m
        least[i \in 0..Count] ==
          IF i = 0 THEN NoDate
          ELSE IF order[i] \in S THEN sooner(least[i - 1], d[order[i]].start) ELSE least[i - 1]
    IN  least[Count]
Latest(d, S, order) ==
    LET later(m, x) == IF m = NoDate \/ m < x THEN x ELSE m
        last[i \in 0..Count] ==
          IF i = 0 THEN NoDate
          ELSE IF order[i] \in S THEN later(last[i - 1], d[order[i]].end) ELSE last[i - 1]
    IN  last[Count]

\* mutant: the children are read as they were before the call
ParentDateOnce(r, d, p, order) ==
    TaskDate(d, p, Earliest(dates, Children(r, p), order), Latest(dates, Children(r, p), order))

(* updateParentTaskDate: the parent spans its children, of every folder. *)
ParentDate(r, d, p, order) ==
    TaskDate(d, p, Earliest(d, Children(r, p), order), Latest(d, Children(r, p), order))

(* updateParentTasksQuery *)
UpdateParentTasks(r, d, f, t, order) ==
    LET above == Climb(r, f, t)
    IN  Loop([i \in 1..Count |-> [e \in Left |->
                IF e = Thrown \/ above[i] = None THEN e ELSE ParentDate(r, e, above[i], order)]], d)

(* updateChildTasksQuery: level by level, and in any order in a level. *)
UpdateChildTasks(r, d, f, t, order) ==
    LET Visit(e, n, c) == IF e # Thrown /\ {c, t} \subseteq r.live /\ Climb(r, f, c)[n] = t
                          THEN ChildDate(e, e[r.up[<<f, c>>]], c, d[c]) ELSE e
        Level(n) == [i \in 1..Count |-> [e \in Left |-> Visit(e, n, order[i])]]
    IN  Loop([n \in 1..Count |-> [e \in Left |-> Loop(Level(n), e)]], d)

(* updateSuccessorTaskDate.  The first part of the query finds t once for each task that depends
   on it in any folder, and each row of the second comes as often, for each way to it. *)
UpdateSuccessors(r, d, f, t, order) ==
    LET times == Cardinality({x \in DOMAIN r.deps : x[2] = t})
        walks == Walks(r, f, t)
        from(n, p) == {w \in walks : Len(w) = n + 1 /\ w[n] = p}
        ways(n, p, s) == Cardinality({w \in from(n, p) : w[n + 1] = s})
        Visit(e, p, s) ==
            IF e = Thrown THEN e
            ELSE LET moved == Successor(e, p, s, r.deps[<<f, p, s>>], d[s])
                 IN  IF moved = Thrown THEN Thrown ELSE UpdateParentTasks(r, moved, f, s, order)
        Visits(n, p, s) == [i \in 1..(times * ways(n, p, s)) |-> [e \in Left |-> Visit(e, p, s)]]
        From(n, p) == [i \in 1..Count |-> [e \in Left |-> Loop(Visits(n, p, order[i]), e)]]
        Level(n) == [i \in 1..Count |-> [e \in Left |-> IF from(n, order[i]) = {} THEN e ELSE Loop(From(n, order[i]), e)]]
    IN  IF t \in r.live \cap InFolder(r, f) /\ times > 0
        THEN Loop([n \in 1..Count |-> [e \in Left |-> Loop(Level(n), e)]], d) ELSE d

\* mutant: the successors are forgotten
TaskDateChangesNear(r, d, f, t, order) ==
    LET children == UpdateChildTasks(r, d, f, t, order)
    IN  IF children = Thrown THEN Thrown ELSE UpdateParentTasks(r, children, f, t, order)

(* handleTaskDateChanges without its end, from the dates the call has set. *)
TaskDateChanges(r, d, f, t, order) ==
    LET successors == UpdateSuccessors(r, d, f, t, order)
        children == UpdateChildTasks(r, successors, f, t, order)
    IN  IF successors = Thrown \/ children = Thrown THEN Thrown
        ELSE UpdateParentTasks(r, children, f, t, order)

\* mutant: a folder without an end keeps none
ProjectDateDated(r, d, x, f, order) ==
    LET first == Earliest(d, InFolder(r, f), order)
        last == Latest(d, InFolder(r, f), order)
    IN  [start |-> IF x.start > first THEN first ELSE x.start,
         end |-> IF x.end # NoDate /\ x.end < last THEN last ELSE x.end]

(* updateProjectDate: the folder is widened to its tasks, the archived ones too.  A missing
   date is less than the start of any folder, and replaces it. *)
ProjectDate(r, d, x, f, order) ==
    LET first == Earliest(d, InFolder(r, f), order)
        last == Latest(d, InFolder(r, f), order)
    IN  [start |-> IF x.start > first THEN first ELSE x.start,
         end |-> IF x.end < last THEN last ELSE x.end]

HandleTaskDateChanges(r, d, f, t) ==
    /\ up' = r.up
    /\ deps' = r.deps
    /\ \E order \in Orders :
          LET after == TaskDateChanges(r, d, f, t, order)
          IN  /\ after # Thrown
              /\ dates' = after
              /\ span' = [span EXCEPT ![f] = ProjectDate(r, after, span[f], f, order)]
    /\ handled' = <<f, t>>
    /\ UNCHANGED archived

-----------------------------------------------------------------------------
Sent(x, start, end) == [start |-> IF start = NoDate THEN x.start ELSE start,
                        end |-> IF end = NoDate THEN x.end ELSE end]
InOrder(x) == Dated(x) => x.start <= x.end

(* update of a task with new dates; NoDate is one that is not sent. *)
UpdateTask(f, t, start, end) ==
    LET new == Sent(dates[t], start, end)
    IN  /\ {start, end} # {NoDate}
        /\ InOrder(new)
        /\ HandleTaskDateChanges(Rows, [dates EXCEPT ![t] = new], f, t)

(* The same when the request names no folder. *)
UpdateTaskAlone(t, start, end) ==
    LET new == Sent(dates[t], start, end)
    IN  /\ {start, end} # {NoDate}
        /\ InOrder(new)
        /\ dates' = [dates EXCEPT ![t] = new]
        /\ handled' = None
        /\ UNCHANGED <<span, up, deps, archived>>

(* Nothing forbids a task that depends on itself, or tasks that depend on each other. *)
CreateDependency(f, p, s, type) ==
    /\ <<f, p, s>> \notin DOMAIN deps
    /\ Cardinality(DOMAIN deps) < MaxDeps
    /\ LET more == [e \in DOMAIN deps \cup {<<f, p, s>>} |-> IF e = <<f, p, s>> THEN type ELSE deps[e]]
       IN  HandleTaskDateChanges([Rows EXCEPT !.deps = more], dates, f, p)

DeleteDependency(e) ==
    /\ deps' = [x \in DOMAIN deps \ {e} |-> deps[x]]
    /\ handled' = None
    /\ UNCHANGED <<dates, span, up, archived>>

(* updatePosition below another task, which gives the task its dates.  A move below itself
   is left to TaskTree. *)
ChangeParent(f, t, p) ==
    /\ t \in InFolder(Rows, f)
    /\ p # t
    /\ t \notin Above(f, p)
    /\ HandleTaskDateChanges([Rows EXCEPT !.up = [up EXCEPT ![<<f, t>>] = p]], [dates EXCEPT ![t] = dates[p]], f, t)

(* updatePosition of a task out of its parent. *)
ChildToRoot(f, t) ==
    /\ t \in InFolder(Rows, f)
    /\ up[<<f, t>>] # None
    /\ up' = [up EXCEPT ![<<f, t>>] = None]
    /\ handled' = None
    /\ UNCHANGED <<dates, span, deps, archived>>

(* updateFolder with dates: each task of the folder is moved into the dates sent. *)
UpdateFolder(f, start, end) ==
    LET sent == [start |-> start, end |-> end]
        Visit(e, t) == IF e = Thrown \/ t \notin InFolder(Rows, f) THEN e ELSE ChildDate(e, sent, t, dates[t])
    IN  /\ {start, end} # {NoDate}
        /\ \E order \in Orders :
              LET after == Loop([i \in 1..Count |-> [e \in Left |-> Visit(e, order[i])]], dates)
              IN  after # Thrown /\ dates' = after
        /\ span' = [span EXCEPT ![f] = Sent(span[f], start, end)]
        /\ handled' = None
        /\ UNCHANGED <<up, deps, archived>>

Asked == Days \cup {NoDate}
ScheduleNext ==
    /\ calls < MaxCalls
    /\ calls' = calls + 1
    /\ \/ \E f \in Folders, t \in Tasks, start, end \in Asked : UpdateTask(f, t, start, end)
       \/ \E t \in Tasks, start, end \in Asked : UpdateTaskAlone(t, start, end)
       \/ \E f \in Folders, p, s \in Tasks, type \in Types : CreateDependency(f, p, s, type)
       \/ \E e \in DOMAIN deps : DeleteDependency(e)
       \/ \E f \in Folders, t, p \in Tasks : ChangeParent(f, t, p)
       \/ \E f \in Folders, t \in Tasks : ChildToRoot(f, t)
       \/ \E f \in Folders, start, end \in Asked : UpdateFolder(f, start, end)

ScheduleSpec == ScheduleInit /\ [][ScheduleNext]_scheduleVars

-----------------------------------------------------------------------------
(* Types.  The rows of one folder are a forest. *)
ScheduleTyped ==
    /\ dates \in [Tasks -> Span]
    /\ span \in [Folders -> Span]
    /\ up \in [Folders \X Tasks -> Tasks \cup {None}]
    /\ Forest
    /\ DOMAIN deps \subseteq Folders \X Tasks \X Tasks
    /\ \A e \in DOMAIN deps : deps[e] \in Types
    /\ archived \subseteq Tasks
    /\ calls \in 0..MaxCalls
    /\ handled \in (Folders \X Tasks) \cup {None}

(* After a change of a task's dates has been handled, each task above it in the folder
   spans its live children: it ends with the last of them and, when all have a start,
   starts with the first of them (updateParentTasksQuery goes up from the task).  Left out
   is one with a child, of another folder, that is above it in this one: that child is
   moved after it. *)
AncestorsSpan ==
    handled # None =>
        \A a \in LiveAbove(handled[1], handled[2]) :
            LET kids == Children(Rows, a)
            IN  kids \cap LiveAbove(handled[1], a) = {} =>
                /\ \A c \in kids : dates[c].end <= dates[a].end
                /\ (\A c \in kids : dates[c].start # NoDate) =>
                       (\A c \in kids : dates[a].start <= dates[c].start)

(* After it, the folder covers all its tasks, unless one of them has no start. *)
FolderCovers ==
    handled # None =>
        LET f == handled[1]
        IN  /\ \A t \in InFolder(Rows, f) : dates[t].end <= span[f].end
            /\ (\A t \in InFolder(Rows, f) : dates[t].start # NoDate) =>
                   (\A t \in InFolder(Rows, f) : span[f].start <= dates[t].start)

(* A call that handles dates never makes a task start after its end where all tasks had
   both dates, in order. *)
StaysInOrder ==
    [][ (handled' # None /\ \A t \in Tasks : Dated(dates[t]) /\ InOrder(dates[t]))
            => \A t \in Tasks : InOrder(dates'[t]) ]_scheduleVars

(* After it, the dates respect the dependencies on the task: no successor of it starts (or
   ends) before the day its type names.  Left out are the ties that let a later update of
   the same call undo this: a task with children, which is moved to span them, one that
   depends on two, which is moved from the dates it had before the call, and a ring. *)
DependencyKept ==
    handled # None =>
        LET f == handled[1]
            t == handled[2]
            alone(s) == {x \in DOMAIN deps : x[3] = s} = {<<f, t, s>>}
        IN  \A s \in Tasks :
                ( /\ <<f, t, s>> \in DOMAIN deps /\ alone(s)
                  /\ ~\E x \in DOMAIN deps : x[3] = t
                  /\ Children(Rows, s) \cup Children(Rows, t) = {}
                  /\ {s, t} \subseteq Live /\ t \in InFolder(Rows, f) ) =>
                    CASE deps[<<f, t, s>>] = "START_TO_START"   -> dates[t].start <= dates[s].start
                      [] deps[<<f, t, s>>] = "START_TO_FINISH"  -> dates[t].start <= dates[s].end
                      [] deps[<<f, t, s>>] = "FINISH_TO_START"  -> dates[t].end <= dates[s].start
                      [] deps[<<f, t, s>>] = "FINISH_TO_FINISH" -> dates[t].end <= dates[s].end
=============================================================================
