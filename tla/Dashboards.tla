------------------------------ MODULE Dashboards ------------------------------
(***************************************************************************)
(* Dashboards, the folders they are linked to and the widgets that show    *)
(* them (dashboard.service.ts, widgets.service.ts).  Nothing here runs in  *)
(* a transaction: a call is a row of statements with other calls between   *)
(* them, and what it read at its start is what it goes by.                 *)
(*                                                                         *)
(* The statements of one Promise.all are one step.  A save of a row that   *)
(* was deleted since it was read inserts it again.  Rights are the owner's *)
(* bit and three levels of membership.                                     *)
(***************************************************************************)
EXTENDS FiniteSets, Integers

CONSTANTS Viewers, Boards, Widgets, Linked,   \* users, ids of dashboards and widgets, folders
          Reads, Manages,                     \* what folders they may read and manage: <<user, folder>>
          Slots, Idle, Nothing,
          MaxBoardCalls                       \* bound: calls made

ASSUME DashboardsAssumption ==
    Manages \subseteq Reads /\ Reads \subseteq Viewers \X Linked /\ Nothing \notin Boards /\ MaxBoardCalls \in Nat

(* What a call is of, the statement it comes to next, and the records of calls; a slot that runs
   none holds none. *)
Ops == {"CREATE", "COPY", "UPDATE", "TOUCH", "FOLDERS", "DELETE", "WIDGET", "CHANGE", "DROP"}
Steps == {"FIND", "DEFAULT", "LINK", "OWNER", "MEMBERS", "WIDGET", "LAYOUT", "SAVE", "SHOW", "UNLINK", "HIDE",
          "WIDGETS", "LINKS", "RIGHTS", "BOARD", "INSERT", "DELETE"}
CallRecords ==
    [op : Ops, by : Viewers, on : SUBSET Boards, step : Steps, wants : BOOLEAN, had : Boards \cup {Nothing},
     widget : Widgets \cup {Nothing}, ins : SUBSET (Viewers \cup Linked), del : SUBSET (Viewers \cup Linked),
     read : SUBSET Widgets]
ASSUME IdleAssumption == Idle \notin CallRecords

VARIABLES
    boards,      \* the dashboards there are
    system,      \* those among all ids made as a user's first one
    rights,      \* assigned_permission of dashboards
    links,       \* dashboard_folder_relation
    home,        \* the dashboard of a widget
    shows,       \* widgets_relation
    default,     \* dashboard_user_default, unique by user
    favourites,  \* dashboard_user_favourite
    calls,       \* the call each slot runs
    spent,       \* ids of dashboards and widgets given out
    raced,       \* ghost: dashboards of calls that overlapped or broke off, and of later calls on those
    started      \* how many calls there were

boardVars == <<boards, system, rights, links, home, shows, default, favourites, calls, spent, raced, started>>
Levels == {"FULL", "EDITOR", "READ"}

Has(b, u, S) == rights[b][u] \cap S # {}
OwnerFull(b, u) == Has(b, u, {"OWNER", "FULL"})
Editor(b, u) == Has(b, u, {"OWNER", "FULL", "EDITOR"})
Reader(b, u) == rights[b][u] # {}
On(b) == {w \in Widgets : home[w] = b}
Of(w) == {f \in Linked : <<w, f>> \in shows}
May(u, F, P) == \A f \in F : <<u, f>> \in P
Busy(b) == {c \in Slots : calls[c] # Idle /\ b \in calls[c].on}

BoardsInit ==
    \E b \in Boards, w \in Widgets, u \in Viewers, f \in Linked :
        /\ <<u, f>> \in Reads
        /\ boards = {b} /\ system = {} /\ links = {<<b, f>>} /\ shows = {<<w, f>>}
        /\ rights = [x \in Boards |-> [v \in Viewers |-> IF x = b /\ v = u THEN {"OWNER"} ELSE {}]]
        /\ home = [x \in Widgets |-> IF x = w THEN b ELSE Nothing]
        /\ default = [v \in Viewers |-> Nothing] /\ favourites = {}
        /\ calls = [c \in Slots |-> Idle] /\ spent = {b, w} /\ raced = {} /\ started = 0

-----------------------------------------------------------------------------
(* A call: whom it runs for, the dashboards it is about, and what it asked for and read. *)

Call(op, u, on, step) ==
    [op |-> op, by |-> u, on |-> on, step |-> step, wants |-> FALSE, had |-> Nothing, widget |-> Nothing,
     ins |-> {}, del |-> {}, read |-> {}]

Begins(c, call) ==
    /\ calls[c] = Idle /\ started < MaxBoardCalls
    /\ started' = started + 1
    /\ calls' = [calls EXCEPT ![c] = call]
    /\ LET met == {d \in Slots : calls[d] # Idle /\ calls[d].on \cap call.on # {}} IN
       raced' = IF met = {} /\ call.on \cap raced = {} THEN raced
                ELSE raced \cup call.on \cup UNION {calls[d].on : d \in met}

At(c, op, step) == calls[c] # Idle /\ calls[c].op \in op /\ calls[c].step = step
GoTo(c, step) == calls' = [calls EXCEPT ![c].step = step] /\ UNCHANGED <<raced, started>>
Ends(c) == calls' = [calls EXCEPT ![c] = Idle] /\ UNCHANGED <<raced, started>>

(* A statement failed: what the call wrote stays. *)
Aborts(c) == calls' = [calls EXCEPT ![c] = Idle] /\ raced' = raced \cup calls[c].on /\ UNCHANGED started

Rows == <<boards, system, rights, links, home, shows, default, favourites, spent>>
The(c) == CHOOSE b \in calls[c].on : TRUE

-----------------------------------------------------------------------------
(* createDashboard, and createDefaultDashboardForUser: a system dashboard, with widgets after it *)
CreateDashboard(c, u, b, F, wants, members, first) ==
    /\ b \notin spent /\ u \notin members /\ May(u, F, Reads)
    /\ first => (F = {} /\ members = {} /\ wants)
    /\ Begins(c, [Call("CREATE", u, {b}, IF wants THEN "FIND" ELSE "LINK") EXCEPT !.ins = F, !.del = members, !.wants = wants])
    /\ boards' = boards \cup {b} /\ spent' = spent \cup {b}
    /\ system' = IF first THEN system \cup {b} ELSE system
    /\ UNCHANGED <<rights, links, home, shows, default, favourites>>

FindDefault(c) ==
    /\ At(c, {"CREATE", "UPDATE"}, "FIND")
    /\ calls' = [calls EXCEPT ![c].step = "DEFAULT", ![c].had = default[calls[c].by]]
    /\ UNCHANGED <<Rows, raced, started>>

(* There is one default per user: whoever found none and meets one throws.  isDefault: false
   removes the default that was found, whatever dashboard it is. *)
SaveDefault(c) ==
    LET me == calls[c] IN
    /\ At(c, {"CREATE", "UPDATE"}, "DEFAULT")
    /\ IF me.wants /\ (The(c) \notin boards \/ (me.had = Nothing /\ default[me.by] # Nothing))
       THEN Aborts(c) /\ UNCHANGED default
       ELSE /\ default' = CASE me.wants -> [default EXCEPT ![me.by] = The(c)]
                            [] ~me.wants /\ default[me.by] = me.had -> [default EXCEPT ![me.by] = Nothing]
                            [] OTHER -> default
            /\ GoTo(c, IF me.op = "CREATE" THEN "LINK" ELSE "MEMBERS")
    /\ UNCHANGED <<boards, system, rights, links, home, shows, favourites, spent>>

(* The links of a new dashboard, and its maker's favourite. *)
LinkNew(c, favourite) ==
    LET me == calls[c] IN
    /\ At(c, {"CREATE"}, "LINK")
    /\ links' = links \cup ({The(c)} \X me.ins)
    /\ favourites' = IF favourite THEN favourites \cup {<<me.by, The(c)>>} ELSE favourites
    /\ GoTo(c, "OWNER")
    /\ UNCHANGED <<boards, system, rights, home, shows, default, spent>>

GrantOwner(c) ==
    /\ At(c, {"CREATE", "COPY"}, "OWNER")
    /\ rights' = [rights EXCEPT ![The(c)][calls[c].by] = @ \cup {"OWNER"}]
    /\ GoTo(c, IF calls[c].op = "CREATE" THEN "MEMBERS" ELSE "LINK")
    /\ UNCHANGED <<boards, system, links, home, shows, default, favourites, spent>>

MembersOfNew(c, level) ==
    /\ At(c, {"CREATE"}, "MEMBERS")
    /\ rights' = [rights EXCEPT ![The(c)] = [u \in Viewers |-> IF u \in calls[c].del THEN @[u] \cup {level} ELSE @[u]]]
    /\ IF The(c) \in system THEN GoTo(c, "WIDGET") ELSE Ends(c)
    /\ UNCHANGED <<boards, system, links, home, shows, default, favourites, spent>>

(* A first dashboard, which nobody can delete, gets widgets that show no folder, and a layout: a
   widget that comes back without one makes the call throw, and nothing is missing but the layout. *)
FirstWidget(c, w) ==
    /\ At(c, {"CREATE"}, "WIDGET") /\ w \notin spent
    /\ home' = [home EXCEPT ![w] = The(c)] /\ spent' = spent \cup {w} /\ GoTo(c, "LAYOUT")
    /\ UNCHANGED <<boards, system, rights, links, shows, default, favourites>>
NoFirstWidget(c) == At(c, {"CREATE"}, "WIDGET") /\ GoTo(c, "LAYOUT") /\ UNCHANGED Rows
Layout(c) == At(c, {"CREATE"}, "LAYOUT") /\ Ends(c) /\ UNCHANGED Rows

-----------------------------------------------------------------------------
(* updateDashboard; wants is the flag isDefault, had the default found *)
UpdateDashboard(c, u, b, flag, ins, del) ==
    /\ b \in boards /\ OwnerFull(b, u)
    /\ Begins(c, [Call("UPDATE", u, {b}, IF flag = "NONE" THEN "MEMBERS" ELSE "FIND")
                     EXCEPT !.ins = ins, !.del = del, !.wants = (flag = "YES")])
    /\ UNCHANGED Rows

\* mutant: the owner's bit is revoked with the others
MembersAndOwner(c, level, fav) ==
    LET me == calls[c] IN
    /\ At(c, {"UPDATE"}, "MEMBERS")
    /\ rights' = [rights EXCEPT ![The(c)] =
                     [u \in Viewers |-> IF u \in me.ins THEN {level} ELSE IF u \in me.del THEN {} ELSE @[u]]]
    /\ favourites' = IF fav THEN favourites \cup {<<me.by, The(c)>>} ELSE favourites \ {<<me.by, The(c)>>}
    /\ GoTo(c, "SAVE")
    /\ UNCHANGED <<boards, system, links, home, shows, default, spent>>

(* The favourite, then the members: whoever is removed or changed keeps the owner's bit. *)
Members(c, level, fav) ==
    LET me == calls[c] IN
    /\ At(c, {"UPDATE"}, "MEMBERS")
    /\ IF fav /\ The(c) \notin boards THEN Aborts(c) /\ UNCHANGED <<rights, favourites>>
       ELSE /\ rights' = [rights EXCEPT ![The(c)] =
                            [u \in Viewers |-> (IF u \in me.ins \cup me.del THEN @[u] \ Levels ELSE @[u])
                                                \cup (IF u \in me.ins THEN {level} ELSE {})]]
            /\ favourites' = IF fav THEN favourites \cup {<<me.by, The(c)>>} ELSE favourites \ {<<me.by, The(c)>>}
            /\ GoTo(c, "SAVE")
    /\ UNCHANGED <<boards, system, links, home, shows, default, spent>>

(* The last save of an update, and all that opening a dashboard or its layout writes: it brings
   back a dashboard deleted since, without its links, widgets, rights. *)
SaveBoard(c) ==
    /\ At(c, {"UPDATE", "FOLDERS", "TOUCH"}, "SAVE")
    /\ boards' = boards \cup {The(c)}
    /\ Ends(c)
    /\ UNCHANGED <<system, rights, links, home, shows, default, favourites, spent>>

(* getDashboardById, getDefaultDashboard, updateDashboardLayout *)
Touch(c, u, b) ==
    /\ b \in boards /\ (Reader(b, u) \/ default[u] = b)
    /\ Begins(c, Call("TOUCH", u, {b}, "SAVE")) /\ UNCHANGED Rows

-----------------------------------------------------------------------------
(* updateDashboardFolders: the links, then the widgets read at the start *)
UpdateDashboardFolders(c, u, b, ins, del) ==
    /\ b \in boards /\ OwnerFull(b, u) /\ May(u, ins \cup del, Manages) /\ ins \cap del = {} /\ ins \cup del # {}
    /\ Begins(c, [Call("FOLDERS", u, {b}, "LINK") EXCEPT !.ins = ins, !.del = del, !.read = On(b)])
    /\ UNCHANGED Rows

(* A folder already linked throws, after the others were linked. *)
LinkFolders(c) ==
    LET me == calls[c]  new == {The(c)} \X me.ins IN
    /\ At(c, {"FOLDERS"}, "LINK")
    /\ links' = IF The(c) \in boards THEN links \cup new ELSE links
    /\ IF new \cap links # {} \/ (new # {} /\ The(c) \notin boards) THEN Aborts(c) ELSE GoTo(c, "SHOW")
    /\ UNCHANGED <<boards, system, rights, home, shows, default, favourites, spent>>

ShowFolders(c) ==
    LET me == calls[c]  left == {w \in me.read : home[w] # Nothing} IN
    /\ At(c, {"FOLDERS"}, "SHOW")
    /\ shows' = shows \cup (left \X me.ins)
    /\ IF me.ins # {} /\ left # me.read THEN Aborts(c) ELSE GoTo(c, "UNLINK")
    /\ UNCHANGED <<boards, system, rights, links, home, default, favourites, spent>>

UnlinkFolders(c) ==
    /\ At(c, {"FOLDERS"}, "UNLINK")
    /\ links' = links \ ({The(c)} \X calls[c].del)
    /\ GoTo(c, "HIDE")
    /\ UNCHANGED <<boards, system, rights, home, shows, default, favourites, spent>>

\* mutant: the widgets go on showing the folder
HideNothing(c) == At(c, {"FOLDERS"}, "HIDE") /\ GoTo(c, "SAVE") /\ UNCHANGED Rows

HideFolders(c) ==
    /\ At(c, {"FOLDERS"}, "HIDE")
    /\ shows' = shows \ (calls[c].read \X calls[c].del)
    /\ GoTo(c, "SAVE")
    /\ UNCHANGED <<boards, system, rights, links, home, default, favourites, spent>>

-----------------------------------------------------------------------------
(* deleteDashboard: the widgets read at the start, the links, the rights, the dashboard *)
DeleteDashboard(c, u, b) ==
    /\ b \in boards \ system /\ OwnerFull(b, u)
    /\ Begins(c, [Call("DELETE", u, {b}, "WIDGETS") EXCEPT !.read = On(b)])
    /\ UNCHANGED Rows
DeleteWidgets(c) ==
    /\ At(c, {"DELETE"}, "WIDGETS")
    /\ home' = [w \in Widgets |-> IF w \in calls[c].read THEN Nothing ELSE home[w]]
    /\ shows' = {s \in shows : s[1] \notin calls[c].read}
    /\ GoTo(c, "LINKS")
    /\ UNCHANGED <<boards, system, rights, links, default, favourites, spent>>
DeleteLinks(c) ==
    /\ At(c, {"DELETE"}, "LINKS")
    /\ links' = {l \in links : l[1] # The(c)}
    /\ GoTo(c, "RIGHTS")
    /\ UNCHANGED <<boards, system, rights, home, shows, default, favourites, spent>>
DeleteRights(c) ==
    /\ At(c, {"DELETE"}, "RIGHTS")
    /\ rights' = [rights EXCEPT ![The(c)] = [u \in Viewers |-> {}]]
    /\ GoTo(c, "BOARD")
    /\ UNCHANGED <<boards, system, links, home, shows, default, favourites, spent>>

(* What was linked or put on it since keeps it; defaults and favourites go with it. *)
DeleteBoard(c) ==
    /\ At(c, {"DELETE"}, "BOARD")
    /\ IF On(The(c)) # {} \/ \E l \in links : l[1] = The(c)
       THEN Aborts(c) /\ UNCHANGED <<boards, default, favourites>>
       ELSE /\ boards' = boards \ {The(c)}
            /\ default' = [u \in Viewers |-> IF default[u] = The(c) THEN Nothing ELSE default[u]]
            /\ favourites' = {p \in favourites : p[2] # The(c)}
            /\ Ends(c)
    /\ UNCHANGED <<system, rights, links, home, shows, spent>>

-----------------------------------------------------------------------------
(* createWidget, duplicateWidget: a row, then the folders it shows *)
CreateWidget(c, u, w, b, F) ==
    /\ w \notin spent /\ b \in boards /\ Reader(b, u) /\ May(u, F, Reads) /\ (F # {} \/ b \in system)
    /\ Begins(c, [Call("WIDGET", u, {b}, "INSERT") EXCEPT !.widget = w, !.ins = F])
    /\ UNCHANGED Rows
DuplicateWidget(c, u, w, copy) ==
    /\ home[w] # Nothing /\ copy \notin spent /\ Editor(home[w], u)
    /\ Begins(c, [Call("WIDGET", u, {home[w]}, "INSERT") EXCEPT !.widget = copy, !.ins = Of(w)])
    /\ UNCHANGED Rows
InsertWidget(c) ==
    LET me == calls[c] IN
    /\ At(c, {"WIDGET"}, "INSERT") /\ me.widget \notin spent
    /\ IF The(c) \notin boards THEN Aborts(c) /\ UNCHANGED <<home, spent>>
       ELSE home' = [home EXCEPT ![me.widget] = The(c)] /\ spent' = spent \cup {me.widget} /\ GoTo(c, "SHOW")
    /\ UNCHANGED <<boards, system, rights, links, shows, default, favourites>>

(* updateWidget: the right is asked on the dashboard named, which becomes the widget's *)
UpdateWidget(c, u, w, b, F) ==
    /\ home[w] # Nothing /\ Reader(b, u) /\ May(u, F, Reads)
    /\ Begins(c, [Call("CHANGE", u, {b, home[w]}, "SAVE") EXCEPT !.widget = w, !.ins = F, !.had = b])
    /\ UNCHANGED Rows
SaveWidget(c) ==
    LET me == calls[c] IN
    /\ At(c, {"CHANGE"}, "SAVE")
    /\ IF me.had \notin boards THEN Aborts(c) /\ UNCHANGED home
       ELSE home' = [home EXCEPT ![me.widget] = me.had] /\ GoTo(c, "SHOW")
    /\ UNCHANGED <<boards, system, rights, links, shows, default, favourites, spent>>

(* Folders are only added. *)
ShowOn(c) ==
    LET me == calls[c] IN
    /\ At(c, {"WIDGET", "CHANGE"}, "SHOW")
    /\ IF home[me.widget] = Nothing /\ me.ins # {} THEN Aborts(c) /\ UNCHANGED shows
       ELSE shows' = shows \cup ({me.widget} \X me.ins) /\ Ends(c)
    /\ UNCHANGED <<boards, system, rights, links, home, default, favourites, spent>>

DeleteWidget(c, u, w) ==
    /\ home[w] # Nothing /\ Editor(home[w], u)
    /\ Begins(c, [Call("DROP", u, {home[w]}, "HIDE") EXCEPT !.widget = w])
    /\ UNCHANGED Rows
HideWidget(c) ==
    /\ At(c, {"DROP"}, "HIDE")
    /\ shows' = {s \in shows : s[1] # calls[c].widget}
    /\ GoTo(c, "DELETE")
    /\ UNCHANGED <<boards, system, rights, links, home, default, favourites, spent>>
DropWidget(c) ==
    /\ At(c, {"DROP"}, "DELETE")
    /\ IF Of(calls[c].widget) # {} THEN Aborts(c) /\ UNCHANGED home
       ELSE home' = [home EXCEPT ![calls[c].widget] = Nothing] /\ Ends(c)
    /\ UNCHANGED <<boards, system, rights, links, shows, default, favourites, spent>>

-----------------------------------------------------------------------------
(* duplicateDashboard; had is the source.  The source's owner gets no right on the copy. *)
DuplicateDashboard(c, u, src, b) ==
    LET F == {f \in Linked : <<src, f>> \in links} IN
    /\ src \in boards /\ Reader(src, u) /\ b \notin spent /\ May(u, F, Reads)
    /\ Begins(c, [Call("COPY", u, {b}, "OWNER") EXCEPT !.ins = F, !.had = src])
    /\ boards' = boards \cup {b} /\ spent' = spent \cup {b}
    /\ UNCHANGED <<system, rights, links, home, shows, default, favourites>>
LinkCopy(c) ==
    LET me == calls[c] IN
    /\ At(c, {"COPY"}, "LINK")
    /\ IF The(c) \notin boards THEN Aborts(c) /\ UNCHANGED links
       ELSE links' = links \cup ({The(c)} \X me.ins) /\ GoTo(c, "MEMBERS")
    /\ UNCHANGED <<boards, system, rights, home, shows, default, favourites, spent>>
MembersOfCopy(c) ==
    LET me == calls[c]  only(S) == IF Cardinality(S) = 1 THEN S \cap Levels ELSE {} IN
    /\ At(c, {"COPY"}, "MEMBERS")
    /\ rights' = [rights EXCEPT ![The(c)] = [u \in Viewers |-> @[u] \cup only(rights[me.had][u])]]
    /\ GoTo(c, "WIDGETS")
    /\ UNCHANGED <<boards, system, links, home, shows, default, favourites, spent>>

(* duplicateDashboardWidgets: each copy shows what any of the widgets shows.  Without a widget the
   query throws, and the copy is there. *)
CopyWidgets(c, W) ==
    LET me == calls[c]  F == UNION {Of(w) : w \in On(me.had)} IN
    /\ At(c, {"COPY"}, "WIDGETS")
    /\ W \cap spent = {} /\ Cardinality(W) = Cardinality(On(me.had))
    /\ IF The(c) \notin boards THEN Aborts(c) /\ UNCHANGED <<home, shows, spent>>
       ELSE /\ home' = [w \in Widgets |-> IF w \in W THEN The(c) ELSE home[w]]
            /\ shows' = shows \cup (W \X F) /\ spent' = spent \cup W
            /\ Ends(c)
    /\ UNCHANGED <<boards, system, rights, links, default, favourites>>

(* The process stops; what ran stays where it was. *)
Stop ==
    /\ \E c \in Slots : calls[c] # Idle
    /\ raced' = raced \cup UNION {calls[c].on : c \in {d \in Slots : calls[d] # Idle}}
    /\ calls' = [c \in Slots |-> Idle]
    /\ UNCHANGED <<Rows, started>>

BoardsNext ==
    \/ \E c \in Slots, u \in Viewers :
        \/ \E b \in Boards :
            \/ \E F \in SUBSET Linked, M \in SUBSET Viewers, wants, first \in BOOLEAN : CreateDashboard(c, u, b, F, wants, M, first)
            \/ \E flag \in {"NONE", "YES", "NO"}, I, D \in SUBSET Viewers : UpdateDashboard(c, u, b, flag, I, D)
            \/ \E I, D \in SUBSET Linked : UpdateDashboardFolders(c, u, b, I, D)
            \/ Touch(c, u, b) \/ DeleteDashboard(c, u, b)
            \/ \E src \in Boards : DuplicateDashboard(c, u, src, b)
            \/ \E w \in Widgets, F \in SUBSET Linked : CreateWidget(c, u, w, b, F) \/ UpdateWidget(c, u, w, b, F)
        \/ \E w \in Widgets : DeleteWidget(c, u, w) \/ \E copy \in Widgets : DuplicateWidget(c, u, w, copy)
    \/ \E c \in Slots :
        \/ FindDefault(c) \/ SaveDefault(c) \/ GrantOwner(c) \/ NoFirstWidget(c) \/ Layout(c) \/ SaveBoard(c)
        \/ \E fav \in BOOLEAN : LinkNew(c, fav)
        \/ \E level \in Levels : MembersOfNew(c, level) \/ \E fav \in BOOLEAN : Members(c, level, fav)
        \/ \E w \in Widgets : FirstWidget(c, w)
        \/ LinkFolders(c) \/ ShowFolders(c) \/ UnlinkFolders(c) \/ HideFolders(c)
        \/ DeleteWidgets(c) \/ DeleteLinks(c) \/ DeleteRights(c) \/ DeleteBoard(c)
        \/ InsertWidget(c) \/ SaveWidget(c) \/ ShowOn(c) \/ HideWidget(c) \/ DropWidget(c)
        \/ LinkCopy(c) \/ MembersOfCopy(c) \/ \E W \in SUBSET Widgets : CopyWidgets(c, W)
    \/ Stop

BoardsSpec == BoardsInit /\ [][BoardsNext]_boardVars

-----------------------------------------------------------------------------
(* Unless two calls met on it or one broke off, or a call moved a widget between it and such a one,
   a dashboard nobody is working on exists with an owner, or it does not exist and neither do its links, rights, widgets and what they show: no
   order of whole calls leaves one nobody may open or delete. *)
WholeOrGone ==
    \A b \in Boards \ raced : Busy(b) = {} =>
        IF b \in boards THEN \E u \in Viewers : "OWNER" \in rights[b][u]
        ELSE /\ \A l \in links : l[1] # b
             /\ On(b) = {} /\ \A u \in Viewers : rights[b][u] = {} /\ default[u] # b

(* A change of a dashboard's folders reaches every widget on it: all show what was added and none
   what was taken off, again unless another call met this one there, or a widget came from where
   calls had met: one of them may still be at work on it. *)
FoldersReachWidgets ==
    [][\A c \in Slots :
        (At(c, {"FOLDERS"}, "SAVE") /\ calls'[c] = Idle /\ calls[c].on \cap raced' = {}) =>
            \A w \in On(The(c)) : calls[c].ins \subseteq Of(w) /\ Of(w) \cap calls[c].del = {}]_boardVars
=============================================================================
