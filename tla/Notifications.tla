---------------------------- MODULE Notifications ----------------------------
(***************************************************************************)
(* Who is told what.  A request changes tasks and folders in a transaction *)
(* and registers what it will say; the commit emits it, one handler per    *)
(* event writes a row per recipient in a transaction of its own, and the   *)
(* unread counts and the e-mail leave when that one commits                *)
(* (notification.service.ts, events-handler.service.ts, the emitting calls *)
(* of the task, folder and approval services).                             *)
(*                                                                         *)
(* One request is open at a time; handlers overlap it, each other and the  *)
(* calls of the notification centre.  An event is what decides who reads   *)
(* it: its kind and wording are left out.                                  *)
(***************************************************************************)
EXTENDS Integers, Sequences, FiniteSets

CONSTANTS Users,      \* ids with a row in users
          Outsider,   \* an id without one: nothing stops it from being assigned, mentioned or the caller
          Tasks, Folder, NoCall,
          Choices,                         \* bound: the sets of people a request may assign or mention
          MaxRequests, MaxOps, MaxEvents,  \* bounds: requests, operations of one, events emitted
          MaxVisits                        \* bound: calls of the notification centre

ASSUME NotificationsAssumption ==
    /\ Outsider \notin Users /\ Folder \notin Tasks /\ Choices \subseteq SUBSET (Users \cup {Outsider})
    /\ MaxRequests \in Nat /\ MaxOps \in Nat /\ MaxEvents \in Nat /\ MaxVisits \in Nat

VARIABLES
    people,     \* assignees and followers of what exists; the owner is the folder's assignee
    status,     \* NONE, ALIVE or GONE
    unticked,   \* some row of the folder's settings has a channel switched off
    call,       \* the open request: its copy of the rows and what its hooks will say
    events,     \* the events emitted
    handlers,   \* the handlers running, by event
    inbox,      \* notification
    badge,      \* the unread count each user was last sent
    jobs,       \* queued for the automations
    told,       \* ghost: whom an event gave a row
    mailed,     \* ghost: the events whose message went out
    committed,  \* ghost: the requests that committed
    excused,    \* ghost: users whose inbox changed under a count, or without one
    requests,   \* how many requests there were
    visits      \* how many calls of the notification centre

noticeVars == <<people, status, unticked, call, events, handlers, inbox, badge, jobs,
                told, mailed, committed, excused, requests, visits>>
centre == <<inbox, badge, told, mailed, excused, visits>>
rest == <<people, status, unticked, events, handlers, jobs, committed, requests, centre>>

People == Users \cup {Outsider}
Things == Tasks \cup {Folder}
Event == [about : Things, to : SUBSET People, by : People \cup {NoCall}, kind : {"PLAIN", "MENTION", "COMMENT"},
          owed : SUBSET People, request : 1..MaxRequests]
Unread(u) == Cardinality({r \in inbox : r.user = u /\ ~r.read})

(* Handlers that counted the rows of u and have not sent the count. *)
Counting(u) == {i \in DOMAIN handlers : u \in DOMAIN handlers[i].counts}

NoticeInit ==
    /\ status \in [Things -> {"NONE", "ALIVE"}] /\ status[Folder] = "ALIVE"
    /\ \E u \in Users :
        people = [x \in Things |-> [assignees |-> IF x = Folder THEN {u} ELSE {}, followers |-> {}]]
    /\ unticked = FALSE /\ call = NoCall /\ events = <<>> /\ handlers = <<>> /\ inbox = {}
    /\ badge = [u \in Users |-> 0] /\ jobs = {} /\ told = [i \in 1..MaxEvents |-> {}]
    /\ mailed = {} /\ committed = {} /\ excused = {} /\ requests = 0 /\ visits = 0

-----------------------------------------------------------------------------
(* A request: @Transactional of the outermost call, and its runOnTransactionCommit hooks. *)

Begin(u) ==
    /\ call = NoCall /\ requests < MaxRequests
    /\ requests' = requests + 1
    /\ call' = [by |-> u, people |-> people, status |-> status, out |-> <<>>, jobs |-> {}, ops |-> 0]
    /\ UNCHANGED <<people, status, unticked, events, handlers, jobs, committed, centre>>

Throw == call # NoCall /\ call' = NoCall /\ UNCHANGED rest

Handler(i) == [stage |-> "STARTED", linked |-> FALSE, left |-> events'[i].to, rows |-> {}, counts |-> <<>>]

(* Rows about what was deleted for good went with it, and nobody is sent a new count. *)
Commit ==
    LET lost == {r \in inbox : r.linked /\ call.status[events[r.event].about] = "GONE"}
        new == (Len(events) + 1)..(Len(events) + Len(call.out))
    IN  /\ call # NoCall
        /\ people' = call.people /\ status' = call.status
        /\ events' = events \o call.out
        /\ handlers' = [i \in DOMAIN handlers \cup new |-> IF i \in new THEN Handler(i) ELSE handlers[i]]
        /\ jobs' = jobs \cup call.jobs
        /\ committed' = committed \cup {requests}
        /\ inbox' = inbox \ lost /\ excused' = excused \cup {r.user : r \in lost}
        /\ call' = NoCall
        /\ UNCHANGED <<unticked, badge, told, mailed, requests, visits>>

(* getTaskNotificationRecipients, getFolderNotificationRecipients; the caller when there is nobody. *)
Recipients(x) == call.people[x].assignees \cup call.people[x].followers
OrTheCaller(to) == IF to = {} THEN {call.by} ELSE to

Says(x, to) == [about |-> x, to |-> to, by |-> call.by, kind |-> "PLAIN", owed |-> {}, request |-> requests]
Job(x) == IF call.by = Outsider THEN {} ELSE {[about |-> x, request |-> requests]}

Runs == call # NoCall /\ call.ops < MaxOps
Exists(x) == call.status[x] = "ALIVE"

\* mutant: the events leave with the operation, not with the commit
RegisterEmits(new, out, js) ==
    /\ Len(events) + Len(out) <= MaxEvents
    /\ call' = [call EXCEPT !.people = new, !.jobs = @ \cup js, !.ops = @ + 1]
    /\ events' = events \o out
    /\ handlers' = [i \in 1..Len(events') |-> IF i \in DOMAIN handlers THEN handlers[i] ELSE Handler(i)]
    /\ UNCHANGED <<people, status, unticked, jobs, committed, requests, centre>>

(* What an operation leaves for its commit: rows, events, jobs. *)
Register(new, out, js) ==
    /\ Len(events) + Len(call.out) + Len(out) <= MaxEvents
    /\ call' = [call EXCEPT !.people = new, !.out = @ \o out, !.jobs = @ \cup js, !.ops = @ + 1]
    /\ UNCHANGED rest

Followed(x, S) == [call.people EXCEPT ![x].followers = @ \cup S]

(* Whoever is assigned at creation does not follow; the followers asked for do, after the event. *)
CreateOneTask(x, assignees, followers) ==
    /\ Runs /\ call.status[x] = "NONE" /\ Len(events) + Len(call.out) < MaxEvents
    /\ LET new == [call.people EXCEPT ![x] = [assignees |-> assignees, followers |-> followers]]
       IN  call' = [call EXCEPT !.people = new, !.status[x] = "ALIVE", !.out = Append(@, Says(x, assignees)),
                                !.jobs = @ \cup Job(x), !.ops = @ + 1]
    /\ UNCHANGED rest

(* The added follow from now on; the removed go on following. *)
UpdateTaskAssignees(x, assignees) ==
    LET added == assignees \ call.people[x].assignees
        new == [Followed(x, added) EXCEPT ![x].assignees = assignees]
        to == new[x].assignees \cup new[x].followers
    IN  /\ Runs /\ Exists(x)
        /\ Register(new, <<Says(x, to)>>, IF assignees # call.people[x].assignees THEN Job(x) ELSE {})

(* One event for the title and one for the description; without the folder's id the hook throws
   and says nothing.  Whoever edits follows, and is not told unless he did before. *)
UpdateTask(x, edits, hasFolder, job) ==
    /\ Runs /\ Exists(x)
    /\ Register(Followed(x, {call.by}),
                IF hasFolder THEN [k \in 1..edits |-> Says(x, OrTheCaller(Recipients(x)))] ELSE <<>>,
                IF job THEN Job(x) ELSE {})

(* The sender of a tag's event is "userId: null", which finds any user. *)
AddTag(x) ==
    Runs /\ Exists(x) /\ Register(call.people, <<[Says(x, Recipients(x)) EXCEPT !.by = NoCall]>>, Job(x))
RemoveTag(x) == Runs /\ Exists(x) /\ Register(call.people, <<>>, Job(x))
ShareTask(x) == Runs /\ Exists(x) /\ Register(call.people, <<>>, Job(x))
UpdatePosition(x, job) ==
    Runs /\ Exists(x) /\ Register(call.people, <<Says(x, OrTheCaller(Recipients(x)))>>,
                                  IF job THEN Job(x) ELSE {})
ArchiveDeleteRestore(x) ==
    Runs /\ Exists(x) /\ Register(call.people, <<Says(x, OrTheCaller(Recipients(x)))>>, {})
Follow(x, u) ==
    Runs /\ Exists(x) /\ u \notin call.people[x].followers /\ Register(Followed(x, {u}), <<>>, {})
Unfollow(x, u) ==
    /\ Runs /\ Exists(x) /\ u \in call.people[x].followers
    /\ Register([call.people EXCEPT ![x].followers = @ \ {u}], <<>>, {})

(* The rows about the task go; a handler that wrote one and has not committed keeps it from going. *)
PermanentDelete(x) ==
    /\ Runs /\ Exists(x) /\ Len(events) + Len(call.out) < MaxEvents
    /\ \A i \in DOMAIN handlers : (events[i].about = x /\ handlers[i].linked) => handlers[i].rows = {}
    /\ call' = [call EXCEPT !.people[x] = [assignees |-> {}, followers |-> {}], !.status[x] = "GONE",
                            !.out = Append(@, Says(x, OrTheCaller(Recipients(x)))), !.ops = @ + 1]
    /\ UNCHANGED rest

\* mutant: the mentioned hear the comment as the others do, too
CommentTwice(x, mentioned, joined) ==
    LET audience == Recipients(x)
        others == <<[Says(x, audience) EXCEPT !.kind = "COMMENT", !.owed = audience]>>
    IN  /\ Runs /\ Exists(x) /\ joined \subseteq mentioned
        /\ Register(Followed(x, {call.by} \cup joined),
                    IF mentioned = {} THEN others ELSE <<[Says(x, mentioned) EXCEPT !.kind = "MENTION"]>> \o others, Job(x))

(* Two events, one for the mentioned and one for the rest.  The author follows; of the mentioned
   those whose insertion, which nobody awaits, got in before the commit. *)
Comment(x, mentioned, joined) ==
    LET audience == Recipients(x)
        others == <<[Says(x, audience \ mentioned) EXCEPT !.kind = "COMMENT", !.owed = audience]>>
    IN  /\ Runs /\ Exists(x) /\ joined \subseteq mentioned
        /\ Register(Followed(x, {call.by} \cup joined),
                    IF mentioned = {} THEN others ELSE <<[Says(x, mentioned) EXCEPT !.kind = "MENTION"]>> \o others, Job(x))

(* Approvals and added attachments: nobody to tell, nobody told.  A removed attachment tells nobody. *)
ApprovalEvent(x) == Runs /\ Exists(x) /\ Register(call.people, <<Says(x, Recipients(x))>>, {})
DeleteAttachment(x) == Runs /\ Exists(x) /\ Register(call.people, <<Says(x, {})>>, {})

(* Folder: owner and followers hear of it, of an archive the first of them, of a new owner only he. *)
FolderCreatedOrRemoved ==
    Runs /\ Register(call.people, <<Says(Folder, OrTheCaller(Recipients(Folder)))>>, {})
FolderUpdated(edits) ==
    Runs /\ Register(call.people, [k \in 1..edits |-> Says(Folder, OrTheCaller(Recipients(Folder)))], {})
FolderMembersChanged == Runs /\ Register(call.people, <<Says(Folder, Recipients(Folder))>>, {})
FolderArchived(first) == Runs /\ first \in Recipients(Folder) /\ Register(call.people, <<Says(Folder, {first})>>, {})
FolderOwnerChanged(u) ==
    /\ Runs
    /\ Register([call.people EXCEPT ![Folder].assignees = {u}],
                <<[Says(Folder, {u}) EXCEPT !.by = CHOOSE o \in call.people[Folder].assignees : TRUE]>>, {})

(* Following a folder follows its tasks. *)
FollowFolder(u) ==
    /\ Runs /\ u \notin call.people[Folder].followers
    /\ Register([x \in Things |-> IF Exists(x) THEN [call.people[x] EXCEPT !.followers = @ \cup {u}]
                                  ELSE call.people[x]], <<>>, {})
UnfollowFolder(u) ==
    /\ Runs /\ u \in call.people[Folder].followers
    /\ Register([x \in Things |-> [call.people[x] EXCEPT !.followers = @ \ {u}]], <<>>, {})

Operation ==
    \/ \E x \in Tasks :
        \/ \E A \in Choices, F \in {{}} \cup {{u} : u \in Users} : CreateOneTask(x, A, F)
        \/ \E A \in Choices : UpdateTaskAssignees(x, A)
        \/ \E n \in 0..2, hasFolder \in BOOLEAN, job \in BOOLEAN : UpdateTask(x, n, hasFolder, job)
        \/ AddTag(x) \/ RemoveTag(x) \/ ShareTask(x) \/ ArchiveDeleteRestore(x) \/ PermanentDelete(x)
        \/ \E job \in BOOLEAN : UpdatePosition(x, job)
        \/ \E u \in Users : Follow(x, u) \/ Unfollow(x, u)
        \/ \E M \in Choices : \E J \in SUBSET (M \cap Users) : Comment(x, M, J)
        \/ ApprovalEvent(x) \/ DeleteAttachment(x)
    \/ FolderCreatedOrRemoved \/ FolderMembersChanged
    \/ \E n \in 1..2 : FolderUpdated(n)
    \/ \E u \in People : FolderArchived(u)
    \/ \E u \in Users : FolderOwnerChanged(u) \/ FollowFolder(u) \/ UnfollowFolder(u)

-----------------------------------------------------------------------------
(* A handler: NotificationService.create, one transaction. *)

(* The handler is through, or its catch logs the error: every one of them is the same try block. *)
Gone(i) == handlers' = [j \in DOMAIN handlers \ {i} |-> handlers[j]]
Logged(i) == Gone(i)
Stays == UNCHANGED <<people, status, unticked, call, events, jobs, committed, requests>>

(* Finds the sender, what the event is about and the folder's settings.  Without a sender it
   throws; so it does when the folder's owner is a recipient and a channel is switched off, as the
   settings are looked up by the folder's owner and come without their user. *)
Prepare(i) ==
    /\ handlers[i].stage = "STARTED"
    /\ IF \/ events[i].by = Outsider
          \/ unticked /\ people[Folder].assignees \cap events[i].to # {}
       THEN Logged(i)
       ELSE handlers' = [handlers EXCEPT ![i].stage = "WRITING",
                                         ![i].linked = (status[events[i].about] = "ALIVE")]
    /\ Stays /\ UNCHANGED centre

(* The row of the next recipient, and his unread rows: the committed ones and the handler's. *)
MayWrite(i) ==
    /\ handlers[i].stage = "WRITING"
    /\ (handlers[i].linked /\ call # NoCall) => call.status[events[i].about] # "GONE"

\* mutant: the rows are counted before the row is written
DeliverCountFirst(i, u) ==
    /\ MayWrite(i) /\ u \in handlers[i].left \cap Users
    /\ ~handlers[i].linked \/ status[events[i].about] = "ALIVE"
    /\ handlers' = [handlers EXCEPT ![i].left = @ \ {u}, ![i].rows = @ \cup {u},
                        ![i].counts = [w \in DOMAIN @ \cup {u} |-> IF w = u THEN Unread(u) ELSE @[w]]]
    /\ Stays /\ UNCHANGED centre

\* mutant: a row is committed as it is written
DeliverAtOnce(i, u) ==
    /\ MayWrite(i) /\ u \in handlers[i].left \cap Users
    /\ ~handlers[i].linked \/ status[events[i].about] = "ALIVE"
    /\ handlers' = [handlers EXCEPT ![i].left = @ \ {u}]
    /\ inbox' = inbox \cup {[event |-> i, user |-> u, read |-> FALSE, linked |-> handlers[i].linked]}
    /\ told' = [told EXCEPT ![i] = @ \cup {u}]
    /\ Stays /\ UNCHANGED <<badge, mailed, excused, visits>>

Deliver(i, u) ==
    /\ MayWrite(i) /\ u \in handlers[i].left \cap Users
    /\ ~handlers[i].linked \/ status[events[i].about] = "ALIVE"
    /\ handlers' = [handlers EXCEPT ![i].left = @ \ {u}, ![i].rows = @ \cup {u},
                        ![i].counts = [w \in DOMAIN @ \cup {u} |-> IF w = u THEN Unread(u) + 1 ELSE @[w]]]
    /\ Stays /\ UNCHANGED centre

(* findOneOrFail of a recipient without a row, or a row that refers to what is gone by now: the
   transaction rolls back and the error is logged. *)
DeliverFails(i) ==
    /\ MayWrite(i)
    /\ \/ Outsider \in handlers[i].left
       \/ handlers[i].left # {} /\ handlers[i].linked /\ status[events[i].about] = "GONE"
    /\ Logged(i) /\ Stays /\ UNCHANGED centre

(* Whoever is being counted by another handler will be sent a count without these rows. *)
Finish(i) ==
    /\ handlers[i].stage = "WRITING" /\ handlers[i].left = {}
    /\ inbox' = inbox \cup {[event |-> i, user |-> u, read |-> FALSE, linked |-> handlers[i].linked] : u \in handlers[i].rows}
    /\ told' = [told EXCEPT ![i] = @ \cup handlers[i].rows]
    /\ excused' = excused \cup {u \in handlers[i].rows : Counting(u) # {i}}
    /\ handlers' = [handlers EXCEPT ![i].stage = "SENDING"]
    /\ Stays /\ UNCHANGED <<badge, mailed, visits>>

(* The hooks of that commit: the counts, then the message to the web sockets and by e-mail. *)
Send(i) ==
    /\ handlers[i].stage = "SENDING"
    /\ badge' = [u \in Users |-> IF u \in DOMAIN handlers[i].counts THEN handlers[i].counts[u] ELSE badge[u]]
    /\ mailed' = mailed \cup {i}
    /\ Gone(i) /\ Stays /\ UNCHANGED <<inbox, told, excused, visits>>

(* The process stops: its transactions roll back, what it had still to send is lost. *)
Die ==
    /\ call # NoCall \/ DOMAIN handlers # {}
    /\ excused' = excused \cup UNION {DOMAIN handlers[i].counts : i \in {j \in DOMAIN handlers : handlers[j].stage = "SENDING"}}
    /\ call' = NoCall /\ handlers' = <<>>
    /\ UNCHANGED <<people, status, unticked, events, jobs, committed, requests, inbox, badge, told, mailed, visits>>

-----------------------------------------------------------------------------
(* The notification centre.  A row is found by its id alone; the count sent is the caller's. *)

Api ==
    /\ visits < MaxVisits /\ visits' = visits + 1
    /\ UNCHANGED <<people, status, call, events, handlers, jobs, committed, requests, told, mailed>>
Counted(u, caller) == excused' = excused \cup (IF u # caller \/ Counting(u) # {} THEN {u} ELSE {})
Sent(caller) == badge' = [badge EXCEPT ![caller] = Cardinality({r \in inbox' : r.user = caller /\ ~r.read})]

(* read, unread *)
Mark(r, read, caller) ==
    /\ inbox' = (inbox \ {r}) \cup {[r EXCEPT !.read = read]}
    /\ Counted(r.user, caller) /\ Sent(caller)
    /\ Api /\ UNCHANGED unticked

(* readAll sends no count *)
ReadAll(caller) ==
    /\ inbox' = {IF r.user = caller THEN [r EXCEPT !.read = TRUE] ELSE r : r \in inbox}
    /\ excused' = excused \cup {caller}
    /\ Api /\ UNCHANGED <<unticked, badge>>

(* delete finds the row once more instead of deleting it *)
DeleteNotification(caller) == inbox # {} /\ UNCHANGED <<unticked, inbox, excused>> /\ Sent(caller) /\ Api

SetFolderNotificationsPreferences(off) == unticked' = off /\ Api /\ UNCHANGED <<inbox, badge, excused>>

Centre ==
    \/ \E r \in inbox, read \in BOOLEAN, u \in Users : Mark(r, read, u)
    \/ \E u \in Users : ReadAll(u) \/ DeleteNotification(u)
    \/ \E off \in BOOLEAN : SetFolderNotificationsPreferences(off)

NoticeNext ==
    \/ \E u \in People : Begin(u)
    \/ Operation \/ Commit \/ Throw
    \/ \E i \in DOMAIN handlers : Prepare(i) \/ (\E u \in Users : Deliver(i, u)) \/ DeliverFails(i) \/ Finish(i) \/ Send(i)
    \/ Die \/ Centre

NoticeSpec == NoticeInit /\ [][NoticeNext]_noticeVars

-----------------------------------------------------------------------------
(* An event gives a row to each of its recipients or to none of them, and its message goes out only
   when they have their rows: one recipient without an account, a task deleted in between or a
   restart never tells half of them (create is one transaction, the message a hook of its commit). *)
AllOrNone ==
    \A i \in DOMAIN events :
        /\ told[i] \in {{}, events[i].to}
        /\ i \in mailed => told[i] = events[i].to

(* The number at the bell is the number of unread rows once no handler is about to send another,
   for everyone whose inbox did not change while it was counted or without being counted
   (sendUnReadNotificationCount). *)
BadgeRight == \A u \in Users \ excused : Counting(u) = {} => badge[u] = Unread(u)

(* Nobody is told of, and no automation runs on, a change that was rolled back: events and jobs are
   those of committed requests (runOnTransactionCommit). *)
OnlyCommitted ==
    /\ \A i \in DOMAIN events : events[i].request \in committed
    /\ \A j \in jobs : j.request \in committed

(* A comment reaches whoever is assigned or follows, and nobody reads of it twice, once as mentioned
   and once as a follower (task-action-base comment). *)
HeardOnce ==
    \A i \in DOMAIN events : events[i].kind = "COMMENT" =>
        LET m == IF i > 1 /\ events[i - 1].kind = "MENTION" THEN i - 1 ELSE 0
        IN  /\ events[i].owed \subseteq (events[i].to \cup (IF m = 0 THEN {} ELSE events[m].to))
            /\ m # 0 => events[i].to \cap events[m].to = {}
=============================================================================
