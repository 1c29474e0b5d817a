---------------------------- MODULE Notices_proofs ----------------------------
(***************************************************************************)
(* Proofs about Notifications, for any users, tasks and choices of people, *)
(* and any bounds, and, further down, about Dashboards, for any users,     *)
(* dashboards, widgets, folders and slots, and any number of calls.        *)
(***************************************************************************)
EXTENDS Notifications, Dashboards, FiniteSetTheorems, SequenceTheorems, TLAPS

-----------------------------------------------------------------------------
(* Notifications: the inductive invariant *)

Persons == [Things -> [assignees : SUBSET People, followers : SUBSET People]]
Statuses == [Things -> {"NONE", "ALIVE", "GONE"}]
Owned(p) == p[Folder].assignees # {}
AJob == [about : Things, request : 1..MaxRequests]
Counts == UNION {[S -> Int] : S \in SUBSET Users}
Progress == [stage : {"STARTED", "WRITING", "SENDING"}, linked : BOOLEAN, left : SUBSET People,
             rows : SUBSET Users, counts : Counts]
Request == [by : People, people : Persons, status : Statuses, out : Seq(Event), jobs : SUBSET AJob, ops : 0..MaxOps]
Row == [event : 1..MaxEvents, user : Users, read : BOOLEAN, linked : BOOLEAN]

NoticeType ==
    /\ people \in Persons /\ Owned(people) /\ status \in Statuses /\ unticked \in BOOLEAN
    /\ events \in Seq(Event) /\ Len(events) <= MaxEvents
    /\ DOMAIN handlers \subseteq 1..Len(events) /\ handlers \in [DOMAIN handlers -> Progress]
    /\ inbox \subseteq Row /\ IsFiniteSet(inbox)
    /\ badge \in [Users -> Int] /\ jobs \subseteq AJob
    /\ told \in [1..MaxEvents -> SUBSET People] /\ mailed \subseteq 1..MaxEvents
    /\ committed \subseteq 1..MaxRequests /\ excused \subseteq Users
    /\ requests \in 0..MaxRequests /\ visits \in 0..MaxVisits
    /\ call # NoCall => /\ call \in Request /\ Owned(call.people) /\ requests # 0
                        /\ Len(events) + Len(call.out) <= MaxEvents

(* A comment's event follows that of its mentioned, and nothing ends on the event of the mentioned:
   two such sequences make another. *)
CommentHeard(q, i) ==
    q[i].kind = "COMMENT" =>
        LET m == IF i > 1 /\ q[i - 1].kind = "MENTION" THEN i - 1 ELSE 0
        IN  /\ q[i].owed \subseteq (q[i].to \cup (IF m = 0 THEN {} ELSE q[m].to))
            /\ m # 0 => q[i].to \cap q[m].to = {}
WellHeard(q) ==
    /\ \A i \in 1..Len(q) : CommentHeard(q, i)
    /\ Len(q) > 0 => q[Len(q)].kind # "MENTION"

(* The open request speaks for itself alone. *)
SpeaksForItself ==
    call # NoCall =>
        /\ WellHeard(call.out)
        /\ \A k \in 1..Len(call.out) : call.out[k].request = requests
        /\ \A j \in call.jobs : j.request = requests

(* Where a handler is, and what has come of its event. *)
Untold(i) == told[i] = {} /\ i \notin mailed /\ \A r \in inbox : r.event # i
InStage(i) ==
    LET h == handlers[i] IN
    /\ h.stage = "STARTED" => Untold(i) /\ h.rows = {} /\ h.left = events[i].to
    /\ h.stage = "WRITING" => Untold(i) /\ h.rows \cup h.left = events[i].to
    /\ h.stage = "SENDING" => told[i] = events[i].to
    /\ DOMAIN h.counts = h.rows /\ IsFiniteSet(h.rows)
HandlersInStage ==
    /\ \A i \in DOMAIN handlers : InStage(i)
    /\ \A i \in 1..MaxEvents : i > Len(events) => Untold(i)

(* What a handler has counted is still right, and so is the badge unless a count is on its way. *)
CountRight(u, i) ==
    /\ handlers[i].stage = "WRITING" => handlers[i].counts[u] = Unread(u) + 1
    /\ handlers[i].stage = "SENDING" => handlers[i].counts[u] = Unread(u)
CountsRight ==
    \A u \in Users \ excused :
        /\ \A i \in Counting(u) : CountRight(u, i)
        /\ (\A i \in Counting(u) : handlers[i].stage # "SENDING") => badge[u] = Unread(u)

NoticeInv ==
    NoticeType /\ SpeaksForItself /\ OnlyCommitted /\ WellHeard(events) /\ AllOrNone /\ HandlersInStage /\ CountsRight

-----------------------------------------------------------------------------
(* Sequences of events *)

(* What follows a well-formed sequence of events can be well-formed by itself. *)
LEMMA HeardTogether ==
    ASSUME NEW q \in Seq(Event), NEW r \in Seq(Event), WellHeard(q), WellHeard(r)
    PROVE  WellHeard(q \o r)
<1>1. /\ q \o r \in Seq(Event) /\ Len(q \o r) = Len(q) + Len(r)
      /\ \A i \in 1..(Len(q) + Len(r)) : (q \o r)[i] = IF i <= Len(q) THEN q[i] ELSE r[i - Len(q)]
  BY ConcatProperties
<1>2. Len(q) \in Nat /\ Len(r) \in Nat
  OBVIOUS
<1>3. ASSUME NEW i \in 1..Len(q \o r)  PROVE CommentHeard(q \o r, i)
  <2>1. CASE i <= Len(q)
    <3>1. CommentHeard(q, i)
      BY <1>1, <1>2, <1>3, <2>1 DEF WellHeard
    <3>2. (q \o r)[i] = q[i] /\ (i > 1 => (q \o r)[i - 1] = q[i - 1])
      BY <1>1, <1>2, <1>3, <2>1
    <3> QED  BY <1>1, <1>2, <2>1, <3>1, <3>2 DEF CommentHeard
  <2>2. CASE i = Len(q) + 1
    <3>1. CommentHeard(r, 1) /\ (q \o r)[i] = r[1]
      BY <1>1, <1>2, <1>3, <2>2 DEF WellHeard
    <3>2. i > 1 => (q \o r)[i - 1].kind # "MENTION"
      BY <1>1, <1>2, <1>3, <2>2 DEF WellHeard
    <3> QED  BY <3>1, <3>2 DEF CommentHeard
  <2>3. CASE i > Len(q) + 1
    <3> DEFINE j == i - Len(q)
    <3>1. j \in 1..Len(r) /\ j > 1 /\ i > 1 /\ j - 1 = (i - 1) - Len(q) /\ i - 1 > Len(q)
      BY <1>1, <1>2, <1>3, <2>3
    <3>2. CommentHeard(r, j) /\ (q \o r)[i] = r[j] /\ (q \o r)[i - 1] = r[j - 1]
      BY <1>1, <1>2, <1>3, <3>1 DEF WellHeard
    <3> HIDE DEF j
    <3> QED  BY <3>1, <3>2 DEF CommentHeard
  <2> QED  BY <1>1, <1>2, <1>3, <2>1, <2>2, <2>3
<1>4. Len(q \o r) > 0 => (q \o r)[Len(q \o r)].kind # "MENTION"
  <2>1. CASE Len(r) > 0
    BY <1>1, <1>2, <2>1 DEF WellHeard
  <2>2. CASE Len(r) = 0
    BY <1>1, <1>2, <2>2 DEF WellHeard
  <2> QED  BY <1>2, <2>1, <2>2
<1> QED  BY <1>3, <1>4 DEF WellHeard

(* An operation says nothing, one thing, the same thing several times, or two things of which the
   second is a comment. *)
Speech(out) ==
    /\ out \in Seq(Event) /\ WellHeard(out)
    /\ \A k \in 1..Len(out) : out[k].request = requests

LEMMA SaysNothing == Speech(<<>>)
BY DEF Speech, WellHeard

LEMMA SaysOne ==
    ASSUME NEW e \in Event, e.kind = "PLAIN", e.request = requests
    PROVE  Speech(<<e>>)
<1>1. <<e>> \in Seq(Event) /\ Len(<<e>>) = 1 /\ <<e>>[1] = e
  OBVIOUS
<1> QED  BY <1>1 DEF Speech, WellHeard, CommentHeard

LEMMA SaysAgain ==
    ASSUME NEW e \in Event, e.kind = "PLAIN", e.request = requests, NEW n \in Nat
    PROVE  Speech([k \in 1..n |-> e]) /\ Len([k \in 1..n |-> e]) = n
<1> DEFINE q == [k \in 1..n |-> e]
<1>1. q \in Seq(Event) /\ Len(q) = n
  BY IsASeq
<1>2. \A k \in 1..n : q[k] = e
  OBVIOUS
<1> HIDE DEF q
<1>3. WellHeard(q)
  BY <1>1, <1>2 DEF WellHeard, CommentHeard
<1>4. Speech(q)
  BY <1>1, <1>2, <1>3 DEF Speech
<1> QED  BY <1>1, <1>4 DEF q

-----------------------------------------------------------------------------
(* The operations of a request: they change what it holds and nothing else *)

(* A step of the request alone keeps everything about the rest. *)
LEMMA RequestAlone ==
    ASSUME NoticeInv, UNCHANGED rest,
           call' # NoCall => /\ call' \in Request /\ Owned(call'.people) /\ requests # 0
                             /\ Len(events) + Len(call'.out) <= MaxEvents
                             /\ Speech(call'.out) /\ \A j \in call'.jobs : j.request = requests
    PROVE  NoticeInv'
<1> USE DEF rest, centre
<1>1. NoticeType'
  BY DEF NoticeInv, NoticeType
<1>2. SpeaksForItself'
  BY DEF SpeaksForItself, Speech
<1>3. OnlyCommitted' /\ WellHeard(events)' /\ AllOrNone'
  BY DEF NoticeInv, OnlyCommitted, AllOrNone
<1>4. HandlersInStage'
  BY DEF NoticeInv, HandlersInStage, InStage, Untold
<1>5. CountsRight'
  BY DEF NoticeInv, CountsRight, CountRight, Counting, Unread
<1> QED  BY <1>1, <1>2, <1>3, <1>4, <1>5 DEF NoticeInv

(* The open request is well-formed, and so are the people it would tell. *)
LEMMA Opened ==
    ASSUME NoticeInv, call # NoCall
    PROVE  /\ call \in Request /\ Owned(call.people) /\ requests \in 1..MaxRequests
           /\ Speech(call.out) /\ Len(call.out) \in Nat /\ Len(events) \in Nat
           /\ \A j \in call.jobs : j.request = requests
           /\ MaxEvents \in Nat /\ MaxOps \in Nat
BY NotificationsAssumption DEF NoticeInv, NoticeType, SpeaksForItself, Speech, Request

LEMMA Told ==
    ASSUME NoticeInv, call # NoCall, NEW x \in Things
    PROVE  Recipients(x) \in SUBSET People /\ OrTheCaller(Recipients(x)) \in SUBSET People
BY Opened DEF Request, Persons, Recipients, OrTheCaller

LEMMA SaysIsEvent ==
    ASSUME NoticeInv, call # NoCall, NEW x \in Things, NEW to \in SUBSET People
    PROVE  Says(x, to) \in Event /\ Says(x, to).kind = "PLAIN" /\ Says(x, to).request = requests
<1>1. call.by \in People /\ requests \in 1..MaxRequests
  BY Opened DEF Request
<1> QED  BY <1>1 DEF Says, Event

LEMMA JobIsJob ==
    ASSUME NoticeInv, call # NoCall, NEW x \in Things
    PROVE  Job(x) \in SUBSET AJob /\ \A j \in Job(x) : j.request = requests
BY Opened DEF Job, AJob

(* What every operation leaves to the commit is well-formed. *)
LEMMA GoesOn ==
    ASSUME NoticeInv, Runs, UNCHANGED rest,
           NEW new \in Persons, Owned(new), NEW st \in Statuses, NEW out, Speech(out),
           NEW js \in SUBSET AJob, \A j \in js : j.request = requests,
           Len(events) + Len(call.out) + Len(out) <= MaxEvents,
           call' = [call EXCEPT !.people = new, !.status = st, !.out = @ \o out, !.jobs = @ \cup js, !.ops = @ + 1]
    PROVE  NoticeInv'
<1>1. /\ call \in Request /\ requests \in 1..MaxRequests /\ Speech(call.out) /\ call # NoCall
      /\ \A j \in call.jobs : j.request = requests
  BY Opened DEF Runs
<1>2. /\ call.out \o out \in Seq(Event) /\ Len(call.out \o out) = Len(call.out) + Len(out)
      /\ \A k \in 1..(Len(call.out) + Len(out)) :
            (call.out \o out)[k] = IF k <= Len(call.out) THEN call.out[k] ELSE out[k - Len(call.out)]
  BY <1>1, ConcatProperties DEF Speech
<1>3. WellHeard(call.out \o out)
  BY <1>1, HeardTogether DEF Speech
<1>4. Len(call.out) \in Nat /\ Len(out) \in Nat /\ Len(events) \in Nat
  BY <1>1 DEF Speech, NoticeInv, NoticeType
<1>5. \A k \in 1..Len(call.out \o out) : (call.out \o out)[k].request = requests
  BY <1>1, <1>2, <1>4 DEF Speech
<1>6. call.ops + 1 \in 0..MaxOps
  BY <1>1, Opened DEF Request, Runs
<1>7. call' \in Request
  BY <1>1, <1>2, <1>6 DEF Request
<1>8. /\ call'.people = new /\ call'.out = call.out \o out /\ call'.jobs = call.jobs \cup js
  BY <1>1 DEF Request
<1> QED  BY RequestAlone, <1>1, <1>2, <1>3, <1>4, <1>5, <1>7, <1>8 DEF Speech

LEMMA Registered ==
    ASSUME NoticeInv, Runs, NEW new \in Persons, Owned(new), NEW out, Speech(out),
           NEW js \in SUBSET AJob, \A j \in js : j.request = requests, Register(new, out, js)
    PROVE  NoticeInv'
<1>1. call \in Request /\ call.status \in Statuses
  BY Opened DEF Request, Runs
<1>2. call' = [call EXCEPT !.people = new, !.status = call.status, !.out = @ \o out, !.jobs = @ \cup js, !.ops = @ + 1]
  BY <1>1 DEF Register, Request
<1>3. UNCHANGED rest /\ Len(events) + Len(call.out) + Len(out) <= MaxEvents
  BY DEF Register
<1> QED  BY <1>1, <1>2, <1>3, GoesOn

(* Whoever comes to follow, or is assigned, is a person; the folder keeps an owner. *)
LEMMA FollowedType ==
    ASSUME NoticeInv, call # NoCall, NEW x \in Things, NEW S \in SUBSET People
    PROVE  Followed(x, S) \in Persons /\ Owned(Followed(x, S))
<1>1. call.people \in Persons /\ Owned(call.people) /\ Folder \in Things
  BY Opened DEF Request, Things
<1> QED  BY <1>1 DEF Followed, Persons, Owned

LEMMA SameType ==
    ASSUME NoticeInv, call # NoCall
    PROVE  /\ call.people \in Persons /\ Owned(call.people)
           /\ {} \in SUBSET AJob /\ \A j \in {} : j.request = requests
BY Opened DEF Request

(* An operation that tells the recipients of x changes who follows it and queues at most a job. *)
LEMMA Announced ==
    ASSUME NoticeInv, Runs, NEW x \in Things, NEW new \in Persons, Owned(new), NEW to \in SUBSET People,
           NEW js \in {{}, Job(x)}, Register(new, <<Says(x, to)>>, js)
    PROVE  NoticeInv'
<1>1. call # NoCall
  BY DEF Runs
<1>2. Speech(<<Says(x, to)>>)
  BY <1>1, SaysIsEvent, SaysOne
<1>3. js \in SUBSET AJob /\ \A j \in js : j.request = requests
  BY <1>1, JobIsJob
<1> QED  BY <1>2, <1>3, Registered

LEMMA Unannounced ==
    ASSUME NoticeInv, Runs, NEW x \in Things, NEW new \in Persons, Owned(new),
           NEW js \in {{}, Job(x)}, Register(new, <<>>, js)
    PROVE  NoticeInv'
<1>1. js \in SUBSET AJob /\ \A j \in js : j.request = requests
  BY JobIsJob DEF Runs
<1> QED  BY <1>1, SaysNothing, Registered

LEMMA AnnouncedOften ==
    ASSUME NoticeInv, Runs, NEW x \in Things, NEW new \in Persons, Owned(new), NEW n \in Nat,
           NEW to \in SUBSET People, NEW js \in {{}, Job(x)}, Register(new, [k \in 1..n |-> Says(x, to)], js)
    PROVE  NoticeInv'
<1>1. call # NoCall
  BY DEF Runs
<1>2. Speech([k \in 1..n |-> Says(x, to)])
  BY <1>1, SaysIsEvent, SaysAgain
<1>3. js \in SUBSET AJob /\ \A j \in js : j.request = requests
  BY <1>1, JobIsJob
<1> QED  BY <1>2, <1>3, Registered

LEMMA CreateInv ==
    ASSUME NoticeInv, NEW x \in Tasks, NEW A \in SUBSET People, NEW F \in SUBSET People, CreateOneTask(x, A, F)
    PROVE  NoticeInv'
<1> DEFINE new == [call.people EXCEPT ![x] = [assignees |-> A, followers |-> F]]
           st == [call.status EXCEPT ![x] = "ALIVE"]
<1>1. Runs /\ call # NoCall /\ x \in Things /\ x # Folder
  BY NotificationsAssumption DEF CreateOneTask, Runs, Things
<1>2. call \in Request /\ Owned(call.people) /\ call.people \in Persons /\ call.status \in Statuses
      /\ call.out \in Seq(Event)
  BY <1>1, Opened DEF Request
<1>3. new \in Persons /\ Owned(new) /\ st \in Statuses
  BY <1>1, <1>2 DEF Persons, Owned, Statuses
<1>4. Says(x, A) \in Event /\ Speech(<<Says(x, A)>>)
  BY <1>1, SaysIsEvent, SaysOne
<1>5. Append(call.out, Says(x, A)) = call.out \o <<Says(x, A)>> /\ Len(<<Says(x, A)>>) = 1
  BY <1>2, <1>4, AppendIsConcat
<1>6. call' = [call EXCEPT !.people = new, !.status = st, !.out = @ \o <<Says(x, A)>>,
                           !.jobs = @ \cup Job(x), !.ops = @ + 1]
  BY <1>2, <1>5 DEF CreateOneTask, Request
<1>7. Len(events) + Len(call.out) + Len(<<Says(x, A)>>) <= MaxEvents /\ UNCHANGED rest
  BY <1>1, <1>5, Opened DEF CreateOneTask
<1>8. Job(x) \in SUBSET AJob /\ \A j \in Job(x) : j.request = requests
  BY <1>1, JobIsJob
<1> HIDE DEF new, st
<1> QED  BY <1>1, <1>3, <1>4, <1>6, <1>7, <1>8, GoesOn

LEMMA PermanentDeleteInv ==
    ASSUME NoticeInv, NEW x \in Tasks, PermanentDelete(x)
    PROVE  NoticeInv'
<1> DEFINE new == [call.people EXCEPT ![x] = [assignees |-> {}, followers |-> {}]]
           st == [call.status EXCEPT ![x] = "GONE"]
           e == Says(x, OrTheCaller(Recipients(x)))
<1>1. Runs /\ call # NoCall /\ x \in Things /\ x # Folder
  BY NotificationsAssumption DEF PermanentDelete, Runs, Things
<1>2. call \in Request /\ Owned(call.people) /\ call.people \in Persons /\ call.status \in Statuses
      /\ call.out \in Seq(Event)
  BY <1>1, Opened DEF Request
<1>3. new \in Persons /\ Owned(new) /\ st \in Statuses
  <2>1. [assignees |-> {}, followers |-> {}] \in [assignees : SUBSET People, followers : SUBSET People]
    OBVIOUS
  <2>2. new \in Persons /\ st \in Statuses
    BY <1>1, <1>2, <2>1 DEF Persons, Statuses
  <2>3. Folder \in Things /\ new[Folder] = call.people[Folder]
    BY <1>1, <1>2 DEF Persons, Things
  <2> QED  BY <1>2, <2>2, <2>3 DEF Owned
<1>4. e \in Event /\ Speech(<<e>>)
  BY <1>1, Told, SaysIsEvent, SaysOne
<1>5. Append(call.out, e) = call.out \o <<e>> /\ Len(<<e>>) = 1
  BY <1>2, <1>4, AppendIsConcat
<1>6. call' = [call EXCEPT !.people = new, !.status = st, !.out = @ \o <<e>>, !.jobs = @ \cup {}, !.ops = @ + 1]
  <2>1. call' = [call EXCEPT !.people = new, !.status = st, !.out = Append(@, e), !.ops = @ + 1]
    BY <1>2 DEF PermanentDelete, Request
  <2> HIDE DEF new, st, e
  <2> QED  BY <1>2, <1>5, <2>1 DEF Request
<1>7. Len(events) + Len(call.out) + Len(<<e>>) <= MaxEvents /\ UNCHANGED rest
  BY <1>1, <1>5, Opened DEF PermanentDelete
<1> HIDE DEF new, st, e
<1> QED  BY <1>1, <1>3, <1>4, <1>6, <1>7, SameType, GoesOn

(* A comment tells the mentioned, then the others. *)
LEMMA CommentInv ==
    ASSUME NoticeInv, NEW x \in Tasks, NEW M \in SUBSET People, NEW J \in SUBSET M, Comment(x, M, J)
    PROVE  NoticeInv'
<1> DEFINE audience == Recipients(x)
           e == [Says(x, audience \ M) EXCEPT !.kind = "COMMENT", !.owed = audience]
           f == [Says(x, M) EXCEPT !.kind = "MENTION"]
           out == IF M = {} THEN <<e>> ELSE <<f>> \o <<e>>
<1>1. Runs /\ call # NoCall /\ x \in Things
  BY DEF Comment, Runs, Things
<1>2. call.by \in People /\ requests \in 1..MaxRequests /\ audience \in SUBSET People
  BY <1>1, Opened, Told DEF Request
<1>3. /\ e \in Event /\ e.kind = "COMMENT" /\ e.to = audience \ M /\ e.owed = audience /\ e.request = requests
      /\ f \in Event /\ f.kind = "MENTION" /\ f.to = M /\ f.request = requests
  BY <1>1, <1>2 DEF Says, Event
<1> HIDE DEF e, f, audience
<1>4. Speech(out)
  <2>1. CASE M = {}
    <3>1. <<e>> \in Seq(Event) /\ Len(<<e>>) = 1 /\ <<e>>[1] = e /\ out = <<e>>
      BY <1>3, <2>1
    <3> HIDE DEF out
    <3> QED  BY <1>3, <2>1, <3>1 DEF Speech, WellHeard, CommentHeard
  <2>2. CASE M # {}
    <3>1. /\ <<f>> \in Seq(Event) /\ Len(<<f>>) = 1 /\ <<f>>[1] = f
          /\ <<e>> \in Seq(Event) /\ Len(<<e>>) = 1 /\ <<e>>[1] = e
      BY <1>3
    <3>2. Len(out) = 2 /\ out[1] = f /\ out[2] = e /\ out \in Seq(Event)
      BY <2>2, <3>1, ConcatProperties
    <3> HIDE DEF out
    <3>3. CommentHeard(out, 1) /\ CommentHeard(out, 2)
      BY <1>3, <3>2 DEF CommentHeard
    <3>4. WellHeard(out)
      BY <1>3, <3>2, <3>3 DEF WellHeard
    <3> QED  BY <1>3, <3>2, <3>4 DEF Speech
  <2> QED  BY <2>1, <2>2
<1>5. Register(Followed(x, {call.by} \cup J), out, Job(x))
  BY DEF Comment, e, f, audience
<1>6. {call.by} \cup J \in SUBSET People
  BY <1>2
<1>7. Followed(x, {call.by} \cup J) \in Persons /\ Owned(Followed(x, {call.by} \cup J))
  BY <1>1, <1>6, FollowedType
<1>8. Job(x) \in SUBSET AJob /\ \A j \in Job(x) : j.request = requests
  BY <1>1, JobIsJob
<1> HIDE DEF out
<1> QED  BY <1>1, <1>4, <1>5, <1>7, <1>8, Registered

(* The remaining operations on a task, and those on the folder. *)
LEMMA TaskOperationInv ==
    ASSUME NoticeInv, NEW x \in Tasks,
           \/ \E A \in Choices : UpdateTaskAssignees(x, A)
           \/ \E n \in 0..2, hasFolder \in BOOLEAN, job \in BOOLEAN : UpdateTask(x, n, hasFolder, job)
           \/ AddTag(x) \/ RemoveTag(x) \/ ShareTask(x) \/ ArchiveDeleteRestore(x)
           \/ \E job \in BOOLEAN : UpdatePosition(x, job)
           \/ \E u \in Users : Follow(x, u) \/ Unfollow(x, u)
           \/ ApprovalEvent(x) \/ DeleteAttachment(x)
    PROVE  NoticeInv'
<1> x \in Things
  BY DEF Things
<1>1. ASSUME NEW A \in Choices, UpdateTaskAssignees(x, A)  PROVE NoticeInv'
  <2> DEFINE added == A \ call.people[x].assignees
             new == [Followed(x, added) EXCEPT ![x].assignees = A]
             to == new[x].assignees \cup new[x].followers
             js == IF A # call.people[x].assignees THEN Job(x) ELSE {}
  <2>1. Runs /\ call # NoCall /\ x # Folder /\ A \in SUBSET People
    BY <1>1, NotificationsAssumption DEF UpdateTaskAssignees, Runs, People
  <2>2. Followed(x, added) \in Persons /\ Owned(Followed(x, added))
    BY <2>1, FollowedType
  <2>3. new \in Persons
    BY <2>1, <2>2 DEF Persons
  <2>4. new[Folder] = Followed(x, added)[Folder]
    BY <2>1, <2>2 DEF Persons, Things
  <2>5. Owned(new) /\ to \in SUBSET People
    BY <2>2, <2>3, <2>4 DEF Persons, Owned
  <2>6. Register(new, <<Says(x, to)>>, js)
    BY <1>1 DEF UpdateTaskAssignees
  <2>7. js \in {{}, Job(x)}
    OBVIOUS
  <2> HIDE DEF new, to, js
  <2> QED  BY <2>1, <2>3, <2>5, <2>6, <2>7, Announced
<1>2. ASSUME NEW n \in 0..2, NEW hasFolder \in BOOLEAN, NEW job \in BOOLEAN, UpdateTask(x, n, hasFolder, job)
      PROVE  NoticeInv'
  <2> DEFINE js == IF job THEN Job(x) ELSE {}
             new == Followed(x, {call.by})
             to == OrTheCaller(Recipients(x))
  <2>1. Runs /\ call # NoCall
    BY <1>2 DEF UpdateTask, Runs
  <2>2. {call.by} \in SUBSET People
    BY <2>1, Opened DEF Request
  <2>3. new \in Persons /\ Owned(new) /\ to \in SUBSET People /\ js \in {{}, Job(x)} /\ n \in Nat
    BY <2>1, <2>2, FollowedType, Told
  <2>4. Register(new, IF hasFolder THEN [k \in 1..n |-> Says(x, to)] ELSE <<>>, js)
    BY <1>2 DEF UpdateTask
  <2> HIDE DEF new, to, js
  <2>5. CASE hasFolder
    <3>1. Register(new, [k \in 1..n |-> Says(x, to)], js)
      BY <2>4, <2>5
    <3> QED  BY <2>1, <2>3, <3>1, AnnouncedOften
  <2>6. CASE ~hasFolder
    <3>1. Register(new, <<>>, js)
      BY <2>4, <2>6
    <3> QED  BY <2>1, <2>3, <3>1, Unannounced
  <2> QED  BY <2>5, <2>6
<1>3. CASE AddTag(x)
  <2> DEFINE e == [Says(x, Recipients(x)) EXCEPT !.by = NoCall]
  <2>1. Runs /\ call # NoCall
    BY <1>3 DEF AddTag, Runs
  <2>2. Recipients(x) \in SUBSET People /\ requests \in 1..MaxRequests
    BY <2>1, Told, Opened
  <2>3. e \in Event /\ e.kind = "PLAIN" /\ e.request = requests
    BY <2>2 DEF Says, Event
  <2>4. Job(x) \in SUBSET AJob /\ \A j \in Job(x) : j.request = requests
    BY <2>1, JobIsJob
  <2>5. Register(call.people, <<e>>, Job(x))
    BY <1>3 DEF AddTag
  <2> HIDE DEF e
  <2>6. Speech(<<e>>)
    BY <2>3, SaysOne
  <2> QED  BY <2>1, <2>4, <2>5, <2>6, SameType, Registered
<1>4. CASE RemoveTag(x) \/ ShareTask(x)
  <2>1. Runs /\ call # NoCall /\ Register(call.people, <<>>, Job(x))
    BY <1>4 DEF RemoveTag, ShareTask, Runs
  <2> QED  BY <2>1, SameType, Unannounced
<1>5. ASSUME NEW job \in BOOLEAN, UpdatePosition(x, job) \/ ArchiveDeleteRestore(x)  PROVE NoticeInv'
  <2>1. PICK js \in {{}, Job(x)} :
            Runs /\ call # NoCall /\ Register(call.people, <<Says(x, OrTheCaller(Recipients(x)))>>, js)
    BY <1>5 DEF UpdatePosition, ArchiveDeleteRestore, Runs
  <2> QED  BY <2>1, SameType, Told, Announced
<1>6. ASSUME NEW u \in Users, Follow(x, u) \/ Unfollow(x, u)  PROVE NoticeInv'
  <2> DEFINE less == [call.people EXCEPT ![x].followers = @ \ {u}]
  <2>1. Runs /\ call # NoCall /\ {u} \in SUBSET People /\ x # Folder
    BY <1>6, NotificationsAssumption DEF Follow, Unfollow, Runs, People
  <2>2. Followed(x, {u}) \in Persons /\ Owned(Followed(x, {u}))
    BY <2>1, FollowedType
  <2>3. less \in Persons /\ Owned(less)
    BY <2>1, SameType DEF Persons, Owned, Things
  <2>4. Register(Followed(x, {u}), <<>>, {}) \/ Register(less, <<>>, {})
    BY <1>6 DEF Follow, Unfollow
  <2> HIDE DEF less
  <2> QED  BY <2>1, <2>2, <2>3, <2>4, Unannounced
<1>7. CASE ApprovalEvent(x) \/ DeleteAttachment(x)
  <2>1. PICK to \in {Recipients(x), {}} : Runs /\ call # NoCall /\ Register(call.people, <<Says(x, to)>>, {})
    BY <1>7 DEF ApprovalEvent, DeleteAttachment, Runs
  <2>2. to \in SUBSET People
    BY <2>1, Told
  <2> QED  BY <2>1, <2>2, SameType, Announced
<1> QED  BY <1>1, <1>2, <1>3, <1>4, <1>5, <1>6, <1>7

LEMMA FolderOperationInv ==
    ASSUME NoticeInv,
           \/ FolderCreatedOrRemoved \/ FolderMembersChanged
           \/ \E n \in 1..2 : FolderUpdated(n)
           \/ \E u \in People : FolderArchived(u)
           \/ \E u \in Users : FolderOwnerChanged(u) \/ FollowFolder(u) \/ UnfollowFolder(u)
    PROVE  NoticeInv'
<1> Folder \in Things
  BY DEF Things
<1>1. CASE FolderCreatedOrRemoved \/ FolderMembersChanged \/ \E u \in People : FolderArchived(u)
  <2>1. PICK to \in {OrTheCaller(Recipients(Folder)), Recipients(Folder)} \cup {{u} : u \in People} :
            Runs /\ call # NoCall /\ Register(call.people, <<Says(Folder, to)>>, {})
    BY <1>1 DEF FolderCreatedOrRemoved, FolderMembersChanged, FolderArchived, Runs
  <2>2. to \in SUBSET People
    BY <2>1, Told
  <2> QED  BY <2>1, <2>2, SameType, Announced
<1>2. ASSUME NEW n \in 1..2, FolderUpdated(n)  PROVE NoticeInv'
  <2>1. /\ Runs /\ call # NoCall
        /\ Register(call.people, [k \in 1..n |-> Says(Folder, OrTheCaller(Recipients(Folder)))], {})
    BY <1>2 DEF FolderUpdated, Runs
  <2>2. OrTheCaller(Recipients(Folder)) \in SUBSET People /\ n \in Nat
    BY <2>1, Told
  <2> QED  BY <2>1, <2>2, SameType, AnnouncedOften
<1>3. ASSUME NEW u \in Users, FolderOwnerChanged(u)  PROVE NoticeInv'
  <2> DEFINE old == CHOOSE o \in call.people[Folder].assignees : TRUE
             e == [Says(Folder, {u}) EXCEPT !.by = old]
             new == [call.people EXCEPT ![Folder].assignees = {u}]
  <2>1. Runs /\ call # NoCall /\ {u} \in SUBSET People
    BY <1>3 DEF FolderOwnerChanged, Runs, People
  <2>2. old \in People /\ requests \in 1..MaxRequests
    BY <2>1, Opened, SameType DEF Persons, Owned
  <2>3. e \in Event /\ e.kind = "PLAIN" /\ e.request = requests
    <3> HIDE DEF old
    <3> QED  BY <2>1, <2>2 DEF Says, Event
  <2>4. new \in Persons /\ Owned(new)
    BY <2>1, SameType DEF Persons, Owned
  <2>5. Register(new, <<e>>, {})
    BY <1>3 DEF FolderOwnerChanged
  <2> HIDE DEF e, new
  <2>6. Speech(<<e>>)
    BY <2>3, SaysOne
  <2> QED  BY <2>1, <2>4, <2>5, <2>6, SameType, Registered
<1>4. ASSUME NEW u \in Users, FollowFolder(u) \/ UnfollowFolder(u)  PROVE NoticeInv'
  <2> DEFINE more == [x \in Things |-> IF Exists(x) THEN [call.people[x] EXCEPT !.followers = @ \cup {u}]
                                       ELSE call.people[x]]
             less == [x \in Things |-> [call.people[x] EXCEPT !.followers = @ \ {u}]]
  <2>1. Runs /\ call # NoCall /\ u \in People
    BY <1>4 DEF FollowFolder, UnfollowFolder, Runs, People
  <2>2. more \in Persons /\ less \in Persons
    BY <2>1, SameType DEF Persons
  <2>3. Owned(more) /\ Owned(less)
    BY <2>1, SameType DEF Persons, Owned
  <2>4. Register(more, <<>>, {}) \/ Register(less, <<>>, {})
    BY <1>4 DEF FollowFolder, UnfollowFolder
  <2> HIDE DEF more, less
  <2> QED  BY <2>1, <2>2, <2>3, <2>4, Unannounced
<1> QED  BY <1>1, <1>2, <1>3, <1>4

LEMMA OperationInv ==
    ASSUME NoticeInv, Operation
    PROVE  NoticeInv'
<1>1. ASSUME NEW x \in Tasks, NEW A \in Choices, NEW F \in {{}} \cup {{u} : u \in Users}, CreateOneTask(x, A, F)
      PROVE  NoticeInv'
  <2>1. A \in SUBSET People /\ F \in SUBSET People
    BY NotificationsAssumption DEF People
  <2> QED  BY <1>1, <2>1, CreateInv
<1>2. ASSUME NEW x \in Tasks, NEW M \in Choices, NEW J \in SUBSET (M \cap Users), Comment(x, M, J)
      PROVE  NoticeInv'
  <2>1. M \in SUBSET People /\ J \in SUBSET M
    BY NotificationsAssumption DEF People
  <2> QED  BY <1>2, <2>1, CommentInv
<1> QED  BY <1>1, <1>2, PermanentDeleteInv, TaskOperationInv, FolderOperationInv DEF Operation

-----------------------------------------------------------------------------
(* A request begins, throws, commits *)

LEMMA InitInv == NoticeInit => NoticeInv
<1> SUFFICES ASSUME NoticeInit PROVE NoticeInv
  OBVIOUS
<1> USE DEF NoticeInit
<1>1. NoticeType
  <2>1. people \in Persons /\ Owned(people)
    <3>1. PICK u \in Users :
             people = [x \in Things |-> [assignees |-> IF x = Folder THEN {u} ELSE {}, followers |-> {}]]
      OBVIOUS
    <3>2. people \in Persons
      BY <3>1 DEF Persons, People
    <3>3. people[Folder].assignees = {u}
      BY <3>1 DEF Things
    <3> QED  BY <3>2, <3>3 DEF Owned
  <2>2. DOMAIN handlers = {} /\ events \in Seq(Event) /\ Len(events) = 0 /\ handlers \in [{} -> Progress]
    OBVIOUS
  <2>3. IsFiniteSet(inbox)
    BY FS_EmptySet
  <2>4. status \in Statuses
    BY DEF Statuses
  <2>5. /\ badge \in [Users -> Int] /\ told \in [1..MaxEvents -> SUBSET People]
        /\ requests \in 0..MaxRequests /\ visits \in 0..MaxVisits
    BY NotificationsAssumption
  <2>6. /\ unticked \in BOOLEAN /\ inbox \subseteq Row /\ jobs \subseteq AJob /\ mailed \subseteq 1..MaxEvents
        /\ committed \subseteq 1..MaxRequests /\ excused \subseteq Users /\ call = NoCall
    OBVIOUS
  <2> QED  BY <2>1, <2>2, <2>3, <2>4, <2>5, <2>6, NotificationsAssumption DEF NoticeType
<1>2. SpeaksForItself /\ OnlyCommitted /\ WellHeard(events) /\ AllOrNone
  BY DEF SpeaksForItself, OnlyCommitted, WellHeard, AllOrNone
<1>3. HandlersInStage
  BY DEF HandlersInStage, InStage, Untold
<1>4. CountsRight
  <2>1. \A u : Unread(u) = 0 /\ Counting(u) = {}
    BY FS_EmptySet DEF Unread, Counting
  <2> QED  BY <2>1 DEF CountsRight
<1> QED  BY <1>1, <1>2, <1>3, <1>4 DEF NoticeInv

LEMMA BeginInv ==
    ASSUME NoticeInv, NEW u \in People, Begin(u)
    PROVE  NoticeInv'
<1> USE DEF Begin, centre
<1>1. /\ people \in Persons /\ Owned(people) /\ status \in Statuses /\ requests + 1 \in 1..MaxRequests
      /\ Len(events) <= MaxEvents /\ Len(events) \in Nat
  BY NotificationsAssumption DEF NoticeInv, NoticeType
<1>2. call' \in Request /\ call'.out = <<>> /\ call'.jobs = {} /\ call'.people = people
  BY <1>1, NotificationsAssumption DEF Request
<1>3. NoticeType'
  BY <1>1, <1>2 DEF NoticeInv, NoticeType
<1>4. SpeaksForItself'
  BY <1>2 DEF SpeaksForItself, WellHeard
<1>5. OnlyCommitted' /\ WellHeard(events)' /\ AllOrNone'
  BY DEF NoticeInv, OnlyCommitted, AllOrNone
<1>6. HandlersInStage'
  BY DEF NoticeInv, HandlersInStage, InStage, Untold
<1>7. CountsRight'
  BY DEF NoticeInv, CountsRight, CountRight, Counting, Unread
<1> QED  BY <1>3, <1>4, <1>5, <1>6, <1>7 DEF NoticeInv

LEMMA ThrowInv ==
    ASSUME NoticeInv, Throw
    PROVE  NoticeInv'
BY RequestAlone DEF Throw

(* What is emitted comes from the request; the handlers of the new events have done nothing yet. *)
LEMMA Emitted ==
    ASSUME NoticeInv, Commit
    PROVE  /\ events' \in Seq(Event) /\ Len(events') = Len(events) + Len(call.out) /\ Len(events') <= MaxEvents
           /\ Len(events) \in Nat /\ Len(call.out) \in Nat
           /\ \A i \in 1..Len(events') : events'[i] = IF i <= Len(events) THEN events[i] ELSE call.out[i - Len(events)]
           /\ DOMAIN handlers' = DOMAIN handlers \cup ((Len(events) + 1)..Len(events'))
           /\ \A i \in DOMAIN handlers : handlers'[i] = handlers[i] /\ i \in 1..Len(events)
           /\ \A i \in (Len(events) + 1)..Len(events') : handlers'[i] = Handler(i) /\ i \in 1..MaxEvents
<1>1. call # NoCall /\ call.out \in Seq(Event) /\ events \in Seq(Event) /\ Len(events) + Len(call.out) <= MaxEvents
  BY Opened DEF Commit, NoticeInv, NoticeType, Speech
<1>2. events' = events \o call.out
  BY DEF Commit
<1>3. /\ events' \in Seq(Event) /\ Len(events') = Len(events) + Len(call.out) /\ Len(events') <= MaxEvents
      /\ Len(events) \in Nat /\ Len(call.out) \in Nat
      /\ \A i \in 1..Len(events') : events'[i] = IF i <= Len(events) THEN events[i] ELSE call.out[i - Len(events)]
  BY <1>1, <1>2, ConcatProperties
<1>4. DOMAIN handlers \subseteq 1..Len(events)
  BY DEF NoticeInv, NoticeType
<1>5. handlers' = [i \in DOMAIN handlers \cup ((Len(events) + 1)..Len(events')) |->
                       IF i \in (Len(events) + 1)..Len(events') THEN Handler(i) ELSE handlers[i]]
  BY <1>3 DEF Commit
<1>6. \A i \in 1..Len(events) : i \notin (Len(events) + 1)..Len(events')
  BY <1>3
<1>7. \A i \in (Len(events) + 1)..Len(events') : i \in 1..MaxEvents
  BY <1>3, NotificationsAssumption
<1> QED  BY <1>3, <1>4, <1>5, <1>6, <1>7

LEMMA CommitType ==
    ASSUME NoticeInv, Commit
    PROVE  NoticeType'
<1> DEFINE lost == {r \in inbox : r.linked /\ call.status[events[r.event].about] = "GONE"}
<1>1. /\ call # NoCall /\ call \in Request /\ Owned(call.people) /\ requests \in 1..MaxRequests
  BY Opened DEF Commit
<1>2. people' \in Persons /\ Owned(people') /\ status' \in Statuses /\ jobs' \subseteq AJob
  BY <1>1 DEF Commit, NoticeInv, NoticeType, Request
<1>3. inbox' \subseteq inbox /\ IsFiniteSet(inbox') /\ excused' \subseteq Users
  <2>1. inbox' = inbox \ lost /\ excused' = excused \cup {r.user : r \in lost}
    BY DEF Commit
  <2> HIDE DEF lost
  <2>2. \A r \in inbox : r.user \in Users
    BY DEF NoticeInv, NoticeType, Row
  <2>3. lost \subseteq inbox
    BY DEF lost
  <2> QED  BY <2>1, <2>2, <2>3, FS_Subset DEF NoticeInv, NoticeType
<1>4. handlers' \in [DOMAIN handlers' -> Progress] /\ DOMAIN handlers' \subseteq 1..Len(events')
  <2>1. \A i \in DOMAIN handlers : handlers[i] \in Progress
    BY DEF NoticeInv, NoticeType
  <2>2. ASSUME NEW i \in (Len(events) + 1)..Len(events')  PROVE Handler(i) \in Progress
    <3>1. events'[i] \in Event
      BY Emitted
    <3>2. events'[i].to \in SUBSET People
      BY <3>1 DEF Event
    <3>3. <<>> \in [{} -> Int] /\ {} \in SUBSET Users
      OBVIOUS
    <3>4. <<>> \in Counts
      BY <3>3 DEF Counts
    <3> QED  BY <3>2, <3>4 DEF Handler, Progress
  <2>3. \A i \in DOMAIN handlers' : handlers'[i] \in Progress
    BY <2>1, <2>2, Emitted
  <2>4. DOMAIN handlers' \subseteq 1..Len(events')
    BY Emitted
  <2>5. handlers' = [i \in DOMAIN handlers' |-> handlers'[i]]
    BY DEF Commit
  <2> QED  BY <2>3, <2>4, <2>5
<1>5. committed' \subseteq 1..MaxRequests
  BY <1>1 DEF Commit, NoticeInv, NoticeType
<1>6. /\ unticked' \in BOOLEAN /\ badge' \in [Users -> Int] /\ told' \in [1..MaxEvents -> SUBSET People]
      /\ mailed' \subseteq 1..MaxEvents /\ requests' \in 0..MaxRequests /\ visits' \in 0..MaxVisits
      /\ inbox \subseteq Row
  BY DEF Commit, NoticeInv, NoticeType
<1>7. call' = NoCall
  BY DEF Commit
<1> QED  BY <1>2, <1>3, <1>4, <1>5, <1>6, <1>7, Emitted DEF NoticeType

LEMMA CommitInv ==
    ASSUME NoticeInv, Commit
    PROVE  NoticeInv'
<1>1. call # NoCall /\ call' = NoCall
  BY DEF Commit
<1>2. NoticeType' /\ SpeaksForItself'
  BY <1>1, CommitType DEF SpeaksForItself
<1>3. OnlyCommitted'
  <2>1. \A i \in 1..Len(events) : events[i].request \in committed
    BY DEF NoticeInv, NoticeType, OnlyCommitted
  <2>2. ASSUME NEW i \in 1..Len(events')  PROVE events'[i].request \in committed \cup {requests}
    <3>1. CASE i <= Len(events)
      BY <2>1, <3>1, Emitted
    <3>2. CASE i > Len(events)
      <4>1. i - Len(events) \in 1..Len(call.out) /\ events'[i] = call.out[i - Len(events)]
        BY <3>2, Emitted
      <4> QED  BY <1>1, <4>1, Opened DEF Speech
    <3> QED  BY <3>1, <3>2, Emitted
  <2>3. \A j \in jobs' : j.request \in committed \cup {requests}
    BY <1>1, Opened DEF Commit, NoticeInv, OnlyCommitted
  <2> QED  BY <2>2, <2>3, Emitted DEF Commit, OnlyCommitted
<1>4. WellHeard(events)'
  BY <1>1, Opened, HeardTogether DEF Commit, Speech, NoticeInv, NoticeType
<1>5. /\ UNCHANGED <<told, mailed>> /\ inbox' \subseteq inbox
      /\ \A i \in 1..MaxEvents : i > Len(events) => Untold(i)
  BY DEF Commit, NoticeInv, HandlersInStage
<1>6. \A i : Untold(i) => Untold(i)'
  BY <1>5 DEF Untold
<1>7. AllOrNone'
  <2> SUFFICES ASSUME NEW i \in 1..Len(events')
               PROVE  told[i] \in {{}, events'[i].to} /\ (i \in mailed => told[i] = events'[i].to)
    <3>1. DOMAIN events' = 1..Len(events')
      BY Emitted
    <3> QED  BY <1>5, <3>1 DEF AllOrNone
  <2>1. CASE i <= Len(events)
    <3>1. i \in DOMAIN events /\ events'[i] = events[i]
      BY <2>1, Emitted DEF NoticeInv, NoticeType
    <3> QED  BY <3>1 DEF NoticeInv, AllOrNone
  <2>2. CASE i > Len(events)
    BY <1>5, <2>2, Emitted DEF Untold
  <2> QED  BY <2>1, <2>2, Emitted
<1>8. HandlersInStage'
  <2>1. ASSUME NEW i \in DOMAIN handlers'  PROVE InStage(i)'
    <3>1. CASE i \in DOMAIN handlers
      <4>1. handlers'[i] = handlers[i] /\ events'[i] = events[i] /\ InStage(i)
        BY <3>1, Emitted DEF NoticeInv, HandlersInStage
      <4> QED  BY <1>5, <1>6, <4>1 DEF InStage
    <3>2. CASE i \in (Len(events) + 1)..Len(events')
      <4>1. handlers'[i] = Handler(i) /\ Untold(i)'
        BY <1>5, <1>6, <3>2, Emitted
      <4> QED  BY <4>1, FS_EmptySet DEF InStage, Handler
    <3> QED  BY <3>1, <3>2, <2>1, Emitted
  <2>2. \A i \in 1..MaxEvents : i > Len(events') => Untold(i)'
    BY <1>5, <1>6, Emitted
  <2> QED  BY <2>1, <2>2 DEF HandlersInStage
<1>9. CountsRight'
  <2> SUFFICES ASSUME NEW u \in Users \ excused'
               PROVE  /\ \A i \in Counting(u)' : CountRight(u, i)'
                      /\ (\A i \in Counting(u)' : handlers'[i].stage # "SENDING") => badge'[u] = Unread(u)'
    BY DEF CountsRight
  <2>1. u \notin excused /\ \A r \in inbox : r \notin inbox' => r.user # u
    BY DEF Commit
  <2>2. Unread(u)' = Unread(u)
    <3>1. {r \in inbox' : r.user = u /\ ~r.read} = {r \in inbox : r.user = u /\ ~r.read}
      BY <1>5, <2>1
    <3> QED  BY <3>1 DEF Unread
  <2>3. Counting(u)' = Counting(u)
    <3>1. ASSUME NEW i \in (Len(events) + 1)..Len(events')  PROVE handlers'[i].counts = <<>>
      <4>1. handlers'[i] = Handler(i)
        BY Emitted
      <4> QED  BY <4>1 DEF Handler
    <3>2. DOMAIN <<>> = {}
      OBVIOUS
    <3>3. \A i \in (Len(events) + 1)..Len(events') : u \notin DOMAIN handlers'[i].counts
      BY <3>1, <3>2
    <3> QED  BY <3>3, Emitted DEF Counting
  <2>4. \A i \in Counting(u) : handlers'[i] = handlers[i]
    BY Emitted DEF Counting
  <2>5. badge' = badge
    BY DEF Commit
  <2>6. u \in Users \ excused
    BY <2>1
  <2> QED  BY <2>2, <2>3, <2>4, <2>5, <2>6 DEF NoticeInv, CountsRight, CountRight
<1> QED  BY <1>2, <1>3, <1>4, <1>7, <1>8, <1>9 DEF NoticeInv

-----------------------------------------------------------------------------
(* The handlers *)

(* A step of a handler leaves the requests and what they said alone. *)
LEMMA HandlerAlone ==
    ASSUME NoticeInv, Stays, UNCHANGED visits,
           DOMAIN handlers' \subseteq DOMAIN handlers, handlers' \in [DOMAIN handlers' -> Progress],
           inbox' \subseteq Row, IsFiniteSet(inbox'), badge' \in [Users -> Int],
           told' \in [1..MaxEvents -> SUBSET People], mailed' \subseteq 1..MaxEvents, excused' \subseteq Users,
           AllOrNone', HandlersInStage', CountsRight'
    PROVE  NoticeInv'
<1> USE DEF Stays
<1>1. NoticeType'
  BY DEF NoticeInv, NoticeType
<1>2. SpeaksForItself'
  BY DEF NoticeInv, SpeaksForItself
<1>3. OnlyCommitted' /\ WellHeard(events)'
  BY DEF NoticeInv, OnlyCommitted
<1> QED  BY <1>1, <1>2, <1>3 DEF NoticeInv

(* What is known of a handler that is running. *)
LEMMA Running ==
    ASSUME NoticeInv, NEW i \in DOMAIN handlers
    PROVE  /\ handlers[i] \in Progress /\ InStage(i) /\ i \in DOMAIN events /\ i \in 1..MaxEvents
           /\ events[i] \in Event
<1>1. /\ DOMAIN handlers \subseteq 1..Len(events) /\ handlers \in [DOMAIN handlers -> Progress]
      /\ events \in Seq(Event) /\ Len(events) <= MaxEvents
  BY DEF NoticeInv, NoticeType
<1>2. Len(events) \in Nat /\ MaxEvents \in Nat
  BY <1>1, NotificationsAssumption
<1> QED  BY <1>1, <1>2 DEF NoticeInv, HandlersInStage

(* A handler that ends with nothing sent is no loss to any count. *)
LEMMA LoggedInv ==
    ASSUME NoticeInv, NEW i \in DOMAIN handlers, handlers[i].stage # "SENDING", Logged(i), Stays, UNCHANGED centre
    PROVE  NoticeInv'
<1> USE DEF Stays, centre
<1>1. /\ DOMAIN handlers' = DOMAIN handlers \ {i} /\ \A j \in DOMAIN handlers' : handlers'[j] = handlers[j]
      /\ handlers' = [j \in DOMAIN handlers' |-> handlers'[j]]
  BY DEF Logged, Gone
<1>2. handlers' \in [DOMAIN handlers' -> Progress]
  BY <1>1 DEF NoticeInv, NoticeType
<1>3. AllOrNone'
  BY DEF NoticeInv, AllOrNone
<1>4. HandlersInStage'
  BY <1>1 DEF NoticeInv, HandlersInStage, InStage, Untold
<1>5. CountsRight'
  <2>1. \A u : Counting(u)' = Counting(u) \ {i}
    BY <1>1 DEF Counting
  <2>2. \A u : Unread(u)' = Unread(u)
    BY DEF Unread
  <2>3. \A u : \A j \in Counting(u)' : handlers'[j] = handlers[j]
    BY <1>1 DEF Counting
  <2> QED  BY <2>1, <2>2, <2>3 DEF NoticeInv, CountsRight, CountRight
<1> QED  BY <1>1, <1>2, <1>3, <1>4, <1>5, HandlerAlone DEF NoticeInv, NoticeType

LEMMA PrepareInv ==
    ASSUME NoticeInv, NEW i \in DOMAIN handlers, Prepare(i)
    PROVE  NoticeInv'
<1>1. handlers[i].stage = "STARTED" /\ Stays /\ UNCHANGED centre
  BY DEF Prepare
<1>2. CASE Logged(i)
  BY <1>1, <1>2, LoggedInv
<1>3. ASSUME handlers' = [handlers EXCEPT ![i].stage = "WRITING", ![i].linked = (status[events[i].about] = "ALIVE")]
      PROVE  NoticeInv'
  <2> USE <1>1 DEF Stays, centre
  <2>1. handlers[i] \in Progress /\ InStage(i) /\ handlers \in [DOMAIN handlers -> Progress]
    BY Running DEF NoticeInv, NoticeType
  <2>2. /\ DOMAIN handlers' = DOMAIN handlers /\ handlers' \in [DOMAIN handlers -> Progress]
        /\ \A j \in DOMAIN handlers \ {i} : handlers'[j] = handlers[j]
        /\ handlers'[i].stage = "WRITING" /\ handlers'[i].left = handlers[i].left
        /\ handlers'[i].rows = handlers[i].rows /\ handlers'[i].counts = handlers[i].counts
    BY <1>3, <2>1 DEF Progress
  <2>3. AllOrNone'
    BY DEF NoticeInv, AllOrNone
  <2>4. HandlersInStage'
    <3>1. \A j : Untold(j)' = Untold(j)
      BY DEF Untold
    <3>2. \A j \in DOMAIN handlers : InStage(j)'
      BY <2>1, <2>2, <3>1 DEF NoticeInv, HandlersInStage, InStage
    <3> QED  BY <2>2, <3>1, <3>2 DEF NoticeInv, HandlersInStage
  <2>5. CountsRight'
    <3>1. \A u : Counting(u)' = Counting(u) /\ i \notin Counting(u)
      BY <1>1, <2>1, <2>2 DEF Counting, InStage
    <3>2. \A u : Unread(u)' = Unread(u)
      BY DEF Unread
    <3>3. \A u : \A j \in Counting(u) : handlers'[j] = handlers[j]
      BY <2>2, <3>1 DEF Counting
    <3> QED  BY <3>1, <3>2, <3>3 DEF NoticeInv, CountsRight, CountRight
  <2> QED  BY <2>2, <2>3, <2>4, <2>5, HandlerAlone DEF NoticeInv, NoticeType
<1> QED  BY <1>2, <1>3 DEF Prepare

LEMMA DeliverFailsInv ==
    ASSUME NoticeInv, NEW i \in DOMAIN handlers, DeliverFails(i)
    PROVE  NoticeInv'
BY LoggedInv DEF DeliverFails, MayWrite

(* One more row written, and counted: the count stands until somebody else changes the inbox. *)
LEMMA UnreadIsNat ==
    ASSUME NoticeInv, NEW u
    PROVE  Unread(u) \in Nat
<1>1. {r \in inbox : r.user = u /\ ~r.read} \subseteq inbox /\ IsFiniteSet(inbox)
  BY DEF NoticeInv, NoticeType
<1> QED  BY <1>1, FS_Subset, FS_CardinalityType DEF Unread

LEMMA OneMoreCounted ==
    ASSUME NEW c \in Counts, NEW u \in Users, NEW n \in Int
    PROVE  [w \in DOMAIN c \cup {u} |-> IF w = u THEN n ELSE c[w]] \in Counts
<1>1. PICK S \in SUBSET Users : c \in [S -> Int]
  BY DEF Counts
<1>2. [w \in DOMAIN c \cup {u} |-> IF w = u THEN n ELSE c[w]] \in [S \cup {u} -> Int]
  BY <1>1
<1>3. S \cup {u} \in SUBSET Users
  OBVIOUS
<1> QED  BY <1>2, <1>3 DEF Counts

LEMMA DeliverInv ==
    ASSUME NoticeInv, NEW i \in DOMAIN handlers, NEW u \in Users, Deliver(i, u)
    PROVE  NoticeInv'
<1> DEFINE counts == [w \in DOMAIN handlers[i].counts \cup {u} |-> IF w = u THEN Unread(u) + 1 ELSE handlers[i].counts[w]]
<1>1. /\ Stays /\ UNCHANGED centre /\ handlers[i].stage = "WRITING" /\ u \in handlers[i].left
      /\ handlers' = [handlers EXCEPT ![i].left = @ \ {u}, ![i].rows = @ \cup {u}, ![i].counts = counts]
  BY DEF Deliver, MayWrite
<1>2. handlers[i] \in Progress /\ InStage(i) /\ handlers \in [DOMAIN handlers -> Progress]
  BY Running DEF NoticeInv, NoticeType
<1>3. counts \in Counts
  <2>1. handlers[i].counts \in Counts /\ Unread(u) + 1 \in Int
    BY <1>2, UnreadIsNat DEF Progress
  <2> QED  BY <2>1, OneMoreCounted
<1>4. DOMAIN counts = handlers[i].rows \cup {u} /\ counts[u] = Unread(u) + 1
      /\ \A w \in handlers[i].rows : w # u => counts[w] = handlers[i].counts[w]
  BY <1>2 DEF InStage
<1> HIDE DEF counts
<1>5. /\ DOMAIN handlers' = DOMAIN handlers /\ handlers' \in [DOMAIN handlers -> Progress]
      /\ \A j \in DOMAIN handlers \ {i} : handlers'[j] = handlers[j]
      /\ handlers'[i].stage = "WRITING" /\ handlers'[i].left = handlers[i].left \ {u}
      /\ handlers'[i].rows = handlers[i].rows \cup {u} /\ handlers'[i].counts = counts
  BY <1>1, <1>2, <1>3 DEF Progress
<1> USE <1>1 DEF Stays, centre
<1>6. AllOrNone'
  BY DEF NoticeInv, AllOrNone
<1>7. HandlersInStage'
  <2>1. \A j : Untold(j)' = Untold(j)
    BY DEF Untold
  <2>2. InStage(i)'
    <3>1. IsFiniteSet(handlers[i].rows \cup {u})
      BY <1>2, FS_AddElement DEF InStage
    <3> QED  BY <1>2, <1>4, <1>5, <2>1, <3>1 DEF InStage
  <2>3. \A j \in DOMAIN handlers \ {i} : InStage(j)'
    BY <1>5, <2>1 DEF NoticeInv, HandlersInStage, InStage
  <2> QED  BY <1>5, <2>1, <2>2, <2>3 DEF NoticeInv, HandlersInStage
<1>8. CountsRight'
  <2>1. \A w : Unread(w)' = Unread(w)
    BY DEF Unread
  <2>2. \A w : Counting(w)' = IF w = u THEN Counting(w) \cup {i} ELSE Counting(w)
    BY <1>2, <1>4, <1>5 DEF Counting, InStage
  <2>3. ASSUME NEW w \in Users \ excused, NEW j \in Counting(w)'  PROVE CountRight(w, j)'
    <3>1. CASE j # i
      <4>1. j \in Counting(w) /\ handlers'[j] = handlers[j]
        BY <1>5, <2>2, <2>3, <3>1 DEF Counting
      <4> QED  BY <2>1, <4>1 DEF NoticeInv, CountsRight, CountRight
    <3>2. CASE j = i /\ w = u
      BY <1>4, <1>5, <2>1, <3>2 DEF CountRight
    <3>3. CASE j = i /\ w # u
      <4>1. i \in Counting(w) /\ w \in handlers[i].rows
        BY <1>2, <2>2, <2>3, <3>3 DEF Counting, InStage
      <4> QED  BY <1>4, <1>5, <2>1, <3>3, <4>1 DEF NoticeInv, CountsRight, CountRight
    <3> QED  BY <3>1, <3>2, <3>3
  <2>4. ASSUME NEW w \in Users \ excused, \A j \in Counting(w)' : handlers'[j].stage # "SENDING"
        PROVE  badge[w] = Unread(w)
    <3>1. \A j \in Counting(w) : handlers[j].stage # "SENDING"
      <4> SUFFICES ASSUME NEW j \in Counting(w) PROVE handlers[j].stage # "SENDING"
        OBVIOUS
      <4>1. j \in Counting(w)' /\ (j # i => handlers'[j] = handlers[j])
        BY <1>5, <2>2 DEF Counting
      <4> QED  BY <1>1, <2>4, <4>1
    <3> QED  BY <3>1 DEF NoticeInv, CountsRight
  <2> QED  BY <2>1, <2>3, <2>4 DEF CountsRight
<1> QED  BY <1>5, <1>6, <1>7, <1>8, HandlerAlone DEF NoticeInv, NoticeType

(* The image of a finite set under a function. *)
LEMMA ImageFinite ==
    ASSUME NEW S, IsFiniteSet(S), NEW f, DOMAIN f = S
    PROVE  IsFiniteSet({f[x] : x \in S})
<1> DEFINE T == {f[x] : x \in S}
           g == [x \in S |-> f[x]]
<1>1. g \in Surjection(S, T)
  BY DEF Surjection
<1> HIDE DEF g, T
<1>2. IsFiniteSet(T)
  BY <1>1, FS_Surjection
<1> QED  BY <1>2 DEF T

(* The rows are in the inbox: whoever got one has exactly one unread row more. *)
LEMMA OneMoreUnread ==
    ASSUME NoticeInv, NEW i \in DOMAIN handlers, Finish(i), NEW u
    PROVE  Unread(u)' = IF u \in handlers[i].rows THEN Unread(u) + 1 ELSE Unread(u)
<1> DEFINE old == {r \in inbox : r.user = u /\ ~r.read}
           row(w) == [event |-> i, user |-> w, read |-> FALSE, linked |-> handlers[i].linked]
<1>1. inbox' = inbox \cup {row(w) : w \in handlers[i].rows}
  BY DEF Finish
<1>2. IsFiniteSet(old) /\ Unread(u) = Cardinality(old)
  <2>1. old \subseteq inbox /\ IsFiniteSet(inbox)
    BY DEF NoticeInv, NoticeType
  <2> QED  BY <2>1, FS_Subset DEF Unread
<1>3. row(u) \notin inbox
  <2>1. handlers[i].stage = "WRITING" /\ InStage(i)
    BY Running DEF Finish
  <2> QED  BY <2>1 DEF InStage, Untold
<1>4. {r \in inbox' : r.user = u /\ ~r.read} = IF u \in handlers[i].rows THEN old \cup {row(u)} ELSE old
  BY <1>1
<1>5. Cardinality(old \cup {row(u)}) = Cardinality(old) + 1
  <2> HIDE DEF row
  <2>1. row(u) \notin old
    BY <1>3
  <2> HIDE DEF old
  <2> QED  BY <1>2, <2>1, FS_AddElement
<1> QED  BY <1>2, <1>4, <1>5 DEF Unread

LEMMA FinishInv ==
    ASSUME NoticeInv, NEW i \in DOMAIN handlers, Finish(i)
    PROVE  NoticeInv'
<1> DEFINE row(w) == [event |-> i, user |-> w, read |-> FALSE, linked |-> handlers[i].linked]
<1>1. /\ Stays /\ UNCHANGED <<badge, mailed, visits>>
      /\ handlers[i].stage = "WRITING" /\ handlers[i].left = {}
      /\ inbox' = inbox \cup {row(w) : w \in handlers[i].rows}
      /\ told' = [told EXCEPT ![i] = @ \cup handlers[i].rows]
      /\ excused' = excused \cup {u \in handlers[i].rows : Counting(u) # {i}}
      /\ handlers' = [handlers EXCEPT ![i].stage = "SENDING"]
  BY DEF Finish
<1>2. /\ handlers[i] \in Progress /\ InStage(i) /\ handlers \in [DOMAIN handlers -> Progress]
      /\ i \in DOMAIN events /\ i \in 1..MaxEvents /\ events[i] \in Event
  BY Running DEF NoticeInv, NoticeType
<1>3. handlers[i].rows \in SUBSET Users /\ handlers[i].linked \in BOOLEAN
      /\ handlers[i].rows = events[i].to /\ Untold(i)
  BY <1>1, <1>2 DEF Progress, InStage
<1>4. /\ DOMAIN handlers' = DOMAIN handlers /\ handlers' \in [DOMAIN handlers -> Progress]
      /\ \A j \in DOMAIN handlers \ {i} : handlers'[j] = handlers[j]
      /\ handlers'[i].stage = "SENDING" /\ handlers'[i].rows = handlers[i].rows
      /\ handlers'[i].counts = handlers[i].counts
  BY <1>1, <1>2 DEF Progress
<1>5. told' \in [1..MaxEvents -> SUBSET People] /\ told'[i] = events[i].to
      /\ \A j \in 1..MaxEvents \ {i} : told'[j] = told[j]
  <2>1. told \in [1..MaxEvents -> SUBSET People] /\ handlers[i].rows \in SUBSET People
    BY <1>3 DEF NoticeInv, NoticeType, People
  <2> QED  BY <1>1, <1>2, <1>3, <2>1 DEF Untold
<1>6. inbox' \subseteq Row /\ IsFiniteSet(inbox')
  <2>1. \A w \in handlers[i].rows : row(w) \in Row
    BY <1>2, <1>3 DEF Row
  <2> HIDE DEF row
  <2>2. IsFiniteSet({row(w) : w \in handlers[i].rows})
    <3>1. IsFiniteSet(handlers[i].rows)
      BY <1>2 DEF InStage
    <3> DEFINE f == [w \in handlers[i].rows |-> row(w)]
    <3>2. DOMAIN f = handlers[i].rows /\ {f[w] : w \in handlers[i].rows} = {row(w) : w \in handlers[i].rows}
      OBVIOUS
    <3> HIDE DEF f
    <3>3. IsFiniteSet({f[w] : w \in handlers[i].rows})
      BY <3>1, <3>2, ImageFinite
    <3> QED  BY <3>2, <3>3
  <2> QED  BY <1>1, <2>1, <2>2, FS_Union DEF NoticeInv, NoticeType
<1>7. AllOrNone'
  <2> SUFFICES ASSUME NEW j \in DOMAIN events
               PROVE  told'[j] \in {{}, events[j].to} /\ (j \in mailed => told'[j] = events[j].to)
    BY <1>1 DEF AllOrNone, Stays
  <2>1. j \in 1..MaxEvents
    BY NotificationsAssumption DEF NoticeInv, NoticeType
  <2> QED  BY <1>5, <2>1 DEF NoticeInv, AllOrNone
<1>8. HandlersInStage'
  <2>1. ASSUME NEW j \in 1..MaxEvents \ {i}, Untold(j)  PROVE Untold(j)'
    BY <1>1, <1>5, <2>1 DEF Untold
  <2>2. InStage(i)'
    BY <1>1, <1>2, <1>4, <1>5 DEF InStage, Stays
  <2>3. ASSUME NEW j \in DOMAIN handlers, j # i  PROVE InStage(j)'
    <3>1. j \in 1..MaxEvents \ {i} /\ InStage(j) /\ handlers'[j] = handlers[j]
      BY <1>4, <2>3, Running
    <3> QED  BY <1>1, <1>5, <2>1, <3>1 DEF InStage, Stays
  <2>4. \A j \in 1..MaxEvents : j > Len(events) => Untold(j) /\ j # i
    BY <1>2 DEF NoticeInv, HandlersInStage, NoticeType
  <2> QED  BY <1>1, <1>4, <2>1, <2>2, <2>3, <2>4 DEF HandlersInStage, Stays
<1>9. CountsRight'
  <2> SUFFICES ASSUME NEW u \in Users \ excused'
               PROVE  /\ \A j \in Counting(u)' : CountRight(u, j)'
                      /\ (\A j \in Counting(u)' : handlers'[j].stage # "SENDING") => badge'[u] = Unread(u)'
    BY DEF CountsRight
  <2>1. /\ u \in Users \ excused /\ badge' = badge
        /\ \A j \in Counting(u) : CountRight(u, j)
        /\ (\A j \in Counting(u) : handlers[j].stage # "SENDING") => badge[u] = Unread(u)
    BY <1>1 DEF NoticeInv, CountsRight
  <2>2. Counting(u)' = Counting(u)
    BY <1>4 DEF Counting
  <2>3. Unread(u)' = IF u \in handlers[i].rows THEN Unread(u) + 1 ELSE Unread(u)
    BY OneMoreUnread
  <2>4. i \in Counting(u) <=> u \in handlers[i].rows
    BY <1>2 DEF Counting, InStage
  <2>5. CASE u \in handlers[i].rows
    <3>1. Counting(u) = {i}
      BY <1>1, <2>5
    <3>2. handlers'[i].counts[u] = Unread(u)'
      BY <1>1, <1>4, <2>1, <2>3, <2>5, <3>1 DEF CountRight
    <3> QED  BY <1>4, <2>2, <3>1, <3>2 DEF CountRight
  <2>6. CASE u \notin handlers[i].rows
    <3>1. \A j \in Counting(u) : handlers'[j] = handlers[j]
      BY <1>4, <2>4, <2>6 DEF Counting
    <3> QED  BY <2>1, <2>2, <2>3, <2>6, <3>1 DEF CountRight
  <2> QED  BY <2>5, <2>6
<1>10. excused' \subseteq Users /\ badge' \in [Users -> Int] /\ mailed' \subseteq 1..MaxEvents
  BY <1>1, <1>3 DEF NoticeInv, NoticeType
<1> QED  BY <1>1, <1>4, <1>5, <1>6, <1>7, <1>8, <1>9, <1>10, HandlerAlone

LEMMA SendInv ==
    ASSUME NoticeInv, NEW i \in DOMAIN handlers, Send(i)
    PROVE  NoticeInv'
<1>1. /\ handlers[i].stage = "SENDING" /\ Stays /\ UNCHANGED <<inbox, told, excused, visits>>
      /\ badge' = [u \in Users |-> IF u \in DOMAIN handlers[i].counts THEN handlers[i].counts[u] ELSE badge[u]]
      /\ mailed' = mailed \cup {i}
  BY DEF Send
<1>2. /\ DOMAIN handlers' = DOMAIN handlers \ {i} /\ \A j \in DOMAIN handlers' : handlers'[j] = handlers[j]
      /\ handlers' = [j \in DOMAIN handlers' |-> handlers'[j]]
  BY DEF Send, Gone
<1>3. handlers' \in [DOMAIN handlers' -> Progress]
  BY <1>2 DEF NoticeInv, NoticeType
<1>4. handlers[i] \in Progress /\ InStage(i) /\ i \in DOMAIN events /\ i \in 1..MaxEvents
  BY Running
<1>5. badge' \in [Users -> Int]
  <2>1. badge \in [Users -> Int]
    BY DEF NoticeInv, NoticeType
  <2>2. PICK S \in SUBSET Users : handlers[i].counts \in [S -> Int]
    BY <1>4 DEF Progress, Counts
  <2> QED  BY <1>1, <2>1, <2>2
<1>6. told[i] = events[i].to
  BY <1>1, <1>4 DEF InStage
<1>7. AllOrNone'
  BY <1>1, <1>6 DEF NoticeInv, AllOrNone, Stays
<1>8. HandlersInStage'
  <2>1. ASSUME NEW j \in 1..MaxEvents \ {i}, Untold(j)  PROVE Untold(j)'
    BY <1>1, <2>1 DEF Untold
  <2>2. ASSUME NEW j \in DOMAIN handlers'  PROVE InStage(j)'
    <3>1. j \in 1..MaxEvents \ {i} /\ InStage(j) /\ handlers'[j] = handlers[j]
      BY <1>2, <2>2, Running
    <3> QED  BY <1>1, <2>1, <3>1 DEF InStage, Stays
  <2>3. \A j \in 1..MaxEvents : j > Len(events) => Untold(j) /\ j # i
    BY <1>4 DEF NoticeInv, HandlersInStage, NoticeType
  <2> QED  BY <1>1, <2>1, <2>2, <2>3 DEF HandlersInStage, Stays
<1>9. CountsRight'
  <2> SUFFICES ASSUME NEW u \in Users \ excused
               PROVE  /\ \A j \in Counting(u)' : CountRight(u, j)'
                      /\ (\A j \in Counting(u)' : handlers'[j].stage # "SENDING") => badge'[u] = Unread(u)'
    BY <1>1 DEF CountsRight
  <2>1. /\ \A j \in Counting(u) : CountRight(u, j)
        /\ (\A j \in Counting(u) : handlers[j].stage # "SENDING") => badge[u] = Unread(u)
    BY DEF NoticeInv, CountsRight
  <2>2. Counting(u)' = Counting(u) \ {i} /\ \A j \in Counting(u)' : handlers'[j] = handlers[j]
    BY <1>2 DEF Counting
  <2>3. Unread(u)' = Unread(u)
    BY <1>1 DEF Unread
  <2>4. \A j \in Counting(u)' : CountRight(u, j)'
    BY <2>1, <2>2, <2>3 DEF CountRight
  <2>5. CASE i \in Counting(u)
    <3>1. badge'[u] = handlers[i].counts[u] /\ CountRight(u, i)
      BY <1>1, <2>1, <2>5 DEF Counting
    <3> QED  BY <1>1, <2>3, <2>4, <3>1 DEF CountRight
  <2>6. CASE i \notin Counting(u)
    <3>1. badge'[u] = badge[u] /\ Counting(u)' = Counting(u)
      BY <1>1, <2>2, <2>6 DEF Counting
    <3> QED  BY <2>1, <2>2, <2>3, <2>4, <3>1
  <2> QED  BY <2>5, <2>6
<1>10. /\ inbox' \subseteq Row /\ IsFiniteSet(inbox') /\ told' \in [1..MaxEvents -> SUBSET People]
       /\ mailed' \subseteq 1..MaxEvents /\ excused' \subseteq Users
  BY <1>1, <1>4 DEF NoticeInv, NoticeType
<1> QED  BY <1>1, <1>2, <1>3, <1>5, <1>7, <1>8, <1>9, <1>10, HandlerAlone

(* The restart: whoever would have been sent a count is not sent it. *)
LEMMA DieInv ==
    ASSUME NoticeInv, Die
    PROVE  NoticeInv'
<1> USE DEF Die
<1>1. DOMAIN handlers' = {} /\ handlers' \in [{} -> Progress] /\ call' = NoCall
  OBVIOUS
<1>2. excused' \subseteq Users
  <2>1. \A i \in DOMAIN handlers : DOMAIN handlers[i].counts \subseteq Users
    BY Running DEF Progress, InStage
  <2> QED  BY <2>1 DEF NoticeInv, NoticeType
<1>3. NoticeType'
  BY <1>1, <1>2 DEF NoticeInv, NoticeType
<1>4. SpeaksForItself' /\ OnlyCommitted' /\ WellHeard(events)' /\ AllOrNone'
  BY DEF NoticeInv, SpeaksForItself, OnlyCommitted, AllOrNone
<1>5. HandlersInStage'
  BY <1>1 DEF NoticeInv, HandlersInStage, Untold
<1>6. CountsRight'
  <2> SUFFICES ASSUME NEW u \in Users \ excused'
               PROVE  Counting(u)' = {} /\ badge[u] = Unread(u)'
    BY DEF CountsRight
  <2>1. Counting(u)' = {}
    BY <1>1 DEF Counting
  <2>2. \A i \in Counting(u) : handlers[i].stage # "SENDING"
    BY DEF Counting
  <2>3. u \in Users \ excused
    OBVIOUS
  <2>4. badge[u] = Unread(u)
    BY <2>2, <2>3 DEF NoticeInv, CountsRight
  <2> QED  BY <2>1, <2>4 DEF Unread
<1> QED  BY <1>3, <1>4, <1>5, <1>6 DEF NoticeInv

-----------------------------------------------------------------------------
(* The notification centre *)

(* It changes rows, never which event they are of. *)
LEMMA ApiAlone ==
    ASSUME NoticeInv, Api, unticked' \in BOOLEAN, inbox' \subseteq Row, IsFiniteSet(inbox'),
           badge' \in [Users -> Int], excused' \subseteq Users,
           \A r \in inbox' : \E q \in inbox : r.event = q.event, CountsRight'
    PROVE  NoticeInv'
<1> USE DEF Api
<1>1. NoticeType'
  <2>1. visits' \in 0..MaxVisits
    BY NotificationsAssumption DEF NoticeInv, NoticeType
  <2> QED  BY <2>1 DEF NoticeInv, NoticeType
<1>2. SpeaksForItself' /\ OnlyCommitted' /\ WellHeard(events)' /\ AllOrNone'
  BY DEF NoticeInv, SpeaksForItself, OnlyCommitted, AllOrNone
<1>3. HandlersInStage'
  BY DEF NoticeInv, HandlersInStage, InStage, Untold
<1> QED  BY <1>1, <1>2, <1>3 DEF NoticeInv

(* The count the centre sends is the one of the rows it leaves. *)
LEMMA SentRight ==
    ASSUME NoticeInv, NEW caller \in Users, Sent(caller), IsFiniteSet(inbox')
    PROVE  /\ badge' \in [Users -> Int] /\ badge'[caller] = Unread(caller)'
           /\ \A u \in Users : u # caller => badge'[u] = badge[u]
<1> DEFINE n == Cardinality({r \in inbox' : r.user = caller /\ ~r.read})
<1>1. n \in Int /\ n = Unread(caller)'
  <2>1. {r \in inbox' : r.user = caller /\ ~r.read} \subseteq inbox'
    OBVIOUS
  <2>2. n \in Nat
    BY <2>1, FS_Subset, FS_CardinalityType
  <2> QED  BY <2>2 DEF Unread
<1>2. badge' = [badge EXCEPT ![caller] = n]
  BY DEF Sent
<1> HIDE DEF n
<1>3. badge \in [Users -> Int]
  BY DEF NoticeInv, NoticeType
<1> QED  BY <1>1, <1>2, <1>3

LEMMA MarkInv ==
    ASSUME NoticeInv, NEW r \in inbox, NEW read \in BOOLEAN, NEW caller \in Users, Mark(r, read, caller)
    PROVE  NoticeInv'
<1> DEFINE marked == [r EXCEPT !.read = read]
<1>1. /\ inbox' = (inbox \ {r}) \cup {marked} /\ Counted(r.user, caller) /\ Sent(caller) /\ Api
      /\ unticked' = unticked
  BY DEF Mark
<1>2. /\ r \in Row /\ inbox \subseteq Row /\ IsFiniteSet(inbox) /\ unticked \in BOOLEAN /\ excused \subseteq Users
  BY DEF NoticeInv, NoticeType
<1>3. marked \in Row /\ marked.event = r.event /\ marked.user = r.user /\ r.user \in Users
  BY <1>2 DEF Row
<1> HIDE DEF marked
<1>4. inbox' \subseteq Row /\ IsFiniteSet(inbox')
  <2>1. IsFiniteSet(inbox \ {r})
    BY <1>2, FS_RemoveElement
  <2>2. IsFiniteSet(inbox')
    BY <1>1, <2>1, FS_AddElement
  <2> QED  BY <1>1, <1>2, <1>3, <2>2
<1>5. \A q \in inbox' : \E p \in inbox : q.event = p.event
  BY <1>1, <1>3
<1>6. excused' \subseteq Users
  BY <1>1, <1>2, <1>3 DEF Counted
<1>7. CountsRight'
  <2> SUFFICES ASSUME NEW u \in Users \ excused'
               PROVE  /\ \A i \in Counting(u)' : CountRight(u, i)'
                      /\ (\A i \in Counting(u)' : handlers'[i].stage # "SENDING") => badge'[u] = Unread(u)'
    BY DEF CountsRight
  <2>1. u \in Users \ excused /\ handlers' = handlers /\ Counting(u)' = Counting(u)
    BY <1>1 DEF Counted, Api, Counting
  <2>2. /\ \A i \in Counting(u) : CountRight(u, i)
        /\ (\A i \in Counting(u) : handlers[i].stage # "SENDING") => badge[u] = Unread(u)
    BY <2>1 DEF NoticeInv, CountsRight
  <2>3. CASE u = r.user
    <3>1. u = caller /\ Counting(u) = {}
      BY <1>1, <2>3 DEF Counted
    <3> QED  BY <1>1, <1>4, <2>1, <3>1, SentRight
  <2>4. CASE u # r.user
    <3>1. {q \in inbox' : q.user = u /\ ~q.read} = {q \in inbox : q.user = u /\ ~q.read}
      BY <1>1, <1>3, <2>4
    <3>2. Unread(u)' = Unread(u)
      BY <3>1 DEF Unread
    <3>3. \A i \in Counting(u)' : CountRight(u, i)'
      BY <2>1, <2>2, <3>2 DEF CountRight
    <3>4. badge'[u] = IF u = caller THEN Unread(u)' ELSE badge[u]
      BY <1>1, <1>4, SentRight
    <3> QED  BY <2>1, <2>2, <3>2, <3>3, <3>4
  <2> QED  BY <2>3, <2>4
<1> QED  BY <1>1, <1>2, <1>4, <1>5, <1>6, <1>7, SentRight, ApiAlone

LEMMA ReadAllInv ==
    ASSUME NoticeInv, NEW caller \in Users, ReadAll(caller)
    PROVE  NoticeInv'
<1> DEFINE f == [r \in inbox |-> IF r.user = caller THEN [r EXCEPT !.read = TRUE] ELSE r]
<1>1. /\ Api /\ unticked' = unticked /\ badge' = badge /\ excused' = excused \cup {caller}
      /\ inbox' = {f[r] : r \in inbox} /\ DOMAIN f = inbox
  BY DEF ReadAll
<1>2. /\ inbox \subseteq Row /\ IsFiniteSet(inbox) /\ unticked \in BOOLEAN /\ excused \subseteq Users
      /\ badge \in [Users -> Int]
  BY DEF NoticeInv, NoticeType
<1>3. \A r \in inbox : f[r] \in Row /\ f[r].event = r.event /\ f[r].user = r.user /\ (r.user # caller => f[r] = r)
  BY <1>2 DEF Row
<1> HIDE DEF f
<1>4. inbox' \subseteq Row /\ IsFiniteSet(inbox')
  BY <1>1, <1>2, <1>3, ImageFinite
<1>5. \A q \in inbox' : \E p \in inbox : q.event = p.event
  BY <1>1, <1>3
<1>6. CountsRight'
  <2>1. ASSUME NEW u \in Users \ excused'  PROVE Unread(u)' = Unread(u)
    <3>1. u # caller
      BY <1>1
    <3>2. {q \in inbox' : q.user = u /\ ~q.read} = {q \in inbox : q.user = u /\ ~q.read}
      BY <1>1, <1>3, <3>1
    <3> QED  BY <3>2 DEF Unread
  <2>2. handlers' = handlers /\ Users \ excused' \subseteq Users \ excused /\ \A u : Counting(u)' = Counting(u)
    BY <1>1 DEF Api, Counting
  <2> QED  BY <1>1, <2>1, <2>2 DEF NoticeInv, CountsRight, CountRight
<1> QED  BY <1>1, <1>2, <1>4, <1>5, <1>6, ApiAlone

LEMMA DeleteNotificationInv ==
    ASSUME NoticeInv, NEW caller \in Users, DeleteNotification(caller)
    PROVE  NoticeInv'
<1>1. Api /\ Sent(caller) /\ UNCHANGED <<unticked, inbox, excused>>
  BY DEF DeleteNotification
<1>2. /\ inbox \subseteq Row /\ IsFiniteSet(inbox) /\ unticked \in BOOLEAN /\ excused \subseteq Users
  BY DEF NoticeInv, NoticeType
<1>3. /\ badge' \in [Users -> Int] /\ badge'[caller] = Unread(caller)'
      /\ \A u \in Users : u # caller => badge'[u] = badge[u]
  BY <1>1, <1>2, SentRight
<1>4. CountsRight'
  <2>1. handlers' = handlers /\ \A u : Counting(u)' = Counting(u) /\ Unread(u)' = Unread(u)
    BY <1>1 DEF Api, Counting, Unread
  <2> QED  BY <1>1, <1>3, <2>1 DEF NoticeInv, CountsRight, CountRight
<1> QED  BY <1>1, <1>2, <1>3, <1>4, ApiAlone

LEMMA PreferencesInv ==
    ASSUME NoticeInv, NEW off \in BOOLEAN, SetFolderNotificationsPreferences(off)
    PROVE  NoticeInv'
<1>1. Api /\ unticked' \in BOOLEAN /\ UNCHANGED <<inbox, badge, excused>>
  BY DEF SetFolderNotificationsPreferences
<1>2. CountsRight'
  <2>1. handlers' = handlers /\ \A u : Counting(u)' = Counting(u) /\ Unread(u)' = Unread(u)
    BY <1>1 DEF Api, Counting, Unread
  <2> QED  BY <1>1, <2>1 DEF NoticeInv, CountsRight, CountRight
<1> QED  BY <1>1, <1>2, ApiAlone DEF NoticeInv, NoticeType

-----------------------------------------------------------------------------
(* The theorems *)

LEMMA NextInv == NoticeInv /\ [NoticeNext]_noticeVars => NoticeInv'
<1> SUFFICES ASSUME NoticeInv, [NoticeNext]_noticeVars PROVE NoticeInv'
  OBVIOUS
<1>1. ASSUME NEW u \in People, Begin(u)  PROVE NoticeInv'
  BY <1>1, BeginInv
<1>2. CASE Operation \/ Commit \/ Throw
  BY <1>2, OperationInv, CommitInv, ThrowInv
<1>3. ASSUME NEW i \in DOMAIN handlers,
             Prepare(i) \/ (\E u \in Users : Deliver(i, u)) \/ DeliverFails(i) \/ Finish(i) \/ Send(i)
      PROVE  NoticeInv'
  BY <1>3, PrepareInv, DeliverInv, DeliverFailsInv, FinishInv, SendInv
<1>4. CASE Die
  BY <1>4, DieInv
<1>5. CASE Centre
  BY <1>5, MarkInv, ReadAllInv, DeleteNotificationInv, PreferencesInv DEF Centre
<1>6. CASE UNCHANGED noticeVars
  <2> USE <1>6 DEF noticeVars
  <2>1. NoticeType' /\ SpeaksForItself' /\ OnlyCommitted' /\ WellHeard(events)' /\ AllOrNone'
    BY DEF NoticeInv, NoticeType, SpeaksForItself, OnlyCommitted, AllOrNone
  <2>2. HandlersInStage'
    BY DEF NoticeInv, HandlersInStage, InStage, Untold
  <2>3. CountsRight'
    BY DEF NoticeInv, CountsRight, CountRight, Counting, Unread
  <2> QED  BY <2>1, <2>2, <2>3 DEF NoticeInv
<1> QED  BY <1>1, <1>2, <1>3, <1>4, <1>5, <1>6 DEF NoticeNext

(* Every step, of a request, a handler or the notification centre, keeps the invariant. *)
THEOREM NoticesInvariance == NoticeSpec => []NoticeInv
BY InitInv, NextInv, PTL DEF NoticeSpec

(* Nobody is told of, and no automation runs on, a change that was rolled back. *)
THEOREM RollbackIsSilent == NoticeSpec => []OnlyCommitted
<1>1. NoticeInv => OnlyCommitted
  BY DEF NoticeInv
<1> QED  BY <1>1, NoticesInvariance, PTL

(* An event gives a row to each of its recipients or to none, and its message waits for the rows. *)
THEOREM NobodyHalfTold == NoticeSpec => []AllOrNone
<1>1. NoticeInv => AllOrNone
  BY DEF NoticeInv
<1> QED  BY <1>1, NoticesInvariance, PTL

(* A comment reaches its audience, and nobody reads of it as mentioned and as a follower. *)
THEOREM CommentsHeardOnce == NoticeSpec => []HeardOnce
<1>1. NoticeInv => HeardOnce
  BY DEF NoticeInv, NoticeType, WellHeard, CommentHeard, HeardOnce
<1> QED  BY <1>1, NoticesInvariance, PTL

(* The number at the bell is right for everyone whose inbox nobody changed under a count. *)
THEOREM BadgeCounts == NoticeSpec => []BadgeRight
<1>1. NoticeInv => BadgeRight
  BY DEF NoticeInv, CountsRight, BadgeRight
<1> QED  BY <1>1, NoticesInvariance, PTL

-----------------------------------------------------------------------------
(* Dashboards *)

(* What a call is made of, by its name. *)
Formed(r) ==
    /\ r.op # "CHANGE" => \E b \in Boards : r.on = {b}
    /\ r.op = "CHANGE" => r.had \in r.on
    /\ r.op \in {"WIDGET", "CHANGE", "DROP"} => r.widget \in Widgets
    /\ r.op \in {"CREATE", "COPY", "FOLDERS", "WIDGET", "CHANGE"} => r.ins \subseteq Linked
    /\ r.op = "FOLDERS" => r.ins \cap r.del = {}

RowsType ==
    /\ boards \subseteq Boards /\ system \subseteq Boards
    /\ rights \in [Boards -> [Viewers -> SUBSET {"OWNER", "FULL", "EDITOR", "READ"}]]
    /\ links \subseteq Boards \X Linked /\ shows \subseteq Widgets \X Linked
    /\ home \in [Widgets -> Boards \cup {Nothing}] /\ default \in [Viewers -> Boards \cup {Nothing}]
    /\ favourites \subseteq Viewers \X Boards
BoardsType ==
    /\ RowsType /\ raced \subseteq Boards
    /\ calls \in [Slots -> {r \in CallRecords : Formed(r)} \cup {Idle}]

-----------------------------------------------------------------------------
(* Who is alone on a dashboard.  All dashboards of a call are raced, or none is. *)
Active(c) == calls[c] # Idle
Alone ==
    /\ \A c \in Slots : Active(c) => calls[c].on \cap raced = {} \/ calls[c].on \subseteq raced
    /\ \A c, d \in Slots : (Active(c) /\ Active(d) /\ c # d /\ calls[c].on \cap calls[d].on # {}) =>
          calls[c].on \subseteq raced /\ calls[d].on \subseteq raced

(* A dashboard on which calls did not meet.  Its owner is written after it and removed before it,
   by the one call that is on it. *)
HasOwner(b) == \E u \in Viewers : "OWNER" \in rights[b][u]
NoRights(b) == \A u \in Viewers : rights[b][u] = {}
LastStep(r) == r.op = "DELETE" /\ r.step = "BOARD"
Unfinished(r) ==
    \/ r.op = "CREATE" /\ r.step \in {"FIND", "DEFAULT", "LINK", "OWNER"}
    \/ r.op = "COPY" /\ r.step = "OWNER"
    \/ LastStep(r)
Whole(b) ==
    /\ b \notin boards => /\ Busy(b) = {} /\ \A l \in links : l[1] # b
                          /\ On(b) = {} /\ NoRights(b) /\ \A u \in Viewers : default[u] # b
    /\ b \in boards => HasOwner(b) \/ \E c \in Busy(b) : Unfinished(calls[c])
    /\ \A c \in Busy(b) : LastStep(calls[c]) => NoRights(b)

(* The widgets a call has in hand: no other call on a dashboard where none met has them as well. *)
Holds(r) ==
    CASE r.op \in {"CHANGE", "DROP"} \/ (r.op = "WIDGET" /\ r.step = "SHOW") -> {r.widget}
      [] r.op = "FOLDERS" \/ (r.op = "DELETE" /\ r.step = "WIDGETS") -> r.read
      [] OTHER -> {}
HeldSpent ==
    /\ \A w \in Widgets : home[w] # Nothing => w \in spent
    /\ \A c \in Slots : Active(c) => Holds(calls[c]) \subseteq spent
HeldHere ==
    \A c \in Slots : Active(c) => \A w \in Holds(calls[c]) :
        home[w] \in calls[c].on \cup {Nothing} \/ (home[w] \in raced /\ calls[c].on \subseteq raced)
HeldOnce ==
    \A c, d \in Slots : (Active(c) /\ Active(d) /\ c # d /\ Holds(calls[c]) \cap Holds(calls[d]) # {}) =>
        calls[c].on \subseteq raced /\ calls[d].on \subseteq raced

(* How far a change of folders has come. *)
Reaching ==
    \A c \in Slots : (Active(c) /\ calls[c].op = "FOLDERS" /\ calls[c].on \cap raced = {}) =>
        \A w \in Widgets : home[w] \in calls[c].on =>
            /\ w \in calls[c].read
            /\ calls[c].step \in {"UNLINK", "HIDE", "SAVE"} => calls[c].ins \subseteq Of(w)
            /\ calls[c].step = "SAVE" => Of(w) \cap calls[c].del = {}

BoardsInv ==
    /\ BoardsType /\ Alone
    /\ \A b \in Boards \ raced : Whole(b)
    /\ HeldSpent /\ HeldHere /\ HeldOnce /\ Reaching

-----------------------------------------------------------------------------
(* A call runs on: as r, or r is Idle and it has ended or broken off. *)
StepOf(c, r) ==
    /\ Active(c) /\ calls' = [calls EXCEPT ![c] = r]
    /\ raced' = raced \/ (r = Idle /\ raced' = raced \cup calls[c].on)
    /\ r # Idle => /\ r \in CallRecords /\ Formed(r) /\ r.op = calls[c].op /\ r.on = calls[c].on
                   /\ r.ins = calls[c].ins /\ r.del = calls[c].del /\ r.read = calls[c].read /\ r.widget = calls[c].widget

LEMMA CallAt ==
    ASSUME BoardsType, NEW c \in Slots, Active(c)
    PROVE  calls[c] \in CallRecords /\ Formed(calls[c])
BY DEF BoardsType, Active

LEMMA TheOne ==
    ASSUME BoardsType, NEW c \in Slots, Active(c), calls[c].op # "CHANGE"
    PROVE  The(c) \in Boards /\ calls[c].on = {The(c)}
<1>1. PICK b \in Boards : calls[c].on = {b}
  BY CallAt DEF Formed
<1> QED  BY <1>1 DEF The

LEMMA Moved ==
    ASSUME NEW r \in CallRecords, Formed(r), NEW step \in Steps, NEW q, q = [r EXCEPT !.step = step]
    PROVE  /\ q \in CallRecords /\ Formed(q) /\ q # Idle /\ q.step = step /\ q.op = r.op /\ q.on = r.on /\ q.ins = r.ins
           /\ q.del = r.del /\ q.read = r.read /\ q.widget = r.widget /\ q.had = r.had /\ q.by = r.by
<1>1. q \in CallRecords /\ q.step = step /\ q.op = r.op /\ q.on = r.on /\ q.ins = r.ins
      /\ q.del = r.del /\ q.read = r.read /\ q.widget = r.widget /\ q.had = r.had /\ q.by = r.by
  BY DEF CallRecords
<1>2. q # Idle
  BY <1>1, IdleAssumption
<1>3. Formed(q)
  BY <1>1 DEF Formed
<1> QED  BY <1>1, <1>2, <1>3

LEMMA StepsOn ==
    ASSUME BoardsType, NEW c \in Slots, Active(c), NEW step \in Steps, GoTo(c, step)
    PROVE  \E r : StepOf(c, r) /\ r # Idle /\ r.step = step
<1> DEFINE r == [calls[c] EXCEPT !.step = step]
<1>1. r \in CallRecords /\ Formed(r) /\ r # Idle /\ r.step = step /\ r.op = calls[c].op /\ r.on = calls[c].on /\ r.ins = calls[c].ins
      /\ r.del = calls[c].del /\ r.read = calls[c].read /\ r.widget = calls[c].widget
  BY CallAt, Moved
<1>2. calls' = [calls EXCEPT ![c] = r] /\ raced' = raced
  BY DEF GoTo
<1> HIDE DEF r
<1>3. StepOf(c, r)
  BY <1>1, <1>2 DEF StepOf
<1> QED  BY <1>1, <1>3

LEMMA EndsThere ==
    ASSUME NEW c \in Slots, Active(c), Ends(c) \/ Aborts(c)
    PROVE  StepOf(c, Idle) /\ (Aborts(c) => calls[c].on \subseteq raced')
BY DEF StepOf, Ends, Aborts

LEMMA StepTypes ==
    ASSUME BoardsType, NEW c \in Slots, NEW r, StepOf(c, r), RowsType'
    PROVE  BoardsType'
<1>1. raced' \subseteq Boards
  BY CallAt DEF StepOf, BoardsType, CallRecords
<1>2. calls' \in [Slots -> {q \in CallRecords : Formed(q)} \cup {Idle}]
  BY DEF StepOf, BoardsType
<1> QED  BY <1>1, <1>2 DEF BoardsType

LEMMA StepAlone ==
    ASSUME BoardsType, Alone, NEW c \in Slots, NEW r, StepOf(c, r)
    PROVE  Alone'
<1>1. /\ calls' = [calls EXCEPT ![c] = r] /\ Active(c) /\ calls \in [Slots -> {q \in CallRecords : Formed(q)} \cup {Idle}]
      /\ (raced' = raced \/ (r = Idle /\ raced' = raced \cup calls[c].on)) /\ (r # Idle => r.on = calls[c].on)
  BY DEF StepOf, BoardsType
<1>2. \A d \in Slots : Active(d)' => Active(d) /\ calls'[d].on = calls[d].on /\ (d = c => r # Idle)
  BY <1>1 DEF Active
<1>3. \A d \in Slots : Active(d)' => calls[d].on \cap raced' = {} \/ calls[d].on \subseteq raced'
  BY <1>1, <1>2 DEF Alone
<1>4. raced \subseteq raced'
  BY <1>1
<1> QED  BY <1>2, <1>3, <1>4 DEF Alone

LEMMA BeginTypes ==
    ASSUME BoardsType, NEW c \in Slots, NEW r \in CallRecords, Formed(r), Begins(c, r), RowsType'
    PROVE  BoardsType'
<1> DEFINE met == {d \in Slots : calls[d] # Idle /\ calls[d].on \cap r.on # {}}
<1>1. calls' = [calls EXCEPT ![c] = r] /\ raced' \subseteq raced \cup r.on \cup UNION {calls[d].on : d \in met}
  BY DEF Begins
<1>2. \A d \in met : calls[d].on \subseteq Boards
  BY CallAt DEF Active, CallRecords
<1>3. r.on \subseteq Boards
  BY DEF CallRecords
<1> HIDE DEF met
<1>4. raced' \subseteq Boards
  BY <1>1, <1>2, <1>3 DEF BoardsType
<1>5. calls' \in [Slots -> {q \in CallRecords : Formed(q)} \cup {Idle}]
  BY <1>1 DEF BoardsType
<1> QED  BY <1>4, <1>5 DEF BoardsType

(* A call that begins: the calls it meets are raced with it, and one on a raced dashboard as well. *)
LEMMA Beginning ==
    ASSUME BoardsType, Alone, NEW c \in Slots, NEW r \in CallRecords, Begins(c, r)
    PROVE  /\ Alone' /\ raced \subseteq raced' /\ ~ Active(c) /\ calls' = [calls EXCEPT ![c] = r]
           /\ \A d \in Slots : (Active(d) /\ calls[d].on \cap r.on # {}) => r.on \subseteq raced' /\ calls[d].on \subseteq raced'
           /\ r.on \cap raced # {} => r.on \subseteq raced'
<1> DEFINE met == {d \in Slots : calls[d] # Idle /\ calls[d].on \cap r.on # {}}
           all == UNION {calls[d].on : d \in met}
<1>1. /\ calls' = [calls EXCEPT ![c] = r] /\ ~ Active(c)
      /\ raced' = IF met = {} /\ r.on \cap raced = {} THEN raced ELSE raced \cup r.on \cup all
  BY DEF Begins, Active
<1>2. \A d \in met : calls[d].on \subseteq all
  OBVIOUS
<1>3. \A d \in Slots : (Active(d) /\ calls[d].on \cap r.on # {}) => d \in met
  BY DEF Active
<1>4. \A b \in all : \E d \in met : b \in calls[d].on
  OBVIOUS
<1> HIDE DEF all
<1>5. raced \subseteq raced' /\ \A d \in met : r.on \subseteq raced' /\ calls[d].on \subseteq raced'
  BY <1>1, <1>2
<1>6. r.on \cap raced # {} => r.on \subseteq raced'
  BY <1>1
<1>7. ASSUME NEW d \in Slots, Active(d)' PROVE calls'[d].on \cap raced' = {} \/ calls'[d].on \subseteq raced'
  <2>1. CASE d = c
    <3>1. calls'[d] = r
      BY <1>1, <2>1 DEF BoardsType
    <3> QED  BY <1>1, <3>1
  <2>2. CASE d # c
    <3>1. calls'[d] = calls[d] /\ Active(d)
      BY <1>1, <1>7, <2>2 DEF BoardsType, Active
    <3>2. CASE calls[d].on \subseteq raced
      BY <1>5, <3>1, <3>2
    <3>3. CASE d \in met
      BY <1>5, <3>1, <3>3
    <3>4. CASE calls[d].on \cap raced = {} /\ d \notin met
      <4>1. \A e \in met : calls[e].on \cap calls[d].on = {}
        <5> SUFFICES ASSUME NEW e \in met, calls[e].on \cap calls[d].on # {} PROVE FALSE
          OBVIOUS
        <5>1. calls[d].on \subseteq raced /\ e # d
          BY <3>1, <3>4 DEF Alone, Active
        <5> QED  BY <3>4, <5>1
      <4>2. calls[d].on \cap r.on = {}
        BY <1>3, <3>1, <3>4
      <4> QED  BY <1>1, <1>4, <3>1, <3>4, <4>1, <4>2
    <3> QED  BY <3>1, <3>2, <3>3, <3>4 DEF Alone
  <2> QED  BY <2>1, <2>2
<1>8. ASSUME NEW d \in Slots, NEW e \in Slots, Active(d)', Active(e)', d # e, calls'[d].on \cap calls'[e].on # {}
      PROVE  calls'[d].on \subseteq raced' /\ calls'[e].on \subseteq raced'
  <2>1. \A x \in Slots : x # c => calls'[x] = calls[x] /\ (Active(x)' <=> Active(x))
    BY <1>1 DEF BoardsType, Active
  <2>2. calls'[c] = r
    BY <1>1 DEF BoardsType
  <2>3. CASE d # c /\ e # c
    BY <1>5, <1>8, <2>1, <2>3 DEF Alone
  <2>4. CASE d = c
    <3>1. e \in met
      BY <1>3, <1>8, <2>1, <2>2, <2>4
    <3> QED  BY <1>5, <1>8, <2>1, <2>2, <2>4, <3>1
  <2>5. CASE e = c
    <3>1. d \in met
      BY <1>3, <1>8, <2>1, <2>2, <2>5
    <3> QED  BY <1>5, <1>8, <2>1, <2>2, <2>5, <3>1
  <2> QED  BY <2>3, <2>4, <2>5
<1>9. Alone'
  BY <1>7, <1>8 DEF Alone
<1> HIDE DEF met
<1> QED  BY <1>1, <1>3, <1>5, <1>6, <1>9

-----------------------------------------------------------------------------
(* What a step of a call does to dashboards: all but the last two of a deletion write about the
   dashboards the call is on alone, leave them there and leave them their owners. *)
Guards(c, r) ==
    /\ boards \subseteq boards' /\ boards' \subseteq boards \cup calls[c].on
    /\ \A l \in links' : l \in links \/ l[1] \in calls[c].on
    /\ \A w \in Widgets : home'[w] \in {home[w], Nothing} \cup calls[c].on
    /\ \A u \in Viewers : default'[u] \in {default[u], Nothing} \cup calls[c].on
    /\ \A b \in Boards \ calls[c].on : rights'[b] = rights[b]
    /\ \A b \in calls[c].on : HasOwner(b) => HasOwner(b)'
    /\ Unfinished(calls[c]) =>
          (r # Idle /\ Unfinished(r)) \/ calls[c].on \subseteq raced' \/ \A b \in calls[c].on : HasOwner(b)'
    /\ r # Idle => ~ LastStep(r)

(* Away from its dashboards a step changes nothing that Whole looks at. *)
LEMMA ElsewhereWhole ==
    ASSUME BoardsType, NEW c \in Slots, NEW r, StepOf(c, r), NEW b \in Boards, Whole(b), b \notin calls[c].on,
           b \in boards <=> b \in boards', rights'[b] = rights[b], \A l \in links' : l[1] = b => l \in links,
           \A w \in Widgets : home'[w] = b => home[w] = b, \A u \in Viewers : default'[u] = b => default[u] = b
    PROVE  Whole(b)'
<1>1. \A d \in Slots : d # c => calls'[d] = calls[d]
  BY DEF StepOf, BoardsType
<1>2. calls'[c] = r /\ Active(c) /\ (r # Idle => r.on = calls[c].on)
  BY DEF StepOf, BoardsType
<1>3. \A d \in Slots : d \in Busy(b) <=> d \in Busy(b)'
  BY <1>1, <1>2 DEF Busy, Active
<1>4. Busy(b)' = Busy(b)
  BY <1>3 DEF Busy
<1>5. \A d \in Busy(b) : calls'[d] = calls[d]
  BY <1>1, <1>2 DEF Busy, Active
<1>6. (HasOwner(b)' <=> HasOwner(b)) /\ (NoRights(b)' <=> NoRights(b))
  BY DEF HasOwner, NoRights
<1>7. b \notin boards' => /\ Busy(b)' = {} /\ \A l \in links' : l[1] # b
                          /\ On(b)' = {} /\ NoRights(b)' /\ \A u \in Viewers : default'[u] # b
  BY <1>4, <1>6 DEF Whole, On
<1>8. b \in boards' => HasOwner(b)' \/ \E d \in Busy(b)' : Unfinished(calls'[d])
  BY <1>4, <1>5, <1>6 DEF Whole
<1>9. \A d \in Busy(b)' : LastStep(calls'[d]) => NoRights(b)'
  BY <1>4, <1>5, <1>6 DEF Whole
<1> HIDE DEF Busy, Unfinished, LastStep, HasOwner, NoRights
<1> QED  BY <1>7, <1>8, <1>9 DEF Whole, Unfinished, LastStep

LEMMA StepWhole ==
    ASSUME BoardsType, Alone, \A b \in Boards \ raced : Whole(b), NEW c \in Slots, NEW r, StepOf(c, r), Guards(c, r)
    PROVE  \A b \in Boards \ raced' : Whole(b)'
<1> SUFFICES ASSUME NEW b \in Boards, b \notin raced' PROVE Whole(b)'
  OBVIOUS
<1>1. b \notin raced /\ Whole(b) /\ b # Nothing
  BY DashboardsAssumption DEF StepOf
<1>2. CASE b \notin calls[c].on
  <2>1. b \in boards <=> b \in boards'
    BY <1>2 DEF Guards
  <2>2. \A w \in Widgets : home'[w] = b => home[w] = b
    BY <1>1, <1>2 DEF Guards
  <2>3. \A u \in Viewers : default'[u] = b => default[u] = b
    BY <1>1, <1>2 DEF Guards
  <2>4. rights'[b] = rights[b] /\ \A l \in links' : l[1] = b => l \in links
    BY <1>2 DEF Guards
  <2> QED  BY <1>1, <1>2, <2>1, <2>2, <2>3, <2>4, ElsewhereWhole
<1>3. CASE b \in calls[c].on
  <2>1. c \in Busy(b) /\ \A d \in Busy(b) : d = c
    BY <1>1, <1>3 DEF Busy, Alone, StepOf, Active
  <2>2. b \in boards'
    BY <1>1, <2>1 DEF Whole, Guards
  <2>3. calls'[c] = r /\ \A d \in Slots : d # c => calls'[d] = calls[d]
    BY DEF StepOf, BoardsType
  <2>4. \A d \in Busy(b)' : d = c /\ r # Idle
    BY <2>1, <2>3 DEF Busy, Active
  <2>5. \A d \in Busy(b)' : ~ LastStep(calls'[d])
    BY <2>3, <2>4 DEF Guards
  <2>6. HasOwner(b)' \/ \E d \in Busy(b)' : Unfinished(calls'[d])
    <3>1. HasOwner(b) \/ Unfinished(calls[c])
      BY <1>1, <2>1 DEF Whole
    <3>2. CASE HasOwner(b)
      BY <1>3, <3>2 DEF Guards
    <3>3. CASE Unfinished(calls[c])
      <4>1. (r # Idle /\ Unfinished(r)) \/ HasOwner(b)'
        BY <1>3, <3>3 DEF Guards
      <4>2. r # Idle => c \in Busy(b)'
        BY <1>3, <2>3 DEF Busy, StepOf
      <4> QED  BY <2>3, <4>1, <4>2
    <3> QED  BY <3>1, <3>2, <3>3
  <2> QED  BY <2>2, <2>5, <2>6 DEF Whole
<1> QED  BY <1>2, <1>3

(* A call begins on dashboards that are there, or makes one that is not finished yet. *)
LEMMA BeginWhole ==
    ASSUME BoardsType, Alone, \A b \in Boards \ raced : Whole(b), NEW c \in Slots, NEW r \in CallRecords, Begins(c, r),
           UNCHANGED <<rights, links, home, default>>, boards \subseteq boards', boards' \subseteq boards \cup r.on,
           ~ LastStep(r), \A b \in r.on \ raced : Whole(b) => b \in boards \/ (b \in boards' /\ Unfinished(r))
    PROVE  \A b \in Boards \ raced' : Whole(b)'
<1> SUFFICES ASSUME NEW b \in Boards, b \notin raced' PROVE Whole(b)'
  OBVIOUS
<1>1. raced \subseteq raced' /\ ~ Active(c) /\ calls' = [calls EXCEPT ![c] = r]
      /\ \A d \in Slots : (Active(d) /\ calls[d].on \cap r.on # {}) => r.on \subseteq raced' /\ calls[d].on \subseteq raced'
  BY Beginning
<1>2. Whole(b) /\ b \notin raced
  BY <1>1
<1>3. calls'[c] = r /\ \A d \in Slots : d # c => calls'[d] = calls[d]
  BY <1>1 DEF BoardsType
<1>4. r # Idle
  BY IdleAssumption
<1>5. HasOwner(b)' = HasOwner(b) /\ NoRights(b)' = NoRights(b) /\ On(b)' = On(b)
  BY DEF HasOwner, NoRights, On
<1>6. CASE b \notin r.on
  <2>1. \A d \in Slots : d \in Busy(b)' <=> d \in Busy(b)
    BY <1>1, <1>3, <1>6 DEF Busy, Active
  <2>2. Busy(b)' = Busy(b)
    BY <2>1 DEF Busy
  <2>3. \A d \in Busy(b) : calls'[d] = calls[d]
    BY <1>1, <1>3 DEF Busy, Active
  <2>4. b \in boards <=> b \in boards'
    BY <1>6
  <2> QED  BY <1>2, <1>5, <2>2, <2>3, <2>4 DEF Whole
<1>7. CASE b \in r.on
  <2>1. Busy(b) = {}
    <3>1. \A d \in Busy(b) : FALSE
      BY <1>1, <1>7 DEF Busy, Active
    <3> QED  BY <3>1
  <2>2. b \in boards'
    BY <1>2, <1>7
  <2>3. \A d \in Busy(b)' : d = c
    BY <1>3, <2>1 DEF Busy, Active
  <2>4. c \in Busy(b)'
    BY <1>3, <1>4, <1>7 DEF Busy
  <2>5. HasOwner(b) \/ Unfinished(r)
    BY <1>2, <1>7, <2>1 DEF Whole
  <2>6. \A d \in Busy(b)' : ~ LastStep(calls'[d])
    BY <1>3, <2>3
  <2>7. HasOwner(b)' \/ \E d \in Busy(b)' : Unfinished(calls'[d])
    BY <1>3, <1>5, <2>4, <2>5
  <2> QED  BY <2>2, <2>6, <2>7 DEF Whole
<1> QED  BY <1>6, <1>7

-----------------------------------------------------------------------------
(* What a step of a call does to widgets: it moves, removes and changes those it has in hand, or
   new ones, and only to a dashboard the call is on. *)
Works(c, r, new) ==
    /\ new \subseteq Widgets /\ new \cap spent = {} /\ spent \cup new \subseteq spent'
    /\ r # Idle => Holds(r) \subseteq Holds(calls[c]) \cup new
    /\ \A w \in new : home'[w] \in calls[c].on
    /\ \A w \in Widgets \ new :
          home'[w] = home[w] \/ (w \in Holds(calls[c]) /\ home'[w] \in calls[c].on \cup {Nothing})
    /\ \A w \in Widgets \ new : w \notin Holds(calls[c]) => Of(w)' = Of(w)

LEMMA HoldsType ==
    ASSUME NEW r \in CallRecords, Formed(r)
    PROVE  Holds(r) \subseteq Widgets
BY DEF CallRecords, Formed, Holds

LEMMA StepHeld ==
    ASSUME BoardsType, HeldSpent, HeldHere, HeldOnce, NEW c \in Slots, NEW r, NEW new, StepOf(c, r), Works(c, r, new)
    PROVE  HeldSpent' /\ HeldHere' /\ HeldOnce'
<1>1. /\ calls'[c] = r /\ Active(c) /\ (\A d \in Slots : d # c => calls'[d] = calls[d]) /\ raced \subseteq raced'
      /\ r # Idle => raced' = raced /\ r.on = calls[c].on
  BY DEF StepOf, BoardsType
<1>2. \A d \in Slots : d # c /\ Active(d)' => Active(d)
  BY <1>1 DEF Active
<1>3. \A d \in Slots : Active(d) => Holds(calls[d]) \subseteq Widgets
  BY CallAt, HoldsType
<1>4. \A d \in Slots : Active(d) => Holds(calls[d]) \cap new = {}
  BY DEF HeldSpent, Works
<1>5. HeldSpent'
  <2>1. ASSUME NEW w \in Widgets, home'[w] # Nothing PROVE w \in spent'
    BY <1>1, <2>1 DEF HeldSpent, Works
  <2>2. ASSUME NEW d \in Slots, Active(d)' PROVE Holds(calls'[d]) \subseteq spent'
    <3>1. CASE d = c
      BY <1>1, <2>2, <3>1 DEF HeldSpent, Works, Active
    <3>2. CASE d # c
      BY <1>1, <1>2, <2>2, <3>2 DEF HeldSpent, Works
    <3> QED  BY <3>1, <3>2
  <2> QED  BY <2>1, <2>2 DEF HeldSpent
<1>6. HeldHere'
  <2> SUFFICES ASSUME NEW d \in Slots, Active(d)', NEW w \in Holds(calls'[d])
               PROVE  home'[w] \in calls'[d].on \cup {Nothing} \/ (home'[w] \in raced' /\ calls'[d].on \subseteq raced')
    BY DEF HeldHere
  <2>1. CASE d = c
    <3>1. r # Idle /\ w \in Holds(r) /\ calls'[d] = r
      BY <1>1, <2>1 DEF Active
    <3>2. w \in Widgets /\ (w \in new \/ w \in Holds(calls[c]))
      BY <1>1, <1>3, <3>1 DEF Works
    <3>3. CASE w \in new
      BY <1>1, <3>1, <3>3 DEF Works
    <3>4. CASE w \in Holds(calls[c]) /\ w \notin new
      BY <1>1, <3>1, <3>2, <3>4 DEF Works, HeldHere
    <3> QED  BY <3>2, <3>3, <3>4
  <2>2. CASE d # c
    <3>1. Active(d) /\ calls'[d] = calls[d] /\ w \in Holds(calls[d])
      BY <1>1, <1>2, <2>2
    <3>2. w \in Widgets \ new
      BY <1>3, <1>4, <3>1
    <3>3. CASE home'[w] = home[w]
      BY <1>1, <3>1, <3>3 DEF HeldHere
    <3>4. CASE w \in Holds(calls[c]) /\ home'[w] \in calls[c].on \cup {Nothing}
      <4>1. calls[c].on \subseteq raced /\ calls[d].on \subseteq raced
        BY <1>1, <2>2, <3>1, <3>4 DEF HeldOnce
      <4> QED  BY <1>1, <3>1, <3>4, <4>1
    <3> QED  BY <3>2, <3>3, <3>4 DEF Works
  <2> QED  BY <2>1, <2>2
<1>7. HeldOnce'
  <2> SUFFICES ASSUME NEW d \in Slots, NEW e \in Slots, Active(d)', Active(e)', d # e, NEW w \in Holds(calls'[d]), w \in Holds(calls'[e])
               PROVE  calls'[d].on \subseteq raced' /\ calls'[e].on \subseteq raced'
    BY DEF HeldOnce
  <2>1. \A x \in Slots : Active(x)' => Active(x) /\ calls'[x].on = calls[x].on /\ Holds(calls'[x]) \subseteq Holds(calls[x]) \cup new
    BY <1>1, <1>2 DEF Works, Active
  <2>2. w \in Holds(calls[d]) /\ w \in Holds(calls[e])
    <3>1. \A x \in Slots : x # c /\ Active(x)' => Holds(calls'[x]) \cap new = {}
      BY <1>1, <1>2, <1>4
    <3> QED  BY <2>1, <3>1
  <2> QED  BY <1>1, <2>1, <2>2 DEF HeldOnce
<1> QED  BY <1>5, <1>6, <1>7

LEMMA BeginHeld ==
    ASSUME BoardsType, Alone, HeldSpent, HeldHere, HeldOnce, NEW c \in Slots, NEW r \in CallRecords, Formed(r), Begins(c, r),
           home' = home, spent \subseteq spent', \A w \in Holds(r) : home[w] \in r.on
    PROVE  HeldSpent' /\ HeldHere' /\ HeldOnce'
<1>1. /\ raced \subseteq raced' /\ calls'[c] = r /\ \A d \in Slots : d # c => calls'[d] = calls[d]
      /\ \A d \in Slots : (Active(d) /\ calls[d].on \cap r.on # {}) => r.on \subseteq raced' /\ calls[d].on \subseteq raced'
      /\ r.on \cap raced # {} => r.on \subseteq raced'
  BY Beginning DEF BoardsType
<1>2. \A d \in Slots : d # c /\ Active(d)' => Active(d)
  BY <1>1 DEF Active
<1>3. Nothing \notin r.on /\ Holds(r) \subseteq Widgets
  BY HoldsType, DashboardsAssumption DEF CallRecords
<1>4. \A w \in Holds(r) : home[w] # Nothing /\ w \in spent
  BY <1>3 DEF HeldSpent
<1>5. HeldSpent'
  BY <1>1, <1>2, <1>4 DEF HeldSpent
<1>6. HeldHere'
  <2> SUFFICES ASSUME NEW d \in Slots, Active(d)', NEW w \in Holds(calls'[d])
               PROVE  home'[w] \in calls'[d].on \cup {Nothing} \/ (home'[w] \in raced' /\ calls'[d].on \subseteq raced')
    BY DEF HeldHere
  <2> QED  BY <1>1, <1>2 DEF HeldHere
<1>7. ASSUME NEW e \in Slots, e # c, Active(e), NEW w \in Holds(r), w \in Holds(calls[e])
      PROVE  r.on \subseteq raced' /\ calls[e].on \subseteq raced'
  <2>1. home[w] \in r.on /\ home[w] # Nothing
    BY <1>4
  <2>2. home[w] \in calls[e].on \/ (home[w] \in raced /\ calls[e].on \subseteq raced)
    BY <1>7, <2>1 DEF HeldHere
  <2> QED  BY <1>1, <1>7, <2>1, <2>2
<1>8. HeldOnce'
  <2> SUFFICES ASSUME NEW d \in Slots, NEW e \in Slots, Active(d)', Active(e)', d # e, NEW w \in Holds(calls'[d]), w \in Holds(calls'[e])
               PROVE  calls'[d].on \subseteq raced' /\ calls'[e].on \subseteq raced'
    BY DEF HeldOnce
  <2>1. CASE d # c /\ e # c
    BY <1>1, <1>2, <2>1 DEF HeldOnce
  <2>2. CASE d = c
    BY <1>1, <1>2, <1>7, <2>2
  <2>3. CASE e = c
    BY <1>1, <1>2, <1>7, <2>3
  <2> QED  BY <2>1, <2>2, <2>3
<1> QED  BY <1>5, <1>6, <1>8

(* No other call disturbs a change of folders that met none. *)
Reached(r, w) ==
    /\ w \in r.read
    /\ r.step \in {"UNLINK", "HIDE", "SAVE"} => r.ins \subseteq Of(w)
    /\ r.step = "SAVE" => Of(w) \cap r.del = {}

LEMMA StepReaches ==
    ASSUME BoardsType, Alone, HeldSpent, HeldHere, HeldOnce, Reaching, NEW c \in Slots, NEW r, NEW new,
           StepOf(c, r), Works(c, r, new),
           (r # Idle /\ r.op = "FOLDERS" /\ r.on \cap raced = {}) =>
               \A w \in Widgets : home'[w] \in r.on => Reached(r, w)'
    PROVE  Reaching'
<1> SUFFICES ASSUME NEW d \in Slots, Active(d)', calls'[d].op = "FOLDERS", calls'[d].on \cap raced' = {},
                    NEW w \in Widgets, home'[w] \in calls'[d].on
             PROVE  Reached(calls[d], w)'
  BY DEF Reaching, Reached
<1>1. /\ calls'[c] = r /\ Active(c) /\ (\A x \in Slots : x # c => calls'[x] = calls[x]) /\ raced \subseteq raced'
      /\ r # Idle => raced' = raced
  BY DEF StepOf, BoardsType
<1>2. CASE d = c
  BY <1>1, <1>2 DEF Active, Reached
<1>3. CASE d # c
  <2>1. Active(d) /\ calls'[d] = calls[d] /\ calls[d].on \cap raced = {} /\ calls[d].on \subseteq Boards
    BY <1>1, <1>3, CallAt DEF Active, CallRecords
  <2>2. Holds(calls[d]) = calls[d].read
    BY <2>1 DEF Holds
  <2>3. calls[c].on \cap calls[d].on = {}
    BY <1>1, <1>3, <2>1 DEF Alone
  <2>4. home'[w] \notin calls[c].on \cup {Nothing}
    BY <2>1, <2>3, DashboardsAssumption
  <2>5. w \notin new /\ home'[w] = home[w]
    BY <2>4 DEF Works
  <2>6. Reached(calls[d], w)
    BY <2>1, <2>5 DEF Reaching, Reached
  <2>7. w \notin Holds(calls[c])
    BY <1>1, <1>3, <2>1, <2>2, <2>6 DEF HeldOnce, Reached
  <2>8. Of(w)' = Of(w)
    BY <2>5, <2>7 DEF Works
  <2> QED  BY <2>1, <2>6, <2>8 DEF Reached
<1> QED  BY <1>2, <1>3

LEMMA BeginReaches ==
    ASSUME BoardsType, Alone, Reaching, NEW c \in Slots, NEW r \in CallRecords, Begins(c, r), home' = home, shows' = shows,
           r.op = "FOLDERS" => r.step = "LINK" /\ \A w \in Widgets : home[w] \in r.on => w \in r.read
    PROVE  Reaching'
<1>1. raced \subseteq raced' /\ calls'[c] = r /\ \A d \in Slots : d # c => calls'[d] = calls[d]
  BY Beginning DEF BoardsType
<1>2. \A w : Of(w)' = Of(w)
  BY DEF Of
<1> SUFFICES ASSUME NEW d \in Slots, Active(d)', calls'[d].op = "FOLDERS", calls'[d].on \cap raced' = {},
                    NEW w \in Widgets, home'[w] \in calls'[d].on
             PROVE  Reached(calls[d], w)'
  BY DEF Reaching, Reached
<1>3. CASE d = c
  BY <1>1, <1>3 DEF Reached
<1>4. CASE d # c
  <2>1. calls'[d] = calls[d] /\ Active(d) /\ calls[d].on \cap raced = {}
    BY <1>1, <1>4 DEF Active
  <2>2. Reached(calls[d], w)
    BY <2>1 DEF Reaching, Reached
  <2> QED  BY <1>2, <2>1, <2>2 DEF Reached
<1> QED  BY <1>3, <1>4

-----------------------------------------------------------------------------
(* The calls, one by one: how each begins *)
Starts(c, r) ==
    /\ r \in CallRecords /\ Formed(r) /\ Begins(c, r) /\ RowsType'
    /\ UNCHANGED <<rights, links, home, default, shows>>
    /\ boards \subseteq boards' /\ boards' \subseteq boards \cup r.on /\ spent \subseteq spent'
    /\ ~ LastStep(r)
    /\ \A b \in r.on \ raced : Whole(b) => b \in boards \/ (b \in boards' /\ Unfinished(r))
    /\ \A w \in Holds(r) : home[w] \in r.on
    /\ r.op = "FOLDERS" => r.step = "LINK" /\ \A w \in Widgets : home[w] \in r.on => w \in r.read

LEMMA NewCall ==
    ASSUME NEW op \in Ops, NEW u \in Viewers, NEW on \in SUBSET Boards, NEW step \in Steps
    PROVE  LET r == Call(op, u, on, step) IN
           r \in CallRecords /\ r.op = op /\ r.on = on /\ r.step = step /\ r.ins = {} /\ r.del = {} /\ r.read = {}
<1> DEFINE r == Call(op, u, on, step)
<1>1. r = [op |-> op, by |-> u, on |-> on, step |-> step, wants |-> FALSE, had |-> Nothing, widget |-> Nothing,
           ins |-> {}, del |-> {}, read |-> {}]
  BY DEF Call
<1> HIDE DEF r
<1>2. r.op = op /\ r.on = on /\ r.step = step /\ r.ins = {} /\ r.del = {} /\ r.read = {}
  BY <1>1
<1>3. r \in CallRecords
  BY <1>1 DEF CallRecords
<1> QED  BY <1>2, <1>3 DEF r

(* All but the two that make a dashboard write nothing at first, and find theirs there. *)
LEMMA StartsQuietly ==
    ASSUME BoardsType, NEW c, NEW r \in CallRecords, Formed(r), Begins(c, r), UNCHANGED Rows, ~ LastStep(r),
           \A b \in r.on : b \in boards \/ On(b) # {} \/ ~ NoRights(b), \A w \in Holds(r) : home[w] \in r.on,
           r.op = "FOLDERS" => r.step = "LINK" /\ \A w \in Widgets : home[w] \in r.on => w \in r.read
    PROVE  Starts(c, r)
<1>1. RowsType' /\ UNCHANGED <<rights, links, home, default, shows, boards, spent>>
  BY DEF Rows, RowsType, BoardsType
<1>2. \A b \in r.on \ raced : Whole(b) => b \in boards
  BY DEF Whole
<1> QED  BY <1>1, <1>2 DEF Starts

LEMMA CreateDashboardStarts ==
    ASSUME BoardsType, NEW c \in Slots, NEW u \in Viewers, NEW b \in Boards, NEW F \in SUBSET Linked, NEW wants \in BOOLEAN,
           NEW members \in SUBSET Viewers, NEW first \in BOOLEAN, CreateDashboard(c, u, b, F, wants, members, first)
    PROVE  \E r : Starts(c, r)
<1> DEFINE step == IF wants THEN "FIND" ELSE "LINK"
           x == Call("CREATE", u, {b}, step)
           r == [x EXCEPT !.ins = F, !.del = members, !.wants = wants]
<1>1. /\ Begins(c, r) /\ boards' = boards \cup {b} /\ spent' = spent \cup {b} /\ step \in {"FIND", "LINK"}
      /\ system' = (IF first THEN system \cup {b} ELSE system) /\ UNCHANGED <<rights, links, home, shows, default, favourites>>
  BY DEF CreateDashboard
<1>2. "CREATE" \in Ops /\ step \in Steps /\ F \in SUBSET (Viewers \cup Linked) /\ members \in SUBSET (Viewers \cup Linked) /\ {b} \in SUBSET Boards
  BY DEF Ops, Steps, On
<1> HIDE DEF step
<1>3. x \in CallRecords /\ x.op = "CREATE" /\ x.on = {b} /\ x.step = step /\ x.ins = {} /\ x.del = {} /\ x.read = {}
  BY <1>2, NewCall
<1>4. r = [x EXCEPT !.ins = F, !.del = members, !.wants = wants]
  OBVIOUS
<1> HIDE DEF x, r
<1>5. r \in CallRecords /\ r.op = "CREATE" /\ r.on = {b} /\ r.step = step /\ r.ins = F
  BY <1>2, <1>3, <1>4 DEF CallRecords
<1>6. Formed(r) /\ ~ LastStep(r) /\ Holds(r) = {} /\ Unfinished(r)
  BY <1>1, <1>5, IdleAssumption DEF Formed, LastStep, Holds, Unfinished
<1>7. RowsType'
  BY <1>1 DEF RowsType, BoardsType
<1> QED  BY <1>1, <1>5, <1>6, <1>7 DEF Starts

LEMMA DuplicateDashboardStarts ==
    ASSUME BoardsType, NEW c \in Slots, NEW src \in Boards, NEW u \in Viewers, NEW b \in Boards, DuplicateDashboard(c, u, src, b)
    PROVE  \E r : Starts(c, r)
<1> DEFINE F == {f \in Linked : <<src, f>> \in links}
           x == Call("COPY", u, {b}, "OWNER")
           r == [x EXCEPT !.ins = F, !.had = src]
<1>1. /\ Begins(c, r) /\ boards' = boards \cup {b} /\ spent' = spent \cup {b}
      /\ UNCHANGED <<system, rights, links, home, shows, default, favourites>>
  BY DEF DuplicateDashboard
<1>2. "COPY" \in Ops /\ "OWNER" \in Steps /\ F \in SUBSET (Viewers \cup Linked) /\ {b} \in SUBSET Boards
  BY DEF Ops, Steps, On
<1>3. x \in CallRecords /\ x.op = "COPY" /\ x.on = {b} /\ x.step = "OWNER" /\ x.ins = {} /\ x.del = {} /\ x.read = {}
  BY <1>2, NewCall
<1>4. r = [x EXCEPT !.ins = F, !.had = src]
  OBVIOUS
<1> HIDE DEF x, r
<1>5. r \in CallRecords /\ r.op = "COPY" /\ r.on = {b} /\ r.step = "OWNER" /\ r.ins = F
  BY <1>2, <1>3, <1>4 DEF CallRecords
<1>6. Formed(r) /\ ~ LastStep(r) /\ Holds(r) = {} /\ Unfinished(r)
  BY <1>1, <1>5, IdleAssumption DEF Formed, LastStep, Holds, Unfinished
<1>7. RowsType'
  BY <1>1 DEF RowsType, BoardsType
<1> QED  BY <1>1, <1>5, <1>6, <1>7 DEF Starts

LEMMA UpdateDashboardStarts ==
    ASSUME BoardsType, NEW c \in Slots, NEW u \in Viewers, NEW b \in Boards, NEW flag, NEW ins \in SUBSET Viewers,
           NEW del \in SUBSET Viewers, UpdateDashboard(c, u, b, flag, ins, del)
    PROVE  \E r : Starts(c, r)
<1> DEFINE step == IF flag = "NONE" THEN "MEMBERS" ELSE "FIND"
           x == Call("UPDATE", u, {b}, step)
           r == [x EXCEPT !.ins = ins, !.del = del, !.wants = (flag = "YES")]
<1>1. Begins(c, r) /\ UNCHANGED Rows /\ b \in boards
  BY DEF UpdateDashboard
<1>2. "UPDATE" \in Ops /\ step \in Steps /\ ins \in SUBSET (Viewers \cup Linked) /\ del \in SUBSET (Viewers \cup Linked) /\ {b} \in SUBSET Boards
  BY DEF Ops, Steps, On
<1> HIDE DEF step
<1>3. x \in CallRecords /\ x.op = "UPDATE" /\ x.on = {b} /\ x.step = step /\ x.ins = {} /\ x.del = {} /\ x.read = {}
  BY <1>2, NewCall
<1>4. r = [x EXCEPT !.ins = ins, !.del = del, !.wants = (flag = "YES")]
  OBVIOUS
<1> HIDE DEF x, r
<1>5. r \in CallRecords /\ r.op = "UPDATE" /\ r.on = {b} /\ r.step = step
  BY <1>2, <1>3, <1>4 DEF CallRecords
<1>6. Formed(r) /\ ~ LastStep(r) /\ Holds(r) = {}
  BY <1>1, <1>5, IdleAssumption DEF Formed, LastStep, Holds
<1> QED  BY <1>1, <1>5, <1>6, StartsQuietly

LEMMA TouchStarts ==
    ASSUME BoardsType, NEW c \in Slots, NEW u \in Viewers, NEW b \in Boards, Touch(c, u, b)
    PROVE  \E r : Starts(c, r)
<1> DEFINE x == Call("TOUCH", u, {b}, "SAVE")
<1>1. Begins(c, x) /\ UNCHANGED Rows /\ b \in boards
  BY DEF Touch
<1>2. "TOUCH" \in Ops /\ "SAVE" \in Steps /\ {b} \in SUBSET Boards
  BY DEF Ops, Steps, On
<1>3. x \in CallRecords /\ x.op = "TOUCH" /\ x.on = {b} /\ x.step = "SAVE" /\ x.ins = {} /\ x.del = {} /\ x.read = {}
  BY <1>2, NewCall
<1> HIDE DEF x
<1>6. Formed(x) /\ ~ LastStep(x) /\ Holds(x) = {}
  BY <1>1, <1>3, IdleAssumption DEF Formed, LastStep, Holds
<1> QED  BY <1>1, <1>3, <1>6, StartsQuietly

LEMMA UpdateDashboardFoldersStarts ==
    ASSUME BoardsType, NEW c \in Slots, NEW u \in Viewers, NEW b \in Boards, NEW ins \in SUBSET Linked, NEW del \in SUBSET Linked,
           UpdateDashboardFolders(c, u, b, ins, del)
    PROVE  \E r : Starts(c, r)
<1> DEFINE x == Call("FOLDERS", u, {b}, "LINK")
           r == [x EXCEPT !.ins = ins, !.del = del, !.read = On(b)]
<1>1. Begins(c, r) /\ UNCHANGED Rows /\ b \in boards /\ ins \cap del = {}
  BY DEF UpdateDashboardFolders
<1>2. "FOLDERS" \in Ops /\ "LINK" \in Steps /\ ins \in SUBSET (Viewers \cup Linked) /\ del \in SUBSET (Viewers \cup Linked) /\ {b} \in SUBSET Boards
  BY DEF Ops, Steps, On
<1>3. x \in CallRecords /\ x.op = "FOLDERS" /\ x.on = {b} /\ x.step = "LINK" /\ x.ins = {} /\ x.del = {} /\ x.read = {}
  BY <1>2, NewCall
<1>4. r = [x EXCEPT !.ins = ins, !.del = del, !.read = On(b)]
  OBVIOUS
<1> HIDE DEF x, r
<1>5. r \in CallRecords /\ r.op = "FOLDERS" /\ r.on = {b} /\ r.step = "LINK" /\ r.ins = ins /\ r.del = del /\ r.read = On(b)
  BY <1>2, <1>3, <1>4 DEF CallRecords, On
<1>6. Formed(r) /\ ~ LastStep(r) /\ Holds(r) = On(b)
  BY <1>1, <1>5, IdleAssumption DEF Formed, LastStep, Holds
<1>7. \A w \in Widgets : home[w] \in r.on <=> w \in On(b)
  BY <1>5 DEF On
<1> QED  BY <1>1, <1>5, <1>6, <1>7, StartsQuietly DEF On

LEMMA DeleteDashboardStarts ==
    ASSUME BoardsType, NEW c \in Slots, NEW u \in Viewers, NEW b \in Boards, DeleteDashboard(c, u, b)
    PROVE  \E r : Starts(c, r)
<1> DEFINE x == Call("DELETE", u, {b}, "WIDGETS")
           r == [x EXCEPT !.read = On(b)]
<1>1. Begins(c, r) /\ UNCHANGED Rows /\ b \in boards
  BY DEF DeleteDashboard
<1>2. "DELETE" \in Ops /\ "WIDGETS" \in Steps /\ {b} \in SUBSET Boards
  BY DEF Ops, Steps, On
<1>3. x \in CallRecords /\ x.op = "DELETE" /\ x.on = {b} /\ x.step = "WIDGETS" /\ x.ins = {} /\ x.del = {} /\ x.read = {}
  BY <1>2, NewCall
<1>4. r = [x EXCEPT !.read = On(b)]
  OBVIOUS
<1> HIDE DEF x, r
<1>5. r \in CallRecords /\ r.op = "DELETE" /\ r.on = {b} /\ r.step = "WIDGETS" /\ r.read = On(b)
  BY <1>2, <1>3, <1>4 DEF CallRecords, On
<1>6. Formed(r) /\ ~ LastStep(r) /\ Holds(r) = On(b)
  BY <1>1, <1>5, IdleAssumption DEF Formed, LastStep, Holds
<1> QED  BY <1>1, <1>5, <1>6, StartsQuietly DEF On

LEMMA CreateWidgetStarts ==
    ASSUME BoardsType, NEW c \in Slots, NEW u \in Viewers, NEW w \in Widgets, NEW b \in Boards, NEW F \in SUBSET Linked,
           CreateWidget(c, u, w, b, F)
    PROVE  \E r : Starts(c, r)
<1> DEFINE x == Call("WIDGET", u, {b}, "INSERT")
           r == [x EXCEPT !.widget = w, !.ins = F]
<1>1. Begins(c, r) /\ UNCHANGED Rows /\ b \in boards
  BY DEF CreateWidget
<1>2. "WIDGET" \in Ops /\ "INSERT" \in Steps /\ F \in SUBSET (Viewers \cup Linked) /\ {b} \in SUBSET Boards
  BY DEF Ops, Steps, On
<1>3. x \in CallRecords /\ x.op = "WIDGET" /\ x.on = {b} /\ x.step = "INSERT" /\ x.ins = {} /\ x.del = {} /\ x.read = {}
  BY <1>2, NewCall
<1>4. r = [x EXCEPT !.widget = w, !.ins = F]
  OBVIOUS
<1> HIDE DEF x, r
<1>5. r \in CallRecords /\ r.op = "WIDGET" /\ r.on = {b} /\ r.step = "INSERT" /\ r.widget = w /\ r.ins = F
  BY <1>2, <1>3, <1>4 DEF CallRecords
<1>6. Formed(r) /\ ~ LastStep(r) /\ Holds(r) = {}
  BY <1>1, <1>5, IdleAssumption DEF Formed, LastStep, Holds
<1> QED  BY <1>1, <1>5, <1>6, StartsQuietly

LEMMA DuplicateWidgetStarts ==
    ASSUME BoardsType, NEW c \in Slots, NEW u \in Viewers, NEW w \in Widgets, NEW copy \in Widgets,
           DuplicateWidget(c, u, w, copy)
    PROVE  \E r : Starts(c, r)
<1> DEFINE b == home[w]
           x == Call("WIDGET", u, {b}, "INSERT")
           r == [x EXCEPT !.widget = copy, !.ins = Of(w)]
<1>0. b \in Boards /\ w \in On(b) /\ Of(w) \in SUBSET Linked
  BY DEF DuplicateWidget, BoardsType, RowsType, On, Of
<1>1. Begins(c, r) /\ UNCHANGED Rows
  BY DEF DuplicateWidget
<1>2. "WIDGET" \in Ops /\ "INSERT" \in Steps /\ Of(w) \in SUBSET (Viewers \cup Linked) /\ {b} \in SUBSET Boards
  BY <1>0 DEF Ops, Steps, On
<1>3. x \in CallRecords /\ x.op = "WIDGET" /\ x.on = {b} /\ x.step = "INSERT" /\ x.ins = {} /\ x.del = {} /\ x.read = {}
  BY <1>0, <1>2, NewCall
<1>4. r = [x EXCEPT !.widget = copy, !.ins = Of(w)]
  OBVIOUS
<1> HIDE DEF x, r
<1>5. r \in CallRecords /\ r.op = "WIDGET" /\ r.on = {b} /\ r.step = "INSERT" /\ r.widget = copy /\ r.ins = Of(w)
  BY <1>0, <1>2, <1>3, <1>4 DEF CallRecords
<1>6. Formed(r) /\ ~ LastStep(r) /\ Holds(r) = {}
  BY <1>1, <1>5, <1>0, IdleAssumption DEF Formed, LastStep, Holds
<1> QED  BY <1>0, <1>1, <1>5, <1>6, StartsQuietly

LEMMA UpdateWidgetStarts ==
    ASSUME BoardsType, NEW c \in Slots, NEW u \in Viewers, NEW w \in Widgets, NEW b \in Boards, NEW F \in SUBSET Linked,
           UpdateWidget(c, u, w, b, F)
    PROVE  \E r : Starts(c, r)
<1> DEFINE x == Call("CHANGE", u, {b, home[w]}, "SAVE")
           r == [x EXCEPT !.widget = w, !.ins = F, !.had = b]
<1>0. home[w] \in Boards /\ w \in On(home[w]) /\ ~ NoRights(b)
  BY DEF UpdateWidget, BoardsType, RowsType, On, Reader, NoRights
<1>1. Begins(c, r) /\ UNCHANGED Rows
  BY DEF UpdateWidget
<1>2. "CHANGE" \in Ops /\ "SAVE" \in Steps /\ F \in SUBSET (Viewers \cup Linked) /\ {b, home[w]} \in SUBSET Boards
  BY <1>0 DEF Ops, Steps, On
<1>3. x \in CallRecords /\ x.op = "CHANGE" /\ x.on = {b, home[w]} /\ x.step = "SAVE" /\ x.ins = {} /\ x.del = {} /\ x.read = {}
  BY <1>0, <1>2, NewCall
<1>4. r = [x EXCEPT !.widget = w, !.ins = F, !.had = b]
  OBVIOUS
<1> HIDE DEF x, r
<1>5. r \in CallRecords /\ r.op = "CHANGE" /\ r.on = {b, home[w]} /\ r.step = "SAVE" /\ r.widget = w /\ r.ins = F /\ r.had = b
  BY <1>0, <1>2, <1>3, <1>4 DEF CallRecords
<1>6. Formed(r) /\ ~ LastStep(r) /\ Holds(r) = {w}
  BY <1>1, <1>5, <1>0, IdleAssumption DEF Formed, LastStep, Holds
<1>7. \A y \in r.on : On(y) # {} \/ ~ NoRights(y)
  BY <1>0, <1>5
<1> QED  BY <1>1, <1>5, <1>6, <1>7, StartsQuietly

LEMMA DeleteWidgetStarts ==
    ASSUME BoardsType, NEW c \in Slots, NEW u \in Viewers, NEW w \in Widgets, DeleteWidget(c, u, w)
    PROVE  \E r : Starts(c, r)
<1> DEFINE b == home[w]
           x == Call("DROP", u, {b}, "HIDE")
           r == [x EXCEPT !.widget = w]
<1>0. b \in Boards /\ w \in On(b)
  BY DEF DeleteWidget, BoardsType, RowsType, On
<1>1. Begins(c, r) /\ UNCHANGED Rows
  BY DEF DeleteWidget
<1>2. "DROP" \in Ops /\ "HIDE" \in Steps /\ {b} \in SUBSET Boards
  BY <1>0 DEF Ops, Steps, On
<1>3. x \in CallRecords /\ x.op = "DROP" /\ x.on = {b} /\ x.step = "HIDE" /\ x.ins = {} /\ x.del = {} /\ x.read = {}
  BY <1>0, <1>2, NewCall
<1>4. r = [x EXCEPT !.widget = w]
  OBVIOUS
<1> HIDE DEF x, r
<1>5. r \in CallRecords /\ r.op = "DROP" /\ r.on = {b} /\ r.step = "HIDE" /\ r.widget = w
  BY <1>0, <1>2, <1>3, <1>4 DEF CallRecords
<1>6. Formed(r) /\ ~ LastStep(r) /\ Holds(r) = {w}
  BY <1>1, <1>5, <1>0, IdleAssumption DEF Formed, LastStep, Holds
<1> QED  BY <1>0, <1>1, <1>5, <1>6, StartsQuietly

-----------------------------------------------------------------------------
(* The statements of a call, one by one: what each is to the invariants *)
Keeps(c, r) ==
    (r # Idle /\ r.op = "FOLDERS" /\ r.on \cap raced = {}) =>
        \A w \in Widgets : home'[w] \in r.on => Reached(r, w)'
Proceeds(c) == \E r, new : StepOf(c, r) /\ RowsType' /\ Works(c, r, new) /\ Guards(c, r) /\ Keeps(c, r)

LEMMA Working ==
    ASSUME BoardsType, NEW c \in Slots, NEW op, NEW step, At(c, op, step)
    PROVE  /\ Active(c) /\ calls[c] \in CallRecords /\ Formed(calls[c]) /\ calls[c].op \in op /\ calls[c].step = step
           /\ "CHANGE" \notin op => The(c) \in Boards /\ calls[c].on = {The(c)}
<1>1. Active(c) /\ calls[c].op \in op /\ calls[c].step = step
  BY DEF At, Active
<1>2. "CHANGE" \notin op => The(c) \in Boards /\ calls[c].on = {The(c)}
  BY <1>1, TheOne
<1> QED  BY <1>1, <1>2, CallAt

(* A statement that touches no widget, and a call that takes no other widget in hand. *)
LEMMA TouchesNone ==
    ASSUME NEW c, NEW r, StepOf(c, r), UNCHANGED <<home, shows, spent>>,
           r # Idle => (r.op = "WIDGET" => r.step # "SHOW") /\ (r.op = "DELETE" => r.step # "WIDGETS")
    PROVE  Works(c, r, {})
<1>1. r # Idle => Holds(r) \subseteq Holds(calls[c])
  BY DEF StepOf, Holds
<1>2. \A w : Of(w)' = Of(w)
  BY DEF Of
<1> QED  BY <1>1, <1>2 DEF Works

(* One that writes nothing a dashboard rests on. *)
LEMMA GuardsAll ==
    ASSUME NEW c, NEW r, UNCHANGED <<boards, rights, links, home, default>>,
           Unfinished(calls[c]) => (r # Idle /\ Unfinished(r)) \/ calls[c].on \subseteq raced', r # Idle => ~ LastStep(r)
    PROVE  Guards(c, r)
<1>1. \A b : HasOwner(b) => HasOwner(b)'
  BY DEF HasOwner
<1> QED  BY <1>1 DEF Guards

LEMMA FindDefaultProceeds ==
    ASSUME BoardsType, NEW c \in Slots, FindDefault(c)
    PROVE  Proceeds(c)
<1> DEFINE h == default[calls[c].by]
           r == [calls[c] EXCEPT !.step = "DEFAULT", !.had = h]
<1>1. /\ Active(c) /\ calls[c] \in CallRecords /\ Formed(calls[c]) /\ calls[c].op \in {"CREATE", "UPDATE"}
      /\ UNCHANGED <<Rows, raced>> /\ calls' = [calls EXCEPT ![c] = r]
  BY Working DEF FindDefault, BoardsType, Active
<1>2. h \in Boards \cup {Nothing}
  BY <1>1 DEF CallRecords, BoardsType, RowsType
<1>3. r = [calls[c] EXCEPT !.step = "DEFAULT", !.had = h]
  OBVIOUS
<1> HIDE DEF h, r
<1>4. /\ r \in CallRecords /\ r.op = calls[c].op /\ r.on = calls[c].on /\ r.step = "DEFAULT"
      /\ r.ins = calls[c].ins /\ r.del = calls[c].del /\ r.read = calls[c].read /\ r.widget = calls[c].widget
  BY <1>1, <1>2, <1>3 DEF CallRecords, Steps
<1>5. Formed(r) /\ r # Idle
  BY <1>1, <1>4, IdleAssumption DEF Formed
<1>6. StepOf(c, r) /\ Keeps(c, r)
  BY <1>1, <1>4, <1>5 DEF StepOf, Keeps
<1>7. RowsType' /\ UNCHANGED <<boards, rights, links, home, default, shows, spent>>
  BY <1>1 DEF Rows, RowsType, BoardsType
<1>8. Guards(c, r)
  BY <1>1, <1>4, <1>5, <1>7, GuardsAll DEF Unfinished, LastStep
<1>9. Works(c, r, {})
  BY <1>1, <1>4, <1>6, <1>7, TouchesNone
<1> QED  BY <1>6, <1>7, <1>8, <1>9 DEF Proceeds

LEMMA SaveDefaultProceeds ==
    ASSUME BoardsType, NEW c \in Slots, SaveDefault(c)
    PROVE  Proceeds(c)
<1>1. /\ Active(c) /\ calls[c] \in CallRecords /\ calls[c].op \in {"CREATE", "UPDATE"} /\ calls[c].step = "DEFAULT"
      /\ The(c) \in Boards /\ calls[c].on = {The(c)} /\ UNCHANGED <<boards, system, rights, links, home, shows, favourites, spent>>
  BY Working DEF SaveDefault
<1>2. \A b : HasOwner(b) => HasOwner(b)'
  BY <1>1 DEF HasOwner
<1>3. CASE Aborts(c) /\ default' = default
  <2>1. StepOf(c, Idle) /\ calls[c].on \subseteq raced'
    BY <1>1, <1>3, EndsThere
  <2>2. RowsType' /\ Guards(c, Idle) /\ Keeps(c, Idle)
    BY <1>1, <1>2, <1>3, <2>1, GuardsAll DEF RowsType, BoardsType, Keeps
  <2>3. Works(c, Idle, {})
    BY <1>1, <2>1, TouchesNone
  <2> QED  BY <2>1, <2>2, <2>3 DEF Proceeds
<1>4. CASE /\ default' \in {default, [default EXCEPT ![calls[c].by] = The(c)], [default EXCEPT ![calls[c].by] = Nothing]}
           /\ GoTo(c, IF calls[c].op = "CREATE" THEN "LINK" ELSE "MEMBERS")
  <2>1. PICK r : StepOf(c, r) /\ r # Idle /\ r.step = IF calls[c].op = "CREATE" THEN "LINK" ELSE "MEMBERS"
    BY <1>1, <1>4, StepsOn DEF Steps
  <2>2. r.op = calls[c].op
    BY <2>1 DEF StepOf
  <2>3. RowsType'
    BY <1>1, <1>4 DEF RowsType, BoardsType, CallRecords
  <2>4. Guards(c, r) /\ Keeps(c, r)
    BY <1>1, <1>2, <1>4, <2>1, <2>2 DEF Guards, Keeps, Unfinished, LastStep, BoardsType, RowsType
  <2>5. Works(c, r, {})
    BY <1>1, <2>1, <2>2, TouchesNone
  <2> QED  BY <2>1, <2>3, <2>4, <2>5 DEF Proceeds
<1> QED  BY <1>3, <1>4 DEF SaveDefault

LEMMA LinkNewProceeds ==
    ASSUME BoardsType, NEW c \in Slots, NEW favourite \in BOOLEAN, LinkNew(c, favourite)
    PROVE  Proceeds(c)
<1>1. /\ Active(c) /\ calls[c] \in CallRecords /\ Formed(calls[c]) /\ calls[c].op = "CREATE" /\ calls[c].step = "LINK"
      /\ The(c) \in Boards /\ calls[c].on = {The(c)}
      /\ links' = links \cup ({The(c)} \X calls[c].ins) /\ favourites' \subseteq favourites \cup {<<calls[c].by, The(c)>>}
      /\ GoTo(c, "OWNER") /\ UNCHANGED <<boards, system, rights, home, shows, default, spent>>
  BY Working DEF LinkNew
<1>2. PICK r : StepOf(c, r) /\ r # Idle /\ r.step = "OWNER"
  BY <1>1, StepsOn DEF Steps
<1>3. r.op = "CREATE"
  BY <1>1, <1>2 DEF StepOf
<1>4. calls[c].ins \subseteq Linked /\ calls[c].by \in Viewers
  BY <1>1 DEF Formed, CallRecords
<1>5. RowsType'
  BY <1>1, <1>4 DEF RowsType, BoardsType
<1>6. \A b : HasOwner(b) => HasOwner(b)'
  BY <1>1 DEF HasOwner
<1>7. Guards(c, r) /\ Keeps(c, r)
  BY <1>1, <1>2, <1>3, <1>4, <1>6 DEF Guards, Keeps, Unfinished, LastStep
<1>8. Works(c, r, {})
  BY <1>1, <1>2, <1>3, TouchesNone
<1> QED  BY <1>2, <1>5, <1>7, <1>8 DEF Proceeds

LEMMA GrantOwnerProceeds ==
    ASSUME BoardsType, NEW c \in Slots, GrantOwner(c)
    PROVE  Proceeds(c)
<1>0. PICK b \in Boards : b = The(c) /\ calls[c].on = {b}
  BY Working DEF GrantOwner
<1> DEFINE next == IF calls[c].op = "CREATE" THEN "MEMBERS" ELSE "LINK"
<1>1. /\ Active(c) /\ calls[c] \in CallRecords /\ calls[c].op \in {"CREATE", "COPY"} /\ calls[c].step = "OWNER"
      /\ calls[c].by \in Viewers /\ rights' = [rights EXCEPT ![b][calls[c].by] = @ \cup {"OWNER"}] /\ GoTo(c, next)
      /\ UNCHANGED <<boards, system, links, home, shows, default, favourites, spent>>
  BY <1>0, Working DEF GrantOwner, CallRecords
<1>2. PICK r : StepOf(c, r) /\ r # Idle /\ r.step = next
  BY <1>1, StepsOn DEF Steps
<1>3. r.op = calls[c].op
  BY <1>2 DEF StepOf
<1>4. rights' \in [Boards -> [Viewers -> SUBSET {"OWNER", "FULL", "EDITOR", "READ"}]]
  BY <1>1 DEF RowsType, BoardsType
<1>5. RowsType'
  BY <1>1, <1>4 DEF RowsType, BoardsType
<1>6. "OWNER" \in rights'[b][calls[c].by] /\ \A x \in Boards : x # b => rights'[x] = rights[x]
  BY <1>1 DEF RowsType, BoardsType
<1>7. Guards(c, r) /\ Keeps(c, r)
  BY <1>0, <1>1, <1>2, <1>3, <1>6 DEF Guards, Keeps, LastStep, HasOwner
<1>8. Works(c, r, {})
  BY <1>1, <1>2, <1>3, TouchesNone
<1> QED  BY <1>2, <1>5, <1>7, <1>8 DEF Proceeds

(* Rights of one dashboard, to which the owner's bit is no less than before. *)
LEMMA OwnersStay ==
    ASSUME BoardsType, NEW b \in Boards, NEW f, rights' = [rights EXCEPT ![b] = f],
           f \in [Viewers -> SUBSET {"OWNER", "FULL", "EDITOR", "READ"}], \A u \in Viewers : "OWNER" \in rights[b][u] => "OWNER" \in f[u]
    PROVE  /\ rights' \in [Boards -> [Viewers -> SUBSET {"OWNER", "FULL", "EDITOR", "READ"}]]
           /\ \A x \in Boards : x # b => rights'[x] = rights[x]
           /\ HasOwner(b) => HasOwner(b)'
<1>1. rights \in [Boards -> [Viewers -> SUBSET {"OWNER", "FULL", "EDITOR", "READ"}]] /\ rights'[b] = f
  BY DEF RowsType, BoardsType
<1>2. HasOwner(b) => HasOwner(b)'
  BY <1>1 DEF HasOwner
<1> QED  BY <1>1, <1>2

LEMMA MembersOfNewProceeds ==
    ASSUME BoardsType, NEW c \in Slots, NEW level \in Levels, MembersOfNew(c, level)
    PROVE  Proceeds(c)
<1>0. PICK b \in Boards : b = The(c) /\ calls[c].on = {b}
  BY Working DEF MembersOfNew
<1> DEFINE f == [u \in Viewers |-> IF u \in calls[c].del THEN rights[b][u] \cup {level} ELSE rights[b][u]]
<1>1. /\ Active(c) /\ calls[c] \in CallRecords /\ calls[c].op = "CREATE" /\ calls[c].step = "MEMBERS"
      /\ GoTo(c, "WIDGET") \/ Ends(c)
      /\ UNCHANGED <<boards, system, links, home, shows, default, favourites, spent>>
  BY Working DEF MembersOfNew
<1>2. rights' = [rights EXCEPT ![b] = f]
  BY <1>0, <1>1 DEF MembersOfNew, RowsType, BoardsType
<1>3. f \in [Viewers -> SUBSET {"OWNER", "FULL", "EDITOR", "READ"}] /\ \A u \in Viewers : "OWNER" \in rights[b][u] => "OWNER" \in f[u]
  BY <1>1 DEF RowsType, BoardsType, Levels
<1> HIDE DEF f
<1>4. /\ rights' \in [Boards -> [Viewers -> SUBSET {"OWNER", "FULL", "EDITOR", "READ"}]]
      /\ \A x \in Boards : x # b => rights'[x] = rights[x]
      /\ HasOwner(b) => HasOwner(b)'
  BY <1>1, <1>2, <1>3, OwnersStay
<1>5. RowsType'
  BY <1>1, <1>4 DEF RowsType, BoardsType
<1>6. PICK r : StepOf(c, r) /\ (r # Idle => r.op = "CREATE" /\ r.step = "WIDGET")
  <2>1. CASE GoTo(c, "WIDGET")
    <3>1. PICK r : StepOf(c, r) /\ r # Idle /\ r.step = "WIDGET"
      BY <1>1, <2>1, StepsOn DEF Steps
    <3> QED  BY <1>1, <3>1 DEF StepOf
  <2>2. CASE Ends(c)
    BY <1>1, <2>2, EndsThere
  <2> QED  BY <1>1, <2>1, <2>2
<1>7. Guards(c, r) /\ Keeps(c, r)
  BY <1>0, <1>1, <1>4, <1>6 DEF Guards, Keeps, LastStep, Unfinished
<1>8. Works(c, r, {})
  BY <1>1, <1>6, TouchesNone
<1> QED  BY <1>5, <1>6, <1>7, <1>8 DEF Proceeds

LEMMA FirstWidgetProceeds ==
    ASSUME BoardsType, NEW c \in Slots, NEW w \in Widgets, FirstWidget(c, w)
    PROVE  Proceeds(c)
<1>1. /\ Active(c) /\ calls[c] \in CallRecords /\ calls[c].op = "CREATE" /\ calls[c].step = "WIDGET" /\ w \notin spent
      /\ The(c) \in Boards /\ calls[c].on = {The(c)} /\ home' = [home EXCEPT ![w] = The(c)] /\ spent' = spent \cup {w}
      /\ GoTo(c, "LAYOUT") /\ UNCHANGED <<boards, system, rights, links, shows, default, favourites>>
  BY Working DEF FirstWidget
<1>2. PICK r : StepOf(c, r) /\ r # Idle /\ r.step = "LAYOUT"
  BY <1>1, StepsOn DEF Steps
<1>3. r.op = "CREATE"
  BY <1>1, <1>2 DEF StepOf
<1>4. RowsType'
  BY <1>1 DEF RowsType, BoardsType
<1>5. \A b : HasOwner(b) => HasOwner(b)'
  BY <1>1 DEF HasOwner
<1>6. home'[w] = The(c) /\ \A x \in Widgets : x # w => home'[x] = home[x]
  BY <1>1 DEF RowsType, BoardsType
<1>7. Guards(c, r) /\ Keeps(c, r)
  BY <1>1, <1>2, <1>3, <1>5, <1>6 DEF Guards, Keeps, LastStep, Unfinished
<1>8. Works(c, r, {w})
  BY <1>1, <1>2, <1>3, <1>6 DEF Works, Holds, Of
<1> QED  BY <1>2, <1>4, <1>7, <1>8 DEF Proceeds

LEMMA LayoutProceeds ==
    ASSUME BoardsType, NEW c \in Slots, NoFirstWidget(c) \/ Layout(c)
    PROVE  Proceeds(c)
<1>1. /\ Active(c) /\ calls[c] \in CallRecords /\ calls[c].op = "CREATE" /\ calls[c].step \in {"WIDGET", "LAYOUT"}
      /\ GoTo(c, "LAYOUT") \/ Ends(c)
      /\ UNCHANGED <<boards, system, rights, links, home, shows, default, favourites, spent>>
  BY Working DEF NoFirstWidget, Layout, Rows
<1>2. PICK r : StepOf(c, r) /\ (r # Idle => r.op = "CREATE" /\ r.step = "LAYOUT")
  <2>1. CASE GoTo(c, "LAYOUT")
    <3>1. PICK r : StepOf(c, r) /\ r # Idle /\ r.step = "LAYOUT"
      BY <1>1, <2>1, StepsOn DEF Steps
    <3> QED  BY <1>1, <3>1 DEF StepOf
  <2>2. CASE Ends(c)
    BY <1>1, <2>2, EndsThere
  <2> QED  BY <1>1, <2>1, <2>2
<1>3. RowsType'
  BY <1>1 DEF RowsType, BoardsType
<1>4. Guards(c, r) /\ Keeps(c, r)
  BY <1>1, <1>2, GuardsAll DEF Keeps, LastStep, Unfinished
<1>5. Works(c, r, {})
  BY <1>1, <1>2, TouchesNone
<1> QED  BY <1>2, <1>3, <1>4, <1>5 DEF Proceeds

LEMMA MembersProceeds ==
    ASSUME BoardsType, NEW c \in Slots, NEW level \in Levels, NEW fav \in BOOLEAN, Members(c, level, fav)
    PROVE  Proceeds(c)
<1>0. PICK b \in Boards : b = The(c) /\ calls[c].on = {b}
  BY Working DEF Members
<1> DEFINE f == [u \in Viewers |-> (IF u \in calls[c].ins \cup calls[c].del THEN rights[b][u] \ Levels ELSE rights[b][u])
                                    \cup (IF u \in calls[c].ins THEN {level} ELSE {})]
<1>1. /\ Active(c) /\ calls[c] \in CallRecords /\ calls[c].op = "UPDATE" /\ calls[c].step = "MEMBERS"
      /\ calls[c].by \in Viewers
      /\ UNCHANGED <<boards, system, links, home, shows, default, spent>>
  BY Working DEF Members, CallRecords
<1>2. CASE Aborts(c) /\ rights' = rights /\ favourites' = favourites
  <2>1. StepOf(c, Idle) /\ calls[c].on \subseteq raced'
    BY <1>1, <1>2, EndsThere
  <2>2. RowsType' /\ Guards(c, Idle) /\ Keeps(c, Idle)
    BY <1>1, <1>2, <2>1, GuardsAll DEF RowsType, BoardsType, Keeps
  <2>3. Works(c, Idle, {})
    BY <1>1, <2>1, TouchesNone
  <2> QED  BY <2>1, <2>2, <2>3 DEF Proceeds
<1>3. CASE rights' = [rights EXCEPT ![b] = f] /\ favourites' \subseteq favourites \cup {<<calls[c].by, b>>} /\ GoTo(c, "SAVE")
  <2>1. f \in [Viewers -> SUBSET {"OWNER", "FULL", "EDITOR", "READ"}] /\ \A u \in Viewers : "OWNER" \in rights[b][u] => "OWNER" \in f[u]
    BY <1>1 DEF RowsType, BoardsType, Levels
  <2> HIDE DEF f
  <2>2. /\ rights' \in [Boards -> [Viewers -> SUBSET {"OWNER", "FULL", "EDITOR", "READ"}]]
        /\ \A x \in Boards : x # b => rights'[x] = rights[x]
        /\ HasOwner(b) => HasOwner(b)'
    BY <1>1, <1>3, <2>1, OwnersStay
  <2>3. RowsType'
    BY <1>1, <1>3, <2>2 DEF RowsType, BoardsType
  <2>4. PICK r : StepOf(c, r) /\ r # Idle /\ r.step = "SAVE"
    BY <1>1, <1>3, StepsOn DEF Steps
  <2>5. r.op = "UPDATE"
    BY <1>1, <2>4 DEF StepOf
  <2>6. Guards(c, r) /\ Keeps(c, r)
    BY <1>0, <1>1, <2>2, <2>4, <2>5 DEF Guards, Keeps, LastStep, Unfinished
  <2>7. Works(c, r, {})
    BY <1>1, <2>4, <2>5, TouchesNone
  <2> QED  BY <2>3, <2>4, <2>6, <2>7 DEF Proceeds
<1>4. (rights' = [rights EXCEPT ![b] = f] /\ favourites' \subseteq favourites \cup {<<calls[c].by, b>>} /\ GoTo(c, "SAVE"))
      \/ (Aborts(c) /\ rights' = rights /\ favourites' = favourites)
  BY <1>0, <1>1 DEF Members, RowsType, BoardsType
<1> QED  BY <1>2, <1>3, <1>4

LEMMA SaveBoardProceeds ==
    ASSUME BoardsType, NEW c \in Slots, SaveBoard(c)
    PROVE  Proceeds(c)
<1>1. /\ Active(c) /\ calls[c] \in CallRecords /\ calls[c].op \in {"UPDATE", "FOLDERS", "TOUCH"}
      /\ The(c) \in Boards /\ calls[c].on = {The(c)} /\ boards' = boards \cup {The(c)} /\ Ends(c)
      /\ UNCHANGED <<system, rights, links, home, shows, default, favourites, spent>>
  BY Working DEF SaveBoard
<1>2. StepOf(c, Idle)
  BY <1>1, EndsThere
<1>3. RowsType'
  BY <1>1 DEF RowsType, BoardsType
<1>4. \A b : HasOwner(b) => HasOwner(b)'
  BY <1>1 DEF HasOwner
<1>5. Guards(c, Idle) /\ Keeps(c, Idle)
  BY <1>1, <1>4 DEF Guards, Keeps, Unfinished, LastStep
<1>6. Works(c, Idle, {})
  BY <1>1, <1>2, TouchesNone
<1> QED  BY <1>2, <1>3, <1>5, <1>6 DEF Proceeds

(* What widgets show, after folders are added to some of them. *)
LEMMA ShownMore ==
    ASSUME NEW W, NEW F \in SUBSET Linked, shows' = shows \cup (W \X F)
    PROVE  \A w : Of(w)' = IF w \in W THEN Of(w) \cup F ELSE Of(w)
<1>1. \A w, f : <<w, f>> \in shows' <=> <<w, f>> \in shows \/ (w \in W /\ f \in F)
  OBVIOUS
<1>2. \A w, f : f \in Of(w)' <=> f \in Of(w) \/ (w \in W /\ f \in F)
  BY <1>1 DEF Of
<1> QED  BY <1>2

(* A change of folders writes links and what its widgets show. *)
LEMMA FoldersProceeds ==
    ASSUME BoardsType, NEW c \in Slots, Active(c), calls[c].op = "FOLDERS", NEW b \in Boards, calls[c].on = {b},
           NEW r, StepOf(c, r), links' \subseteq Boards \X Linked, shows' \subseteq Widgets \X Linked,
           \A l \in links' : l \in links \/ l[1] = b, \A w \in Widgets : w \notin calls[c].read => Of(w)' = Of(w), Keeps(c, r),
           UNCHANGED <<boards, system, rights, home, default, favourites, spent>>
    PROVE  Proceeds(c)
<1>1. r # Idle => r.op = "FOLDERS" /\ r.read = calls[c].read
  BY DEF StepOf
<1>2. RowsType'
  BY DEF RowsType, BoardsType
<1>3. \A x : HasOwner(x) => HasOwner(x)'
  BY DEF HasOwner
<1>4. Guards(c, r)
  BY <1>1, <1>3 DEF Guards, Unfinished, LastStep
<1>5. Works(c, r, {})
  BY <1>1 DEF Works, Holds
<1> QED  BY <1>2, <1>4, <1>5 DEF Proceeds

LEMMA LinkFoldersProceeds ==
    ASSUME BoardsType, Reaching, NEW c \in Slots, LinkFolders(c)
    PROVE  Proceeds(c)
<1>1. PICK b \in Boards : b = The(c) /\ calls[c].on = {b}
  BY Working DEF LinkFolders
<1>2. /\ Active(c) /\ calls[c].op = "FOLDERS" /\ calls[c].step = "LINK" /\ calls[c].ins \subseteq Linked
      /\ links' \subseteq links \cup ({b} \X calls[c].ins) /\ (Aborts(c) \/ GoTo(c, "SHOW"))
      /\ UNCHANGED <<boards, system, rights, home, shows, default, favourites, spent>>
  BY <1>1, Working DEF LinkFolders, Formed
<1>3. /\ links' \subseteq Boards \X Linked /\ shows' \subseteq Widgets \X Linked
      /\ \A l \in links' : l \in links \/ l[1] = b
      /\ \A w : Of(w)' = Of(w)
  <2>1. links \subseteq Boards \X Linked /\ shows \subseteq Widgets \X Linked
    BY DEF RowsType, BoardsType
  <2>2. \A l \in {b} \X calls[c].ins : l[1] = b /\ l \in Boards \X Linked
    BY <1>2
  <2>3. \A w : Of(w)' = Of(w)
    BY <1>2 DEF Of
  <2>4. \A l \in links' : l \in links \/ l \in {b} \X calls[c].ins
    <3>1. links' \subseteq links \cup ({b} \X calls[c].ins)
      BY <1>2
    <3> QED  BY <3>1, Zenon
  <2>5. links' \subseteq Boards \X Linked /\ \A l \in links' : l \in links \/ l[1] = b
    BY <2>1, <2>2, <2>4
  <2>6. shows' \subseteq Widgets \X Linked
    BY <1>2, <2>1
  <2> QED  BY <2>3, <2>5, <2>6
<1>4. CASE Aborts(c)
  <2>1. StepOf(c, Idle) /\ Keeps(c, Idle)
    BY <1>2, <1>4, EndsThere DEF Keeps
  <2> QED  BY <1>1, <1>2, <1>3, <2>1, FoldersProceeds
<1>5. CASE GoTo(c, "SHOW")
  <2>1. PICK r : StepOf(c, r) /\ r # Idle /\ r.step = "SHOW"
    BY <1>2, <1>5, StepsOn DEF Steps
  <2>2. Keeps(c, r)
    BY <1>2, <2>1 DEF Keeps, Reaching, Reached, StepOf
  <2> QED  BY <1>1, <1>2, <1>3, <2>1, <2>2, FoldersProceeds
<1> QED  BY <1>2, <1>4, <1>5

LEMMA ShowFoldersProceeds ==
    ASSUME BoardsType, Reaching, NEW c \in Slots, ShowFolders(c)
    PROVE  Proceeds(c)
<1> DEFINE left == {w \in calls[c].read : home[w] # Nothing}
<1>1. PICK b \in Boards : b = The(c) /\ calls[c].on = {b}
  BY Working DEF ShowFolders
<1>2. /\ Active(c) /\ calls[c].op = "FOLDERS" /\ calls[c].ins \subseteq Linked /\ calls[c].read \subseteq Widgets
      /\ shows' = shows \cup (left \X calls[c].ins) /\ (Aborts(c) \/ GoTo(c, "UNLINK"))
      /\ UNCHANGED <<boards, system, rights, home, links, default, favourites, spent>>
  BY Working DEF ShowFolders, Formed, CallRecords
<1>8. left \subseteq calls[c].read
  OBVIOUS
<1> HIDE DEF left
<1>3. /\ links' \subseteq Boards \X Linked /\ shows' \subseteq Widgets \X Linked
      /\ \A l \in links' : l \in links \/ l[1] = b
  <2>1. links \subseteq Boards \X Linked /\ shows \subseteq Widgets \X Linked
    BY DEF RowsType, BoardsType
  <2>2. left \X calls[c].ins \subseteq Widgets \X Linked
    BY <1>2, <1>8
  <2>3. shows' = shows \cup (left \X calls[c].ins) /\ links' = links
    BY <1>2
  <2>4. shows' \subseteq Widgets \X Linked
    BY <2>1, <2>2, <2>3, Zenon
  <2> QED  BY <2>1, <2>3, <2>4
<1>4. \A w \in Widgets : Of(w)' = IF w \in left THEN Of(w) \cup calls[c].ins ELSE Of(w)
  <2>1. shows' = shows \cup (left \X calls[c].ins) /\ calls[c].ins \in SUBSET Linked
    BY <1>2
  <2> QED  BY <2>1, ShownMore
<1>5. \A w \in Widgets : w \notin calls[c].read => Of(w)' = Of(w)
  BY <1>4, <1>8
<1>6. CASE Aborts(c)
  <2>1. StepOf(c, Idle) /\ Keeps(c, Idle)
    BY <1>2, <1>6, EndsThere DEF Keeps
  <2> QED  BY <1>1, <1>2, <1>3, <1>5, <2>1, FoldersProceeds
<1>7. CASE GoTo(c, "UNLINK")
  <2>1. PICK r : StepOf(c, r) /\ r # Idle /\ r.step = "UNLINK"
    BY <1>2, <1>7, StepsOn DEF Steps
  <2>2. r.ins = calls[c].ins /\ r.read = calls[c].read /\ r.on = calls[c].on
    BY <2>1 DEF StepOf
  <2>3. Keeps(c, r)
    <3> SUFFICES ASSUME r.on \cap raced = {}, NEW w \in Widgets, home'[w] \in r.on PROVE Reached(r, w)'
      BY DEF Keeps
    <3>1. w \in calls[c].read
      BY <1>2, <2>2 DEF Reaching
    <3>2. w \in left
      BY <1>1, <1>2, <2>2, <3>1, DashboardsAssumption DEF left
    <3> QED  BY <1>4, <2>1, <2>2, <3>1, <3>2 DEF Reached
  <2> QED  BY <1>1, <1>2, <1>3, <1>5, <2>1, <2>3, FoldersProceeds
<1> QED  BY <1>2, <1>6, <1>7

LEMMA UnlinkFoldersProceeds ==
    ASSUME BoardsType, Reaching, NEW c \in Slots, UnlinkFolders(c)
    PROVE  Proceeds(c)
<1>1. PICK b \in Boards : b = The(c) /\ calls[c].on = {b}
  BY Working DEF UnlinkFolders
<1>2. /\ Active(c) /\ calls[c].op = "FOLDERS" /\ calls[c].step = "UNLINK" /\ links' \subseteq links /\ GoTo(c, "HIDE")
      /\ UNCHANGED <<boards, system, rights, home, shows, default, favourites, spent>>
  BY Working DEF UnlinkFolders
<1>3. /\ links' \subseteq Boards \X Linked /\ shows' \subseteq Widgets \X Linked
      /\ \A l \in links' : l \in links \/ l[1] = b
      /\ \A w : Of(w)' = Of(w)
  BY <1>2 DEF RowsType, BoardsType, Of
<1>4. PICK r : StepOf(c, r) /\ r # Idle /\ r.step = "HIDE"
  BY <1>2, StepsOn DEF Steps
<1>5. Keeps(c, r)
  BY <1>2, <1>3, <1>4 DEF Keeps, Reaching, Reached, StepOf
<1> QED  BY <1>1, <1>2, <1>3, <1>4, <1>5, FoldersProceeds

LEMMA HideFoldersProceeds ==
    ASSUME BoardsType, Reaching, NEW c \in Slots, HideFolders(c)
    PROVE  Proceeds(c)
<1>1. PICK b \in Boards : b = The(c) /\ calls[c].on = {b}
  BY Working DEF HideFolders
<1>2. /\ Active(c) /\ calls[c].op = "FOLDERS" /\ calls[c].step = "HIDE" /\ calls[c].ins \subseteq Linked
      /\ calls[c].ins \cap calls[c].del = {} /\ shows' = shows \ (calls[c].read \X calls[c].del) /\ GoTo(c, "SAVE")
      /\ UNCHANGED <<boards, system, rights, home, links, default, favourites, spent>>
  BY Working DEF HideFolders, Formed
<1>3. /\ links' \subseteq Boards \X Linked /\ shows' \subseteq Widgets \X Linked
      /\ \A l \in links' : l \in links \/ l[1] = b
      /\ \A w \in Widgets : Of(w)' = IF w \in calls[c].read THEN Of(w) \ calls[c].del ELSE Of(w)
  BY <1>2 DEF RowsType, BoardsType, Of
<1>4. PICK r : StepOf(c, r) /\ r # Idle /\ r.step = "SAVE"
  BY <1>2, StepsOn DEF Steps
<1>5. r.ins = calls[c].ins /\ r.read = calls[c].read /\ r.on = calls[c].on /\ r.del = calls[c].del
  BY <1>4 DEF StepOf
<1>6. Keeps(c, r)
  <2> SUFFICES ASSUME r.on \cap raced = {}, NEW w \in Widgets, home'[w] \in r.on PROVE Reached(r, w)'
    BY DEF Keeps
  <2>1. w \in calls[c].read /\ calls[c].ins \subseteq Of(w)
    BY <1>2, <1>5 DEF Reaching
  <2>2. Of(w)' = Of(w) \ calls[c].del
    BY <1>3, <2>1
  <2> QED  BY <1>2, <1>5, <2>1, <2>2 DEF Reached
<1> QED  BY <1>1, <1>2, <1>3, <1>4, <1>5, <1>6, FoldersProceeds

LEMMA DeleteWidgetsProceeds ==
    ASSUME BoardsType, NEW c \in Slots, DeleteWidgets(c)
    PROVE  Proceeds(c)
<1>1. /\ Active(c) /\ calls[c] \in CallRecords /\ calls[c].op = "DELETE" /\ calls[c].step = "WIDGETS"
      /\ home' = [w \in Widgets |-> IF w \in calls[c].read THEN Nothing ELSE home[w]]
      /\ shows' = {s \in shows : s[1] \notin calls[c].read} /\ GoTo(c, "LINKS")
      /\ UNCHANGED <<boards, system, rights, links, default, favourites, spent>>
  BY Working DEF DeleteWidgets
<1>2. PICK r : StepOf(c, r) /\ r # Idle /\ r.step = "LINKS"
  BY <1>1, StepsOn DEF Steps
<1>3. r.op = "DELETE"
  BY <1>1, <1>2 DEF StepOf
<1>4. RowsType'
  BY <1>1 DEF RowsType, BoardsType
<1>5. \A b : HasOwner(b) => HasOwner(b)'
  BY <1>1 DEF HasOwner
<1>6. Guards(c, r) /\ Keeps(c, r)
  BY <1>1, <1>2, <1>3, <1>5 DEF Guards, Keeps, Unfinished, LastStep
<1>7. Holds(calls[c]) = calls[c].read /\ Holds(r) = {}
  BY <1>1, <1>2, <1>3 DEF Holds
<1>8. \A w \in Widgets : w \notin calls[c].read => Of(w)' = Of(w)
  BY <1>1 DEF Of
<1>9. Works(c, r, {})
  BY <1>1, <1>7, <1>8 DEF Works
<1> QED  BY <1>2, <1>4, <1>6, <1>9 DEF Proceeds

LEMMA DeleteLinksProceeds ==
    ASSUME BoardsType, NEW c \in Slots, DeleteLinks(c)
    PROVE  Proceeds(c)
<1>1. /\ Active(c) /\ calls[c].op = "DELETE" /\ calls[c].step = "LINKS" /\ links' \subseteq links /\ GoTo(c, "RIGHTS")
      /\ UNCHANGED <<boards, system, rights, home, shows, default, favourites, spent>>
  BY Working DEF DeleteLinks
<1>2. PICK r : StepOf(c, r) /\ r # Idle /\ r.step = "RIGHTS"
  BY <1>1, StepsOn DEF Steps
<1>3. r.op = "DELETE"
  BY <1>1, <1>2 DEF StepOf
<1>4. RowsType'
  BY <1>1 DEF RowsType, BoardsType
<1>5. \A b : HasOwner(b) => HasOwner(b)'
  BY <1>1 DEF HasOwner
<1>6. Guards(c, r) /\ Keeps(c, r)
  BY <1>1, <1>2, <1>3, <1>5 DEF Guards, Keeps, Unfinished, LastStep
<1>7. Works(c, r, {})
  BY <1>1, <1>2, <1>3, TouchesNone
<1> QED  BY <1>2, <1>4, <1>6, <1>7 DEF Proceeds

LEMMA InsertWidgetProceeds ==
    ASSUME BoardsType, NEW c \in Slots, InsertWidget(c)
    PROVE  Proceeds(c)
<1>1. /\ Active(c) /\ calls[c].op = "WIDGET" /\ calls[c].step = "INSERT" /\ calls[c].widget \in Widgets \ spent
      /\ The(c) \in Boards /\ calls[c].on = {The(c)}
      /\ UNCHANGED <<boards, system, rights, links, shows, default, favourites>>
  BY Working DEF InsertWidget, Formed
<1>2. \A b : HasOwner(b) => HasOwner(b)'
  BY <1>1 DEF HasOwner
<1>3. CASE Aborts(c) /\ UNCHANGED <<home, spent>>
  <2>1. StepOf(c, Idle) /\ calls[c].on \subseteq raced'
    BY <1>1, <1>3, EndsThere
  <2>2. RowsType' /\ Guards(c, Idle) /\ Keeps(c, Idle)
    BY <1>1, <1>3, <2>1, GuardsAll DEF RowsType, BoardsType, Keeps
  <2>3. Works(c, Idle, {})
    BY <1>1, <1>3, <2>1, TouchesNone
  <2> QED  BY <2>1, <2>2, <2>3 DEF Proceeds
<1>4. CASE home' = [home EXCEPT ![calls[c].widget] = The(c)] /\ spent' = spent \cup {calls[c].widget} /\ GoTo(c, "SHOW")
  <2>1. PICK r : StepOf(c, r) /\ r # Idle /\ r.step = "SHOW"
    BY <1>1, <1>4, StepsOn DEF Steps
  <2>2. r.op = "WIDGET" /\ r.widget = calls[c].widget
    BY <1>1, <2>1 DEF StepOf
  <2>3. RowsType'
    BY <1>1, <1>4 DEF RowsType, BoardsType
  <2>4. home'[calls[c].widget] = The(c) /\ \A w \in Widgets : w # calls[c].widget => home'[w] = home[w]
    BY <1>1, <1>4 DEF RowsType, BoardsType
  <2>5. Guards(c, r) /\ Keeps(c, r)
    BY <1>1, <1>2, <2>2, <2>1, <2>4 DEF Guards, Keeps, Unfinished, LastStep
  <2>6. Holds(r) = {r.widget} /\ \A w : Of(w)' = Of(w)
    BY <1>1, <2>1, <2>2 DEF Holds, Of
  <2>7. Works(c, r, {calls[c].widget})
    BY <1>1, <1>4, <2>2, <2>4, <2>6 DEF Works
  <2> QED  BY <2>1, <2>3, <2>5, <2>7 DEF Proceeds
<1> QED  BY <1>3, <1>4 DEF InsertWidget

(* A call that has one widget in hand, and sets its home. *)
LEMMA OneWidgetProceeds ==
    ASSUME BoardsType, NEW c \in Slots, NEW r, StepOf(c, r), calls[c].op \in {"WIDGET", "CHANGE", "DROP"},
           calls[c].op = "WIDGET" => calls[c].step = "SHOW", calls[c].widget \in Widgets, calls[c].on \subseteq Boards,
           \A w \in Widgets : home'[w] = home[w] \/ (w = calls[c].widget /\ home'[w] \in calls[c].on \cup {Nothing}),
           home' \in [Widgets -> Boards \cup {Nothing}], shows' \subseteq Widgets \X Linked,
           \A w \in Widgets : w # calls[c].widget => Of(w)' = Of(w),
           UNCHANGED <<boards, system, rights, links, default, favourites, spent>>
    PROVE  Proceeds(c)
<1>1. r # Idle => r.op = calls[c].op /\ r.widget = calls[c].widget
  BY DEF StepOf
<1>2. RowsType'
  BY DEF RowsType, BoardsType
<1>3. \A b : HasOwner(b) => HasOwner(b)'
  BY DEF HasOwner
<1>4. Guards(c, r) /\ Keeps(c, r)
  BY <1>1, <1>3 DEF Guards, Keeps, Unfinished, LastStep
<1>5. Holds(calls[c]) = {calls[c].widget} /\ (r # Idle => Holds(r) \subseteq {r.widget})
  BY <1>1 DEF Holds
<1>6. Works(c, r, {})
  BY <1>1, <1>5 DEF Works
<1> QED  BY <1>2, <1>4, <1>6 DEF Proceeds

LEMMA SaveWidgetProceeds ==
    ASSUME BoardsType, NEW c \in Slots, SaveWidget(c)
    PROVE  Proceeds(c)
<1>1. /\ Active(c) /\ calls[c].op = "CHANGE" /\ calls[c].widget \in Widgets /\ calls[c].had \in calls[c].on
      /\ calls[c].on \subseteq Boards /\ UNCHANGED <<boards, system, rights, links, shows, default, favourites, spent>>
  BY Working DEF SaveWidget, Formed, CallRecords
<1>2. (\A w : Of(w)' = Of(w)) /\ shows' \subseteq Widgets \X Linked
  BY <1>1 DEF Of, RowsType, BoardsType
<1>3. CASE Aborts(c) /\ home' = home
  <2>1. StepOf(c, Idle) /\ home' \in [Widgets -> Boards \cup {Nothing}]
    BY <1>1, <1>3, EndsThere DEF RowsType, BoardsType
  <2> QED  BY <1>1, <1>2, <1>3, <2>1, OneWidgetProceeds
<1>4. CASE home' = [home EXCEPT ![calls[c].widget] = calls[c].had] /\ GoTo(c, "SHOW")
  <2>1. PICK r : StepOf(c, r) /\ r # Idle /\ r.step = "SHOW"
    BY <1>1, <1>4, StepsOn DEF Steps
  <2>2. /\ home' \in [Widgets -> Boards \cup {Nothing}]
        /\ \A w \in Widgets : home'[w] = home[w] \/ (w = calls[c].widget /\ home'[w] \in calls[c].on \cup {Nothing})
    BY <1>1, <1>4 DEF RowsType, BoardsType
  <2> QED  BY <1>1, <1>2, <2>1, <2>2, OneWidgetProceeds
<1> QED  BY <1>3, <1>4 DEF SaveWidget

LEMMA ShowOnProceeds ==
    ASSUME BoardsType, NEW c \in Slots, ShowOn(c)
    PROVE  Proceeds(c)
<1>1. /\ Active(c) /\ calls[c].op \in {"WIDGET", "CHANGE"} /\ calls[c].step = "SHOW" /\ calls[c].widget \in Widgets
      /\ calls[c].on \subseteq Boards /\ calls[c].ins \in SUBSET Linked
      /\ UNCHANGED <<boards, system, rights, links, home, default, favourites, spent>>
  BY Working DEF ShowOn, Formed, CallRecords
<1>2. home' \in [Widgets -> Boards \cup {Nothing}] /\ shows \subseteq Widgets \X Linked
  BY <1>1 DEF RowsType, BoardsType
<1>3. CASE Aborts(c) /\ shows' = shows
  <2>1. StepOf(c, Idle) /\ \A w : Of(w)' = Of(w)
    BY <1>1, <1>3, EndsThere DEF Of
  <2> QED  BY <1>1, <1>2, <1>3, <2>1, OneWidgetProceeds
<1>4. CASE shows' = shows \cup ({calls[c].widget} \X calls[c].ins) /\ Ends(c)
  <2>1. StepOf(c, Idle)
    BY <1>1, <1>4, EndsThere
  <2>2. \A w \in Widgets : w # calls[c].widget => Of(w)' = Of(w)
    <3> DEFINE W == {calls[c].widget}
               F == calls[c].ins
    <3>1. F \in SUBSET Linked /\ shows' = shows \cup (W \X F) /\ \A w : w \in W <=> w = calls[c].widget
      BY <1>1, <1>4
    <3> HIDE DEF W, F
    <3>2. \A w : Of(w)' = IF w \in W THEN Of(w) \cup F ELSE Of(w)
      BY <3>1, ShownMore
    <3> QED  BY <3>1, <3>2
  <2>3. shows' \subseteq Widgets \X Linked
    BY <1>1, <1>2, <1>4
  <2> QED  BY <1>1, <1>2, <2>1, <2>2, <2>3, OneWidgetProceeds
<1> QED  BY <1>3, <1>4 DEF ShowOn

LEMMA HideWidgetProceeds ==
    ASSUME BoardsType, NEW c \in Slots, HideWidget(c)
    PROVE  Proceeds(c)
<1>1. /\ Active(c) /\ calls[c].op = "DROP" /\ calls[c].widget \in Widgets /\ calls[c].on \subseteq Boards
      /\ shows' = {s \in shows : s[1] # calls[c].widget} /\ GoTo(c, "DELETE")
      /\ UNCHANGED <<boards, system, rights, links, home, default, favourites, spent>>
  BY Working DEF HideWidget, Formed, CallRecords
<1>2. home' \in [Widgets -> Boards \cup {Nothing}] /\ shows' \subseteq Widgets \X Linked
  BY <1>1 DEF RowsType, BoardsType
<1>3. PICK r : StepOf(c, r) /\ r # Idle /\ r.step = "DELETE"
  BY <1>1, StepsOn DEF Steps
<1>4. \A w \in Widgets : w # calls[c].widget => Of(w)' = Of(w)
  BY <1>1 DEF Of
<1> QED  BY <1>1, <1>2, <1>3, <1>4, OneWidgetProceeds

LEMMA DropWidgetProceeds ==
    ASSUME BoardsType, NEW c \in Slots, DropWidget(c)
    PROVE  Proceeds(c)
<1>1. /\ Active(c) /\ calls[c].op = "DROP" /\ calls[c].widget \in Widgets /\ calls[c].on \subseteq Boards
      /\ home' \in {home, [home EXCEPT ![calls[c].widget] = Nothing]} /\ (Aborts(c) \/ Ends(c))
      /\ UNCHANGED <<boards, system, rights, links, shows, default, favourites, spent>>
  BY Working DEF DropWidget, Formed, CallRecords
<1>2. /\ home' \in [Widgets -> Boards \cup {Nothing}] /\ shows' \subseteq Widgets \X Linked
      /\ \A w \in Widgets : home'[w] = home[w] \/ (w = calls[c].widget /\ home'[w] = Nothing)
  BY <1>1 DEF RowsType, BoardsType
<1>3. StepOf(c, Idle) /\ \A w : Of(w)' = Of(w)
  BY <1>1, EndsThere DEF Of
<1> QED  BY <1>1, <1>2, <1>3, OneWidgetProceeds

LEMMA LinkCopyProceeds ==
    ASSUME BoardsType, NEW c \in Slots, LinkCopy(c)
    PROVE  Proceeds(c)
<1>1. PICK b \in Boards : b = The(c) /\ calls[c].on = {b}
  BY Working DEF LinkCopy
<1>2. /\ Active(c) /\ calls[c].op = "COPY" /\ calls[c].step = "LINK" /\ calls[c].ins \subseteq Linked
      /\ UNCHANGED <<boards, system, rights, home, shows, default, favourites, spent>>
  BY Working DEF LinkCopy, Formed
<1>3. \A x : HasOwner(x) => HasOwner(x)'
  BY <1>2 DEF HasOwner
<1>4. CASE Aborts(c) /\ links' = links
  <2>1. StepOf(c, Idle) /\ calls[c].on \subseteq raced'
    BY <1>2, <1>4, EndsThere
  <2>2. RowsType' /\ Guards(c, Idle) /\ Keeps(c, Idle)
    BY <1>2, <1>4, <2>1, GuardsAll DEF RowsType, BoardsType, Keeps
  <2>3. Works(c, Idle, {})
    BY <1>2, <2>1, TouchesNone
  <2> QED  BY <2>1, <2>2, <2>3 DEF Proceeds
<1>5. CASE links' = links \cup ({b} \X calls[c].ins) /\ GoTo(c, "MEMBERS")
  <2>1. PICK r : StepOf(c, r) /\ r # Idle /\ r.step = "MEMBERS"
    BY <1>2, <1>5, StepsOn DEF Steps
  <2>2. r.op = "COPY"
    BY <1>2, <2>1 DEF StepOf
  <2>3. RowsType'
    BY <1>2, <1>5 DEF RowsType, BoardsType
  <2>4. \A l \in links' : l \in links \/ l[1] = b
    BY <1>5
  <2>5. Guards(c, r) /\ Keeps(c, r)
    BY <1>1, <1>2, <1>3, <2>1, <2>2, <2>4 DEF Guards, Keeps, Unfinished, LastStep
  <2>6. Works(c, r, {})
    BY <1>2, <2>1, <2>2, TouchesNone
  <2> QED  BY <2>1, <2>3, <2>5, <2>6 DEF Proceeds
<1> QED  BY <1>1, <1>4, <1>5 DEF LinkCopy

LEMMA MembersOfCopyProceeds ==
    ASSUME BoardsType, NEW c \in Slots, MembersOfCopy(c)
    PROVE  Proceeds(c)
<1> DEFINE only(S) == IF Cardinality(S) = 1 THEN S \cap Levels ELSE {}
<1>1. PICK b \in Boards : b = The(c) /\ calls[c].on = {b}
  BY Working DEF MembersOfCopy
<1> DEFINE given == [u \in Viewers |-> only(rights[calls[c].had][u])]
           f == [u \in Viewers |-> rights[b][u] \cup given[u]]
<1>2. /\ Active(c) /\ calls[c].op = "COPY" /\ calls[c].step = "MEMBERS" /\ GoTo(c, "WIDGETS")
      /\ UNCHANGED <<boards, system, links, home, shows, default, favourites, spent>>
  BY Working DEF MembersOfCopy
<1>3. rights' = [rights EXCEPT ![b] = f]
  BY <1>1 DEF MembersOfCopy, RowsType, BoardsType
<1>4. \A u \in Viewers : given[u] \subseteq Levels
  OBVIOUS
<1> HIDE DEF given
<1>5. f \in [Viewers -> SUBSET {"OWNER", "FULL", "EDITOR", "READ"}] /\ \A u \in Viewers : "OWNER" \in rights[b][u] => "OWNER" \in f[u]
  BY <1>4 DEF RowsType, BoardsType, Levels
<1> HIDE DEF f
<1>6. /\ rights' \in [Boards -> [Viewers -> SUBSET {"OWNER", "FULL", "EDITOR", "READ"}]]
      /\ \A x \in Boards : x # b => rights'[x] = rights[x]
      /\ HasOwner(b) => HasOwner(b)'
  BY <1>3, <1>5, OwnersStay
<1>7. RowsType'
  BY <1>2, <1>6 DEF RowsType, BoardsType
<1>8. PICK r : StepOf(c, r) /\ r # Idle /\ r.step = "WIDGETS"
  BY <1>2, StepsOn DEF Steps
<1>9. r.op = "COPY"
  BY <1>2, <1>8 DEF StepOf
<1>10. Guards(c, r) /\ Keeps(c, r)
  BY <1>1, <1>2, <1>6, <1>8, <1>9 DEF Guards, Keeps, LastStep, Unfinished
<1>11. Works(c, r, {})
  BY <1>2, <1>8, <1>9, TouchesNone
<1> QED  BY <1>7, <1>8, <1>10, <1>11 DEF Proceeds

LEMMA CopyWidgetsProceeds ==
    ASSUME BoardsType, NEW c \in Slots, NEW W \in SUBSET Widgets, CopyWidgets(c, W)
    PROVE  Proceeds(c)
<1> DEFINE F == UNION {Of(w) : w \in On(calls[c].had)}
<1>1. PICK b \in Boards : b = The(c) /\ calls[c].on = {b}
  BY Working DEF CopyWidgets
<1>2. /\ Active(c) /\ calls[c].op = "COPY" /\ calls[c].step = "WIDGETS" /\ W \cap spent = {}
      /\ UNCHANGED <<boards, system, rights, links, default, favourites>>
  BY Working DEF CopyWidgets
<1>3. \A x : HasOwner(x) => HasOwner(x)'
  BY <1>2 DEF HasOwner
<1>4. CASE Aborts(c) /\ UNCHANGED <<home, shows, spent>>
  <2>1. StepOf(c, Idle) /\ calls[c].on \subseteq raced'
    BY <1>2, <1>4, EndsThere
  <2>2. RowsType' /\ Guards(c, Idle) /\ Keeps(c, Idle)
    BY <1>2, <1>4, <2>1, GuardsAll DEF RowsType, BoardsType, Keeps
  <2>3. Works(c, Idle, {})
    BY <1>2, <1>4, <2>1, TouchesNone
  <2> QED  BY <2>1, <2>2, <2>3 DEF Proceeds
<1>5. CASE /\ home' = [w \in Widgets |-> IF w \in W THEN b ELSE home[w]]
           /\ shows' = shows \cup (W \X F) /\ spent' = spent \cup W /\ Ends(c)
  <2>1. StepOf(c, Idle)
    BY <1>2, <1>5, EndsThere
  <2>2. F \in SUBSET Linked
    BY DEF Of
  <2> HIDE DEF F
  <2>3. W \X F \subseteq Widgets \X Linked
    BY <2>2
  <2>4. shows' \subseteq Widgets \X Linked
    BY <1>5, <2>3 DEF RowsType, BoardsType
  <2>5. home' \in [Widgets -> Boards \cup {Nothing}] /\ \A w \in Widgets : home'[w] = IF w \in W THEN b ELSE home[w]
    BY <1>5 DEF RowsType, BoardsType
  <2>6. RowsType'
    BY <1>2, <2>4, <2>5 DEF RowsType, BoardsType
  <2>7. Guards(c, Idle) /\ Keeps(c, Idle)
    BY <1>1, <1>2, <1>3, <2>5 DEF Guards, Keeps, Unfinished, LastStep
  <2>8. \A w : Of(w)' = IF w \in W THEN Of(w) \cup F ELSE Of(w)
    BY <1>5, <2>2, ShownMore
  <2>9. Works(c, Idle, W)
    BY <1>1, <1>2, <1>5, <2>5, <2>8 DEF Works
  <2> QED  BY <2>1, <2>6, <2>7, <2>9 DEF Proceeds
<1> QED  BY <1>1, <1>4, <1>5 DEF CopyWidgets

(* The last two statements of a deletion: what Whole rests on goes, when all the rest has gone. *)
LEMMA DeleteRightsKeeps ==
    ASSUME BoardsType, Alone, \A b \in Boards \ raced : Whole(b), NEW c \in Slots, DeleteRights(c)
    PROVE  \E r : /\ StepOf(c, r) /\ RowsType' /\ Works(c, r, {}) /\ Keeps(c, r)
                  /\ \A b \in Boards \ raced' : Whole(b)'
<1>1. PICK b \in Boards : b = The(c) /\ calls[c].on = {b}
  BY Working DEF DeleteRights
<1>2. /\ Active(c) /\ calls[c].op = "DELETE" /\ calls[c].step = "RIGHTS" /\ GoTo(c, "BOARD")
      /\ rights' = [rights EXCEPT ![b] = [u \in Viewers |-> {}]]
      /\ UNCHANGED <<boards, system, links, home, shows, default, favourites, spent>>
  BY <1>1, Working DEF DeleteRights
<1>3. PICK r : StepOf(c, r) /\ r # Idle /\ r.step = "BOARD"
  BY <1>2, StepsOn DEF Steps
<1>4. r.op = "DELETE" /\ r.on = {b} /\ raced' = raced /\ calls'[c] = r /\ \A d \in Slots : d # c => calls'[d] = calls[d]
  BY <1>1, <1>2, <1>3 DEF StepOf, BoardsType
<1>5. RowsType' /\ rights'[b] = [u \in Viewers |-> {}] /\ \A x \in Boards : x # b => rights'[x] = rights[x]
  BY <1>2 DEF RowsType, BoardsType
<1>6. Works(c, r, {}) /\ Keeps(c, r)
  BY <1>2, <1>3, <1>4, TouchesNone DEF Keeps
<1>7. ASSUME NEW x \in Boards, x \notin raced' PROVE Whole(x)'
  <2>1. x \notin raced /\ Whole(x)
    BY <1>4, <1>7
  <2>2. CASE x # b
    BY <1>1, <1>2, <1>3, <1>5, <2>1, <2>2, ElsewhereWhole
  <2>3. CASE x = b
    <3>1. c \in Busy(b) /\ \A d \in Busy(b) : d = c
      BY <1>1, <1>2, <2>1, <2>3 DEF Busy, Alone, Active
    <3>2. b \in boards'
      BY <1>2, <2>1, <2>3, <3>1 DEF Whole
    <3>3. c \in Busy(b)' /\ Unfinished(calls'[c])
      BY <1>3, <1>4 DEF Busy, Unfinished, LastStep
    <3>4. NoRights(b)'
      BY <1>5 DEF NoRights
    <3> QED  BY <2>3, <3>2, <3>3, <3>4 DEF Whole
  <2> QED  BY <2>2, <2>3
<1> QED  BY <1>3, <1>5, <1>6, <1>7

LEMMA DeleteBoardKeeps ==
    ASSUME BoardsType, Alone, \A b \in Boards \ raced : Whole(b), NEW c \in Slots, DeleteBoard(c)
    PROVE  /\ StepOf(c, Idle) /\ RowsType' /\ Works(c, Idle, {}) /\ Keeps(c, Idle)
           /\ \A b \in Boards \ raced' : Whole(b)'
<1>1. PICK b \in Boards : b = The(c) /\ calls[c].on = {b}
  BY Working DEF DeleteBoard
<1>2. /\ Active(c) /\ calls[c].op = "DELETE" /\ calls[c].step = "BOARD"
      /\ UNCHANGED <<system, rights, links, home, shows, spent>>
  BY Working DEF DeleteBoard
<1>3. StepOf(c, Idle) /\ (Aborts(c) => calls[c].on \subseteq raced')
  BY <1>2, EndsThere DEF DeleteBoard
<1>4. /\ boards' \in {boards, boards \ {b}}
      /\ favourites' \subseteq favourites
      /\ default' \in {default, [u \in Viewers |-> IF default[u] = b THEN Nothing ELSE default[u]]}
  BY <1>1 DEF DeleteBoard
<1>5. RowsType'
  BY <1>2, <1>4 DEF RowsType, BoardsType
<1>6. Works(c, Idle, {}) /\ Keeps(c, Idle)
  BY <1>2, <1>3, TouchesNone DEF Keeps
<1>7. ASSUME NEW x \in Boards, x \notin raced' PROVE Whole(x)'
  <2>1. x \notin raced /\ Whole(x) /\ x # Nothing
    BY <1>3, <1>7, DashboardsAssumption DEF StepOf
  <2>2. CASE x # b
    <3>1. \A u \in Viewers : default'[u] = x => default[u] = x
      BY <1>4, <2>1, <2>2
    <3> QED  BY <1>1, <1>2, <1>3, <1>4, <2>1, <2>2, <3>1, ElsewhereWhole
  <2>3. CASE x = b
    <3>1. Ends(c)
      BY <1>1, <1>3, <1>7, <2>3 DEF DeleteBoard
    <3>2. /\ On(b) = {} /\ (\A l \in links : l[1] # b) /\ boards' = boards \ {b}
          /\ default' = [u \in Viewers |-> IF default[u] = b THEN Nothing ELSE default[u]]
      BY <1>1, <1>3, <1>7, <2>3 DEF DeleteBoard
    <3>3. c \in Busy(b) /\ \A d \in Busy(b) : d = c
      BY <1>1, <1>2, <2>1, <2>3 DEF Busy, Alone, Active
    <3>4. NoRights(b)
      BY <1>2, <2>1, <2>3, <3>3 DEF Whole, LastStep
    <3>5. Busy(b)' = {}
      <4>1. calls'[c] = Idle /\ \A d \in Slots : d # c => calls'[d] = calls[d]
        BY <1>3 DEF StepOf, BoardsType
      <4>2. \A d \in Busy(b)' : FALSE
        BY <3>3, <4>1 DEF Busy
      <4> QED  BY <4>2
    <3>6. On(b)' = {} /\ NoRights(b)' /\ (\A l \in links' : l[1] # b) /\ \A u \in Viewers : default'[u] # b
      BY <1>2, <2>1, <2>3, <3>2, <3>4 DEF On, NoRights
    <3> QED  BY <2>3, <3>2, <3>5, <3>6 DEF Whole
  <2> QED  BY <2>2, <2>3
<1> QED  BY <1>3, <1>5, <1>6, <1>7

-----------------------------------------------------------------------------
(* A call that begins, and one that runs on *)
LEMMA StartsKeeps ==
    ASSUME BoardsInv, NEW c \in Slots, NEW r, Starts(c, r)
    PROVE  BoardsInv' /\ raced \subseteq raced'
<1>1. r \in CallRecords /\ BoardsType' /\ Alone' /\ raced \subseteq raced'
  BY BeginTypes, Beginning DEF BoardsInv, Starts
<1>2. \A b \in Boards \ raced' : Whole(b)'
  BY BeginWhole DEF BoardsInv, Starts
<1>3. HeldSpent' /\ HeldHere' /\ HeldOnce'
  BY BeginHeld DEF BoardsInv, Starts
<1>4. Reaching'
  BY BeginReaches DEF BoardsInv, Starts
<1> QED  BY <1>1, <1>2, <1>3, <1>4 DEF BoardsInv

LEMMA StepKeeps ==
    ASSUME BoardsInv, NEW c \in Slots, NEW r, NEW new, StepOf(c, r), RowsType', Works(c, r, new), Keeps(c, r),
           \A b \in Boards \ raced' : Whole(b)'
    PROVE  BoardsInv' /\ raced \subseteq raced'
<1>1. BoardsType' /\ Alone' /\ raced \subseteq raced'
  BY StepTypes, StepAlone DEF BoardsInv, StepOf
<1>2. HeldSpent' /\ HeldHere' /\ HeldOnce'
  BY StepHeld DEF BoardsInv
<1>3. Reaching'
  BY StepReaches DEF BoardsInv, Keeps
<1> QED  BY <1>1, <1>2, <1>3 DEF BoardsInv

LEMMA ProceedsKeeps ==
    ASSUME BoardsInv, NEW c \in Slots, Proceeds(c)
    PROVE  BoardsInv' /\ raced \subseteq raced'
<1>1. PICK r, new : StepOf(c, r) /\ RowsType' /\ Works(c, r, new) /\ Guards(c, r) /\ Keeps(c, r)
  BY DEF Proceeds
<1>2. \A b \in Boards \ raced' : Whole(b)'
  BY <1>1, StepWhole DEF BoardsInv
<1> QED  BY <1>1, <1>2, StepKeeps

(* When the process stops, every dashboard a call was on is raced. *)
LEMMA StopKeeps ==
    ASSUME BoardsInv, Stop
    PROVE  BoardsInv' /\ raced \subseteq raced'
<1> DEFINE left == {d \in Slots : calls[d] # Idle}
<1>1. /\ raced' = raced \cup UNION {calls[c].on : c \in left}
      /\ calls' = [c \in Slots |-> Idle] /\ UNCHANGED <<boards, system, rights, links, home, shows, default, favourites, spent>>
  BY DEF Stop, Rows
<1>2. \A c \in left : calls[c].on \subseteq Boards /\ calls[c].on \subseteq raced'
  BY <1>1, CallAt DEF BoardsInv, Active, CallRecords
<1>3. raced \subseteq raced' /\ raced' \subseteq Boards
  BY <1>1, <1>2 DEF BoardsInv, BoardsType
<1>4. BoardsType'
  BY <1>1, <1>3 DEF BoardsInv, BoardsType, RowsType
<1>5. \A c \in Slots : ~ Active(c)'
  BY <1>1 DEF Active
<1>6. Alone' /\ HeldHere' /\ HeldOnce' /\ Reaching' /\ HeldSpent'
  BY <1>1, <1>5 DEF BoardsInv, Alone, HeldHere, HeldOnce, Reaching, HeldSpent
<1>7. ASSUME NEW b \in Boards, b \notin raced' PROVE Whole(b)'
  <2>1. Whole(b)
    BY <1>3, <1>7 DEF BoardsInv
  <2>2. \A c \in left : b \notin calls[c].on
    BY <1>2, <1>7
  <2>3. Busy(b) = {} /\ Busy(b)' = {}
    BY <1>1, <2>2 DEF Busy
  <2>4. (HasOwner(b)' <=> HasOwner(b)) /\ (NoRights(b)' <=> NoRights(b)) /\ On(b)' = On(b)
    BY <1>1 DEF HasOwner, NoRights, On
  <2> QED  BY <1>1, <2>1, <2>3, <2>4 DEF Whole
<1> QED  BY <1>3, <1>4, <1>6, <1>7 DEF BoardsInv

LEMMA InitHolds == BoardsInit => BoardsInv
<1> SUFFICES ASSUME BoardsInit PROVE BoardsInv
  OBVIOUS
<1>1. PICK b \in Boards, w \in Widgets, u \in Viewers, f \in Linked :
        /\ <<u, f>> \in Reads
        /\ boards = {b} /\ system = {} /\ links = {<<b, f>>} /\ shows = {<<w, f>>}
        /\ rights = [x \in Boards |-> [v \in Viewers |-> IF x = b /\ v = u THEN {"OWNER"} ELSE {}]]
        /\ home = [x \in Widgets |-> IF x = w THEN b ELSE Nothing]
        /\ default = [v \in Viewers |-> Nothing] /\ favourites = {}
        /\ calls = [c \in Slots |-> Idle] /\ spent = {b, w} /\ raced = {} /\ started = 0
  BY DEF BoardsInit
<1>2. RowsType
  BY <1>1 DEF RowsType
<1>3. BoardsType
  BY <1>1, <1>2 DEF BoardsType
<1>4. \A c \in Slots : ~ Active(c)
  BY <1>1 DEF Active
<1>5. Alone /\ HeldHere /\ HeldOnce /\ Reaching /\ HeldSpent
  BY <1>1, <1>4 DEF Alone, HeldHere, HeldOnce, Reaching, HeldSpent
<1>6. ASSUME NEW x \in Boards PROVE Whole(x)
  <2>1. Busy(x) = {} /\ x # Nothing
    BY <1>1, DashboardsAssumption DEF Busy
  <2>2. CASE x = b
    <3>1. HasOwner(x)
      BY <1>1, <2>2 DEF HasOwner
    <3> QED  BY <1>1, <2>1, <2>2, <3>1 DEF Whole
  <2>3. CASE x # b
    BY <1>1, <2>1, <2>3 DEF Whole, On, NoRights
  <2> QED  BY <2>2, <2>3
<1> QED  BY <1>3, <1>5, <1>6 DEF BoardsInv

(* The statements of a running call *)
Continues(c) ==
    \/ FindDefault(c) \/ SaveDefault(c) \/ GrantOwner(c) \/ NoFirstWidget(c) \/ Layout(c) \/ SaveBoard(c)
    \/ \E fav \in BOOLEAN : LinkNew(c, fav)
    \/ \E level \in Levels : MembersOfNew(c, level) \/ \E fav \in BOOLEAN : Members(c, level, fav)
    \/ \E w \in Widgets : FirstWidget(c, w)
    \/ LinkFolders(c) \/ ShowFolders(c) \/ UnlinkFolders(c) \/ HideFolders(c)
    \/ DeleteWidgets(c) \/ DeleteLinks(c) \/ DeleteRights(c) \/ DeleteBoard(c)
    \/ InsertWidget(c) \/ SaveWidget(c) \/ ShowOn(c) \/ HideWidget(c) \/ DropWidget(c)
    \/ LinkCopy(c) \/ MembersOfCopy(c) \/ \E W \in SUBSET Widgets : CopyWidgets(c, W)

LEMMA ContinuesKeeps ==
    ASSUME BoardsInv, NEW c \in Slots, Continues(c)
    PROVE  BoardsInv' /\ raced \subseteq raced'
<1>1. BoardsType /\ Alone /\ Reaching /\ \A b \in Boards \ raced : Whole(b)
  BY DEF BoardsInv
<1>2. CASE FindDefault(c) \/ SaveDefault(c) \/ GrantOwner(c) \/ NoFirstWidget(c) \/ Layout(c) \/ SaveBoard(c)
  <2>1. Proceeds(c)
    BY <1>1, <1>2, FindDefaultProceeds, SaveDefaultProceeds, GrantOwnerProceeds, LayoutProceeds, SaveBoardProceeds
  <2> QED  BY <2>1, ProceedsKeeps
<1>3. CASE \E fav \in BOOLEAN : LinkNew(c, fav)
  <2>1. Proceeds(c)
    BY <1>1, <1>3, LinkNewProceeds
  <2> QED  BY <2>1, ProceedsKeeps
<1>4. CASE \E level \in Levels : MembersOfNew(c, level) \/ \E fav \in BOOLEAN : Members(c, level, fav)
  <2>1. Proceeds(c)
    BY <1>1, <1>4, MembersOfNewProceeds, MembersProceeds
  <2> QED  BY <2>1, ProceedsKeeps
<1>5. CASE \E w \in Widgets : FirstWidget(c, w)
  <2>1. Proceeds(c)
    BY <1>1, <1>5, FirstWidgetProceeds
  <2> QED  BY <2>1, ProceedsKeeps
<1>6. CASE LinkFolders(c) \/ ShowFolders(c) \/ UnlinkFolders(c) \/ HideFolders(c)
  <2>1. Proceeds(c)
    BY <1>1, <1>6, LinkFoldersProceeds, ShowFoldersProceeds, UnlinkFoldersProceeds, HideFoldersProceeds
  <2> QED  BY <2>1, ProceedsKeeps
<1>7. CASE DeleteWidgets(c) \/ DeleteLinks(c)
  <2>1. Proceeds(c)
    BY <1>1, <1>7, DeleteWidgetsProceeds, DeleteLinksProceeds
  <2> QED  BY <2>1, ProceedsKeeps
<1>8. CASE DeleteRights(c)
  <2>1. PICK r : /\ StepOf(c, r) /\ RowsType' /\ Works(c, r, {}) /\ Keeps(c, r)
                 /\ \A b \in Boards \ raced' : Whole(b)'
    BY <1>1, <1>8, DeleteRightsKeeps
  <2> QED  BY <2>1, StepKeeps
<1>9. CASE DeleteBoard(c)
  <2>1. /\ StepOf(c, Idle) /\ RowsType' /\ Works(c, Idle, {}) /\ Keeps(c, Idle)
        /\ \A b \in Boards \ raced' : Whole(b)'
    BY <1>1, <1>9, DeleteBoardKeeps
  <2> QED  BY <2>1, StepKeeps
<1>10. CASE InsertWidget(c) \/ SaveWidget(c) \/ ShowOn(c) \/ HideWidget(c) \/ DropWidget(c)
  <2>1. Proceeds(c)
    BY <1>1, <1>10, InsertWidgetProceeds, SaveWidgetProceeds, ShowOnProceeds, HideWidgetProceeds, DropWidgetProceeds
  <2> QED  BY <2>1, ProceedsKeeps
<1>11. CASE LinkCopy(c) \/ MembersOfCopy(c) \/ \E W \in SUBSET Widgets : CopyWidgets(c, W)
  <2>1. Proceeds(c)
    BY <1>1, <1>11, LinkCopyProceeds, MembersOfCopyProceeds, CopyWidgetsProceeds
  <2> QED  BY <2>1, ProceedsKeeps
<1> QED  BY <1>2, <1>3, <1>4, <1>5, <1>6, <1>7, <1>8, <1>9, <1>10, <1>11 DEF Continues

(* The calls that begin *)
Beginner(c, u) ==
    \/ \E b \in Boards :
        \/ \E F \in SUBSET Linked, M \in SUBSET Viewers, wants, first \in BOOLEAN : CreateDashboard(c, u, b, F, wants, M, first)
        \/ \E flag \in {"NONE", "YES", "NO"}, I, D \in SUBSET Viewers : UpdateDashboard(c, u, b, flag, I, D)
        \/ \E I, D \in SUBSET Linked : UpdateDashboardFolders(c, u, b, I, D)
        \/ Touch(c, u, b) \/ DeleteDashboard(c, u, b)
        \/ \E src \in Boards : DuplicateDashboard(c, u, src, b)
        \/ \E w \in Widgets, F \in SUBSET Linked : CreateWidget(c, u, w, b, F) \/ UpdateWidget(c, u, w, b, F)
    \/ \E w \in Widgets : DeleteWidget(c, u, w) \/ \E copy \in Widgets : DuplicateWidget(c, u, w, copy)

LEMMA BeginnerKeeps ==
    ASSUME BoardsInv, NEW c \in Slots, NEW u \in Viewers, Beginner(c, u)
    PROVE  BoardsInv' /\ raced \subseteq raced'
<1>1. BoardsType
  BY DEF BoardsInv
<1>2. \E r : Starts(c, r)
  <2>1. CASE \E w \in Widgets : DeleteWidget(c, u, w) \/ \E copy \in Widgets : DuplicateWidget(c, u, w, copy)
    BY <1>1, <2>1, DeleteWidgetStarts, DuplicateWidgetStarts
  <2>2. ASSUME NEW b \in Boards, \E F \in SUBSET Linked, M \in SUBSET Viewers, wants, first \in BOOLEAN :
                  CreateDashboard(c, u, b, F, wants, M, first)
        PROVE  \E r : Starts(c, r)
    BY <1>1, <2>2, CreateDashboardStarts
  <2>3. ASSUME NEW b \in Boards, \E flag \in {"NONE", "YES", "NO"}, I, D \in SUBSET Viewers : UpdateDashboard(c, u, b, flag, I, D)
        PROVE  \E r : Starts(c, r)
    BY <1>1, <2>3, UpdateDashboardStarts
  <2>4. ASSUME NEW b \in Boards, \E I, D \in SUBSET Linked : UpdateDashboardFolders(c, u, b, I, D)
        PROVE  \E r : Starts(c, r)
    BY <1>1, <2>4, UpdateDashboardFoldersStarts
  <2>5. ASSUME NEW b \in Boards, Touch(c, u, b) \/ DeleteDashboard(c, u, b) \/ \E src \in Boards : DuplicateDashboard(c, u, src, b)
        PROVE  \E r : Starts(c, r)
    BY <1>1, <2>5, TouchStarts, DeleteDashboardStarts, DuplicateDashboardStarts
  <2>6. ASSUME NEW b \in Boards, \E w \in Widgets, F \in SUBSET Linked : CreateWidget(c, u, w, b, F) \/ UpdateWidget(c, u, w, b, F)
        PROVE  \E r : Starts(c, r)
    BY <1>1, <2>6, CreateWidgetStarts, UpdateWidgetStarts
  <2> QED  BY <2>1, <2>2, <2>3, <2>4, <2>5, <2>6 DEF Beginner
<1> QED  BY <1>2, StartsKeeps

LEMMA StepHolds ==
    ASSUME BoardsInv, [BoardsNext]_boardVars
    PROVE  BoardsInv' /\ raced \subseteq raced'
<1>1. CASE \E c \in Slots, u \in Viewers : Beginner(c, u)
  BY <1>1, BeginnerKeeps
<1>2. CASE \E c \in Slots : Continues(c)
  BY <1>2, ContinuesKeeps
<1>3. CASE Stop
  BY <1>3, StopKeeps
<1>4. CASE UNCHANGED boardVars
  <2>1. (\A b : Whole(b)' = Whole(b)) /\ Alone' = Alone /\ BoardsType' = BoardsType
    BY <1>4 DEF boardVars, Whole, Busy, On, NoRights, HasOwner, Alone, Active, BoardsType, RowsType
  <2>2. HeldSpent' = HeldSpent /\ HeldHere' = HeldHere /\ HeldOnce' = HeldOnce /\ Reaching' = Reaching
    BY <1>4 DEF boardVars, HeldSpent, HeldHere, HeldOnce, Reaching, Active, Of
  <2> QED  BY <1>4, <2>1, <2>2 DEF BoardsInv, boardVars
<1> QED  BY <1>1, <1>2, <1>3, <1>4 DEF BoardsNext, Beginner, Continues

(* Every state of any number of calls satisfies the invariant. *)
THEOREM BoardsInvariance == BoardsSpec => []BoardsInv
<1>1. BoardsInit => BoardsInv
  BY InitHolds
<1>2. BoardsInv /\ [BoardsNext]_boardVars => BoardsInv'
  BY StepHolds
<1> QED  BY <1>1, <1>2, PTL DEF BoardsSpec

(* A dashboard on which no calls met has an owner or is gone with all that hung on it, whenever
   nobody is working on it: whatever calls came one after another, on it and beside it. *)
THEOREM DashboardsWholeOrGone == BoardsSpec => []WholeOrGone
<1>1. BoardsInv => WholeOrGone
  <2> SUFFICES ASSUME BoardsInv, NEW b \in Boards \ raced, Busy(b) = {}
               PROVE  IF b \in boards THEN \E u \in Viewers : "OWNER" \in rights[b][u]
                      ELSE /\ \A l \in links : l[1] # b
                           /\ On(b) = {} /\ \A u \in Viewers : rights[b][u] = {} /\ default[u] # b
    BY DEF WholeOrGone
  <2>1. Whole(b)
    BY DEF BoardsInv
  <2> QED  BY <2>1 DEF Whole, HasOwner, NoRights
<1> QED  BY <1>1, BoardsInvariance, PTL

(* A change of the folders of a dashboard on which no calls met reaches all its widgets. *)
THEOREM ChangesReachWidgets == BoardsSpec => FoldersReachWidgets
<1>1. BoardsInv /\ [BoardsNext]_boardVars =>
        [\A c \in Slots :
            (At(c, {"FOLDERS"}, "SAVE") /\ calls'[c] = Idle /\ calls[c].on \cap raced' = {}) =>
                \A w \in On(The(c)) : calls[c].ins \subseteq Of(w) /\ Of(w) \cap calls[c].del = {}]_boardVars
  <2> SUFFICES ASSUME BoardsInv, [BoardsNext]_boardVars, NEW c \in Slots, At(c, {"FOLDERS"}, "SAVE"),
                      calls[c].on \cap raced' = {}, NEW w \in On(The(c))
               PROVE  calls[c].ins \subseteq Of(w) /\ Of(w) \cap calls[c].del = {}
    OBVIOUS
  <2>1. calls[c].on \cap raced = {}
    BY StepHolds
  <2>2. Active(c) /\ calls[c].op = "FOLDERS" /\ calls[c].step = "SAVE" /\ calls[c].on = {The(c)}
    BY Working DEF BoardsInv
  <2>3. w \in Widgets /\ home[w] \in calls[c].on
    BY <2>2 DEF On
  <2> QED  BY <2>1, <2>2, <2>3 DEF BoardsInv, Reaching
<1> QED  BY <1>1, BoardsInvariance, PTL DEF BoardsSpec, FoldersReachWidgets
=============================================================================
