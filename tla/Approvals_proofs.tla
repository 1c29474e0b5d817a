-------------------------- MODULE Approvals_proofs --------------------------
(***************************************************************************)
(* Proofs about Approvals, for any set of users and of connections, any    *)
(* quorums and panels and any bound on the log, and about Attachments, for *)
(* any set of connections, each with any of the three services, any        *)
(* predefined thumbnails and any bound on the files.                       *)
(***************************************************************************)
EXTENDS Approvals, Attachments, FiniteSetTheorems, SequenceTheorems, TLAPS

-----------------------------------------------------------------------------
(* Type correctness *)

(* A connection that is past its first query holds a well-formed call. *)
LEMMA InFlight ==
    ASSUME TypeOK, NEW r \in Requests, req[r] # Idle
    PROVE  req[r] \in Call
BY DEF TypeOK

(* A query finds at most as many rows of one kind as the log holds. *)
LEMMA CountBound ==
    ASSUME TypeOK, NEW k
    PROVE  Cardinality(Found(LiveKind(k))) \in 0..MaxLog
<1>1. Found(LiveKind(k)) \subseteq 1..Len(log) /\ Len(log) \in Nat
  BY DEF TypeOK, Found, LiveKind, Live
<1>2. IsFiniteSet(1..Len(log)) /\ Cardinality(1..Len(log)) = Len(log)
  <2>1. Len(log) \in Int /\ 1 \in Int
    BY <1>1
  <2>2. /\ IsFiniteSet(1..Len(log))
        /\ Cardinality(1..Len(log)) = IF 1 > Len(log) THEN 0 ELSE Len(log) - 1 + 1
    BY <2>1, FS_Interval
  <2> QED  BY <1>1, <2>2
<1>3. IsFiniteSet(Found(LiveKind(k))) /\ Cardinality(Found(LiveKind(k))) <= Len(log)
  BY <1>1, <1>2, FS_Subset
<1>4. Cardinality(Found(LiveKind(k))) \in Nat
  BY <1>3, FS_CardinalityType
<1> QED  BY <1>1, <1>3, <1>4, MaxLogAssumption DEF TypeOK

(* What a connection inserts is a well-formed row. *)
LEMMA InsertType ==
    ASSUME TypeOK, NEW r \in Requests, NEW k \in Kinds, Writing(r, k), Insert(r)
    PROVE  log' \in Seq(Entry) /\ Len(log') <= MaxLog
<1>1. req[r] \in Call
  BY InFlight DEF Writing, Idle
<1>2. NewEntry(r) \in Entry
  BY <1>1 DEF NewEntry, Entry, Call, Writing
<1> QED  BY <1>2, MaxLogAssumption DEF Insert, TypeOK

LEMMA FinishType ==
    ASSUME TypeOK, NEW r \in Requests, Finish(r)
    PROVE  req' \in [Requests -> {Idle} \cup Call]
BY DEF TypeOK, Finish

LEMMA StatusType ==
    ASSUME TypeOK, NEW s \in Statuses, SetStatus(s) \/ UNCHANGED row
    PROVE  row' \in Row
BY DEF TypeOK, SetStatus, Row

LEMMA TypeInit == Init => TypeOK
<1> SUFFICES ASSUME Init PROVE TypeOK
  OBVIOUS
<1>1. row \in Row
  BY PanelsAssumption DEF Init, Row, Statuses
<1>2. log \in Seq(Entry) /\ Len(log) <= MaxLog
  BY MaxLogAssumption DEF Init
<1>3. req \in [Requests -> {Idle} \cup Call]
  BY DEF Init
<1> QED  BY <1>1, <1>2, <1>3 DEF TypeOK

(* One step of one connection, action by action. *)
LEMMA TypeStep ==
    ASSUME TypeOK, NEW r \in Requests, Step(r)
    PROVE  TypeOK'
<1>1. ASSUME NEW u \in Users, NEW op \in Ops, ReadApproval(r, u, op)  PROVE TypeOK'
  <2>1. [pc |-> IF op \in {"UPDATE", "DELETE"} THEN "write" ELSE "actions",
         op |-> op, user |-> u, row |-> row, seen |-> 0, own |-> 0] \in Call
    BY MaxLogAssumption DEF Call, TypeOK
  <2> QED  BY <1>1, <2>1 DEF ReadApproval, TypeOK
<1>2. CASE ReadActions(r)
  <2>1. req[r] \in Call
    BY <1>2, InFlight DEF ReadActions, Idle
  <2>2. Cardinality(Found(LiveKind("APPROVE"))) \in 0..MaxLog
    BY CountBound
  <2>3. [req[r] EXCEPT !.pc = "write", !.seen = Cardinality(Found(LiveKind("APPROVE")))] \in Call
    BY <2>1, <2>2 DEF Call
  <2> QED  BY <1>2, <2>3 DEF ReadActions, TypeOK
<1>3. CASE ReadApproves(r)
  <2>1. req[r] \in Call
    BY <1>3, InFlight DEF ReadApproves, Idle
  <2>2. Cardinality(Found(LiveKind("APPROVE"))) \in 0..MaxLog
    BY CountBound
  <2>3. [req[r] EXCEPT !.pc = "own", !.seen = Cardinality(Found(LiveKind("APPROVE")))] \in Call
    BY <2>1, <2>2 DEF Call
  <2> QED  BY <1>3, <2>3 DEF ReadApproves, TypeOK
<1>4. CASE ReadOwnAction(r)
  <2>1. req[r] \in Call
    BY <1>4, InFlight DEF ReadOwnAction, Idle
  <2>2. PICK i \in Found(LiveOf(req[r].user)) :
           req' = [req EXCEPT ![r].pc = "write", ![r].own = i]
    BY <1>4 DEF ReadOwnAction
  <2>3. i \in 0..MaxLog
    BY <2>2, MaxLogAssumption DEF Found, LiveOf, Live, TypeOK
  <2>4. [req[r] EXCEPT !.pc = "write", !.own = i] \in Call
    BY <2>1, <2>3 DEF Call
  <2> QED  BY <1>4, <2>2, <2>4 DEF ReadOwnAction, TypeOK
<1>5. CASE Approve(r)
  <2>1. row' \in Row
    BY <1>5, StatusType DEF Approve, Statuses
  <2> QED  BY <1>5, <2>1, InsertType, FinishType DEF Approve, TypeOK, Kinds, Deciding
<1>6. CASE Reject(r)
  <2>1. row' \in Row
    BY <1>6, StatusType DEF Reject, Statuses
  <2> QED  BY <1>6, <2>1, InsertType, FinishType DEF Reject, TypeOK, Kinds, Deciding
<1>7. CASE CancelApproval(r)
  <2>1. row' \in Row
    BY <1>7, StatusType DEF CancelApproval, Statuses
  <2>2. log' \in Seq(Entry) /\ Len(log') = Len(log)
    <3> DEFINE n == req[r].own
    <3>1. log' = [log EXCEPT ![n] = [log[n] EXCEPT !.cancelled = TRUE]]
      BY <1>7 DEF CancelApproval
    <3>2. ASSUME n \in 1..Len(log)
          PROVE  [log[n] EXCEPT !.cancelled = TRUE] \in Entry
      <4>1. log[n] \in Entry
        BY <3>2, ElementOfSeq DEF TypeOK
      <4> QED  BY <4>1 DEF Entry
    <3>3. CASE n \in 1..Len(log)
      BY <3>1, <3>2, <3>3, ExceptSeq DEF TypeOK
    <3>4. CASE n \notin 1..Len(log)
      <4>1. log \in [1..Len(log) -> Entry]
        BY LenProperties DEF TypeOK
      <4>2. log' = log
        BY <3>1, <3>4, <4>1
      <4> QED  BY <4>2 DEF TypeOK
    <3> QED  BY <3>3, <3>4
  <2> QED  BY <1>7, <2>1, <2>2, FinishType DEF CancelApproval, TypeOK
<1>8. CASE Update(r)
  <2>1. row' \in Row
    <3>1. PICK q \in Quorums, a \in Panels : row' = [row EXCEPT !.required = q, !.assigned = a]
      BY <1>8 DEF Update
    <3>2. row \in Row
      BY DEF TypeOK
    <3>3. [row EXCEPT !.required = q, !.assigned = a] \in Row
      <4>1. a \in SUBSET Users
        BY PanelsAssumption
      <4> QED  BY <3>2, <4>1 DEF Row
    <3> QED  BY <3>1, <3>3
  <2> QED  BY <1>8, <2>1, InsertType, FinishType DEF Update, TypeOK, Kinds
<1>9. CASE Delete(r)
  <2>1. row' \in Row
    BY <1>9 DEF Delete, TypeOK, Row
  <2> QED  BY <1>9, <2>1, InsertType, FinishType DEF Delete, TypeOK, Kinds
<1>10. CASE RouteToUsers(r)
  <2>1. req[r].row \in Row
    BY <1>10, InFlight DEF RouteToUsers, Writing, Idle, Call
  <2>2. row' \in Row
    BY <1>10, <2>1, PanelsAssumption DEF RouteToUsers, TypeOK, Row
  <2> QED  BY <1>10, <2>2, InsertType, FinishType DEF RouteToUsers, TypeOK, Kinds, Deciding
<1>11. CASE Abort(r)
  BY <1>11, FinishType DEF Abort, TypeOK
<1> QED
  BY <1>1, <1>2, <1>3, <1>4, <1>5, <1>6, <1>7, <1>8, <1>9, <1>10, <1>11 DEF Step

LEMMA TypeNext == TypeOK /\ [Next]_vars => TypeOK'
<1>1. TypeOK /\ UNCHANGED vars => TypeOK'
  BY DEF vars, TypeOK
<1> QED  BY <1>1, TypeStep DEF Next

(* Every reachable state is well typed: in particular a call in flight holds a
   snapshot of the approval row and counts at most MaxLog approves. *)
THEOREM TypeCorrect == Spec => []TypeOK
BY TypeInit, TypeNext, PTL DEF Spec

-----------------------------------------------------------------------------
(* Overlapping calls: at most one counted decision of a user per connection *)

(* OncePerRequest is not inductive: a call that passed the "already acted"
   check will insert without looking again.  What saves it is that, until that
   call ends, its connection has no uncancelled row of the user, unless the
   approval has been deleted meanwhile. *)
CheckedStillFresh ==
    \A r \in Requests :
        /\ req[r] # Idle
        /\ req[r].pc = "write"
        /\ req[r].op \in Deciding
        => Closed(Len(log)) \/ \A i \in LiveOf(req[r].user) : log[i].by # r

(* Only cancelApproval has a third query. *)
OwnIsCancel ==
    \A r \in Requests : req[r] # Idle /\ req[r].pc = "own" => req[r].op = "CANCEL"

(* The deletion of the approval is in its log. *)
DeletionLogged == row.deleted => Closed(Len(log))

OnceInv == TypeOK /\ OncePerRequest /\ CheckedStillFresh /\ OwnIsCancel /\ DeletionLogged

(* An insertion adds one row at the end and changes no other. *)
LEMMA InsertRows ==
    ASSUME TypeOK, NEW r \in Requests, Insert(r)
    PROVE  /\ DOMAIN log' = DOMAIN log \cup {Len(log) + 1}
           /\ Len(log) + 1 \notin DOMAIN log
           /\ \A i \in DOMAIN log : log'[i] = log[i]
           /\ log'[Len(log) + 1] = NewEntry(r)
BY DEF Insert, TypeOK

(* A cancellation keeps kind, user and by of every row and revives none. *)
LEMMA CancelRows ==
    ASSUME TypeOK, NEW r \in Requests, CancelApproval(r)
    PROVE  /\ DOMAIN log' = DOMAIN log
           /\ \A i \in DOMAIN log :
                 /\ log'[i].kind = log[i].kind
                 /\ log'[i].user = log[i].user
                 /\ log'[i].by = log[i].by
                 /\ log[i].cancelled => log'[i].cancelled
BY ElementOfSeq DEF CancelApproval, TypeOK, Entry

(* The five inserting actions are alike as far as the log and calls go. *)
Inserts(r) == \E k \in Kinds : Writing(r, k) /\ Insert(r) /\ Finish(r)

LEMMA InsertingActions ==
    ASSUME NEW r \in Requests,
           Approve(r) \/ Reject(r) \/ Update(r) \/ Delete(r) \/ RouteToUsers(r)
    PROVE  Inserts(r)
BY DEF Approve, Reject, Update, Delete, RouteToUsers, Inserts, Kinds, Deciding

(* Writing a row or a flag of rows never reopens the log. *)
LEMMA StaysClosed ==
    ASSUME TypeOK, TypeOK', NEW m \in Nat, m <= Len(log), Len(log) <= Len(log'),
           \A i \in DOMAIN log : log'[i].kind = log[i].kind
    PROVE  Closed(m)' <=> Closed(m)
<1>1. \A d \in 1..m : d \in DOMAIN log
  BY DEF TypeOK
<1> QED  BY <1>1 DEF Closed

(* Only delete marks the approval deleted, and nothing unmarks it. *)
LEMMA DeletedBy ==
    ASSUME TypeOK, NEW r \in Requests,
           Approve(r) \/ Reject(r) \/ Update(r) \/ Delete(r) \/ RouteToUsers(r)
               \/ CancelApproval(r)
    PROVE  /\ row'.deleted => row.deleted \/ req[r].op = "DELETE"
           /\ row.deleted => row'.deleted
           /\ req[r].op = "DELETE" => row'.deleted
BY DEF Approve, Reject, Update, Delete, RouteToUsers, CancelApproval, Writing, SetStatus,
       TypeOK, Row

LEMMA OnceInsert ==
    ASSUME OnceInv, TypeOK', NEW r \in Requests, Inserts(r),
           row'.deleted => row.deleted \/ req[r].op = "DELETE"
    PROVE  OncePerRequest' /\ CheckedStillFresh' /\ DeletionLogged'
<1> DEFINE n == Len(log) + 1
<1>1. /\ DOMAIN log' = DOMAIN log \cup {n}
      /\ n \notin DOMAIN log
      /\ \A i \in DOMAIN log : log'[i] = log[i] /\ i < n
      /\ log'[n] = NewEntry(r)
      /\ Len(log') = n
  <2>1. \A i \in DOMAIN log : i < n
    BY DEF OnceInv, TypeOK
  <2>2. Len(log') = n
    BY DEF Inserts, Insert, OnceInv, TypeOK
  <2> QED  BY <2>1, <2>2, InsertRows DEF OnceInv, Inserts
<1>2. /\ log'[n].kind = req[r].op
      /\ log'[n].user = req[r].user
      /\ log'[n].by = r
  BY <1>1 DEF NewEntry
<1>3. /\ req[r].pc = "write"
      /\ req[r] # Idle
      /\ req' = [req EXCEPT ![r] = Idle]
      /\ req \in [Requests -> {Idle} \cup Call]
  BY DEF Inserts, Writing, Finish, Idle, OnceInv, TypeOK
<1>4. /\ Live' \subseteq Live \cup {n}
      /\ Live \subseteq DOMAIN log
      /\ DOMAIN log \subseteq Nat
      /\ n \in Nat /\ n - 1 = Len(log)
  BY <1>1 DEF Live, OnceInv, TypeOK
<1>5. \A m \in Nat : m <= Len(log) => (Closed(m)' <=> Closed(m))
  BY <1>1, <1>4, StaysClosed DEF OnceInv
<1>6. Closed(Len(log)) => Closed(Len(log))'
  <2>1. SUFFICES ASSUME Closed(Len(log)) PROVE Closed(Len(log))'
    OBVIOUS
  <2>2. PICK d \in 1..Len(log) : log[d].kind = "DELETE"
    BY <2>1 DEF Closed
  <2>3. d \in DOMAIN log /\ d \in 1..Len(log')
    BY <1>1, <1>4 DEF OnceInv, TypeOK
  <2> QED  BY <2>2, <2>3, <1>1 DEF Closed
<1>7. OncePerRequest'
  <2> SUFFICES ASSUME NEW i \in Live', NEW j \in Live', i < j,
                      log'[i].user = log'[j].user,
                      log'[i].kind \in Deciding, log'[j].kind \in Deciding
               PROVE  log'[i].by # log'[j].by \/ Closed(j - 1)'
    BY DEF OncePerRequest
  <2>1. i \in Live
    BY <1>1, <1>4
  <2>2. CASE j \in Live
    <3>1. log'[i] = log[i] /\ log'[j] = log[j] /\ i \in DOMAIN log /\ j \in DOMAIN log
      BY <2>1, <2>2, <1>1, <1>4
    <3>2. j - 1 \in Nat /\ j - 1 <= Len(log)
      BY <3>1 DEF OnceInv, TypeOK
    <3> QED  BY <2>1, <2>2, <3>1, <3>2, <1>5 DEF OnceInv, OncePerRequest
  <2>3. CASE j = n
    <3>1. i \in LiveOf(req[r].user) /\ log'[i] = log[i]
      BY <2>1, <2>3, <1>1, <1>2, <1>4 DEF LiveOf
    <3>2. req[r].op \in Deciding
      BY <2>3, <1>2
    <3>3. Closed(Len(log)) \/ log[i].by # r
      BY <3>1, <3>2, <1>3 DEF OnceInv, CheckedStillFresh
    <3>4. Closed(Len(log)) => Closed(j - 1)'
      BY <2>3, <1>4, <1>5
    <3> QED  BY <2>3, <3>1, <3>3, <3>4, <1>2
  <2> QED  BY <2>2, <2>3, <1>4
<1>8. CheckedStillFresh'
  <2> SUFFICES ASSUME NEW s \in Requests, req'[s] # Idle, req'[s].pc = "write",
                      req'[s].op \in Deciding, NEW i \in LiveOf(req[s].user)',
                      ~Closed(Len(log))
               PROVE  log'[i].by # s
    BY <1>6 DEF CheckedStillFresh
  <2>1. s # r /\ req'[s] = req[s]
    BY <1>3
  <2>2. i \in Live' /\ log'[i].user = req[s].user
    BY <2>1 DEF LiveOf
  <2>3. CASE i = n
    BY <2>1, <2>3, <1>2
  <2>4. CASE i \in Live
    <3>1. i \in LiveOf(req[s].user) /\ log'[i] = log[i]
      BY <2>2, <2>4, <1>1, <1>4 DEF LiveOf
    <3> QED  BY <2>1, <3>1 DEF OnceInv, CheckedStillFresh
  <2> QED  BY <2>2, <2>3, <2>4, <1>4
<1>9. DeletionLogged'
  <2>1. CASE row.deleted
    BY <2>1, <1>6 DEF OnceInv, DeletionLogged
  <2>2. CASE req[r].op = "DELETE"
    <3>1. n \in 1..Len(log') /\ log'[n].kind = "DELETE"
      BY <2>2, <1>1, <1>2, <1>4
    <3> QED  BY <3>1 DEF DeletionLogged, Closed
  <2> QED  BY <2>1, <2>2 DEF DeletionLogged
<1> QED  BY <1>7, <1>8, <1>9

LEMMA OnceCancel ==
    ASSUME OnceInv, TypeOK', NEW r \in Requests, CancelApproval(r)
    PROVE  OncePerRequest' /\ CheckedStillFresh' /\ DeletionLogged'
<1>1. /\ DOMAIN log' = DOMAIN log
      /\ Len(log') = Len(log)
      /\ \A i \in DOMAIN log :
            /\ log'[i].kind = log[i].kind
            /\ log'[i].user = log[i].user
            /\ log'[i].by = log[i].by
            /\ log[i].cancelled => log'[i].cancelled
  BY CancelRows DEF OnceInv, TypeOK
<1>2. Live' \subseteq Live /\ Live \subseteq DOMAIN log /\ DOMAIN log = 1..Len(log)
  BY <1>1 DEF Live, OnceInv, TypeOK
<1>3. \A m \in Nat : m <= Len(log) => (Closed(m)' <=> Closed(m))
  <2>1. Len(log) <= Len(log')
    BY <1>1 DEF OnceInv, TypeOK
  <2> QED  BY <2>1, <1>1, StaysClosed DEF OnceInv
<1>4. Closed(Len(log))' <=> Closed(Len(log))
  <2>1. Len(log) \in Nat /\ Len(log) <= Len(log)
    BY DEF OnceInv, TypeOK
  <2>2. Closed(Len(log))' <=> \E d \in 1..Len(log) : log'[d].kind = "DELETE"
    BY <1>1 DEF Closed
  <2> QED  BY <2>1, <2>2, <1>1, <1>2 DEF Closed
<1>5. OncePerRequest'
  <2> SUFFICES ASSUME NEW i \in Live', NEW j \in Live', i < j,
                      log'[i].user = log'[j].user,
                      log'[i].kind \in Deciding, log'[j].kind \in Deciding
               PROVE  log'[i].by # log'[j].by \/ Closed(j - 1)'
    BY DEF OncePerRequest
  <2>1. i \in Live /\ j \in Live /\ i \in DOMAIN log /\ j \in DOMAIN log
    BY <1>2
  <2>2. j - 1 \in Nat /\ j - 1 <= Len(log)
    BY <2>1 DEF OnceInv, TypeOK
  <2>3. Closed(j - 1)' <=> Closed(j - 1)
    BY <2>2, <1>3
  <2> QED  BY <2>1, <2>3, <1>1 DEF OnceInv, OncePerRequest
<1>6. /\ req' = [req EXCEPT ![r] = Idle]
      /\ req \in [Requests -> {Idle} \cup Call]
  BY DEF CancelApproval, Finish, OnceInv, TypeOK
<1>7. CheckedStillFresh'
  <2> SUFFICES ASSUME NEW s \in Requests, req'[s] # Idle, req'[s].pc = "write",
                      req'[s].op \in Deciding, NEW i \in LiveOf(req[s].user)',
                      ~Closed(Len(log))
               PROVE  log'[i].by # s
    BY <1>4 DEF CheckedStillFresh
  <2>1. req'[s] = req[s]
    BY <1>6
  <2>2. i \in LiveOf(req[s].user) /\ i \in DOMAIN log
    BY <2>1, <1>1, <1>2 DEF LiveOf
  <2> QED  BY <2>1, <2>2, <1>1 DEF OnceInv, CheckedStillFresh
<1>8. DeletionLogged'
  <2>1. row'.deleted => row.deleted
    BY DEF CancelApproval, SetStatus, OnceInv, TypeOK, Row
  <2> QED  BY <2>1, <1>4 DEF OnceInv, DeletionLogged
<1> QED  BY <1>5, <1>7, <1>8

(* A query leaves the tables alone; only ReadActions makes a decision ready to be
   written, and it has just seen that the user has no uncancelled row, or that the
   approval is deleted. *)
LEMMA OnceQuery ==
    ASSUME OnceInv, NEW r \in Requests, UNCHANGED <<row, log>>,
           \A s \in Requests \ {r} : req'[s] = req[s],
           \/ req'[r] = Idle
           \/ req'[r].pc # "write"
           \/ req'[r].op \notin Deciding
           \/ Found(LiveOf(req'[r].user)) = {}
    PROVE  OncePerRequest' /\ CheckedStillFresh' /\ DeletionLogged'
<1>1. Live' = Live /\ Closed(Len(log))' = Closed(Len(log))
  BY DEF Live, Closed
<1>2. OncePerRequest'
  <2>1. \A m : Closed(m)' = Closed(m)
    BY DEF Closed
  <2> QED  BY <1>1, <2>1 DEF OnceInv, OncePerRequest
<1>3. CheckedStillFresh'
  <2> SUFFICES ASSUME NEW s \in Requests, req'[s] # Idle, req'[s].pc = "write",
                      req'[s].op \in Deciding, NEW i \in LiveOf(req[s].user)',
                      ~Closed(Len(log))
               PROVE  log'[i].by # s
    BY <1>1 DEF CheckedStillFresh
  <2>1. LiveOf(req[s].user)' = LiveOf(req'[s].user)
    BY DEF Live, LiveOf
  <2>2. s # r
    BY <2>1 DEF Found, OnceInv, DeletionLogged
  <2> QED  BY <2>1, <2>2 DEF OnceInv, CheckedStillFresh
<1>4. DeletionLogged'
  BY <1>1 DEF OnceInv, DeletionLogged
<1> QED  BY <1>2, <1>3, <1>4

LEMMA OnceInit == Init => OnceInv
<1> SUFFICES ASSUME Init PROVE OnceInv
  OBVIOUS
<1>1. Live = {}
  BY DEF Init, Live
<1>2. ~row.deleted
  BY DEF Init
<1> QED
  BY <1>1, <1>2, TypeInit
  DEF Init, OnceInv, OncePerRequest, CheckedStillFresh, OwnIsCancel, DeletionLogged

LEMMA OwnStep ==
    ASSUME TypeOK, OwnIsCancel, NEW r \in Requests, Step(r)
    PROVE  OwnIsCancel'
<1>1. \A s \in Requests \ {r} : req'[s] = req[s]
  BY DEF Step, ReadApproval, ReadActions, ReadApproves, ReadOwnAction, Approve, Reject,
         CancelApproval, Update, Delete, RouteToUsers, Abort, Finish, TypeOK
<1>2. req'[r] = Idle \/ req'[r].pc # "own" \/ req'[r].op = "CANCEL"
  <2>1. ASSUME NEW u \in Users, NEW op \in Ops, ReadApproval(r, u, op)
        PROVE  req'[r].pc # "own"
    BY <2>1 DEF ReadApproval, TypeOK
  <2>2. CASE ReadActions(r) \/ ReadApproves(r) \/ ReadOwnAction(r)
    <3>1. req[r] \in Call
      BY <2>2, InFlight DEF ReadActions, ReadApproves, ReadOwnAction, Idle
    <3> QED  BY <2>2, <3>1 DEF ReadActions, ReadApproves, ReadOwnAction, TypeOK, Call
  <2>3. CASE Approve(r) \/ Reject(r) \/ CancelApproval(r) \/ Update(r) \/ Delete(r)
             \/ RouteToUsers(r) \/ Abort(r)
    BY <2>3 DEF Approve, Reject, CancelApproval, Update, Delete, RouteToUsers, Abort,
                Finish, TypeOK
  <2> QED  BY <2>1, <2>2, <2>3 DEF Step
<1> QED  BY <1>1, <1>2 DEF OwnIsCancel

LEMMA OnceStep ==
    ASSUME OnceInv, NEW r \in Requests, Step(r)
    PROVE  OnceInv'
<1>1. TypeOK' /\ req \in [Requests -> {Idle} \cup Call]
  BY TypeStep DEF OnceInv, TypeOK
<1> SUFFICES OncePerRequest' /\ CheckedStillFresh' /\ DeletionLogged'
  BY <1>1, OwnStep DEF OnceInv
<1>2. ASSUME NEW u \in Users, NEW op \in Ops, ReadApproval(r, u, op)
      PROVE  OncePerRequest' /\ CheckedStillFresh' /\ DeletionLogged'
  <2>1. req'[r].op = op /\ (req'[r].pc = "write" => op \in {"UPDATE", "DELETE"})
    BY <1>1, <1>2 DEF ReadApproval
  <2>2. \A s \in Requests \ {r} : req'[s] = req[s]
    BY <1>1, <1>2 DEF ReadApproval
  <2> QED  BY <2>1, <2>2, <1>2, OnceQuery DEF ReadApproval, Deciding
<1>3. CASE ReadActions(r)
  <2>1. req'[r].user = req[r].user
    BY <1>1, <1>3, InFlight DEF ReadActions, Idle, Call
  <2>2. \A s \in Requests \ {r} : req'[s] = req[s]
    BY <1>1, <1>3 DEF ReadActions
  <2> QED  BY <2>1, <2>2, <1>3, OnceQuery DEF ReadActions
<1>4. CASE ReadApproves(r)
  <2>1. req[r] \in Call
    BY <1>4, InFlight DEF ReadApproves, Idle, OnceInv
  <2>2. req'[r].pc = "own" /\ \A s \in Requests \ {r} : req'[s] = req[s]
    BY <1>1, <1>4, <2>1 DEF ReadApproves, Call
  <2> QED  BY <2>2, <1>4, OnceQuery DEF ReadApproves
<1>5. CASE ReadOwnAction(r)
  <2>1. req[r] \in Call /\ req[r].pc = "own"
    BY <1>5, InFlight DEF ReadOwnAction, Idle, OnceInv
  <2>2. req[r].op = "CANCEL"
    BY <1>5, <2>1 DEF OnceInv, OwnIsCancel, ReadOwnAction, Idle
  <2>3. PICK i : req' = [req EXCEPT ![r].pc = "write", ![r].own = i]
    BY <1>5 DEF ReadOwnAction
  <2>4. req'[r].op = "CANCEL" /\ \A s \in Requests \ {r} : req'[s] = req[s]
    BY <1>1, <2>1, <2>2, <2>3 DEF Call
  <2> QED  BY <2>4, <1>5, OnceQuery DEF ReadOwnAction, Deciding
<1>6. CASE Approve(r) \/ Reject(r) \/ Update(r) \/ Delete(r) \/ RouteToUsers(r)
  BY <1>1, <1>6, InsertingActions, DeletedBy, OnceInsert DEF OnceInv
<1>7. CASE CancelApproval(r)
  BY <1>1, <1>7, OnceCancel
<1>8. CASE Abort(r)
  <2>1. req'[r] = Idle /\ \A s \in Requests \ {r} : req'[s] = req[s]
    BY <1>1, <1>8 DEF Abort, Finish
  <2> QED  BY <2>1, <1>8, OnceQuery DEF Abort
<1> QED
  BY <1>2, <1>3, <1>4, <1>5, <1>6, <1>7, <1>8 DEF Step

LEMMA OnceNext == OnceInv /\ [Next]_vars => OnceInv'
<1>1. OnceInv /\ UNCHANGED vars => OnceInv'
  BY DEF vars, OnceInv, TypeOK, OncePerRequest, CheckedStillFresh, OwnIsCancel,
         DeletionLogged, Closed, Live, LiveOf
<1> QED  BY <1>1, OnceStep DEF Next

(* Duplicated decisions are bounded by concurrency: in every reachable state two
   uncancelled decisions of one user were made by different connections, or the
   approval had been deleted before the second. *)
THEOREM DuplicatesNeedOverlap == Spec => []OncePerRequest
<1>1. OnceInv => OncePerRequest
  BY DEF OnceInv
<1> QED  BY <1>1, OnceInit, OnceNext, PTL DEF Spec

-----------------------------------------------------------------------------
(* After the soft delete *)

(* A DELETE row means the approval is marked deleted, for good; and from that
   row on a connection that inserted one has ended its call and cannot start
   another: no call finds a deleted approval. *)
DeletedInv ==
    /\ \A d \in DOMAIN log : log[d].kind = "DELETE" => row.deleted
    /\ \A d, i \in DOMAIN log :
          log[d].kind = "DELETE" /\ d <= i => req[log[i].by] = Idle

StragglersInv == TypeOK /\ OnlyStragglersAfterDelete /\ DeletedInv

LEMMA StragglersInit == Init => StragglersInv
<1> SUFFICES ASSUME Init PROVE StragglersInv
  OBVIOUS
<1>1. DOMAIN log = {}
  BY DEF Init
<1> QED  BY <1>1, TypeInit DEF StragglersInv, OnlyStragglersAfterDelete, DeletedInv

LEMMA StragglersInsert ==
    ASSUME StragglersInv, NEW r \in Requests, Inserts(r),
           row.deleted => row'.deleted,
           req[r].op = "DELETE" => row'.deleted
    PROVE  OnlyStragglersAfterDelete' /\ DeletedInv'
<1> DEFINE n == Len(log) + 1
<1>1. /\ DOMAIN log' = DOMAIN log \cup {n}
      /\ n \notin DOMAIN log
      /\ \A i \in DOMAIN log : log'[i] = log[i] /\ i < n
      /\ log'[n].kind = req[r].op
      /\ log'[n].by = r
  <2>1. /\ DOMAIN log' = DOMAIN log \cup {n}
        /\ n \notin DOMAIN log
        /\ \A i \in DOMAIN log : log'[i] = log[i]
        /\ log'[n] = NewEntry(r)
    BY InsertRows DEF StragglersInv, Inserts
  <2>2. \A i \in DOMAIN log : i < n
    BY DEF StragglersInv, TypeOK
  <2> QED  BY <2>1, <2>2 DEF NewEntry
<1>2. /\ req[r] # Idle
      /\ req'[r] = Idle
      /\ \A s \in Requests \ {r} : req'[s] = req[s]
  BY DEF Inserts, Writing, Finish, Idle, StragglersInv, TypeOK
<1>3. \A i \in DOMAIN log : log[i].by \in Requests
  <2>1. log \in [DOMAIN log -> Entry]
    BY DEF StragglersInv, TypeOK
  <2> QED  BY <2>1 DEF Entry
<1>4. \A d, i \in DOMAIN log : log[d].kind = "DELETE" /\ d <= i => log[i].by # r
  BY <1>2 DEF StragglersInv, DeletedInv
<1>5. \A i \in DOMAIN log : ~(n <= i)
  BY <1>1 DEF StragglersInv, TypeOK
<1>6. OnlyStragglersAfterDelete'
  BY <1>1, <1>4, <1>5 DEF StragglersInv, OnlyStragglersAfterDelete
<1>7. DeletedInv'
  BY <1>1, <1>2, <1>3, <1>5 DEF StragglersInv, DeletedInv
<1> QED  BY <1>6, <1>7

LEMMA StragglersCancel ==
    ASSUME StragglersInv, NEW r \in Requests, CancelApproval(r)
    PROVE  OnlyStragglersAfterDelete' /\ DeletedInv'
<1>1. /\ DOMAIN log' = DOMAIN log
      /\ \A i \in DOMAIN log : log'[i].kind = log[i].kind /\ log'[i].by = log[i].by
  BY CancelRows DEF StragglersInv
<1>2. row'.deleted = row.deleted
  BY DEF CancelApproval, SetStatus, StragglersInv, TypeOK, Row
<1>3. \A s \in Requests : req[s] = Idle => req'[s] = Idle
  BY DEF CancelApproval, Finish, StragglersInv, TypeOK
<1>4. \A i \in DOMAIN log : log[i].by \in Requests
  <2>1. log \in [DOMAIN log -> Entry]
    BY DEF StragglersInv, TypeOK
  <2> QED  BY <2>1 DEF Entry
<1> QED
  BY <1>1, <1>2, <1>3, <1>4 DEF StragglersInv, OnlyStragglersAfterDelete, DeletedInv

(* A query or a rollback: a connection leaves Idle only by finding the approval,
   and then no row is a DELETE. *)
LEMMA StragglersQuery ==
    ASSUME StragglersInv, NEW r \in Requests, UNCHANGED <<row, log>>,
           \A s \in Requests \ {r} : req'[s] = req[s],
           req'[r] = Idle \/ req[r] # Idle \/ ~row.deleted
    PROVE  OnlyStragglersAfterDelete' /\ DeletedInv'
<1>1. \A i \in DOMAIN log : log[i].by \in Requests
  <2>1. log \in [DOMAIN log -> Entry]
    BY DEF StragglersInv, TypeOK
  <2> QED  BY <2>1 DEF Entry
<1> QED
  BY <1>1 DEF StragglersInv, OnlyStragglersAfterDelete, DeletedInv

LEMMA StragglersStep ==
    ASSUME StragglersInv, NEW r \in Requests, Step(r)
    PROVE  StragglersInv'
<1>1. /\ row \in Row
      /\ req \in [Requests -> {Idle} \cup Call]
      /\ TypeOK'
  BY TypeStep DEF StragglersInv, TypeOK
<1> SUFFICES OnlyStragglersAfterDelete' /\ DeletedInv'
  BY <1>1 DEF StragglersInv
<1>2. CASE \/ \E u \in Users, op \in Ops : ReadApproval(r, u, op)
           \/ ReadActions(r) \/ ReadApproves(r) \/ ReadOwnAction(r) \/ Abort(r)
  <2>1. UNCHANGED <<row, log>> /\ \A s \in Requests \ {r} : req'[s] = req[s]
    BY <1>1, <1>2 DEF ReadApproval, ReadActions, ReadApproves, ReadOwnAction, Abort, Finish
  <2>2. req'[r] = Idle \/ req[r] # Idle \/ ~row.deleted
    BY <1>1, <1>2 DEF ReadApproval, ReadActions, ReadApproves, ReadOwnAction, Abort, Idle
  <2> QED  BY <2>1, <2>2, StragglersQuery
<1>3. CASE Approve(r) \/ Reject(r) \/ Update(r) \/ RouteToUsers(r)
  <2>1. row'.deleted = row.deleted
    BY <1>1, <1>3 DEF Approve, Reject, Update, RouteToUsers, SetStatus, Row
  <2>2. req[r].op # "DELETE"
    BY <1>3 DEF Approve, Reject, Update, RouteToUsers, Writing
  <2> QED  BY <1>3, <2>1, <2>2, InsertingActions, StragglersInsert
<1>4. CASE Delete(r)
  <2>1. row'.deleted
    BY <1>1, <1>4 DEF Delete, Row
  <2> QED  BY <1>4, <2>1, InsertingActions, StragglersInsert
<1>5. CASE CancelApproval(r)
  BY <1>5, StragglersCancel
<1> QED
  BY <1>2, <1>3, <1>4, <1>5 DEF Step

LEMMA StragglersNext == StragglersInv /\ [Next]_vars => StragglersInv'
<1>1. StragglersInv /\ UNCHANGED vars => StragglersInv'
  BY DEF vars, StragglersInv, TypeOK, OnlyStragglersAfterDelete, DeletedInv
<1> QED  BY <1>1, StragglersStep DEF Next

(* A soft-deleted approval goes quiet: each connection writes at most one row
   from the DELETE on, the row of a call that had read the approval before. *)
THEOREM DeletedGoesQuiet == Spec => []OnlyStragglersAfterDelete
<1>1. StragglersInv => OnlyStragglersAfterDelete
  BY DEF StragglersInv
<1> QED  BY <1>1, StragglersInit, StragglersNext, PTL DEF Spec

-----------------------------------------------------------------------------
(* With a single connection, so with no two calls overlapping, the guard keeps
   its word: a user has at most one decision that counts. *)
COROLLARY SerialCallsActOnce ==
    ASSUME \A r, s \in Requests : r = s
    PROVE  Spec => []ActsOnce
<1>1. TypeOK /\ OncePerRequest /\ OnlyStragglersAfterDelete => ActsOnce
  <2> SUFFICES ASSUME TypeOK, OncePerRequest, OnlyStragglersAfterDelete,
                      NEW i \in Live, NEW j \in Live, i < j,
                      {log[i].kind, log[j].kind} \subseteq Deciding,
                      log[i].user = log[j].user
               PROVE  FALSE
    <3>1. Live \subseteq Nat
      BY DEF Live, TypeOK
    <3> QED  BY <3>1 DEF ActsOnce
  <2>1. log \in [DOMAIN log -> Entry]
    BY DEF TypeOK
  <2>2. \A k \in DOMAIN log : log[k] \in Entry
    BY <2>1
  <2>3. \A k, l \in DOMAIN log : log[k].by = log[l].by
    BY <2>2 DEF Entry
  <2>4. i \in DOMAIN log /\ j \in DOMAIN log
    BY DEF Live
  <2>5. Closed(j - 1)
    BY <2>3, <2>4 DEF OncePerRequest
  <2>6. PICK d \in 1..(j - 1) : log[d].kind = "DELETE"
    BY <2>5 DEF Closed
  <2>7. d \in DOMAIN log /\ d <= d /\ d < j
    BY <2>4, <2>6 DEF TypeOK
  <2> QED  BY <2>3, <2>4, <2>6, <2>7 DEF OnlyStragglersAfterDelete
<1> QED  BY <1>1, TypeCorrect, DuplicatesNeedOverlap, DeletedGoesQuiet, PTL
-----------------------------------------------------------------------------
(* The audit trail *)

(* A cancellation writes to the row its third query found: that row is in the
   log for good, and it is a row of the user who cancels.  (Another call may
   have cancelled it meanwhile.) *)
CancelsOwn ==
    \A r \in Requests :
        /\ req[r] # Idle
        /\ req[r].pc = "write"
        /\ req[r].op = "CANCEL"
        => req[r].own \in DOMAIN log /\ log[req[r].own].user = req[r].user

AuditInv == TypeOK /\ OwnIsCancel /\ CancelsOwn

(* The log keeps its rows, and every row its user. *)
LEMMA AuditKeeps ==
    ASSUME AuditInv, NEW r \in Requests,
           \A s \in Requests \ {r} : req'[s] = req[s],
           \A i \in DOMAIN log : i \in DOMAIN log' /\ log'[i].user = log[i].user,
           \/ req'[r] = Idle
           \/ req'[r].pc # "write"
           \/ req'[r].op # "CANCEL"
           \/ req'[r].own \in DOMAIN log /\ log[req'[r].own].user = req'[r].user
    PROVE  CancelsOwn'
BY DEF AuditInv, CancelsOwn

LEMMA AuditInvStep ==
    ASSUME AuditInv, NEW r \in Requests, Step(r)
    PROVE  AuditInv'
<1>1. TypeOK' /\ OwnIsCancel' /\ req \in [Requests -> {Idle} \cup Call]
  BY TypeStep, OwnStep DEF AuditInv, TypeOK
<1> SUFFICES CancelsOwn'
  BY <1>1 DEF AuditInv
<1>2. \A s \in Requests \ {r} : req'[s] = req[s]
  BY <1>1 DEF Step, ReadApproval, ReadActions, ReadApproves, ReadOwnAction, Approve, Reject,
         CancelApproval, Update, Delete, RouteToUsers, Abort, Finish
<1>3. ASSUME NEW u \in Users, NEW op \in Ops, ReadApproval(r, u, op)
      PROVE  CancelsOwn'
  <2>1. req'[r].pc # "write" \/ req'[r].op # "CANCEL"
    BY <1>1, <1>3 DEF ReadApproval
  <2> QED  BY <1>2, <1>3, <2>1, AuditKeeps DEF ReadApproval
<1>4. CASE ReadActions(r)
  <2>1. req'[r].op # "CANCEL"
    BY <1>1, <1>4, InFlight DEF AuditInv, ReadActions, Idle, Call, Deciding
  <2> QED  BY <1>2, <1>4, <2>1, AuditKeeps DEF ReadActions
<1>5. CASE ReadApproves(r)
  <2>1. req'[r].pc = "own"
    BY <1>1, <1>5, InFlight DEF AuditInv, ReadApproves, Idle, Call
  <2> QED  BY <1>2, <1>5, <2>1, AuditKeeps DEF ReadApproves
<1>6. CASE ReadOwnAction(r)
  <2>1. req[r] \in Call
    BY <1>6, InFlight DEF AuditInv, ReadOwnAction, Idle
  <2>2. PICK i \in Found(LiveOf(req[r].user)) :
           req' = [req EXCEPT ![r].pc = "write", ![r].own = i]
    BY <1>6 DEF ReadOwnAction
  <2>3. req'[r].own = i /\ req'[r].user = req[r].user
    BY <1>1, <2>1, <2>2 DEF Call
  <2>4. i \in DOMAIN log /\ log[i].user = req[r].user
    BY <2>2 DEF Found, LiveOf, Live
  <2> QED  BY <1>2, <1>6, <2>3, <2>4, AuditKeeps DEF ReadOwnAction
<1>7. CASE Approve(r) \/ Reject(r) \/ Update(r) \/ Delete(r) \/ RouteToUsers(r)
  <2>1. Inserts(r)
    BY <1>7, InsertingActions
  <2>2. req'[r] = Idle
    BY <2>1, <1>1 DEF Inserts, Finish
  <2>3. \A i \in DOMAIN log : i \in DOMAIN log' /\ log'[i] = log[i]
    BY <2>1, InsertRows DEF AuditInv, Inserts
  <2> QED  BY <1>2, <2>2, <2>3, AuditKeeps
<1>8. CASE CancelApproval(r)
  <2>1. req'[r] = Idle
    BY <1>1, <1>8 DEF CancelApproval, Finish
  <2>2. \A i \in DOMAIN log : i \in DOMAIN log' /\ log'[i].user = log[i].user
    BY <1>8, CancelRows DEF AuditInv
  <2> QED  BY <1>2, <2>1, <2>2, AuditKeeps
<1>9. CASE Abort(r)
  <2>1. req'[r] = Idle
    BY <1>1, <1>9 DEF Abort, Finish
  <2> QED  BY <1>2, <1>9, <2>1, AuditKeeps DEF Abort
<1> QED
  BY <1>3, <1>4, <1>5, <1>6, <1>7, <1>8, <1>9 DEF Step

LEMMA AuditInit == Init => AuditInv
BY TypeInit DEF Init, AuditInv, OwnIsCancel, CancelsOwn

LEMMA AuditNext == AuditInv /\ [Next]_vars => AuditInv'
<1>1. AuditInv /\ UNCHANGED vars => AuditInv'
  BY DEF vars, AuditInv, TypeOK, OwnIsCancel, CancelsOwn
<1> QED  BY <1>1, AuditInvStep DEF Next

(* A step that leaves every row as it is keeps the trail. *)
LEMMA AuditKept ==
    ASSUME Len(log') >= Len(log), \A i \in DOMAIN log : log'[i] = log[i]
    PROVE  AuditStep
<1>1. {i \in DOMAIN log : log'[i] # log[i]} = {}
  OBVIOUS
<1>2. Cardinality({i \in DOMAIN log : log'[i] # log[i]}) <= 1
  BY <1>1, FS_EmptySet
<1> QED  BY <1>2 DEF AuditStep

LEMMA AuditCancel ==
    ASSUME AuditInv, NEW r \in Requests, CancelApproval(r)
    PROVE  AuditStep
<1> DEFINE n == req[r].own
<1>1. /\ req[r] # Idle /\ req[r].op = "CANCEL"
      /\ n \in DOMAIN log /\ log[n].user = req[r].user
  BY DEF CancelApproval, Writing, Idle, AuditInv, CancelsOwn
<1>2. log \in Seq(Entry) /\ log[n] \in Entry
  BY <1>1, ElementOfSeq DEF AuditInv, TypeOK
<1>3. /\ DOMAIN log' = DOMAIN log
      /\ \A i \in DOMAIN log \ {n} : log'[i] = log[i]
      /\ log'[n] = [log[n] EXCEPT !.cancelled = TRUE]
  BY <1>1, <1>2 DEF CancelApproval
<1>4. Len(log') >= Len(log)
  BY <1>2, <1>3, CancelRows DEF CancelApproval, AuditInv
<1>5. log[n].cancelled => log'[n] = log[n]
  BY <1>2, <1>3 DEF Entry
<1>6. Cardinality({i \in DOMAIN log : log'[i] # log[i]}) <= 1
  <2>1. {i \in DOMAIN log : log'[i] # log[i]} \subseteq {n}
    BY <1>3
  <2>2. IsFiniteSet({n}) /\ Cardinality({n}) = 1
    BY FS_Singleton
  <2> QED  BY <2>1, <2>2, FS_Subset
<1> QED  BY <1>1, <1>3, <1>4, <1>5, <1>6 DEF AuditStep

LEMMA AuditEachStep == AuditInv /\ [Next]_vars => [AuditStep]_vars
<1> SUFFICES ASSUME AuditInv, NEW r \in Requests, Step(r)  PROVE AuditStep
  BY DEF Next
<1>0. Len(log) \in Nat
  BY DEF AuditInv, TypeOK
<1>1. CASE \/ \E u \in Users, op \in Ops : ReadApproval(r, u, op)
           \/ ReadActions(r) \/ ReadApproves(r) \/ ReadOwnAction(r) \/ Abort(r)
  BY <1>0, <1>1, AuditKept DEF ReadApproval, ReadActions, ReadApproves, ReadOwnAction, Abort
<1>2. CASE Approve(r) \/ Reject(r) \/ Update(r) \/ Delete(r) \/ RouteToUsers(r)
  <2>1. Inserts(r)
    BY <1>2, InsertingActions
  <2>2. Len(log') = Len(log) + 1
    BY <2>1 DEF Inserts, Insert, AuditInv, TypeOK
  <2>3. \A i \in DOMAIN log : log'[i] = log[i]
    BY <2>1, InsertRows DEF AuditInv, Inserts
  <2> QED  BY <1>0, <2>2, <2>3, AuditKept
<1>3. CASE CancelApproval(r)
  BY <1>3, AuditCancel
<1> QED  BY <1>1, <1>2, <1>3 DEF Step

(* The log of an approval is an audit trail, however calls overlap: rows are
   only appended, and a step changes at most the flag of one row, from counted
   to cancelled, for a call of that row's user that cancels. *)
THEOREM LogOnlyGrows == Spec => AuditTrail
BY AuditInit, AuditNext, AuditEachStep, PTL DEF Spec, AuditTrail
-----------------------------------------------------------------------------
(* Calls one by one: the service is the abstract desk *)

OneConnection == \A r, s \in Requests : r = s

(* When no other call runs, what a call read is what is there when it writes:
   the row, the number of counted approves, that the user has not acted or which
   action of the user is to be cancelled. *)
ReadsHold ==
    \A r \in Requests :
        req[r] # Idle =>
            /\ req[r].row = row
            /\ ~row.deleted
            /\ req[r].pc = "own" => req[r].op = "CANCEL"
            /\ req[r].op = "CANCEL" => req[r].user \in row.assigned
            /\ \/ req[r].pc = "own"
               \/ req[r].pc = "write" /\ req[r].op \in Deciding \cup {"CANCEL"}
               => req[r].seen = Cardinality(LiveKind("APPROVE"))
            /\ req[r].pc = "write" /\ req[r].op \in Deciding =>
                  /\ LiveOf(req[r].user) = {}
                  /\ req[r].op # "REDIRECT" => req[r].user \in row.assigned
            /\ req[r].pc = "write" /\ req[r].op = "CANCEL" => req[r].own \in LiveOf(req[r].user)

SerialInv == TypeOK /\ ReadsHold /\ RejectedIsBacked

LEMMA SerialInit == Init => SerialInv
BY TypeInit DEF Init, SerialInv, ReadsHold, RejectedIsBacked

(* A query looks at a row and a log that stay as they are. *)
LEMMA SerialQuery ==
    ASSUME OneConnection, SerialInv, NEW r \in Requests,
           \/ \E u \in Users, op \in Ops : ReadApproval(r, u, op)
           \/ ReadActions(r) \/ ReadApproves(r) \/ ReadOwnAction(r) \/ Abort(r)
    PROVE  ReadsHold' /\ RejectedIsBacked'
<1>1. UNCHANGED <<row, log>> /\ req \in [Requests -> {Idle} \cup Call]
  BY DEF ReadApproval, ReadActions, ReadApproves, ReadOwnAction, Abort, SerialInv, TypeOK
<1>2. RejectedIsBacked'
  BY <1>1 DEF SerialInv, RejectedIsBacked, LiveKind, Live
<1>3. \A k : LiveKind(k)' = LiveKind(k)
  BY <1>1 DEF LiveKind, Live
<1>4. \A u : LiveOf(u)' = {i \in Live : log[i].user = u} /\ LiveOf(u) = {i \in Live : log[i].user = u}
  BY <1>1 DEF LiveOf, Live
<1> DEFINE c == req'[r]
           Good(d) == d # Idle =>
            /\ d.row = row
            /\ ~row.deleted
            /\ d.pc = "own" => d.op = "CANCEL"
            /\ d.op = "CANCEL" => d.user \in row.assigned
            /\ \/ d.pc = "own"
               \/ d.pc = "write" /\ d.op \in Deciding \cup {"CANCEL"}
               => d.seen = Cardinality(LiveKind("APPROVE"))
            /\ d.pc = "write" /\ d.op \in Deciding =>
                  /\ LiveOf(d.user) = {}
                  /\ d.op # "REDIRECT" => d.user \in row.assigned
            /\ d.pc = "write" /\ d.op = "CANCEL" => d.own \in LiveOf(d.user)
<1>5. ASSUME Good(c)  PROVE ReadsHold'
  <2>1. \A s \in Requests : req'[s] = c
    BY DEF OneConnection
  <2>2. LiveKind("APPROVE")' = LiveKind("APPROVE")
    BY <1>3
  <2>3. \A s \in Requests : LiveOf(req[s].user)' = LiveOf(c.user)
    BY <1>1, <2>1 DEF LiveOf, Live
  <2> QED  BY <1>1, <1>5, <2>1, <2>2, <2>3 DEF ReadsHold
<1>6. Good(c)
  <2>1. ASSUME NEW u \in Users, NEW op \in Ops, ReadApproval(r, u, op)  PROVE Good(c)
    <3>1. c = [pc |-> IF op \in {"UPDATE", "DELETE"} THEN "write" ELSE "actions",
               op |-> op, user |-> u, row |-> row, seen |-> 0, own |-> 0]
      BY <1>1, <2>1 DEF ReadApproval
    <3>2. /\ c.row = row /\ c.op = op /\ c.user = u
          /\ c.pc = IF op \in {"UPDATE", "DELETE"} THEN "write" ELSE "actions"
      BY <3>1
    <3> HIDE DEF c
    <3>3. ~row.deleted /\ (op = "CANCEL" => u \in row.assigned)
      BY <2>1 DEF ReadApproval
    <3>4. c.pc # "own" /\ (c.pc = "write" => c.op \notin Deciding \cup {"CANCEL"})
      BY <3>2 DEF Deciding
    <3> QED  BY <3>2, <3>3, <3>4
  <2>2. CASE ReadActions(r)
    <3>1. req[r] # Idle /\ req[r] \in Call
      BY <2>2, InFlight DEF ReadActions, Idle, SerialInv
    <3>2. /\ c.pc = "write" /\ c.op = req[r].op /\ c.user = req[r].user /\ c.row = req[r].row
          /\ c.seen = Cardinality(Found(LiveKind("APPROVE")))
      BY <1>1, <2>2, <3>1 DEF ReadActions, Call
    <3>3. /\ req[r].row = row /\ ~row.deleted
          /\ req[r].op \in Deciding
          /\ Found(LiveOf(req[r].user)) = {}
          /\ req[r].op # "REDIRECT" => req[r].user \in req[r].row.assigned
      BY <2>2, <3>1 DEF ReadActions, SerialInv, ReadsHold
    <3> HIDE DEF c
    <3>4. c.op # "CANCEL" /\ LiveOf(c.user) = {} /\ c.seen = Cardinality(LiveKind("APPROVE"))
      BY <3>2, <3>3 DEF Deciding, Found
    <3> QED  BY <3>2, <3>3, <3>4
  <2>3. CASE ReadApproves(r)
    <3>1. req[r] # Idle /\ req[r] \in Call
      BY <2>3, InFlight DEF ReadApproves, Idle, SerialInv
    <3>2. /\ c.pc = "own" /\ c.op = "CANCEL" /\ c.user = req[r].user /\ c.row = req[r].row
          /\ c.seen = Cardinality(Found(LiveKind("APPROVE")))
      BY <1>1, <2>3, <3>1 DEF ReadApproves, Call
    <3>3. req[r].row = row /\ ~row.deleted /\ req[r].user \in row.assigned
      BY <2>3, <3>1 DEF ReadApproves, SerialInv, ReadsHold
    <3> HIDE DEF c
    <3> QED  BY <3>2, <3>3 DEF Found
  <2>4. CASE ReadOwnAction(r)
    <3>1. req[r] # Idle /\ req[r] \in Call
      BY <2>4, InFlight DEF ReadOwnAction, Idle, SerialInv
    <3>2. PICK i \in Found(LiveOf(req[r].user)) :
             req' = [req EXCEPT ![r].pc = "write", ![r].own = i]
      BY <2>4 DEF ReadOwnAction
    <3>3. /\ c.pc = "write" /\ c.op = req[r].op /\ c.user = req[r].user /\ c.row = req[r].row
          /\ c.seen = req[r].seen /\ c.own = i
      BY <1>1, <3>1, <3>2 DEF Call
    <3>4. /\ req[r].row = row /\ ~row.deleted /\ req[r].op = "CANCEL"
          /\ req[r].user \in row.assigned
          /\ req[r].seen = Cardinality(LiveKind("APPROVE"))
      BY <2>4, <3>1 DEF ReadOwnAction, SerialInv, ReadsHold
    <3> HIDE DEF c
    <3>5. c.own \in LiveOf(c.user) /\ c.op \notin Deciding
      BY <3>2, <3>3, <3>4 DEF Found, Deciding
    <3> QED  BY <3>3, <3>4, <3>5
  <2>5. CASE Abort(r)
    BY <1>1, <2>5 DEF Abort, Finish
  <2> QED  BY <2>1, <2>2, <2>3, <2>4, <2>5
<1> QED  BY <1>2, <1>5, <1>6

(* A write ends the only call there is.  A status REJECTED is written with the
   rejection, and a cancellation reopens what it finds rejected. *)
LEMMA SerialWrite ==
    ASSUME OneConnection, SerialInv, NEW r \in Requests,
           \/ Approve(r) \/ Reject(r) \/ CancelApproval(r) \/ Update(r) \/ Delete(r)
           \/ RouteToUsers(r)
    PROVE  ReadsHold' /\ RejectedIsBacked'
<1>1. /\ row \in Row /\ req \in [Requests -> {Idle} \cup Call] /\ TypeOK
      /\ req[r] # Idle /\ req[r].row = row
  <2>1. TypeOK /\ row \in Row /\ req \in [Requests -> {Idle} \cup Call]
    BY DEF SerialInv, TypeOK
  <2>2. \E k : Writing(r, k)
    BY DEF Approve, Reject, CancelApproval, Update, Delete, RouteToUsers
  <2>3. req[r] # Idle
    BY <2>2 DEF Writing, Idle
  <2> QED  BY <2>1, <2>3 DEF SerialInv, ReadsHold
<1>2. ReadsHold'
  <2>1. req'[r] = Idle
    BY <1>1 DEF Approve, Reject, CancelApproval, Update, Delete, RouteToUsers, Finish
  <2> QED  BY <2>1 DEF OneConnection, ReadsHold
<1>3. CASE Approve(r) \/ Reject(r) \/ Update(r) \/ Delete(r) \/ RouteToUsers(r)
  <2> SUFFICES ASSUME row'.status = "REJECTED"  PROVE LiveKind("REJECT")' # {}
    BY <1>2 DEF RejectedIsBacked
  <2>1. /\ DOMAIN log' = DOMAIN log \cup {Len(log) + 1}
        /\ \A i \in DOMAIN log : log'[i] = log[i]
        /\ log'[Len(log) + 1] = NewEntry(r)
    BY <1>1, <1>3, InsertingActions, InsertRows DEF Inserts
  <2>2. CASE Reject(r)
    <3>1. NewEntry(r).kind = "REJECT" /\ ~NewEntry(r).cancelled
      BY <2>2 DEF Reject, Writing, NewEntry
    <3>2. Len(log) + 1 \in LiveKind("REJECT")'
      BY <2>1, <3>1 DEF LiveKind, Live
    <3> QED  BY <3>2
  <2>3. CASE Approve(r) \/ Update(r) \/ Delete(r) \/ RouteToUsers(r)
    <3>1. row.status = "REJECTED"
      BY <1>1, <2>3 DEF Approve, SetStatus, Update, Delete, RouteToUsers, Row
    <3>2. PICK i : i \in LiveKind("REJECT")
      BY <3>1 DEF SerialInv, RejectedIsBacked
    <3>3. i \in LiveKind("REJECT")'
      BY <2>1, <3>2 DEF LiveKind, Live
    <3> QED  BY <3>3
  <2> QED  BY <1>3, <2>2, <2>3
<1>4. CASE CancelApproval(r)
  <2>1. row'.status # "REJECTED"
    BY <1>1, <1>4 DEF CancelApproval, Reopens, SetStatus, Row
  <2> QED  BY <1>2, <2>1 DEF RejectedIsBacked
<1> QED  BY <1>3, <1>4

LEMMA SerialNext == OneConnection /\ SerialInv /\ [Next]_vars => SerialInv'
<1> SUFFICES ASSUME OneConnection, SerialInv, [Next]_vars  PROVE SerialInv'
  OBVIOUS
<1>1. CASE UNCHANGED vars
  BY <1>1 DEF vars, SerialInv, TypeOK, ReadsHold, RejectedIsBacked, LiveKind, LiveOf, Live
<1>2. ASSUME NEW r \in Requests, Step(r)  PROVE SerialInv'
  BY <1>2, TypeStep, SerialQuery, SerialWrite DEF SerialInv, Step
<1> QED  BY <1>1, <1>2 DEF Next

(* Calls one by one: an approval that shows as rejected has a rejection that
   counts, whatever was approved, cancelled, amended or redirected before. *)
THEOREM RejectedHasReject ==
    ASSUME OneConnection
    PROVE  Spec => []RejectedIsBacked
<1>1. SerialInv => RejectedIsBacked
  BY DEF SerialInv
<1>2. SerialInv /\ [Next]_vars => SerialInv'
  BY SerialNext
<1> QED  BY <1>1, <1>2, SerialInit, PTL DEF Spec
(* The desk's table is the log without the column the table has not. *)
LEMMA TableSeq ==
    ASSUME TypeOK
    PROVE  /\ Table \in Seq([kind : Kinds, user : Users, cancelled : BOOLEAN])
           /\ Len(Table) = Len(log)
           /\ DOMAIN Table = DOMAIN log
           /\ \A i \in DOMAIN log :
                 Table[i] = [kind |-> log[i].kind, user |-> log[i].user,
                             cancelled |-> log[i].cancelled]
<1> DEFINE T == [kind : Kinds, user : Users, cancelled : BOOLEAN]
<1>1. log \in [1..Len(log) -> Entry] /\ Len(log) \in Nat /\ DOMAIN log = 1..Len(log)
  BY LenProperties DEF TypeOK
<1>2. /\ DOMAIN Table = DOMAIN log
      /\ \A i \in DOMAIN log :
            Table[i] = [kind |-> log[i].kind, user |-> log[i].user,
                        cancelled |-> log[i].cancelled]
  BY DEF Table
<1>3. \A i \in 1..Len(log) : [kind |-> log[i].kind, user |-> log[i].user,
                               cancelled |-> log[i].cancelled] \in T
  BY <1>1 DEF Entry
<1>4. Table \in [1..Len(log) -> T]
  BY <1>1, <1>3 DEF Table
<1> HIDE DEF T
<1>5. Table \in Seq(T)
  BY <1>1, <1>4, SeqDef
<1>6. Len(Table) = Len(log)
  BY <1>1, <1>2, <1>5, LenProperties
<1> QED  BY <1>2, <1>5, <1>6 DEF T

(* The desk counts as the service does. *)
LEMMA DeskCounts ==
    ASSUME NEW S
    PROVE  Desk!Cardinality(S) = Cardinality(S)
BY DEF Desk!Cardinality, Cardinality

LEMMA DeskSees ==
    ASSUME TypeOK
    PROVE  /\ Desk!Live = Live
           /\ Desk!Approves = Cardinality(LiveKind("APPROVE"))
           /\ \A u : Desk!Acted(u) <=> LiveOf(u) # {}
<1>1. Desk!Live = Live
  BY TableSeq DEF Desk!Live, Live
<1>2. {i \in Desk!Live : Table[i].kind = "APPROVE"} = LiveKind("APPROVE")
  BY <1>1, TableSeq DEF LiveKind, Live
<1>3. \A u : Desk!Acted(u) <=> LiveOf(u) # {}
  BY <1>1, TableSeq DEF Desk!Acted, LiveOf, Live
<1>4. Desk!Approves = Cardinality({i \in Desk!Live : Table[i].kind = "APPROVE"})
  BY DeskCounts DEF Desk!Approves
<1> QED  BY <1>1, <1>2, <1>3, <1>4

(* An inserting call records at the desk. *)
LEMMA DeskRecords ==
    ASSUME TypeOK, TypeOK', NEW r \in Requests, Insert(r)
    PROVE  Desk!Record(req[r].op, req[r].user)
<1> DEFINE e == [kind |-> req[r].op, user |-> req[r].user, cancelled |-> FALSE]
           n == Len(log) + 1
<1>1. /\ DOMAIN log' = DOMAIN log \cup {n}
      /\ n \notin DOMAIN log
      /\ \A i \in DOMAIN log : log'[i] = log[i]
      /\ log'[n] = NewEntry(r)
  BY InsertRows
<1>2. Table' = [i \in DOMAIN log' |-> [kind |-> log'[i].kind, user |-> log'[i].user,
                                       cancelled |-> log'[i].cancelled]]
  BY DEF Table
<1>3. Append(Table, e) = [i \in 1..(Len(log) + 1) |-> IF i = n THEN e ELSE Table[i]]
  <2> DEFINE T == [kind : Kinds, user : Users, cancelled : BOOLEAN]
             A == Append(Table, e)
  <2>1. req[r].op \in Kinds /\ req[r].user \in Users
    <3>1. log' \in [DOMAIN log' -> Entry]
      BY DEF TypeOK
    <3>2. NewEntry(r) \in Entry
      BY <1>1, <3>1
    <3> QED  BY <3>2 DEF NewEntry, Entry
  <2>2. e \in T /\ Table \in Seq(T) /\ Len(Table) = Len(log)
    BY <2>1, TableSeq
  <2> HIDE DEF T, e
  <2>3. A \in Seq(T) /\ Len(A) = n /\ A[n] = e /\ \A i \in 1..Len(log) : A[i] = Table[i]
    BY <2>2, AppendProperties
  <2>4. A = [i \in 1..Len(A) |-> A[i]] /\ Len(log) \in Nat
    BY <2>2, <2>3, LenProperties
  <2> HIDE DEF A
  <2>5. \A i \in 1..(Len(log) + 1) : A[i] = IF i = n THEN e ELSE Table[i]
    BY <2>3, <2>4
  <2>6. A = [i \in 1..(Len(log) + 1) |-> IF i = n THEN e ELSE Table[i]]
    BY <2>3, <2>4, <2>5
  <2> QED  BY <2>6 DEF A
<1>4. DOMAIN log' = 1..(Len(log) + 1) /\ DOMAIN log = 1..Len(log) /\ Len(log) \in Nat
  BY <1>1 DEF TypeOK
<1>5. \A i \in DOMAIN log' :
         [kind |-> log'[i].kind, user |-> log'[i].user, cancelled |-> log'[i].cancelled]
           = IF i = n THEN e ELSE Table[i]
  <2>1. /\ log'[n].kind = req[r].op /\ log'[n].user = req[r].user
        /\ log'[n].cancelled = FALSE
    BY <1>1 DEF NewEntry
  <2>2. \A i \in DOMAIN log : Table[i] = [kind |-> log'[i].kind, user |-> log'[i].user,
                                          cancelled |-> log'[i].cancelled]
    BY <1>1, TableSeq
  <2> QED  BY <1>1, <2>1, <2>2
<1>6. Table' = Append(Table, e)
  BY <1>2, <1>3, <1>4, <1>5
<1> QED  BY <1>6 DEF Desk!Record

(* Step by step: the queries stutter, each write is the desk's action. *)
LEMMA DeskStep ==
    ASSUME OneConnection, SerialInv, TypeOK', NEW r \in Requests, Step(r)
    PROVE  [Desk!Next]_<<row, Table>>
<1>1. /\ row \in Row /\ TypeOK
      /\ Cardinality(LiveKind("APPROVE")) = Desk!Approves
      /\ Desk!Live = Live
      /\ \A u : Desk!Acted(u) <=> LiveOf(u) # {}
  BY DeskSees DEF SerialInv, TypeOK
<1>2. CASE \/ \E u \in Users, op \in Ops : ReadApproval(r, u, op)
           \/ ReadActions(r) \/ ReadApproves(r) \/ ReadOwnAction(r) \/ Abort(r)
  BY <1>2 DEF ReadApproval, ReadActions, ReadApproves, ReadOwnAction, Abort, Table
<1>3. ASSUME NEW k \in Kinds, Writing(r, k), Insert(r)
      PROVE  /\ req[r] \in Call /\ req[r].user \in Users /\ req[r].op = k
             /\ req[r].row = row /\ ~row.deleted
             /\ Desk!Record(k, req[r].user)
             /\ k \in Deciding =>
                   /\ req[r].seen = Desk!Approves
                   /\ ~Desk!Acted(req[r].user)
                   /\ k # "REDIRECT" => req[r].user \in row.assigned
  <2>1. req[r] # Idle /\ req[r] \in Call
    BY <1>1, <1>3, InFlight DEF Writing, Idle
  <2>2. req[r].user \in Users
    BY <2>1 DEF Call
  <2> QED  BY <1>1, <1>3, <2>1, <2>2, DeskRecords DEF SerialInv, ReadsHold, Writing
<1>4. CASE Approve(r)
  <2>1. /\ req[r].user \in Users /\ req[r].row = row /\ ~row.deleted
        /\ Desk!Record("APPROVE", req[r].user)
        /\ req[r].seen = Desk!Approves /\ ~Desk!Acted(req[r].user)
        /\ req[r].user \in row.assigned
    BY <1>3, <1>4 DEF Approve, Kinds, Deciding
  <2>2. row' = [row EXCEPT !.status =
                  IF Desk!Approves + 1 >= row.required THEN "APPROVED" ELSE @]
    BY <1>1, <1>4, <2>1 DEF Approve, QuorumReached, SetStatus, Row
  <2>3. Desk!Decide(req[r].user)
    BY <2>1, <2>2 DEF Desk!Decide
  <2> QED  BY <2>1, <2>3 DEF Desk!Next
<1>5. CASE Reject(r)
  <2>1. /\ req[r].user \in Users /\ req[r].row = row /\ ~row.deleted
        /\ Desk!Record("REJECT", req[r].user)
        /\ ~Desk!Acted(req[r].user) /\ req[r].user \in row.assigned
    BY <1>3, <1>5 DEF Reject, Kinds, Deciding
  <2>2. row' = [row EXCEPT !.status = "REJECTED"]
    BY <1>1, <1>5, <2>1 DEF Reject, SetStatus, Row
  <2>3. Desk!Decide(req[r].user)
    BY <2>1, <2>2 DEF Desk!Decide
  <2> QED  BY <2>1, <2>3 DEF Desk!Next
<1>6. CASE CancelApproval(r)
  <2> DEFINE n == req[r].own
             u == req[r].user
  <2>1. req[r] # Idle /\ req[r] \in Call
    BY <1>1, <1>6, InFlight DEF CancelApproval, Writing, Idle
  <2>2. /\ u \in Users /\ req[r].row = row /\ ~row.deleted /\ u \in row.assigned
        /\ req[r].seen = Desk!Approves
        /\ n \in LiveOf(u)
    BY <1>1, <1>6, <2>1 DEF CancelApproval, Writing, SerialInv, ReadsHold, Call
  <2>3. n \in Live /\ n \in DOMAIN log /\ log[n].user = u /\ Table[n].user = u
    BY <1>1, <2>2, TableSeq DEF LiveOf, Live
  <2>4. Table' = [Table EXCEPT ![n].cancelled = TRUE]
    <3>1. log' = [log EXCEPT ![n].cancelled = TRUE] /\ log[n] \in Entry
      BY <1>1, <1>6, <2>3, ElementOfSeq DEF CancelApproval, TypeOK
    <3>2. DOMAIN log' = DOMAIN log
      BY <3>1
    <3>3. \A i \in DOMAIN log \ {n} : log'[i] = log[i]
      BY <3>1
    <3>4. log'[n] = [log[n] EXCEPT !.cancelled = TRUE]
      BY <2>3, <3>1
    <3>5. /\ log'[n].kind = log[n].kind /\ log'[n].user = log[n].user
          /\ log'[n].cancelled = TRUE
      BY <3>1, <3>4 DEF Entry
    <3>6. [kind |-> log[n].kind, user |-> log[n].user, cancelled |-> TRUE]
            = [Table[n] EXCEPT !.cancelled = TRUE]
      <4>1. Table[n] = [kind |-> log[n].kind, user |-> log[n].user,
                        cancelled |-> log[n].cancelled]
        BY <1>1, <2>3, TableSeq
      <4> DEFINE x == Table[n]
                 y == [kind |-> log[n].kind, user |-> log[n].user, cancelled |-> TRUE]
                 T == [kind : Kinds, user : Users, cancelled : BOOLEAN]
      <4>2. /\ x.kind = y.kind /\ x.user = y.user /\ y.cancelled = TRUE
            /\ x \in T /\ y \in T
        BY <3>1, <4>1 DEF Entry
      <4> HIDE DEF x, y
      <4>3. y = [x EXCEPT !.cancelled = TRUE]
        BY <4>2
      <4> QED  BY <4>3 DEF x, y
    <3>7. Table' = [i \in DOMAIN log |-> [kind |-> log'[i].kind, user |-> log'[i].user,
                                          cancelled |-> log'[i].cancelled]]
      BY <3>2 DEF Table
    <3>8. \A i \in DOMAIN log :
             [kind |-> log'[i].kind, user |-> log'[i].user, cancelled |-> log'[i].cancelled]
               = IF i = n THEN [Table[n] EXCEPT !.cancelled = TRUE] ELSE Table[i]
      BY <1>1, <3>3, <3>5, <3>6, TableSeq
    <3>9. Table = [i \in DOMAIN log |-> Table[i]]
      BY DEF Table
    <3> QED  BY <2>3, <3>7, <3>8, <3>9
  <2>5. Desk!Approves \in Nat /\ row.required \in Nat
    <3>1. req[r].seen \in 0..MaxLog
      BY <2>1 DEF Call
    <3>2. row.required \in Quorums
      BY <1>1 DEF Row
    <3> DEFINE a == Desk!Approves
    <3>3. a \in 0..MaxLog
      BY <2>2, <3>1
    <3> HIDE DEF a
    <3>4. a \in Nat
      BY <3>3, MaxLogAssumption
    <3>5. row.required \in Nat
      BY <3>2, QuorumsAssumption
    <3> QED  BY <3>4, <3>5 DEF a
  <2>6. row' = [row EXCEPT !.status =
                  IF @ = "APPROVED" /\ Desk!Approves > row.required THEN @ ELSE "PENDING"]
    <3>1. CASE Reopens(r)
      BY <1>1, <1>6, <2>2, <2>5, <3>1 DEF CancelApproval, Reopens, SetStatus, Row
    <3>2. CASE ~Reopens(r)
      BY <1>1, <1>6, <2>2, <2>5, <3>2 DEF CancelApproval, Reopens, Row, Statuses
    <3> QED  BY <3>1, <3>2
  <2>7. Desk!Cancel(n) /\ n \in Desk!Live /\ Table[n].kind = log[n].kind
    BY <1>1, <2>3, <2>4, TableSeq DEF Desk!Cancel
  <2>8. CASE log[n].kind = "APPROVE"
    <3>1. Desk!Left(n) = Desk!Approves - 1
      BY <2>7, <2>8 DEF Desk!Left
    <3>2. Desk!Left(n) >= row.required <=> Desk!Approves > row.required
      BY <2>5, <3>1
    <3>3. Desk!TakeBack(u)
      BY <2>2, <2>3, <2>6, <2>7, <3>2 DEF Desk!TakeBack
    <3> QED  BY <2>2, <3>3 DEF Desk!Next
  <2>9. CASE log[n].kind # "APPROVE" /\ row.status = "APPROVED" /\ Desk!Approves = row.required
    <3>1. row' = [row EXCEPT !.status = "PENDING"]
      BY <2>5, <2>6, <2>9
    <3>2. Desk!TakeBackOther(u)
      BY <2>2, <2>3, <2>7, <2>9, <3>1 DEF Desk!TakeBackOther
    <3> QED  BY <2>2, <3>2 DEF Desk!Next
  <2>10. CASE log[n].kind # "APPROVE" /\ ~(row.status = "APPROVED" /\ Desk!Approves = row.required)
    <3>1. Desk!Left(n) = Desk!Approves
      BY <2>7, <2>10 DEF Desk!Left
    <3>2. row.status = "APPROVED" => (Desk!Left(n) >= row.required <=> Desk!Approves > row.required)
      BY <2>5, <2>10, <3>1
    <3>3. Desk!TakeBack(u)
      BY <2>2, <2>3, <2>6, <2>7, <3>2 DEF Desk!TakeBack
    <3> QED  BY <2>2, <3>3 DEF Desk!Next
  <2> QED  BY <2>8, <2>9, <2>10
<1>7. CASE Update(r)
  <2>1. /\ req[r].user \in Users /\ ~row.deleted
        /\ Desk!Record("UPDATE", req[r].user)
    BY <1>3, <1>7 DEF Update, Kinds
  <2>2. Desk!Amend(req[r].user)
    BY <1>7, <2>1 DEF Update, Desk!Amend
  <2> QED  BY <2>1, <2>2 DEF Desk!Next
<1>8. CASE Delete(r)
  <2>1. /\ req[r].user \in Users /\ ~row.deleted
        /\ Desk!Record("DELETE", req[r].user)
    BY <1>3, <1>8 DEF Delete, Kinds
  <2>2. Desk!Withdraw(req[r].user)
    BY <1>8, <2>1 DEF Delete, Desk!Withdraw
  <2> QED  BY <2>1, <2>2 DEF Desk!Next
<1>9. CASE RouteToUsers(r)
  <2>1. /\ req[r].user \in Users /\ ~row.deleted /\ req[r].row = row
        /\ Desk!Record("REDIRECT", req[r].user) /\ ~Desk!Acted(req[r].user)
    BY <1>3, <1>9 DEF RouteToUsers, Kinds, Deciding
  <2>2. Desk!Redirect(req[r].user)
    BY <1>9, <2>1 DEF RouteToUsers, Desk!Redirect
  <2> QED  BY <2>1, <2>2 DEF Desk!Next
<1> QED
  BY <1>2, <1>4, <1>5, <1>6, <1>7, <1>8, <1>9 DEF Step

(* Calls one by one, the service implements the abstract desk: whoever reads
   the row and the action rows sees atomic calls, each made by somebody entitled
   to it, with the status each call leaves. *)
THEOREM ServiceImplementsDesk ==
    ASSUME OneConnection
    PROVE  Spec => ImplementsDesk
<1>1. Init => Desk!Init
  <2>1. Init => Table = << >>
    BY DEF Init, Table
  <2> QED  BY <2>1 DEF Init, Desk!Init
<1>2. SerialInv /\ [Next]_vars => SerialInv'
  BY SerialNext
<1>3. SerialInv /\ SerialInv' /\ [Next]_vars => [Desk!Next]_<<row, Table>>
  <2>1. UNCHANGED vars => UNCHANGED <<row, Table>>
    BY DEF vars, Table
  <2> QED  BY <2>1, DeskStep DEF SerialInv, Next
<1> QED  BY <1>1, <1>2, <1>3, SerialInit, PTL DEF Spec, ImplementsDesk, Desk!Spec

-----------------------------------------------------------------------------
(***************************************************************************)
(* Attachments: three invariants, each proved with the help of those       *)
(* before it: TypeInv (types, and what a call has at each point),          *)
(* NamesApart (a base name belongs to one row or to one call) and          *)
(* ObjectsKept (what is in S3, and who may delete it).                     *)
(***************************************************************************)
-----------------------------------------------------------------------------
(* Type correctness *)

(* What a call has at each point of its way. *)
Shape(r) ==
    /\ r.pc \in {"thumb", "save"} => r.n \in 1..MaxFiles
    /\ r.op = "replace" /\ r.pc \in {"drop", "commit"} => r.n \in 1..MaxFiles
    /\ r.pc = "row" => r.op = "delete"
    /\ r.pc \in {"save", "undo"} => r.op = "upload"
    /\ r.pc = "drop" => r.op # "upload"
    /\ r.pc \in {"file", "thumb"} => r.op # "delete"
    /\ r.op = "upload" => r.dropped = {}
    /\ r.op = "replace" => \A i, j \in r.ids : i = j
    /\ r.left \subseteq r.ids
    /\ \A m \in 1..MaxFiles : \A o \in r.names[m] : o.base \in {0, m}
    /\ r.n # 0 => File(r.n) \in r.names[r.n]

(* AttachmentsTyped, with calls that have what they need. *)
TypeInv == AttachmentsTyped /\ \A c \in Calls : call[c] # NoCall => Shape(call[c])

LEMMA Bases ==
    /\ \A m : File(m).base = m /\ Thumb(m).base = m
    /\ \A o \in Objects : o.base = 0 <=> o \in Predefined
    /\ \A o \in Objects : o.base \in 0..MaxFiles
    /\ \A m \in 1..MaxFiles : File(m) \in Objects /\ Thumb(m) \in Objects
    /\ Predefined \subseteq Objects
<1>1. \A m : File(m).base = m /\ Thumb(m).base = m
  BY DEF File, Thumb
<1>2. \A o \in OwnObjects : o.base \in 1..MaxFiles
  BY <1>1 DEF OwnObjects
<1>3. \A o \in Objects : o.base = 0 <=> o \in Predefined
  BY <1>2, PredefinedAssumption DEF Objects
<1>4. \A o \in Objects : o.base \in 0..MaxFiles
  BY <1>2, PredefinedAssumption, MaxFilesAssumption DEF Objects
<1> QED  BY <1>1, <1>3, <1>4 DEF Objects, OwnObjects

LEMMA Busy ==
    ASSUME TypeInv, NEW c \in Calls, call[c] # NoCall
    PROVE  call[c] \in CallState /\ Shape(call[c])
  BY DEF TypeInv, AttachmentsTyped

LEMMA BusyPc ==
    ASSUME TypeInv, NEW c \in Calls, call[c].pc # "idle"
    PROVE  call[c] \in CallState /\ Shape(call[c]) /\ call[c] # NoCall
  BY Busy DEF NoCall

(* A step of one call leaves the others as they are. *)
LEMMA OneCall ==
    ASSUME TypeInv, NEW c \in Calls, NEW v, call' = [call EXCEPT ![c] = v],
           v = NoCall \/ (v \in CallState /\ Shape(v))
    PROVE  /\ call' \in [Calls -> {NoCall} \cup CallState]
           /\ \A d \in Calls : call'[d] # NoCall => Shape(call'[d])
           /\ \A d \in Calls : call'[d] = IF d = c THEN v ELSE call[d]
<1>1. call \in [Calls -> {NoCall} \cup CallState]
  BY DEF TypeInv, AttachmentsTyped
<1>2. call' \in [Calls -> {NoCall} \cup CallState]
  BY <1>1
<1>3. \A d \in Calls : call'[d] = IF d = c THEN v ELSE call[d]
  BY <1>1
<1>4. \A d \in Calls : d # c /\ call[d] # NoCall => Shape(call[d])
  BY DEF TypeInv
<1> QED  BY <1>2, <1>3, <1>4

(* The objects that the rows of a call in flight will name. *)
Hand(c) == IF call[c] = NoCall THEN {} ELSE InHand(c)

LEMMA HandOfFlight == UNION {InHand(c) : c \in Running} = UNION {Hand(c) : c \in Calls}
  BY DEF Hand, Running

(* A step of c alone: what it does to the call, to its rows and to the others. *)
Others(c) == \A d \in Calls : d # c => call'[d] = call[d] /\ Hand(d)' = Hand(d)

(* It stays in flight, and keeps what says which rows it is about. *)
GoesOn(c) ==
    /\ call[c] # NoCall /\ call'[c] # NoCall
    /\ call'[c].op = call[c].op /\ call'[c].ids = call[c].ids

(* It ends. *)
Ends(c) == call'[c] = NoCall /\ Hand(c)' = {}

LEMMA OthersOf ==
    ASSUME NEW c \in Calls, \A d \in Calls : d # c => call'[d] = call[d]
    PROVE  Others(c)
  BY DEF Others, Hand, InHand

LEMMA EndOf ==
    ASSUME TypeInv, NEW c \in Calls, call' = [call EXCEPT ![c] = NoCall]
    PROVE  /\ call' \in [Calls -> {NoCall} \cup CallState]
           /\ \A d \in Calls : call'[d] # NoCall => Shape(call'[d])
           /\ Others(c) /\ Ends(c)
<1>1. /\ call' \in [Calls -> {NoCall} \cup CallState]
      /\ \A d \in Calls : call'[d] # NoCall => Shape(call'[d])
      /\ \A d \in Calls : call'[d] = IF d = c THEN NoCall ELSE call[d]
  BY OneCall
<1>2. Others(c)
  BY <1>1, OthersOf
<1> QED  BY <1>1, <1>2 DEF Ends, Hand

LEMMA Updated ==
    ASSUME NEW f \in [1..MaxFiles -> SUBSET Objects], NEW k \in 1..MaxFiles,
           NEW S \in SUBSET Objects, NEW g, g = [f EXCEPT ![k] = S]
    PROVE  /\ g \in [1..MaxFiles -> SUBSET Objects]
           /\ \A m \in 1..MaxFiles : g[m] = IF m = k THEN S ELSE f[m]
  OBVIOUS

LEMMA InitType == AttachmentsInit => TypeInv
<1> SUFFICES ASSUME AttachmentsInit PROVE TypeInv
  OBVIOUS
<1>1. AttachmentsTyped
  BY MaxFilesAssumption, Bases DEF AttachmentsInit, AttachmentsTyped
<1> QED  BY <1>1 DEF TypeInv, AttachmentsInit

-----------------------------------------------------------------------------
(* What each action does to the call *)

LEMMA StartStep ==
    ASSUME TypeInv, NEW c \in Calls, NEW op \in AllOps, NEW pc \in {"file", "row"},
           call[c] = NoCall, pc = "row" <=> op = "delete",
           NEW ids \in SUBSET (1..MaxFiles), NEW drop \in SUBSET Objects,
           op = "replace" => \A i, j \in ids : i = j,
           Start(c, op, pc, ids, drop)
    PROVE  /\ TypeInv' /\ Others(c) /\ Hand(c)' = {}
           /\ call'[c] # NoCall /\ call'[c].pc = pc /\ call'[c].ids = ids
           /\ call'[c].drop = drop /\ call'[c].dropped = {}
<1> DEFINE v == [op |-> op, pc |-> pc, n |-> 0, names |-> [n \in 1..MaxFiles |-> {}],
                 saved |-> {}, ids |-> ids, left |-> ids, drop |-> drop, dropped |-> {}]
<1>1. v \in CallState
  BY MaxFilesAssumption DEF CallState
<1>2. Shape(v)
  BY DEF Shape
<1>3. call' = [call EXCEPT ![c] = v] /\ UNCHANGED <<bucket, rows, clock, purge, lost>>
  BY DEF Start
<1>4. /\ v # NoCall /\ v.pc = pc /\ v.ids = ids /\ v.drop = drop /\ v.dropped = {}
      /\ \A n \in 1..MaxFiles : v.names[n] = {}
  BY DEF NoCall
<1> HIDE DEF v
<1>5. /\ call' \in [Calls -> {NoCall} \cup CallState]
      /\ \A d \in Calls : call'[d] # NoCall => Shape(call'[d])
      /\ \A d \in Calls : call'[d] = IF d = c THEN v ELSE call[d]
  BY <1>1, <1>2, <1>3, OneCall
<1>6. TypeInv'
  BY <1>3, <1>5 DEF TypeInv, AttachmentsTyped
<1>7. Others(c)
  BY <1>5, OthersOf
<1>8. Hand(c)' = {}
  BY <1>4, <1>5 DEF Hand, InHand
<1> QED  BY <1>4, <1>5, <1>6, <1>7, <1>8

LEMMA NextRowStep ==
    ASSUME TypeInv, NEW c \in Calls, NextRow(c)
    PROVE  /\ TypeInv' /\ Others(c) /\ UNCHANGED <<bucket, rows, clock, purge>>
           /\ \/ /\ GoesOn(c) /\ Hand(c)' = Hand(c) /\ lost' = lost /\ call'[c].pc = "drop"
                 /\ call'[c].dropped = call[c].dropped
                 /\ \E id \in call[c].ids \cap DOMAIN rows : call'[c].drop = rows[id]
              \/ Ends(c) /\ lost' = lost \cup call[c].dropped
<1> DEFINE r == call[c]
<1>1. r \in CallState /\ Shape(r) /\ r # NoCall /\ r.op = "delete"
  BY BusyPc DEF NextRow, Shape
<1>2. UNCHANGED <<bucket, rows, clock, purge>> /\ call \in [Calls -> {NoCall} \cup CallState]
  BY DEF NextRow, TypeInv, AttachmentsTyped
<1>3. PICK id \in r.left :
        IF id \in DOMAIN rows
        THEN /\ call' = [call EXCEPT ![c].pc = "drop", ![c].left = @ \ {id}, ![c].drop = rows[id]]
             /\ UNCHANGED lost
        ELSE call' = [call EXCEPT ![c] = NoCall] /\ lost' = lost \cup r.dropped
  BY DEF NextRow, Lose
<1>4. CASE id \in DOMAIN rows
  <2> DEFINE v == [r EXCEPT !.pc = "drop", !.left = @ \ {id}, !.drop = rows[id]]
  <2>1. rows[id] \subseteq Objects
    BY <1>4 DEF TypeInv, AttachmentsTyped
  <2>2. call' = [call EXCEPT ![c] = v] /\ lost' = lost
    BY <1>2, <1>3, <1>4
  <2>3. /\ v.pc = "drop" /\ v.drop = rows[id] /\ v.left = r.left \ {id} /\ v.op = r.op
        /\ v.ids = r.ids /\ v.dropped = r.dropped /\ v.names = r.names /\ v.n = r.n
    BY <1>1 DEF CallState
  <2>4. v \in CallState
    BY <1>1, <2>1 DEF CallState
  <2> HIDE DEF v
  <2>5. Shape(v)
    BY <1>1, <2>3 DEF Shape
  <2>6. /\ call' \in [Calls -> {NoCall} \cup CallState]
        /\ \A d \in Calls : call'[d] # NoCall => Shape(call'[d])
        /\ \A d \in Calls : call'[d] = IF d = c THEN v ELSE call[d]
    BY <2>2, <2>4, <2>5, OneCall
  <2>7. TypeInv' /\ Others(c)
    BY <1>2, <2>2, <2>6, OthersOf DEF TypeInv, AttachmentsTyped
  <2>8. v # NoCall /\ id \in r.ids
    BY <1>1, <2>3 DEF NoCall, Shape
  <2>9. GoesOn(c) /\ Hand(c)' = Hand(c)
    BY <1>1, <2>3, <2>6, <2>8 DEF GoesOn, Hand, InHand
  <2> QED  BY <1>2, <1>4, <2>2, <2>3, <2>6, <2>7, <2>8, <2>9
<1>5. CASE id \notin DOMAIN rows
  <2>1. r.dropped \subseteq Objects
    BY <1>1 DEF CallState
  <2> QED  BY <1>2, <1>3, <1>5, <2>1, EndOf DEF TypeInv, AttachmentsTyped
<1> QED  BY <1>4, <1>5

LEMMA PutFileStep ==
    ASSUME TypeInv, NEW c \in Calls, PutFile(c)
    PROVE  /\ TypeInv' /\ Others(c) /\ UNCHANGED <<rows, purge, lost>>
           /\ clock' = clock + 1 /\ bucket' = bucket \cup {File(clock')}
           /\ GoesOn(c) /\ Hand(c)' \subseteq Hand(c) \cup {File(clock')}
           /\ call'[c].drop = call[c].drop /\ call'[c].dropped = call[c].dropped
           /\ call[c].pc = "file" /\ call'[c].pc = "thumb" /\ call'[c].n = clock'
<1> DEFINE r == call[c]
<1>1. r \in CallState /\ Shape(r) /\ r # NoCall /\ r.pc = "file"
  BY BusyPc DEF PutFile
<1>2. PICK k : k = clock'
  OBVIOUS
<1>3. k \in 1..MaxFiles /\ k = clock + 1 /\ clock \in Nat /\ UNCHANGED <<rows, purge, lost>>
      /\ bucket' = bucket \cup {File(k)}
  BY <1>2, MaxFilesAssumption DEF PutFile, TypeInv, AttachmentsTyped
<1> DEFINE v == [r EXCEPT !.pc = "thumb", !.n = k, !.names[k] = {File(k)}]
<1>4. call' = [call EXCEPT ![c] = v]
  BY <1>2 DEF PutFile, TypeInv, AttachmentsTyped
<1>5. /\ v.pc = "thumb" /\ v.n = k /\ v.drop = r.drop /\ v.left = r.left /\ v.op = r.op
      /\ v.ids = r.ids /\ v.dropped = r.dropped /\ v.names = [r.names EXCEPT ![k] = {File(k)}]
  BY <1>1 DEF CallState
<1>6. r.names \in [1..MaxFiles -> SUBSET Objects] /\ {File(k)} \in SUBSET Objects
  BY <1>1, <1>3, Bases DEF CallState
<1>7. v.names \in [1..MaxFiles -> SUBSET Objects]
      /\ \A m \in 1..MaxFiles : v.names[m] = IF m = k THEN {File(k)} ELSE r.names[m]
  <2> DEFINE f == r.names
             g == v.names
  <2>1. f \in [1..MaxFiles -> SUBSET Objects] /\ g = [f EXCEPT ![k] = {File(k)}]
    BY <1>5, <1>6
  <2> HIDE DEF f, g
  <2>2. /\ g \in [1..MaxFiles -> SUBSET Objects]
        /\ \A m \in 1..MaxFiles : g[m] = IF m = k THEN {File(k)} ELSE f[m]
    BY <1>3, <1>6, <2>1, Updated
  <2> QED  BY <2>2 DEF f, g
<1>8. v \in CallState
  <2>1. k \in 0..MaxFiles
    BY <1>3, MaxFilesAssumption
  <2>2. [r.names EXCEPT ![k] = {File(k)}] \in [1..MaxFiles -> SUBSET Objects]
    BY <1>5, <1>7
  <2> QED  BY <1>1, <2>1, <2>2 DEF CallState
<1> HIDE DEF v
<1>9. Shape(v)
  BY <1>1, <1>3, <1>5, <1>7, Bases DEF Shape
<1>10. /\ call' \in [Calls -> {NoCall} \cup CallState]
       /\ \A d \in Calls : call'[d] # NoCall => Shape(call'[d])
       /\ \A d \in Calls : call'[d] = IF d = c THEN v ELSE call[d]
  BY <1>4, <1>8, <1>9, OneCall
<1>11. bucket' \subseteq Objects /\ clock' \in 0..MaxFiles
  BY <1>2, <1>3, <1>6, MaxFilesAssumption DEF TypeInv, AttachmentsTyped
<1>12. TypeInv' /\ Others(c)
  BY <1>3, <1>10, <1>11, OthersOf DEF TypeInv, AttachmentsTyped
<1>13. v # NoCall
  BY <1>5 DEF NoCall
<1>14. Hand(c)' \subseteq Hand(c) \cup {File(k)}
  BY <1>1, <1>7, <1>10, <1>13 DEF Hand, InHand
<1> QED  BY <1>1, <1>2, <1>3, <1>5, <1>10, <1>12, <1>13, <1>14 DEF GoesOn

LEMMA PutThumbStep ==
    ASSUME TypeInv, NEW c \in Calls, PutThumb(c)
    PROVE  /\ TypeInv' /\ Others(c) /\ UNCHANGED <<rows, clock, purge, lost>>
           /\ GoesOn(c) /\ call'[c].drop = call[c].drop /\ call'[c].dropped = call[c].dropped
           /\ call[c].pc = "thumb" /\ call'[c].pc \in {"save", "drop"}
           /\ File(call[c].n) \in Hand(c)
           /\ \E o \in {Thumb(call[c].n)} \cup Predefined :
                 /\ Hand(c)' \subseteq Hand(c) \cup {o}
                 /\ bucket' = IF o \in Predefined THEN bucket ELSE bucket \cup {o}
<1> DEFINE r == call[c]
           n == r.n
           pc == IF r.op = "upload" THEN "save" ELSE "drop"
<1>1. /\ r \in CallState /\ Shape(r) /\ r # NoCall /\ r.pc = "thumb"
      /\ n \in 1..MaxFiles /\ n # 0
  BY BusyPc DEF PutThumb, Shape
<1>2. PICK o \in {Thumb(n)} \cup Predefined :
        /\ bucket' = IF o \in Predefined THEN bucket ELSE bucket \cup {o}
        /\ call' = [call EXCEPT ![c].pc = pc, ![c].names[n] = @ \cup {o}]
  BY DEF PutThumb
<1>3. UNCHANGED <<rows, clock, purge, lost>>
  BY DEF PutThumb
<1> DEFINE v == [r EXCEPT !.pc = pc, !.names[n] = @ \cup {o}]
<1>4. call' = [call EXCEPT ![c] = v]
  BY <1>2 DEF TypeInv, AttachmentsTyped
<1>5. /\ v.pc = pc /\ v.n = n /\ v.drop = r.drop /\ v.left = r.left /\ v.op = r.op
      /\ v.ids = r.ids /\ v.dropped = r.dropped
      /\ v.names = [r.names EXCEPT ![n] = @ \cup {o}]
  BY <1>1 DEF CallState
<1>6. /\ r.names \in [1..MaxFiles -> SUBSET Objects] /\ o \in Objects /\ o.base \in {0, n}
      /\ pc \in {"save", "drop"} /\ (pc = "save" <=> r.op = "upload")
  BY <1>1, <1>2, Bases, PredefinedAssumption DEF CallState
<1> HIDE DEF pc
<1>7. v.names \in [1..MaxFiles -> SUBSET Objects]
      /\ \A m \in 1..MaxFiles : v.names[m] = IF m = n THEN r.names[n] \cup {o} ELSE r.names[m]
  <2> DEFINE f == r.names
             g == v.names
             S == f[n] \cup {o}
  <2>1. f \in [1..MaxFiles -> SUBSET Objects] /\ g = [f EXCEPT ![n] = S]
    BY <1>5, <1>6
  <2>2. S \in SUBSET Objects
    BY <1>1, <1>6
  <2> HIDE DEF f, g, S
  <2>3. /\ g \in [1..MaxFiles -> SUBSET Objects]
        /\ \A m \in 1..MaxFiles : g[m] = IF m = n THEN S ELSE f[m]
    BY <1>1, <2>1, <2>2, Updated
  <2> QED  BY <2>3 DEF f, g, S
<1>8. v \in CallState
  <2>1. [r.names EXCEPT ![n] = @ \cup {o}] \in [1..MaxFiles -> SUBSET Objects]
    BY <1>5, <1>7
  <2> QED  BY <1>1, <1>6, <2>1 DEF CallState
<1> HIDE DEF v
<1>9. Shape(v)
  BY <1>1, <1>5, <1>6, <1>7 DEF Shape
<1>10. /\ call' \in [Calls -> {NoCall} \cup CallState]
       /\ \A d \in Calls : call'[d] # NoCall => Shape(call'[d])
       /\ \A d \in Calls : call'[d] = IF d = c THEN v ELSE call[d]
  BY <1>4, <1>8, <1>9, OneCall
<1>11. bucket' \subseteq Objects
  BY <1>2, <1>6 DEF TypeInv, AttachmentsTyped
<1>12. TypeInv' /\ Others(c)
  BY <1>3, <1>10, <1>11, OthersOf DEF TypeInv, AttachmentsTyped
<1>13. v # NoCall
  BY <1>5, <1>6 DEF NoCall
<1>14. Hand(c)' \subseteq Hand(c) \cup {o}
  BY <1>1, <1>7, <1>10, <1>13 DEF Hand, InHand
<1>15. File(n) \in Hand(c)
  BY <1>1 DEF Shape, Hand, InHand
<1> QED  BY <1>1, <1>2, <1>3, <1>5, <1>6, <1>10, <1>12, <1>13, <1>14, <1>15 DEF GoesOn

LEMMA SaveRowStep ==
    ASSUME TypeInv, NEW c \in Calls, SaveRow(c)
    PROVE  /\ TypeInv' /\ Others(c) /\ UNCHANGED <<bucket, rows, clock, purge, lost>>
           /\ GoesOn(c) /\ Hand(c)' = Hand(c) /\ call'[c].pc \in {"file", "commit"}
           /\ call'[c].drop = call[c].drop /\ call'[c].dropped = call[c].dropped
           /\ call[c].pc = "save"
<1> DEFINE r == call[c]
<1>1. r \in CallState /\ Shape(r) /\ r # NoCall /\ r.pc = "save" /\ r.n \in 1..MaxFiles
      /\ r.op = "upload"
  BY BusyPc DEF SaveRow, Shape
<1>2. PICK pc \in {"file", "commit"} :
        call' = [call EXCEPT ![c].pc = pc, ![c].saved = @ \cup {r.n}]
  BY DEF SaveRow
<1>3. UNCHANGED <<bucket, rows, clock, purge, lost>>
  BY DEF SaveRow
<1> DEFINE v == [r EXCEPT !.pc = pc, !.saved = @ \cup {r.n}]
<1>4. call' = [call EXCEPT ![c] = v]
  BY <1>2 DEF TypeInv, AttachmentsTyped
<1>5. /\ v.pc = pc /\ v.n = r.n /\ v.drop = r.drop /\ v.left = r.left /\ v.op = r.op
      /\ v.ids = r.ids /\ v.dropped = r.dropped /\ v.names = r.names /\ v \in CallState
  BY <1>1 DEF CallState
<1> HIDE DEF v
<1>6. Shape(v) /\ v # NoCall
  BY <1>1, <1>5 DEF Shape, NoCall
<1>7. /\ call' \in [Calls -> {NoCall} \cup CallState]
      /\ \A d \in Calls : call'[d] # NoCall => Shape(call'[d])
      /\ \A d \in Calls : call'[d] = IF d = c THEN v ELSE call[d]
  BY <1>4, <1>5, <1>6, OneCall
<1>8. TypeInv' /\ Others(c)
  BY <1>3, <1>7, OthersOf DEF TypeInv, AttachmentsTyped
<1>9. GoesOn(c) /\ Hand(c)' = Hand(c)
  BY <1>1, <1>5, <1>6, <1>7 DEF GoesOn, Hand, InHand
<1> QED  BY <1>1, <1>3, <1>5, <1>7, <1>8, <1>9

LEMMA DropObjectStep ==
    ASSUME TypeInv, NEW c \in Calls, DropObject(c)
    PROVE  /\ TypeInv' /\ Others(c) /\ UNCHANGED <<rows, clock, purge>>
           /\ GoesOn(c) /\ Hand(c)' = Hand(c) /\ call'[c].pc \in {"drop", "row", "commit"}
           /\ call[c].pc = "drop"
           /\ \E o \in call[c].drop :
                 /\ bucket' = bucket \ {o}
                 /\ call'[c].drop = call[c].drop \ {o}
                 /\ call'[c].dropped = call[c].dropped \cup {o}
                 /\ lost' = lost \cup ({o} \cap Predefined)
<1> DEFINE r == call[c]
<1>1. r \in CallState /\ Shape(r) /\ r # NoCall /\ r.pc = "drop" /\ r.op # "upload"
  BY BusyPc DEF DropObject, Shape
<1>2. PICK o \in r.drop :
        /\ bucket' = bucket \ {o}
        /\ call' = [call EXCEPT ![c].drop = @ \ {o}, ![c].dropped = @ \cup {o},
                                ![c].pc = IF r.drop # {o} THEN "drop"
                                          ELSE IF r.op = "delete" /\ r.left # {}
                                          THEN "row" ELSE "commit"]
        /\ lost' = lost \cup ({o} \cap Predefined)
  BY DEF DropObject, Lose
<1>3. UNCHANGED <<rows, clock, purge>>
  BY DEF DropObject
<1> DEFINE pc == IF r.drop # {o} THEN "drop"
                 ELSE IF r.op = "delete" /\ r.left # {} THEN "row" ELSE "commit"
           v  == [r EXCEPT !.drop = @ \ {o}, !.dropped = @ \cup {o}, !.pc = pc]
<1>4. call' = [call EXCEPT ![c] = v]
  BY <1>2 DEF TypeInv, AttachmentsTyped
<1>5. pc \in {"drop", "row", "commit"} /\ (pc = "row" => r.op = "delete")
  OBVIOUS
<1> HIDE DEF pc
<1>6. /\ v.pc = pc /\ v.n = r.n /\ v.drop = r.drop \ {o} /\ v.left = r.left /\ v.op = r.op
      /\ v.ids = r.ids /\ v.dropped = r.dropped \cup {o} /\ v.names = r.names /\ v \in CallState
  BY <1>1, <1>5 DEF CallState
<1> HIDE DEF v
<1>7. Shape(v) /\ v # NoCall
  <2>1. v.op = "replace" /\ v.pc \in {"drop", "commit"} => v.n \in 1..MaxFiles
    BY <1>1, <1>6 DEF Shape
  <2> QED  BY <1>1, <1>5, <1>6, <2>1 DEF Shape, NoCall
<1>8. /\ call' \in [Calls -> {NoCall} \cup CallState]
      /\ \A d \in Calls : call'[d] # NoCall => Shape(call'[d])
      /\ \A d \in Calls : call'[d] = IF d = c THEN v ELSE call[d]
  BY <1>4, <1>6, <1>7, OneCall
<1>9. bucket' \subseteq Objects /\ lost' \subseteq Objects
  BY <1>2, Bases DEF TypeInv, AttachmentsTyped
<1>10. TypeInv' /\ Others(c)
  BY <1>3, <1>8, <1>9, OthersOf DEF TypeInv, AttachmentsTyped
<1>11. GoesOn(c) /\ Hand(c)' = Hand(c)
  BY <1>1, <1>6, <1>7, <1>8 DEF GoesOn, Hand, InHand
<1> QED  BY <1>1, <1>2, <1>3, <1>5, <1>6, <1>8, <1>10, <1>11

(* A row after the commit: as it was and none of those the call is about, or new, and
   then a different base name for every row. *)
LEMMA CommitStep ==
    ASSUME TypeInv, NEW c \in Calls, Commit(c)
    PROVE  /\ TypeInv' /\ Others(c) /\ Ends(c) /\ UNCHANGED <<bucket, clock, purge, lost>>
           /\ call[c] # NoCall /\ call[c].pc = "commit"
           /\ \E New \in SUBSET DOMAIN rows' :
                 /\ \A i \in New : rows'[i] \subseteq Hand(c)
                 /\ \A i, j \in New : i # j =>
                       \A o \in rows'[i], q \in rows'[j] : o.base # 0 => o.base # q.base
                 /\ \A i \in DOMAIN rows' \ New :
                       /\ i \in DOMAIN rows /\ rows'[i] = rows[i]
                       /\ i \notin call[c].ids \/ call[c].dropped = {}
<1> DEFINE r == call[c]
<1>1. r \in CallState /\ Shape(r) /\ r # NoCall /\ r.pc = "commit"
  BY BusyPc DEF Commit
<1>2. UNCHANGED <<bucket, clock, purge, lost>> /\ call' = [call EXCEPT ![c] = NoCall]
  BY DEF Commit
<1>3. \A m \in 1..MaxFiles : r.names[m] \subseteq Hand(c) /\ r.names[m] \subseteq Objects
  BY <1>1 DEF Hand, InHand, CallState
<1>4. /\ DOMAIN rows \subseteq 1..MaxFiles /\ r.saved \subseteq 1..MaxFiles
      /\ \A i \in DOMAIN rows : rows[i] \subseteq Objects
  BY <1>1 DEF CallState, TypeInv, AttachmentsTyped
<1>5. \E New \in SUBSET DOMAIN rows' :
         /\ DOMAIN rows' \subseteq 1..MaxFiles
         /\ \A i \in New : \E m \in 1..MaxFiles : rows'[i] = r.names[m]
         /\ \A i, j \in New : i # j =>
               \A o \in rows'[i], q \in rows'[j] : o.base # 0 => o.base # q.base
         /\ \A i \in DOMAIN rows' \ New :
               /\ i \in DOMAIN rows /\ rows'[i] = rows[i]
               /\ i \notin r.ids \/ r.dropped = {}
  <2>1. CASE r.op = "upload"
    <3>1. /\ DOMAIN rows' = DOMAIN rows \cup r.saved
          /\ \A i \in DOMAIN rows' : rows'[i] = IF i \in r.saved THEN r.names[i] ELSE rows[i]
      BY <2>1 DEF Commit
    <3>2. r.dropped = {}
      BY <1>1, <2>1 DEF Shape
    <3>3. \A i, j \in r.saved : i # j =>
             \A o \in rows'[i], q \in rows'[j] : o.base # 0 => o.base # q.base
      <4>1. \A m \in 1..MaxFiles : \A o \in r.names[m] : o.base \in {0, m}
        BY <1>1 DEF Shape
      <4> QED  BY <1>4, <3>1, <4>1
    <3> r.saved \in SUBSET DOMAIN rows'
      BY <3>1
    <3> WITNESS r.saved \in SUBSET DOMAIN rows'
    <3> QED  BY <1>4, <3>1, <3>2, <3>3
  <2>2. CASE r.op = "replace"
    <3>1. /\ DOMAIN rows' = DOMAIN rows
          /\ \A i \in DOMAIN rows' : rows'[i] = IF i \in r.ids THEN r.names[r.n] ELSE rows[i]
      BY <2>2 DEF Commit
    <3>2. r.n \in 1..MaxFiles /\ \A i, j \in r.ids : i = j
      BY <1>1, <2>2 DEF Shape
    <3> WITNESS r.ids \cap DOMAIN rows' \in SUBSET DOMAIN rows'
    <3> QED  BY <1>4, <3>1, <3>2
  <2>3. CASE r.op \notin {"upload", "replace"}
    <3>1. /\ DOMAIN rows' = DOMAIN rows \ r.ids
          /\ \A i \in DOMAIN rows' : rows'[i] = rows[i]
      BY <2>3 DEF Commit
    <3> WITNESS {} \in SUBSET DOMAIN rows'
    <3> QED  BY <1>4, <3>1
  <2> QED  BY <2>1, <2>2, <2>3
<1>6. \A i \in DOMAIN rows' : rows'[i] \subseteq Objects
  BY <1>3, <1>4, <1>5
<1>7. DOMAIN rows' \subseteq 1..MaxFiles
  BY <1>5
<1>8. TypeInv' /\ Others(c) /\ Ends(c)
  BY <1>2, <1>6, <1>7, EndOf DEF TypeInv, AttachmentsTyped
<1> QED  BY <1>1, <1>2, <1>3, <1>5, <1>8

LEMMA ThrowStep ==
    ASSUME TypeInv, NEW c \in Calls, Throw(c)
    PROVE  /\ TypeInv' /\ Others(c) /\ UNCHANGED <<bucket, rows, clock, purge, lost>>
           /\ GoesOn(c) /\ Hand(c)' = Hand(c) /\ call'[c].pc = "undo"
           /\ call'[c].dropped = {} /\ call[c].dropped = {}
           /\ \A o \in call'[c].drop : o \in Hand(c) /\ o.base # 0
<1> DEFINE r == call[c]
           D == {File(r.n)} \cup LastThumb(c)
           v == [r EXCEPT !.pc = "undo", !.drop = D]
<1>1. r \in CallState /\ Shape(r) /\ r # NoCall /\ r.op = "upload" /\ r.n \in 1..MaxFiles
      /\ r.dropped = {}
  BY Busy, MaxFilesAssumption DEF Throw, MayFail, Shape, CallState
<1>2. UNCHANGED <<bucket, rows, clock, purge, lost>> /\ call' = [call EXCEPT ![c] = v]
  BY DEF Throw, TypeInv, AttachmentsTyped
<1>3. \A o \in LastThumb(c) : o \in Hand(c) /\ o.base # 0 /\ o \in Objects
  BY <1>1, Bases DEF LastThumb, Hand, InHand
<1>4. D \subseteq Objects
  BY <1>1, <1>3, Bases
<1>5. \A o \in D : o \in Hand(c) /\ o.base # 0
  <2>1. File(r.n) \in Hand(c) /\ File(r.n).base # 0
    BY <1>1, Bases DEF Shape, Hand, InHand
  <2> QED  BY <1>3, <2>1
<1> HIDE DEF D
<1>6. /\ v.pc = "undo" /\ v.n = r.n /\ v.drop = D /\ v.left = r.left /\ v.op = r.op
      /\ v.ids = r.ids /\ v.dropped = {} /\ v.names = r.names /\ v \in CallState
  BY <1>1, <1>4 DEF CallState
<1> HIDE DEF v
<1>7. Shape(v) /\ v # NoCall
  BY <1>1, <1>6 DEF Shape, NoCall
<1>8. /\ call' \in [Calls -> {NoCall} \cup CallState]
      /\ \A d \in Calls : call'[d] # NoCall => Shape(call'[d])
      /\ \A d \in Calls : call'[d] = IF d = c THEN v ELSE call[d]
  BY <1>2, <1>6, <1>7, OneCall
<1>9. TypeInv' /\ Others(c)
  BY <1>2, <1>8, OthersOf DEF TypeInv, AttachmentsTyped
<1>10. GoesOn(c) /\ Hand(c)' = Hand(c)
  BY <1>1, <1>6, <1>7, <1>8 DEF GoesOn, Hand, InHand
<1> QED  BY <1>1, <1>2, <1>5, <1>6, <1>8, <1>9, <1>10

LEMMA UndoStep ==
    ASSUME TypeInv, NEW c \in Calls, UndoObject(c)
    PROVE  /\ TypeInv' /\ Others(c) /\ UNCHANGED <<rows, clock, purge, lost>>
           /\ call[c] # NoCall /\ call[c].pc = "undo" /\ call[c].dropped = {}
           /\ \E o \in call[c].drop : bucket' \in {bucket, bucket \ {o}}
           /\ \/ Ends(c)
              \/ /\ GoesOn(c) /\ Hand(c)' = Hand(c) /\ call'[c].pc = "undo"
                 /\ call'[c].drop \subseteq call[c].drop /\ call'[c].dropped = {}
<1> DEFINE r == call[c]
<1>1. r \in CallState /\ Shape(r) /\ r # NoCall /\ r.pc = "undo" /\ r.op = "upload" /\ r.dropped = {}
  BY BusyPc DEF UndoObject, Shape
<1>2. PICK o \in r.drop :
        /\ bucket' \in {bucket, bucket \ {o}}
        /\ call' = [call EXCEPT ![c] = IF r.drop = {o} THEN NoCall
                                       ELSE [r EXCEPT !.drop = @ \ {o}]]
  BY DEF UndoObject
<1>3. UNCHANGED <<rows, clock, purge, lost>> /\ bucket' \subseteq Objects
  BY <1>2 DEF UndoObject, TypeInv, AttachmentsTyped
<1>4. CASE r.drop = {o}
  BY <1>1, <1>2, <1>3, <1>4, EndOf DEF TypeInv, AttachmentsTyped
<1>5. CASE r.drop # {o}
  <2> DEFINE v == [r EXCEPT !.drop = @ \ {o}]
  <2>1. call' = [call EXCEPT ![c] = v]
    BY <1>2, <1>5
  <2>2. /\ v.pc = "undo" /\ v.n = r.n /\ v.drop = r.drop \ {o} /\ v.left = r.left
        /\ v.op = r.op /\ v.ids = r.ids /\ v.dropped = {} /\ v.names = r.names /\ v \in CallState
    BY <1>1 DEF CallState
  <2> HIDE DEF v
  <2>3. Shape(v) /\ v # NoCall
    BY <1>1, <2>2 DEF Shape, NoCall
  <2>4. /\ call' \in [Calls -> {NoCall} \cup CallState]
        /\ \A d \in Calls : call'[d] # NoCall => Shape(call'[d])
        /\ \A d \in Calls : call'[d] = IF d = c THEN v ELSE call[d]
    BY <2>1, <2>2, <2>3, OneCall
  <2>5. TypeInv' /\ Others(c)
    BY <1>3, <2>4, OthersOf DEF TypeInv, AttachmentsTyped
  <2>6. GoesOn(c) /\ Hand(c)' = Hand(c)
    BY <1>1, <2>2, <2>3, <2>4 DEF GoesOn, Hand, InHand
  <2> QED  BY <1>1, <1>2, <1>3, <2>2, <2>4, <2>5, <2>6
<1> QED  BY <1>4, <1>5

LEMMA CrashStep ==
    ASSUME TypeInv, NEW c \in Calls, Crash(c)
    PROVE  /\ TypeInv' /\ Others(c) /\ Ends(c) /\ UNCHANGED <<bucket, rows, clock, purge>>
           /\ lost' = lost \cup call[c].dropped
<1>1. /\ UNCHANGED <<bucket, rows, clock, purge>> /\ lost' = lost \cup call[c].dropped
      /\ call' = [call EXCEPT ![c] = NoCall] /\ call[c] # NoCall
  BY DEF Crash, Lose
<1>2. lost' \subseteq Objects
  BY <1>1, Busy DEF CallState, TypeInv, AttachmentsTyped
<1> QED  BY <1>1, <1>2, EndOf DEF TypeInv, AttachmentsTyped

LEMMA StartUploadStep ==
    ASSUME TypeInv, NEW c \in Calls, StartUpload(c)
    PROVE  \E pc \in {"file", "row"} :
              /\ TypeInv' /\ Others(c) /\ Hand(c)' = {} /\ UNCHANGED <<bucket, rows, clock, purge, lost>>
              /\ call[c] = NoCall /\ call'[c] # NoCall /\ call'[c].pc = pc
              /\ call'[c].drop = {} /\ call'[c].dropped = {}
<1>1. call[c] = NoCall /\ Start(c, "upload", "file", {}, {})
  BY DEF StartUpload, MayStart
<1>2. UNCHANGED <<bucket, rows, clock, purge, lost>>
  BY <1>1 DEF Start
<1>3. "upload" \in AllOps /\ {} \in SUBSET (1..MaxFiles) /\ {} \in SUBSET Objects
  BY DEF AllOps
<1>4. /\ TypeInv' /\ Others(c) /\ Hand(c)' = {}
      /\ call'[c] # NoCall /\ call'[c].pc = "file" /\ call'[c].ids = {}
      /\ call'[c].drop = {} /\ call'[c].dropped = {}
  BY <1>1, <1>3, StartStep
<1> QED  BY <1>1, <1>2, <1>4

LEMMA StartDeleteStep ==
    ASSUME TypeInv, NEW c \in Calls, StartDelete(c)
    PROVE  \E pc \in {"file", "row"} :
              /\ TypeInv' /\ Others(c) /\ Hand(c)' = {} /\ UNCHANGED <<bucket, rows, clock, purge, lost>>
              /\ call[c] = NoCall /\ call'[c] # NoCall /\ call'[c].pc = pc
              /\ call'[c].drop = {} /\ call'[c].dropped = {}
<1>1. call[c] = NoCall
  BY DEF StartDelete, MayStart
<1>2. PICK ids \in SUBSET DOMAIN rows \ {{}} : Start(c, "delete", "row", ids, {})
  BY DEF StartDelete
<1>3. ids \in SUBSET (1..MaxFiles)
  BY DEF TypeInv, AttachmentsTyped
<1>4. UNCHANGED <<bucket, rows, clock, purge, lost>>
  BY <1>2 DEF Start
<1> QED  BY <1>1, <1>2, <1>3, <1>4, StartStep DEF AllOps

LEMMA StartReplaceStep ==
    ASSUME TypeInv, NEW c \in Calls, StartReplace(c)
    PROVE  /\ TypeInv' /\ Others(c) /\ Hand(c)' = {} /\ UNCHANGED <<bucket, rows, clock, purge, lost>>
           /\ call[c] = NoCall /\ call'[c] # NoCall /\ call'[c].pc = "file"
           /\ call'[c].dropped = {}
           /\ \E id \in DOMAIN rows : call'[c].drop = rows[id] /\ id \in call'[c].ids
<1>1. call[c] = NoCall
  BY DEF StartReplace, MayStart
<1>2. PICK id \in DOMAIN rows : Start(c, "replace", "file", {id}, rows[id])
  BY DEF StartReplace
<1>3. PICK ids, drop : ids = {id} /\ drop = rows[id]
  OBVIOUS
<1>4. Start(c, "replace", "file", ids, drop) /\ UNCHANGED <<bucket, rows, clock, purge, lost>>
  BY <1>2, <1>3 DEF Start
<1>5. /\ "replace" \in AllOps /\ ids \in SUBSET (1..MaxFiles) /\ drop \in SUBSET Objects
      /\ \A i, j \in ids : i = j
  BY <1>3 DEF AllOps, TypeInv, AttachmentsTyped
<1>6. /\ TypeInv' /\ Others(c) /\ Hand(c)' = {}
      /\ call'[c] # NoCall /\ call'[c].pc = "file" /\ call'[c].ids = ids
      /\ call'[c].drop = drop /\ call'[c].dropped = {}
  BY <1>1, <1>4, <1>5, StartStep
<1> QED  BY <1>1, <1>3, <1>4, <1>6

LEMMA StepType ==
    ASSUME TypeInv, NEW c \in Calls, CallStep(c)
    PROVE  TypeInv' /\ Others(c)
  BY StartUploadStep, StartReplaceStep, StartDeleteStep, NextRowStep, PutFileStep, PutThumbStep,
     SaveRowStep, DropObjectStep, CommitStep, ThrowStep, UndoStep, CrashStep DEF CallStep

LEMMA PurgeFrame ==
    ASSUME PurgeStep \/ PurgeFail
    PROVE  UNCHANGED <<rows, clock, call>> /\ bucket' \subseteq bucket
  BY DEF PurgeStep, PurgeStart, PurgeList, PurgeFind, PurgeObject, PurgeNext, PurgeFail, NextDir, Lose

LEMMA PurgeType ==
    ASSUME TypeInv, PurgeStep \/ PurgeFail
    PROVE  TypeInv'
<1>a. bucket \subseteq Objects /\ purge \in {Resting} \cup PurgeState /\ lost \subseteq Objects
  BY DEF TypeInv, AttachmentsTyped
<1>b. purge.pc # "resting" => purge \in PurgeState
  BY <1>a DEF Resting
<1>1. purge' \in {Resting} \cup PurgeState /\ lost' \subseteq Objects
  <2>1. CASE PurgeStart
    BY <1>a, <2>1 DEF PurgeStart, PurgeState
  <2>2. CASE PurgeList
    BY <2>2, <1>a, <1>b DEF PurgeList, PurgeState
  <2>3. CASE PurgeFind
    BY <2>3, <1>a, <1>b DEF PurgeFind, PurgeState, Lose
  <2>4. CASE PurgeObject
    BY <2>4, <1>a, <1>b DEF PurgeObject, PurgeState
  <2>5. CASE PurgeNext
    BY <2>5, <1>a DEF PurgeNext, NextDir, PurgeState
  <2>6. CASE PurgeFail
    BY <2>6, <1>a DEF PurgeFail, NextDir, PurgeState
  <2> QED  BY <2>1, <2>2, <2>3, <2>4, <2>5, <2>6 DEF PurgeStep
<1> QED  BY <1>a, <1>1, PurgeFrame DEF TypeInv, AttachmentsTyped

LEMMA NextType == TypeInv /\ [AttachmentsNext]_attachmentVars => TypeInv'
<1> SUFFICES ASSUME TypeInv, [AttachmentsNext]_attachmentVars PROVE TypeInv'
  OBVIOUS
<1>1. CASE UNCHANGED attachmentVars
  BY <1>1 DEF attachmentVars, TypeInv, AttachmentsTyped
<1>2. CASE AttachmentsNext
  BY <1>2, StepType, PurgeType DEF AttachmentsNext
<1> QED  BY <1>1, <1>2

(* The variables have their types whatever the calls do, fail or die at. *)
THEOREM AttachmentsTypeCorrect == AttachmentsSpec => []AttachmentsTyped
<1>1. AttachmentsSpec => []TypeInv
  BY InitType, NextType, PTL DEF AttachmentsSpec
<1>2. TypeInv => AttachmentsTyped
  BY DEF TypeInv
<1> QED  BY <1>1, <1>2, PTL

-----------------------------------------------------------------------------
(* Whose name is whose *)

(* A base name belongs to one row, or to one call, and to nobody before the clock
   reaches it.  The predefined thumbnails, of base 0, belong to nobody. *)
NamesApart ==
    /\ \A c \in Calls : \A q \in Hand(c) : q.base \in 0..clock
    /\ \A c, d \in Calls : c # d =>
          \A q \in Hand(c), o \in Hand(d) : q.base # 0 => q.base # o.base
    /\ \A i \in DOMAIN rows : \A o \in rows[i] :
          /\ o.base \in 0..clock
          /\ \A c \in Calls : \A q \in Hand(c) : q.base # 0 => q.base # o.base
    /\ \A i, j \in DOMAIN rows : i # j =>
          \A o \in rows[i], q \in rows[j] : o.base # 0 => o.base # q.base

LEMMA InitNames == AttachmentsInit => NamesApart
  BY DEF AttachmentsInit, NamesApart, Hand

(* A step that commits nothing, and takes no base name but, for c, one that c has. *)
LEMMA QuietStep ==
    ASSUME NamesApart, NEW c \in Calls, UNCHANGED <<rows, clock>>, Others(c),
           \A q \in Hand(c)' : q.base = 0 \/ \E o \in Hand(c) : o.base = q.base,
           clock \in Nat
    PROVE  NamesApart'
<1>1. \A d \in Calls : \A q \in Hand(d)' : q.base = 0 \/ \E o \in Hand(d) : o.base = q.base
  BY DEF Others
<1>2. \A d \in Calls : \A q \in Hand(d)' : q.base \in 0..clock'
  BY <1>1 DEF NamesApart
<1>3. \A d, e \in Calls : d # e =>
         \A q \in Hand(d)', o \in Hand(e)' : q.base # 0 => q.base # o.base
  BY <1>1 DEF NamesApart
<1>4. \A i \in DOMAIN rows' : \A o \in rows'[i] :
         /\ o.base \in 0..clock'
         /\ \A d \in Calls : \A q \in Hand(d)' : q.base # 0 => q.base # o.base
  BY <1>1 DEF NamesApart
<1> QED  BY <1>2, <1>3, <1>4 DEF NamesApart

LEMMA PutFileNames ==
    ASSUME TypeInv, NamesApart, NEW c \in Calls, PutFile(c)
    PROVE  NamesApart'
<1>1. /\ Others(c) /\ UNCHANGED rows /\ clock' = clock + 1 /\ clock \in Nat
      /\ Hand(c)' \subseteq Hand(c) \cup {File(clock')}
  BY PutFileStep, MaxFilesAssumption DEF TypeInv, AttachmentsTyped
<1>2. \A q : q.base \in 0..clock => q.base \in 0..clock' /\ q.base # clock'
  BY <1>1
<1>3. File(clock').base = clock' /\ clock' \in 0..clock' /\ clock' # 0
  BY <1>1, Bases
<1>4. \A d \in Calls : \A q \in Hand(d)' : q \in Hand(d) \/ (d = c /\ q = File(clock'))
  BY <1>1 DEF Others
<1>5. \A d \in Calls : \A q \in Hand(d)' : q.base \in 0..clock'
  BY <1>2, <1>3, <1>4 DEF NamesApart
<1>6. \A d, e \in Calls : d # e =>
         \A q \in Hand(d)', o \in Hand(e)' : q.base # 0 => q.base # o.base
  BY <1>2, <1>3, <1>4 DEF NamesApart
<1>7. \A i \in DOMAIN rows' : \A o \in rows'[i] :
         /\ o.base \in 0..clock'
         /\ \A d \in Calls : \A q \in Hand(d)' : q.base # 0 => q.base # o.base
  BY <1>1, <1>2, <1>3, <1>4 DEF NamesApart
<1> QED  BY <1>1, <1>5, <1>6, <1>7 DEF NamesApart

LEMMA CommitNames ==
    ASSUME TypeInv, NamesApart, NEW c \in Calls, Commit(c)
    PROVE  NamesApart'
<1>1. Others(c) /\ Ends(c) /\ UNCHANGED clock
  BY CommitStep
<1>2. PICK New \in SUBSET DOMAIN rows' :
         /\ \A i \in New : rows'[i] \subseteq Hand(c)
         /\ \A i, j \in New : i # j =>
               \A o \in rows'[i], q \in rows'[j] : o.base # 0 => o.base # q.base
         /\ \A i \in DOMAIN rows' \ New : i \in DOMAIN rows /\ rows'[i] = rows[i]
  BY CommitStep
<1>3. \A d \in Calls : \A q \in Hand(d)' : d # c /\ q \in Hand(d)
  BY <1>1 DEF Others, Ends
<1>4. \A d \in Calls : \A q \in Hand(d)' : q.base \in 0..clock'
  BY <1>1, <1>3 DEF NamesApart
<1>5. \A d, e \in Calls : d # e =>
         \A q \in Hand(d)', o \in Hand(e)' : q.base # 0 => q.base # o.base
  BY <1>3 DEF NamesApart
<1>6. \A i \in DOMAIN rows' : \A o \in rows'[i] :
         /\ o.base \in 0..clock'
         /\ \A d \in Calls : \A q \in Hand(d)' : q.base # 0 => q.base # o.base
  BY <1>1, <1>2, <1>3 DEF NamesApart
<1>7. \A i, j \in DOMAIN rows' : i # j =>
         \A o \in rows'[i], q \in rows'[j] : o.base # 0 => o.base # q.base
  <2> SUFFICES ASSUME NEW i \in DOMAIN rows', NEW j \in DOMAIN rows', i # j,
                      NEW o \in rows'[i], NEW q \in rows'[j], o.base # 0, o.base = q.base
               PROVE  FALSE
    OBVIOUS
  <2>1. CASE i \in New /\ j \in New
    BY <1>2, <2>1
  <2>2. CASE i \in New /\ j \notin New
    BY <1>2, <2>2 DEF NamesApart
  <2>3. CASE i \notin New /\ j \in New
    BY <1>2, <2>3 DEF NamesApart
  <2>4. CASE i \notin New /\ j \notin New
    BY <1>2, <2>4 DEF NamesApart
  <2> QED  BY <2>1, <2>2, <2>3, <2>4
<1> QED  BY <1>4, <1>5, <1>6, <1>7 DEF NamesApart

LEMMA StepNames ==
    ASSUME TypeInv, NamesApart, NEW c \in Calls, CallStep(c)
    PROVE  NamesApart'
<1>a. clock \in Nat
  BY MaxFilesAssumption DEF TypeInv, AttachmentsTyped
<1>1. ASSUME UNCHANGED <<rows, clock>>, Others(c),
             \A q \in Hand(c)' : q.base = 0 \/ \E o \in Hand(c) : o.base = q.base
      PROVE  NamesApart'
  BY <1>a, <1>1, QuietStep
<1>2. ASSUME UNCHANGED <<rows, clock>>, Others(c), Hand(c)' = {} \/ Hand(c)' = Hand(c)
      PROVE  NamesApart'
  BY <1>1, <1>2
<1>3. CASE StartUpload(c) \/ StartDelete(c)
  BY <1>2, <1>3, StartUploadStep, StartDeleteStep
<1>4. CASE StartReplace(c)
  BY <1>2, <1>4, StartReplaceStep
<1>5. CASE NextRow(c)
  BY <1>2, <1>5, NextRowStep DEF Ends
<1>6. CASE PutFile(c)
  BY <1>6, PutFileNames
<1>7. CASE PutThumb(c)
  <2>1. PICK o \in {Thumb(call[c].n)} \cup Predefined : Hand(c)' \subseteq Hand(c) \cup {o}
    BY <1>7, PutThumbStep
  <2>2. UNCHANGED <<rows, clock>> /\ Others(c) /\ File(call[c].n) \in Hand(c)
    BY <1>7, PutThumbStep
  <2>3. o.base = 0 \/ o.base = File(call[c].n).base
    BY <2>1, Bases, PredefinedAssumption
  <2>4. \A q \in Hand(c)' : q.base = 0 \/ \E p \in Hand(c) : p.base = q.base
    BY <2>1, <2>2, <2>3
  <2> QED  BY <1>1, <2>2, <2>4
<1>8. CASE SaveRow(c)
  BY <1>2, <1>8, SaveRowStep
<1>9. CASE DropObject(c)
  BY <1>2, <1>9, DropObjectStep
<1>10. CASE Commit(c)
  BY <1>10, CommitNames
<1>11. CASE Throw(c)
  BY <1>2, <1>11, ThrowStep
<1>12. CASE UndoObject(c)
  BY <1>2, <1>12, UndoStep DEF Ends
<1>13. CASE Crash(c)
  BY <1>2, <1>13, CrashStep DEF Ends
<1> QED  BY <1>3, <1>4, <1>5, <1>6, <1>7, <1>8, <1>9, <1>10, <1>11, <1>12, <1>13 DEF CallStep

LEMMA NextNames == TypeInv /\ NamesApart /\ [AttachmentsNext]_attachmentVars => NamesApart'
<1> SUFFICES ASSUME TypeInv, NamesApart, [AttachmentsNext]_attachmentVars PROVE NamesApart'
  OBVIOUS
<1>1. ASSUME UNCHANGED <<rows, clock, call>> PROVE NamesApart'
  BY <1>1 DEF NamesApart, Hand, InHand
<1>2. CASE UNCHANGED attachmentVars
  BY <1>1, <1>2 DEF attachmentVars
<1>3. CASE PurgeStep \/ PurgeFail
  BY <1>1, <1>3, PurgeFrame
<1>4. ASSUME NEW c \in Calls, CallStep(c) PROVE NamesApart'
  BY <1>4, StepNames
<1> QED  BY <1>2, <1>3, <1>4 DEF AttachmentsNext

-----------------------------------------------------------------------------
(* Rows keep their objects *)

(* An object of the row that c replaces or deletes, if of any, and of no other call. *)
Old(c, o) ==
    /\ \A d \in Calls : \A q \in Hand(d) : q.base # o.base
    /\ \A i \in DOMAIN rows : o \in rows[i] => i \in call[c].ids

Keys == IF purge = Resting THEN {} ELSE purge.keys

(* What c has put is in S3 until it gives up, and what it deletes is its own. *)
Kept(c) ==
    call[c] # NoCall =>
      /\ call[c].pc # "undo" => Hand(c) \subseteq bucket \cup lost
      /\ call[c].pc = "thumb" => Thumb(call[c].n) \notin bucket \cup Keys
      /\ call[c].pc = "undo" => \A o \in call[c].drop : o \in Hand(c) /\ o.base # 0
      /\ call[c].pc # "undo" => \A o \in call[c].drop \cup call[c].dropped :
            o.base \in 0..clock /\ (o.base # 0 => Old(c, o))
      /\ \A o \in call[c].dropped : o.base = 0 => o \in lost

(* What the job is about to delete is nobody's, or known to be lost. *)
PurgeKnows ==
    purge # Resting /\ purge.pc = "delete" =>
       \A o \in Keys : o \in Named \/ o.base = 0 \/ (\E c \in Calls : o \in Hand(c)) => o \in lost

(* Every row has its objects, and no step on its way can take them. *)
ObjectsKept ==
    /\ \A c \in Calls : Kept(c)
    /\ RowsHaveObjects
    /\ Predefined \subseteq bucket \cup lost
    /\ PurgeKnows
    /\ \A o \in bucket \cup Keys : o.base \in 0..clock

LEMMA InitKept == AttachmentsInit => ObjectsKept
<1> SUFFICES ASSUME AttachmentsInit PROVE ObjectsKept
  OBVIOUS
<1>1. RowsHaveObjects
  BY DEF AttachmentsInit, RowsHaveObjects, Named
<1> QED  BY <1>1, PredefinedAssumption DEF AttachmentsInit, ObjectsKept, Kept, PurgeKnows, Keys

LEMMA GoingOf ==
    ASSUME NEW c \in Calls, Others(c)
    PROVE  \A o \in GoingAway : o \in GoingAway' \/ (call[c] # NoCall /\ o \in call[c].dropped)
  BY DEF GoingAway, Running, Others

(* A step of c that commits nothing: what is left to show is about what it takes out of
   the bucket, what it puts there and what it holds afterwards. *)
LEMMA StepKeeps ==
    ASSUME TypeInv, NamesApart, ObjectsKept, NEW c \in Calls,
           Others(c), UNCHANGED <<rows, clock, purge>>, lost \subseteq lost',
           \A q \in Hand(c)' : q.base = 0 \/ \E p \in Hand(c) : p.base = q.base,
           \A o \in bucket \ bucket' :
              \/ o \in lost'
              \/ /\ o.base # 0
                 /\ o \in Named => o \in GoingAway'
                 /\ \A d \in Calls : d # c => o \notin Hand(d),
           \A o \in GoingAway : o \in GoingAway' \cup lost',
           \A o \in bucket' \ bucket : o.base # 0 /\ \E p \in Hand(c) : p.base = o.base,
           \A q \in Hand(c)' : q.base = 0 \/ q \in Hand(c) \/ q \notin Keys,
           Kept(c)'
    PROVE  ObjectsKept'
<1>1. Keys' = Keys /\ Named' = Named
  BY DEF Keys, Named
<1>2. ASSUME NEW d \in Calls, d # c PROVE Kept(d)'
  <2>1. call'[d] = call[d] /\ Hand(d)' = Hand(d)
    BY <1>2 DEF Others
  <2> SUFFICES ASSUME call[d] # NoCall PROVE Kept(d)'
    BY <2>1 DEF Kept
  <2>2. Kept(d)
    BY DEF ObjectsKept
  <2>3. call[d].pc # "undo" => Hand(d)' \subseteq bucket' \cup lost'
    BY <1>2, <2>1, <2>2 DEF Kept
  <2>4. call[d].pc = "thumb" => Thumb(call[d].n) \notin bucket' \cup Keys'
    <3> SUFFICES ASSUME call[d].pc = "thumb" PROVE Thumb(call[d].n) \notin bucket'
      BY <1>1, <2>2 DEF Kept
    <3>1. call[d].n # 0 /\ File(call[d].n) \in Hand(d)
      BY Busy DEF Shape, Hand, InHand
    <3>2. \A p \in Hand(c) : p.base # File(call[d].n).base
      BY <1>2, <3>1, Bases DEF NamesApart
    <3>3. Thumb(call[d].n) \notin bucket' \ bucket
      BY <3>2, Bases
    <3> QED  BY <2>2, <3>3 DEF Kept
  <2>5. \A o : o.base # 0 /\ Old(d, o) => Old(d, o)'
    BY <2>1 DEF Old, Others
  <2>6. call[d].pc # "undo" => \A o \in call[d].drop \cup call[d].dropped :
           o.base \in 0..clock' /\ (o.base # 0 => Old(d, o)')
    BY <2>2, <2>5 DEF Kept
  <2> QED  BY <2>1, <2>2, <2>3, <2>4, <2>6 DEF Kept
<1>3. RowsHaveObjects'
  BY <1>1, PredefinedAssumption DEF ObjectsKept, RowsHaveObjects
<1>4. Predefined \subseteq bucket' \cup lost'
  BY PredefinedAssumption DEF ObjectsKept
<1>5. PurgeKnows'
  <2>1. \A d \in Calls : \A o \in Hand(d)' : o \in Hand(d) \/ o.base = 0 \/ o \notin Keys
    BY DEF Others
  <2> QED  BY <1>1, <2>1 DEF PurgeKnows, ObjectsKept
<1>6. \A o \in bucket' \cup Keys' : o.base \in 0..clock'
  BY <1>1 DEF ObjectsKept, NamesApart
<1> QED  BY <1>2, <1>3, <1>4, <1>5, <1>6 DEF ObjectsKept

(* ... that keeps the bucket: a start, a row read or saved, a failure. *)
LEMMA BucketKeeps ==
    ASSUME TypeInv, NamesApart, ObjectsKept, NEW c \in Calls, Others(c),
           UNCHANGED <<rows, clock, purge, bucket>>, lost \subseteq lost',
           Hand(c)' = Hand(c) \/ Hand(c)' = {},
           \/ call[c] = NoCall
           \/ call[c].dropped \subseteq lost'
           \/ call'[c] # NoCall /\ call[c].dropped \subseteq call'[c].dropped,
           Kept(c)'
    PROVE  ObjectsKept'
<1>1. \A o \in GoingAway : o \in GoingAway' \cup lost'
  BY GoingOf DEF GoingAway, Running
<1> QED  BY <1>1, StepKeeps

LEMMA EndKeeps ==
    ASSUME TypeInv, NamesApart, ObjectsKept, NEW c \in Calls, Others(c), Ends(c),
           UNCHANGED <<rows, clock, purge, bucket>>, lost' = lost \cup call[c].dropped
    PROVE  ObjectsKept'
  BY BucketKeeps DEF Ends, Kept

LEMMA StartKeeps ==
    ASSUME TypeInv, NamesApart, ObjectsKept, NEW c \in Calls,
           StartUpload(c) \/ StartReplace(c) \/ StartDelete(c)
    PROVE  ObjectsKept'
<1>1. /\ Others(c) /\ Hand(c)' = {} /\ UNCHANGED <<bucket, rows, clock, purge, lost>>
      /\ call[c] = NoCall /\ call'[c] # NoCall /\ call'[c].pc \in {"file", "row"}
      /\ call'[c].dropped = {}
      /\ \/ call'[c].drop = {}
         \/ \E id \in DOMAIN rows : call'[c].drop = rows[id] /\ id \in call'[c].ids
  BY StartUploadStep, StartReplaceStep, StartDeleteStep
<1>2. ASSUME NEW id \in DOMAIN rows, NEW o \in rows[id], id \in call'[c].ids
      PROVE  o.base \in 0..clock' /\ (o.base # 0 => Old(c, o)')
  <2>1. o.base \in 0..clock
    BY DEF NamesApart
  <2>2. \A d \in Calls : \A q \in Hand(d) : q.base # 0 => q.base # o.base
    BY DEF NamesApart
  <2>3. \A i \in DOMAIN rows : o.base # 0 /\ o \in rows[i] => i = id
    BY DEF NamesApart
  <2>4. \A d \in Calls : \A q \in Hand(d)' : q \in Hand(d)
    BY <1>1 DEF Others
  <2> QED  BY <1>1, <1>2, <2>1, <2>2, <2>3, <2>4 DEF Old
<1>3. \A o \in call'[c].drop \cup call'[c].dropped :
         o.base \in 0..clock' /\ (o.base # 0 => Old(c, o)')
  BY <1>1, <1>2
<1>4. Kept(c)'
  BY <1>1, <1>3 DEF Kept
<1> QED  BY <1>1, <1>4, BucketKeeps

LEMMA NextRowKeeps ==
    ASSUME TypeInv, NamesApart, ObjectsKept, NEW c \in Calls, NextRow(c)
    PROVE  ObjectsKept'
<1>1. Others(c) /\ UNCHANGED <<bucket, rows, clock, purge>>
  BY NextRowStep
<1>a. call[c] # NoCall /\ call[c].pc = "row"
  BY DEF NextRow, NoCall
<1>2. CASE Ends(c) /\ lost' = lost \cup call[c].dropped
  BY <1>1, <1>2, EndKeeps
<1>3. CASE /\ GoesOn(c) /\ Hand(c)' = Hand(c) /\ lost' = lost /\ call'[c].pc = "drop"
           /\ call'[c].dropped = call[c].dropped
           /\ \E id \in call[c].ids \cap DOMAIN rows : call'[c].drop = rows[id]
  <2>1. PICK id \in call[c].ids \cap DOMAIN rows : call'[c].drop = rows[id]
    BY <1>3
  <2>2. call'[c].ids = call[c].ids /\ Kept(c)
    BY <1>3 DEF GoesOn, ObjectsKept
  <2>3. \A d \in Calls : Hand(d)' = Hand(d)
    BY <1>1, <1>3 DEF Others
  <2>4. \A o : Old(c, o) => Old(c, o)'
    BY <1>1, <2>2, <2>3 DEF Old
  <2>5. \A o \in rows[id] : o.base \in 0..clock' /\ (o.base # 0 => Old(c, o)')
    <3> SUFFICES ASSUME NEW o \in rows[id]
                 PROVE  o.base \in 0..clock' /\ (o.base # 0 => Old(c, o)')
      OBVIOUS
    <3>1. o.base \in 0..clock
      BY <2>1 DEF NamesApart
    <3>2. \A d \in Calls : \A q \in Hand(d) : q.base # 0 => q.base # o.base
      BY <2>1 DEF NamesApart
    <3>3. \A i \in DOMAIN rows : o.base # 0 /\ o \in rows[i] => i = id
      BY <2>1 DEF NamesApart
    <3> QED  BY <1>1, <2>1, <2>2, <2>3, <3>1, <3>2, <3>3 DEF Old
  <2>6. \A o \in call'[c].drop \cup call'[c].dropped :
           o.base \in 0..clock' /\ (o.base # 0 => Old(c, o)')
    BY <1>1, <1>3, <1>a, <2>1, <2>2, <2>4, <2>5 DEF Kept
  <2>7. Kept(c)'
    BY <1>1, <1>3, <1>a, <2>2, <2>6 DEF Kept
  <2> QED  BY <1>1, <1>3, <2>7, BucketKeeps DEF GoesOn
<1> QED  BY <1>2, <1>3, NextRowStep

(* The parts of Kept that are about rows, for a call that goes on with its hand. *)
LEMMA OldStays ==
    ASSUME NEW c \in Calls, Others(c), GoesOn(c), UNCHANGED rows,
           \A q \in Hand(c)' : q.base = 0 \/ \E p \in Hand(c) : p.base = q.base
    PROVE  \A o : o.base # 0 /\ Old(c, o) => Old(c, o)'
  BY DEF Old, Others, GoesOn

LEMMA PutThumbKeeps ==
    ASSUME TypeInv, NamesApart, ObjectsKept, NEW c \in Calls, PutThumb(c)
    PROVE  ObjectsKept'
<1> DEFINE n == call[c].n
<1>1. /\ Others(c) /\ UNCHANGED <<rows, clock, purge, lost>> /\ GoesOn(c)
      /\ call'[c].drop = call[c].drop /\ call'[c].dropped = call[c].dropped
      /\ call[c].pc = "thumb" /\ call'[c].pc \in {"save", "drop"} /\ File(n) \in Hand(c)
  BY PutThumbStep
<1>2. PICK o \in {Thumb(n)} \cup Predefined :
         /\ Hand(c)' \subseteq Hand(c) \cup {o}
         /\ bucket' = IF o \in Predefined THEN bucket ELSE bucket \cup {o}
  BY PutThumbStep
<1>3. call[c] # NoCall /\ call'[c] # NoCall /\ n # 0 /\ Kept(c) /\ Thumb(n) \notin Keys
  BY <1>1, Busy DEF GoesOn, Shape, ObjectsKept, Kept
<1>4. (o.base = 0 /\ o \in Predefined) \/ (o.base # 0 /\ o = Thumb(n) /\ o.base = File(n).base)
  BY <1>2, <1>3, Bases, PredefinedAssumption
<1>5. \A q \in Hand(c)' : q.base = 0 \/ \E p \in Hand(c) : p.base = q.base
  BY <1>1, <1>2, <1>4
<1>6. \A q \in Hand(c)' : q.base = 0 \/ q \in Hand(c) \/ q \notin Keys
  BY <1>2, <1>3, <1>4
<1>7. \A q \in bucket' \ bucket : q.base # 0 /\ \E p \in Hand(c) : p.base = q.base
  BY <1>1, <1>2, <1>4, PredefinedAssumption
<1>8. bucket \subseteq bucket' /\ Hand(c)' \subseteq bucket' \cup lost'
  BY <1>1, <1>2, <1>3 DEF Kept, ObjectsKept
<1>9. \A q \in call'[c].drop \cup call'[c].dropped :
         q.base \in 0..clock' /\ (q.base # 0 => Old(c, q)')
  BY <1>1, <1>3, <1>5, OldStays DEF Kept
<1>10. Kept(c)'
  BY <1>1, <1>3, <1>8, <1>9 DEF Kept
<1>11. \A q \in GoingAway : q \in GoingAway'
  BY <1>1, <1>3, GoingOf DEF GoingAway, Running
<1> QED  BY <1>1, <1>5, <1>6, <1>7, <1>8, <1>10, <1>11, StepKeeps

LEMMA SaveRowKeeps ==
    ASSUME TypeInv, NamesApart, ObjectsKept, NEW c \in Calls, SaveRow(c)
    PROVE  ObjectsKept'
<1>1. /\ Others(c) /\ UNCHANGED <<bucket, rows, clock, purge, lost>>
      /\ GoesOn(c) /\ Hand(c)' = Hand(c) /\ call'[c].pc \in {"file", "commit"}
      /\ call'[c].drop = call[c].drop /\ call'[c].dropped = call[c].dropped
      /\ call[c].pc = "save"
  BY SaveRowStep
<1>2. call[c] # NoCall /\ call'[c] # NoCall /\ Kept(c)
  BY <1>1 DEF GoesOn, ObjectsKept
<1>3. \A q \in call'[c].drop \cup call'[c].dropped :
         q.base \in 0..clock' /\ (q.base # 0 => Old(c, q)')
  BY <1>1, <1>2, OldStays DEF Kept
<1>4. Kept(c)'
  BY <1>1, <1>2, <1>3 DEF Kept
<1> QED  BY <1>1, <1>2, <1>4, BucketKeeps

LEMMA DropObjectKeeps ==
    ASSUME TypeInv, NamesApart, ObjectsKept, NEW c \in Calls, DropObject(c)
    PROVE  ObjectsKept'
<1>1. /\ Others(c) /\ UNCHANGED <<rows, clock, purge>> /\ GoesOn(c) /\ Hand(c)' = Hand(c)
      /\ call'[c].pc \in {"drop", "row", "commit"} /\ call[c].pc = "drop" /\ TypeInv'
  BY DropObjectStep
<1>2. PICK o \in call[c].drop :
         /\ bucket' = bucket \ {o}
         /\ call'[c].drop = call[c].drop \ {o}
         /\ call'[c].dropped = call[c].dropped \cup {o}
         /\ lost' = lost \cup ({o} \cap Predefined)
  BY DropObjectStep
<1>3. call[c] # NoCall /\ call'[c] # NoCall /\ Kept(c) /\ o \in Objects
  BY <1>1, Busy DEF GoesOn, ObjectsKept, CallState
<1>4. o.base = 0 => o \in lost'
  BY <1>2, <1>3, Bases
<1>5. \A d \in Calls : o.base # 0 => o \notin Hand(d)
  BY <1>1, <1>3 DEF Kept, Old
<1>6. o \in GoingAway'
  BY <1>2, <1>3 DEF GoingAway, Running
<1>7. \A q \in GoingAway : q \in GoingAway'
  BY <1>1, <1>2, <1>3, GoingOf DEF GoingAway, Running
<1>8. \A q \in call'[c].drop \cup call'[c].dropped :
         q.base \in 0..clock' /\ (q.base # 0 => Old(c, q)')
  BY <1>1, <1>2, <1>3, OldStays DEF Kept
<1>9. Hand(c)' \subseteq bucket' \cup lost'
  BY <1>1, <1>2, <1>3, <1>4, <1>5 DEF Kept
<1>10. \A q \in call'[c].dropped : q.base = 0 => q \in lost'
  BY <1>2, <1>3, <1>4 DEF Kept
<1>11. Kept(c)'
  BY <1>1, <1>3, <1>8, <1>9, <1>10 DEF Kept
<1>12. \A q \in bucket \ bucket' :
         \/ q \in lost'
         \/ /\ q.base # 0
            /\ q \in Named => q \in GoingAway'
            /\ \A d \in Calls : d # c => q \notin Hand(d)
  BY <1>2, <1>4, <1>5, <1>6
<1> QED  BY <1>1, <1>2, <1>7, <1>11, <1>12, StepKeeps

LEMMA ThrowKeeps ==
    ASSUME TypeInv, NamesApart, ObjectsKept, NEW c \in Calls, Throw(c)
    PROVE  ObjectsKept'
<1>1. /\ TypeInv' /\ Others(c) /\ UNCHANGED <<bucket, rows, clock, purge, lost>>
      /\ GoesOn(c) /\ Hand(c)' = Hand(c) /\ call'[c].pc = "undo"
      /\ call'[c].dropped = {} /\ call[c].dropped = {}
      /\ \A o \in call'[c].drop : o \in Hand(c) /\ o.base # 0
  BY ThrowStep
<1>2. Kept(c)'
  BY <1>1 DEF Kept
<1> QED  BY <1>1, <1>2, BucketKeeps DEF GoesOn

LEMMA UndoKeeps ==
    ASSUME TypeInv, NamesApart, ObjectsKept, NEW c \in Calls, UndoObject(c)
    PROVE  ObjectsKept'
<1>1. /\ TypeInv' /\ Others(c) /\ UNCHANGED <<rows, clock, purge, lost>>
      /\ call[c] # NoCall /\ call[c].pc = "undo" /\ call[c].dropped = {}
      /\ \/ Ends(c)
         \/ /\ GoesOn(c) /\ Hand(c)' = Hand(c) /\ call'[c].pc = "undo"
            /\ call'[c].drop \subseteq call[c].drop /\ call'[c].dropped = {}
  BY UndoStep
<1>2. PICK o \in call[c].drop : bucket' \in {bucket, bucket \ {o}}
  BY UndoStep
<1>3. o \in Hand(c) /\ o.base # 0 /\ Kept(c)
  BY <1>1, <1>2 DEF ObjectsKept, Kept
<1>4. /\ \A d \in Calls : d # c => o \notin Hand(d)
      /\ o \notin Named
  BY <1>3 DEF NamesApart, Named
<1>5. \A q \in GoingAway : q \in GoingAway'
  BY <1>1, GoingOf
<1>6. Kept(c)'
  BY <1>1, <1>3 DEF Kept, Ends, GoesOn
<1>7. bucket' \subseteq bucket /\ \A q \in bucket \ bucket' : q = o
  BY <1>2
<1>8. \A q \in Hand(c)' : q \in Hand(c)
  BY <1>1 DEF Ends
<1> QED  BY <1>1, <1>3, <1>4, <1>5, <1>6, <1>7, <1>8, StepKeeps

LEMMA PutFileKeeps ==
    ASSUME TypeInv, NamesApart, ObjectsKept, NEW c \in Calls, PutFile(c)
    PROVE  ObjectsKept'
<1> DEFINE k == clock'
<1>1. /\ TypeInv' /\ Others(c) /\ UNCHANGED <<rows, purge, lost>> /\ k = clock + 1
      /\ bucket' = bucket \cup {File(k)} /\ GoesOn(c) /\ Hand(c)' \subseteq Hand(c) \cup {File(k)}
      /\ call'[c].drop = call[c].drop /\ call'[c].dropped = call[c].dropped
      /\ call[c].pc = "file" /\ call'[c].pc = "thumb" /\ call'[c].n = k
  BY PutFileStep
<1>2. clock \in Nat /\ k \in Nat
  BY <1>1, MaxFilesAssumption DEF TypeInv, AttachmentsTyped
<1>3. /\ \A q : q.base \in 0..clock => q.base \in 0..k /\ q # File(k) /\ q # Thumb(k)
      /\ File(k).base \in 0..k /\ File(k).base # 0
  BY <1>1, <1>2, Bases
<1>4. call[c] # NoCall /\ call'[c] # NoCall /\ Keys' = Keys /\ Named' = Named
  BY <1>1 DEF GoesOn, Keys, Named
<1>5. \A d \in Calls : \A q \in Hand(d)' : q \in Hand(d) \/ q = File(k)
  BY <1>1 DEF Others
<1>6. \A o : o.base \in 0..clock => o.base # File(k).base
  BY <1>1, <1>2, Bases
<1>7. ASSUME NEW d \in Calls, NEW o, o.base \in 0..clock, Old(d, o), call'[d].ids = call[d].ids
      PROVE  Old(d, o)'
  BY <1>1, <1>5, <1>6, <1>7 DEF Old
<1>8. ASSUME NEW d \in Calls, call[d] # NoCall, call[d].pc # "undo",
             call'[d].ids = call[d].ids, call'[d].drop = call[d].drop,
             call'[d].dropped = call[d].dropped
      PROVE  \A o \in call'[d].drop \cup call'[d].dropped :
                o.base \in 0..clock' /\ (o.base # 0 => Old(d, o)')
  BY <1>3, <1>7, <1>8 DEF Kept, ObjectsKept
<1>9. Kept(c)'
  <2>1. Kept(c)
    BY DEF ObjectsKept
  <2>2. Hand(c)' \subseteq bucket' \cup lost'
    BY <1>1, <1>4, <2>1 DEF Kept
  <2>3. Thumb(call'[c].n) \notin bucket' \cup Keys'
    <3>1. \A q \in bucket \cup Keys : q # Thumb(k)
      BY <1>3 DEF ObjectsKept
    <3>2. File(k) # Thumb(k)
      BY DEF File, Thumb
    <3> QED  BY <1>1, <1>4, <3>1, <3>2
  <2>4. \A o \in call'[c].drop \cup call'[c].dropped :
           o.base \in 0..clock' /\ (o.base # 0 => Old(c, o)')
    BY <1>1, <1>4, <1>8 DEF GoesOn
  <2> QED  BY <1>1, <1>4, <2>1, <2>2, <2>3, <2>4 DEF Kept
<1>10. ASSUME NEW d \in Calls, d # c PROVE Kept(d)'
  <2>1. call'[d] = call[d] /\ Hand(d)' = Hand(d) /\ Kept(d)
    BY <1>1, <1>10 DEF Others, ObjectsKept
  <2> SUFFICES ASSUME call[d] # NoCall PROVE Kept(d)'
    BY <2>1 DEF Kept
  <2>2. call[d].pc = "thumb" => Thumb(call[d].n) \notin bucket' \cup Keys'
    <3>1. \A m : Thumb(m) # File(k)
      BY DEF File, Thumb
    <3> QED  BY <1>1, <1>4, <2>1, <3>1 DEF Kept
  <2>3. call[d].pc # "undo" => \A o \in call[d].drop \cup call[d].dropped :
           o.base \in 0..clock' /\ (o.base # 0 => Old(d, o)')
    BY <1>8, <2>1
  <2> QED  BY <1>1, <2>1, <2>2, <2>3 DEF Kept
<1>11. RowsHaveObjects'
  <2>1. \A q \in GoingAway : q \in GoingAway'
    BY <1>1, <1>4, GoingOf DEF GoingAway, Running
  <2> QED  BY <1>1, <1>4, <2>1 DEF ObjectsKept, RowsHaveObjects
<1>12. PurgeKnows'
  <2>1. \A o \in Keys : o # File(k)
    BY <1>3 DEF ObjectsKept
  <2> QED  BY <1>1, <1>4, <1>5, <2>1 DEF PurgeKnows, ObjectsKept
<1>13. \A o \in bucket' \cup Keys' : o.base \in 0..clock'
  BY <1>1, <1>3, <1>4 DEF ObjectsKept
<1>14. Predefined \subseteq bucket' \cup lost'
  BY <1>1 DEF ObjectsKept
<1> QED  BY <1>9, <1>10, <1>11, <1>12, <1>13, <1>14 DEF ObjectsKept

LEMMA CommitKeeps ==
    ASSUME TypeInv, NamesApart, ObjectsKept, NEW c \in Calls, Commit(c)
    PROVE  ObjectsKept'
<1>1. /\ Others(c) /\ Ends(c) /\ UNCHANGED <<bucket, clock, purge, lost>>
      /\ call[c] # NoCall /\ call[c].pc = "commit"
  BY CommitStep
<1>2. PICK New \in SUBSET DOMAIN rows' :
         /\ \A i \in New : rows'[i] \subseteq Hand(c)
         /\ \A i \in DOMAIN rows' \ New :
               /\ i \in DOMAIN rows /\ rows'[i] = rows[i]
               /\ i \notin call[c].ids \/ call[c].dropped = {}
  BY CommitStep
<1>3. Kept(c) /\ Keys' = Keys
  BY <1>1 DEF ObjectsKept, Keys
<1>4. \A i \in DOMAIN rows' : \A o \in rows'[i] : o \in Hand(c) \/ (i \in DOMAIN rows /\ o \in rows[i])
  BY <1>2
<1>5. ASSUME NEW d \in Calls, d # c PROVE Kept(d)'
  <2>1. call'[d] = call[d] /\ Hand(d)' = Hand(d) /\ Kept(d)
    BY <1>1, <1>5 DEF Others, ObjectsKept
  <2> SUFFICES ASSUME call[d] # NoCall PROVE Kept(d)'
    BY <2>1 DEF Kept
  <2>2. \A o : Old(d, o) => Old(d, o)'
    <3>1. \A e \in Calls : \A q \in Hand(e)' : q \in Hand(e)
      BY <1>1 DEF Others, Ends
    <3> QED  BY <1>4, <2>1, <3>1 DEF Old
  <2>3. call[d].pc # "undo" => \A o \in call[d].drop \cup call[d].dropped :
           o.base \in 0..clock' /\ (o.base # 0 => Old(d, o)')
    BY <1>1, <2>1, <2>2 DEF Kept
  <2> QED  BY <1>1, <1>3, <2>1, <2>3 DEF Kept
<1>6. Kept(c)'
  BY <1>1 DEF Kept, Ends
<1>7. RowsHaveObjects'
  <2> SUFFICES ASSUME NEW i \in DOMAIN rows', NEW o \in rows'[i]
               PROVE  o \in bucket \cup lost \cup GoingAway'
    BY <1>1 DEF RowsHaveObjects, Named
  <2>1. CASE i \in New
    BY <1>1, <1>2, <1>3, <2>1 DEF Kept
  <2>2. CASE i \notin New
    <3>1. i \in DOMAIN rows /\ o \in rows[i] /\ (i \notin call[c].ids \/ call[c].dropped = {})
      BY <1>2, <2>2
    <3>2. o \in bucket \cup lost \cup GoingAway
      BY <3>1 DEF ObjectsKept, RowsHaveObjects, Named
    <3>3. o \in call[c].dropped => o \in lost
      BY <1>1, <1>3, <3>1 DEF Kept, Old
    <3> QED  BY <1>1, <3>2, <3>3, GoingOf
  <2> QED  BY <2>1, <2>2
<1>8. PurgeKnows'
  <2>1. \A o \in Named' : o \in Named \/ o \in Hand(c)
    BY <1>4 DEF Named
  <2>2. \A d \in Calls : \A o \in Hand(d)' : o \in Hand(d)
    BY <1>1 DEF Others, Ends
  <2> QED  BY <1>1, <1>3, <2>1, <2>2 DEF PurgeKnows, ObjectsKept
<1> QED  BY <1>1, <1>3, <1>5, <1>6, <1>7, <1>8 DEF ObjectsKept

LEMMA CallKeeps ==
    ASSUME TypeInv, NamesApart, ObjectsKept, NEW c \in Calls, CallStep(c)
    PROVE  ObjectsKept'
<1>1. CASE Crash(c)
  BY <1>1, CrashStep, EndKeeps
<1> QED  BY <1>1, StartKeeps, NextRowKeeps, PutFileKeeps, PutThumbKeeps, SaveRowKeeps,
            DropObjectKeeps, CommitKeeps, ThrowKeeps, UndoKeeps DEF CallStep

(* The job deletes nothing that a row names, but what PurgeFind has told the ghost. *)
LEMMA PurgeKeeps ==
    ASSUME TypeInv, ObjectsKept, PurgeStep \/ PurgeFail
    PROVE  ObjectsKept'
<1>1. UNCHANGED <<rows, clock, call>> /\ bucket' \subseteq bucket
  BY PurgeFrame
<1>2. /\ \A c \in Calls : Hand(c)' = Hand(c)
      /\ GoingAway' = GoingAway /\ Named' = Named
      /\ \A c \in Calls : \A o : Old(c, o) <=> Old(c, o)'
  BY <1>1 DEF Hand, InHand, GoingAway, Running, Named, Old
<1>3. /\ purge # Resting => purge \in PurgeState
      /\ \A o \in Keys : o \in Objects
  BY DEF TypeInv, AttachmentsTyped, PurgeState, Keys
<1>4. /\ lost \subseteq lost'
      /\ \A o \in bucket \ bucket' : purge # Resting /\ purge.pc = "delete" /\ o \in Keys
      /\ Keys' \subseteq bucket \cup Keys
      /\ PurgeKnows'
  <2>1. CASE PurgeStart
    BY <1>1, <2>1 DEF PurgeStart, PurgeKnows, Keys, Resting
  <2>2. CASE PurgeList
    <3>1. purge # Resting /\ purge \in PurgeState /\ UNCHANGED <<bucket, lost>>
      BY <1>3, <2>2 DEF PurgeList, Resting
    <3>2. purge'.pc = "find" /\ purge' # Resting /\ purge'.keys \subseteq bucket
      BY <2>2, <3>1 DEF PurgeList, Resting, PurgeState
    <3>3. Keys' \subseteq bucket
      BY <3>2 DEF Keys
    <3> QED  BY <3>1, <3>2, <3>3 DEF PurgeKnows
  <2>3. CASE PurgeFind
    <3>1. purge # Resting /\ purge \in PurgeState /\ Keys = purge.keys /\ bucket' = bucket
      BY <1>3, <2>3 DEF PurgeFind, Keys, Resting
    <3>2. /\ purge'.pc = "delete" /\ Keys' = Keys \ Named
          /\ lost' = lost \cup ((Keys \ Named) \cap
                        (Predefined \cup UNION {InHand(c) : c \in Running}))
      BY <2>3, <3>1 DEF PurgeFind, Lose, Keys, Resting, PurgeState
    <3>3. \A o \in Keys' : o.base = 0 \/ (\E c \in Calls : o \in Hand(c)) => o \in lost'
      BY <1>3, <3>2, HandOfFlight, Bases
    <3> QED  BY <1>2, <3>1, <3>2, <3>3 DEF PurgeKnows
  <2>4. CASE PurgeObject
    <3>1. purge # Resting /\ purge \in PurgeState /\ Keys = purge.keys /\ purge.pc = "delete"
      BY <1>3, <2>4 DEF PurgeObject, Keys, Resting
    <3>2. PICK o \in Keys : bucket' = bucket \ {o} /\ purge' = [purge EXCEPT !.keys = @ \ {o}]
      BY <2>4, <3>1 DEF PurgeObject
    <3>3. Keys' \subseteq Keys /\ lost' = lost
      BY <2>4, <3>1, <3>2 DEF PurgeObject, Keys, PurgeState
    <3> QED  BY <1>2, <3>1, <3>2, <3>3 DEF PurgeKnows, ObjectsKept
  <2>5. CASE PurgeNext
    BY <1>1, <1>3, <2>5 DEF PurgeNext, NextDir, PurgeKnows, Keys, Resting, PurgeState
  <2>6. CASE PurgeFail
    BY <1>1, <1>3, <2>6 DEF PurgeFail, NextDir, PurgeKnows, Keys, Resting, PurgeState
  <2> QED  BY <2>1, <2>2, <2>3, <2>4, <2>5, <2>6 DEF PurgeStep
<1>5. \A o \in bucket \ bucket' :
         o \in Named \/ o.base = 0 \/ (\E c \in Calls : o \in Hand(c)) => o \in lost'
  BY <1>4 DEF PurgeKnows, ObjectsKept
<1>6. RowsHaveObjects'
  BY <1>2, <1>4, <1>5 DEF RowsHaveObjects, ObjectsKept
<1>7. Predefined \subseteq bucket' \cup lost'
  BY <1>4, <1>5, PredefinedAssumption DEF ObjectsKept
<1>8. ASSUME NEW c \in Calls PROVE Kept(c)'
  <2>1. Kept(c) /\ call'[c] = call[c]
    BY <1>1 DEF ObjectsKept
  <2> SUFFICES ASSUME call[c] # NoCall PROVE Kept(c)'
    BY <2>1 DEF Kept
  <2>2. call[c].pc # "undo" => Hand(c)' \subseteq bucket' \cup lost'
    BY <1>2, <1>4, <1>5, <2>1 DEF Kept
  <2>3. call[c].pc = "thumb" => Thumb(call[c].n) \notin bucket' \cup Keys'
    BY <1>1, <1>4, <2>1 DEF Kept
  <2>4. call[c].pc # "undo" => \A o \in call[c].drop \cup call[c].dropped :
           o.base \in 0..clock' /\ (o.base # 0 => Old(c, o)')
    BY <1>1, <1>2, <2>1 DEF Kept
  <2> QED  BY <1>2, <1>4, <2>1, <2>2, <2>3, <2>4 DEF Kept
<1>9. \A o \in bucket' \cup Keys' : o.base \in 0..clock'
  BY <1>1, <1>4 DEF ObjectsKept
<1> QED  BY <1>4, <1>6, <1>7, <1>8, <1>9 DEF ObjectsKept

LEMMA NextKept ==
    TypeInv /\ NamesApart /\ ObjectsKept /\ [AttachmentsNext]_attachmentVars => ObjectsKept'
<1> SUFFICES ASSUME TypeInv, NamesApart, ObjectsKept, [AttachmentsNext]_attachmentVars
             PROVE  ObjectsKept'
  OBVIOUS
<1>1. CASE UNCHANGED attachmentVars
  BY <1>1 DEF attachmentVars, ObjectsKept, Kept, Old, Hand, InHand, PurgeKnows, Keys,
              RowsHaveObjects, GoingAway, Running, Named
<1>2. CASE AttachmentsNext
  BY <1>2, CallKeeps, PurgeKeeps DEF AttachmentsNext
<1> QED  BY <1>1, <1>2

(* Whatever calls of uploadFiles, updateApprovalAttachmentFile and deleteTaskAttachmentEx
   overlap, throw or die, and with purgeS3OrphanFiles among them: an object that a
   committed row names is in S3, but for those that GoingAway and Lose name. *)
THEOREM RowsKeepObjects == AttachmentsSpec => []RowsHaveObjects
<1>1. AttachmentsSpec => [](TypeInv /\ NamesApart /\ ObjectsKept)
  BY InitType, NextType, InitNames, NextNames, InitKept, NextKept, PTL DEF AttachmentsSpec
<1>2. ObjectsKept => RowsHaveObjects
  BY DEF ObjectsKept
<1> QED  BY <1>1, <1>2, PTL
=============================================================================
