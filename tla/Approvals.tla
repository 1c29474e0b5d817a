----------------------------- MODULE Approvals -----------------------------
(***************************************************************************)
(* One row of table approval, the log of its approval_action rows, and the *)
(* API calls that act on it (src/module/approvals/approvals.service.ts).   *)
(*                                                                         *)
(* Every call is one @Transactional() method.  No isolation level is set,  *)
(* so PostgreSQL runs it under READ COMMITTED: each query of the call sees *)
(* what is committed when that query runs, and the writes of the call show *)
(* up together when it commits.  A call is therefore one action for each   *)
(* of its queries and one action for its writes and commit.  An exception  *)
(* anywhere rolls the call back (Abort).                                   *)
(*                                                                         *)
(* The approval_action rows carry one field the table has not: by, the     *)
(* connection whose call inserted the row.  Nothing reads it but the       *)
(* properties.                                                             *)
(***************************************************************************)
EXTENDS Naturals, Sequences, FiniteSets

CONSTANTS
    Users,      \* the users who may call the API
    Requests,   \* the server's connections: each runs one call at a time
    Quorums,    \* the values requiredApprovals is given
    Panels,     \* the values assignedApprovers is given
    MaxLog      \* bound: approval_action rows inserted in a behaviour

ASSUME QuorumsAssumption == Quorums \subseteq Nat
ASSUME PanelsAssumption == Panels \subseteq SUBSET Users
ASSUME MaxLogAssumption == MaxLog \in Nat

VARIABLES
    row,   \* the committed approval row
    log,   \* the committed approval_action rows, in insertion order
    req    \* for each connection, the call in flight and what it has read

vars == <<row, log, req>>

Statuses == {"PENDING", "APPROVED", "REJECTED"}
Deciding == {"APPROVE", "REJECT", "REDIRECT"}   \* guarded by "already acted"
Kinds    == Deciding \cup {"UPDATE", "DELETE"}
Ops      == Kinds \cup {"CANCEL"}

Row   == [status : Statuses, required : Quorums, assigned : SUBSET Users,
          deleted : BOOLEAN]
Entry == [kind : Kinds, user : Users, cancelled : BOOLEAN, by : Requests]

Idle == [pc |-> "idle"]
Call == [pc : {"actions", "own", "write"}, op : Ops, user : Users, row : Row,
         seen : 0..MaxLog, own : 0..MaxLog]

Live == {i \in DOMAIN log : ~log[i].cancelled}
LiveOf(u) == {i \in Live : log[i].user = u}
LiveKind(k) == {i \in Live : log[i].kind = k}

(* What find({where: {approval: {id}, cancelled: false}}) returns: it joins the
   approval, and TypeORM's join leaves a soft-deleted row out. *)
Found(S) == IF row.deleted THEN {} ELSE S

NewEntry(r) == [kind |-> req[r].op, user |-> req[r].user, cancelled |-> FALSE,
                by |-> r]

-----------------------------------------------------------------------------
(* addAprovalToTask and createApprovalAndTask save the row; status gets the
   column's default.  No other call can know its id before they commit. *)
Init ==
    /\ row \in [status : {"PENDING"}, required : Quorums,
                assigned : Panels, deleted : {FALSE}]
    /\ log = << >>
    /\ req = [r \in Requests |-> Idle]

ReadDeletedToo(r, u, op) ==   \* mutant: withDeleted, the soft-deleted row is found
    /\ req[r] = Idle
    /\ op = "CANCEL" => u \in row.assigned
    /\ req' = [req EXCEPT ![r] =
                 [pc |-> IF op \in {"UPDATE", "DELETE"} THEN "write" ELSE "actions",
                  op |-> op, user |-> u, row |-> row, seen |-> 0, own |-> 0]]
    /\ UNCHANGED <<row, log>>

(* A call starts and reads the approval row (findOne: no soft-deleted row).
   cancelApproval checks the approver at once; update and delete read no more. *)
ReadApproval(r, u, op) ==
    /\ req[r] = Idle
    /\ ~row.deleted
    /\ op = "CANCEL" => u \in row.assigned
    /\ req' = [req EXCEPT ![r] =
                 [pc |-> IF op \in {"UPDATE", "DELETE"} THEN "write" ELSE "actions",
                  op |-> op, user |-> u, row |-> row, seen |-> 0, own |-> 0]]
    /\ UNCHANGED <<row, log>>

ReadUnguarded(r) ==   \* mutant: no "already acted" check
    /\ req[r].pc = "actions"
    /\ req[r].op \in Deciding
    /\ req[r].op # "REDIRECT" => req[r].user \in req[r].row.assigned
    /\ req' = [req EXCEPT ![r].pc = "write", ![r].seen = Cardinality(Found(LiveKind("APPROVE")))]
    /\ UNCHANGED <<row, log>>

(* approve, reject and routeToUsers read the uncancelled actions: the user has
   none, and approve and reject want an approver of the row read before.  When
   the approval was deleted in between, there are none to see. *)
ReadActions(r) ==
    /\ req[r].pc = "actions"
    /\ req[r].op \in Deciding
    /\ Found(LiveOf(req[r].user)) = {}
    /\ req[r].op # "REDIRECT" => req[r].user \in req[r].row.assigned
    /\ req' = [req EXCEPT ![r].pc = "write", ![r].seen = Cardinality(Found(LiveKind("APPROVE")))]
    /\ UNCHANGED <<row, log>>

(* cancelApproval reads the uncancelled APPROVE actions ... *)
ReadApproves(r) ==
    /\ req[r].pc = "actions"
    /\ req[r].op = "CANCEL"
    /\ req' = [req EXCEPT ![r].pc = "own", ![r].seen = Cardinality(Found(LiveKind("APPROVE")))]
    /\ UNCHANGED <<row, log>>

ReadAnyAction(r) ==   \* mutant: the query loses its user filter
    /\ req[r].pc = "own"
    /\ \E i \in Found(Live) : req' = [req EXCEPT ![r].pc = "write", ![r].own = i]
    /\ UNCHANGED <<row, log>>

(* ... and then any one uncancelled action of the user, of whatever kind; with
   none, userAction.id throws. *)
ReadOwnAction(r) ==
    /\ req[r].pc = "own"
    /\ \E i \in Found(LiveOf(req[r].user)) :
          req' = [req EXCEPT ![r].pc = "write", ![r].own = i]
    /\ UNCHANGED <<row, log>>

Writing(r, op) == req[r].pc = "write" /\ req[r].op = op
Finish(r) == req' = [req EXCEPT ![r] = Idle]
Insert(r) == Len(log) < MaxLog /\ log' = Append(log, NewEntry(r))
SetStatus(s) == row' = [row EXCEPT !.status = s]

(* The new approve and the ones read before reach the quorum read before. *)
QuorumReached(r) ==
    /\ req[r].seen + 1 >= req[r].row.required
    /\ req[r].row.status # "APPROVED"

Approve(r) ==
    /\ Writing(r, "APPROVE")
    /\ Insert(r)
    /\ IF QuorumReached(r) THEN SetStatus("APPROVED") ELSE UNCHANGED row
    /\ Finish(r)

RejectMisspelt(r) ==   \* mutant: the action's name stored as the status
    /\ Writing(r, "REJECT")
    /\ Insert(r)
    /\ SetStatus("REJECT")
    /\ Finish(r)

Reject(r) ==
    /\ Writing(r, "REJECT")
    /\ Insert(r)
    /\ IF req[r].row.status # "REJECTED" THEN SetStatus("REJECTED") ELSE UNCHANGED row
    /\ Finish(r)

ReopensOnlyApproved(r) ==   \* mutant: a rejected approval stays rejected
    /\ req[r].row.status = "APPROVED"
    /\ req[r].seen < req[r].row.required + 1

ReopensLate(r) ==   \* mutant: the cancelled approve is still counted
    \/ req[r].row.status = "REJECTED"
    \/ /\ req[r].row.status = "APPROVED"
       /\ req[r].seen < req[r].row.required

(* cancelApproval reopens a rejected approval, and an approved one when the
   approves read, less one, no longer make the quorum. *)
Reopens(r) ==
    \/ req[r].row.status = "REJECTED"
    \/ /\ req[r].row.status = "APPROVED"
       /\ req[r].seen < req[r].row.required + 1

CancelApproval(r) ==
    /\ Writing(r, "CANCEL")
    /\ log' = [log EXCEPT ![req[r].own].cancelled = TRUE]
    /\ IF Reopens(r) THEN SetStatus("PENDING") ELSE UNCHANGED row
    /\ Finish(r)

(* update writes the new quorum and approvers and does not look at status. *)
Update(r) ==
    /\ Writing(r, "UPDATE")
    /\ Insert(r)
    /\ \E q \in Quorums, a \in Panels :
          row' = [row EXCEPT !.required = q, !.assigned = a]
    /\ Finish(r)

Delete(r) ==
    /\ Writing(r, "DELETE")
    /\ Insert(r)
    /\ row' = [row EXCEPT !.deleted = TRUE]
    /\ Finish(r)

(* routeToUsers writes back the approvers it read, with the new ones added. *)
RouteToUsers(r) ==
    /\ Writing(r, "REDIRECT")
    /\ Insert(r)
    /\ \E new \in Panels :
          row' = [row EXCEPT !.assigned = req[r].row.assigned \cup new]
    /\ Finish(r)

(* A guard of the call throws, a query fails or the process dies: rollback. *)
Abort(r) ==
    /\ req[r] # Idle
    /\ Finish(r)
    /\ UNCHANGED <<row, log>>

Step(r) ==
    \/ \E u \in Users, op \in Ops : ReadApproval(r, u, op)
    \/ ReadActions(r)
    \/ ReadApproves(r)
    \/ ReadOwnAction(r)
    \/ Approve(r)
    \/ Reject(r)
    \/ CancelApproval(r)
    \/ Update(r)
    \/ Delete(r)
    \/ RouteToUsers(r)
    \/ Abort(r)

Next == \E r \in Requests : Step(r)

Spec == Init /\ [][Next]_vars

-----------------------------------------------------------------------------
(* Every variable has its type; the log holds at most MaxLog rows and what a
   call remembers are rows of it. *)
TypeOK ==
    /\ row \in Row
    /\ log \in Seq(Entry)
    /\ Len(log) <= MaxLog
    /\ req \in [Requests -> {Idle} \cup Call]

(* Overlapping calls.  "User has already acted" is checked on a read, so a user
   may end up with several uncancelled decisions, but never two of the same
   connection while the approval exists: N connections let at most N duplicates
   through.  Once it is deleted, a call that had found it sees no action at all. *)
Closed(n) == \E d \in 1..n : log[d].kind = "DELETE"
OncePerRequest ==
    \A i, j \in Live :
        /\ i < j
        /\ log[i].user = log[j].user
        /\ {log[i].kind, log[j].kind} \subseteq Deciding
        => log[i].by # log[j].by \/ Closed(j - 1)

(* Once the approval is soft-deleted only the calls that had already read it
   can still write: each connection adds at most one row from the DELETE on. *)
OnlyStragglersAfterDelete ==
    \A d, i, j \in DOMAIN log :
        log[d].kind = "DELETE" /\ d <= i /\ i < j => log[i].by # log[j].by

(* The audit trail (comment of ApprovalActionEntity.cancelled): rows are only
   appended, and the one field that ever changes is cancelled, which goes from
   false to true on one row at a time, of a user who is cancelling. *)
AuditStep ==
    /\ Len(log') >= Len(log)
    /\ \A i \in DOMAIN log :
          \/ log'[i] = log[i]
          \/ /\ ~log[i].cancelled
             /\ log'[i] = [log[i] EXCEPT !.cancelled = TRUE]
             /\ \E r \in Requests : /\ req[r] # Idle
                                    /\ req[r].op = "CANCEL"
                                    /\ req[r].user = log[i].user
    /\ Cardinality({i \in DOMAIN log : log'[i] # log[i]}) <= 1
AuditTrail == [][AuditStep]_vars

(* The guard's own claim ('User has already acted on this approval'): nobody has
   two decisions that count.  It holds when calls do not overlap, only then. *)
ActsOnce ==
    \A i, j \in Live :
        i # j /\ {log[i].kind, log[j].kind} \subseteq Deciding
            => log[i].user # log[j].user

(* A rejected approval shows a rejection that still counts (calls one by one). *)
RejectedIsBacked == row.status = "REJECTED" => LiveKind("REJECT") # {}


(* One call at a time, the service is the abstract approval desk: the log as the
   table holds it, and every commit an atomic call.  Where the service departs from
   its comment the desk has a call of its own (TakeBackOther). *)
Table == [i \in DOMAIN log |-> [kind |-> log[i].kind, user |-> log[i].user,
                                cancelled |-> log[i].cancelled]]
Desk == INSTANCE ApprovalDesk WITH log <- Table
ImplementsDesk == Desk!Spec
=============================================================================
