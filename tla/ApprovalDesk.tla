---------------------------- MODULE ApprovalDesk ----------------------------
(***************************************************************************)
(* What an approval promises its users: the calls take effect one at a     *)
(* time, each on the state the one before it left.  Approvals implements   *)
(* this specification as long as calls do not overlap.                     *)
(***************************************************************************)
EXTENDS Naturals, Sequences, FiniteSets

CONSTANTS Users, Quorums, Panels

VARIABLES row, log

Live    == {i \in DOMAIN log : ~log[i].cancelled}
Acted(u) == \E i \in Live : log[i].user = u
Approves == Cardinality({i \in Live : log[i].kind = "APPROVE"})

Record(k, u) == log' = Append(log, [kind |-> k, user |-> u, cancelled |-> FALSE])

Init ==
    /\ log = << >>
    /\ row \in [status : {"PENDING"}, required : Quorums, assigned : Panels,
                deleted : {FALSE}]

(* An approver who has not acted decides; the approve that makes the quorum
   approves, any rejection rejects. *)
Decide(u) ==
    /\ u \in row.assigned
    /\ ~Acted(u)
    /\ \/ /\ Record("APPROVE", u)
          /\ row' = [row EXCEPT !.status =
                       IF Approves + 1 >= row.required THEN "APPROVED" ELSE @]
       \/ /\ Record("REJECT", u)
          /\ row' = [row EXCEPT !.status = "REJECTED"]

(* An approver takes back an action.  A rejected approval is open again; an
   approved one is if the approves that are left drop below the quorum. *)
Left(i) == IF log[i].kind = "APPROVE" THEN Approves - 1 ELSE Approves
Cancel(i) == log' = [log EXCEPT ![i].cancelled = TRUE]
TakeBack(u) ==
    /\ u \in row.assigned
    /\ \E i \in Live :
          /\ log[i].user = u
          /\ Cancel(i)
          /\ row' = [row EXCEPT !.status =
                       IF @ = "APPROVED" /\ Left(i) >= row.required THEN @ ELSE "PENDING"]

(* What no comment of the service says, and the service does: to take back
   something else than an approve reopens an approval whose approves are just
   enough, although none of them is taken back. *)
TakeBackOther(u) ==
    /\ u \in row.assigned
    /\ row.status = "APPROVED" /\ Approves = row.required
    /\ \E i \in Live : log[i].user = u /\ log[i].kind # "APPROVE" /\ Cancel(i)
    /\ row' = [row EXCEPT !.status = "PENDING"]

(* Somebody who has not acted asks more users to decide. *)
Redirect(u) ==
    /\ ~Acted(u)
    /\ \E new \in Panels : row' = [row EXCEPT !.assigned = @ \cup new]
    /\ Record("REDIRECT", u)

Amend(u) ==
    /\ \E q \in Quorums, a \in Panels :
          row' = [row EXCEPT !.required = q, !.assigned = a]
    /\ Record("UPDATE", u)

Withdraw(u) ==
    /\ row' = [row EXCEPT !.deleted = TRUE]
    /\ Record("DELETE", u)

Next ==
    /\ ~row.deleted
    /\ \E u \in Users : Decide(u) \/ TakeBack(u) \/ TakeBackOther(u) \/ Redirect(u) \/ Amend(u) \/ Withdraw(u)

Spec == Init /\ [][Next]_<<row, log>>
=============================================================================
