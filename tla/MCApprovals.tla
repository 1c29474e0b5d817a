---- MODULE MCApprovals ----
(* Approvals on a small instance. *)
EXTENDS Approvals, TLC
CONSTANTS u1, u2, u3, c1, c2
TwoUsers == {u1, u2}
ThreeUsers == {u1, u2, u3}
TwoRequests == {c1, c2}
OneRequest == {c1}
SomePanels == {{u1}, {u1, u2}, ThreeUsers}
OnePanel == {{u1}}
ConnectionSymmetry == Permutations(TwoRequests)
====
