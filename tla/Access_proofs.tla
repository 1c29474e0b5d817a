---------------------------- MODULE Access_proofs ----------------------------
(***************************************************************************)
(* Proofs about who may do what.  First of Groups: that rows follow the    *)
(* permission groups.  Then of FolderAccess: the rows of a space and its   *)
(* folders.                                                                *)
(***************************************************************************)
EXTENDS Groups, FolderAccess, Recursion, FiniteSetTheorems, TLAPS

-----------------------------------------------------------------------------
(* The inductive invariant *)

GroupsType ==
    /\ own \in [Members -> SUBSET Rows]
    /\ status \in [PermissionGroups -> Statuses \cup {"GONE"}]
    /\ assigned \in [PermissionGroups -> BOOLEAN]
    /\ userGroups \in [Members -> SUBSET PermissionGroups]
    /\ teamGroups \in [Teams -> SUBSET PermissionGroups]
    /\ teamUsers \in [Teams -> SUBSET Members] /\ teamRow \in [Teams -> BOOLEAN]
    /\ byHand \subseteq Members /\ resplit \subseteq Members
    /\ managed \in 0..MaxPermissionCalls

(* What users and teams are linked to exists. *)
LinkedLive ==
    /\ \A u \in Members : userGroups[u] \subseteq Live
    /\ \A t \in Teams : teamGroups[t] \subseteq Live

(* Whoever is not banned has one row, and it reads: a grant adds to it, a revocation takes from it,
   and neither makes a second one.  Whoever is banned has a banned row beside it. *)
Usual == {{Row({"READ"})}, {Row({"READ", "CUD"})}}
Barrier == [bits |-> {"CUD"}, banned |-> TRUE]
Split == {{Barrier, Row({"READ"})}, {Barrier, Row({"READ", "CUD"})}}
Shape == \A u \in Members : own[u] \in Usual \cup Split

GroupsInv == GroupsType /\ LinkedLive /\ Shape /\ RowsFollow

-----------------------------------------------------------------------------
(* What grants, revocations and bans do to rows *)

Can(R) == \E r \in R : "CUD" \in r.bits /\ ~r.banned

LEMMA RowTypes ==
    /\ Row({"READ"}) \in Rows /\ Row({"CUD"}) \in Rows /\ Row({"READ", "CUD"}) \in Rows
    /\ Barrier \in Rows
BY DEF Row, Rows, Barrier

LEMMA GrantedRows ==
    ASSUME NEW R \in SUBSET Rows, NEW Q \in Granted(R)
    PROVE  Q \in SUBSET Rows
<1>1. CASE R = {}
  BY <1>1, RowTypes DEF Granted
<1>2. CASE R # {}
  <2>1. PICK r \in R : Q = (R \ {r}) \cup {[r EXCEPT !.bits = @ \cup {"CUD"}]}
    BY <1>2 DEF Granted
  <2>2. [r EXCEPT !.bits = @ \cup {"CUD"}] \in Rows
    <3>1. r \in Rows
      OBVIOUS
    <3>2. r.bits \cup {"CUD"} \in {{"CUD"}, {"READ", "CUD"}}
      BY <3>1 DEF Rows
    <3> QED  BY <3>1, <3>2 DEF Rows
  <2> QED  BY <2>1, <2>2
<1> QED  BY <1>1, <1>2

LEMMA RevokedRows ==
    ASSUME NEW R \in SUBSET Rows, NEW Q \in Revoked(R)
    PROVE  Q \in SUBSET Rows
<1>1. ASSUME NEW r \in R, r.bits # {"CUD"}  PROVE [r EXCEPT !.bits = @ \ {"CUD"}] \in Rows
  <2>1. r \in Rows
    OBVIOUS
  <2>2. r.bits \ {"CUD"} = {"READ"}
    BY <1>1, <2>1 DEF Rows
  <2> QED  BY <2>1, <2>2 DEF Rows
<1> QED  BY <1>1 DEF Revoked

(* On the rows of somebody not banned, a grant grants and a revocation revokes. *)
LEMMA GrantedUsual ==
    ASSUME NEW R \in Usual, NEW Q \in Granted(R)
    PROVE  Q \in Usual /\ Can(Q)
<1>1. PICK r \in {Row({"READ"}), Row({"READ", "CUD"})} : R = {r}
  BY DEF Usual
<1>2. Q = {[r EXCEPT !.bits = @ \cup {"CUD"}]}
  BY <1>1 DEF Granted
<1>3. [r EXCEPT !.bits = @ \cup {"CUD"}] = Row({"READ", "CUD"})
  <2>1. r \in Rows
    BY <1>1, RowTypes
  <2>2. r.bits \cup {"CUD"} = {"READ", "CUD"} /\ r.banned = FALSE
    BY <1>1 DEF Row
  <2>3. ASSUME NEW b  PROVE [r EXCEPT !.bits = b] = [bits |-> b, banned |-> r.banned]
    BY <2>1 DEF Rows
  <2> QED  BY <2>2, <2>3 DEF Row
<1>4. Q = {Row({"READ", "CUD"})}
  BY <1>2, <1>3
<1> QED  BY <1>4 DEF Usual, Can, Row

LEMMA RevokedUsual ==
    ASSUME NEW R \in Usual, NEW Q \in Revoked(R)
    PROVE  Q \in Usual /\ ~Can(Q)
<1>1. PICK r \in {Row({"READ"}), Row({"READ", "CUD"})} : R = {r}
  BY DEF Usual
<1>2. r.bits # {"CUD"}
  <2>1. "READ" \in r.bits
    BY <1>1 DEF Row
  <2> QED  BY <2>1
<1>3. Q = {[r EXCEPT !.bits = @ \ {"CUD"}]}
  BY <1>1, <1>2 DEF Revoked
<1>4. [r EXCEPT !.bits = @ \ {"CUD"}] = Row({"READ"})
  <2>1. r \in Rows
    BY <1>1, RowTypes
  <2>2. r.bits \ {"CUD"} = {"READ"} /\ r.banned = FALSE
    BY <1>1 DEF Row
  <2>3. ASSUME NEW b  PROVE [r EXCEPT !.bits = b] = [bits |-> b, banned |-> r.banned]
    BY <2>1 DEF Rows
  <2> QED  BY <2>2, <2>3 DEF Row
<1>5. Q = {Row({"READ"})}
  BY <1>3, <1>4
<1> QED  BY <1>5 DEF Usual, Can, Row

LEMMA ReappliedRows ==
    ASSUME NEW st, NEW S, NEW linked, NEW R \in SUBSET Rows, NEW Q \in Reapplied(st, S, linked, R)
    PROVE  Q \in SUBSET Rows
<1>1. Q \in Granted(R) \/ Q \in Revoked(R) \/ Q = R
  BY DEF Reapplied, Set
<1> QED  BY <1>1, GrantedRows, RevokedRows

(* Reapplying the groups of somebody not banned makes its row say what they say. *)
LEMMA ReappliedUsual ==
    ASSUME NEW st, NEW S, NEW linked, NEW R \in Usual, NEW Q \in Reapplied(st, S, linked, R)
    PROVE  /\ Q \in Usual
           /\ (\E g \in S : st[g] = "DISALLOW") => ~Can(Q)
           /\ (\E g \in S : st[g] = "ALLOW") /\ ~(\E g \in S : st[g] = "DISALLOW") => Can(Q)
<1>1. Q \in Granted(R) \/ Q \in Revoked(R) \/ Q = R
  BY DEF Reapplied, Set
<1>2. Q \in Usual
  BY <1>1, GrantedUsual, RevokedUsual
<1>3. (\E g \in S : st[g] = "DISALLOW") => Q \in Revoked(R)
  BY DEF Reapplied, Set, Decision
<1>4. (\E g \in S : st[g] = "ALLOW") /\ ~(\E g \in S : st[g] = "DISALLOW") => Q \in Granted(R)
  BY DEF Reapplied, Set, Decision
<1> QED  BY <1>2, <1>3, <1>4, GrantedUsual, RevokedUsual

(* What is banned about rows. *)
LEMMA SplitIs ==
    /\ \A R \in Usual : ~\E r \in R : r.banned
    /\ \A R \in Split : \E r \in R : r.banned
    /\ Usual \subseteq SUBSET Rows /\ Split \subseteq SUBSET Rows
    /\ ~Can({Barrier, Row({"READ"})})
<1>1. \A R \in Usual : ~\E r \in R : r.banned
  BY DEF Usual, Row
<1>2. \A R \in Split : \E r \in R : r.banned
  <2>1. Barrier.banned = TRUE /\ \A R \in Split : Barrier \in R
    BY DEF Split, Barrier
  <2> QED  BY <2>1
<1>3. Usual \subseteq SUBSET Rows /\ Split \subseteq SUBSET Rows
  BY RowTypes DEF Usual, Split
<1>4. ~Can({Barrier, Row({"READ"})})
  BY DEF Can, Barrier, Row
<1> QED  BY <1>1, <1>2, <1>3, <1>4

(* The halves of a split row are different. *)
LEMMA Halves ==
    ASSUME NEW R \in Split
    PROVE  \E q \in {Row({"READ"}), Row({"READ", "CUD"})} :
              R = {Barrier, q} /\ R \ {Barrier} = {q} /\ R \ {q} = {Barrier} /\ q.bits # {"CUD"} /\ {q} \in Usual
<1>1. PICK q \in {Row({"READ"}), Row({"READ", "CUD"})} : R = {Barrier, q}
  BY DEF Split
<1>2. "READ" \in q.bits /\ q # Barrier
  BY <1>1 DEF Barrier, Row
<1> QED  BY <1>1, <1>2 DEF Usual

(* A grant or a revocation meets one half of a split row: the banned one stays as it is. *)
LEMMA GrantedSplit ==
    ASSUME NEW R \in Split, NEW Q \in Granted(R)
    PROVE  Q \in Split
<1>1. PICK q \in {Row({"READ"}), Row({"READ", "CUD"})} :
         R = {Barrier, q} /\ R \ {Barrier} = {q} /\ R \ {q} = {Barrier} /\ {q} \in Usual
  BY Halves
<1>2. PICK r \in R : Q = (R \ {r}) \cup {[r EXCEPT !.bits = @ \cup {"CUD"}]}
  BY <1>1 DEF Granted
<1>3. CASE r = Barrier
  <2>1. [Barrier EXCEPT !.bits = @ \cup {"CUD"}] = Barrier
    <3>1. {"CUD"} \cup {"CUD"} = {"CUD"}
      OBVIOUS
    <3> QED  BY <3>1 DEF Barrier
  <2> QED  BY <1>1, <1>2, <1>3, <2>1
<1>4. CASE r = q
  <2>1. {[q EXCEPT !.bits = @ \cup {"CUD"}]} \in Usual
    BY <1>1, GrantedUsual DEF Granted
  <2> QED  BY <1>1, <1>2, <1>4, <2>1 DEF Usual, Split
<1> QED  BY <1>1, <1>3, <1>4

LEMMA RevokedSplit ==
    ASSUME NEW R \in Split, NEW Q \in Revoked(R)
    PROVE  Q \in Split
<1>1. PICK q \in {Row({"READ"}), Row({"READ", "CUD"})} :
         R = {Barrier, q} /\ R \ {Barrier} = {q} /\ R \ {q} = {Barrier} /\ q.bits # {"CUD"} /\ {q} \in Usual
  BY Halves
<1> DEFINE Left(r) == IF r.bits # {"CUD"} THEN {[r EXCEPT !.bits = @ \ {"CUD"}]}
                      ELSE IF r.banned THEN {r} ELSE {}
<1>2. PICK r \in R : Q = (R \ {r}) \cup Left(r)
  BY <1>1 DEF Revoked
<1>3. CASE r = Barrier
  <2>1. Left(Barrier) = {Barrier}
    BY DEF Barrier
  <2> QED  BY <1>1, <1>2, <1>3, <2>1
<1>4. CASE r = q
  <2>1. Left(q) = {[q EXCEPT !.bits = @ \ {"CUD"}]}
    BY <1>1
  <2>2. {[q EXCEPT !.bits = @ \ {"CUD"}]} \in Revoked({q})
    <3>1. ({q} \ {q}) \cup Left(q) \in Revoked({q})
      BY DEF Revoked
    <3>2. ({q} \ {q}) \cup Left(q) = Left(q)
      OBVIOUS
    <3> QED  BY <2>1, <3>1, <3>2
  <2>3. Left(q) \in Usual
    BY <1>1, <2>1, <2>2, RevokedUsual
  <2>4. Q = {Barrier} \cup Left(q)
    BY <1>1, <1>2, <1>4
  <2> HIDE DEF Left
  <2> QED  BY <2>3, <2>4 DEF Usual, Split
<1> QED  BY <1>1, <1>3, <1>4

LEMMA ReappliedSplit ==
    ASSUME NEW st, NEW S, NEW linked, NEW R \in Split, NEW Q \in Reapplied(st, S, linked, R)
    PROVE  Q \in Split
<1>1. Q \in Granted(R) \/ Q \in Revoked(R) \/ Q = R
  BY DEF Reapplied, Set
<1> QED  BY <1>1, GrantedSplit, RevokedSplit

(* The first ban splits the row and leaves the right on the banned half; the next leaves all as it is. *)
LEMMA BanRowsAre ==
    ASSUME NEW R \in Usual \cup Split, NEW Q \in BanRows(R)
    PROVE  IF R \in Usual THEN Q = {Barrier, Row({"READ"})} ELSE Q = R
<1>1. CASE R \in Usual
  <2>1. PICK r : R = {r} /\ r.bits # {"CUD"}
    <3>1. PICK r \in {Row({"READ"}), Row({"READ", "CUD"})} : R = {r}
      BY <1>1 DEF Usual
    <3>2. "READ" \in r.bits
      BY <3>1 DEF Row
    <3> QED  BY <3>1, <3>2
  <2> QED  BY <1>1, <2>1 DEF BanRows, Barrier
<1>2. CASE R \notin Usual
  <2>1. PICK q \in {Row({"READ"}), Row({"READ", "CUD"})} :
           R = {Barrier, q} /\ R \ {Barrier} = {q} /\ q.bits # {"CUD"}
    <3>1. R \in Split
      BY <1>2
    <3> QED  BY <3>1, Halves
  <2>2. {r \in R : r.bits = {"CUD"}} = {Barrier}
    BY <2>1 DEF Barrier
  <2>3. [Barrier EXCEPT !.banned = TRUE] = Barrier
    <3>1. Barrier \in [bits : {{"CUD"}}, banned : {TRUE}]
      BY DEF Barrier
    <3> QED  BY <3>1
  <2>4. Q = (R \ {Barrier}) \cup {Barrier}
    BY <2>2, <2>3 DEF BanRows
  <2> QED  BY <1>2, <2>1, <2>4
<1> QED  BY <1>1, <1>2

-----------------------------------------------------------------------------
(* Steps *)

LEMMA InitInv == GroupsInit => GroupsInv
<1> SUFFICES ASSUME GroupsInit PROVE GroupsInv
  OBVIOUS
<1> USE DEF GroupsInit
<1>1. own \in [Members -> SUBSET Rows]
  BY RowTypes
<1>2. GroupsType
  BY <1>1, PermissionCallsAssumption DEF GroupsType
<1>3. LinkedLive /\ \A u \in Members : own[u] \in Usual
  BY DEF LinkedLive, Usual
<1>4. RowsFollow
  BY <1>3, SplitIs DEF RowsFollow, UserFollows, BanHolds, IsBanned
<1> QED  BY <1>2, <1>3, <1>4 DEF GroupsInv, Shape

LEMMA EveryOne ==
    ASSUME NEW Rs, NEW f \in Every(Rs)
    PROVE  f \in [Members -> UNION {Rs[u] : u \in Members}] /\ \A u \in Members : f[u] \in Rs[u]
BY DEF Every

(* A call that leaves teams alone, and the rows of users right where they have to be. *)
LEMMA UsersStep ==
    ASSUME GroupsInv, Managed, NoTeam,
           own' \in [Members -> Usual \cup Split],
           status' \in [PermissionGroups -> Statuses \cup {"GONE"}], assigned' \in [PermissionGroups -> BOOLEAN],
           userGroups' \in [Members -> SUBSET PermissionGroups], LinkedLive',
           byHand' \subseteq Members, resplit' \subseteq Members,
           \A u \in Members \ byHand' : own'[u] \in Usual =>
               /\ Disallowed(userGroups[u])' => ~Can(own'[u])
               /\ Allowed(userGroups[u])' => Can(own'[u]),
           \A u \in Members \ resplit' : own'[u] \in Split => ~Can(own'[u])
    PROVE  GroupsInv'
<1>1. managed' \in 0..MaxPermissionCalls
  BY PermissionCallsAssumption DEF Managed, GroupsInv, GroupsType
<1>2. GroupsType'
  BY <1>1, SplitIs DEF GroupsInv, GroupsType, NoTeam
<1>3. Shape'
  BY DEF Shape
<1>4. \A u \in Members : /\ OwnCan(u)' <=> Can(own'[u])
                         /\ ~IsBanned(u)' => own'[u] \in Usual
                         /\ IsBanned(u)' => own'[u] \in Split
  BY SplitIs DEF OwnCan, Can, IsBanned
<1>5. UserFollows' /\ BanHolds'
  BY <1>4 DEF UserFollows, BanHolds
<1> QED  BY <1>2, <1>3, <1>5 DEF GroupsInv, RowsFollow

(* What the invariant says of one user. *)
LEMMA OfUser ==
    ASSUME GroupsInv, NEW u \in Members
    PROVE  /\ own[u] \in Usual \cup Split /\ userGroups[u] \subseteq Live /\ userGroups[u] \subseteq PermissionGroups
           /\ own[u] \in Usual <=> ~IsBanned(u)
           /\ own[u] \in Usual /\ u \notin byHand =>
                (Disallowed(userGroups[u]) => ~Can(own[u])) /\ (Allowed(userGroups[u]) => Can(own[u]))
           /\ own[u] \in Split /\ u \notin resplit => ~Can(own[u])
BY SplitIs DEF GroupsInv, GroupsType, LinkedLive, Shape, RowsFollow, UserFollows, BanHolds, OwnCan, IsBanned, Can

LEMMA CreateInv ==
    ASSUME GroupsInv, NEW g \in PermissionGroups, NEW s \in Statuses, CreatePermissionGroup(g, s)
    PROVE  GroupsInv'
<1> USE DEF CreatePermissionGroup, NoUser
<1>1. /\ status' \in [PermissionGroups -> Statuses \cup {"GONE"}] /\ assigned' \in [PermissionGroups -> BOOLEAN]
      /\ \A h \in PermissionGroups : h # g => status'[h] = status[h]
      /\ status'[g] # "GONE" /\ status[g] = "GONE"
  BY DEF GroupsInv, GroupsType, Statuses
<1>2. g \notin Live /\ Live \subseteq Live'
  BY <1>1 DEF Live
<1>3. LinkedLive'
  BY <1>2 DEF NoTeam, GroupsInv, LinkedLive
<1>4. \A u \in Members : \A h \in userGroups[u] : status'[h] = status[h]
  BY <1>1, <1>2 DEF GroupsInv, LinkedLive, Live
<1>5. ASSUME NEW u \in Members
      PROVE  (Disallowed(userGroups[u])' <=> Disallowed(userGroups[u])) /\ (Allowed(userGroups[u])' <=> Allowed(userGroups[u]))
  BY <1>4 DEF Disallowed, Allowed
<1>6. /\ own' \in [Members -> Usual \cup Split] /\ userGroups' \in [Members -> SUBSET PermissionGroups]
      /\ byHand' \subseteq Members /\ resplit' \subseteq Members
  BY DEF GroupsInv, GroupsType, Shape
<1>7. \A u \in Members \ resplit' : own'[u] \in Split => ~Can(own'[u])
  BY OfUser
<1>8. \A u \in Members \ byHand' : own'[u] \in Usual =>
          (Disallowed(userGroups[u])' => ~Can(own'[u])) /\ (Allowed(userGroups[u])' => Can(own'[u]))
  BY <1>5, OfUser
<1>9. Managed /\ NoTeam
  OBVIOUS
<1> QED  BY <1>1, <1>3, <1>6, <1>7, <1>8, <1>9, UsersStep

(* A call that reapplies the groups of the users us, whose groups become fits. *)
LEMMA ReappliedInv ==
    ASSUME GroupsInv, Managed, NEW us \in SUBSET Members, NEW fits \in [Members -> SUBSET PermissionGroups],
           NEW linked, NoTeam,
           status' \in [PermissionGroups -> Statuses \cup {"GONE"}], assigned' \in [PermissionGroups -> BOOLEAN],
           userGroups' = [u \in Members |-> IF u \in us THEN fits[u] ELSE userGroups[u]],
           LinkedLive',
           \A u \in Members \ us : \A g \in userGroups[u] : status'[g] = status[g],
           NEW st, \A u \in us : \A g \in fits[u] : status'[g] = st[g],
           DOMAIN own' = Members, own' = [u \in Members |-> own'[u]],
           \A u \in us : own'[u] \in Reapplied(st, fits[u], linked[u], own[u]),
           \A u \in Members \ us : own'[u] = own[u],
           Followed(us, fits), Met(us)
    PROVE  GroupsInv'
<1>1. /\ byHand' \subseteq Members /\ resplit' \subseteq Members
      /\ userGroups' \in [Members -> SUBSET PermissionGroups]
  BY DEF GroupsInv, GroupsType, Followed, Met
<1>2. \A u \in Members : (own[u] \in Usual => own'[u] \in Usual) /\ (own[u] \in Split => own'[u] \in Split)
  BY ReappliedUsual, ReappliedSplit
<1>3. own' \in [Members -> Usual \cup Split]
  <2>1. \A u \in Members : own'[u] \in Usual \cup Split
    BY <1>2, OfUser
  <2> QED  BY <2>1
<1>4. Usual \cap Split = {}
  BY SplitIs
<1>5. ASSUME NEW u \in Members \ byHand', own'[u] \in Usual
      PROVE  (Disallowed(userGroups[u])' => ~Can(own'[u])) /\ (Allowed(userGroups[u])' => Can(own'[u]))
  <2>1. own[u] \in Usual
    BY <1>2, <1>4, <1>5, OfUser
  <2>2. CASE u \in us
    <3>1. userGroups'[u] = fits[u] /\ \A g \in fits[u] : status'[g] = st[g]
      BY <2>2
    <3>2. own'[u] \in Reapplied(st, fits[u], linked[u], own[u])
      BY <2>2
    <3>3. /\ (\E g \in fits[u] : st[g] = "DISALLOW") => ~Can(own'[u])
          /\ (\E g \in fits[u] : st[g] = "ALLOW") /\ ~(\E g \in fits[u] : st[g] = "DISALLOW") => Can(own'[u])
      BY <2>1, <3>2, ReappliedUsual
    <3> QED  BY <3>1, <3>3 DEF Disallowed, Allowed
  <2>3. CASE u \notin us
    <3>1. userGroups'[u] = userGroups[u] /\ own'[u] = own[u] /\ \A g \in userGroups[u] : status'[g] = status[g]
      BY <2>3
    <3>2. u \notin byHand
      BY <2>3 DEF Followed
    <3>3. (Disallowed(userGroups[u]) => ~Can(own[u])) /\ (Allowed(userGroups[u]) => Can(own[u]))
      BY <2>1, <3>2, OfUser
    <3> QED  BY <3>1, <3>3 DEF Disallowed, Allowed
  <2> QED  BY <2>2, <2>3
<1>6. ASSUME NEW u \in Members \ resplit', own'[u] \in Split  PROVE ~Can(own'[u])
  <2>1. own[u] \in Split /\ IsBanned(u)
    BY <1>2, <1>4, <1>6, OfUser
  <2>2. u \notin resplit /\ own'[u] = own[u]
    BY <1>6, <2>1 DEF Met
  <2> QED  BY <2>1, <2>2, OfUser
<1> QED  BY <1>1, <1>3, <1>5, <1>6, UsersStep

LEMMA UpdateInv ==
    ASSUME GroupsInv, NEW g \in PermissionGroups, NEW s \in Statuses, NEW a \in BOOLEAN, UpdatePermissionGroup(g, s, a)
    PROVE  GroupsInv'
<1> DEFINE st == [status EXCEPT ![g] = s]
           us == OfTheGroup(g)
           linked == [u \in Members |-> {}]
<1>1. /\ Managed /\ NoTeam /\ g \in Live /\ status' = st /\ assigned' = [assigned EXCEPT ![g] = a]
      /\ own' \in Every([u \in Members |-> IF g \in userGroups[u] THEN Reapplied(st, userGroups[u], {}, own[u])
                                           ELSE {own[u]}])
      /\ Followed(us, userGroups) /\ Met(us) /\ UNCHANGED userGroups
  BY DEF UpdatePermissionGroup
<1>2. /\ status' \in [PermissionGroups -> Statuses \cup {"GONE"}] /\ assigned' \in [PermissionGroups -> BOOLEAN]
      /\ \A h \in PermissionGroups : h # g => status'[h] = status[h]
      /\ status'[g] # "GONE"
  BY <1>1 DEF GroupsInv, GroupsType, Statuses
<1>3. Live \subseteq Live'
  BY <1>1, <1>2 DEF Live
<1>4. LinkedLive'
  BY <1>1, <1>3 DEF GroupsInv, LinkedLive, NoTeam
<1> HIDE DEF st
<1>5. \A u \in Members : own'[u] \in IF g \in userGroups[u] THEN Reapplied(st, userGroups[u], {}, own[u]) ELSE {own[u]}
  BY <1>1, EveryOne
<1>6. DOMAIN own' = Members /\ own' = [u \in Members |-> own'[u]]
  BY <1>1, EveryOne
<1>7. userGroups \in [Members -> SUBSET PermissionGroups]
  BY DEF GroupsInv, GroupsType
<1>8. us \in SUBSET Members /\ \A u \in Members : u \in us <=> g \in userGroups[u]
  BY DEF OfTheGroup
<1> HIDE DEF us
<1>9. userGroups' = [u \in Members |-> IF u \in us THEN userGroups[u] ELSE userGroups[u]]
  BY <1>1, <1>7
<1>10. /\ \A u \in Members \ us : \A h \in userGroups[u] : status'[h] = status[h]
       /\ \A u \in us : \A h \in userGroups[u] : status'[h] = st[h]
  BY <1>1, <1>2, <1>7, <1>8
<1>11. /\ \A u \in us : own'[u] \in Reapplied(st, userGroups[u], linked[u], own[u])
       /\ \A u \in Members \ us : own'[u] = own[u]
  BY <1>5, <1>8
<1> HIDE DEF linked
<1> QED  BY <1>1, <1>2, <1>4, <1>6, <1>7, <1>8, <1>9, <1>10, <1>11, ReappliedInv

LEMMA UnlinkedInv ==
    ASSUME GroupsInv, Managed, NoTeam, NEW g, NEW us \in SUBSET Members, Unlinked(g, us),
           status' \in [PermissionGroups -> Statuses \cup {"GONE"}], UNCHANGED assigned,
           \A h \in PermissionGroups : h # g => status'[h] = status[h],
           status' # status => us = OfTheGroup(g) /\ \A t \in Teams : g \notin teamGroups[t]
    PROVE  GroupsInv'
<1> DEFINE fits == [u \in Members |-> userGroups[u] \ {g}]
<1>1. /\ own' \in Every([u \in Members |-> IF u \in us THEN Reapplied(status, fits[u], userGroups[u], own[u])
                                           ELSE {own[u]}])
      /\ userGroups' = [u \in Members |-> IF u \in us THEN fits[u] ELSE userGroups[u]]
      /\ Followed(us, fits) /\ Met(us)
  BY DEF Unlinked
<1>2. /\ userGroups \in [Members -> SUBSET PermissionGroups] /\ teamGroups \in [Teams -> SUBSET PermissionGroups]
      /\ assigned' \in [PermissionGroups -> BOOLEAN]
  BY DEF GroupsInv, GroupsType
<1>3. fits \in [Members -> SUBSET PermissionGroups] /\ \A u \in Members : fits[u] = userGroups[u] \ {g}
  BY <1>2
<1> HIDE DEF fits
<1>4. \A u \in Members : own'[u] \in IF u \in us THEN Reapplied(status, fits[u], userGroups[u], own[u]) ELSE {own[u]}
  BY <1>1, EveryOne
<1>5. DOMAIN own' = Members /\ own' = [u \in Members |-> own'[u]]
  BY <1>1, EveryOne
<1>6. \A u \in Members \ us : g \in userGroups[u] => status' = status
  BY DEF OfTheGroup
<1>7. /\ \A t \in Teams : \A h \in teamGroups[t] : status'[h] = status[h]
      /\ \A u \in Members \ us : \A h \in userGroups[u] : status'[h] = status[h]
      /\ \A u \in us : \A h \in fits[u] : status'[h] = status[h]
  BY <1>2, <1>3, <1>6
<1>8. LinkedLive'
  <2>1. \A u \in Members : userGroups'[u] \subseteq Live /\ \A h \in userGroups'[u] : status'[h] = status[h]
    BY <1>1, <1>3, <1>7, OfUser
  <2>2. \A t \in Teams : teamGroups[t] \subseteq Live
    BY DEF GroupsInv, LinkedLive
  <2> QED  BY <1>7, <2>1, <2>2 DEF LinkedLive, Live, NoTeam
<1>9. /\ \A u \in us : own'[u] \in Reapplied(status, fits[u], userGroups[u], own[u])
      /\ \A u \in Members \ us : own'[u] = own[u]
  BY <1>4
<1> QED  BY <1>1, <1>2, <1>3, <1>5, <1>7, <1>8, <1>9, ReappliedInv

LEMMA DelGroupInv ==
    ASSUME GroupsInv, NEW g \in PermissionGroups, DelPermissionGroup(g)
    PROVE  GroupsInv'
<1>1. /\ Managed /\ NoTeam /\ UNCHANGED assigned /\ Unlinked(g, OfTheGroup(g))
      /\ status' = [status EXCEPT ![g] = "GONE"] /\ \A t \in Teams : g \notin teamGroups[t]
  BY DEF DelPermissionGroup
<1>2. status' \in [PermissionGroups -> Statuses \cup {"GONE"}] /\ \A h \in PermissionGroups : h # g => status'[h] = status[h]
  BY <1>1 DEF GroupsInv, GroupsType
<1>3. OfTheGroup(g) \in SUBSET Members
  BY DEF OfTheGroup
<1> QED  BY <1>1, <1>2, <1>3, UnlinkedInv

LEMMA DelUserInv ==
    ASSUME GroupsInv, NEW g \in PermissionGroups, NEW u \in Members, DelPermissionGroupUser(g, u)
    PROVE  GroupsInv'
<1>1. Managed /\ NoTeam /\ UNCHANGED <<status, assigned>> /\ Unlinked(g, {u})
  BY DEF DelPermissionGroupUser
<1>2. status \in [PermissionGroups -> Statuses \cup {"GONE"}]
  BY DEF GroupsInv, GroupsType
<1> QED  BY <1>1, <1>2, UnlinkedInv

LEMMA SetUserInv ==
    ASSUME GroupsInv, NEW u \in Members, NEW D \in SUBSET PermissionGroups, NEW I \in SUBSET PermissionGroups,
           SetPermissionGroupUser(u, D, I)
    PROVE  GroupsInv'
<1> DEFINE new == (userGroups[u] \ D) \cup I
           fits == [x \in Members |-> new]
           linked == [x \in Members |-> new]
<1>1. /\ Managed /\ I \subseteq Live /\ userGroups' = [userGroups EXCEPT ![u] = new]
      /\ \E R \in Reapplied(status, new, new, own[u]) : own' = [own EXCEPT ![u] = R]
      /\ Followed({u}, fits) /\ Met({u}) /\ UNCHANGED <<status, assigned>> /\ NoTeam
  BY DEF SetPermissionGroupUser
<1>2. /\ userGroups \in [Members -> SUBSET PermissionGroups] /\ own \in [Members -> SUBSET Rows]
      /\ assigned \in [PermissionGroups -> BOOLEAN] /\ status \in [PermissionGroups -> Statuses \cup {"GONE"}]
      /\ userGroups[u] \subseteq Live
  BY OfUser DEF GroupsInv, GroupsType
<1>3. new \in SUBSET PermissionGroups /\ new \subseteq Live
  BY <1>1, <1>2
<1> HIDE DEF new
<1>4. fits \in [Members -> SUBSET PermissionGroups] /\ fits[u] = new /\ linked[u] = new
  BY <1>3
<1>5. PICK R \in Reapplied(status, new, new, own[u]) : own' = [own EXCEPT ![u] = R]
  BY <1>1
<1>6. /\ DOMAIN own' = Members /\ own' = [x \in Members |-> own'[x]]
      /\ own'[u] = R /\ \A x \in Members \ {u} : own'[x] = own[x]
  BY <1>2, <1>5
<1> HIDE DEF fits, linked
<1>7. userGroups' = [x \in Members |-> IF x \in {u} THEN fits[x] ELSE userGroups[x]]
  BY <1>1, <1>2, <1>4
<1>8. LinkedLive'
  BY <1>1, <1>3, <1>4, <1>7 DEF GroupsInv, LinkedLive, Live, NoTeam
<1>9. \A x \in {u} : own'[x] \in Reapplied(status, fits[x], linked[x], own[x])
  BY <1>4, <1>5, <1>6
<1>10. {u} \in SUBSET Members
  OBVIOUS
<1> QED  BY <1>1, <1>2, <1>4, <1>6, <1>7, <1>8, <1>9, <1>10, ReappliedInv

(* A call that changes the rows of one user and no group. *)
LEMMA OneUserInv ==
    ASSUME GroupsInv, Managed, NoTeam, UNCHANGED <<status, assigned, userGroups>>, NEW u \in Members,
           NEW R \in Usual \cup Split, own' = [own EXCEPT ![u] = R],
           byHand' \subseteq Members, byHand \ {u} \subseteq byHand',
           resplit' \subseteq Members, resplit \ {u} \subseteq resplit',
           R \in Usual /\ u \notin byHand' =>
               (Disallowed(userGroups[u]) => ~Can(R)) /\ (Allowed(userGroups[u]) => Can(R)),
           R \in Split /\ u \notin resplit' => ~Can(R)
    PROVE  GroupsInv'
<1>1. /\ status \in [PermissionGroups -> Statuses \cup {"GONE"}] /\ assigned \in [PermissionGroups -> BOOLEAN]
      /\ userGroups \in [Members -> SUBSET PermissionGroups] /\ own \in [Members -> Usual \cup Split]
  BY DEF GroupsInv, GroupsType, Shape
<1>2. own' \in [Members -> Usual \cup Split] /\ own'[u] = R /\ \A x \in Members \ {u} : own'[x] = own[x]
  BY <1>1
<1>3. LinkedLive'
  BY DEF GroupsInv, LinkedLive, Live, NoTeam
<1>4. ASSUME NEW x \in Members \ byHand', own'[x] \in Usual
      PROVE  (Disallowed(userGroups[x])' => ~Can(own'[x])) /\ (Allowed(userGroups[x])' => Can(own'[x]))
  <2>1. (Disallowed(userGroups[x]) => ~Can(own'[x])) /\ (Allowed(userGroups[x]) => Can(own'[x]))
    <3>1. CASE x = u
      BY <1>2, <1>4, <3>1
    <3>2. CASE x # u
      <4>1. x \notin byHand /\ own'[x] = own[x]
        BY <1>2, <3>2
      <4> QED  BY <1>4, <4>1, OfUser
    <3> QED  BY <3>1, <3>2
  <2> QED  BY <2>1 DEF Disallowed, Allowed
<1>5. ASSUME NEW x \in Members \ resplit', own'[x] \in Split  PROVE ~Can(own'[x])
  <2>1. CASE x = u
    BY <1>2, <1>5, <2>1
  <2>2. CASE x # u
    <3>1. x \notin resplit /\ own'[x] = own[x]
      BY <1>2, <2>2
    <3> QED  BY <1>5, <3>1, OfUser
  <2> QED  BY <2>1, <2>2
<1> QED  BY <1>1, <1>2, <1>3, <1>4, <1>5, UsersStep

LEMMA SetPermissionInv ==
    ASSUME GroupsInv, NEW u \in Members, NEW s \in {"ALLOW", "DISALLOW"}, SetPermission(u, s)
    PROVE  GroupsInv'
<1>1. PICK R \in Set(own[u], s) : own' = [own EXCEPT ![u] = R]
  BY DEF SetPermission
<1>2. R \in Granted(own[u]) \/ R \in Revoked(own[u])
  BY <1>1 DEF Set
<1>3. (own[u] \in Usual => R \in Usual) /\ (own[u] \in Split => R \in Split)
  BY <1>2, GrantedUsual, RevokedUsual, GrantedSplit, RevokedSplit
<1>4. Managed /\ NoTeam /\ byHand' = byHand \cup {u} /\ Met({u}) /\ UNCHANGED <<status, assigned, userGroups>>
  BY DEF SetPermission
<1>5. byHand \subseteq Members /\ resplit \subseteq Members /\ own'[u] = R
  BY <1>1 DEF GroupsInv, GroupsType
<1>6. resplit' \subseteq Members /\ resplit \subseteq resplit'
  BY <1>4, <1>5 DEF Met
<1>7. Usual \cap Split = {}
  BY SplitIs
<1>8. ASSUME R \in Split, u \notin resplit'  PROVE ~Can(R)
  <2>1. own[u] \in Split /\ IsBanned(u)
    BY <1>3, <1>7, <1>8, OfUser
  <2>2. u \notin resplit /\ own[u] = R
    BY <1>4, <1>5, <1>8, <2>1 DEF Met
  <2> QED  BY <2>1, <2>2, OfUser
<1>9. R \in Usual \cup Split
  BY <1>3, OfUser
<1> QED  BY <1>1, <1>4, <1>5, <1>6, <1>8, <1>9, OneUserInv

(* The first ban takes the right away; those after it leave the rows as they are. *)
LEMMA BanInv ==
    ASSUME GroupsInv, NEW u \in Members, Ban(u)
    PROVE  GroupsInv'
<1>1. PICK R \in BanRows(own[u]) : own' = [own EXCEPT ![u] = R]
  BY DEF Ban
<1>2. Managed /\ NoTeam /\ UNCHANGED <<status, assigned, userGroups>> /\ byHand' = byHand /\ resplit' = resplit
  BY DEF Ban
<1>3. own[u] \in Usual \cup Split
  BY OfUser
<1>4. IF own[u] \in Usual THEN R = {Barrier, Row({"READ"})} ELSE R = own[u]
  BY <1>1, <1>3, BanRowsAre
<1>5. R \in Split /\ R \notin Usual
  <2>1. {Barrier, Row({"READ"})} \in Split
    BY DEF Split
  <2> QED  BY <1>3, <1>4, <2>1, SplitIs
<1>6. u \notin resplit' => ~Can(R)
  BY <1>2, <1>3, <1>4, OfUser, SplitIs
<1>7. byHand \subseteq Members /\ resplit \subseteq Members
  BY DEF GroupsInv, GroupsType
<1>8. R \in Usual \cup Split /\ byHand' \subseteq Members /\ byHand \ {u} \subseteq byHand'
      /\ resplit' \subseteq Members /\ resplit \ {u} \subseteq resplit'
  BY <1>2, <1>5, <1>7
<1>9. /\ R \in Usual /\ u \notin byHand' =>
           (Disallowed(userGroups[u]) => ~Can(R)) /\ (Allowed(userGroups[u]) => Can(R))
      /\ R \in Split /\ u \notin resplit' => ~Can(R)
  BY <1>5, <1>6
<1> QED  BY <1>1, <1>2, <1>8, <1>9, OneUserInv

(* What is left of a split row reads, and the groups are looked at again. *)
LEMMA UnbanInv ==
    ASSUME GroupsInv, NEW u \in Members, Unban(u)
    PROVE  GroupsInv'
<1> DEFINE left == {r \in own[u] : r.bits # {"CUD"}}
<1>1. PICK R \in Reapplied(status, userGroups[u], userGroups[u], left) : own' = [own EXCEPT ![u] = R]
  BY DEF Unban
<1>2. /\ Managed /\ NoTeam /\ UNCHANGED <<status, assigned, userGroups>>
      /\ resplit' = resplit \ {u} /\ Followed({u}, userGroups) /\ IsBanned(u)
  BY DEF Unban
<1>3. left \in Usual
  <2>1. own[u] \in Split
    BY <1>2, OfUser
  <2>2. PICK q : own[u] = {Barrier, q} /\ q.bits # {"CUD"} /\ {q} \in Usual
    BY <2>1, Halves
  <2>3. Barrier.bits = {"CUD"}
    BY DEF Barrier
  <2>4. left = {q}
    BY <2>2, <2>3
  <2> QED  BY <2>2, <2>4
<1> HIDE DEF left
<1>4. /\ R \in Usual
      /\ (\E g \in userGroups[u] : status[g] = "DISALLOW") => ~Can(R)
      /\ (\E g \in userGroups[u] : status[g] = "ALLOW") /\ ~(\E g \in userGroups[u] : status[g] = "DISALLOW") => Can(R)
  BY <1>1, <1>3, ReappliedUsual
<1>5. (Disallowed(userGroups[u]) => ~Can(R)) /\ (Allowed(userGroups[u]) => Can(R))
  BY <1>4 DEF Disallowed, Allowed
<1>6. R \notin Split
  BY <1>4, SplitIs
<1>7. byHand' \subseteq Members /\ resplit' \subseteq Members /\ byHand \ {u} \subseteq byHand' /\ resplit \ {u} \subseteq resplit'
  BY <1>2 DEF GroupsInv, GroupsType, Followed
<1> QED  BY <1>1, <1>2, <1>4, <1>5, <1>6, <1>7, OneUserInv

LEMMA TeamInv ==
    ASSUME GroupsInv, NEW t \in Teams,
           \/ \E S \in SUBSET PermissionGroups : SetTeamGroups(t, S)
           \/ \E U \in SUBSET Members : SetTeamUsers(t, U)
           \/ DeleteTeam(t)
    PROVE  GroupsInv'
<1>1. NoUser /\ UNCHANGED <<status, assigned>> /\ managed' \in 0..MaxPermissionCalls
  BY PermissionCallsAssumption DEF SetTeamGroups, SetTeamUsers, DeleteTeam, Managed, GroupsInv, GroupsType
<1>2. /\ teamGroups \in [Teams -> SUBSET PermissionGroups] /\ teamUsers \in [Teams -> SUBSET Members]
      /\ teamRow \in [Teams -> BOOLEAN]
  BY DEF GroupsInv, GroupsType
<1>3. \A s \in Teams : teamGroups[s] \subseteq Live
  BY DEF GroupsInv, LinkedLive
<1> DEFINE Outcome ==
        /\ teamGroups' \in [Teams -> SUBSET PermissionGroups] /\ teamUsers' \in [Teams -> SUBSET Members]
        /\ teamRow' \in [Teams -> BOOLEAN] /\ \A s \in Teams : teamGroups'[s] \subseteq Live
<1>4. Outcome
  <2>1. ASSUME NEW S \in SUBSET PermissionGroups, SetTeamGroups(t, S)  PROVE Outcome
    <3>1. Assigned(t, S) \in BOOLEAN
      BY DEF Assigned
    <3> QED  BY <1>2, <1>3, <2>1, <3>1 DEF SetTeamGroups
  <2>2. ASSUME NEW U \in SUBSET Members, SetTeamUsers(t, U)  PROVE Outcome
    BY <1>2, <1>3, <2>2 DEF SetTeamUsers
  <2>3. CASE DeleteTeam(t)
    BY <1>2, <1>3, <2>3 DEF DeleteTeam
  <2> QED  BY <2>1, <2>2, <2>3
<1>5. GroupsType'
  BY <1>1, <1>4 DEF GroupsInv, GroupsType, NoUser
<1>6. LinkedLive' /\ Shape'
  BY <1>1, <1>4 DEF GroupsInv, LinkedLive, Shape, Live, NoUser
<1>7. UserFollows' /\ BanHolds'
  BY <1>1 DEF GroupsInv, RowsFollow, UserFollows, BanHolds, IsBanned, OwnCan, Allowed, Disallowed, NoUser
<1> QED  BY <1>5, <1>6, <1>7 DEF GroupsInv, RowsFollow

-----------------------------------------------------------------------------
(* The theorem *)

LEMMA NextInv == GroupsInv /\ [GroupsNext]_groupVars => GroupsInv'
<1> SUFFICES ASSUME GroupsInv, [GroupsNext]_groupVars PROVE GroupsInv'
  OBVIOUS
<1>1. ASSUME NEW g \in PermissionGroups,
             \/ \E s \in Statuses : CreatePermissionGroup(g, s) \/ \E a \in BOOLEAN : UpdatePermissionGroup(g, s, a)
             \/ DelPermissionGroup(g)
             \/ \E u \in Members : DelPermissionGroupUser(g, u)
      PROVE  GroupsInv'
  BY <1>1, CreateInv, UpdateInv, DelGroupInv, DelUserInv
<1>2. ASSUME NEW u \in Members,
             \/ \E D, I \in SUBSET PermissionGroups : SetPermissionGroupUser(u, D, I)
             \/ \E s \in {"ALLOW", "DISALLOW"} : SetPermission(u, s)
             \/ Ban(u) \/ Unban(u)
      PROVE  GroupsInv'
  BY <1>2, SetUserInv, SetPermissionInv, BanInv, UnbanInv
<1>3. ASSUME NEW t \in Teams,
             \/ \E S \in SUBSET PermissionGroups : SetTeamGroups(t, S)
             \/ \E U \in SUBSET Members : SetTeamUsers(t, U)
             \/ DeleteTeam(t)
      PROVE  GroupsInv'
  BY <1>3, TeamInv
<1>4. CASE UNCHANGED groupVars
  BY <1>4 DEF groupVars, GroupsInv, GroupsType, LinkedLive, Live, Shape, RowsFollow, UserFollows, BanHolds,
              IsBanned, OwnCan, Allowed, Disallowed
<1> QED  BY <1>1, <1>2, <1>3, <1>4 DEF GroupsNext

(* Whatever is granted, revoked, banned or regrouped: what a user may do is what its groups say, but
   for those whose rows setPermission set since and those banned now; and a banned user cannot, but
   for those whose split rows a grant or a revocation changed. *)
THEOREM RowsFollowGroups == GroupsSpec => []RowsFollow
<1>1. GroupsInv => RowsFollow
  BY DEF GroupsInv
<1> QED  BY <1>1, InitInv, NextInv, PTL DEF GroupsSpec

-----------------------------------------------------------------------------

(* The tree of folders *)

ParentPlaces == Nodes \cup {None, Nowhere}
Tree(up) == up \in [Folders -> ParentPlaces] /\ Forest(up)

(* What holds of a folder whenever it holds of its parent, or it has none, holds of all. *)
LEMMA TreeInduction ==
    ASSUME NEW up, Forest(up), NEW T,
           \A f \in Folders : (up[f] \in Folders => up[f] \in T) => f \in T
    PROVE  Folders \subseteq T
<1> DEFINE S == Folders \ T
<1>1. S \in SUBSET Folders /\ \A f \in S : up[f] \in S
  OBVIOUS
<1>2. S = {}
  <2> HIDE DEF S
  <2> QED  BY <1>1 DEF Forest
<1> QED  BY <1>2

(* The rules by which a recursion down the tree goes on, from what the parent has to its child. *)
DownRules(D) == [Folders -> [D -> D]]

(* A recursion from each folder to those below has a solution. *)
LEMMA TreeRecursion ==
    ASSUME NEW up, Forest(up), NEW D, NEW V \in DownRules(D), NEW b \in [Folders -> D]
    PROVE  \E g \in [Folders -> D] :
              \A f \in Folders : g[f] = IF up[f] \in Folders THEN V[f][g[up[f]]] ELSE b[f]
<1> USE DEF DownRules
<1> DEFINE Pairs == Folders \X D
           Closed(R) == /\ \A f \in Folders : up[f] \notin Folders => <<f, b[f]>> \in R
                        /\ \A f \in Folders, d \in D :
                              up[f] \in Folders /\ <<up[f], d>> \in R => <<f, V[f][d]>> \in R
           R0 == {x \in Pairs : \A R \in SUBSET Pairs : Closed(R) => x \in R}
<1>1. Closed(R0)
  <2>1. ASSUME NEW f \in Folders, up[f] \notin Folders  PROVE <<f, b[f]>> \in R0
    BY <2>1
  <2>2. ASSUME NEW f \in Folders, NEW d \in D, up[f] \in Folders, <<up[f], d>> \in R0
        PROVE  <<f, V[f][d]>> \in R0
    <3>1. V[f][d] \in D
      OBVIOUS
    <3>2. ASSUME NEW R \in SUBSET Pairs, Closed(R)  PROVE <<f, V[f][d]>> \in R
      <4>1. <<up[f], d>> \in R
        BY <2>2, <3>2
      <4> QED  BY <2>2, <3>2, <4>1
    <3> HIDE DEF Closed
    <3> QED  BY <3>1, <3>2
  <2> QED  BY <2>1, <2>2
<1>2. R0 \in SUBSET Pairs /\ \A R \in SUBSET Pairs : Closed(R) => R0 \subseteq R
  OBVIOUS
<1> HIDE DEF R0
<1> DEFINE T == {f \in Folders : \E d \in D : <<f, d>> \in R0 /\ \A e \in D : <<f, e>> \in R0 => e = d}
<1>3. ASSUME NEW f \in Folders, NEW d \in D, NEW e \in D, <<f, e>> \in R0, e # d,
             up[f] \notin Folders => d = b[f],
             up[f] \in Folders => \A c \in D : <<up[f], c>> \in R0 => V[f][c] = d
      PROVE  FALSE
  <2> DEFINE R1 == R0 \ {<<f, e>>}
  <2>1. R1 \in SUBSET Pairs
    BY <1>2
  <2>2. ASSUME NEW x \in Folders, up[x] \notin Folders  PROVE <<x, b[x]>> \in R1
    BY <1>1, <1>3, <2>2
  <2>3. ASSUME NEW x \in Folders, NEW c \in D, up[x] \in Folders, <<up[x], c>> \in R1
        PROVE  <<x, V[x][c]>> \in R1
    BY <1>1, <1>3, <2>3
  <2>4. Closed(R1)
    BY <2>2, <2>3
  <2> HIDE DEF Closed
  <2> QED  BY <1>2, <1>3, <2>1, <2>4
<1>4. ASSUME NEW f \in Folders, up[f] \in Folders => up[f] \in T  PROVE f \in T
  <2>1. CASE up[f] \notin Folders
    <3>1. <<f, b[f]>> \in R0 /\ b[f] \in D
      BY <1>1, <2>1
    <3>2. \A e \in D : <<f, e>> \in R0 => e = b[f]
      BY <1>3, <2>1, <3>1
    <3> QED  BY <3>1, <3>2
  <2>2. CASE up[f] \in Folders
    <3>1. PICK d \in D : <<up[f], d>> \in R0 /\ \A e \in D : <<up[f], e>> \in R0 => e = d
      BY <1>4, <2>2
    <3>2. <<f, V[f][d]>> \in R0 /\ V[f][d] \in D
      BY <1>1, <2>2, <3>1
    <3>3. \A e \in D : <<f, e>> \in R0 => e = V[f][d]
      BY <1>3, <2>2, <3>1, <3>2
    <3> QED  BY <3>2, <3>3
  <2> QED  BY <2>1, <2>2
<1>5. Folders \subseteq T
  <2> HIDE DEF T
  <2> QED  BY <1>4, TreeInduction
<1> DEFINE g == [f \in Folders |-> CHOOSE d \in D : <<f, d>> \in R0]
<1>6. \A f \in Folders : g[f] \in D /\ <<f, g[f]>> \in R0 /\ \A e \in D : <<f, e>> \in R0 => e = g[f]
  BY <1>5
<1>7. g \in [Folders -> D]
  BY <1>6
<1> HIDE DEF g, T
<1>8. ASSUME NEW f \in Folders  PROVE g[f] = IF up[f] \in Folders THEN V[f][g[up[f]]] ELSE b[f]
  <2>1. CASE up[f] \notin Folders
    BY <1>1, <1>6, <2>1
  <2>2. CASE up[f] \in Folders
    <3>1. g[up[f]] \in D /\ <<up[f], g[up[f]]>> \in R0
      BY <1>6, <2>2
    <3>2. <<f, V[f][g[up[f]]]>> \in R0 /\ V[f][g[up[f]]] \in D
      BY <1>1, <2>2, <3>1
    <3> QED  BY <1>6, <2>2, <3>2
  <2> QED  BY <2>1, <2>2
<1> QED  BY <1>7, <1>8

(* What is above a folder: its parent and what is above that. *)
LEMMA AboveIs ==
    ASSUME NEW up, Tree(up)
    PROVE  /\ \A n : Above(up, n) \subseteq Folders
           /\ \A n : n \notin Folders => Above(up, n) = {}
           /\ \A f \in Folders : Above(up, f) = IF up[f] \in Folders THEN {up[f]} \cup Above(up, up[f]) ELSE {}
<1> DEFINE D == SUBSET Folders
           b == [f \in Folders |-> {}]
           V == [f \in Folders |-> [X \in D |-> IF up[f] \in Folders THEN {up[f]} \cup X ELSE {}]]
           Solves(g) == g = [f \in Folders |-> IF up[f] \in Folders THEN {up[f]} \cup g[up[f]] ELSE {}]
           a == CHOOSE g : Solves(g)
<1>1. V \in DownRules(D) /\ b \in [Folders -> D]
  BY DEF DownRules
<1>2. PICK g \in [Folders -> D] : \A f \in Folders : g[f] = IF up[f] \in Folders THEN V[f][g[up[f]]] ELSE b[f]
  <2>1. Forest(up)
    BY DEF Tree
  <2> HIDE DEF V, D, b
  <2> QED  BY <1>1, <2>1, TreeRecursion
<1>3. Solves(g)
  <2>1. \A f \in Folders : g[f] = IF up[f] \in Folders THEN {up[f]} \cup g[up[f]] ELSE {}
    BY <1>2
  <2> QED  BY <2>1
<1>4. Solves(a)
  <2> HIDE DEF Solves
  <2> QED  BY <1>3
<1>5. \A n : Above(up, n) = IF n \in Folders THEN a[n] ELSE {}
  BY DEF Above
<1>6. \A f \in Folders : a[f] = IF up[f] \in Folders THEN {up[f]} \cup a[up[f]] ELSE {}
  <2> HIDE DEF a
  <2> QED  BY <1>4
<1> HIDE DEF a, Solves
<1> DEFINE T == {f \in Folders : a[f] \subseteq Folders}
<1>7. Folders \subseteq T
  <2>1. \A f \in Folders : (up[f] \in Folders => up[f] \in T) => f \in T
    BY <1>6
  <2>2. Forest(up)
    BY DEF Tree
  <2> HIDE DEF T
  <2> QED  BY <2>1, <2>2, TreeInduction
<1>8. \A f \in Folders : a[f] \subseteq Folders
  BY <1>7
<1>9. ASSUME NEW f \in Folders
      PROVE  Above(up, f) = IF up[f] \in Folders THEN {up[f]} \cup Above(up, up[f]) ELSE {}
  BY <1>5, <1>6
<1> QED  BY <1>5, <1>8, <1>9

(* What is above what is above a folder is above it, and it is not above itself. *)
LEMMA AboveUp ==
    ASSUME NEW up, Tree(up), NEW f \in Folders
    PROVE  /\ \A a \in Above(up, f) : Above(up, a) \subseteq Above(up, f)
           /\ f \notin Above(up, f)
           /\ up[f] # f
           /\ \A a \in Above(up, f) : up[f] = a \/ a \in Above(up, up[f])
<1> DEFINE T == {x \in Folders : \A a \in Above(up, x) : Above(up, a) \subseteq Above(up, x)}
           U == {x \in Folders : x \notin Above(up, x)}
<1>1. Folders \subseteq T
  <2>1. \A x \in Folders : (up[x] \in Folders => up[x] \in T) => x \in T
    BY AboveIs
  <2> HIDE DEF T
  <2> QED  BY <2>1, TreeInduction DEF Tree
<1>2. Folders \subseteq U
  <2>1. ASSUME NEW x \in Folders, up[x] \in Folders => up[x] \in U, x \in Above(up, x)  PROVE FALSE
    <3>1. up[x] \in Folders /\ Above(up, x) = {up[x]} \cup Above(up, up[x])
      BY <2>1, AboveIs
    <3>2. up[x] \notin Above(up, up[x])
      BY <2>1, <3>1
    <3>3. x \in Above(up, up[x])
      BY <2>1, <3>1, <3>2
    <3>4. Above(up, x) \subseteq Above(up, up[x])
      BY <1>1, <3>1, <3>3
    <3> QED  BY <3>1, <3>2, <3>4
  <2>2. \A x \in Folders : (up[x] \in Folders => up[x] \in U) => x \in U
    BY <2>1
  <2> HIDE DEF U
  <2> QED  BY <2>2, TreeInduction DEF Tree
<1> QED  BY <1>1, <1>2, AboveIs

-----------------------------------------------------------------------------

(* Rows *)

(* The rows of a table are sets of bits. *)
LEMMA RowsAre ==
    ASSUME NEW h \in Tables, NEW n \in Nodes, NEW u \in Users
    PROVE  Own(h, n, u) \subseteq Bits /\ Inherited(h, n, u) \subseteq Bits /\ Unified(h, n, u) \subseteq Bits
<1>1. h[<<n, u, "own">>] \in SUBSET Bits /\ h[<<n, u, "inherited">>] \in SUBSET Bits
  BY DEF Tables, Kinds
<1> QED  BY <1>1 DEF Own, Inherited, Unified

Put(h, n, u, i, X) == [h EXCEPT ![<<n, u, i>>] = X]

(* A row of its own is written; *)
LEMMA PutOwn ==
    ASSUME NEW h \in Tables, NEW n \in Nodes, NEW u \in Users, NEW X \in SUBSET Bits,
           NEW r, r = Put(h, n, u, "own", X)
    PROVE  /\ r \in Tables
           /\ \A m \in Nodes, w \in Users : Inherited(r, m, w) = Inherited(h, m, w)
           /\ \A m \in Nodes, w \in Users : (m # n \/ w # u) => Own(r, m, w) = Own(h, m, w)
           /\ Own(r, n, u) = X
<1> DEFINE K == Nodes \X Users \X Kinds
<1>1. DOMAIN h = K /\ \A k \in K : h[k] \in SUBSET Bits
  BY DEF Tables
<1>2. DOMAIN r = K /\ \A k \in K : r[k] = IF k = <<n, u, "own">> THEN X ELSE h[k]
  BY <1>1 DEF Put
<1>3. r \in Tables
  <2>1. r \in [K -> SUBSET Bits]
    BY <1>1 DEF Put
  <2> QED  BY <2>1 DEF Tables
<1>4. \A m \in Nodes, w \in Users, i \in Kinds : <<m, w, i>> \in K
  OBVIOUS
<1>5. "own" \in Kinds /\ "inherited" \in Kinds /\ "own" # "inherited"
  BY DEF Kinds
<1> HIDE DEF K
<1> QED  BY <1>2, <1>3, <1>4, <1>5 DEF Own, Inherited

(* or an inherited one. *)
LEMMA PutInherited ==
    ASSUME NEW h \in Tables, NEW n \in Nodes, NEW u \in Users, NEW X \in SUBSET Bits,
           NEW r, r = Put(h, n, u, "inherited", X)
    PROVE  /\ r \in Tables
           /\ \A m \in Nodes, w \in Users : Own(r, m, w) = Own(h, m, w)
           /\ \A m \in Nodes, w \in Users : (m # n \/ w # u) => Inherited(r, m, w) = Inherited(h, m, w)
           /\ Inherited(r, n, u) = X
<1> DEFINE K == Nodes \X Users \X Kinds
<1>1. DOMAIN h = K /\ \A k \in K : h[k] \in SUBSET Bits
  BY DEF Tables
<1>2. DOMAIN r = K /\ \A k \in K : r[k] = IF k = <<n, u, "inherited">> THEN X ELSE h[k]
  BY <1>1 DEF Put
<1>3. r \in Tables
  <2>1. r \in [K -> SUBSET Bits]
    BY <1>1 DEF Put
  <2> QED  BY <2>1 DEF Tables
<1>4. \A m \in Nodes, w \in Users, i \in Kinds : <<m, w, i>> \in K
  OBVIOUS
<1>5. "own" \in Kinds /\ "inherited" \in Kinds /\ "own" # "inherited"
  BY DEF Kinds
<1> HIDE DEF K
<1> QED  BY <1>2, <1>3, <1>4, <1>5 DEF Own, Inherited

(* What a user inherits on the folders is written. *)
LEMMA InheritingIs ==
    ASSUME NEW h \in Tables, NEW u \in Users, NEW bits \in [Folders -> SUBSET Bits]
    PROVE  LET r == Inheriting(h, u, bits)
           IN  /\ r \in Tables
               /\ \A m \in Nodes, w \in Users : Own(r, m, w) = Own(h, m, w)
               /\ \A m \in Nodes, w \in Users :
                     Inherited(r, m, w) = IF m \in Folders /\ w = u THEN bits[m] ELSE Inherited(h, m, w)
<1> DEFINE K == Nodes \X Users \X Kinds
           r == [k \in K |-> IF k[1] \in Folders /\ k[2] = u /\ k[3] = "inherited" THEN bits[k[1]] ELSE h[k]]
<1>1. DOMAIN h = K /\ \A k \in K : h[k] \in SUBSET Bits
  BY DEF Tables
<1>2. Inheriting(h, u, bits) = r
  BY <1>1 DEF Inheriting
<1>3. r \in Tables
  <2>1. \A k \in K : r[k] \in SUBSET Bits
    BY <1>1
  <2>2. r \in [K -> SUBSET Bits]
    BY <2>1
  <2> QED  BY <2>2 DEF Tables
<1>4. ASSUME NEW m \in Nodes, NEW w \in Users
      PROVE  /\ r[<<m, w, "own">>] = h[<<m, w, "own">>]
             /\ r[<<m, w, "inherited">>] = IF m \in Folders /\ w = u THEN bits[m] ELSE h[<<m, w, "inherited">>]
  BY DEF Kinds
<1> HIDE DEF r, K
<1> QED  BY <1>2, <1>3, <1>4 DEF Own, Inherited

(* The rows of an entity are taken. *)
LEMMA WithoutIs ==
    ASSUME NEW h \in Tables, NEW n
    PROVE  LET r == Without(h, n)
           IN  /\ r \in Tables
               /\ \A m \in Nodes, w \in Users :
                     /\ Own(r, m, w) = IF m = n THEN {} ELSE Own(h, m, w)
                     /\ Inherited(r, m, w) = IF m = n THEN {} ELSE Inherited(h, m, w)
<1> DEFINE K == Nodes \X Users \X Kinds
           r == [k \in K |-> IF k[1] = n THEN {} ELSE h[k]]
<1>1. DOMAIN h = K /\ \A k \in K : h[k] \in SUBSET Bits
  BY DEF Tables
<1>2. Without(h, n) = r
  BY <1>1 DEF Without
<1>3. r \in Tables
  <2>1. \A k \in K : r[k] \in SUBSET Bits
    BY <1>1
  <2>2. r \in [K -> SUBSET Bits]
    BY <2>1
  <2> QED  BY <2>2 DEF Tables
<1>4. ASSUME NEW m \in Nodes, NEW w \in Users
      PROVE  /\ r[<<m, w, "own">>] = IF m = n THEN {} ELSE h[<<m, w, "own">>]
             /\ r[<<m, w, "inherited">>] = IF m = n THEN {} ELSE h[<<m, w, "inherited">>]
  BY DEF Kinds
<1> HIDE DEF r, K
<1> QED  BY <1>2, <1>3, <1>4 DEF Own, Inherited

(* A row is inherited. *)
LEMMA InheritIs ==
    ASSUME NEW h \in Tables, NEW f \in Folders, NEW u \in Users, NEW bits \in SUBSET Bits
    PROVE  LET r == Inherit(h, f, u, bits)
           IN  /\ r \in Tables
               /\ \A m \in Nodes, w \in Users : Own(r, m, w) = Own(h, m, w)
               /\ \A m \in Nodes, w \in Users :
                     Inherited(r, m, w) = IF m = f /\ w = u /\ ~(bits \subseteq Unshared) THEN bits \ Unshared
                                          ELSE Inherited(h, m, w)
<1>1. f \in Nodes /\ bits \ Unshared \in SUBSET Bits
  BY DEF Nodes
<1>2. CASE bits \subseteq Unshared
  BY <1>2 DEF Inherit
<1>3. CASE ~(bits \subseteq Unshared)
  <2> DEFINE r == Inherit(h, f, u, bits)
  <2>1. r = Put(h, f, u, "inherited", bits \ Unshared)
    BY <1>3 DEF Inherit, Put
  <2> HIDE DEF r
  <2>2. /\ r \in Tables
        /\ \A m \in Nodes, w \in Users : Own(r, m, w) = Own(h, m, w)
        /\ \A m \in Nodes, w \in Users : (m # f \/ w # u) => Inherited(r, m, w) = Inherited(h, m, w)
        /\ Inherited(r, f, u) = bits \ Unshared
    BY <1>1, <2>1, PutInherited
  <2> QED  BY <1>3, <2>2 DEF r
<1> QED  BY <1>2, <1>3

(* Whether an entity is private is seen in its rows. *)
LEMMA PrivateIs ==
    ASSUME NEW h, NEW n
    PROVE  IsPrivate(h, n) <=> \E u \in Users : Unshared \subseteq Own(h, n, u) \/ Unshared \subseteq Inherited(h, n, u)
BY DEF IsPrivate, Own, Inherited, Kinds

-----------------------------------------------------------------------------

(* What the calls are made of *)

(* The rows that a user holds of its own above a folder are still there. *)
Kept(h, r, up, m, w) == \A g \in Above(up, m) : Own(h, g, w) \subseteq Own(r, g, w)

(* From h to r an inherited row is left alone, goes, or takes what its parent has by then. *)
Passes(h, r, up, m, w) ==
    \/ Inherited(r, m, w) = {}
    \/ Inherited(r, m, w) = Inherited(h, m, w) /\ Kept(h, r, up, m, w)
    \/ /\ up[m] \in Folders
       /\ \/ Inherited(r, m, w) = Unified(r, up[m], w)
          \/ Inherited(r, m, w) = Unified(r, up[m], w) \ Unshared
          \/ Inherited(r, m, w) = Inherited(r, up[m], w)
    \/ /\ up[m] \in Folders /\ Kept(h, r, up, m, w)
       /\ Inherited(r, m, w) = (Own(r, up[m], w) \cup Inherited(h, m, w)) \ Unshared

(* The changes made to rows of one's own: the entity, the user, the bits taken, the bits given. *)
Turns(h, r, m, w, ch) ==
    \/ Own(r, m, w) = Own(h, m, w)
    \/ \E X, Y \in SUBSET Bits : <<m, w, X, Y>> \in ch /\ Own(r, m, w) = (Own(h, m, w) \ X) \cup Y

Step(h, r, up, ch) ==
    /\ \A m \in Nodes, w \in Users : Turns(h, r, m, w, ch)
    /\ \A m \in Folders, w \in Users : Passes(h, r, up, m, w)
    /\ \A w \in Users : Inherited(r, Space, w) = Inherited(h, Space, w)

(* Some steps lead from h to r. *)
Closed(up, ch) == {Q \in SUBSET Tables : \A x \in Q, y \in Tables : Step(x, y, up, ch) => y \in Q}
Reaches(h, r, up, ch) == \A Q \in Closed(up, ch) : h \in Q => r \in Q

LEMMA ReachTables ==
    ASSUME NEW h \in Tables, NEW r, NEW up, NEW ch, Reaches(h, r, up, ch)
    PROVE  r \in Tables
<1>1. Tables \in Closed(up, ch)
  BY DEF Closed
<1> QED  BY <1>1 DEF Reaches

LEMMA ReachStep ==
    ASSUME NEW h \in Tables, NEW r \in Tables, NEW up, NEW ch, Step(h, r, up, ch)
    PROVE  Reaches(h, r, up, ch)
<1> SUFFICES ASSUME NEW Q \in Closed(up, ch), h \in Q  PROVE r \in Q
  BY DEF Reaches
<1> QED  BY DEF Closed

LEMMA ReachSame ==
    ASSUME NEW h, NEW up, NEW ch
    PROVE  Reaches(h, h, up, ch)
BY DEF Reaches

LEMMA ReachTrans ==
    ASSUME NEW h, NEW r, NEW s, NEW up, NEW ch, Reaches(h, r, up, ch), Reaches(r, s, up, ch)
    PROVE  Reaches(h, s, up, ch)
BY DEF Reaches

LEMMA ReachMore ==
    ASSUME NEW h, NEW r, NEW up, NEW ch, NEW more, ch \subseteq more, Reaches(h, r, up, ch)
    PROVE  Reaches(h, r, up, more)
<1>1. ASSUME NEW x, NEW y, Step(x, y, up, ch)  PROVE Step(x, y, up, more)
  <2>1. ASSUME NEW m \in Nodes, NEW w \in Users  PROVE Turns(x, y, m, w, more)
    BY <1>1 DEF Step, Turns
  <2> QED  BY <1>1, <2>1 DEF Step
<1>2. Closed(up, more) \subseteq Closed(up, ch)
  BY <1>1 DEF Closed
<1> QED  BY <1>2 DEF Reaches

(* A loop whose turns are steps, as long as what it leaves stays in I. *)
LEMMA ReachLoop ==
    ASSUME NEW K \in Nat, NEW V \in Rules(Tables, K), NEW up, NEW ch, NEW I, NEW h \in Tables \cap I,
           \A n \in 1..K, x \in Tables \cap I : V[n][x] \in I /\ Reaches(x, V[n][x], up, ch)
    PROVE  Reaches(h, Loop(V, h), up, ch) /\ Loop(V, h) \in I
<1>1. ASSUME NEW Q \in Closed(up, ch), h \in Q  PROVE Loop(V, h) \in Q \cap I
  <2> DEFINE R == Q \cap I
  <2>1. h \in Tables \cap R
    BY <1>1
  <2>2. \A n \in 1..K, x \in Tables \cap R : V[n][x] \in R
    BY <1>1 DEF Reaches
  <2> HIDE DEF R
  <2>3. Loop(V, h) \in Tables \cap R
    BY <2>1, <2>2, LoopStays
  <2> QED  BY <2>3 DEF R
<1>2. Tables \in Closed(up, ch)
  BY DEF Closed
<1> QED  BY <1>1, <1>2 DEF Reaches

(* What one turn of a loop leads into and none leads out of, the loop ends in. *)
LEMMA LoopAchieves ==
    ASSUME NEW D, NEW K \in Nat, NEW V \in Rules(D, K), NEW a \in D, NEW j \in 1..K, NEW A,
           \A x \in D : V[j][x] \in A,
           \A n \in 1..K, x \in D \cap A : V[n][x] \in A
    PROVE  Loop(V, a) \in A
<1> DEFINE Q == [n \in 0..K |-> IF n < j THEN D ELSE A]
<1>1. a \in Q[0]
  OBVIOUS
<1>2. ASSUME NEW n \in 1..K, NEW x \in D, x \in Q[n - 1]  PROVE V[n][x] \in Q[n]
  <2>1. V[n][x] \in D
    BY DEF Rules
  <2>2. CASE n < j
    BY <2>1, <2>2
  <2>3. CASE n = j
    BY <2>3
  <2>4. CASE n > j
    BY <1>2, <2>4
  <2> QED  BY <2>2, <2>3, <2>4
<1>3. Loop(V, a) \in D \cap Q[K]
  <2> HIDE DEF Q
  <2> QED  BY <1>1, <1>2, LoopKeeps
<1> QED  BY <1>3

-----------------------------------------------------------------------------

(* What goes down the tree *)

(* What cascadeInheritedPermissionsToChildren leaves at f, when d is what it left at its parent. *)
Handed(h, up, n, u, start, f, d) ==
    LET open == Inherits(up, f) /\ IF up[f] = n THEN ~IsPrivate(h, n) ELSE d.open
        given == IF up[f] = n THEN start ELSE Own(h, up[f], u) \cup d.bits
        r == IF open THEN Inherit(h, f, u, given) ELSE h
    IN  [bits |-> Inherited(r, f, u), open |-> open /\ ~IsPrivate(r, f)]
Hands == [bits : SUBSET Bits, open : BOOLEAN]
BitsOf(a) == [f \in Folders |-> a[f].bits]

LEMMA HandedIs ==
    ASSUME NEW h \in Tables, NEW up, NEW n, NEW u \in Users, NEW start \in SUBSET Bits, NEW f \in Folders,
           NEW d \in Hands
    PROVE  /\ Handed(h, up, n, u, start, f, d) \in Hands
           /\ ~Inherits(up, f) => Handed(h, up, n, u, start, f, d) = [bits |-> Inherited(h, f, u), open |-> FALSE]
<1> DEFINE open == Inherits(up, f) /\ IF up[f] = n THEN ~IsPrivate(h, n) ELSE d.open
           given == IF up[f] = n THEN start ELSE Own(h, up[f], u) \cup d.bits
           r == IF open THEN Inherit(h, f, u, given) ELSE h
<1>1. f \in Nodes
  BY DEF Nodes
<1>2. Inherits(up, f) => given \in SUBSET Bits
  <2>1. Inherits(up, f) => up[f] \in Nodes
    BY DEF Inherits, Nodes
  <2> QED  BY <2>1, RowsAre DEF Hands
<1>3. r \in Tables
  <2> HIDE DEF given
  <2> QED  BY <1>2, InheritIs
<1> DEFINE o == open /\ ~IsPrivate(r, f)
<1>4. Handed(h, up, n, u, start, f, d) = [bits |-> Inherited(r, f, u), open |-> o]
  BY DEF Handed
<1>5. open \in BOOLEAN
  BY DEF Hands, IsPrivate, Inherits
<1>6. ~Inherits(up, f) => ~open /\ r = h
  OBVIOUS
<1> HIDE DEF open, r
<1>7. Inherited(r, f, u) \in SUBSET Bits
  BY <1>1, <1>3, RowsAre
<1>8. o \in BOOLEAN
  BY <1>5
<1>9. ~Inherits(up, f) => o = FALSE
  BY <1>6
<1> HIDE DEF o
<1>10. Handed(h, up, n, u, start, f, d) \in Hands
  BY <1>4, <1>7, <1>8 DEF Hands
<1>11. ~Inherits(up, f) => Handed(h, up, n, u, start, f, d) = [bits |-> Inherited(h, f, u), open |-> FALSE]
  BY <1>4, <1>6, <1>9
<1> QED  BY <1>10, <1>11

LEMMA CascadeIs ==
    ASSUME NEW h \in Tables, NEW up, Tree(up), NEW n, NEW u \in Users, NEW start \in SUBSET Bits
    PROVE  \E a \in [Folders -> Hands] :
              /\ Cascade(h, up, n, u, start) = Inheriting(h, u, BitsOf(a))
              /\ \A f \in Folders : a[f] = Handed(h, up, n, u, start, f, a[up[f]])
<1> DEFINE b == [f \in Folders |-> [bits |-> Inherited(h, f, u), open |-> FALSE]]
           V == [f \in Folders |-> [d \in Hands |-> Handed(h, up, n, u, start, f, d)]]
           Solves(g) == g = [f \in Folders |-> Handed(h, up, n, u, start, f, g[up[f]])]
           a == CHOOSE g : Solves(g)
<1>1. V \in DownRules(Hands)
  BY HandedIs DEF DownRules
<1>2. b \in [Folders -> Hands]
  <2>1. \A f \in Folders : Inherited(h, f, u) \in SUBSET Bits
    BY RowsAre DEF Nodes
  <2> QED  BY <2>1 DEF Hands
<1>3. PICK g \in [Folders -> Hands] : \A f \in Folders : g[f] = IF up[f] \in Folders THEN V[f][g[up[f]]] ELSE b[f]
  <2>1. Forest(up)
    BY DEF Tree
  <2> HIDE DEF V, b
  <2> QED  BY <1>1, <1>2, <2>1, TreeRecursion
<1>4. ASSUME NEW f \in Folders  PROVE g[f] = Handed(h, up, n, u, start, f, g[up[f]])
  <2>1. CASE up[f] \in Folders
    BY <1>3, <2>1
  <2>2. CASE up[f] \notin Folders
    <3>1. ~Inherits(up, f)
      BY <2>2 DEF Inherits
    <3>2. g[f] = [bits |-> Inherited(h, f, u), open |-> FALSE]
      BY <1>3, <2>2
    <3>3. Handed(h, up, n, u, start, f, g[up[f]]) = [bits |-> Inherited(h, f, u), open |-> FALSE]
      <4>1. \A d : ~Inherits(up, f) => Handed(h, up, n, u, start, f, d) = [bits |-> Inherited(h, f, u), open |-> FALSE]
        BY DEF Handed
      <4> QED  BY <3>1, <4>1
    <3> QED  BY <3>2, <3>3
  <2> QED  BY <2>1, <2>2
<1>5. Solves(g)
  BY <1>4
<1>6. Solves(a)
  <2> HIDE DEF Solves
  <2> QED  BY <1>5
<1>7. Cascade(h, up, n, u, start) = Inheriting(h, u, BitsOf(a))
  BY DEF Cascade, Handed, BitsOf
<1>8. \A f \in Folders : a[f] = Handed(h, up, n, u, start, f, a[up[f]])
  <2> HIDE DEF a
  <2> QED  BY <1>6
<1> HIDE DEF a
<1> DEFINE T == {f \in Folders : a[f] = g[f]}
<1>9. Folders \subseteq T
  <2>1. ASSUME NEW f \in Folders, up[f] \in Folders => up[f] \in T  PROVE a[f] = g[f]
    <3>1. CASE up[f] \in Folders
      BY <1>4, <1>8, <2>1, <3>1
    <3>2. CASE up[f] \notin Folders
      <4>1. ~Inherits(up, f)
        BY <3>2 DEF Inherits
      <4>2. Handed(h, up, n, u, start, f, a[up[f]]) = [bits |-> Inherited(h, f, u), open |-> FALSE]
        BY <4>1 DEF Handed
      <4>3. Handed(h, up, n, u, start, f, g[up[f]]) = [bits |-> Inherited(h, f, u), open |-> FALSE]
        BY <4>1 DEF Handed
      <4>4. a[f] = Handed(h, up, n, u, start, f, a[up[f]])
        BY <1>8
      <4>5. g[f] = Handed(h, up, n, u, start, f, g[up[f]])
        BY <1>4
      <4> QED  BY <4>2, <4>3, <4>4, <4>5
    <3> QED  BY <3>1, <3>2
  <2>2. Forest(up)
    BY DEF Tree
  <2>3. \A f \in Folders : (up[f] \in Folders => up[f] \in T) => f \in T
    BY <2>1
  <2> HIDE DEF T
  <2> QED  BY <2>2, <2>3, TreeInduction
<1>10. BitsOf(a) = BitsOf(g)
  BY <1>9 DEF BitsOf
<1> QED  BY <1>4, <1>7, <1>10

(* Whether it comes to f, and with what. *)
Opened(h, up, n, f, d) == Inherits(up, f) /\ IF up[f] = n THEN ~IsPrivate(h, n) ELSE d.open
Given(h, up, n, u, start, f, d) == IF up[f] = n THEN start ELSE Own(h, up[f], u) \cup d.bits

HandedCell(h, up, n, u, start, f, d, e) ==
    LET given == Given(h, up, n, u, start, f, d)
    IN  /\ Opened(h, up, n, f, d) => given \in SUBSET Bits
        /\ e.bits = IF Opened(h, up, n, f, d) /\ ~(given \subseteq Unshared) THEN given \ Unshared
                    ELSE Inherited(h, f, u)
        /\ e.open <=> Opened(h, up, n, f, d) /\ ~IsPrivate(Inherit(h, f, u, given), f)

LEMMA HandedCells ==
    ASSUME NEW h \in Tables, NEW up, NEW n, NEW u \in Users, NEW start \in SUBSET Bits, NEW f \in Folders,
           NEW d \in Hands, NEW e, e = Handed(h, up, n, u, start, f, d)
    PROVE  HandedCell(h, up, n, u, start, f, d, e)
<1> DEFINE open == Opened(h, up, n, f, d)
           given == Given(h, up, n, u, start, f, d)
           r == IF open THEN Inherit(h, f, u, given) ELSE h
           o == open /\ ~IsPrivate(r, f)
<1>1. e = [bits |-> Inherited(r, f, u), open |-> o]
  BY DEF Handed, Opened, Given
<1>2. open => given \in SUBSET Bits
  <2>1. Inherits(up, f) => up[f] \in Nodes
    BY DEF Inherits, Nodes
  <2> QED  BY <2>1, RowsAre DEF Hands, Opened, Given
<1>3. f \in Nodes
  BY DEF Nodes
<1> HIDE DEF open, given
<1>4. r \in Tables
  BY <1>2, InheritIs
<1>5. Inherited(r, f, u) = IF open /\ ~(given \subseteq Unshared) THEN given \ Unshared ELSE Inherited(h, f, u)
  <2>1. CASE open
    <3>1. r = Inherit(h, f, u, given) /\ given \in SUBSET Bits
      BY <1>2, <2>1
    <3> HIDE DEF r
    <3> QED  BY <1>3, <2>1, <3>1, InheritIs
  <2>2. CASE ~open
    BY <2>2
  <2> QED  BY <2>1, <2>2
<1>6. o <=> open /\ ~IsPrivate(Inherit(h, f, u, given), f)
  OBVIOUS
<1> HIDE DEF r, o
<1>8. e.bits = Inherited(r, f, u) /\ (e.open <=> o)
  BY <1>1
<1> QED  BY <1>2, <1>5, <1>6, <1>8 DEF open, given, HandedCell

(* The cascade writes what the user inherits below n: what its parent has by then. *)
Cascaded(h, r, up, n, u, start) ==
    /\ r \in Tables
    /\ \A m \in Nodes, w \in Users : Own(r, m, w) = Own(h, m, w)
    /\ \A m \in Nodes, w \in Users : (w # u \/ m \notin Below(up, n)) => Inherited(r, m, w) = Inherited(h, m, w)
    /\ \A f \in Folders :
          \/ Inherited(r, f, u) = Inherited(h, f, u)
          \/ /\ up[f] \in Folders /\ Inherited(r, f, u) # {}
             /\ Inherited(r, f, u) = (IF up[f] = n THEN start ELSE Unified(r, up[f], u)) \ Unshared

LEMMA CascadeCells ==
    ASSUME NEW h \in Tables, NEW up, Tree(up), NEW n, NEW u \in Users, NEW start \in SUBSET Bits
    PROVE  Cascaded(h, Cascade(h, up, n, u, start), up, n, u, start)
<1> DEFINE r == Cascade(h, up, n, u, start)
<1>1. PICK a \in [Folders -> Hands] :
         /\ r = Inheriting(h, u, BitsOf(a))
         /\ \A f \in Folders : a[f] = Handed(h, up, n, u, start, f, a[up[f]])
  BY CascadeIs
<1> HIDE DEF r
<1> DEFINE bits == BitsOf(a)
<1>2. bits \in [Folders -> SUBSET Bits]
  BY DEF Hands, BitsOf
<1>3. /\ r \in Tables
      /\ \A m \in Nodes, w \in Users : Own(r, m, w) = Own(h, m, w)
      /\ \A m \in Nodes, w \in Users :
            Inherited(r, m, w) = IF m \in Folders /\ w = u THEN a[m].bits ELSE Inherited(h, m, w)
  <2>1. r = Inheriting(h, u, bits)
    BY <1>1
  <2>2. \A m \in Folders : bits[m] = a[m].bits
    BY DEF BitsOf
  <2> HIDE DEF bits
  <2> QED  BY <1>2, <2>1, <2>2, InheritingIs
<1>4. Folders \subseteq Nodes
  BY DEF Nodes
<1>5. ASSUME NEW f \in Folders
      PROVE  IF up[f] \in Folders
             THEN LET given == Given(h, up, n, u, start, f, a[up[f]])
                  IN  /\ a[f].bits = IF Opened(h, up, n, f, a[up[f]]) /\ ~(given \subseteq Unshared) THEN given \ Unshared
                                     ELSE Inherited(h, f, u)
                      /\ a[f].open => Opened(h, up, n, f, a[up[f]])
             ELSE a[f].bits = Inherited(h, f, u) /\ ~a[f].open
  <2>1. CASE up[f] \in Folders
    <3>2. a[up[f]] \in Hands /\ a[f] = Handed(h, up, n, u, start, f, a[up[f]])
      BY <1>1, <2>1
    <3>3. HandedCell(h, up, n, u, start, f, a[up[f]], a[f])
      BY <3>2, HandedCells
    <3> QED  BY <2>1, <3>3 DEF HandedCell
  <2>2. CASE up[f] \notin Folders
    <3>1. ~Inherits(up, f)
      BY <2>2 DEF Inherits
    <3>2. a[f] = [bits |-> Inherited(h, f, u), open |-> FALSE]
      BY <1>1, <3>1 DEF Handed
    <3> QED  BY <2>2, <3>2
  <2> QED  BY <2>1, <2>2
<1> DEFINE T == {f \in Folders : a[f].open => f \in Below(up, n)}
<1>6. ASSUME NEW f \in Folders, up[f] \in Folders, up[f] = n \/ up[f] \in Below(up, n)
      PROVE  f \in Below(up, n)
  BY <1>6, AboveIs DEF Below
<1>7. Folders \subseteq T
  <2>1. \A f \in Folders : (up[f] \in Folders => up[f] \in T) => f \in T
    BY <1>5, <1>6 DEF Opened
  <2>2. Forest(up)
    BY DEF Tree
  <2> HIDE DEF T
  <2> QED  BY <2>1, <2>2, TreeInduction
<1>8. ASSUME NEW f \in Folders, Inherited(r, f, u) # Inherited(h, f, u)
      PROVE  /\ f \in Below(up, n) /\ up[f] \in Folders /\ Inherited(r, f, u) # {}
             /\ Inherited(r, f, u) = (IF up[f] = n THEN start ELSE Unified(r, up[f], u)) \ Unshared
  <2>1. Inherited(r, f, u) = a[f].bits /\ f \in Nodes
    BY <1>3, <1>4
  <2>2. up[f] \in Folders
    BY <1>5, <1>8, <2>1
  <2>3. /\ Opened(h, up, n, f, a[up[f]]) /\ a[f].bits = Given(h, up, n, u, start, f, a[up[f]]) \ Unshared
        /\ a[f].bits # {}
    BY <1>5, <1>8, <2>1, <2>2
  <2>4. f \in Below(up, n)
    BY <1>6, <1>7, <2>2, <2>3 DEF Opened
  <2>5. up[f] \in Nodes /\ Own(r, up[f], u) = Own(h, up[f], u) /\ Inherited(r, up[f], u) = a[up[f]].bits
    BY <1>3, <1>4, <2>2
  <2> QED  BY <2>1, <2>2, <2>3, <2>4, <2>5 DEF Given, Unified
<1>9. ASSUME NEW m \in Nodes, NEW w \in Users, w # u \/ m \notin Below(up, n)
      PROVE  Inherited(r, m, w) = Inherited(h, m, w)
  BY <1>3, <1>8, <1>9
<1>10. Cascaded(h, r, up, n, u, start)
  BY <1>3, <1>8, <1>9 DEF Cascaded
<1> QED  BY <1>10 DEF r

LEMMA NodeFacts ==
    /\ Folders \subseteq Nodes /\ Space \in Nodes /\ Space \notin Folders
    /\ None \notin Nodes /\ Nowhere \notin Nodes
    /\ \A n \in Nodes : n = Space \/ n \in Folders
BY NodesAssumption DEF Nodes

(* Where rows of one's own are the same and the inherited ones of all others too, it is a step. *)
LEMMA CascadeSteps ==
    ASSUME NEW h \in Tables, NEW up, Tree(up), NEW n, NEW u \in Users, NEW start \in SUBSET Bits, NEW ch,
           \/ n \in Nodes /\ start \ Unshared = Unified(h, n, u) \ Unshared
           \/ n \in Nodes /\ start \ Unshared = Inherited(h, n, u)
           \/ start \subseteq Unshared
           \/ \A f \in Folders : up[f] # n
    PROVE  LET r == Cascade(h, up, n, u, start) IN r \in Tables /\ Step(h, r, up, ch)
<1> DEFINE r == Cascade(h, up, n, u, start)
<1>0. Cascaded(h, r, up, n, u, start)
  BY CascadeCells
<1> HIDE DEF r
<1>1. /\ r \in Tables
      /\ \A m \in Nodes, w \in Users : Own(r, m, w) = Own(h, m, w)
      /\ \A m \in Nodes, w \in Users : (w # u \/ m \notin Below(up, n)) => Inherited(r, m, w) = Inherited(h, m, w)
      /\ \A f \in Folders :
            \/ Inherited(r, f, u) = Inherited(h, f, u)
            \/ /\ up[f] \in Folders /\ Inherited(r, f, u) # {}
               /\ Inherited(r, f, u) = (IF up[f] = n THEN start ELSE Unified(r, up[f], u)) \ Unshared
  BY <1>0 DEF Cascaded
<1>2. \A m \in Nodes, w \in Users : Turns(h, r, m, w, ch)
  BY <1>1 DEF Turns
<1>3. \A m \in Folders, w \in Users : Kept(h, r, up, m, w)
  <2>1. \A m \in Folders : Above(up, m) \subseteq Nodes
    BY AboveIs, NodeFacts
  <2> QED  BY <1>1, <2>1 DEF Kept
<1>4. \A w \in Users : Inherited(r, Space, w) = Inherited(h, Space, w)
  BY <1>1, NodeFacts DEF Below
<1>5. n \notin Below(up, n)
  BY AboveUp DEF Below
<1>6. ASSUME NEW m \in Folders, NEW w \in Users  PROVE Passes(h, r, up, m, w)
  <2>1. CASE Inherited(r, m, w) = Inherited(h, m, w)
    BY <1>3, <2>1 DEF Passes
  <2>2. CASE Inherited(r, m, w) # Inherited(h, m, w)
    <3>1. /\ w = u /\ up[m] \in Folders /\ Inherited(r, m, w) # {}
          /\ Inherited(r, m, w) = (IF up[m] = n THEN start ELSE Unified(r, up[m], u)) \ Unshared
      BY <1>1, <2>2, NodeFacts
    <3>2. CASE up[m] = n
      <4>1. Unified(r, n, u) = Unified(h, n, u) /\ Inherited(r, n, u) = Inherited(h, n, u)
        BY <1>1, <1>5, <3>1, <3>2, NodeFacts DEF Unified
      <4> QED  BY <3>1, <3>2, <4>1 DEF Passes
    <3>3. CASE up[m] # n
      BY <3>1, <3>3 DEF Passes
    <3> QED  BY <3>2, <3>3
  <2> QED  BY <2>1, <2>2
<1> QED  BY <1>1, <1>2, <1>4, <1>6 DEF Step, r

(* What cascadeRevokeToChildrenInherited leaves: below n, what is there takes what its parent has. *)
RevokedBelow(h, r, up, n, u) ==
    /\ r \in Tables
    /\ \A m \in Nodes, w \in Users : Own(r, m, w) = Own(h, m, w)
    /\ \A m \in Nodes, w \in Users :
          (w # u \/ m \notin Below(up, n) \/ Inherited(h, m, w) = {}) => Inherited(r, m, w) = Inherited(h, m, w)
    /\ \A f \in Below(up, n) :
          /\ up[f] \in Folders
          /\ Inherited(h, f, u) # {} => Inherited(r, f, u) = Unified(r, up[f], u)

LEMMA CascadeRevokeCells ==
    ASSUME NEW h \in Tables, NEW up, Tree(up), NEW n, NEW u \in Users
    PROVE  RevokedBelow(h, CascadeRevoke(h, up, n, u), up, n, u)
<1> DEFINE below == Below(up, n)
           D == SUBSET Bits
           b == [f \in Folders |-> Inherited(h, f, u)]
           V == [f \in Folders |-> [d \in D |->
                    IF f \in below /\ Inherited(h, f, u) # {} THEN Own(h, up[f], u) \cup d ELSE Inherited(h, f, u)]]
           Solves(g) == g = [f \in Folders |->
                    IF f \in below /\ Inherited(h, f, u) # {} THEN Own(h, up[f], u) \cup g[up[f]] ELSE Inherited(h, f, u)]
           a == CHOOSE g : Solves(g)
           r == CascadeRevoke(h, up, n, u)
<1>1. \A f \in below : f \in Folders /\ up[f] \in Folders
  BY AboveIs DEF Below
<1>2. V \in DownRules(D)
  <2>1. ASSUME NEW f \in Folders, NEW d \in D
        PROVE  (IF f \in below /\ Inherited(h, f, u) # {} THEN Own(h, up[f], u) \cup d ELSE Inherited(h, f, u)) \in D
    BY <1>1, NodeFacts, RowsAre
  <2> QED  BY <2>1 DEF DownRules
<1>3. b \in [Folders -> D]
  BY NodeFacts, RowsAre
<1>4. PICK g \in [Folders -> D] : \A f \in Folders : g[f] = IF up[f] \in Folders THEN V[f][g[up[f]]] ELSE b[f]
  <2>1. Forest(up)
    BY DEF Tree
  <2> HIDE DEF V, b, D
  <2> QED  BY <1>2, <1>3, <2>1, TreeRecursion
<1>5. \A f \in Folders :
         g[f] = IF f \in below /\ Inherited(h, f, u) # {} THEN Own(h, up[f], u) \cup g[up[f]] ELSE Inherited(h, f, u)
  BY <1>1, <1>4
<1>6. Solves(a)
  <2>1. Solves(g)
    BY <1>5
  <2> HIDE DEF Solves
  <2> QED  BY <2>1
<1>7. r = Inheriting(h, u, a)
  BY DEF CascadeRevoke
<1>8. \A f \in Folders :
         a[f] = IF f \in below /\ Inherited(h, f, u) # {} THEN Own(h, up[f], u) \cup a[up[f]] ELSE Inherited(h, f, u)
  <2> HIDE DEF a
  <2> QED  BY <1>6
<1>9. DOMAIN a = Folders /\ a = [f \in Folders |-> a[f]]
  <2> HIDE DEF a
  <2> QED  BY <1>6
<1> HIDE DEF a, r
<1> DEFINE T == {f \in Folders : a[f] = g[f]}
<1>10. Folders \subseteq T
  <2>1. \A f \in Folders : (up[f] \in Folders => up[f] \in T) => f \in T
    BY <1>1, <1>5, <1>8
  <2>2. Forest(up)
    BY DEF Tree
  <2> HIDE DEF T
  <2> QED  BY <2>1, <2>2, TreeInduction
<1>11. a \in [Folders -> SUBSET Bits]
  BY <1>9, <1>10
<1>12. /\ r \in Tables
       /\ \A m \in Nodes, w \in Users : Own(r, m, w) = Own(h, m, w)
       /\ \A m \in Nodes, w \in Users :
             Inherited(r, m, w) = IF m \in Folders /\ w = u THEN a[m] ELSE Inherited(h, m, w)
  BY <1>7, <1>11, InheritingIs
<1>13. ASSUME NEW m \in Nodes, NEW w \in Users, w # u \/ m \notin below \/ Inherited(h, m, w) = {}
       PROVE  Inherited(r, m, w) = Inherited(h, m, w)
  BY <1>8, <1>12, <1>13
<1>14. ASSUME NEW f \in below, Inherited(h, f, u) # {}  PROVE Inherited(r, f, u) = Unified(r, up[f], u)
  <2>1. f \in Nodes /\ f \in Folders /\ up[f] \in Nodes /\ up[f] \in Folders
    BY <1>1, NodeFacts
  <2>2. Inherited(r, f, u) = Own(h, up[f], u) \cup a[up[f]]
    BY <1>8, <1>12, <1>14, <2>1
  <2> QED  BY <1>12, <2>1, <2>2 DEF Unified
<1>15. RevokedBelow(h, r, up, n, u)
  <2> HIDE DEF below
  <2>1. \A f \in below : up[f] \in Folders /\ (Inherited(h, f, u) # {} => Inherited(r, f, u) = Unified(r, up[f], u))
    BY <1>1, <1>14
  <2> QED  BY <1>12, <1>13, <2>1 DEF RevokedBelow, below
<1> QED  BY <1>15 DEF r

(* revokeFromUser *)
LEMMA RevokeIsReached ==
    ASSUME NEW h \in Tables, NEW up, Tree(up), NEW n \in Nodes, NEW u \in Users, NEW bits \in SUBSET Bits,
           NEW ch, <<n, u, bits, {}>> \in ch
    PROVE  LET r == Revoke(h, up, n, u, bits)
           IN  /\ r \in Tables /\ Reaches(h, r, up, ch)
               /\ \A m \in Nodes, w \in Users :
                     Own(r, m, w) = IF m = n /\ w = u THEN Own(h, n, u) \ bits ELSE Own(h, m, w)
<1> DEFINE r == Revoke(h, up, n, u, bits)
<1>1. CASE Own(h, n, u) = {}
  <2>1. r = h
    BY <1>1 DEF Revoke
  <2> QED  BY <1>1, <2>1, ReachSame
<1>2. CASE Own(h, n, u) # {}
  <2> DEFINE s == Put(h, n, u, "own", Own(h, n, u) \ bits)
  <2>1. Own(h, n, u) \ bits \in SUBSET Bits
    BY RowsAre
  <2>2. /\ s \in Tables
        /\ \A m \in Nodes, w \in Users : Inherited(s, m, w) = Inherited(h, m, w)
        /\ \A m \in Nodes, w \in Users : Own(s, m, w) = IF m = n /\ w = u THEN Own(h, n, u) \ bits ELSE Own(h, m, w)
    <3> HIDE DEF s
    <3>1. s = Put(h, n, u, "own", Own(h, n, u) \ bits)
      BY DEF s
    <3> QED  BY <2>1, <3>1, PutOwn
  <2>3. r = CascadeRevoke(s, up, n, u)
    BY <1>2 DEF Revoke, Put, Own
  <2> HIDE DEF s, r
  <2>4. RevokedBelow(s, r, up, n, u)
    BY <2>2, <2>3, CascadeRevokeCells
  <2>5. /\ r \in Tables
        /\ \A m \in Nodes, w \in Users : Own(r, m, w) = IF m = n /\ w = u THEN Own(h, n, u) \ bits ELSE Own(h, m, w)
    BY <2>2, <2>4 DEF RevokedBelow
  <2>6. \A m \in Nodes, w \in Users : Turns(h, r, m, w, ch)
    <3>1. Own(r, n, u) = (Own(h, n, u) \ bits) \cup {} /\ {} \in SUBSET Bits
      BY <2>5
    <3>2. Turns(h, r, n, u, ch)
      BY <3>1 DEF Turns
    <3> QED  BY <2>5, <3>2 DEF Turns
  <2>7. \A w \in Users : Inherited(r, Space, w) = Inherited(h, Space, w)
    BY <2>2, <2>4, NodeFacts DEF RevokedBelow, Below
  <2>8. ASSUME NEW m \in Folders, NEW w \in Users  PROVE Passes(h, r, up, m, w)
    <3>1. CASE w = u /\ m \in Below(up, n) /\ Inherited(s, m, w) # {}
      BY <2>4, <3>1 DEF RevokedBelow, Passes
    <3>2. CASE w # u \/ m \notin Below(up, n)
      <4>1. Inherited(r, m, w) = Inherited(h, m, w)
        BY <2>2, <2>4, <3>2, NodeFacts DEF RevokedBelow
      <4>2. Kept(h, r, up, m, w)
        <5>1. \A g \in Above(up, m) : g \in Nodes /\ (w # u \/ g # n)
          BY <3>2, AboveIs, NodeFacts DEF Below
        <5> QED  BY <2>5, <5>1 DEF Kept
      <4> QED  BY <4>1, <4>2 DEF Passes
    <3>3. CASE w = u /\ m \in Below(up, n) /\ Inherited(s, m, w) = {}
      <4>1. Inherited(r, m, w) = {} /\ Inherited(h, m, w) = {}
        BY <2>2, <2>4, <3>3, NodeFacts DEF RevokedBelow
      <4> QED  BY <4>1 DEF Passes
    <3> QED  BY <3>1, <3>2, <3>3
  <2>9. Step(h, r, up, ch)
    BY <2>6, <2>7, <2>8 DEF Step
  <2> QED  BY <2>5, <2>9, ReachStep DEF r
<1> QED  BY <1>1, <1>2

(* A row inherits what its parent has, or adds to it what the parent's own row has. *)
LEMMA InheritSteps ==
    ASSUME NEW h \in Tables, NEW up, Tree(up), NEW f \in Folders, up[f] \in Folders, NEW u \in Users,
           NEW bits, bits = Unified(h, up[f], u) \/ bits = Own(h, up[f], u) \cup Inherited(h, f, u), NEW ch
    PROVE  LET r == Inherit(h, f, u, bits) IN r \in Tables /\ Step(h, r, up, ch)
<1> DEFINE r == Inherit(h, f, u, bits)
<1>1. bits \in SUBSET Bits
  BY NodeFacts, RowsAre
<1>2. /\ r \in Tables
      /\ \A m \in Nodes, w \in Users : Own(r, m, w) = Own(h, m, w)
      /\ \A m \in Nodes, w \in Users :
            Inherited(r, m, w) = IF m = f /\ w = u /\ ~(bits \subseteq Unshared) THEN bits \ Unshared
                                 ELSE Inherited(h, m, w)
  BY <1>1, InheritIs
<1> HIDE DEF r
<1>3. \A m \in Nodes, w \in Users : Turns(h, r, m, w, ch)
  BY <1>2 DEF Turns
<1>4. \A m \in Folders, w \in Users : Kept(h, r, up, m, w)
  <2>1. \A m \in Folders : Above(up, m) \subseteq Nodes
    BY AboveIs, NodeFacts
  <2> QED  BY <1>2, <2>1 DEF Kept
<1>5. \A w \in Users : Inherited(r, Space, w) = Inherited(h, Space, w)
  BY <1>2, NodeFacts
<1>6. up[f] # f /\ up[f] \in Nodes /\ f \in Nodes
  BY AboveUp, NodeFacts
<1>7. ASSUME NEW m \in Folders, NEW w \in Users  PROVE Passes(h, r, up, m, w)
  <2>1. CASE Inherited(r, m, w) = Inherited(h, m, w)
    BY <1>4, <2>1 DEF Passes
  <2>2. CASE Inherited(r, m, w) # Inherited(h, m, w)
    <3>1. m = f /\ w = u /\ Inherited(r, m, w) = bits \ Unshared
      BY <1>2, <2>2, NodeFacts
    <3>2. Own(r, up[f], u) = Own(h, up[f], u) /\ Unified(r, up[f], u) = Unified(h, up[f], u)
      BY <1>2, <1>6 DEF Unified
    <3>3. CASE bits = Unified(h, up[f], u)
      BY <3>1, <3>2, <3>3 DEF Passes
    <3>4. CASE bits = Own(h, up[f], u) \cup Inherited(h, f, u)
      <4>1. Inherited(r, m, w) = (Own(r, up[m], w) \cup Inherited(h, m, w)) \ Unshared
        BY <3>1, <3>2, <3>4
      <4> QED  BY <1>4, <3>1, <4>1 DEF Passes
    <3> QED  BY <3>3, <3>4
  <2> QED  BY <2>1, <2>2
<1> QED  BY <1>2, <1>3, <1>5, <1>7 DEF Step, r

(* Bits are added to a row of one's own. *)
LEMMA GiveSteps ==
    ASSUME NEW h \in Tables, NEW up, Tree(up), NEW n \in Nodes, NEW u \in Users, NEW bits \in SUBSET Bits,
           NEW ch, <<n, u, {}, bits>> \in ch, NEW r, r = Put(h, n, u, "own", Own(h, n, u) \cup bits)
    PROVE  /\ r \in Tables /\ Step(h, r, up, ch)
           /\ \A m \in Nodes, w \in Users : Inherited(r, m, w) = Inherited(h, m, w)
           /\ \A m \in Nodes, w \in Users :
                 Own(r, m, w) = IF m = n /\ w = u THEN Own(h, n, u) \cup bits ELSE Own(h, m, w)
<1>1. Own(h, n, u) \cup bits \in SUBSET Bits
  BY RowsAre
<1>2. /\ r \in Tables
      /\ \A m \in Nodes, w \in Users : Inherited(r, m, w) = Inherited(h, m, w)
      /\ \A m \in Nodes, w \in Users :
            Own(r, m, w) = IF m = n /\ w = u THEN Own(h, n, u) \cup bits ELSE Own(h, m, w)
  BY <1>1, PutOwn
<1>3. \A m \in Nodes, w \in Users : Turns(h, r, m, w, ch)
  <2>1. Own(r, n, u) = (Own(h, n, u) \ {}) \cup bits /\ {} \in SUBSET Bits
    BY <1>2
  <2>2. Turns(h, r, n, u, ch)
    BY <2>1 DEF Turns
  <2> QED  BY <1>2, <2>2 DEF Turns
<1>4. ASSUME NEW m \in Folders, NEW w \in Users  PROVE Passes(h, r, up, m, w)
  <2>1. Above(up, m) \subseteq Nodes
    BY AboveIs, NodeFacts
  <2>2. Kept(h, r, up, m, w)
    BY <1>2, <2>1 DEF Kept
  <2> QED  BY <1>2, <2>2, NodeFacts DEF Passes
<1>5. \A w \in Users : Inherited(r, Space, w) = Inherited(h, Space, w)
  BY <1>2, NodeFacts
<1> QED  BY <1>2, <1>3, <1>4, <1>5 DEF Step

(* resetInheritedPermissions *)
LEMMA ResetSteps ==
    ASSUME NEW h \in Tables, NEW up, Tree(up), NEW n \in Nodes, NEW u \in Users, NEW ch
    PROVE  LET r == ResetInherited(h, up, n, u)
           IN  /\ r \in Tables /\ Step(h, r, up, ch)
               /\ \A m \in Nodes, w \in Users : Own(r, m, w) = Own(h, m, w)
<1> DEFINE r == ResetInherited(h, up, n, u)
<1>1. CASE ~Inherits(up, n)
  <2>1. r = h
    BY <1>1 DEF ResetInherited
  <2>2. Step(h, h, up, ch)
    BY DEF Step, Turns, Passes, Kept
  <2> QED  BY <2>1, <2>2
<1>2. CASE Inherits(up, n)
  <2>1. n \in Folders /\ up[n] \in Folders
    BY <1>2 DEF Inherits
  <2> DEFINE bits == Own(h, up[n], u) \cup Inherited(h, n, u)
  <2>2. r = Inherit(h, n, u, bits)
    BY <1>2 DEF ResetInherited
  <2>3. bits \in SUBSET Bits
    BY <2>1, NodeFacts, RowsAre
  <2>4. Inherit(h, n, u, bits) \in Tables /\ Step(h, Inherit(h, n, u, bits), up, ch)
    BY <2>1, InheritSteps
  <2>5. \A m \in Nodes, w \in Users : Own(Inherit(h, n, u, bits), m, w) = Own(h, m, w)
    BY <2>1, <2>3, InheritIs
  <2> QED  BY <2>2, <2>4, <2>5
<1> QED  BY <1>1, <1>2

(* grantToUser *)
LEMMA GrantIsReached ==
    ASSUME NEW h \in Tables, NEW up, Tree(up), NEW n \in Nodes, NEW u \in Users, NEW bits \in SUBSET Bits,
           NEW ch, <<n, u, {}, bits>> \in ch
    PROVE  LET r == Grant(h, up, n, u, bits)
           IN  /\ r \in Tables /\ Reaches(h, r, up, ch)
               /\ \A m \in Nodes, w \in Users :
                     Own(r, m, w) = IF m = n /\ w = u THEN Own(h, n, u) \cup bits ELSE Own(h, m, w)
<1> DEFINE g == Put(h, n, u, "own", Own(h, n, u) \cup bits)
           s == ResetInherited(g, up, n, u)
           r == Cascade(s, up, n, u, Unified(s, n, u))
<1>1. Grant(h, up, n, u, bits) = r
  BY DEF Grant, Put, Own
<1>2. /\ g \in Tables /\ Step(h, g, up, ch)
      /\ \A m \in Nodes, w \in Users :
            Own(g, m, w) = IF m = n /\ w = u THEN Own(h, n, u) \cup bits ELSE Own(h, m, w)
  <2>1. g = Put(h, n, u, "own", Own(h, n, u) \cup bits)
    OBVIOUS
  <2> HIDE DEF g
  <2> QED  BY <2>1, GiveSteps
<1> HIDE DEF g
<1>3. /\ s \in Tables /\ Step(g, s, up, ch)
      /\ \A m \in Nodes, w \in Users : Own(s, m, w) = Own(g, m, w)
  BY <1>2, ResetSteps
<1> HIDE DEF s
<1>4. Unified(s, n, u) \in SUBSET Bits
  BY <1>3, RowsAre
<1>5. r \in Tables /\ Step(s, r, up, ch)
  BY <1>3, <1>4, CascadeSteps
<1>6. \A m \in Nodes, w \in Users : Own(r, m, w) = Own(s, m, w)
  <2>1. Cascaded(s, r, up, n, u, Unified(s, n, u))
    BY <1>3, <1>4, CascadeCells
  <2> QED  BY <2>1 DEF Cascaded
<1> HIDE DEF r
<1>7. Reaches(h, g, up, ch) /\ Reaches(g, s, up, ch) /\ Reaches(s, r, up, ch)
  BY <1>2, <1>3, <1>5, ReachStep
<1>8. Reaches(h, r, up, ch)
  BY <1>7, ReachTrans
<1> QED  BY <1>1, <1>2, <1>3, <1>5, <1>6, <1>8

-----------------------------------------------------------------------------

(* What the steps keep *)

(* Rows of one's own that no change is about are the same. *)
LEMMA ReachOwn ==
    ASSUME NEW h \in Tables, NEW r, NEW up, NEW ch, Reaches(h, r, up, ch), NEW m \in Nodes, NEW w \in Users,
           \A X, Y \in SUBSET Bits : <<m, w, X, Y>> \notin ch
    PROVE  Own(r, m, w) = Own(h, m, w)
<1> DEFINE Q == {x \in Tables : Own(x, m, w) = Own(h, m, w)}
<1>1. Q \in Closed(up, ch)
  BY DEF Closed, Step, Turns
<1> QED  BY <1>1 DEF Reaches

(* A bit that no change takes stays, *)
LEMMA ReachBit ==
    ASSUME NEW h \in Tables, NEW r, NEW up, NEW ch, Reaches(h, r, up, ch), NEW m \in Nodes, NEW w \in Users,
           NEW b \in Own(h, m, w), \A X, Y \in SUBSET Bits : <<m, w, X, Y>> \in ch => b \notin X
    PROVE  b \in Own(r, m, w)
<1> DEFINE Q == {x \in Tables : b \in Own(x, m, w)}
<1>1. ASSUME NEW x \in Q, NEW y \in Tables, Step(x, y, up, ch)  PROVE y \in Q
  <2>1. Turns(x, y, m, w, ch)
    BY <1>1 DEF Step
  <2>2. CASE Own(y, m, w) = Own(x, m, w)
    BY <2>2
  <2>3. CASE \E X, Y \in SUBSET Bits : <<m, w, X, Y>> \in ch /\ Own(y, m, w) = (Own(x, m, w) \ X) \cup Y
    BY <2>3
  <2> QED  BY <2>1, <2>2, <2>3 DEF Turns
<1>2. Q \in Closed(up, ch)
  BY <1>1 DEF Closed
<1> QED  BY <1>2 DEF Reaches

(* and one that no change gives does not come. *)
LEMMA ReachNoBit ==
    ASSUME NEW h \in Tables, NEW r, NEW up, NEW ch, Reaches(h, r, up, ch), NEW m \in Nodes, NEW w \in Users,
           NEW b, b \notin Own(h, m, w), \A X, Y \in SUBSET Bits : <<m, w, X, Y>> \in ch => b \notin Y
    PROVE  b \notin Own(r, m, w)
<1> DEFINE Q == {x \in Tables : b \notin Own(x, m, w)}
<1>1. Q \in Closed(up, ch)
  BY DEF Closed, Step, Turns
<1> QED  BY <1>1 DEF Reaches

(* A space inherits nothing. *)
LEMMA ReachSpace ==
    ASSUME NEW h \in Tables, NEW r, NEW up, NEW ch, Reaches(h, r, up, ch), NEW w \in Users
    PROVE  Inherited(r, Space, w) = Inherited(h, Space, w)
<1> DEFINE Q == {x \in Tables : Inherited(x, Space, w) = Inherited(h, Space, w)}
<1>1. Q \in Closed(up, ch)
  BY DEF Closed, Step
<1> QED  BY <1>1 DEF Reaches

(* Of some folders, with all that is above them: what is inherited is granted above. *)
UpClosed(up, S) == S \subseteq Folders /\ \A f \in S : up[f] \in Folders => up[f] \in S
GrantedAbove(h, up, f, u) == \A b \in Inherited(h, f, u) \ Unshared : \E g \in Above(up, f) : b \in Own(h, g, u)
BackedIn(h, up, S) == \A f \in S, u \in Users : GrantedAbove(h, up, f, u)

LEMMA PassGranted ==
    ASSUME NEW up, Tree(up), NEW f \in Folders, NEW u \in Users, NEW h \in Tables, NEW r \in Tables,
           Passes(h, r, up, f, u), GrantedAbove(h, up, f, u), up[f] \in Folders => GrantedAbove(r, up, up[f], u)
    PROVE  GrantedAbove(r, up, f, u)
<1> SUFFICES ASSUME NEW b \in Inherited(r, f, u) \ Unshared  PROVE \E g \in Above(up, f) : b \in Own(r, g, u)
  BY DEF GrantedAbove
<1>1. ASSUME up[f] \in Folders, b \in Unified(r, up[f], u)  PROVE \E g \in Above(up, f) : b \in Own(r, g, u)
  <2>1. Above(up, f) = {up[f]} \cup Above(up, up[f])
    BY <1>1, AboveIs
  <2> QED  BY <1>1, <2>1 DEF GrantedAbove, Unified
<1>2. ASSUME Kept(h, r, up, f, u), b \in Inherited(h, f, u)  PROVE \E g \in Above(up, f) : b \in Own(r, g, u)
  BY <1>2 DEF GrantedAbove, Kept
<1> QED  BY <1>1, <1>2 DEF Passes, Unified

LEMMA ReachBacked ==
    ASSUME NEW up, Tree(up), NEW S, UpClosed(up, S), NEW h \in Tables, BackedIn(h, up, S),
           NEW r, NEW ch, Reaches(h, r, up, ch)
    PROVE  BackedIn(r, up, S)
<1> DEFINE Q == {x \in Tables : BackedIn(x, up, S)}
<1>1. ASSUME NEW x \in Q, NEW y \in Tables, Step(x, y, up, ch)  PROVE BackedIn(y, up, S)
  <2> DEFINE T == {f \in Folders : f \in S => \A u \in Users : GrantedAbove(y, up, f, u)}
  <2>1. ASSUME NEW f \in Folders, up[f] \in Folders => up[f] \in T, f \in S, NEW u \in Users
        PROVE  GrantedAbove(y, up, f, u)
    <3>1. Passes(x, y, up, f, u)
      BY <1>1 DEF Step
    <3>2. GrantedAbove(x, up, f, u)
      BY <2>1 DEF BackedIn
    <3>3. up[f] \in Folders => GrantedAbove(y, up, up[f], u)
      BY <2>1 DEF UpClosed
    <3> QED  BY <3>1, <3>2, <3>3, PassGranted
  <2>2. \A f \in Folders : (up[f] \in Folders => up[f] \in T) => f \in T
    BY <2>1
  <2>3. Forest(up)
    BY DEF Tree
  <2> HIDE DEF T
  <2>4. Folders \subseteq T
    BY <2>2, <2>3, TreeInduction
  <2> QED  BY <2>4 DEF T, BackedIn, UpClosed
<1>2. Q \in Closed(up, ch)
  BY <1>1 DEF Closed
<1> QED  BY <1>2 DEF Reaches

(* A user who has no rows on some folders has none yet. *)
Barred(h, u, S) == \A f \in S : Own(h, f, u) = {} /\ Inherited(h, f, u) = {}

LEMMA ReachBarred ==
    ASSUME NEW up, Tree(up), NEW S, UpClosed(up, S), NEW h \in Tables, NEW u \in Users, Barred(h, u, S),
           NEW r, NEW ch, Reaches(h, r, up, ch),
           \A f \in S, X, Y \in SUBSET Bits : <<f, u, X, Y>> \in ch => Y = {}
    PROVE  Barred(r, u, S)
<1> DEFINE Q == {x \in Tables : Barred(x, u, S)}
<1>1. ASSUME NEW x \in Q, NEW y \in Tables, Step(x, y, up, ch)  PROVE Barred(y, u, S)
  <2>1. ASSUME NEW f \in S  PROVE Own(y, f, u) = {}
    <3>1. Turns(x, y, f, u, ch) /\ Own(x, f, u) = {}
      BY <1>1, NodeFacts DEF Step, UpClosed, Barred
    <3> QED  BY <3>1 DEF Turns
  <2> DEFINE T == {f \in Folders : f \in S => Inherited(y, f, u) = {}}
  <2>2. ASSUME NEW f \in Folders, up[f] \in Folders => up[f] \in T, f \in S  PROVE Inherited(y, f, u) = {}
    <3>1. Passes(x, y, up, f, u) /\ Inherited(x, f, u) = {}
      BY <1>1, <2>2 DEF Step, Barred
    <3>2. up[f] \in Folders => Inherited(y, up[f], u) = {} /\ Own(y, up[f], u) = {}
      BY <2>1, <2>2 DEF UpClosed
    <3> QED  BY <3>1, <3>2 DEF Passes, Unified
  <2>3. \A f \in Folders : (up[f] \in Folders => up[f] \in T) => f \in T
    BY <2>2
  <2>4. Forest(up)
    BY DEF Tree
  <2> HIDE DEF T
  <2>5. Folders \subseteq T
    BY <2>3, <2>4, TreeInduction
  <2> QED  BY <2>1, <2>5 DEF T, Barred, UpClosed
<1>2. Q \in Closed(up, ch)
  BY <1>1 DEF Closed
<1> QED  BY <1>2 DEF Reaches

(* A row of a member: no bits, or bits of a member with READ among them. *)
Plain == {X \in SUBSET MemberBits : X = {} \/ "READ" \in X}
PlainFor(h, u) == \A n \in Nodes : Own(h, n, u) \in Plain /\ Inherited(h, n, u) \in Plain

LEMMA PlainIs ==
    /\ {} \in Plain
    /\ \A X, Y \in Plain : X \cup Y \in Plain /\ X \ Unshared = X /\ X \ MemberBits = {}
    /\ \A X \in Plain : X \ {"OWNER"} = X /\ "OWNER" \notin X
    /\ \A role \in Roles : RoleBits[role] \in Plain /\ "READ" \in RoleBits[role] /\ RoleBits[role] \in SUBSET Bits
<1>1. \A X, Y \in Plain : X \cup Y \in Plain
  BY DEF Plain
<1>2. \A X \in Plain : X \ Unshared = X /\ X \ MemberBits = {} /\ "OWNER" \notin X
  BY DEF Plain, Unshared, MemberBits
<1>3. \A role \in {"FULL", "EDITOR", "READONLY"} :
         RoleBits[role] \in Plain /\ "READ" \in RoleBits[role] /\ RoleBits[role] \in SUBSET Bits
  BY DEF RoleBits, Plain, MemberBits, Bits
<1>4. Roles \subseteq {"FULL", "EDITOR", "READONLY"}
  BY RolesAssumption DEF RoleBits
<1> QED  BY <1>1, <1>2, <1>3, <1>4 DEF Plain

LEMMA ReachPlain ==
    ASSUME NEW up, Tree(up), NEW h \in Tables, NEW u \in Users, PlainFor(h, u),
           NEW r, NEW ch, Reaches(h, r, up, ch),
           \A m \in Nodes, X, Y \in SUBSET Bits : <<m, u, X, Y>> \in ch => (X = {} \/ X = MemberBits) /\ Y \in Plain
    PROVE  PlainFor(r, u)
<1> DEFINE Q == {x \in Tables : PlainFor(x, u)}
<1>1. ASSUME NEW x \in Q, NEW y \in Tables, Step(x, y, up, ch)  PROVE PlainFor(y, u)
  <2>1. ASSUME NEW n \in Nodes  PROVE Own(y, n, u) \in Plain
    <3>1. Turns(x, y, n, u, ch) /\ Own(x, n, u) \in Plain
      BY <1>1 DEF Step, PlainFor
    <3>2. CASE Own(y, n, u) = Own(x, n, u)
      BY <3>1, <3>2
    <3>3. CASE Own(y, n, u) # Own(x, n, u)
      <4>1. PICK X, Y \in SUBSET Bits : <<n, u, X, Y>> \in ch /\ Own(y, n, u) = (Own(x, n, u) \ X) \cup Y
        BY <3>1, <3>3 DEF Turns
      <4>2. Own(x, n, u) \ X \in Plain
        <5>1. X = {} \/ X = MemberBits
          BY <4>1
        <5> QED  BY <3>1, <5>1, PlainIs
      <4>3. Y \in Plain
        BY <4>1
      <4> QED  BY <4>1, <4>2, <4>3, PlainIs
    <3> QED  BY <3>2, <3>3
  <2> DEFINE T == {f \in Folders : Inherited(y, f, u) \in Plain}
  <2>2. ASSUME NEW f \in Folders, up[f] \in Folders => up[f] \in T  PROVE Inherited(y, f, u) \in Plain
    <3>1. Passes(x, y, up, f, u) /\ Inherited(x, f, u) \in Plain
      BY <1>1, <2>2, NodeFacts DEF Step, PlainFor
    <3>2. up[f] \in Folders => Inherited(y, up[f], u) \in Plain /\ Own(y, up[f], u) \in Plain
      BY <2>1, <2>2, NodeFacts
    <3>3. up[f] \in Folders => Unified(y, up[f], u) \in Plain /\ Unified(y, up[f], u) \ Unshared \in Plain
      BY <3>2, PlainIs DEF Unified
    <3>4. up[f] \in Folders => (Own(y, up[f], u) \cup Inherited(x, f, u)) \ Unshared \in Plain
      BY <3>1, <3>2, PlainIs
    <3> QED  BY <3>1, <3>2, <3>3, <3>4, PlainIs DEF Passes
  <2>3. \A f \in Folders : (up[f] \in Folders => up[f] \in T) => f \in T
    BY <2>2
  <2>4. Forest(up)
    BY DEF Tree
  <2> HIDE DEF T
  <2>5. Folders \subseteq T
    BY <2>3, <2>4, TreeInduction
  <2>6. Inherited(y, Space, u) \in Plain
    BY <1>1, NodeFacts DEF Step, PlainFor
  <2> QED  BY <2>1, <2>5, <2>6, NodeFacts DEF T, PlainFor
<1>2. Q \in Closed(up, ch)
  BY <1>1 DEF Closed
<1> QED  BY <1>2 DEF Reaches

-----------------------------------------------------------------------------

(* The loops *)

(* An order of a finite set goes through each of its members. *)
LEMMA OrderIs ==
    ASSUME NEW S, IsFiniteSet(S), NEW order \in Orders(S)
    PROVE  /\ Cardinality(S) \in Nat
           /\ DOMAIN order = 1..Cardinality(S)
           /\ \A i \in 1..Cardinality(S) : order[i] \in S
           /\ \A s \in S : \E j \in 1..Cardinality(S) : order[j] = s
<1>1. Cardinality(S) \in Nat
  BY FS_CardinalityType
<1>2. order \in Bijection(1..Cardinality(S), S)
  BY DEF Orders
<1>3. order \in [1..Cardinality(S) -> S] /\ \A s \in S : \E j \in 1..Cardinality(S) : order[j] = s
  BY <1>2 DEF Bijection, Injection, Surjection, IsInjective
<1> QED  BY <1>1, <1>3

(* The rights of some users are revoked one by one. *)
Revoking(n, users) == {<<n, w, MemberBits, {}>> : w \in users}

LEMMA MemberBitsAre == MemberBits \in SUBSET Bits /\ Unshared \in SUBSET Bits /\ {} \in SUBSET Bits
                       /\ "OWNER" \notin MemberBits /\ "PRIVATE" \notin MemberBits /\ RUD \in SUBSET MemberBits
                       /\ {"OWNER"} \in SUBSET Bits /\ {"PRIVATE"} \in SUBSET Bits /\ RUD \in SUBSET Bits
                       /\ "READ" \in MemberBits /\ Bits \ MemberBits = Unshared
BY DEF MemberBits, Bits, Unshared, RUD

LEMMA RevokeAllIsReached ==
    ASSUME NEW h \in Tables, NEW up, Tree(up), NEW n \in Nodes, NEW users \in SUBSET Users,
           NEW order \in Orders(Users)
    PROVE  LET r == RevokeAll(h, up, n, users, order)
           IN  /\ r \in Tables /\ Reaches(h, r, up, Revoking(n, users))
               /\ \A w \in users : Own(r, n, w) \cap MemberBits = {}
<1> DEFINE K == Cardinality(Users)
           Turn(x, u) == IF u \in users THEN Revoke(x, up, n, u, MemberBits) ELSE x
           V == [i \in 1..K |-> [x \in Tables |-> Turn(x, order[i])]]
           ch == Revoking(n, users)
<1>1. /\ K \in Nat /\ DOMAIN order = 1..K
      /\ \A i \in 1..K : order[i] \in Users
      /\ \A s \in Users : \E j \in 1..K : order[j] = s
  BY OrderIs, FiniteAccess
<1>2. RevokeAll(h, up, n, users, order) = Loop(V, h)
  BY <1>1 DEF RevokeAll, Each
<1>3. ASSUME NEW x \in Tables, NEW u \in Users
      PROVE  /\ Turn(x, u) \in Tables /\ Reaches(x, Turn(x, u), up, ch)
             /\ \A w \in Users : Own(Turn(x, u), n, w) =
                   IF w = u /\ u \in users THEN Own(x, n, w) \ MemberBits ELSE Own(x, n, w)
  <2>1. CASE u \in users
    <3>1. <<n, u, MemberBits, {}>> \in ch
      BY <2>1 DEF Revoking
    <3> HIDE DEF ch
    <3> QED  BY <2>1, <3>1, RevokeIsReached, MemberBitsAre
  <2>2. CASE u \notin users
    BY <2>2, ReachSame
  <2> QED  BY <2>1, <2>2
<1> HIDE DEF Turn, ch, K
<1>4. \A i \in 1..K, x \in Tables : V[i][x] = Turn(x, order[i])
  OBVIOUS
<1>5. V \in Rules(Tables, K)
  BY <1>1, <1>3 DEF Rules
<1> HIDE DEF V
<1>6. Reaches(h, Loop(V, h), up, ch)
  <2>1. \A i \in 1..K, x \in Tables \cap Tables : V[i][x] \in Tables /\ Reaches(x, V[i][x], up, ch)
    BY <1>1, <1>3, <1>4
  <2> QED  BY <1>1, <1>5, <2>1, ReachLoop
<1>7. ASSUME NEW w \in users  PROVE Own(Loop(V, h), n, w) \cap MemberBits = {}
  <2> DEFINE A == {x \in Tables : Own(x, n, w) \cap MemberBits = {}}
  <2>1. PICK j \in 1..K : order[j] = w
    BY <1>1
  <2>2. \A x \in Tables : V[j][x] \in A
    BY <1>3, <1>4, <2>1
  <2>3. \A i \in 1..K, x \in Tables \cap A : V[i][x] \in A
    BY <1>1, <1>3, <1>4
  <2> HIDE DEF A
  <2>4. Loop(V, h) \in A
    BY <1>1, <1>5, <2>2, <2>3, LoopAchieves
  <2> QED  BY <2>4 DEF A
<1> QED  BY <1>2, <1>6, <1>7, ReachTables DEF ch

(* The rows of one's own of an entity are granted again. *)
Granting(f, rows) ==
    {<<f, w, {}, rows[w] \ {"OWNER"}>> : w \in Users} \cup {<<f, w, {}, {"OWNER"}>> : w \in {v \in Users : "OWNER" \in rows[v]}}

LEMMA GrantAgainIsReached ==
    ASSUME NEW h \in Tables, NEW up, Tree(up), NEW f \in Nodes, NEW rows \in [Users -> SUBSET Bits],
           NEW order \in Orders(Users)
    PROVE  LET r == GrantAgain(h, up, f, rows, order)
           IN  /\ r \in Tables /\ Reaches(h, r, up, Granting(f, rows))
               /\ \A w \in Users : "OWNER" \in rows[w] => "OWNER" \in Own(r, f, w)
<1> DEFINE K == Cardinality(Users)
           First(x, u) == IF "OWNER" \in rows[u] THEN Grant(x, up, f, u, {"OWNER"}) ELSE x
           Turn(x, u) == IF rows[u] = {} THEN x ELSE Grant(First(x, u), up, f, u, rows[u] \ {"OWNER"})
           V == [i \in 1..K |-> [x \in Tables |-> Turn(x, order[i])]]
           ch == Granting(f, rows)
<1>1. /\ K \in Nat /\ DOMAIN order = 1..K
      /\ \A i \in 1..K : order[i] \in Users
      /\ \A s \in Users : \E j \in 1..K : order[j] = s
  BY OrderIs, FiniteAccess
<1>2. GrantAgain(h, up, f, rows, order) = Loop(V, h)
  BY <1>1 DEF GrantAgain, Each
<1>3. ASSUME NEW x \in Tables, NEW u \in Users
      PROVE  /\ Turn(x, u) \in Tables /\ Reaches(x, Turn(x, u), up, ch)
             /\ \A w \in Users : Own(x, f, w) \subseteq Own(Turn(x, u), f, w)
             /\ "OWNER" \in rows[u] => "OWNER" \in Own(Turn(x, u), f, u)
  <2>1. /\ First(x, u) \in Tables /\ Reaches(x, First(x, u), up, ch)
        /\ \A w \in Users : Own(x, f, w) \subseteq Own(First(x, u), f, w)
        /\ "OWNER" \in rows[u] => "OWNER" \in Own(First(x, u), f, u)
    <3>1. CASE "OWNER" \in rows[u]
      <4> DEFINE bits == {"OWNER"}
                 y == Grant(x, up, f, u, bits)
      <4>1. <<f, u, {}, bits>> \in ch /\ bits \in SUBSET Bits
        BY <3>1, MemberBitsAre DEF Granting
      <4>2. First(x, u) = y /\ "OWNER" \in bits
        BY <3>1
      <4> HIDE DEF ch, bits
      <4>3. /\ y \in Tables /\ Reaches(x, y, up, ch)
            /\ \A m \in Nodes, w \in Users : Own(y, m, w) = IF m = f /\ w = u THEN Own(x, f, u) \cup bits ELSE Own(x, m, w)
        BY <4>1, GrantIsReached
      <4> HIDE DEF y, First
      <4> QED  BY <4>2, <4>3
    <3>2. CASE "OWNER" \notin rows[u]
      BY <3>2, ReachSame
    <3> QED  BY <3>1, <3>2
  <2> HIDE DEF First
  <2>2. CASE rows[u] = {}
    BY <2>2, ReachSame
  <2>3. CASE rows[u] # {}
    <3> DEFINE bits == rows[u] \ {"OWNER"}
               z == First(x, u)
               y == Grant(z, up, f, u, bits)
    <3>1. <<f, u, {}, bits>> \in ch /\ bits \in SUBSET Bits
      BY DEF Granting
    <3>3. Turn(x, u) = y
      BY <2>3
    <3>4. /\ z \in Tables /\ Reaches(x, z, up, ch)
          /\ \A w \in Users : Own(x, f, w) \subseteq Own(z, f, w)
          /\ "OWNER" \in rows[u] => "OWNER" \in Own(z, f, u)
      BY <2>1
    <3> HIDE DEF ch, bits, z
    <3>2. /\ y \in Tables /\ Reaches(z, y, up, ch)
          /\ \A m \in Nodes, w \in Users : Own(y, m, w) = IF m = f /\ w = u THEN Own(z, f, u) \cup bits ELSE Own(z, m, w)
      BY <3>4, <3>1, GrantIsReached
    <3> HIDE DEF y, Turn
    <3>5. \A w \in Users : Own(z, f, w) \subseteq Own(y, f, w)
      BY <3>2
    <3> QED  BY <3>2, <3>3, <3>4, <3>5, ReachTrans
  <2> QED  BY <2>2, <2>3
<1> HIDE DEF Turn, ch, K, First
<1>4. \A i \in 1..K, x \in Tables : V[i][x] = Turn(x, order[i])
  OBVIOUS
<1>5. V \in Rules(Tables, K)
  BY <1>1, <1>3 DEF Rules
<1> HIDE DEF V
<1>6. Reaches(h, Loop(V, h), up, ch)
  <2>1. \A i \in 1..K, x \in Tables \cap Tables : V[i][x] \in Tables /\ Reaches(x, V[i][x], up, ch)
    BY <1>1, <1>3, <1>4
  <2> QED  BY <1>1, <1>5, <2>1, ReachLoop
<1>7. ASSUME NEW w \in Users, "OWNER" \in rows[w]  PROVE "OWNER" \in Own(Loop(V, h), f, w)
  <2> DEFINE A == {x \in Tables : "OWNER" \in Own(x, f, w)}
  <2>1. PICK j \in 1..K : order[j] = w
    BY <1>1
  <2>2. \A x \in Tables : V[j][x] \in A
    BY <1>3, <1>4, <1>7, <2>1
  <2>3. \A i \in 1..K, x \in Tables \cap A : V[i][x] \in A
    BY <1>1, <1>3, <1>4
  <2> HIDE DEF A
  <2>4. Loop(V, h) \in A
    BY <1>1, <1>5, <2>2, <2>3, LoopAchieves
  <2> QED  BY <2>4 DEF A
<1> QED  BY <1>2, <1>6, <1>7, ReachTables DEF ch

(* insertAllMembersPermissionsOfParentInChild *)
LEMMA InsertIsReached ==
    ASSUME NEW h \in Tables, NEW up, Tree(up), NEW f \in Nodes, NEW order \in Orders(Users)
    PROVE  LET r == InsertParentsMembers(h, up, f, order)
           IN  r \in Tables /\ Reaches(h, r, up, {})
<1>1. CASE ~Inherits(up, f)
  BY <1>1, ReachSame DEF InsertParentsMembers
<1>2. CASE Inherits(up, f)
  <2> DEFINE K == Cardinality(Users)
             p == up[f]
             bits(u) == Unified(h, p, u)
             Turn(x, u) == IF bits(u) = {} THEN x ELSE Cascade(Inherit(x, f, u, bits(u)), up, f, u, bits(u))
             V == [i \in 1..K |-> [x \in Tables |-> Turn(x, order[i])]]
             I == {x \in Tables : \A w \in Users : Unified(x, p, w) = Unified(h, p, w)}
  <2>1. /\ K \in Nat /\ DOMAIN order = 1..K
        /\ \A i \in 1..K : order[i] \in Users
    BY OrderIs, FiniteAccess
  <2>2. InsertParentsMembers(h, up, f, order) = Loop(V, h)
    BY <1>2, <2>1 DEF InsertParentsMembers, CopyUnified, Each
  <2>3. f \in Folders /\ p \in Folders /\ p \in Nodes /\ p # f
    BY <1>2, AboveUp, NodeFacts DEF Inherits
  <2>4. p \notin Below(up, f)
    <3>1. SUFFICES ASSUME f \in Above(up, p)  PROVE FALSE
      BY DEF Below
    <3>2. p \in Above(up, f)
      BY <2>3, AboveIs
    <3>3. Above(up, p) \subseteq Above(up, f)
      BY <2>3, <3>2, AboveUp
    <3> QED  BY <2>3, <3>1, <3>3, AboveUp
  <2>5. ASSUME NEW x \in Tables, NEW u \in Users
        PROVE  Turn(x, u) \in Tables /\ (x \in I => Turn(x, u) \in I /\ Reaches(x, Turn(x, u), up, {}))
    <3>1. CASE bits(u) = {}
      BY <3>1, ReachSame
    <3>2. CASE bits(u) # {}
      <4> DEFINE b == bits(u)
                 y == Inherit(x, f, u, b)
                 z == Cascade(y, up, f, u, b)
      <4>1. b \in SUBSET Bits
        BY <2>3, RowsAre
      <4>2. Turn(x, u) = z
        BY <3>2
      <4>3. x \in I => b = Unified(x, p, u)
        OBVIOUS
      <4> HIDE DEF b, Turn
      <4>4. /\ y \in Tables
            /\ \A m \in Nodes, w \in Users : Own(y, m, w) = Own(x, m, w)
            /\ \A m \in Nodes, w \in Users :
                  Inherited(y, m, w) = IF m = f /\ w = u /\ ~(b \subseteq Unshared) THEN b \ Unshared
                                       ELSE Inherited(x, m, w)
        BY <2>3, <4>1, InheritIs
      <4>5. x \in I => Step(x, y, up, {})
        BY <2>3, <4>3, InheritSteps
      <4> HIDE DEF y
      <4>6. Cascaded(y, z, up, f, u, b)
        BY <4>1, <4>4, CascadeCells
      <4>7. z \in Tables /\ Step(y, z, up, {})
        <5>1. CASE b \subseteq Unshared
          BY <4>1, <4>4, <5>1, CascadeSteps
        <5>2. CASE ~(b \subseteq Unshared)
          <6>1. b \ Unshared = Inherited(y, f, u)
            BY <4>4, <5>2
          <6> QED  BY <4>1, <4>4, <6>1, CascadeSteps
        <5> QED  BY <5>1, <5>2
      <4> HIDE DEF z
      <4>8. \A w \in Users : Own(z, p, w) = Own(x, p, w) /\ Inherited(z, p, w) = Inherited(x, p, w)
        BY <2>3, <2>4, <4>4, <4>6 DEF Cascaded
      <4>9. x \in I => z \in I
        BY <4>7, <4>8 DEF Unified
      <4>10. x \in I => Reaches(x, z, up, {})
        <5>1. ASSUME x \in I  PROVE Reaches(x, y, up, {}) /\ Reaches(y, z, up, {})
          BY <4>4, <4>5, <4>7, <5>1, ReachStep
        <5> QED  BY <5>1, ReachTrans
      <4> QED  BY <4>2, <4>7, <4>9, <4>10
    <3> QED  BY <3>1, <3>2
  <2> HIDE DEF Turn, K, bits
  <2>6. \A i \in 1..K, x \in Tables : V[i][x] = Turn(x, order[i])
    OBVIOUS
  <2>7. V \in Rules(Tables, K)
    BY <2>1, <2>5 DEF Rules
  <2> HIDE DEF V
  <2>8. h \in Tables \cap I
    OBVIOUS
  <2>9. \A i \in 1..K, x \in Tables \cap I : V[i][x] \in I /\ Reaches(x, V[i][x], up, {})
    BY <2>1, <2>5, <2>6
  <2> HIDE DEF I
  <2>10. Reaches(h, Loop(V, h), up, {})
    BY <2>1, <2>7, <2>8, <2>9, ReachLoop
  <2> QED  BY <2>2, <2>10, ReachTables
<1> QED  BY <1>1, <1>2

(* copyUnifiedPermissionsFromEntity, to rows of one's own of a folder with none below. *)
Copying(h, n, g) == {<<g, w, {}, Unified(h, n, w)>> : w \in Users}

LEMMA CopyIsReached ==
    ASSUME NEW h \in Tables, NEW up, Tree(up), NEW n \in Nodes, NEW g \in Nodes, \A x \in Folders : up[x] # g,
           NEW order \in Orders(Users)
    PROVE  LET r == CopyUnified(h, up, n, g, "own", order)
           IN  r \in Tables /\ Reaches(h, r, up, Copying(h, n, g))
<1> DEFINE K == Cardinality(Users)
           bits(u) == Unified(h, n, u)
           Gift(x, u) == Put(x, g, u, "own", Own(x, g, u) \cup bits(u))
           Turn(x, u) == IF bits(u) = {} THEN x ELSE Cascade(Gift(x, u), up, g, u, bits(u))
           V == [i \in 1..K |-> [x \in Tables |-> Turn(x, order[i])]]
           ch == Copying(h, n, g)
<1>1. /\ K \in Nat /\ DOMAIN order = 1..K
      /\ \A i \in 1..K : order[i] \in Users
  BY OrderIs, FiniteAccess
<1>2. CopyUnified(h, up, n, g, "own", order) = Loop(V, h)
  <2>1. ASSUME NEW x \in Tables, NEW u \in Users
        PROVE  Gift(x, u) = IF "own" = "inherited" THEN Inherit(x, g, u, bits(u)) ELSE [x EXCEPT ![<<g, u, "own">>] = @ \cup bits(u)]
    BY DEF Put, Own
  <2> QED  BY <1>1, <2>1 DEF CopyUnified, Each, Put, Own
<1>3. ASSUME NEW x \in Tables, NEW u \in Users
      PROVE  Turn(x, u) \in Tables /\ Reaches(x, Turn(x, u), up, ch)
  <2>1. CASE bits(u) = {}
    BY <2>1, ReachSame
  <2>2. CASE bits(u) # {}
    <3> DEFINE b == bits(u)
               y == Gift(x, u)
               z == Cascade(y, up, g, u, b)
    <3>1. b \in SUBSET Bits
      BY RowsAre
    <3>2. Turn(x, u) = z /\ <<g, u, {}, b>> \in ch
      BY <2>2 DEF Copying
    <3>3. y = Put(x, g, u, "own", Own(x, g, u) \cup b)
      OBVIOUS
    <3> HIDE DEF b, y, Turn, ch
    <3>4. y \in Tables /\ Step(x, y, up, ch)
      BY <3>1, <3>2, <3>3, GiveSteps
    <3>5. z \in Tables /\ Step(y, z, up, ch)
      BY <3>1, <3>4, CascadeSteps
    <3> HIDE DEF z
    <3>6. Reaches(x, y, up, ch) /\ Reaches(y, z, up, ch)
      BY <3>4, <3>5, ReachStep
    <3> QED  BY <3>2, <3>5, <3>6, ReachTrans
  <2> QED  BY <2>1, <2>2
<1> HIDE DEF Turn, K, bits, ch
<1>4. \A i \in 1..K, x \in Tables : V[i][x] = Turn(x, order[i])
  OBVIOUS
<1>5. V \in Rules(Tables, K)
  BY <1>1, <1>3 DEF Rules
<1> HIDE DEF V
<1>6. \A i \in 1..K, x \in Tables \cap Tables : V[i][x] \in Tables /\ Reaches(x, V[i][x], up, ch)
  BY <1>1, <1>3, <1>4
<1>7. Reaches(h, Loop(V, h), up, ch)
  BY <1>1, <1>5, <1>6, ReachLoop
<1> QED  BY <1>2, <1>7, ReachTables DEF ch

(* create, insert and update of members, and the end of update *)
Giving(n, u) == {<<n, u, {}, Y>> : Y \in SUBSET Bits}
Inserting(n, m) == {<<n, m, MemberBits, {}>>} \cup {<<n, m, {}, RoleBits[role]>> : role \in Roles}
Creating(f, u, member) == Giving(f, u) \cup IF member = NoOne THEN {} ELSE Inserting(f, member[1])

LEMMA GiveIsReached ==
    ASSUME NEW h \in Tables, NEW up, Tree(up), NEW n \in Nodes, NEW u \in Users, NEW bits \in SUBSET Bits,
           NEW ch, Giving(n, u) \subseteq ch
    PROVE  LET r == Grant(h, up, n, u, bits)
           IN  /\ r \in Tables /\ Reaches(h, r, up, ch)
               /\ \A w \in Users, m \in Nodes : Own(h, m, w) \subseteq Own(r, m, w)
               /\ bits \subseteq Own(r, n, u)
<1>1. <<n, u, {}, bits>> \in ch
  BY DEF Giving
<1> DEFINE r == Grant(h, up, n, u, bits)
<1>2. /\ r \in Tables /\ Reaches(h, r, up, ch)
      /\ \A m \in Nodes, w \in Users :
            Own(r, m, w) = IF m = n /\ w = u THEN Own(h, n, u) \cup bits ELSE Own(h, m, w)
  BY <1>1, GrantIsReached
<1> HIDE DEF r
<1>3. (\A w \in Users, m \in Nodes : Own(h, m, w) \subseteq Own(r, m, w)) /\ bits \subseteq Own(r, n, u)
  BY <1>2
<1> QED  BY <1>2, <1>3 DEF r

LEMMA InsertOneIsReached ==
    ASSUME NEW h \in Tables, NEW up, Tree(up), NEW n \in Nodes, NEW m \in Users, NEW role \in Roles,
           NEW ch, Inserting(n, m) \subseteq ch
    PROVE  LET r == InsertOne(h, up, n, m, role)
           IN  /\ r \in Tables /\ Reaches(h, r, up, ch)
               /\ \A x \in Nodes, w \in Users :
                     Own(r, x, w) = IF x = n /\ w = m THEN (Own(h, n, m) \ MemberBits) \cup RoleBits[role]
                                    ELSE Own(h, x, w)
<1> DEFINE s == Revoke(h, up, n, m, MemberBits)
           bits == RoleBits[role]
           r == Grant(s, up, n, m, bits)
<1>1. <<n, m, MemberBits, {}>> \in ch /\ <<n, m, {}, bits>> \in ch
  BY DEF Inserting
<1>2. bits \in SUBSET Bits
  BY PlainIs
<1>3. InsertOne(h, up, n, m, role) = r
  BY DEF InsertOne
<1> HIDE DEF bits
<1>4. /\ s \in Tables /\ Reaches(h, s, up, ch)
      /\ \A x \in Nodes, w \in Users : Own(s, x, w) = IF x = n /\ w = m THEN Own(h, n, m) \ MemberBits ELSE Own(h, x, w)
  BY <1>1, RevokeIsReached, MemberBitsAre
<1> HIDE DEF s
<1>5. /\ r \in Tables /\ Reaches(s, r, up, ch)
      /\ \A x \in Nodes, w \in Users : Own(r, x, w) = IF x = n /\ w = m THEN Own(s, n, m) \cup bits ELSE Own(s, x, w)
  BY <1>1, <1>2, <1>4, GrantIsReached
<1> HIDE DEF r
<1>6. Reaches(h, r, up, ch)
  BY <1>4, <1>5, ReachTrans
<1>7. \A x \in Nodes, w \in Users :
         Own(r, x, w) = IF x = n /\ w = m THEN (Own(h, n, m) \ MemberBits) \cup bits ELSE Own(h, x, w)
  BY <1>4, <1>5
<1> QED  BY <1>3, <1>5, <1>6, <1>7 DEF bits

LEMMA OwnerGrantedIsReached ==
    ASSUME NEW h \in Tables, Tree(parent), NEW n \in Nodes, NEW o \in Users,
           NEW ch, Giving(n, o) \subseteq ch
    PROVE  LET r == OwnerGranted(h, n, o)
           IN  /\ r \in Tables /\ Reaches(h, r, parent, ch) /\ "OWNER" \in Own(r, n, o)
               /\ \A w \in Users, m \in Nodes : Own(h, m, w) \subseteq Own(r, m, w)
<1> DEFINE b1 == {"OWNER"}
           b2 == RUD \cup {"CREATE"}
           b3 == {"EDITOR", "FULL"}
           r1 == Grant(h, parent, n, o, b1)
           r2 == Grant(r1, parent, n, o, b2)
           r3 == Grant(r2, parent, n, o, b3)
<1>1. b1 \in SUBSET Bits /\ b2 \in SUBSET Bits /\ b3 \in SUBSET Bits /\ "OWNER" \in b1
  BY DEF Bits, Unshared, MemberBits, RUD
<1>2. OwnerGranted(h, n, o) = r3
  BY DEF OwnerGranted
<1> HIDE DEF b1, b2, b3
<1>3. /\ r1 \in Tables /\ Reaches(h, r1, parent, ch) /\ b1 \subseteq Own(r1, n, o)
      /\ \A w \in Users, m \in Nodes : Own(h, m, w) \subseteq Own(r1, m, w)
  BY <1>1, GiveIsReached
<1> HIDE DEF r1
<1>4. /\ r2 \in Tables /\ Reaches(r1, r2, parent, ch)
      /\ \A w \in Users, m \in Nodes : Own(r1, m, w) \subseteq Own(r2, m, w)
  BY <1>1, <1>3, GiveIsReached
<1> HIDE DEF r2
<1>5. /\ r3 \in Tables /\ Reaches(r2, r3, parent, ch)
      /\ \A w \in Users, m \in Nodes : Own(r2, m, w) \subseteq Own(r3, m, w)
  BY <1>1, <1>4, GiveIsReached
<1> HIDE DEF r3
<1>6. Reaches(h, r3, parent, ch)
  BY <1>3, <1>4, <1>5, ReachTrans
<1>7. (\A w \in Users, m \in Nodes : Own(h, m, w) \subseteq Own(r3, m, w)) /\ "OWNER" \in Own(r3, n, o)
  BY <1>1, <1>3, <1>4, <1>5
<1> QED  BY <1>2, <1>5, <1>6, <1>7

LEMMA CreatedIsReached ==
    ASSUME NEW h \in Tables, NEW up, Tree(up), NEW f \in Nodes, NEW u \in Users, NEW v,
           NEW member \in SomeMember, NEW order \in Orders(Users)
    PROVE  LET r == Created(h, up, f, u, v, member, order)
           IN  r \in Tables /\ Reaches(h, r, up, Creating(f, u, member)) /\ "OWNER" \in Own(r, f, u)
<1> DEFINE ch == Creating(f, u, member)
           b1 == {"OWNER"}
           b2 == {"PRIVATE"}
           r1 == Grant(h, up, f, u, b1)
           r2 == IF v = "PRIVATE" THEN Grant(r1, up, f, u, b2) ELSE r1
           r3 == Grant(r2, up, f, u, RUD)
           r4 == IF member = NoOne THEN r3 ELSE InsertOne(r3, up, f, member[1], member[2])
           r5 == InsertParentsMembers(r4, up, f, order)
<1>1. b1 \in SUBSET Bits /\ b2 \in SUBSET Bits /\ RUD \in SUBSET Bits /\ "OWNER" \in b1
  BY MemberBitsAre
<1>2. Created(h, up, f, u, v, member, order) = r5
  BY DEF Created
<1>3. Giving(f, u) \subseteq ch
  BY DEF Creating
<1>4. member # NoOne => member[1] \in Users /\ member[2] \in Roles /\ Inserting(f, member[1]) \subseteq ch
  BY DEF SomeMember, Creating
<1> HIDE DEF b1, b2, ch
<1>5. r1 \in Tables /\ Reaches(h, r1, up, ch) /\ b1 \subseteq Own(r1, f, u)
  BY <1>1, <1>3, GiveIsReached
<1> HIDE DEF r1
<1>6. r2 \in Tables /\ Reaches(r1, r2, up, ch) /\ Own(r1, f, u) \subseteq Own(r2, f, u)
  <2>1. CASE v = "PRIVATE"
    <3> DEFINE g == Grant(r1, up, f, u, b2)
    <3>1. g \in Tables /\ Reaches(r1, g, up, ch) /\ Own(r1, f, u) \subseteq Own(g, f, u)
      BY <1>1, <1>3, <1>5, GiveIsReached
    <3> QED  BY <2>1, <3>1
  <2>2. CASE v # "PRIVATE"
    BY <1>5, <2>2, ReachSame
  <2> QED  BY <2>1, <2>2
<1> HIDE DEF r2
<1>7. r3 \in Tables /\ Reaches(r2, r3, up, ch) /\ Own(r2, f, u) \subseteq Own(r3, f, u)
  BY <1>1, <1>3, <1>6, GiveIsReached
<1> HIDE DEF r3
<1>8. r4 \in Tables /\ Reaches(r3, r4, up, ch) /\ ("OWNER" \in Own(r3, f, u) => "OWNER" \in Own(r4, f, u))
  <2>1. CASE member = NoOne
    BY <1>7, <2>1, ReachSame
  <2>2. CASE member # NoOne
    <3> DEFINE m == member[1]
               role == member[2]
               g == InsertOne(r3, up, f, m, role)
    <3>1. m \in Users /\ role \in Roles /\ Inserting(f, m) \subseteq ch
      BY <1>4, <2>2
    <3>2. r4 = g
      BY <2>2
    <3> HIDE DEF m, role, r4
    <3>3. /\ g \in Tables /\ Reaches(r3, g, up, ch)
          /\ \A x \in Nodes, w \in Users :
                Own(g, x, w) = IF x = f /\ w = m THEN (Own(r3, f, m) \ MemberBits) \cup RoleBits[role] ELSE Own(r3, x, w)
      BY <1>7, <3>1, InsertOneIsReached
    <3> HIDE DEF g
    <3>4. "OWNER" \in Own(r3, f, u) => "OWNER" \in Own(g, f, u)
      BY <3>3, MemberBitsAre
    <3> QED  BY <3>2, <3>3, <3>4
  <2> QED  BY <2>1, <2>2
<1> HIDE DEF r4
<1>9. r5 \in Tables /\ Reaches(r4, r5, up, {})
  BY <1>8, InsertIsReached
<1> HIDE DEF r5
<1>10. Own(r5, f, u) = Own(r4, f, u)
  BY <1>8, <1>9, ReachOwn
<1>11. Reaches(h, r5, up, ch)
  <2>1. Reaches(r4, r5, up, ch)
    BY <1>9, ReachMore
  <2> QED  BY <1>5, <1>6, <1>7, <1>8, <2>1, ReachTrans
<1>12. "OWNER" \in Own(r5, f, u)
  BY <1>1, <1>5, <1>6, <1>7, <1>8, <1>10
<1> QED  BY <1>2, <1>9, <1>11, <1>12 DEF ch

-----------------------------------------------------------------------------

(* What all rows keep: on S what is inherited is granted above; but for the users of X, the rows
   are those of members; the users of B have none on K; and nobody has any on Z. *)
Fine(h, up, S, K, Z, X, B) ==
    /\ h \in Tables
    /\ BackedIn(h, up, S)
    /\ \A u \in Users \ X : PlainFor(h, u)
    /\ \A u \in B : Barred(h, u, K)
    /\ \A u \in Users : Barred(h, u, Z)
    /\ \A u \in Users : Inherited(h, Space, u) = {}
AllUpClosed(up, S, K, Z) == UpClosed(up, S) /\ UpClosed(up, K) /\ UpClosed(up, Z)
Fair(ch, K, Z, X, B) ==
    \A m \in Nodes, w \in Users, P, Q \in SUBSET Bits : <<m, w, P, Q>> \in ch =>
        /\ m \notin Z
        /\ w \notin X => (P = {} \/ P = MemberBits) /\ Q \in Plain
        /\ w \in B /\ m \in K => Q = {}

LEMMA ReachFine ==
    ASSUME NEW up, Tree(up), NEW S, NEW K, NEW Z, AllUpClosed(up, S, K, Z), NEW X, NEW B \in SUBSET Users,
           NEW h, Fine(h, up, S, K, Z, X, B), NEW r, NEW ch, Reaches(h, r, up, ch), Fair(ch, K, Z, X, B)
    PROVE  Fine(r, up, S, K, Z, X, B)
<1>1. h \in Tables /\ r \in Tables
  BY ReachTables DEF Fine
<1>2. BackedIn(r, up, S)
  BY <1>1, ReachBacked DEF Fine, AllUpClosed
<1>3. ASSUME NEW u \in Users \ X  PROVE PlainFor(r, u)
  <2>1. \A m \in Nodes, P, Q \in SUBSET Bits : <<m, u, P, Q>> \in ch => (P = {} \/ P = MemberBits) /\ Q \in Plain
    BY DEF Fair
  <2>2. PlainFor(h, u)
    BY DEF Fine
  <2> QED  BY <1>1, <2>1, <2>2, ReachPlain
<1>4. ASSUME NEW u \in B  PROVE Barred(r, u, K)
  <2>1. \A m \in K, P, Q \in SUBSET Bits : <<m, u, P, Q>> \in ch => Q = {}
    BY NodeFacts DEF Fair, AllUpClosed, UpClosed
  <2>2. Barred(h, u, K) /\ UpClosed(up, K)
    BY DEF Fine, AllUpClosed
  <2> QED  BY <1>1, <2>1, <2>2, ReachBarred
<1>5. ASSUME NEW u \in Users  PROVE Barred(r, u, Z)
  <2>1. \A m \in Z, P, Q \in SUBSET Bits : <<m, u, P, Q>> \in ch => Q = {}
    BY NodeFacts DEF Fair, AllUpClosed, UpClosed
  <2>2. Barred(h, u, Z) /\ UpClosed(up, Z)
    BY DEF Fine, AllUpClosed
  <2> QED  BY <1>1, <2>1, <2>2, ReachBarred
<1>6. \A u \in Users : Inherited(r, Space, u) = {}
  BY <1>1, ReachSpace DEF Fine
<1> QED  BY <1>1, <1>2, <1>3, <1>4, <1>5, <1>6 DEF Fine

LEMMA FineOfLess ==
    ASSUME NEW up, NEW h, NEW S, NEW K, NEW Z, NEW X, NEW B, Fine(h, up, S, K, Z, X, B),
           NEW up2, NEW S2, NEW K2, NEW Z2, NEW X2, NEW B2,
           S2 \subseteq S, K2 \subseteq K, Z2 \subseteq Z, X \subseteq X2, B2 \subseteq B,
           \A f \in S2 : Above(up2, f) = Above(up, f)
    PROVE  Fine(h, up2, S2, K2, Z2, X2, B2)
<1>1. BackedIn(h, up2, S2)
  BY DEF Fine, BackedIn, GrantedAbove
<1>2. \A u \in B2 : Barred(h, u, K2)
  BY DEF Fine, Barred
<1>3. \A u \in Users : Barred(h, u, Z2)
  BY DEF Fine, Barred
<1> QED  BY <1>1, <1>2, <1>3 DEF Fine

(* The rows of a folder may go that none of S is below, or that granted nothing. *)
LEMMA WithoutFine ==
    ASSUME NEW up, NEW S, NEW K, NEW Z, NEW X, NEW B,
           NEW h, Fine(h, up, S, K, Z, X, B), NEW f \in Folders, S \subseteq Folders, Tree(up),
           K \subseteq Folders, Z \subseteq Folders, B \subseteq Users,
           (\A x \in S : f \notin Above(up, x)) \/ (\A u \in Users : Own(h, f, u) \subseteq Unshared)
    PROVE  Fine(Without(h, f), up, S, K, Z, X, B)
<1> DEFINE r == Without(h, f)
<1>1. /\ r \in Tables
      /\ \A m \in Nodes, w \in Users :
            /\ Own(r, m, w) = IF m = f THEN {} ELSE Own(h, m, w)
            /\ Inherited(r, m, w) = IF m = f THEN {} ELSE Inherited(h, m, w)
  BY WithoutIs DEF Fine
<1> HIDE DEF r
<1>2. BackedIn(r, up, S)
  <2>1. SUFFICES ASSUME NEW x \in S, NEW u \in Users, NEW b \in Inherited(r, x, u) \ Unshared
        PROVE  \E g \in Above(up, x) : b \in Own(r, g, u)
    BY DEF BackedIn, GrantedAbove
  <2>2. b \in Inherited(h, x, u) \ Unshared
    BY <1>1, NodeFacts
  <2>3. PICK g \in Above(up, x) : b \in Own(h, g, u)
    BY <2>2 DEF Fine, BackedIn, GrantedAbove
  <2>4. g # f
    BY <2>2, <2>3
  <2>5. g \in Nodes
    BY AboveIs, NodeFacts
  <2> QED  BY <1>1, <2>3, <2>4, <2>5
<1>3. \A u \in Users \ X : PlainFor(r, u)
  BY <1>1, PlainIs DEF Fine, PlainFor
<1>4. \A u \in B : Barred(r, u, K)
  BY <1>1, NodeFacts DEF Fine, Barred
<1>5. \A u \in Users : Barred(r, u, Z)
  BY <1>1, NodeFacts DEF Fine, Barred
<1>6. \A u \in Users : Inherited(r, Space, u) = {}
  BY <1>1, NodeFacts DEF Fine
<1> QED  BY <1>1, <1>2, <1>3, <1>4, <1>5, <1>6 DEF Fine, r

LEMMA GivingIsFair ==
    ASSUME NEW n, NEW u \in Users, NEW K, NEW Z, NEW X, NEW B, n \notin Z, u \in X,
           u \notin B \/ n \notin K
    PROVE  Fair(Giving(n, u), K, Z, X, B)
BY DEF Fair, Giving

LEMMA RevokingIsFair ==
    ASSUME NEW n, NEW users, NEW K, NEW Z, NEW X, NEW B, n \notin Z
    PROVE  Fair(Revoking(n, users), K, Z, X, B)
BY PlainIs DEF Fair, Revoking

LEMMA InsertingIsFair ==
    ASSUME NEW n, NEW m \in Users, NEW K, NEW Z, NEW X, NEW B, n \notin Z, m \notin B \/ n \notin K
    PROVE  Fair(Inserting(n, m), K, Z, X, B)
BY PlainIs DEF Fair, Inserting

LEMMA NothingIsFair ==
    ASSUME NEW K, NEW Z, NEW X, NEW B
    PROVE  Fair({}, K, Z, X, B)
BY DEF Fair

LEMMA UnionIsFair ==
    ASSUME NEW c1, NEW c2, NEW K, NEW Z, NEW X, NEW B, Fair(c1, K, Z, X, B), Fair(c2, K, Z, X, B)
    PROVE  Fair(c1 \cup c2, K, Z, X, B)
BY DEF Fair

(* resetPermissions, once the rows of the folder grant nothing *)
LEMMA ResetIsFine ==
    ASSUME NEW up, Tree(up), NEW S, NEW K, NEW Z, AllUpClosed(up, S, K, Z), NEW X, NEW B \in SUBSET Users,
           NEW h, Fine(h, up, S, K, Z, X, B), NEW f \in Folders, f \notin Z, NEW o \in Users, o \in X, o \notin B,
           \A u \in Users : Own(h, f, u) \subseteq Unshared
    PROVE  LET r == ResetPermissions(h, up, f, o)
           IN  /\ Fine(r, up, S, K, Z, X, B)
               /\ \A m \in Nodes, w \in Users : m # f => Own(r, m, w) = Own(h, m, w)
<1>1. CASE Own(h, f, o) = {}
  <2>1. ResetPermissions(h, up, f, o) = h
    BY <1>1 DEF ResetPermissions
  <2> QED  BY <2>1
<1>2. CASE Own(h, f, o) # {}
  <2> DEFINE bits == {"OWNER"}
             s == Without(h, f)
             g == Grant(s, up, f, o, bits)
             r == Put(g, f, o, "own", Own(g, f, o) \cup Own(h, f, o))
             ch == Giving(f, o)
  <2>1. ResetPermissions(h, up, f, o) = r
    BY <1>2 DEF ResetPermissions, Put, Own
  <2>2. bits \in SUBSET Bits /\ f \in Nodes
    BY MemberBitsAre, NodeFacts
  <2>3. h \in Tables /\ Own(h, f, o) \in SUBSET Bits
    BY <2>2, RowsAre DEF Fine
  <2>4. <<f, o, {}, Own(h, f, o)>> \in ch
    BY <2>3 DEF Giving
  <2>5. Fair(ch, K, Z, X, B)
    BY GivingIsFair
  <2> HIDE DEF bits
  <2>6. Fine(s, up, S, K, Z, X, B)
    BY WithoutFine DEF AllUpClosed, UpClosed
  <2>7. s \in Tables /\ \A m \in Nodes, w \in Users : m # f => Own(s, m, w) = Own(h, m, w)
    BY <2>3, WithoutIs
  <2> HIDE DEF s
  <2>8. /\ g \in Tables /\ Reaches(s, g, up, ch)
    BY <2>2, <2>7, GiveIsReached
  <2> HIDE DEF g
  <2>9. r \in Tables /\ Step(g, r, up, ch)
    <3>1. r = Put(g, f, o, "own", Own(g, f, o) \cup Own(h, f, o))
      OBVIOUS
    <3> HIDE DEF r, ch
    <3> QED  BY <2>2, <2>3, <2>4, <2>8, <3>1, GiveSteps
  <2> HIDE DEF r
  <2>10. Reaches(s, r, up, ch)
    <3>1. Reaches(g, r, up, ch)
      BY <2>8, <2>9, ReachStep
    <3> QED  BY <2>8, <3>1, ReachTrans
  <2>11. Fine(r, up, S, K, Z, X, B)
    BY <2>5, <2>6, <2>10, ReachFine
  <2>12. ASSUME NEW m \in Nodes, NEW w \in Users, m # f  PROVE Own(r, m, w) = Own(s, m, w)
    <3>1. \A P, Q \in SUBSET Bits : <<m, w, P, Q>> \notin ch
      BY <2>12 DEF Giving
    <3> QED  BY <2>7, <2>10, <3>1, ReachOwn
  <2> QED  BY <2>1, <2>7, <2>11, <2>12
<1> QED  BY <1>1, <1>2

-----------------------------------------------------------------------------

(* A folder hung elsewhere *)

Rehung(up, f, p) == [up EXCEPT ![f] = p]
Unhung(up, f) == [g \in Folders |-> IF g = f THEN None ELSE IF up[g] = f THEN Nowhere ELSE up[g]]

RehungTree(up, moved, f, p) ==
    /\ Tree(moved)
    /\ \A x \in Folders : x # f /\ x \notin Below(up, f) => Above(moved, x) = Above(up, x)
    /\ Above(moved, f) = IF p \in Folders THEN {p} \cup Above(up, p) ELSE {}
    /\ \A x \in Below(up, f) : f \in Above(moved, x)
UnhungTree(up, left, f) ==
    /\ Tree(left)
    /\ \A x \in Folders : x # f /\ x \notin Below(up, f) => Above(left, x) = Above(up, x)
    /\ Above(left, f) = {}

(* With f below p, which is neither f nor below it, the others hang as they did. *)
LEMMA MovedTree ==
    ASSUME NEW up, Tree(up), NEW f \in Folders, NEW p \in ParentPlaces, p # f, p \notin Below(up, f),
           NEW moved, moved = Rehung(up, f, p)
    PROVE  RehungTree(up, moved, f, p)
<1>1. moved \in [Folders -> ParentPlaces] /\ moved[f] = p /\ \A x \in Folders : x # f => moved[x] = up[x]
  BY DEF Tree, Rehung
<1>2. Forest(up)
  BY DEF Tree
<1>3. \A x \in Folders : up[x] = f \/ up[x] \in Below(up, f) => x \in Below(up, f)
  BY AboveIs DEF Below
<1>4. Forest(moved)
  <2>1. SUFFICES ASSUME NEW S \in SUBSET Folders, \A x \in S : moved[x] \in S  PROVE S = {}
    BY DEF Forest
  <2> DEFINE T == S \ ({f} \cup Below(up, f))
  <2>2. \A x \in T : up[x] \in T
    BY <1>1, <1>3, <2>1
  <2>3. T = {}
    <3>1. T \in SUBSET Folders
      OBVIOUS
    <3> HIDE DEF T
    <3> QED  BY <1>2, <2>2, <3>1 DEF Forest
  <2>4. f \notin S
    BY <1>1, <2>1, <2>3
  <2>5. \A x \in S : up[x] \in S
    BY <1>1, <2>1, <2>4
  <2> QED  BY <1>2, <2>5 DEF Forest
<1>5. Tree(moved)
  BY <1>1, <1>4 DEF Tree
<1>6. \A x \in Folders :
         /\ Above(moved, x) = IF moved[x] \in Folders THEN {moved[x]} \cup Above(moved, moved[x]) ELSE {}
         /\ Above(up, x) = IF up[x] \in Folders THEN {up[x]} \cup Above(up, up[x]) ELSE {}
  BY <1>5, AboveIs
<1> DEFINE T == {x \in Folders : x # f /\ x \notin Below(up, f) => Above(moved, x) = Above(up, x)}
<1>7. Folders \subseteq T
  <2>1. ASSUME NEW x \in Folders, up[x] \in Folders => up[x] \in T, x # f, x \notin Below(up, f)
        PROVE  Above(moved, x) = Above(up, x)
    <3>1. moved[x] = up[x]
      BY <1>1, <2>1
    <3>2. up[x] \in Folders => Above(moved, up[x]) = Above(up, up[x])
      BY <1>3, <2>1
    <3>3. Above(moved, x) = IF up[x] \in Folders THEN {up[x]} \cup Above(moved, up[x]) ELSE {}
      BY <1>6, <3>1
    <3>4. Above(up, x) = IF up[x] \in Folders THEN {up[x]} \cup Above(up, up[x]) ELSE {}
      BY <1>6
    <3> QED  BY <3>2, <3>3, <3>4
  <2>2. \A x \in Folders : (up[x] \in Folders => up[x] \in T) => x \in T
    BY <2>1
  <2> HIDE DEF T
  <2> QED  BY <1>2, <2>2, TreeInduction
<1> DEFINE U == {x \in Folders : x \in Below(up, f) => f \in Above(moved, x)}
<1>8. Folders \subseteq U
  <2>1. ASSUME NEW x \in Folders, up[x] \in Folders => up[x] \in U, x \in Below(up, f)
        PROVE  f \in Above(moved, x)
    <3>1. x # f
      BY <2>1, AboveUp DEF Below
    <3>2. up[x] \in Folders /\ (up[x] = f \/ up[x] \in Below(up, f))
      BY <1>6, <2>1 DEF Below
    <3> QED  BY <1>1, <1>6, <2>1, <3>1, <3>2
  <2>2. \A x \in Folders : (up[x] \in Folders => up[x] \in U) => x \in U
    BY <2>1
  <2> HIDE DEF U
  <2> QED  BY <1>2, <2>2, TreeInduction
<1>9. p \in Folders => Above(moved, p) = Above(up, p)
  BY <1>7
<1> QED  BY <1>1, <1>5, <1>6, <1>7, <1>8, <1>9 DEF Below, RehungTree

(* With f gone and what hung below it nowhere, the others hang as they did. *)
LEMMA RemovedTree ==
    ASSUME NEW up, Tree(up), NEW f \in Folders,
           NEW left, left = Unhung(up, f)
    PROVE  UnhungTree(up, left, f)
<1>1. /\ left \in [Folders -> ParentPlaces]
      /\ \A g \in Folders : left[g] = IF g = f THEN None ELSE IF up[g] = f THEN Nowhere ELSE up[g]
  BY DEF Tree, ParentPlaces, Unhung
<1>2. Forest(up)
  BY DEF Tree
<1>3. None \notin Folders /\ Nowhere \notin Folders
  BY NodesAssumption
<1>4. Forest(left)
  <2>1. SUFFICES ASSUME NEW S \in SUBSET Folders, \A x \in S : left[x] \in S  PROVE S = {}
    BY DEF Forest
  <2>2. \A x \in S : up[x] \in S
    BY <1>1, <1>3, <2>1
  <2> QED  BY <1>2, <2>2 DEF Forest
<1>5. Tree(left)
  BY <1>1, <1>4 DEF Tree
<1>6. \A x \in Folders :
         /\ Above(left, x) = IF left[x] \in Folders THEN {left[x]} \cup Above(left, left[x]) ELSE {}
         /\ Above(up, x) = IF up[x] \in Folders THEN {up[x]} \cup Above(up, up[x]) ELSE {}
  BY <1>5, AboveIs
<1>7. \A x \in Folders : up[x] = f \/ up[x] \in Below(up, f) => x \in Below(up, f)
  BY AboveIs DEF Below
<1> DEFINE T == {x \in Folders : x # f /\ x \notin Below(up, f) => Above(left, x) = Above(up, x)}
<1>8. Folders \subseteq T
  <2>1. ASSUME NEW x \in Folders, up[x] \in Folders => up[x] \in T, x # f, x \notin Below(up, f)
        PROVE  Above(left, x) = Above(up, x)
    <3>1. left[x] = IF up[x] = f THEN Nowhere ELSE up[x]
      BY <1>1, <2>1
    <3>2. up[x] # f
      BY <1>7, <2>1
    <3>3. left[x] = up[x]
      BY <3>1, <3>2
    <3>4. up[x] \in Folders => Above(left, up[x]) = Above(up, up[x])
      BY <1>7, <2>1, <3>2
    <3>5. Above(left, x) = IF up[x] \in Folders THEN {up[x]} \cup Above(left, up[x]) ELSE {}
      BY <1>6, <3>3
    <3>6. Above(up, x) = IF up[x] \in Folders THEN {up[x]} \cup Above(up, up[x]) ELSE {}
      BY <1>6
    <3> QED  BY <3>4, <3>5, <3>6
  <2>2. \A x \in Folders : (up[x] \in Folders => up[x] \in T) => x \in T
    BY <2>1
  <2> HIDE DEF T
  <2> QED  BY <1>2, <2>2, TreeInduction
<1>9. Above(left, f) = {}
  BY <1>1, <1>3, <1>6
<1> QED  BY <1>5, <1>8, <1>9 DEF UnhungTree

-----------------------------------------------------------------------------

(* update of the view type *)

Elsewhere(h, r, f) == \A m \in Nodes, w \in Users : m # f => Own(r, m, w) = Own(h, m, w)

LEMMA ReachElsewhere ==
    ASSUME NEW h \in Tables, NEW r, NEW up, NEW ch, Reaches(h, r, up, ch), NEW f,
           \A m \in Nodes, w \in Users, P, Q \in SUBSET Bits : <<m, w, P, Q>> \in ch => m = f
    PROVE  Elsewhere(h, r, f)
<1>1. ASSUME NEW m \in Nodes, NEW w \in Users, m # f  PROVE Own(r, m, w) = Own(h, m, w)
  <2>1. \A P, Q \in SUBSET Bits : <<m, w, P, Q>> \notin ch
    BY <1>1
  <2> QED  BY <2>1, ReachOwn
<1> QED  BY <1>1 DEF Elsewhere

(* After all is revoked on a folder its rows of one's own grant nothing. *)
LEMMA RevokedIsFine ==
    ASSUME NEW up, Tree(up), NEW S, NEW K, NEW Z, AllUpClosed(up, S, K, Z), NEW X, NEW B \in SUBSET Users,
           NEW h, Fine(h, up, S, K, Z, X, B), NEW f \in Nodes, f \notin Z, NEW users \in SUBSET Users,
           NEW order \in Orders(Users)
    PROVE  LET r == RevokeAll(h, up, f, users, order)
           IN  /\ Fine(r, up, S, K, Z, X, B) /\ Elsewhere(h, r, f)
               /\ users = Users => \A u \in Users : Own(r, f, u) \subseteq Unshared
<1> DEFINE r == RevokeAll(h, up, f, users, order)
           ch == Revoking(f, users)
<1>1. h \in Tables
  BY DEF Fine
<1>2. r \in Tables /\ Reaches(h, r, up, ch) /\ \A w \in users : Own(r, f, w) \cap MemberBits = {}
  BY <1>1, RevokeAllIsReached
<1> HIDE DEF r
<1>3. Fine(r, up, S, K, Z, X, B)
  BY <1>2, RevokingIsFair, ReachFine
<1>4. Elsewhere(h, r, f)
  <2>1. \A m \in Nodes, w \in Users, P, Q \in SUBSET Bits : <<m, w, P, Q>> \in ch => m = f
    BY DEF Revoking
  <2> HIDE DEF ch
  <2> QED  BY <1>1, <1>2, <2>1, ReachElsewhere
<1>5. ASSUME users = Users, NEW u \in Users  PROVE Own(r, f, u) \subseteq Unshared
  <2>1. Own(r, f, u) \subseteq Bits /\ Own(r, f, u) \cap MemberBits = {}
    BY <1>2, <1>5, RowsAre
  <2> QED  BY <2>1, MemberBitsAre
<1> QED  BY <1>3, <1>4, <1>5 DEF r

LEMMA TurnedPrivateIsFine ==
    ASSUME Tree(parent), NEW S, NEW K, NEW Z, AllUpClosed(parent, S, K, Z), NEW X, NEW B \in SUBSET Users,
           NEW h, Fine(h, parent, S, K, Z, X, B), NEW f \in Folders, f \notin Z,
           NEW o \in Users, o \in X, o \notin B, NEW again \in Users, again \in X, again \notin B,
           NEW order \in Orders(Users)
    PROVE  LET r == TurnedPrivate(h, f, o, again, order)
           IN  Fine(r, parent, S, K, Z, X, B) /\ Elsewhere(h, r, f)
<1> DEFINE bits == {"PRIVATE"}
           a == RevokeAll(h, parent, f, Users, order)
           c == ResetPermissions(a, parent, f, again)
           bare == [k \in DOMAIN c |-> IF k[1] \in {f} \cup Below(parent, f) /\ k[3] = "inherited" THEN {} ELSE c[k]]
           r == Grant(bare, parent, f, o, bits)
<1>1. TurnedPrivate(h, f, o, again, order) = r
  BY DEF TurnedPrivate
<1>2. f \in Nodes /\ bits \in SUBSET Bits
  BY NodeFacts, MemberBitsAre
<1> HIDE DEF bits
<1>3. /\ Fine(a, parent, S, K, Z, X, B) /\ Elsewhere(h, a, f)
      /\ \A u \in Users : Own(a, f, u) \subseteq Unshared
  BY <1>2, RevokedIsFine
<1> HIDE DEF a
<1>4. Fine(c, parent, S, K, Z, X, B) /\ \A m \in Nodes, w \in Users : m # f => Own(c, m, w) = Own(a, m, w)
  BY <1>3, ResetIsFine
<1> HIDE DEF c
<1>5. /\ bare \in Tables
      /\ \A m \in Nodes, w \in Users :
            /\ Own(bare, m, w) = Own(c, m, w)
            /\ Inherited(bare, m, w) = IF m \in {f} \cup Below(parent, f) THEN {} ELSE Inherited(c, m, w)
  <2> DEFINE I == Nodes \X Users \X Kinds
  <2>1. DOMAIN c = I /\ \A k \in I : c[k] \in SUBSET Bits
    BY <1>4 DEF Fine, Tables
  <2>2. bare = [k \in I |-> IF k[1] \in {f} \cup Below(parent, f) /\ k[3] = "inherited" THEN {} ELSE c[k]]
    BY <2>1
  <2>3. bare \in [I -> SUBSET Bits]
    <3>1. \A k \in I : bare[k] \in SUBSET Bits
      BY <2>1, <2>2
    <3> QED  BY <2>2, <3>1
  <2>4. ASSUME NEW m \in Nodes, NEW w \in Users
        PROVE  /\ bare[<<m, w, "own">>] = c[<<m, w, "own">>]
               /\ bare[<<m, w, "inherited">>] = IF m \in {f} \cup Below(parent, f) THEN {} ELSE c[<<m, w, "inherited">>]
    BY <2>2 DEF Kinds
  <2> HIDE DEF bare, I
  <2>5. bare \in Tables
    BY <2>3 DEF Tables, I
  <2> QED  BY <2>4, <2>5 DEF Own, Inherited
<1> HIDE DEF bare
<1>6. Fine(bare, parent, S, K, Z, X, B)
  <2>1. c \in Tables
    BY <1>4 DEF Fine
  <2>2. \A m \in Nodes, w \in Users : Turns(c, bare, m, w, {})
    BY <1>5 DEF Turns
  <2>3. ASSUME NEW m \in Folders, NEW w \in Users  PROVE Passes(c, bare, parent, m, w)
    <3>1. Above(parent, m) \subseteq Nodes
      BY AboveIs, NodeFacts
    <3>2. Kept(c, bare, parent, m, w)
      BY <1>5, <3>1 DEF Kept
    <3> QED  BY <1>5, <3>2, NodeFacts DEF Passes
  <2>4. \A w \in Users : Inherited(bare, Space, w) = Inherited(c, Space, w)
    BY <1>5, NodeFacts DEF Below
  <2>5. Step(c, bare, parent, {})
    BY <2>2, <2>3, <2>4 DEF Step
  <2>6. Reaches(c, bare, parent, {})
    BY <1>5, <2>1, <2>5, ReachStep
  <2> QED  BY <1>4, <2>6, NothingIsFair, ReachFine
<1>7. /\ r \in Tables /\ Reaches(bare, r, parent, Giving(f, o))
  BY <1>2, <1>5, GiveIsReached
<1> HIDE DEF r
<1>8. Fine(r, parent, S, K, Z, X, B)
  BY <1>6, <1>7, GivingIsFair, ReachFine
<1>9. Elsewhere(bare, r, f)
  <2> DEFINE ch == Giving(f, o)
  <2>1. \A m \in Nodes, w \in Users, P, Q \in SUBSET Bits : <<m, w, P, Q>> \in ch => m = f
    BY DEF Giving
  <2> HIDE DEF ch
  <2>2. Reaches(bare, r, parent, ch)
    BY <1>7 DEF ch
  <2> QED  BY <1>5, <2>1, <2>2, ReachElsewhere
<1>10. Elsewhere(h, r, f)
  BY <1>3, <1>4, <1>5, <1>9 DEF Elsewhere
<1> QED  BY <1>1, <1>8, <1>10

LEMMA TurnedPublicIsFine ==
    ASSUME Tree(parent), NEW S, NEW K, NEW Z, AllUpClosed(parent, S, K, Z), NEW X, NEW B \in SUBSET Users,
           NEW h, Fine(h, parent, S, K, Z, X, B), NEW f \in Folders, f \notin Z,
           NEW o \in Users, o \in X, o \notin B, NEW again \in Users, again \in X, again \notin B,
           NEW order \in Orders(Users)
    PROVE  LET r == TurnedPublic(h, f, o, again, order)
           IN  Fine(r, parent, S, K, Z, X, B) /\ Elsewhere(h, r, f)
<1> DEFINE bits == {"PRIVATE"}
           a == Revoke(h, parent, f, o, bits)
           b == RevokeAll(a, parent, f, Users, order)
           c == ResetPermissions(b, parent, f, again)
           r == InsertParentsMembers(c, parent, f, order)
           ch == {<<f, o, bits, {}>>}
<1>1. TurnedPublic(h, f, o, again, order) = r
  BY DEF TurnedPublic
<1>2. f \in Nodes /\ bits \in SUBSET Bits /\ h \in Tables
  BY NodeFacts, MemberBitsAre DEF Fine
<1> HIDE DEF bits
<1>3. a \in Tables /\ Reaches(h, a, parent, ch)
  <2>1. <<f, o, bits, {}>> \in ch
    OBVIOUS
  <2> HIDE DEF ch
  <2> QED  BY <1>2, <2>1, RevokeIsReached
<1> HIDE DEF a
<1>4. Fine(a, parent, S, K, Z, X, B) /\ Elsewhere(h, a, f)
  <2>1. Fair(ch, K, Z, X, B)
    BY DEF Fair
  <2>2. \A m \in Nodes, w \in Users, P, Q \in SUBSET Bits : <<m, w, P, Q>> \in ch => m = f
    OBVIOUS
  <2> HIDE DEF ch
  <2> QED  BY <1>2, <1>3, <2>1, <2>2, ReachFine, ReachElsewhere
<1>5. /\ Fine(b, parent, S, K, Z, X, B) /\ Elsewhere(a, b, f)
      /\ \A u \in Users : Own(b, f, u) \subseteq Unshared
  BY <1>2, <1>4, RevokedIsFine
<1> HIDE DEF b
<1>6. Fine(c, parent, S, K, Z, X, B) /\ \A m \in Nodes, w \in Users : m # f => Own(c, m, w) = Own(b, m, w)
  BY <1>5, ResetIsFine
<1> HIDE DEF c
<1>7. c \in Tables
  BY <1>6 DEF Fine
<1>8. r \in Tables /\ Reaches(c, r, parent, {})
  BY <1>2, <1>7, InsertIsReached
<1> HIDE DEF r
<1>9. Fine(r, parent, S, K, Z, X, B)
  BY <1>6, <1>8, NothingIsFair, ReachFine
<1>10. Elsewhere(c, r, f)
  BY <1>7, <1>8, ReachElsewhere
<1>11. Elsewhere(h, r, f)
  BY <1>4, <1>5, <1>6, <1>10 DEF Elsewhere
<1> QED  BY <1>1, <1>9, <1>11

-----------------------------------------------------------------------------

(* The inductive invariant *)

SettledOnes == {f \in Folders : Settled(f)}
KnownOnes == {f \in Folders : Known(f)}
Absent == {f \in Folders : parent[f] = None}
Outsiders == {u \in Users \ excused : Own(held, Space, u) = {}}

RowsInv == Fine(held, parent, SettledOnes, KnownOnes, Absent, excused, Outsiders)
PlacesInv ==
    /\ \A n \in Nodes : owner[n] \in excused
    /\ \A f \in KnownOnes : parent[f] # None => InSpace(f)
    /\ \A f \in KnownOnes : invited[f] # None => invited[Space] # None
OwnedInv == \A n \in There : \E u \in Users : "OWNER" \in Own(held, n, u)

AccessInv == TypeOK /\ RowsInv /\ PlacesInv /\ OwnedInv

(* The type of all but the rows. *)
Typed ==
    /\ parent \in [Folders -> Nodes \cup {None, Nowhere}]
    /\ owner \in [Nodes -> Users]
    /\ view \in [Nodes -> Views]
    /\ team \subseteq Users /\ invited \in [Nodes -> Roles \cup {None}]
    /\ strayed \cup foreign \subseteq There \ {Space} /\ excused \subseteq Users
    /\ Forest(parent)
    /\ \A f \in Folders : parent[f] = None => (\A g \in Folders : parent[g] # f) /\ invited[f] = None
    /\ accessed \in 0..MaxCalls

LEMMA TypedIs ==
    ASSUME Typed, RowsInv
    PROVE  TypeOK
<1>1. held \in Tables
  BY DEF RowsInv, Fine
<1>2. ASSUME NEW f \in Folders, parent[f] = None, NEW u \in Users  PROVE Unified(held, f, u) = {}
  BY <1>2 DEF RowsInv, Fine, Barred, Absent, Unified
<1> QED  BY <1>1, <1>2 DEF Typed, TypeOK

LEMMA StateFacts ==
    ASSUME TypeOK
    PROVE  /\ Tree(parent) /\ Typed /\ held \in Tables
           /\ AllUpClosed(parent, SettledOnes, KnownOnes, Absent)
           /\ KnownOnes \subseteq SettledOnes
           /\ Outsiders \in SUBSET Users
           /\ There \subseteq Nodes /\ There \cap Absent = {} /\ \A n \in Nodes : n \in There \/ n \in Absent
<1>1. Tree(parent)
  BY DEF TypeOK, Tree, ParentPlaces
<1>2. \A f \in Folders : parent[f] \in Folders => {parent[f]} \cup Above(parent, parent[f]) \subseteq {f} \cup Above(parent, f)
  BY <1>1, AboveIs
<1>3. UpClosed(parent, SettledOnes)
  BY <1>2 DEF UpClosed, SettledOnes, Settled
<1>4. UpClosed(parent, KnownOnes)
  BY <1>2 DEF UpClosed, KnownOnes, Known
<1>5. UpClosed(parent, Absent)
  BY NodesAssumption DEF UpClosed, Absent
<1>6. KnownOnes \subseteq SettledOnes
  BY DEF KnownOnes, SettledOnes, Known, Settled
<1>7. There \subseteq Nodes /\ There \cap Absent = {} /\ \A n \in Nodes : n \in There \/ n \in Absent
  BY NodeFacts DEF There, Absent
<1> QED  BY <1>1, <1>3, <1>4, <1>5, <1>6, <1>7 DEF AllUpClosed, Outsiders, TypeOK, Typed

(* A space inherits nothing: who has a row there has one of its own. *)
LEMMA SpaceRow ==
    ASSUME AccessInv, NEW u \in Users, Unified(held, Space, u) # {}
    PROVE  Own(held, Space, u) # {} /\ u \notin Outsiders
BY DEF AccessInv, RowsInv, Fine, Unified, Outsiders

(* A known folder is in the space; one in the space is there. *)
LEMMA InSpaceFacts ==
    ASSUME AccessInv
    PROVE  /\ InSpaceTree \subseteq There
           /\ \A f \in KnownOnes : f \in InSpaceTree \/ f \in Absent
<1>1. Tree(parent)
  BY StateFacts DEF AccessInv
<1>2. ASSUME NEW f \in Folders, InSpace(f)  PROVE parent[f] # None
  <2>1. SUFFICES ASSUME parent[f] = None  PROVE FALSE
    OBVIOUS
  <2>2. Above(parent, f) = {}
    BY <1>1, <2>1, AboveIs, NodesAssumption
  <2> QED  BY <1>2, <2>1, <2>2, NodesAssumption DEF InSpace
<1> QED  BY <1>2 DEF InSpaceTree, There, AccessInv, PlacesInv, Absent, KnownOnes

(* Who holds OWNER was an owner. *)
LEMMA OwnersWere ==
    ASSUME AccessInv, NEW n \in Nodes, NEW o \in Owners(held, n)
    PROVE  o \in Users /\ o \in excused /\ o \notin Outsiders
<1>1. o \in Users /\ "OWNER" \in Unified(held, n, o)
  BY DEF Owners
<1>2. SUFFICES ASSUME o \notin excused  PROVE FALSE
  BY <1>1 DEF Outsiders
<1>3. Own(held, n, o) \in Plain /\ Inherited(held, n, o) \in Plain
  BY <1>1, <1>2 DEF AccessInv, RowsInv, Fine, PlainFor
<1> QED  BY <1>1, <1>3, PlainIs DEF Unified

(* What OwnerKept says of a step; it keeps that somebody owns what there is. *)
OwnerStep ==
    \A n \in Nodes :
       (n \in There /\ Owners(held, n) = {owner[n]} /\ n \in There') => "OWNER" \in Own(held', n, owner'[n])

LEMMA OwnersStay ==
    ASSUME OwnedInv, NEW T, T = There', T \subseteq Nodes,
           \A n \in T :
              \/ owner'[n] \in Users /\ "OWNER" \in Own(held', n, owner'[n])
              \/ n \in There /\ owner'[n] = owner[n] /\ \E o \in Owners(held, n) : "OWNER" \in Own(held', n, o)
    PROVE  OwnedInv' /\ OwnerStep
<1>1. \A n \in T : \E u \in Users : "OWNER" \in Own(held', n, u)
  BY DEF Owners
<1>2. ASSUME NEW n \in Nodes, n \in There, Owners(held, n) = {owner[n]}, n \in T
      PROVE  "OWNER" \in Own(held', n, owner'[n])
  BY <1>2
<1> QED  BY <1>1, <1>2 DEF OwnedInv, OwnerStep

(* No change takes OWNER. *)
LEMMA ReachOwners ==
    ASSUME AccessInv, NEW r, NEW up, NEW ch, Reaches(held, r, up, ch),
           \A m \in Nodes, w \in Users, P, Q \in SUBSET Bits : <<m, w, P, Q>> \in ch => "OWNER" \notin P
    PROVE  \A n \in There : \E o \in Owners(held, n) : "OWNER" \in Own(r, n, o)
<1>1. SUFFICES ASSUME NEW n \in There  PROVE \E o \in Owners(held, n) : "OWNER" \in Own(r, n, o)
  OBVIOUS
<1>2. held \in Tables /\ n \in Nodes
  BY StateFacts DEF AccessInv
<1>3. PICK u \in Users : "OWNER" \in Own(held, n, u)
  BY DEF AccessInv, OwnedInv
<1>4. u \in Owners(held, n)
  BY <1>3 DEF Owners, Unified
<1>5. \A P, Q \in SUBSET Bits : <<n, u, P, Q>> \in ch => "OWNER" \notin P
  BY <1>2
<1>6. "OWNER" \in Own(r, n, u)
  BY <1>2, <1>3, <1>5, ReachBit
<1> QED  BY <1>4, <1>6

-----------------------------------------------------------------------------

(* The calls that leave the tree alone *)

Stays == UNCHANGED <<parent, strayed, foreign>>

LEMMA StillThere ==
    ASSUME Stays, TypeOK
    PROVE  /\ SettledOnes' = SettledOnes /\ KnownOnes' = KnownOnes /\ Absent' = Absent
           /\ There' = There /\ InSpaceTree' = InSpaceTree /\ \A f : InSpace(f)' = InSpace(f)
           /\ Forest(parent)'
<1>1. \A f : Above(parent', f) = Above(parent, f)
  BY DEF Stays
<1> QED  BY <1>1 DEF Stays, SettledOnes, KnownOnes, Absent, There, Settled, Known, InSpace, InSpaceTree, TypeOK

LEMMA StaysKeeps ==
    ASSUME AccessInv, Stays, Call, excused \subseteq excused', excused' \subseteq Users,
           NEW B, B = Outsiders', Fine(held', parent, SettledOnes, KnownOnes, Absent, excused', B),
           owner' \in [Nodes -> Users], \A n \in Nodes : owner'[n] \in excused',
           view' \in [Nodes -> Views], team' \subseteq Users, invited' \in [Nodes -> Roles \cup {None}],
           \A f \in Absent : invited'[f] = None,
           \A f \in KnownOnes : invited'[f] # None => invited'[Space] # None,
           \A n \in There :
              \/ "OWNER" \in Own(held', n, owner'[n])
              \/ owner'[n] = owner[n] /\ \E o \in Owners(held, n) : "OWNER" \in Own(held', n, o)
    PROVE  AccessInv' /\ OwnerStep
<1>1. /\ SettledOnes' = SettledOnes /\ KnownOnes' = KnownOnes /\ Absent' = Absent
      /\ There' = There /\ InSpaceTree' = InSpaceTree /\ \A f : InSpace(f)' = InSpace(f)
      /\ Forest(parent)'
  BY StillThere DEF AccessInv
<1>2. Typed /\ There \subseteq Nodes
  BY StateFacts DEF AccessInv
<1>3. parent' = parent /\ strayed' = strayed /\ foreign' = foreign
  BY DEF Stays
<1>4. RowsInv'
  BY <1>1, <1>3 DEF RowsInv
<1>5. accessed' \in 0..MaxCalls
  BY <1>2, CallsAssumption DEF Call, Typed
<1>6. Typed'
  <2>1. \A f \in Folders : parent'[f] = None => (\A g \in Folders : parent'[g] # f) /\ invited'[f] = None
    BY <1>2, <1>3 DEF Typed, Absent
  <2>2. strayed' \cup foreign' \subseteq There' \ {Space}
    BY <1>1, <1>2, <1>3 DEF Typed
  <2> QED  BY <1>1, <1>2, <1>3, <1>5, <2>1, <2>2 DEF Typed
<1>7. TypeOK'
  BY <1>4, <1>6, TypedIs, PTL
<1>8. PlacesInv'
  <2>1. \A f \in KnownOnes : parent'[f] # None => InSpace(f)'
    BY <1>1, <1>3 DEF AccessInv, PlacesInv
  <2> QED  BY <1>1, <2>1 DEF PlacesInv
<1>9. OwnedInv' /\ OwnerStep
  <2> DEFINE T == There
  <2>1. T = There' /\ T \subseteq Nodes
    BY <1>1, <1>2
  <2>2. \A n \in T :
           \/ owner'[n] \in Users /\ "OWNER" \in Own(held', n, owner'[n])
           \/ n \in There /\ owner'[n] = owner[n] /\ \E o \in Owners(held, n) : "OWNER" \in Own(held', n, o)
    BY <1>2
  <2> HIDE DEF T
  <2> QED  BY <2>1, <2>2, OwnersStay DEF AccessInv
<1> QED  BY <1>4, <1>7, <1>8, <1>9 DEF AccessInv

(* Where only rows change, and only by steps that are fair. *)
LEMMA SameKeeps ==
    ASSUME AccessInv, Same, Call, NEW ch, Reaches(held, held', parent, ch),
           \A m \in Nodes, w \in Users, P, Q \in SUBSET Bits : <<m, w, P, Q>> \in ch => "OWNER" \notin P,
           NEW B, B = Outsiders', Fine(held', parent, SettledOnes, KnownOnes, Absent, excused, B)
    PROVE  AccessInv' /\ OwnerStep
<1>1. /\ parent' = parent /\ owner' = owner /\ view' = view /\ team' = team /\ invited' = invited
      /\ strayed' = strayed /\ foreign' = foreign /\ excused' = excused
  BY DEF Same
<1>2. Typed
  BY StateFacts DEF AccessInv
<1>3. Tree(parent)
  BY StateFacts DEF AccessInv
<1>4. \A n \in There : \E o \in Owners(held, n) : "OWNER" \in Own(held', n, o)
  BY <1>3, ReachOwners
<1>5. Stays
  BY <1>1 DEF Stays
<1>6. \A f \in Absent : invited'[f] = None
  BY <1>1, <1>2 DEF Typed, Absent
<1>7. /\ \A n \in Nodes : owner'[n] \in excused'
      /\ \A f \in KnownOnes : invited'[f] # None => invited'[Space] # None
  BY <1>1 DEF AccessInv, PlacesInv
<1>8. /\ excused \subseteq excused' /\ excused' \subseteq Users /\ owner' \in [Nodes -> Users]
      /\ view' \in [Nodes -> Views] /\ team' \subseteq Users /\ invited' \in [Nodes -> Roles \cup {None}]
  BY <1>1, <1>2 DEF Typed
<1>9. Fine(held', parent, SettledOnes, KnownOnes, Absent, excused', B)
  BY <1>1
<1>10. \A n \in There :
          \/ "OWNER" \in Own(held', n, owner'[n])
          \/ owner'[n] = owner[n] /\ \E o \in Owners(held, n) : "OWNER" \in Own(held', n, o)
  BY <1>1, <1>4
<1> QED  BY <1>5, <1>6, <1>7, <1>8, <1>9, <1>10, StaysKeeps

(* Users who were outside before are all who are after. *)
LEMMA StillFine ==
    ASSUME AccessInv, NEW r, NEW ch, Reaches(held, r, parent, ch), NEW X, excused \subseteq X,
           NEW B, B \subseteq Outsiders, Fair(ch, KnownOnes, Absent, X, B)
    PROVE  Fine(r, parent, SettledOnes, KnownOnes, Absent, X, B)
<1>1. Tree(parent) /\ AllUpClosed(parent, SettledOnes, KnownOnes, Absent) /\ B \in SUBSET Users
  BY StateFacts DEF AccessInv
<1>2. Fine(held, parent, SettledOnes, KnownOnes, Absent, X, B)
  BY FineOfLess DEF AccessInv, RowsInv
<1> QED  BY <1>1, <1>2, ReachFine

(* InsertMember and UpdateMember *)
LEMMA InsertOneKeeps ==
    ASSUME AccessInv, NEW n \in There, NEW m \in Users, NEW role \in Roles, Call, Same,
           held' = InsertOne(held, parent, n, m, role), n \in KnownOnes => m \notin Outsiders
    PROVE  AccessInv' /\ OwnerStep
<1> DEFINE ch == Inserting(n, m)
           B == Outsiders'
<1>1. Tree(parent) /\ held \in Tables /\ n \in Nodes /\ n \notin Absent
  BY StateFacts DEF AccessInv
<1>2. /\ held' \in Tables /\ Reaches(held, held', parent, ch)
      /\ \A x \in Nodes, w \in Users :
            Own(held', x, w) = IF x = n /\ w = m THEN (Own(held, n, m) \ MemberBits) \cup RoleBits[role]
                               ELSE Own(held, x, w)
  BY <1>1, InsertOneIsReached
<1>3. B = {u \in Users \ excused : Own(held', Space, u) = {}}
  BY DEF Outsiders, Same
<1> HIDE DEF B
<1>4. B \subseteq Outsiders
  BY <1>2, <1>3, NodeFacts, PlainIs DEF Outsiders
<1>5. Fair(ch, KnownOnes, Absent, excused, B)
  BY <1>1, <1>4, InsertingIsFair
<1>6. \A x \in Nodes, w \in Users, P, Q \in SUBSET Bits : <<x, w, P, Q>> \in ch => "OWNER" \notin P
  BY MemberBitsAre DEF Inserting
<1> HIDE DEF ch
<1>7. Fine(held', parent, SettledOnes, KnownOnes, Absent, excused, B)
  BY <1>2, <1>4, <1>5, StillFine
<1> QED  BY <1>2, <1>6, <1>7, SameKeeps DEF B

LEMMA InsertMemberKeeps ==
    ASSUME AccessInv, NEW n \in Nodes, NEW m \in Users, NEW role \in Roles, InsertMember(n, m, role)
    PROVE  AccessInv' /\ OwnerStep
<1>1. n \in There /\ Call /\ Same /\ held' = InsertOne(held, parent, n, m, role)
  BY DEF InsertMember
<1>2. n \in KnownOnes => m \notin Outsiders
  <2>1. SUFFICES ASSUME n \in KnownOnes  PROVE m \notin Outsiders
    OBVIOUS
  <2>2. n \in InSpaceTree \ {Space}
    BY <1>1, <2>1, InSpaceFacts, NodeFacts DEF KnownOnes, There, Absent
  <2>3. "READ" \in Unified(held, Space, m)
    BY <2>2 DEF InsertMember
  <2> QED  BY <2>3, SpaceRow
<1> QED  BY <1>1, <1>2, InsertOneKeeps

LEMMA UpdateMemberKeeps ==
    ASSUME AccessInv, NEW n \in Nodes, NEW m \in Users, NEW role \in Roles, UpdateMember(n, m, role)
    PROVE  AccessInv' /\ OwnerStep
<1>1. n \in There /\ Call /\ Same /\ held' = InsertOne(held, parent, n, m, role) /\ Unified(held, n, m) # {}
  BY DEF UpdateMember
<1>2. n \in KnownOnes => m \notin Outsiders
  BY <1>1 DEF AccessInv, RowsInv, Fine, Barred, Unified
<1> QED  BY <1>1, <1>2, InsertOneKeeps

(* Who has lost its own rows on all of K inherits nothing there. *)
LEMMA CutOff ==
    ASSUME NEW up, Tree(up), NEW S, NEW K, NEW Z, AllUpClosed(up, S, K, Z), K \subseteq S, NEW X, NEW B,
           NEW h, Fine(h, up, S, K, Z, X, B), NEW u \in Users, u \notin X,
           \A f \in K : Own(h, f, u) \cap MemberBits = {}
    PROVE  Barred(h, u, K)
<1>1. ASSUME NEW f \in K  PROVE f \in Folders /\ Own(h, f, u) = {} /\ Inherited(h, f, u) \in Plain
  BY NodeFacts DEF AllUpClosed, UpClosed, Fine, PlainFor, Plain
<1>2. ASSUME NEW f \in K  PROVE Above(up, f) \subseteq K
  <2> DEFINE T == {x \in Folders : x \in K => Above(up, x) \subseteq K}
  <2>1. \A x \in Folders : (up[x] \in Folders => up[x] \in T) => x \in T
    BY AboveIs DEF AllUpClosed, UpClosed
  <2>2. Forest(up)
    BY DEF Tree
  <2> HIDE DEF T
  <2>3. Folders \subseteq T
    BY <2>1, <2>2, TreeInduction
  <2> QED  BY <1>1, <2>3 DEF T
<1>3. ASSUME NEW f \in K  PROVE Inherited(h, f, u) = {}
  <2>1. SUFFICES ASSUME NEW b \in Inherited(h, f, u)  PROVE FALSE
    OBVIOUS
  <2>2. b \in Inherited(h, f, u) \ Unshared
    BY <1>1, <2>1, PlainIs
  <2>3. PICK g \in Above(up, f) : b \in Own(h, g, u)
    BY <2>2 DEF Fine, BackedIn, GrantedAbove
  <2> QED  BY <1>1, <1>2, <2>3
<1> QED  BY <1>1, <1>3 DEF Barred

(* All the known folders that are there are covered when the space is. *)
LEMMA CoveredFacts ==
    ASSUME AccessInv, NEW n \in There
    PROVE  /\ Covered(n) \subseteq There /\ IsFiniteSet(Covered(n)) /\ n \in Covered(n)
           /\ n # Space => Space \notin Covered(n)
           /\ n = Space => \A f \in KnownOnes : f \in Covered(n) \/ f \in Absent
<1>0. Space \notin Hidden /\ KnownOnes \cap Hidden = {}
  BY HiddenAssumption, NodesAssumption DEF KnownOnes, Known
<1>1. InSpaceTree \subseteq There /\ \A f \in KnownOnes : f \in InSpaceTree \/ f \in Absent
  BY InSpaceFacts
<1>2. IsFiniteSet(Nodes) /\ There \subseteq Nodes
  <2>1. IsFiniteSet({Space})
    BY FS_Singleton
  <2> QED  BY <2>1, FiniteAccess, FS_Union, StateFacts DEF Nodes, AccessInv
<1>3. Covered(n) \subseteq There /\ n \in Covered(n)
  BY <1>0, <1>1 DEF Covered, InSpaceTree
<1>4. IsFiniteSet(Covered(n))
  BY <1>2, <1>3, FS_Subset
<1> QED  BY <1>0, <1>1, <1>3, <1>4 DEF Covered

(* Rows that are absent or were revoked wherever the space reaches: the users are cut off. *)
LEMMA CutFromSpace ==
    ASSUME AccessInv, NEW X, excused \subseteq X, NEW B,
           NEW r, Fine(r, parent, SettledOnes, KnownOnes, Absent, X, B),
           NEW u \in Users, u \notin X, \A f \in Covered(Space) : Own(r, f, u) \cap MemberBits = {}
    PROVE  Barred(r, u, KnownOnes)
<1>1. /\ Tree(parent) /\ AllUpClosed(parent, SettledOnes, KnownOnes, Absent) /\ KnownOnes \subseteq SettledOnes
  BY StateFacts DEF AccessInv
<1>2. Space \in There
  BY DEF There
<1>3. \A f \in KnownOnes : Own(r, f, u) \cap MemberBits = {}
  <2>1. \A f \in Absent : Own(r, f, u) = {}
    BY DEF Fine, Barred
  <2> QED  BY <1>2, <2>1, CoveredFacts
<1> QED  BY <1>1, <1>3, CutOff

(* DeleteMember *)
LEMMA DeleteMemberKeeps ==
    ASSUME AccessInv, NEW n \in Nodes, NEW m \in Users, DeleteMember(n, m)
    PROVE  AccessInv' /\ OwnerStep
<1> DEFINE C == Covered(n)
           K == Cardinality(C)
           ch == {<<x, m, MemberBits, {}>> : x \in C}
<1>1. n \in There /\ Call /\ Same
  BY DEF DeleteMember
<1>2. /\ C \subseteq There /\ IsFiniteSet(C) /\ n \in C
      /\ n # Space => Space \notin C
      /\ n = Space => \A f \in KnownOnes : f \in C \/ f \in Absent
  BY <1>1, CoveredFacts
<1>3. Tree(parent) /\ held \in Tables /\ There \subseteq Nodes /\ There \cap Absent = {} /\ Outsiders \in SUBSET Users
  BY StateFacts DEF AccessInv
<1>4. PICK order \in Orders(C) :
         held' = Each(order, LAMBDA r, f : Revoke(r, parent, f, m, MemberBits), held)
  BY DEF DeleteMember
<1> DEFINE V == [i \in 1..K |-> [x \in Tables |-> Revoke(x, parent, order[i], m, MemberBits)]]
<1> HIDE DEF C
<1>5. /\ K \in Nat /\ DOMAIN order = 1..K
      /\ \A i \in 1..K : order[i] \in C
      /\ \A s \in C : \E j \in 1..K : order[j] = s
  BY <1>2, OrderIs
<1>6. held' = Loop(V, held)
  BY <1>4, <1>5 DEF Each
<1>7. ASSUME NEW x \in Tables, NEW c \in C
      PROVE  LET y == Revoke(x, parent, c, m, MemberBits)
             IN  /\ y \in Tables /\ Reaches(x, y, parent, ch)
                 /\ \A z \in Nodes, w \in Users : Own(y, z, w) = IF z = c /\ w = m THEN Own(x, c, m) \ MemberBits ELSE Own(x, z, w)
  <2>1. <<c, m, MemberBits, {}>> \in ch /\ c \in Nodes
    BY <1>2, <1>3
  <2> HIDE DEF ch
  <2> QED  BY <1>3, <2>1, RevokeIsReached, MemberBitsAre
<1> HIDE DEF K, ch
<1>8. \A i \in 1..K, x \in Tables : V[i][x] = Revoke(x, parent, order[i], m, MemberBits)
  OBVIOUS
<1>9. V \in Rules(Tables, K)
  BY <1>5, <1>7 DEF Rules
<1> HIDE DEF V
<1>10. Reaches(held, held', parent, ch)
  <2>1. \A i \in 1..K, x \in Tables \cap Tables : V[i][x] \in Tables /\ Reaches(x, V[i][x], parent, ch)
    BY <1>5, <1>7, <1>8
  <2> QED  BY <1>3, <1>5, <1>6, <1>9, <2>1, ReachLoop
<1>11. ASSUME NEW c \in C  PROVE Own(held', c, m) \cap MemberBits = {}
  <2> DEFINE A == {x \in Tables : Own(x, c, m) \cap MemberBits = {}}
  <2>1. PICK j \in 1..K : order[j] = c
    BY <1>5
  <2>2. c \in Nodes
    BY <1>2, <1>3
  <2>3. \A x \in Tables : V[j][x] \in A
    BY <1>7, <1>8, <2>1, <2>2
  <2>4. \A i \in 1..K, x \in Tables \cap A : V[i][x] \in A
    BY <1>5, <1>7, <1>8, <2>2
  <2> HIDE DEF A
  <2>5. Loop(V, held) \in A
    BY <1>3, <1>5, <1>9, <2>3, <2>4, LoopAchieves
  <2> QED  BY <1>6, <2>5 DEF A
<1>12. Fine(held', parent, SettledOnes, KnownOnes, Absent, excused, Outsiders)
  <2>1. Fair(ch, KnownOnes, Absent, excused, Outsiders)
    BY <1>2, <1>3, PlainIs DEF Fair, ch
  <2> QED  BY <1>10, <2>1, StillFine
<1> DEFINE B == Outsiders'
<1>13. B = {u \in Users \ excused : Own(held', Space, u) = {}}
  BY <1>1 DEF Outsiders, Same
<1> HIDE DEF B
<1>14. ASSUME NEW u \in B  PROVE Barred(held', u, KnownOnes)
  <2>1. CASE u \in Outsiders
    BY <1>12, <2>1 DEF Fine
  <2>2. CASE u \notin Outsiders
    <3>1. u \in Users \ excused /\ Own(held', Space, u) # Own(held, Space, u)
      BY <1>13, <2>2 DEF Outsiders
    <3>2. u = m /\ n = Space
      <4>1. SUFFICES ASSUME ~(u = m /\ n = Space)  PROVE FALSE
        OBVIOUS
      <4>2. \A P, Q \in SUBSET Bits : <<Space, u, P, Q>> \notin ch
        BY <1>2, <4>1 DEF ch
      <4>3. Own(held', Space, u) = Own(held, Space, u)
        BY <1>3, <1>10, <3>1, <4>2, NodeFacts, ReachOwn
      <4> QED  BY <3>1, <4>3
    <3> QED  BY <1>11, <1>12, <3>1, <3>2, CutFromSpace DEF C
  <2> QED  BY <2>1, <2>2
<1>15. Fine(held', parent, SettledOnes, KnownOnes, Absent, excused, B)
  BY <1>12, <1>14 DEF Fine
<1>16. \A x \in Nodes, w \in Users, P, Q \in SUBSET Bits : <<x, w, P, Q>> \in ch => "OWNER" \notin P
  BY MemberBitsAre DEF ch
<1> QED  BY <1>1, <1>10, <1>15, <1>16, SameKeeps DEF B

(* Rows of two users on one entity change in any way. *)
Changing(n, users) == {<<n, w, P, Q>> : w \in users, P \in SUBSET Bits, Q \in SUBSET Bits}

LEMMA ChangingIs ==
    ASSUME NEW n, NEW users, NEW u \in users
    PROVE  /\ Giving(n, u) \subseteq Changing(n, users)
           /\ \A P \in SUBSET Bits : <<n, u, P, {}>> \in Changing(n, users)
<1>1. ASSUME NEW P \in SUBSET Bits, NEW Q \in SUBSET Bits  PROVE <<n, u, P, Q>> \in Changing(n, users)
  BY DEF Changing
<1>2. \A e \in Giving(n, u) : \E Q \in SUBSET Bits : e = <<n, u, {}, Q>>
  BY DEF Giving
<1>3. {} \in SUBSET Bits
  OBVIOUS
<1> QED  BY <1>1, <1>2, <1>3

(* changeOwnerOfAFolder, the rows: the new owner has OWNER of its own. *)
LEMMA OwnerChangeIsReached ==
    ASSUME NEW h \in Tables, NEW up, Tree(up), NEW n \in Nodes, NEW o \in Users, NEW new \in Users,
           NEW kept \in Roles \cup {None}
    PROVE  LET revoked == Revoke(Revoke(h, up, n, o, RUD), up, n, o, {"OWNER"})
               granted == Grant(Grant(revoked, up, n, new, RUD), up, n, new, {"OWNER"})
               first == RoleBits[kept] \ RUD
               second == IF kept = "READONLY" THEN {"READ"} ELSE {"READ", "UPDATE"}
               r == IF kept = None THEN granted
                    ELSE Grant(IF first = {} THEN granted ELSE Grant(granted, up, n, o, first), up, n, o, second)
           IN  r \in Tables /\ Reaches(h, r, up, Changing(n, {o, new})) /\ "OWNER" \in Own(r, n, new)
<1> DEFINE ch == Changing(n, {o, new})
           b1 == {"OWNER"}
           first == RoleBits[kept] \ RUD
           second == IF kept = "READONLY" THEN {"READ"} ELSE {"READ", "UPDATE"}
           r1 == Revoke(h, up, n, o, RUD)
           r2 == Revoke(r1, up, n, o, b1)
           r3 == Grant(r2, up, n, new, RUD)
           r4 == Grant(r3, up, n, new, b1)
           r5 == IF first = {} THEN r4 ELSE Grant(r4, up, n, o, first)
           r6 == Grant(r5, up, n, o, second)
           r == IF kept = None THEN r4 ELSE r6
<1>1. b1 \in SUBSET Bits /\ RUD \in SUBSET Bits /\ "OWNER" \in b1 /\ second \in SUBSET Bits
  BY MemberBitsAre DEF Bits, MemberBits
<1>2. kept # None => first \in SUBSET Bits
  BY PlainIs
<1>3. /\ Giving(n, o) \subseteq ch /\ Giving(n, new) \subseteq ch
      /\ \A P \in SUBSET Bits : <<n, o, P, {}>> \in ch
  BY ChangingIs
<1> HIDE DEF ch, b1, first, second
<1>4. r1 \in Tables /\ Reaches(h, r1, up, ch)
  BY <1>1, <1>3, RevokeIsReached
<1> HIDE DEF r1
<1>5. r2 \in Tables /\ Reaches(r1, r2, up, ch)
  BY <1>1, <1>3, <1>4, RevokeIsReached
<1> HIDE DEF r2
<1>6. r3 \in Tables /\ Reaches(r2, r3, up, ch)
  BY <1>1, <1>3, <1>5, GiveIsReached
<1> HIDE DEF r3
<1>7. r4 \in Tables /\ Reaches(r3, r4, up, ch) /\ "OWNER" \in Own(r4, n, new)
  BY <1>1, <1>3, <1>6, GiveIsReached
<1> HIDE DEF r4
<1>8. kept # None => r5 \in Tables /\ Reaches(r4, r5, up, ch) /\ "OWNER" \in Own(r5, n, new)
  <2>1. SUFFICES ASSUME kept # None  PROVE r5 \in Tables /\ Reaches(r4, r5, up, ch) /\ "OWNER" \in Own(r5, n, new)
    OBVIOUS
  <2>2. CASE first = {}
    BY <1>7, <2>2, ReachSame
  <2>3. CASE first # {}
    <3> DEFINE g == Grant(r4, up, n, o, first)
    <3>1. g \in Tables /\ Reaches(r4, g, up, ch) /\ \A w \in Users, m \in Nodes : Own(r4, m, w) \subseteq Own(g, m, w)
      BY <1>2, <1>3, <1>7, <2>1, GiveIsReached
    <3> QED  BY <1>7, <2>3, <3>1
  <2> QED  BY <2>2, <2>3
<1> HIDE DEF r5
<1>9. kept # None => r6 \in Tables /\ Reaches(r5, r6, up, ch) /\ "OWNER" \in Own(r6, n, new)
  <2>1. SUFFICES ASSUME kept # None  PROVE r6 \in Tables /\ Reaches(r5, r6, up, ch) /\ "OWNER" \in Own(r6, n, new)
    OBVIOUS
  <2>2. r6 \in Tables /\ Reaches(r5, r6, up, ch) /\ \A w \in Users, m \in Nodes : Own(r5, m, w) \subseteq Own(r6, m, w)
    BY <1>1, <1>3, <1>8, <2>1, GiveIsReached
  <2> QED  BY <1>8, <2>1, <2>2
<1> HIDE DEF r6
<1>10. Reaches(h, r4, up, ch) /\ (kept # None => Reaches(h, r6, up, ch))
  BY <1>4, <1>5, <1>6, <1>7, <1>8, <1>9, ReachTrans
<1>11. r \in Tables /\ Reaches(h, r, up, ch) /\ "OWNER" \in Own(r, n, new)
  BY <1>7, <1>9, <1>10
<1> QED  BY <1>11 DEF r, r6, r5, r4, r3, r2, r1, ch, b1, first, second

LEMMA ChangeOwnerKeeps ==
    ASSUME AccessInv, NEW n \in Nodes, NEW new \in Users, NEW kept \in Roles \cup {None}, ChangeOwner(n, new, kept)
    PROVE  AccessInv' /\ OwnerStep
<1> DEFINE ch == Changing(n, {owner[n], new})
           B == Outsiders'
<1>1. /\ n \in There /\ Call /\ Stays
      /\ owner' = [owner EXCEPT ![n] = new] /\ excused' = excused \cup {new}
      /\ view' = view /\ team' = team /\ invited' = invited
  BY DEF ChangeOwner, Stays
<1>2. /\ Tree(parent) /\ held \in Tables /\ Typed /\ n \notin Absent /\ There \subseteq Nodes
  BY <1>1, StateFacts DEF AccessInv
<1>3. owner[n] \in Users /\ owner[n] \in excused
  BY <1>2 DEF Typed, AccessInv, PlacesInv
<1>4. held' \in Tables /\ Reaches(held, held', parent, ch) /\ "OWNER" \in Own(held', n, new)
  BY <1>2, <1>3, OwnerChangeIsReached DEF ChangeOwner
<1>5. \A m \in Nodes, w \in Users, P, Q \in SUBSET Bits : <<m, w, P, Q>> \in ch => m = n /\ w \in {owner[n], new}
  BY DEF Changing
<1> HIDE DEF ch
<1>6. B = {u \in Users \ excused' : Own(held', Space, u) = {}}
  BY DEF Outsiders
<1> HIDE DEF B
<1>7. ASSUME NEW u \in B  PROVE u \in Outsiders
  <2>1. u \in Users /\ u \notin excused /\ u \notin {owner[n], new} /\ Own(held', Space, u) = {}
    BY <1>1, <1>3, <1>6
  <2>2. Own(held', Space, u) = Own(held, Space, u)
    BY <1>2, <1>4, <1>5, <2>1, NodeFacts, ReachOwn
  <2> QED  BY <2>1, <2>2 DEF Outsiders
<1>8. Fair(ch, KnownOnes, Absent, excused', B)
  <2>1. {owner[n], new} \subseteq excused' /\ {owner[n], new} \cap B = {}
    BY <1>1, <1>3, <1>6
  <2> QED  BY <1>2, <1>5, <2>1 DEF Fair
<1>9. Fine(held', parent, SettledOnes, KnownOnes, Absent, excused', B)
  <2>1. B \subseteq Outsiders
    BY <1>7
  <2> QED  BY <1>1, <1>4, <1>8, <2>1, StillFine
<1>10. ASSUME NEW m \in There
       PROVE  \/ "OWNER" \in Own(held', m, owner'[m])
              \/ owner'[m] = owner[m] /\ \E o \in Owners(held, m) : "OWNER" \in Own(held', m, o)
  <2>1. CASE m = n
    BY <1>1, <1>2, <1>4, <2>1 DEF Typed
  <2>2. CASE m # n
    <3>1. owner'[m] = owner[m] /\ m \in Nodes
      BY <1>1, <1>2, <2>2 DEF Typed
    <3>2. PICK o \in Users : "OWNER" \in Own(held, m, o)
      BY DEF AccessInv, OwnedInv
    <3>3. o \in Owners(held, m)
      BY <3>2 DEF Owners, Unified
    <3>4. Own(held', m, o) = Own(held, m, o)
      BY <1>2, <1>4, <1>5, <2>2, <3>1, ReachOwn
    <3> QED  BY <3>1, <3>2, <3>3, <3>4
  <2> QED  BY <2>1, <2>2
<1>11. /\ excused \subseteq excused' /\ excused' \subseteq Users /\ owner' \in [Nodes -> Users]
       /\ view' \in [Nodes -> Views] /\ team' \subseteq Users /\ invited' \in [Nodes -> Roles \cup {None}]
  BY <1>1, <1>2 DEF Typed
<1>12. \A m \in Nodes : owner'[m] \in excused'
  BY <1>1, <1>2 DEF AccessInv, PlacesInv, Typed
<1>13. /\ \A f \in Absent : invited'[f] = None
       /\ \A f \in KnownOnes : invited'[f] # None => invited'[Space] # None
  BY <1>1, <1>2 DEF Typed, Absent, AccessInv, PlacesInv
<1> QED  BY <1>1, <1>9, <1>10, <1>11, <1>12, <1>13, StaysKeeps DEF B

(* The end of every update, on rows that are fine. *)
LEMMA OwnerGrantedIsFine ==
    ASSUME Tree(parent), NEW S, NEW K, NEW Z, AllUpClosed(parent, S, K, Z), NEW X, NEW B \in SUBSET Users,
           NEW h, Fine(h, parent, S, K, Z, X, B), NEW n \in Nodes, n \notin Z, NEW o \in Users, o \in X, o \notin B
    PROVE  LET r == OwnerGranted(h, n, o)
           IN  /\ Fine(r, parent, S, K, Z, X, B) /\ "OWNER" \in Own(r, n, o)
               /\ \A m \in Nodes, w \in Users : Own(h, m, w) \subseteq Own(r, m, w)
               /\ \A m \in Nodes, w \in Users : m # n \/ w # o => Own(r, m, w) = Own(h, m, w)
<1> DEFINE r == OwnerGranted(h, n, o)
           ch == Giving(n, o)
<1>1. h \in Tables
  BY DEF Fine
<1>2. /\ r \in Tables /\ Reaches(h, r, parent, ch) /\ "OWNER" \in Own(r, n, o)
      /\ \A w \in Users, m \in Nodes : Own(h, m, w) \subseteq Own(r, m, w)
  BY <1>1, OwnerGrantedIsReached
<1>3. Fair(ch, K, Z, X, B)
  BY GivingIsFair
<1>4. \A m \in Nodes, w \in Users, P, Q \in SUBSET Bits : <<m, w, P, Q>> \in ch => m = n /\ w = o
  BY DEF Giving
<1> HIDE DEF r, ch
<1>5. Fine(r, parent, S, K, Z, X, B)
  BY <1>2, <1>3, ReachFine
<1>6. ASSUME NEW m \in Nodes, NEW w \in Users, m # n \/ w # o  PROVE Own(r, m, w) = Own(h, m, w)
  <2>1. \A P, Q \in SUBSET Bits : <<m, w, P, Q>> \notin ch
    BY <1>4, <1>6
  <2> QED  BY <1>1, <1>2, <2>1, ReachOwn
<1> QED  BY <1>2, <1>5, <1>6 DEF r

(* What update of the view type makes of the rows before it grants the owner its own. *)
Turned(h, f, v, o, again, order) ==
    IF v = view[f] THEN h
    ELSE IF v = "PRIVATE" /\ ~IsPrivate(h, f) THEN TurnedPrivate(h, f, o, again, order)
    ELSE IF v # "PRIVATE" /\ IsPrivate(h, f) THEN TurnedPublic(h, f, o, again, order)
    ELSE h

LEMMA UpdateViewKeeps ==
    ASSUME AccessInv, NEW f \in Folders, NEW v \in Views, UpdateView(f, v)
    PROVE  AccessInv' /\ OwnerStep
<1> DEFINE S == SettledOnes
           K == KnownOnes
           Z == Absent
           X == excused
           O == Outsiders
           B == Outsiders'
<1>1. /\ f \in There /\ Call /\ Stays /\ parent[f] # None
      /\ owner' = owner /\ excused' = excused /\ view' = [view EXCEPT ![f] = v] /\ team' = team /\ invited' = invited
  BY DEF UpdateView, Stays, There
<1>2. /\ Tree(parent) /\ held \in Tables /\ Typed /\ f \notin Z /\ There \subseteq Nodes /\ f \in Nodes /\ f # Space
      /\ AllUpClosed(parent, S, K, Z) /\ O \in SUBSET Users
  BY <1>1, StateFacts, NodeFacts DEF AccessInv
<1>3. PICK o \in Owners(held, f), again \in Owners(held, f), order \in Orders(Users) :
         held' = OwnerGranted(Turned(held, f, v, o, again, order), f, o)
  BY DEF UpdateView, Turned
<1>4. /\ o \in Users /\ o \in X /\ o \notin O
      /\ again \in Users /\ again \in X /\ again \notin O
  BY <1>2, OwnersWere
<1> DEFINE t == Turned(held, f, v, o, again, order)
<1>5. Fine(held, parent, S, K, Z, X, O)
  BY DEF AccessInv, RowsInv
<1>6. B = {u \in Users \ excused' : Own(held', Space, u) = {}}
  BY DEF Outsiders
<1>7. O = {u \in Users \ excused : Own(held, Space, u) = {}}
  BY DEF Outsiders
<1> HIDE DEF B, O, S, K, Z, X
<1>8. Fine(t, parent, S, K, Z, X, O) /\ Elsewhere(held, t, f)
  <2>1. CASE t = held
    BY <1>5, <2>1 DEF Elsewhere
  <2>2. CASE t = TurnedPrivate(held, f, o, again, order)
    BY <1>2, <1>4, <1>5, <2>2, TurnedPrivateIsFine
  <2>3. CASE t = TurnedPublic(held, f, o, again, order)
    BY <1>2, <1>4, <1>5, <2>3, TurnedPublicIsFine
  <2> QED  BY <2>1, <2>2, <2>3 DEF Turned
<1> HIDE DEF t
<1>9. /\ Fine(held', parent, S, K, Z, X, O) /\ "OWNER" \in Own(held', f, o)
      /\ \A m \in Nodes, w \in Users : m # f \/ w # o => Own(held', m, w) = Own(t, m, w)
  <2> DEFINE r == OwnerGranted(t, f, o)
  <2>1. /\ Fine(r, parent, S, K, Z, X, O) /\ "OWNER" \in Own(r, f, o)
        /\ \A m \in Nodes, w \in Users : m # f \/ w # o => Own(r, m, w) = Own(t, m, w)
    <3>1. Fine(t, parent, S, K, Z, X, O) /\ AllUpClosed(parent, S, K, Z) /\ O \in SUBSET Users /\ f \in Nodes /\ f \notin Z
      BY <1>2, <1>8
    <3>2. o \in Users /\ o \in X /\ o \notin O /\ Tree(parent)
      BY <1>2, <1>4
    <3> QED  BY <3>1, <3>2, OwnerGrantedIsFine
  <2>2. held' = r
    BY <1>3 DEF t
  <2> QED  BY <2>1, <2>2
<1>10. \A m \in Nodes, w \in Users : m # f => Own(held', m, w) = Own(held, m, w)
  BY <1>8, <1>9 DEF Elsewhere
<1>11. B = O
  BY <1>1, <1>2, <1>6, <1>7, <1>10, NodeFacts
<1>12. ASSUME NEW m \in There
       PROVE  owner'[m] = owner[m] /\ \E w \in Owners(held, m) : "OWNER" \in Own(held', m, w)
  <2>1. CASE m = f
    BY <1>1, <1>3, <1>9, <2>1
  <2>2. CASE m # f
    <3>1. PICK w \in Users : "OWNER" \in Own(held, m, w)
      BY DEF AccessInv, OwnedInv
    <3>2. w \in Owners(held, m)
      BY <3>1 DEF Owners, Unified
    <3> QED  BY <1>1, <1>2, <1>10, <2>2, <3>1, <3>2
  <2> QED  BY <2>1, <2>2
<1>13. /\ excused \subseteq excused' /\ excused' \subseteq Users /\ owner' \in [Nodes -> Users]
       /\ view' \in [Nodes -> Views] /\ team' \subseteq Users /\ invited' \in [Nodes -> Roles \cup {None}]
  BY <1>1, <1>2 DEF Typed
<1>14. /\ \A m \in Nodes : owner'[m] \in excused'
       /\ \A g \in Absent : invited'[g] = None
       /\ \A g \in KnownOnes : invited'[g] # None => invited'[Space] # None
  BY <1>1, <1>2 DEF Typed, Absent, AccessInv, PlacesInv
<1>15. Fine(held', parent, SettledOnes, KnownOnes, Absent, excused', B)
  BY <1>1, <1>9, <1>11 DEF S, K, Z, X
<1> QED  BY <1>1, <1>12, <1>13, <1>14, <1>15, StaysKeeps DEF B

-----------------------------------------------------------------------------

(* A loop that takes its turns in an order of S *)

TableTurns(S) == [S -> [Tables -> Tables]]
Turning(order, T) == [i \in DOMAIN order |-> T[order[i]]]

LEMMA TurningIs ==
    ASSUME NEW S, IsFiniteSet(S), NEW order \in Orders(S), NEW T \in TableTurns(S)
    PROVE  /\ Turning(order, T) \in Rules(Tables, Cardinality(S))
           /\ \A i \in 1..Cardinality(S) : order[i] \in S /\ Turning(order, T)[i] = T[order[i]]
           /\ \A s \in S : \E j \in 1..Cardinality(S) : order[j] = s
<1>1. /\ DOMAIN order = 1..Cardinality(S) /\ \A i \in 1..Cardinality(S) : order[i] \in S
      /\ \A s \in S : \E j \in 1..Cardinality(S) : order[j] = s
  BY OrderIs
<1>2. \A i \in 1..Cardinality(S) : T[order[i]] \in [Tables -> Tables]
  BY <1>1 DEF TableTurns
<1> QED  BY <1>1, <1>2 DEF Turning, Rules

LEMMA TurnsAreReached ==
    ASSUME NEW S, IsFiniteSet(S), NEW order \in Orders(S), NEW T \in TableTurns(S), NEW h \in Tables,
           NEW up, NEW ch, \A s \in S, x \in Tables : Reaches(x, T[s][x], up, ch)
    PROVE  LET r == Loop(Turning(order, T), h) IN r \in Tables /\ Reaches(h, r, up, ch)
<1> DEFINE K == Cardinality(S)
           V == Turning(order, T)
<1>1. K \in Nat
  BY FS_CardinalityType
<1>2. /\ V \in Rules(Tables, K)
      /\ \A i \in 1..K : order[i] \in S /\ V[i] = T[order[i]]
  BY TurningIs
<1>3. \A i \in 1..K, x \in Tables \cap Tables : V[i][x] \in Tables /\ Reaches(x, V[i][x], up, ch)
  BY <1>2 DEF TableTurns
<1> HIDE DEF K, V
<1>4. Reaches(h, Loop(V, h), up, ch) /\ Loop(V, h) \in Tables
  BY <1>1, <1>2, <1>3, ReachLoop
<1> QED  BY <1>4 DEF V

LEMMA TurnsAchieve ==
    ASSUME NEW S, IsFiniteSet(S), NEW order \in Orders(S), NEW T \in TableTurns(S), NEW h \in Tables,
           NEW s \in S, NEW A, \A x \in Tables : T[s][x] \in A, \A t \in S, x \in Tables \cap A : T[t][x] \in A
    PROVE  Loop(Turning(order, T), h) \in A
<1> DEFINE K == Cardinality(S)
           V == Turning(order, T)
<1>1. K \in Nat
  BY FS_CardinalityType
<1>2. /\ V \in Rules(Tables, K)
      /\ \A i \in 1..K : order[i] \in S /\ V[i] = T[order[i]]
      /\ \E j \in 1..K : order[j] = s
  BY TurningIs
<1>3. PICK j \in 1..K : order[j] = s
  BY <1>2
<1>4. (\A x \in Tables : V[j][x] \in A) /\ \A i \in 1..K, x \in Tables \cap A : V[i][x] \in A
  BY <1>2, <1>3
<1> HIDE DEF K, V
<1>5. Loop(V, h) \in A
  BY <1>1, <1>2, <1>4, LoopAchieves
<1> QED  BY <1>5 DEF V

-----------------------------------------------------------------------------

(* The calls about the team *)

(* A loop of InsertOne over the users of a team: each has READ on the entity then. *)
MadeMembers(h, up, n, role, users, order) ==
    Loop([i \in DOMAIN order |-> [x \in Tables |->
             IF order[i] \in users THEN InsertOne(x, up, n, order[i], role) ELSE x]], h)

LEMMA InsertTeamIsReached ==
    ASSUME NEW h \in Tables, NEW up, Tree(up), NEW n \in Nodes, NEW role \in Roles, NEW users \in SUBSET Users,
           NEW order \in Orders(Users), NEW ch, \A m \in users : Inserting(n, m) \subseteq ch
    PROVE  LET r == MadeMembers(h, up, n, role, users, order)
           IN  /\ r \in Tables /\ Reaches(h, r, up, ch)
               /\ \A m \in users : "READ" \in Own(r, n, m)
<1> DEFINE Turn(x, m) == IF m \in users THEN InsertOne(x, up, n, m, role) ELSE x
           T == [m \in Users |-> [x \in Tables |-> Turn(x, m)]]
           r == Loop([i \in DOMAIN order |-> [x \in Tables |-> Turn(x, order[i])]], h)
<1>1. \A i \in DOMAIN order : order[i] \in Users
  BY OrderIs, FiniteAccess
<1>2. r = Loop(Turning(order, T), h)
  <2>1. [i \in DOMAIN order |-> [x \in Tables |-> Turn(x, order[i])]] = Turning(order, T)
    BY <1>1 DEF Turning
  <2> QED  BY <2>1
<1>3. ASSUME NEW m \in Users, NEW x \in Tables
      PROVE  /\ Turn(x, m) \in Tables /\ Reaches(x, Turn(x, m), up, ch)
             /\ \A w \in Users : Own(Turn(x, m), n, w) =
                   IF w = m /\ m \in users THEN (Own(x, n, m) \ MemberBits) \cup RoleBits[role] ELSE Own(x, n, w)
  <2>1. CASE m \in users
    <3> DEFINE y == InsertOne(x, up, n, m, role)
    <3>1. /\ y \in Tables /\ Reaches(x, y, up, ch)
          /\ \A z \in Nodes, w \in Users :
                Own(y, z, w) = IF z = n /\ w = m THEN (Own(x, n, m) \ MemberBits) \cup RoleBits[role] ELSE Own(x, z, w)
      BY <2>1, InsertOneIsReached
    <3> HIDE DEF y
    <3>2. \A w \in Users :
             Own(y, n, w) = IF w = m THEN (Own(x, n, m) \ MemberBits) \cup RoleBits[role] ELSE Own(x, n, w)
      BY <3>1
    <3> QED  BY <2>1, <3>1, <3>2 DEF y
  <2>2. CASE m \notin users
    BY <2>2, ReachSame
  <2> QED  BY <2>1, <2>2
<1> HIDE DEF Turn
<1>4. T \in TableTurns(Users) /\ \A m \in Users, x \in Tables : T[m][x] = Turn(x, m)
  BY <1>3 DEF TableTurns
<1> HIDE DEF T, r
<1>5. r \in Tables /\ Reaches(h, r, up, ch)
  BY <1>2, <1>3, <1>4, FiniteAccess, TurnsAreReached
<1>6. ASSUME NEW m \in users  PROVE "READ" \in Own(r, n, m)
  <2> DEFINE A == {x \in Tables : "READ" \in Own(x, n, m)}
  <2>1. "READ" \in RoleBits[role]
    BY PlainIs
  <2>2. \A x \in Tables : T[m][x] \in A
    BY <1>3, <1>4, <2>1
  <2>3. \A w \in Users, x \in Tables \cap A : T[w][x] \in A
    BY <1>3, <1>4, <2>1
  <2> HIDE DEF A
  <2>4. r \in A
    BY <1>2, <1>4, <2>2, <2>3, FiniteAccess, TurnsAchieve
  <2> QED  BY <2>4 DEF A
<1>7. MadeMembers(h, up, n, role, users, order) = r
  BY DEF MadeMembers, r, Turn
<1> QED  BY <1>5, <1>6, <1>7

LEMMA InviteTeamKeeps ==
    ASSUME AccessInv, NEW n \in Nodes, NEW role \in Roles, InviteTeam(n, role)
    PROVE  AccessInv' /\ OwnerStep
<1> DEFINE ch == UNION {Inserting(n, m) : m \in team}
           B == Outsiders'
           After(order) == MadeMembers(held, parent, n, role, team, order)
<1>1. /\ n \in There /\ Call /\ Stays
      /\ owner' = owner /\ excused' = excused /\ view' = view /\ team' = team
      /\ invited' = [invited EXCEPT ![n] = role]
      /\ (n \in InSpaceTree \ {Space}) =>
            invited[Space] # None /\ \A m \in team : "READ" \in Unified(held, Space, m)
  BY DEF InviteTeam, Stays
<1>2. /\ Tree(parent) /\ held \in Tables /\ Typed /\ n \notin Absent /\ There \subseteq Nodes
      /\ AllUpClosed(parent, SettledOnes, KnownOnes, Absent) /\ Outsiders \in SUBSET Users
  BY <1>1, StateFacts DEF AccessInv
<1>3. n \in KnownOnes => n \in InSpaceTree \ {Space}
  BY <1>1, <1>2, InSpaceFacts, NodeFacts DEF KnownOnes
<1>4. PICK o \in Owners(held, n), order \in Orders(Users) : held' = OwnerGranted(After(order), n, o)
  BY DEF InviteTeam, Each, MadeMembers
<1>5. o \in Users /\ o \in excused /\ o \notin Outsiders
  BY OwnersWere
<1> DEFINE t == After(order)
<1>6. t \in Tables /\ Reaches(held, t, parent, ch) /\ \A m \in team : "READ" \in Own(t, n, m)
  <2>1. team \in SUBSET Users
    BY <1>2 DEF Typed
  <2>2. \A m \in team : Inserting(n, m) \subseteq ch
    OBVIOUS
  <2> HIDE DEF ch
  <2> QED  BY <1>2, <2>1, <2>2, InsertTeamIsReached
<1> HIDE DEF t
<1>7. \A x \in Nodes, w \in Users, P, Q \in SUBSET Bits : <<x, w, P, Q>> \in ch =>
         x = n /\ w \in team /\ "OWNER" \notin P /\ (P = {} \/ P = MemberBits) /\ Q \in Plain
  BY PlainIs, MemberBitsAre DEF Inserting
<1> HIDE DEF ch
<1>8. Fine(t, parent, SettledOnes, KnownOnes, Absent, excused, Outsiders)
  <2>1. ASSUME NEW m \in team, n \in KnownOnes  PROVE m \notin Outsiders
    <3>1. "READ" \in Unified(held, Space, m) /\ m \in Users
      BY <1>1, <1>2, <1>3, <2>1 DEF Typed
    <3> QED  BY <3>1, SpaceRow
  <2>2. Fair(ch, KnownOnes, Absent, excused, Outsiders)
    BY <1>2, <1>7, <2>1 DEF Fair
  <2> QED  BY <1>6, <2>2, StillFine
<1>9. /\ Fine(held', parent, SettledOnes, KnownOnes, Absent, excused, Outsiders)
      /\ \A m \in Nodes, w \in Users : Own(t, m, w) \subseteq Own(held', m, w)
  <2> DEFINE r == OwnerGranted(t, n, o)
  <2>1. AllUpClosed(parent, SettledOnes, KnownOnes, Absent) /\ Outsiders \in SUBSET Users /\ n \notin Absent /\ Tree(parent)
    BY <1>2
  <2>2. /\ Fine(r, parent, SettledOnes, KnownOnes, Absent, excused, Outsiders)
        /\ \A m \in Nodes, w \in Users : Own(t, m, w) \subseteq Own(r, m, w)
    BY <1>5, <1>8, <2>1, OwnerGrantedIsFine
  <2>3. held' = r
    BY <1>4 DEF t
  <2> QED  BY <2>2, <2>3
<1>10. B = {u \in Users \ excused : Own(held', Space, u) = {}}
  BY <1>1 DEF Outsiders
<1> HIDE DEF B
<1>11. ASSUME NEW u \in B  PROVE u \in Outsiders
  <2>1. u \in Users \ excused /\ Own(t, Space, u) = {}
    BY <1>9, <1>10, NodeFacts
  <2>2. \A P, Q \in SUBSET Bits : <<Space, u, P, Q>> \notin ch
    BY <1>6, <1>7, <2>1, NodeFacts
  <2>3. Own(t, Space, u) = Own(held, Space, u)
    BY <1>2, <1>6, <2>1, <2>2, NodeFacts, ReachOwn
  <2> QED  BY <2>1, <2>3 DEF Outsiders
<1>12. Fine(held', parent, SettledOnes, KnownOnes, Absent, excused', B)
  <2>1. B \subseteq Outsiders
    BY <1>11
  <2>2. Fine(held', parent, SettledOnes, KnownOnes, Absent, excused, B)
    BY <1>9, <2>1, FineOfLess
  <2> QED  BY <1>1, <2>2
<1>13. ASSUME NEW m \in There
       PROVE  owner'[m] = owner[m] /\ \E w \in Owners(held, m) : "OWNER" \in Own(held', m, w)
  <2>1. \E w \in Owners(held, m) : "OWNER" \in Own(t, m, w)
    BY <1>6, <1>7, ReachOwners
  <2> QED  BY <1>1, <1>2, <1>9, <2>1 DEF Owners
<1>14. /\ excused \subseteq excused' /\ excused' \subseteq Users /\ owner' \in [Nodes -> Users]
       /\ view' \in [Nodes -> Views] /\ team' \subseteq Users /\ invited' \in [Nodes -> Roles \cup {None}]
  BY <1>1, <1>2 DEF Typed
<1>15. /\ \A m \in Nodes : owner'[m] \in excused'
       /\ \A g \in Absent : invited'[g] = None
  BY <1>1, <1>2, NodeFacts DEF Typed, Absent, AccessInv, PlacesInv
<1>16. ASSUME NEW g \in KnownOnes, invited'[g] # None  PROVE invited'[Space] # None
  <2>1. Space \in Nodes /\ g \in Nodes
    BY NodeFacts DEF KnownOnes
  <2>2. invited \in [Nodes -> Roles \cup {None}] /\ role # None
    BY <1>2, RolesAssumption DEF Typed
  <2>3. CASE n = Space
    BY <1>1, <2>1, <2>2, <2>3
  <2>4. CASE n # Space
    <3>1. invited[Space] # None
      <4>1. CASE g = n
        BY <1>1, <1>3, <4>1
      <4>2. CASE g # n
        BY <1>1, <1>16, <2>1, <2>2, <4>2 DEF AccessInv, PlacesInv
      <4> QED  BY <4>1, <4>2
    <3> QED  BY <1>1, <2>1, <2>2, <2>4, <3>1
  <2> QED  BY <2>3, <2>4
<1> QED  BY <1>1, <1>12, <1>13, <1>14, <1>15, <1>16, StaysKeeps DEF B

(* A loop of RevokeAll over some entities: nothing of a member is left of the users' own there. *)
Unmade(h, up, users, order, inner) ==
    Loop([i \in DOMAIN order |-> [x \in Tables |-> RevokeAll(x, up, order[i], users, inner)]], h)

LEMMA UnmadeIsReached ==
    ASSUME NEW h \in Tables, NEW up, Tree(up), NEW S \in SUBSET Nodes, IsFiniteSet(S), NEW users \in SUBSET Users,
           NEW order \in Orders(S), NEW inner \in Orders(Users), NEW ch, \A c \in S : Revoking(c, users) \subseteq ch
    PROVE  LET r == Unmade(h, up, users, order, inner)
           IN  /\ r \in Tables /\ Reaches(h, r, up, ch)
               /\ \A c \in S, w \in users : Own(r, c, w) \cap MemberBits = {}
<1> DEFINE Turn(x, c) == RevokeAll(x, up, c, users, inner)
           T == [c \in S |-> [x \in Tables |-> Turn(x, c)]]
           r == Unmade(h, up, users, order, inner)
<1>1. \A i \in DOMAIN order : order[i] \in S
  BY OrderIs
<1>2. r = Loop(Turning(order, T), h)
  <2>1. [i \in DOMAIN order |-> [x \in Tables |-> Turn(x, order[i])]] = Turning(order, T)
    BY <1>1 DEF Turning
  <2> QED  BY <2>1 DEF Unmade
<1>3. ASSUME NEW c \in S, NEW x \in Tables
      PROVE  /\ Turn(x, c) \in Tables /\ Reaches(x, Turn(x, c), up, ch)
             /\ \A w \in users : Own(Turn(x, c), c, w) \cap MemberBits = {}
             /\ \A z \in Nodes, w \in Users : Own(Turn(x, c), z, w) \subseteq Own(x, z, w)
  <2> DEFINE y == RevokeAll(x, up, c, users, inner)
             one == Revoking(c, users)
  <2>1. /\ y \in Tables /\ Reaches(x, y, up, one) /\ \A w \in users : Own(y, c, w) \cap MemberBits = {}
    BY RevokeAllIsReached
  <2>2. one \subseteq ch /\ \A z, w, P, Q : <<z, w, P, Q>> \in one => Q = {}
    BY DEF Revoking
  <2> HIDE DEF y, one
  <2>3. Reaches(x, y, up, ch)
    BY <2>1, <2>2, ReachMore
  <2>4. ASSUME NEW z \in Nodes, NEW w \in Users, NEW b, b \notin Own(x, z, w)  PROVE b \notin Own(y, z, w)
    BY <2>1, <2>2, <2>4, ReachNoBit
  <2>5. \A z \in Nodes, w \in Users : Own(y, z, w) \subseteq Own(x, z, w)
    BY <2>4
  <2> QED  BY <2>1, <2>3, <2>5 DEF y
<1> HIDE DEF Turn
<1>4. T \in TableTurns(S) /\ \A c \in S, x \in Tables : T[c][x] = Turn(x, c)
  BY <1>3 DEF TableTurns
<1> HIDE DEF T, r
<1>5. r \in Tables /\ Reaches(h, r, up, ch)
  BY <1>2, <1>3, <1>4, TurnsAreReached
<1>6. ASSUME NEW c \in S, NEW w \in users  PROVE Own(r, c, w) \cap MemberBits = {}
  <2> DEFINE A == {x \in Tables : Own(x, c, w) \cap MemberBits = {}}
  <2>1. \A x \in Tables : T[c][x] \in A
    BY <1>3, <1>4
  <2>2. ASSUME NEW d \in S, NEW x \in Tables \cap A  PROVE T[d][x] \in A
    <3>1. Own(Turn(x, d), c, w) \subseteq Own(x, c, w)
      BY <1>3
    <3> QED  BY <1>3, <1>4, <3>1
  <2> HIDE DEF A
  <2>3. r \in A
    BY <1>2, <1>4, <2>1, <2>2, TurnsAchieve
  <2> QED  BY <2>3 DEF A
<1> QED  BY <1>5, <1>6 DEF r

LEMMA DismissTeamKeeps ==
    ASSUME AccessInv, NEW n \in Nodes, DismissTeam(n)
    PROVE  AccessInv' /\ OwnerStep
<1> DEFINE C == Covered(n)
           ch == UNION {Revoking(c, team) : c \in C}
           B == Outsiders'
           After(order, users) == Unmade(held, parent, team, order, users)
<1>1. /\ n \in There /\ Call /\ Stays
      /\ owner' = owner /\ excused' = excused /\ view' = view /\ team' = team
      /\ invited' = [x \in Nodes |-> IF x \in C THEN None ELSE invited[x]]
  BY DEF DismissTeam, Stays
<1>2. /\ Tree(parent) /\ held \in Tables /\ Typed /\ n \notin Absent /\ There \subseteq Nodes /\ There \cap Absent = {}
      /\ AllUpClosed(parent, SettledOnes, KnownOnes, Absent) /\ Outsiders \in SUBSET Users
  BY <1>1, StateFacts DEF AccessInv
<1>3. /\ C \subseteq There /\ IsFiniteSet(C) /\ n \in C
      /\ n # Space => Space \notin C
      /\ n = Space => \A f \in KnownOnes : f \in C \/ f \in Absent
  BY <1>1, CoveredFacts
<1>4. PICK o \in Owners(held, n), order \in Orders(C), users \in Orders(Users) :
         held' = OwnerGranted(After(order, users), n, o)
  BY DEF DismissTeam, Each, Unmade
<1>5. o \in Users /\ o \in excused /\ o \notin Outsiders
  BY OwnersWere
<1> DEFINE t == After(order, users)
<1> HIDE DEF C
<1>6. t \in Tables /\ Reaches(held, t, parent, ch) /\ \A c \in C, w \in team : Own(t, c, w) \cap MemberBits = {}
  <2>1. team \in SUBSET Users /\ C \in SUBSET Nodes
    BY <1>2, <1>3 DEF Typed
  <2>2. \A c \in C : Revoking(c, team) \subseteq ch
    OBVIOUS
  <2> HIDE DEF ch
  <2> QED  BY <1>2, <1>3, <2>1, <2>2, UnmadeIsReached
<1> HIDE DEF t
<1>7. \A x \in Nodes, w \in Users, P, Q \in SUBSET Bits : <<x, w, P, Q>> \in ch =>
         x \in C /\ w \in team /\ "OWNER" \notin P /\ P = MemberBits /\ Q = {}
  BY MemberBitsAre DEF Revoking
<1> HIDE DEF ch
<1>8. Fine(t, parent, SettledOnes, KnownOnes, Absent, excused, Outsiders)
  <2>1. Fair(ch, KnownOnes, Absent, excused, Outsiders)
    BY <1>2, <1>3, <1>7, PlainIs DEF Fair
  <2> QED  BY <1>6, <2>1, StillFine
<1>9. /\ Fine(held', parent, SettledOnes, KnownOnes, Absent, excused, Outsiders)
      /\ \A m \in Nodes, w \in Users : Own(t, m, w) \subseteq Own(held', m, w)
      /\ \A m \in Nodes, w \in Users : w # o => Own(held', m, w) = Own(t, m, w)
  <2> DEFINE r == OwnerGranted(t, n, o)
  <2>1. AllUpClosed(parent, SettledOnes, KnownOnes, Absent) /\ Outsiders \in SUBSET Users /\ n \notin Absent /\ Tree(parent)
    BY <1>2
  <2>2. /\ Fine(r, parent, SettledOnes, KnownOnes, Absent, excused, Outsiders)
        /\ \A m \in Nodes, w \in Users : Own(t, m, w) \subseteq Own(r, m, w)
        /\ \A m \in Nodes, w \in Users : m # n \/ w # o => Own(r, m, w) = Own(t, m, w)
    BY <1>5, <1>8, <2>1, OwnerGrantedIsFine
  <2>3. held' = r
    BY <1>4 DEF t
  <2> QED  BY <2>2, <2>3
<1>10. B = {u \in Users \ excused : Own(held', Space, u) = {}}
  BY <1>1 DEF Outsiders
<1> HIDE DEF B
<1>11. ASSUME NEW u \in B  PROVE Barred(held', u, KnownOnes)
  <2>1. u \in Users \ excused /\ Own(t, Space, u) = {}
    BY <1>9, <1>10, NodeFacts
  <2>2. CASE u \in Outsiders
    BY <1>9, <2>2 DEF Fine
  <2>3. CASE u \notin Outsiders
    <3>1. Own(held, Space, u) # {}
      BY <2>1, <2>3 DEF Outsiders
    <3>2. Space \in C /\ u \in team
      <4>1. SUFFICES ASSUME ~(Space \in C /\ u \in team)  PROVE FALSE
        OBVIOUS
      <4>2. \A P, Q \in SUBSET Bits : <<Space, u, P, Q>> \notin ch
        BY <1>7, <2>1, <4>1, NodeFacts
      <4>3. Own(t, Space, u) = Own(held, Space, u)
        BY <1>2, <1>6, <2>1, <4>2, NodeFacts, ReachOwn
      <4> QED  BY <2>1, <3>1, <4>3
    <3>3. C = Covered(Space)
      BY <1>3, <3>2 DEF C
    <3>4. \A c \in Covered(Space) : Own(held', c, u) \cap MemberBits = {}
      BY <1>2, <1>3, <1>5, <1>6, <1>9, <2>1, <3>2, <3>3
    <3> QED  BY <1>9, <2>1, <3>4, CutFromSpace
  <2> QED  BY <2>2, <2>3
<1>12. Fine(held', parent, SettledOnes, KnownOnes, Absent, excused', B)
  BY <1>1, <1>9, <1>11 DEF Fine
<1>13. ASSUME NEW m \in There
       PROVE  owner'[m] = owner[m] /\ \E w \in Owners(held, m) : "OWNER" \in Own(held', m, w)
  <2>1. \E w \in Owners(held, m) : "OWNER" \in Own(t, m, w)
    BY <1>6, <1>7, ReachOwners
  <2> QED  BY <1>1, <1>2, <1>9, <2>1 DEF Owners
<1>14. /\ excused \subseteq excused' /\ excused' \subseteq Users /\ owner' \in [Nodes -> Users]
       /\ view' \in [Nodes -> Views] /\ team' \subseteq Users /\ invited' \in [Nodes -> Roles \cup {None}]
  BY <1>1, <1>2 DEF Typed
<1>15. /\ \A m \in Nodes : owner'[m] \in excused'
       /\ \A g \in Absent : invited'[g] = None
  BY <1>1, <1>2, NodeFacts DEF Typed, Absent, AccessInv, PlacesInv
<1>16. ASSUME NEW g \in KnownOnes, invited'[g] # None  PROVE invited'[Space] # None
  <2>1. Space \in Nodes /\ g \in Nodes /\ g \in Folders
    BY NodeFacts DEF KnownOnes
  <2>2. g \notin C /\ invited[g] # None
    BY <1>1, <1>16, <2>1
  <2>3. g \notin Absent
    BY <1>2, <2>1, <2>2 DEF Typed, Absent
  <2>4. Space \notin C
    BY <1>3, <2>2, <2>3
  <2> QED  BY <1>1, <2>1, <2>2, <2>4 DEF AccessInv, PlacesInv
<1> QED  BY <1>1, <1>12, <1>13, <1>14, <1>15, <1>16, StaysKeeps DEF B

(* The places of a team are folders and spaces that are there. *)
LEMMA PlacesAre ==
    ASSUME AccessInv
    PROVE  /\ Places \subseteq Nodes /\ Places \cap Absent = {} /\ IsFiniteSet(Places)
           /\ \A n \in Places : invited[n] \in Roles
           /\ Places \cap KnownOnes # {} => Space \in Places
<1>1. Typed
  BY StateFacts DEF AccessInv
<1>2. Places \subseteq Nodes /\ Places \cap Absent = {} /\ \A n \in Places : invited[n] \in Roles
  BY <1>1 DEF Places, Absent, Typed
<1>3. IsFiniteSet(Nodes)
  <2>1. IsFiniteSet({Space})
    BY FS_Singleton
  <2> QED  BY <2>1, FiniteAccess, FS_Union DEF Nodes
<1>4. IsFiniteSet(Places)
  BY <1>2, <1>3, FS_Subset
<1>5. Places \cap KnownOnes # {} => Space \in Places
  BY NodeFacts DEF AccessInv, PlacesInv, Places
<1> QED  BY <1>2, <1>4, <1>5

LEMMA JoinTeamKeeps ==
    ASSUME AccessInv, NEW u \in Users, JoinTeam(u)
    PROVE  AccessInv' /\ OwnerStep
<1> DEFINE bits(n) == RoleBits[invited[n]]
           ch == {<<n, u, {}, bits(n)>> : n \in Places}
           B == Outsiders'
           Turn(x, n) == Grant(x, parent, n, u, bits(n))
           T == [n \in Places |-> [x \in Tables |-> Turn(x, n)]]
<1>1. /\ Call /\ Stays
      /\ owner' = owner /\ excused' = excused /\ view' = view /\ team' = team \cup {u} /\ invited' = invited
  BY DEF JoinTeam, Stays
<1>2. /\ Tree(parent) /\ held \in Tables /\ Typed /\ There \subseteq Nodes
  BY <1>1, StateFacts DEF AccessInv
<1>3. /\ Places \subseteq Nodes /\ Places \cap Absent = {} /\ IsFiniteSet(Places)
      /\ \A n \in Places : invited[n] \in Roles
      /\ Places \cap KnownOnes # {} => Space \in Places
  BY PlacesAre
<1>4. PICK order \in Orders(Places) :
         held' = Loop([i \in DOMAIN order |-> [x \in Tables |-> Turn(x, order[i])]], held)
  BY DEF JoinTeam, Each
<1>5. held' = Loop(Turning(order, T), held)
  <2>1. \A i \in DOMAIN order : order[i] \in Places
    BY <1>3, OrderIs
  <2>2. [i \in DOMAIN order |-> [x \in Tables |-> Turn(x, order[i])]] = Turning(order, T)
    BY <2>1 DEF Turning
  <2> QED  BY <1>4, <2>2
<1>6. ASSUME NEW n \in Places
      PROVE  bits(n) \in SUBSET Bits /\ bits(n) \in Plain /\ "READ" \in bits(n) /\ <<n, u, {}, bits(n)>> \in ch
  BY <1>3, PlainIs
<1>7. \A x \in Nodes, w \in Users, P, Q \in SUBSET Bits : <<x, w, P, Q>> \in ch =>
         x \in Places /\ w = u /\ P = {} /\ Q \in Plain
  BY <1>6
<1> HIDE DEF ch, bits
<1>8. ASSUME NEW n \in Places, NEW x \in Tables
      PROVE  /\ Turn(x, n) \in Tables /\ Reaches(x, Turn(x, n), parent, ch)
             /\ \A m \in Nodes, w \in Users :
                   Own(Turn(x, n), m, w) = IF m = n /\ w = u THEN Own(x, n, u) \cup bits(n) ELSE Own(x, m, w)
  <2> DEFINE b == bits(n)
             y == Grant(x, parent, n, u, b)
  <2>1. n \in Nodes /\ b \in SUBSET Bits /\ <<n, u, {}, b>> \in ch
    BY <1>3, <1>6
  <2> HIDE DEF b
  <2>2. /\ y \in Tables /\ Reaches(x, y, parent, ch)
        /\ \A m \in Nodes, w \in Users : Own(y, m, w) = IF m = n /\ w = u THEN Own(x, n, u) \cup b ELSE Own(x, m, w)
    BY <1>2, <2>1, GrantIsReached
  <2> HIDE DEF y
  <2>3. Turn(x, n) = y
    BY DEF y, b
  <2> QED  BY <2>2, <2>3 DEF b
<1> HIDE DEF Turn
<1>9. T \in TableTurns(Places) /\ \A n \in Places, x \in Tables : T[n][x] = Turn(x, n)
  BY <1>8 DEF TableTurns
<1> HIDE DEF T
<1>10. held' \in Tables /\ Reaches(held, held', parent, ch)
  BY <1>2, <1>3, <1>5, <1>8, <1>9, TurnsAreReached
<1>11. ASSUME Space \in Places  PROVE "READ" \in Own(held', Space, u)
  <2> DEFINE A == {x \in Tables : "READ" \in Own(x, Space, u)}
  <2>1. \A x \in Tables : T[Space][x] \in A
    BY <1>3, <1>6, <1>8, <1>9, <1>11
  <2>2. \A n \in Places, x \in Tables \cap A : T[n][x] \in A
    BY <1>3, <1>6, <1>8, <1>9, <1>11
  <2> HIDE DEF A
  <2>3. held' \in A
    BY <1>2, <1>3, <1>5, <1>9, <1>11, <2>1, <2>2, TurnsAchieve
  <2> QED  BY <2>3 DEF A
<1>12. B = {v \in Users \ excused : Own(held', Space, v) = {}}
  BY <1>1 DEF Outsiders
<1> HIDE DEF B
<1>13. ASSUME NEW v \in B  PROVE v \in Outsiders
  <2>1. v \in Users \ excused /\ Own(held', Space, v) = {}
    BY <1>12
  <2>2. SUFFICES ASSUME NEW b \in Own(held, Space, v)  PROVE FALSE
    BY <2>1 DEF Outsiders
  <2>3. b \in Own(held', Space, v)
    BY <1>2, <1>7, <1>10, <2>1, NodeFacts, ReachBit
  <2> QED  BY <2>1, <2>3
<1>14. Fair(ch, KnownOnes, Absent, excused, B)
  <2>1. ASSUME NEW m \in Places, m \in KnownOnes  PROVE u \notin B
    BY <1>3, <1>11, <1>12, <2>1
  <2> QED  BY <1>3, <1>7, <2>1 DEF Fair
<1>15. Fine(held', parent, SettledOnes, KnownOnes, Absent, excused', B)
  <2>1. B \subseteq Outsiders
    BY <1>13
  <2> QED  BY <1>1, <1>10, <1>14, <2>1, StillFine
<1>16. \A m \in There : owner'[m] = owner[m] /\ \E w \in Owners(held, m) : "OWNER" \in Own(held', m, w)
  BY <1>1, <1>7, <1>10, ReachOwners
<1>17. /\ excused \subseteq excused' /\ excused' \subseteq Users /\ owner' \in [Nodes -> Users]
       /\ view' \in [Nodes -> Views] /\ team' \subseteq Users /\ invited' \in [Nodes -> Roles \cup {None}]
  BY <1>1, <1>2 DEF Typed
<1>18. /\ \A m \in Nodes : owner'[m] \in excused'
       /\ \A g \in Absent : invited'[g] = None
       /\ \A g \in KnownOnes : invited'[g] # None => invited'[Space] # None
  BY <1>1, <1>2 DEF Typed, Absent, AccessInv, PlacesInv
<1> QED  BY <1>1, <1>15, <1>16, <1>17, <1>18, StaysKeeps DEF B

LEMMA LeaveTeamKeeps ==
    ASSUME AccessInv, NEW u \in Users, LeaveTeam(u)
    PROVE  AccessInv' /\ OwnerStep
<1> DEFINE bits(n) == IF owner[n] = u THEN MemberBits \ {"READ"} ELSE MemberBits
           ch == {<<n, u, bits(n), {}>> : n \in Places}
           B == Outsiders'
           Turn(x, n) == Revoke(x, parent, n, u, bits(n))
           T == [n \in Places |-> [x \in Tables |-> Turn(x, n)]]
<1>1. /\ Call /\ Stays
      /\ owner' = owner /\ excused' = excused \cup {u} /\ view' = view /\ team' = team \ {u} /\ invited' = invited
  BY DEF LeaveTeam, Stays
<1>2. /\ Tree(parent) /\ held \in Tables /\ Typed /\ There \subseteq Nodes
  BY <1>1, StateFacts DEF AccessInv
<1>3. Places \subseteq Nodes /\ Places \cap Absent = {} /\ IsFiniteSet(Places)
  BY PlacesAre
<1>4. PICK order \in Orders(Places) :
         held' = Loop([i \in DOMAIN order |-> [x \in Tables |-> Turn(x, order[i])]], held)
  BY DEF LeaveTeam, Each
<1>5. held' = Loop(Turning(order, T), held)
  <2>1. \A i \in DOMAIN order : order[i] \in Places
    BY <1>3, OrderIs
  <2>2. [i \in DOMAIN order |-> [x \in Tables |-> Turn(x, order[i])]] = Turning(order, T)
    BY <2>1 DEF Turning
  <2> QED  BY <1>4, <2>2
<1>6. ASSUME NEW n \in Places
      PROVE  bits(n) \in SUBSET Bits /\ "OWNER" \notin bits(n) /\ <<n, u, bits(n), {}>> \in ch
  BY MemberBitsAre
<1>7. \A x \in Nodes, w \in Users, P, Q \in SUBSET Bits : <<x, w, P, Q>> \in ch =>
         x \in Places /\ w = u /\ "OWNER" \notin P
  BY <1>6
<1> HIDE DEF ch, bits
<1>8. ASSUME NEW n \in Places, NEW x \in Tables
      PROVE  Turn(x, n) \in Tables /\ Reaches(x, Turn(x, n), parent, ch)
  <2>1. n \in Nodes
    BY <1>3
  <2> QED  BY <1>2, <1>6, <2>1, RevokeIsReached
<1> HIDE DEF Turn
<1>9. T \in TableTurns(Places) /\ \A n \in Places, x \in Tables : T[n][x] = Turn(x, n)
  BY <1>8 DEF TableTurns
<1> HIDE DEF T
<1>10. held' \in Tables /\ Reaches(held, held', parent, ch)
  BY <1>2, <1>3, <1>5, <1>8, <1>9, TurnsAreReached
<1>11. B = {v \in Users \ excused' : Own(held', Space, v) = {}}
  BY DEF Outsiders
<1> HIDE DEF B
<1>12. ASSUME NEW v \in B  PROVE v \in Outsiders
  <2>1. v \in Users \ excused /\ v # u /\ Own(held', Space, v) = {}
    BY <1>1, <1>11
  <2>2. Own(held', Space, v) = Own(held, Space, v)
    BY <1>2, <1>7, <1>10, <2>1, NodeFacts, ReachOwn
  <2> QED  BY <2>1, <2>2 DEF Outsiders
<1>13. Fair(ch, KnownOnes, Absent, excused', B)
  <2>1. u \in excused' /\ u \notin B
    BY <1>1, <1>11
  <2> QED  BY <1>3, <1>7, <2>1 DEF Fair
<1>14. Fine(held', parent, SettledOnes, KnownOnes, Absent, excused', B)
  <2>1. B \subseteq Outsiders /\ excused \subseteq excused'
    BY <1>1, <1>12
  <2> QED  BY <1>10, <1>13, <2>1, StillFine
<1>15. \A m \in There : owner'[m] = owner[m] /\ \E w \in Owners(held, m) : "OWNER" \in Own(held', m, w)
  BY <1>1, <1>7, <1>10, ReachOwners
<1>16. /\ excused \subseteq excused' /\ excused' \subseteq Users /\ owner' \in [Nodes -> Users]
       /\ view' \in [Nodes -> Views] /\ team' \subseteq Users /\ invited' \in [Nodes -> Roles \cup {None}]
  BY <1>1, <1>2 DEF Typed
<1>17. /\ \A m \in Nodes : owner'[m] \in excused'
       /\ \A g \in Absent : invited'[g] = None
       /\ \A g \in KnownOnes : invited'[g] # None => invited'[Space] # None
  BY <1>1, <1>2 DEF Typed, Absent, AccessInv, PlacesInv
<1> QED  BY <1>1, <1>14, <1>15, <1>16, <1>17, StaysKeeps DEF B

-----------------------------------------------------------------------------

(* The calls that change the tree *)

(* The folders with none of bad from them up. *)
Clear(up, bad) == {x \in Folders : ({x} \cup Above(up, x)) \cap bad = {}}

LEMMA ClearIsClosed ==
    ASSUME NEW up, Tree(up), NEW bad
    PROVE  UpClosed(up, Clear(up, bad))
<1>1. \A f \in Folders : up[f] \in Folders => {up[f]} \cup Above(up, up[f]) \subseteq {f} \cup Above(up, f)
  BY AboveIs
<1> QED  BY <1>1 DEF UpClosed, Clear

LEMMA ClearOnes ==
    /\ SettledOnes = Clear(parent, strayed) /\ KnownOnes = Clear(parent, strayed \cup foreign \cup Hidden)
    /\ SettledOnes' = Clear(parent', strayed') /\ KnownOnes' = Clear(parent', strayed' \cup foreign' \cup Hidden)
BY DEF SettledOnes, KnownOnes, Settled, Known, Clear

LEMMA NoneBelow ==
    ASSUME NEW up, Tree(up), NEW f, \A g \in Folders : up[g] # f
    PROVE  Below(up, f) = {} /\ \A x \in Folders : f \notin Above(up, x)
<1> DEFINE T == {x \in Folders : f \notin Above(up, x)}
<1>1. ASSUME NEW x \in Folders, up[x] \in Folders => up[x] \in T  PROVE f \notin Above(up, x)
  BY <1>1, AboveIs
<1>2. \A x \in Folders : (up[x] \in Folders => up[x] \in T) => x \in T
  BY <1>1
<1>3. Forest(up)
  BY DEF Tree
<1> HIDE DEF T
<1>4. Folders \subseteq T
  BY <1>2, <1>3, TreeInduction
<1> QED  BY <1>4 DEF T, Below

(* A folder that has no rows may hang anywhere: the rows of the others are as good as they were. *)
Rowless(h, f) == \A u \in Users : Own(h, f, u) = {} /\ Inherited(h, f, u) = {}

LEMMA FineMoved ==
    ASSUME NEW up, NEW h, NEW S, NEW K, NEW Z, NEW X, NEW B, Fine(h, up, S, K, Z, X, B),
           NEW f, Rowless(h, f), B \subseteq Users,
           NEW up2, NEW S2, NEW K2, NEW Z2, NEW X2, NEW B2,
           S2 \subseteq S \cup {f}, K2 \subseteq K \cup {f}, Z2 \subseteq Z \cup {f}, X \subseteq X2, B2 \subseteq B,
           \A x \in S2 : x # f => Above(up2, x) = Above(up, x)
    PROVE  Fine(h, up2, S2, K2, Z2, X2, B2)
<1>1. BackedIn(h, up2, S2)
  <2>1. SUFFICES ASSUME NEW x \in S2, NEW u \in Users  PROVE GrantedAbove(h, up2, x, u)
    BY DEF BackedIn
  <2>2. CASE x = f
    BY <2>2 DEF GrantedAbove, Rowless
  <2>3. CASE x # f
    BY <2>3 DEF Fine, BackedIn, GrantedAbove
  <2> QED  BY <2>2, <2>3
<1>2. \A u \in B2 : Barred(h, u, K2)
  BY DEF Fine, Barred, Rowless
<1>3. \A u \in Users : Barred(h, u, Z2)
  BY DEF Fine, Barred, Rowless
<1> QED  BY <1>1, <1>2, <1>3 DEF Fine

(* A new folder f below p: the others hang as they did. *)
Hung(f, p) ==
    /\ f \in There \/ f \in Absent
    /\ parent' = [parent EXCEPT ![f] = p] /\ strayed' = strayed
    /\ foreign \subseteq foreign' /\ foreign' \subseteq foreign \cup {f}

LEMMA HungTree ==
    ASSUME AccessInv, NEW f \in Absent, NEW p \in There, Hung(f, p),
           invited' \in [Nodes -> Roles \cup {None}], \A x \in Nodes \ {f} : invited'[x] = invited[x]
    PROVE  /\ Tree(parent') /\ AllUpClosed(parent', SettledOnes', KnownOnes', Absent')
           /\ parent' \in [Folders -> Nodes \cup {None, Nowhere}]
           /\ There' = There \cup {f} /\ Absent' = Absent \ {f}
           /\ SettledOnes' \subseteq SettledOnes \cup {f} /\ KnownOnes' \subseteq KnownOnes \cup {f}
           /\ \A x \in Folders : x # f => Above(parent', x) = Above(parent, x)
           /\ \A x \in KnownOnes' : parent'[x] # None => InSpace(x)'
           /\ strayed' \cup foreign' \subseteq There' \ {Space}
           /\ \A x \in Folders : parent'[x] = None => (\A g \in Folders : parent'[g] # x) /\ invited'[x] = None
           /\ \A x \in Folders : parent'[x] # f
           /\ p \in Folders /\ f \in KnownOnes' => p \in KnownOnes
<1> DEFINE up == parent'
<1>1. /\ Tree(parent) /\ Typed /\ There \subseteq Nodes /\ There \cap Absent = {}
      /\ AllUpClosed(parent, SettledOnes, KnownOnes, Absent)
  BY StateFacts DEF AccessInv
<1>2. f \in Folders /\ parent[f] = None /\ p \in Nodes /\ p # f /\ f # Space
  BY <1>1, NodeFacts DEF Absent
<1>3. Below(parent, f) = {} /\ \A x \in Folders : f \notin Above(parent, x)
  BY <1>1, <1>2, NoneBelow DEF Typed
<1>4. p \in ParentPlaces /\ up = Rehung(parent, f, p) /\ up = [parent EXCEPT ![f] = p]
  BY <1>2 DEF ParentPlaces, Hung, Rehung
<1> HIDE DEF up
<1>5. /\ Tree(up)
      /\ \A x \in Folders : x # f => Above(up, x) = Above(parent, x)
      /\ Above(up, f) = IF p \in Folders THEN {p} \cup Above(parent, p) ELSE {}
  <2>1. p \notin Below(parent, f) /\ p # f /\ Tree(parent)
    BY <1>1, <1>2, <1>3
  <2>2. RehungTree(parent, up, f, p)
    BY <1>2, <1>4, <2>1, MovedTree
  <2> QED  BY <1>3, <2>2 DEF RehungTree
<1>6. /\ up \in [Folders -> Nodes \cup {None, Nowhere}]
      /\ up[f] = p /\ \A x \in Folders : x # f => up[x] = parent[x]
  BY <1>1, <1>2, <1>4 DEF Typed
<1>7. There' = There \cup {f} /\ Absent' = Absent \ {f}
  <2>1. Space # None /\ None \notin Folders
    BY NodesAssumption
  <2>2. p # None
    BY <1>2, <2>1 DEF Nodes
  <2> QED  BY <1>2, <1>6, <2>2 DEF There, Absent, up
<1>8. SettledOnes' = Clear(up, strayed) /\ KnownOnes' = Clear(up, strayed \cup foreign' \cup Hidden)
  BY ClearOnes DEF up, Hung
<1>9. SettledOnes' \subseteq SettledOnes \cup {f} /\ KnownOnes' \subseteq KnownOnes \cup {f}
  BY <1>5, <1>8, ClearOnes DEF Clear, Hung
<1>10. UpClosed(up, SettledOnes') /\ UpClosed(up, KnownOnes')
  BY <1>5, <1>8, ClearIsClosed
<1>11. UpClosed(up, Absent')
  BY <1>6, <1>7, NodesAssumption DEF UpClosed, Absent, Nodes, up
<1>12. p \in Folders /\ f \in KnownOnes' => p \in KnownOnes
  BY <1>2, <1>6, <1>9, <1>10 DEF UpClosed
<1>13. ASSUME NEW x \in KnownOnes', up[x] # None  PROVE \E g \in {x} \cup Above(up, x) : up[g] = Space
  <2>1. ASSUME NEW y \in KnownOnes, parent[y] # None
        PROVE  \E g \in {y} \cup Above(parent, y) : g # f /\ g \in Folders /\ up[g] = Space
    <3>1. PICK g \in {y} \cup Above(parent, y) : parent[g] = Space
      BY <2>1 DEF AccessInv, PlacesInv, InSpace
    <3>2. g \in Folders /\ g # f
      BY <1>1, <1>2, <1>3, <2>1, <3>1, AboveIs DEF KnownOnes
    <3> QED  BY <1>6, <3>1, <3>2
  <2>2. CASE x # f
    <3>1. x \in KnownOnes /\ x \in Folders /\ parent[x] # None
      BY <1>6, <1>9, <1>13, <2>2 DEF KnownOnes
    <3> QED  BY <1>5, <2>1, <2>2, <3>1
  <2>3. CASE x = f /\ p \in Folders
    <3>1. p \in KnownOnes /\ parent[p] # None
      BY <1>2, <1>12, <2>3, NodesAssumption DEF There
    <3> QED  BY <1>5, <2>1, <2>3, <3>1
  <2>4. CASE x = f /\ p = Space
    BY <1>6, <2>4
  <2> QED  BY <1>2, <2>2, <2>3, <2>4 DEF Nodes
<1>14. strayed' \cup foreign' \subseteq There' \ {Space}
  BY <1>1, <1>2, <1>7 DEF Typed, Hung
<1>15. ASSUME NEW x \in Folders, up[x] = None
       PROVE  (\A g \in Folders : up[g] # x) /\ invited'[x] = None
  <2>1. x # f /\ parent[x] = None
    BY <1>2, <1>6, <1>15, NodesAssumption DEF Nodes
  <2>2. p # x
    BY <2>1, NodesAssumption DEF There
  <2> QED  BY <1>1, <1>6, <2>1, <2>2 DEF Typed, Nodes
<1>16. \A x \in Folders : up[x] # f
  BY <1>1, <1>2, <1>6 DEF Typed
<1>17. \A x \in KnownOnes' : parent'[x] # None => InSpace(x)'
  BY <1>13 DEF InSpace, up
<1> QED  BY <1>5, <1>6, <1>7, <1>9, <1>10, <1>11, <1>12, <1>14, <1>15, <1>16, <1>17 DEF up, AllUpClosed

LEMMA TreeKeeps ==
    ASSUME AccessInv, Call, Tree(parent'), parent' \in [Folders -> Nodes \cup {None, Nowhere}],
           owner' \in [Nodes -> Users], view' \in [Nodes -> Views], team' \subseteq Users,
           invited' \in [Nodes -> Roles \cup {None}], excused' \subseteq Users,
           strayed' \cup foreign' \subseteq There' \ {Space},
           \A x \in Folders : parent'[x] = None => (\A g \in Folders : parent'[g] # x) /\ invited'[x] = None,
           Fine(held', parent', SettledOnes', KnownOnes', Absent', excused', Outsiders'),
           \A n \in Nodes : owner'[n] \in excused',
           \A x \in KnownOnes' : parent'[x] # None => InSpace(x)',
           \A x \in KnownOnes' : invited'[x] # None => invited'[Space] # None,
           NEW T, T = There', T \subseteq Nodes,
           \A n \in T :
              \/ "OWNER" \in Own(held', n, owner'[n])
              \/ n \in There /\ owner'[n] = owner[n] /\ \E o \in Owners(held, n) : "OWNER" \in Own(held', n, o)
    PROVE  AccessInv' /\ OwnerStep
<1>1. RowsInv'
  BY DEF RowsInv
<1>2. accessed' \in 0..MaxCalls
  BY CallsAssumption DEF AccessInv, TypeOK, Call
<1>3. Forest(parent)'
  BY DEF Tree, Forest
<1>4. Typed'
  BY <1>2, <1>3 DEF Typed
<1>5. TypeOK'
  BY <1>1, <1>4, TypedIs, PTL
<1>6. PlacesInv'
  BY DEF PlacesInv
<1>7. OwnedInv' /\ OwnerStep
  <2>1. \A n \in T :
           \/ owner'[n] \in Users /\ "OWNER" \in Own(held', n, owner'[n])
           \/ n \in There /\ owner'[n] = owner[n] /\ \E o \in Owners(held, n) : "OWNER" \in Own(held', n, o)
    OBVIOUS
  <2> QED  BY <2>1, OwnersStay DEF AccessInv
<1> QED  BY <1>1, <1>5, <1>6, <1>7 DEF AccessInv

(* Who owned an entity that a call has left alone owns it still. *)
LEMMA OwnersElsewhere ==
    ASSUME AccessInv, NEW r, NEW f, Elsewhere(held, r, f), NEW n \in There, n # f
    PROVE  \E o \in Owners(held, n) : "OWNER" \in Own(r, n, o)
<1>1. n \in Nodes
  BY StateFacts DEF AccessInv
<1>2. PICK o \in Users : "OWNER" \in Own(held, n, o)
  BY DEF AccessInv, OwnedInv
<1>3. o \in Owners(held, n)
  BY <1>2 DEF Owners, Unified
<1> QED  BY <1>1, <1>2, <1>3 DEF Elsewhere

LEMMA CreateKeeps ==
    ASSUME AccessInv, NEW f \in Folders, NEW p \in Nodes, NEW u \in Users, NEW v \in Views,
           NEW member \in SomeMember, Create(f, p, u, v, member)
    PROVE  AccessInv' /\ OwnerStep
<1> DEFINE ch == Creating(f, u, member)
           B == Outsiders'
           S2 == SettledOnes'
           K2 == KnownOnes'
           Z2 == Absent'
           T == There'
           up == parent'
<1>1. /\ Call /\ f \in Absent /\ p \in There /\ CanJoin(held, member)
      /\ owner' = [owner EXCEPT ![f] = u] /\ excused' = excused \cup {u} /\ view' = [view EXCEPT ![f] = v]
      /\ team' = team /\ invited' = invited /\ parent' = [parent EXCEPT ![f] = p]
      /\ strayed' = strayed /\ foreign' = foreign
  BY DEF Create, Absent
<1>2. /\ Tree(parent) /\ held \in Tables /\ Typed /\ There \subseteq Nodes
      /\ AllUpClosed(parent, SettledOnes, KnownOnes, Absent) /\ Outsiders \in SUBSET Users
  BY StateFacts DEF AccessInv
<1>3. f \in Nodes /\ f # Space
  BY NodeFacts
<1>4. Hung(f, p)
  BY <1>1 DEF Hung
<1>5. /\ Tree(up) /\ AllUpClosed(up, S2, K2, Z2)
      /\ up \in [Folders -> Nodes \cup {None, Nowhere}]
      /\ T = There \cup {f} /\ Z2 = Absent \ {f}
      /\ S2 \subseteq SettledOnes \cup {f} /\ K2 \subseteq KnownOnes \cup {f}
      /\ \A x \in Folders : x # f => Above(up, x) = Above(parent, x)
      /\ \A x \in KnownOnes' : parent'[x] # None => InSpace(x)'
      /\ strayed' \cup foreign' \subseteq There' \ {Space}
      /\ \A x \in Folders : parent'[x] = None => (\A g \in Folders : parent'[g] # x) /\ invited'[x] = None
  BY <1>1, <1>2, <1>4, HungTree DEF Typed
<1>6. PICK order \in Orders(Users) : held' = Created(held, up, f, u, v, member, order)
  BY DEF Create
<1>7. B = {w \in Users \ excused' : Own(held', Space, w) = {}}
  BY DEF Outsiders
<1> HIDE DEF B, S2, K2, Z2, T, up
<1>8. held' \in Tables /\ Reaches(held, held', up, ch) /\ "OWNER" \in Own(held', f, u)
  <2> DEFINE r == Created(held, up, f, u, v, member, order)
  <2>1. r \in Tables /\ Reaches(held, r, up, ch) /\ "OWNER" \in Own(r, f, u)
    BY <1>2, <1>3, <1>5, CreatedIsReached
  <2> HIDE DEF r, ch
  <2>2. held' = r
    BY <1>6 DEF r
  <2> QED  BY <2>1, <2>2
<1>9. member # NoOne => member[1] \in Users /\ member[1] \notin Outsiders
  <2>1. SUFFICES ASSUME member # NoOne  PROVE member[1] \in Users /\ member[1] \notin Outsiders
    OBVIOUS
  <2>2. member[1] \in Users /\ "READ" \in Unified(held, Space, member[1])
    BY <1>1, <2>1 DEF SomeMember, CanJoin
  <2> QED  BY <2>2, SpaceRow
<1>10. \A m \in Nodes, w \in Users, P, Q \in SUBSET Bits : <<m, w, P, Q>> \in ch =>
          /\ m = f
          /\ \/ w = u
             \/ w \notin Outsiders /\ (P = {} \/ P = MemberBits) /\ Q \in Plain
  BY <1>9, PlainIs DEF Creating, Giving, Inserting
<1> HIDE DEF ch
<1>11. Elsewhere(held, held', f)
  BY <1>2, <1>8, <1>10, ReachElsewhere
<1>12. B \subseteq Outsiders /\ u \notin B
  BY <1>1, <1>3, <1>7, <1>11, NodeFacts DEF Outsiders, Elsewhere
<1>13. Fair(ch, K2, Z2, excused', B)
  BY <1>1, <1>5, <1>10, <1>12 DEF Fair
<1>14. Fine(held, up, S2, K2, Z2, excused', B)
  <2>1. Fine(held, parent, SettledOnes, KnownOnes, Absent, excused, Outsiders)
    BY DEF AccessInv, RowsInv
  <2>2. Rowless(held, f)
    BY <1>1, <2>1 DEF Fine, Barred, Rowless
  <2>3. S2 \subseteq Folders
    BY <1>5 DEF AllUpClosed, UpClosed
  <2> QED  BY <1>1, <1>2, <1>5, <1>12, <2>1, <2>2, <2>3, FineMoved
<1>15. Fine(held', up, S2, K2, Z2, excused', B)
  <2>1. B \in SUBSET Users
    BY <1>7
  <2> QED  BY <1>5, <1>8, <1>13, <1>14, <2>1, ReachFine
<1>16. \A n \in T :
          \/ "OWNER" \in Own(held', n, owner'[n])
          \/ n \in There /\ owner'[n] = owner[n] /\ \E o \in Owners(held, n) : "OWNER" \in Own(held', n, o)
  <2>1. ASSUME NEW n \in There, n # f
        PROVE  owner'[n] = owner[n] /\ \E o \in Owners(held, n) : "OWNER" \in Own(held', n, o)
    BY <1>1, <1>2, <1>11, <2>1, OwnersElsewhere DEF Typed
  <2>2. "OWNER" \in Own(held', f, owner'[f])
    BY <1>1, <1>2, <1>3, <1>8 DEF Typed
  <2> QED  BY <1>5, <2>1, <2>2
<1>17. /\ owner' \in [Nodes -> Users] /\ view' \in [Nodes -> Views] /\ team' \subseteq Users
       /\ invited' \in [Nodes -> Roles \cup {None}] /\ excused' \subseteq Users
       /\ \A n \in Nodes : owner'[n] \in excused'
  BY <1>1, <1>2 DEF Typed, AccessInv, PlacesInv
<1>18. \A x \in K2 : invited'[x] # None => invited'[Space] # None
  <2>1. invited[f] = None
    BY <1>1, <1>2 DEF Typed, Absent
  <2> QED  BY <1>1, <1>5, <2>1 DEF AccessInv, PlacesInv
<1>19. T \subseteq Nodes
  BY <1>2, <1>3, <1>5
<1> QED  BY <1>1, <1>5, <1>15, <1>16, <1>17, <1>18, <1>19, TreeKeeps DEF B, S2, K2, Z2, T, up

(* The parts of copy and move, on rows that are fine *)
LEMMA GiveIsFine ==
    ASSUME NEW up, Tree(up), NEW S, NEW K, NEW Z, AllUpClosed(up, S, K, Z), NEW X, NEW B \in SUBSET Users,
           NEW h, Fine(h, up, S, K, Z, X, B), NEW n \in Nodes, n \notin Z, NEW u \in Users, u \in X, u \notin B,
           NEW bits \in SUBSET Bits
    PROVE  LET r == Grant(h, up, n, u, bits)
           IN  /\ Fine(r, up, S, K, Z, X, B) /\ Elsewhere(h, r, n)
               /\ \A b \in bits \cup Own(h, n, u) : b \in Own(r, n, u)
<1> DEFINE r == Grant(h, up, n, u, bits)
           ch == Giving(n, u)
<1>1. h \in Tables
  BY DEF Fine
<1>2. /\ r \in Tables /\ Reaches(h, r, up, ch) /\ bits \subseteq Own(r, n, u)
      /\ \A w \in Users, m \in Nodes : Own(h, m, w) \subseteq Own(r, m, w)
  BY <1>1, GiveIsReached
<1>3. Fair(ch, K, Z, X, B)
  BY GivingIsFair
<1>4. \A m \in Nodes, w \in Users, P, Q \in SUBSET Bits : <<m, w, P, Q>> \in ch => m = n
  BY DEF Giving
<1> HIDE DEF r, ch
<1>5. Fine(r, up, S, K, Z, X, B)
  BY <1>2, <1>3, ReachFine
<1>6. Elsewhere(h, r, n)
  BY <1>1, <1>2, <1>4, ReachElsewhere
<1> QED  BY <1>2, <1>5, <1>6 DEF r

LEMMA GrantAgainIsFine ==
    ASSUME NEW up, Tree(up), NEW S, NEW K, NEW Z, AllUpClosed(up, S, K, Z), NEW X, NEW B \in SUBSET Users,
           NEW h, Fine(h, up, S, K, Z, X, B), NEW f \in Nodes, f \notin Z, NEW rows \in [Users -> SUBSET Bits],
           \A w \in Users \ X : rows[w] \in Plain, f \in K => \A w \in B : rows[w] = {},
           NEW order \in Orders(Users)
    PROVE  LET r == GrantAgain(h, up, f, rows, order)
           IN  /\ Fine(r, up, S, K, Z, X, B) /\ Elsewhere(h, r, f)
               /\ \A w \in Users : "OWNER" \in rows[w] => "OWNER" \in Own(r, f, w)
<1> DEFINE r == GrantAgain(h, up, f, rows, order)
           ch == Granting(f, rows)
<1>1. h \in Tables
  BY DEF Fine
<1>2. /\ r \in Tables /\ Reaches(h, r, up, ch)
      /\ \A w \in Users : "OWNER" \in rows[w] => "OWNER" \in Own(r, f, w)
  BY <1>1, GrantAgainIsReached
<1>3. ASSUME NEW m \in Nodes, NEW w \in Users, NEW P \in SUBSET Bits, NEW Q \in SUBSET Bits, <<m, w, P, Q>> \in ch
      PROVE  /\ m = f /\ P = {}
             /\ w \notin X => Q \in Plain
             /\ w \in B /\ m \in K => Q = {}
  <2>1. /\ m = f /\ P = {}
        /\ Q = rows[w] \ {"OWNER"} \/ (Q = {"OWNER"} /\ "OWNER" \in rows[w])
    BY <1>3 DEF Granting
  <2>2. w \notin X => Q = rows[w] /\ rows[w] \in Plain
    BY <2>1, PlainIs
  <2>3. w \in B /\ m \in K => Q = {}
    BY <2>1
  <2> QED  BY <2>1, <2>2, <2>3
<1> HIDE DEF r, ch
<1>4. Fair(ch, K, Z, X, B)
  BY <1>3 DEF Fair
<1>5. Fine(r, up, S, K, Z, X, B)
  BY <1>2, <1>4, ReachFine
<1>6. Elsewhere(h, r, f)
  BY <1>1, <1>2, <1>3, ReachElsewhere
<1> QED  BY <1>2, <1>5, <1>6 DEF r

LEMMA InsertIsFine ==
    ASSUME NEW up, Tree(up), NEW S, NEW K, NEW Z, AllUpClosed(up, S, K, Z), NEW X, NEW B \in SUBSET Users,
           NEW h, Fine(h, up, S, K, Z, X, B), NEW f \in Nodes, NEW order \in Orders(Users)
    PROVE  LET r == InsertParentsMembers(h, up, f, order)
           IN  Fine(r, up, S, K, Z, X, B) /\ \A m \in Nodes, w \in Users : Own(r, m, w) = Own(h, m, w)
<1> DEFINE r == InsertParentsMembers(h, up, f, order)
<1>1. h \in Tables
  BY DEF Fine
<1>2. r \in Tables /\ Reaches(h, r, up, {})
  BY <1>1, InsertIsReached
<1> HIDE DEF r
<1>3. Fine(r, up, S, K, Z, X, B)
  BY <1>2, NothingIsFair, ReachFine
<1>4. \A m \in Nodes, w \in Users : Own(r, m, w) = Own(h, m, w)
  BY <1>1, <1>2, ReachOwn
<1> QED  BY <1>3, <1>4 DEF r

(* The loop of copyOneFolder over the members of the parent *)
Restored(h, up, g, p, order) ==
    Loop([i \in DOMAIN order |-> [x \in Tables |->
             IF p \in Folders /\ Unified(x, p, order[i]) # {} THEN ResetInherited(x, up, g, order[i]) ELSE x]], h)

LEMMA RestoredIsFine ==
    ASSUME NEW up, Tree(up), NEW S, NEW K, NEW Z, AllUpClosed(up, S, K, Z), NEW X, NEW B \in SUBSET Users,
           NEW h, Fine(h, up, S, K, Z, X, B), NEW g \in Nodes, NEW p, NEW order \in Orders(Users)
    PROVE  LET r == Restored(h, up, g, p, order)
           IN  Fine(r, up, S, K, Z, X, B) /\ \A m \in Nodes, w \in Users : Own(r, m, w) = Own(h, m, w)
<1> DEFINE Turn(x, u) == IF p \in Folders /\ Unified(x, p, u) # {} THEN ResetInherited(x, up, g, u) ELSE x
           T == [u \in Users |-> [x \in Tables |-> Turn(x, u)]]
           r == Restored(h, up, g, p, order)
<1>1. \A i \in DOMAIN order : order[i] \in Users
  BY OrderIs, FiniteAccess
<1>2. r = Loop(Turning(order, T), h)
  <2>1. [i \in DOMAIN order |-> [x \in Tables |-> Turn(x, order[i])]] = Turning(order, T)
    BY <1>1 DEF Turning
  <2> QED  BY <2>1 DEF Restored
<1>3. ASSUME NEW u \in Users, NEW x \in Tables  PROVE Turn(x, u) \in Tables /\ Reaches(x, Turn(x, u), up, {})
  <2> DEFINE y == ResetInherited(x, up, g, u)
  <2>1. y \in Tables /\ Step(x, y, up, {})
    BY ResetSteps
  <2> HIDE DEF y
  <2>2. Reaches(x, y, up, {})
    BY <2>1, ReachStep
  <2> QED  BY <2>1, <2>2, ReachSame DEF y
<1> HIDE DEF Turn
<1>4. T \in TableTurns(Users) /\ \A u \in Users, x \in Tables : T[u][x] = Turn(x, u)
  BY <1>3 DEF TableTurns
<1> HIDE DEF T, r
<1>5. h \in Tables
  BY DEF Fine
<1>6. r \in Tables /\ Reaches(h, r, up, {})
  BY <1>2, <1>3, <1>4, <1>5, FiniteAccess, TurnsAreReached
<1>7. Fine(r, up, S, K, Z, X, B)
  BY <1>6, NothingIsFair, ReachFine
<1>8. \A m \in Nodes, w \in Users : Own(r, m, w) = Own(h, m, w)
  BY <1>5, <1>6, ReachOwn
<1> QED  BY <1>7, <1>8 DEF r

LEMMA CopyIsFine ==
    ASSUME NEW up, Tree(up), NEW S, NEW K, NEW Z, AllUpClosed(up, S, K, Z), NEW X, NEW B \in SUBSET Users,
           NEW h, Fine(h, up, S, K, Z, X, B), NEW n \in Nodes, NEW g \in Nodes, g \notin Z,
           \A x \in Folders : up[x] # g, g \in K => n \in K, NEW order \in Orders(Users)
    PROVE  LET r == CopyUnified(h, up, n, g, "own", order)
           IN  Fine(r, up, S, K, Z, X, B) /\ Elsewhere(h, r, g)
<1> DEFINE r == CopyUnified(h, up, n, g, "own", order)
           ch == Copying(h, n, g)
<1>1. h \in Tables
  BY DEF Fine
<1>2. r \in Tables /\ Reaches(h, r, up, ch)
  BY <1>1, CopyIsReached
<1>3. ASSUME NEW m \in Nodes, NEW w \in Users, NEW P \in SUBSET Bits, NEW Q \in SUBSET Bits, <<m, w, P, Q>> \in ch
      PROVE  m = g /\ P = {} /\ Q = Unified(h, n, w)
  BY <1>3 DEF Copying
<1> HIDE DEF r, ch
<1>4. ASSUME NEW w \in Users, w \notin X  PROVE Unified(h, n, w) \in Plain
  BY <1>4, PlainIs DEF Fine, PlainFor, Unified
<1>5. ASSUME NEW w \in B, g \in K  PROVE Unified(h, n, w) = {}
  BY <1>5 DEF Fine, Barred, Unified
<1>6. Fair(ch, K, Z, X, B)
  BY <1>3, <1>4, <1>5 DEF Fair
<1>7. Fine(r, up, S, K, Z, X, B)
  BY <1>2, <1>6, ReachFine
<1>8. Elsewhere(h, r, g)
  BY <1>1, <1>2, <1>3, ReachElsewhere
<1> QED  BY <1>7, <1>8 DEF r

LEMMA CopyKeeps ==
    ASSUME AccessInv, NEW f \in Folders, NEW g \in Folders, NEW p \in Nodes, NEW u \in Users,
           NEW withMembers \in BOOLEAN, Copy(f, g, p, u, withMembers)
    PROVE  AccessInv' /\ OwnerStep
<1> DEFINE B == Outsiders'
           S2 == SettledOnes'
           K2 == KnownOnes'
           Z2 == Absent'
           T == There'
           up == parent'
           X == excused'
           rows == OwnRows(held, f)
           b1 == {"OWNER"}
           h1(order) == GrantAgain(held, up, g, rows, order)
           h2(order) == IF withMembers THEN Restored(h1(order), up, g, p, order) ELSE held
           h3(order) == CopyUnified(h2(order), up, f, g, "own", order)
           h4(order) == Grant(h3(order), up, g, u, b1)
           h5(order) == Grant(h4(order), up, g, u, RUD)
<1>1. /\ Call /\ g \in Absent /\ p \in There /\ parent[f] # None
      /\ owner' = [owner EXCEPT ![g] = u] /\ excused' = excused \cup {u} /\ view' = [view EXCEPT ![g] = view[f]]
      /\ team' = team /\ invited' = [invited EXCEPT ![g] = invited[f]] /\ parent' = [parent EXCEPT ![g] = p]
      /\ strayed' = strayed /\ foreign' = IF Known(f) THEN foreign ELSE foreign \cup {g}
  BY DEF Copy, Absent
<1>2. /\ Tree(parent) /\ held \in Tables /\ Typed /\ There \subseteq Nodes
      /\ AllUpClosed(parent, SettledOnes, KnownOnes, Absent) /\ Outsiders \in SUBSET Users
  BY StateFacts DEF AccessInv
<1>3. g \in Nodes /\ g # Space /\ f \in Nodes /\ f # g
  BY <1>1, NodeFacts DEF Absent
<1>4. Hung(g, p)
  BY <1>1 DEF Hung
<1>5. /\ Tree(up) /\ AllUpClosed(up, S2, K2, Z2)
      /\ up \in [Folders -> Nodes \cup {None, Nowhere}]
      /\ T = There \cup {g} /\ Z2 = Absent \ {g}
      /\ S2 \subseteq SettledOnes \cup {g} /\ K2 \subseteq KnownOnes \cup {g}
      /\ \A x \in Folders : x # g => Above(up, x) = Above(parent, x)
      /\ \A x \in KnownOnes' : parent'[x] # None => InSpace(x)'
      /\ strayed' \cup foreign' \subseteq There' \ {Space}
      /\ \A x \in Folders : parent'[x] = None => (\A y \in Folders : parent'[y] # x) /\ invited'[x] = None
      /\ \A x \in Folders : up[x] # g
      /\ invited' \in [Nodes -> Roles \cup {None}]
  <2>1. invited' \in [Nodes -> Roles \cup {None}] /\ \A x \in Nodes \ {g} : invited'[x] = invited[x]
    BY <1>1, <1>2, <1>3 DEF Typed
  <2> QED  BY <1>1, <1>4, <2>1, HungTree
<1>6. g \in K2 => f \in K2 /\ f \in KnownOnes
  <2>1. SUFFICES ASSUME g \in K2  PROVE f \in K2 /\ f \in KnownOnes
    OBVIOUS
  <2>2. K2 = Clear(up, strayed \cup foreign' \cup Hidden) /\ KnownOnes = Clear(parent, strayed \cup foreign \cup Hidden)
    BY <1>1, ClearOnes
  <2>3. g \notin foreign'
    BY <2>1, <2>2 DEF Clear
  <2>4. Known(f) /\ foreign' = foreign
    BY <1>1, <2>3
  <2>5. f \in KnownOnes
    BY <2>4 DEF KnownOnes
  <2> QED  BY <1>3, <1>5, <2>2, <2>4, <2>5 DEF Clear
<1>7. PICK order \in Orders(Users) : held' = h5(order)
  BY DEF Copy, Each, Restored
<1>8. B = {w \in Users \ X : Own(held', Space, w) = {}}
  BY DEF Outsiders
<1>9. b1 \in SUBSET Bits /\ RUD \in SUBSET Bits /\ "OWNER" \in b1
  BY MemberBitsAre
<1>10. rows \in [Users -> SUBSET Bits] /\ \A w \in Users : rows[w] = Own(held, f, w)
  BY <1>2, <1>3, RowsAre DEF OwnRows
<1> HIDE DEF B, S2, K2, Z2, T, up, X, rows, b1
<1>11. AllUpClosed(up, S2, K2, Z2) /\ Tree(up) /\ g \notin Z2 /\ u \in X /\ X = excused \cup {u}
  BY <1>1, <1>5 DEF X

(* For now, of the users that were outside: the rows of the space stay. *)
<1> DEFINE O == Outsiders \ {u}
<1>12. O \in SUBSET Users /\ u \notin O /\ O \subseteq Outsiders
  BY <1>2
<1> HIDE DEF O
<1>13. Fine(held, up, S2, K2, Z2, X, O)
  <2>1. Fine(held, parent, SettledOnes, KnownOnes, Absent, excused, Outsiders)
    BY DEF AccessInv, RowsInv
  <2>2. Rowless(held, g)
    BY <1>1, <2>1 DEF Fine, Barred, Rowless
  <2>3. S2 \subseteq Folders
    BY <1>5 DEF AllUpClosed, UpClosed
  <2> QED  BY <1>2, <1>5, <1>11, <1>12, <2>1, <2>2, <2>3, FineMoved
<1>14. Fine(h1(order), up, S2, K2, Z2, X, O) /\ Elsewhere(held, h1(order), g)
  <2>1. \A w \in Users \ X : rows[w] \in Plain
    BY <1>3, <1>10, <1>13 DEF Fine, PlainFor
  <2>2. g \in K2 => \A w \in O : rows[w] = {}
    BY <1>6, <1>10, <1>12, <1>13 DEF Fine, Barred
  <2>3. g \in Nodes /\ rows \in [Users -> SUBSET Bits]
    BY <1>3, <1>10
  <2> DEFINE r == GrantAgain(held, up, g, rows, order)
  <2>4. /\ Fine(r, up, S2, K2, Z2, X, O) /\ Elsewhere(held, r, g)
        /\ \A w \in Users : "OWNER" \in rows[w] => "OWNER" \in Own(r, g, w)
    <3>1. /\ Tree(up) /\ AllUpClosed(up, S2, K2, Z2) /\ O \in SUBSET Users
          /\ g \in Nodes /\ g \notin Z2 /\ rows \in [Users -> SUBSET Bits]
          /\ Fine(held, up, S2, K2, Z2, X, O)
      BY <1>5, <1>11, <1>12, <1>13, <2>3
    <3>2. order \in Orders(Users)
      OBVIOUS
    <3> QED  BY <2>1, <2>2, <3>1, <3>2, GrantAgainIsFine, SMTT(60)
  <2> QED  BY <2>4
<1> HIDE DEF h1
<1>15. Fine(h2(order), up, S2, K2, Z2, X, O) /\ Elsewhere(held, h2(order), g)
  <2> DEFINE r == Restored(h1(order), up, g, p, order)
  <2>1. Fine(r, up, S2, K2, Z2, X, O) /\ \A m \in Nodes, w \in Users : Own(r, m, w) = Own(h1(order), m, w)
    BY <1>3, <1>11, <1>12, <1>14, RestoredIsFine
  <2> HIDE DEF r
  <2>2. Elsewhere(held, r, g) /\ Elsewhere(held, held, g)
    BY <1>14, <2>1 DEF Elsewhere
  <2>3. h2(order) = IF withMembers THEN r ELSE held
    BY DEF r
  <2> QED  BY <1>13, <2>1, <2>2, <2>3
<1> HIDE DEF h2
<1>16. Fine(h3(order), up, S2, K2, Z2, X, O) /\ Elsewhere(h2(order), h3(order), g)
  BY <1>3, <1>5, <1>6, <1>11, <1>12, <1>15, CopyIsFine
<1> HIDE DEF h3
<1>17. Fine(h4(order), up, S2, K2, Z2, X, O) /\ Elsewhere(h3(order), h4(order), g) /\ "OWNER" \in Own(h4(order), g, u)
  BY <1>3, <1>9, <1>11, <1>12, <1>16, GiveIsFine
<1> HIDE DEF h4
<1>18. Fine(h5(order), up, S2, K2, Z2, X, O) /\ Elsewhere(h4(order), h5(order), g) /\ "OWNER" \in Own(h5(order), g, u)
  BY <1>3, <1>9, <1>11, <1>12, <1>17, GiveIsFine
<1> HIDE DEF h5
<1>19. Elsewhere(held, held', g)
  BY <1>7, <1>15, <1>16, <1>17, <1>18 DEF Elsewhere
<1>20. B \subseteq O /\ B \subseteq Users
  BY <1>3, <1>8, <1>11, <1>19, NodeFacts DEF Outsiders, Elsewhere, O
<1>21. Fine(held', up, S2, K2, Z2, X, B)
  BY <1>7, <1>18, <1>20, FineOfLess
<1>22. \A n \in T :
          \/ "OWNER" \in Own(held', n, owner'[n])
          \/ n \in There /\ owner'[n] = owner[n] /\ \E o \in Owners(held, n) : "OWNER" \in Own(held', n, o)
  <2>1. ASSUME NEW n \in There, n # g
        PROVE  owner'[n] = owner[n] /\ \E o \in Owners(held, n) : "OWNER" \in Own(held', n, o)
    BY <1>1, <1>2, <1>19, <2>1, OwnersElsewhere DEF Typed
  <2>2. "OWNER" \in Own(held', g, owner'[g])
    BY <1>1, <1>2, <1>3, <1>7, <1>18 DEF Typed
  <2> QED  BY <1>5, <2>1, <2>2
<1>23. /\ owner' \in [Nodes -> Users] /\ view' \in [Nodes -> Views] /\ team' \subseteq Users
       /\ excused' \subseteq Users
       /\ \A n \in Nodes : owner'[n] \in excused'
  BY <1>1, <1>2, <1>3 DEF Typed, AccessInv, PlacesInv
<1>24. ASSUME NEW x \in K2, invited'[x] # None  PROVE invited'[Space] # None
  <2>1. \A y \in KnownOnes : invited[y] # None => invited[Space] # None
    BY DEF AccessInv, PlacesInv
  <2>2. invited'[g] = invited[f] /\ \A y \in Nodes \ {g} : invited'[y] = invited[y]
    BY <1>1, <1>2, <1>3 DEF Typed
  <2>3. CASE x = g
    BY <1>3, <1>6, <1>24, <2>1, <2>2, <2>3, NodeFacts
  <2>4. CASE x # g
    BY <1>3, <1>5, <1>24, <2>1, <2>2, <2>4, NodeFacts DEF KnownOnes
  <2> QED  BY <2>3, <2>4
<1>25. T \subseteq Nodes
  BY <1>2, <1>3, <1>5
<1>26. \A x \in K2 : invited'[x] # None => invited'[Space] # None
  BY <1>24
<1>27. Call
  BY <1>1
<1> QED  BY <1>5, <1>21, <1>22, <1>23, <1>25, <1>26, <1>27, TreeKeeps DEF B, S2, K2, Z2, T, up, X

(* A folder there hangs elsewhere: what was below it has strayed. *)
LEMMA MoveTree ==
    ASSUME AccessInv, NEW f \in Folders, NEW p \in Nodes, Move(f, p)
    PROVE  /\ Tree(parent') /\ AllUpClosed(parent', SettledOnes', KnownOnes', Absent')
           /\ parent' \in [Folders -> Nodes \cup {None, Nowhere}]
           /\ There' = There /\ Absent' = Absent
           /\ SettledOnes' \subseteq SettledOnes \cup {f} /\ KnownOnes' \subseteq KnownOnes
           /\ \A x \in SettledOnes' \cup KnownOnes' :
                 x # f => Above(parent', x) = Above(parent, x) /\ f \notin Above(parent, x)
           /\ \A x \in KnownOnes' : parent'[x] # None => InSpace(x)'
           /\ strayed' \cup foreign' \subseteq There' \ {Space}
           /\ \A x \in Folders : parent'[x] = None => (\A g \in Folders : parent'[g] # x) /\ invited'[x] = None
<1> DEFINE up == parent'
<1>1. /\ Tree(parent) /\ Typed /\ There \subseteq Nodes
      /\ AllUpClosed(parent, SettledOnes, KnownOnes, Absent)
  BY StateFacts DEF AccessInv
<1>2. /\ parent[f] # None /\ p \in There /\ p \notin Below(parent, f) /\ p # f
      /\ strayed' = strayed \cup Below(parent, f)
      /\ foreign' = (IF Known(f) THEN foreign ELSE foreign \cup {f}) /\ invited' = invited
      /\ parent' = [parent EXCEPT ![f] = p]
  BY DEF Move
<1>3. p \in ParentPlaces /\ up = Rehung(parent, f, p)
  BY <1>2 DEF ParentPlaces, Rehung
<1>4. /\ up \in [Folders -> Nodes \cup {None, Nowhere}]
      /\ up[f] = p /\ \A x \in Folders : x # f => up[x] = parent[x]
  BY <1>1, <1>2 DEF Typed
<1> HIDE DEF up
<1>5. RehungTree(parent, up, f, p)
  BY <1>1, <1>2, <1>3, MovedTree
<1>6. /\ Tree(up)
      /\ \A x \in Folders : x # f /\ x \notin Below(parent, f) => Above(up, x) = Above(parent, x)
      /\ Above(up, f) = IF p \in Folders THEN {p} \cup Above(parent, p) ELSE {}
  BY <1>5 DEF RehungTree
<1>7. p # None /\ f # Space /\ Space # None
  BY <1>2, NodeFacts
<1>8. There' = There /\ Absent' = Absent
  BY <1>2, <1>4, <1>7 DEF There, Absent, up
<1>9. SettledOnes' = Clear(up, strayed') /\ KnownOnes' = Clear(up, strayed' \cup foreign' \cup Hidden)
  BY ClearOnes DEF up
<1>10. \A x \in SettledOnes' \cup KnownOnes' : x \in Folders /\ x \notin Below(parent, f)
  BY <1>2, <1>9 DEF Clear
<1>11. SettledOnes' \subseteq SettledOnes \cup {f}
  BY <1>2, <1>6, <1>9, <1>10, ClearOnes DEF Clear
<1>12. ASSUME NEW x \in KnownOnes'  PROVE x \in KnownOnes
  <2>1. CASE x # f
    BY <1>2, <1>6, <1>9, <1>10, <2>1, ClearOnes DEF Clear
  <2>2. CASE x = f
    BY <1>2, <1>9, <2>2 DEF Clear, KnownOnes
  <2> QED  BY <2>1, <2>2
<1>13. \A x \in SettledOnes' \cup KnownOnes' :
          x # f => Above(up, x) = Above(parent, x) /\ f \notin Above(parent, x)
  BY <1>6, <1>10 DEF Below
<1>14. UpClosed(up, SettledOnes') /\ UpClosed(up, KnownOnes')
  BY <1>6, <1>9, ClearIsClosed
<1>15. UpClosed(up, Absent')
  <2>1. \A x \in Absent' : x \in Folders /\ up[x] = None
    BY <1>2, <1>4, <1>8 DEF Absent
  <2> QED  BY <2>1, NodesAssumption DEF UpClosed
<1>16. ASSUME NEW x \in KnownOnes', up[x] # None  PROVE \E g \in {x} \cup Above(up, x) : up[g] = Space
  <2>1. ASSUME NEW y \in KnownOnes', y # f, parent[y] # None
        PROVE  \E g \in {y} \cup Above(parent, y) : up[g] = Space
    <3>1. y \in KnownOnes /\ y \in Folders
      BY <1>10, <1>12
    <3>2. PICK g \in {y} \cup Above(parent, y) : parent[g] = Space
      BY <2>1, <3>1 DEF AccessInv, PlacesInv, InSpace
    <3>3. g \in Folders /\ g # f
      BY <1>1, <1>13, <2>1, <3>1, <3>2, AboveIs
    <3> QED  BY <1>4, <3>2, <3>3
  <2>2. CASE x # f
    <3>1. parent[x] # None
      BY <1>4, <1>10, <1>16, <2>2
    <3> QED  BY <1>13, <2>1, <2>2, <3>1
  <2>3. CASE x = f /\ p \in Folders
    <3>1. p \in KnownOnes'
      BY <1>4, <1>14, <2>3 DEF UpClosed
    <3>2. parent[p] # None
      BY <1>2, <2>3, NodeFacts DEF There
    <3> QED  BY <1>2, <1>6, <2>1, <2>3, <3>1, <3>2
  <2>4. CASE x = f /\ p = Space
    BY <1>4, <2>4
  <2> QED  BY <2>2, <2>3, <2>4, NodeFacts
<1>17. Below(parent, f) \cup {f} \subseteq There \ {Space}
  <2>1. ASSUME NEW x \in Below(parent, f)  PROVE x \in There \ {Space}
    <3>1. x \in Folders /\ Above(parent, x) # {}
      BY DEF Below
    <3>2. parent[x] # None
      BY <1>1, <3>1, AboveIs, NodeFacts
    <3> QED  BY <3>1, <3>2, NodeFacts DEF There
  <2> QED  BY <1>2, <1>7, <2>1 DEF There
<1>18. strayed' \cup foreign' \subseteq There' \ {Space}
  BY <1>1, <1>2, <1>8, <1>17 DEF Typed
<1>19. ASSUME NEW x \in Folders, up[x] = None
       PROVE  (\A g \in Folders : up[g] # x) /\ invited'[x] = None
  <2>1. x # f /\ parent[x] = None
    BY <1>4, <1>7, <1>19
  <2>2. p # x
    BY <1>2, <2>1, NodeFacts DEF There
  <2> QED  BY <1>1, <1>2, <1>4, <2>1, <2>2 DEF Typed
<1>20. \A x \in KnownOnes' : parent'[x] # None => InSpace(x)'
  BY <1>16 DEF InSpace, up
<1> QED  BY <1>4, <1>6, <1>8, <1>11, <1>12, <1>13, <1>14, <1>15, <1>18, <1>19, <1>20 DEF up, AllUpClosed

LEMMA MoveKeeps ==
    ASSUME AccessInv, NEW f \in Folders, NEW p \in Nodes, Move(f, p)
    PROVE  AccessInv' /\ OwnerStep
<1> DEFINE B == Outsiders'
           O == Outsiders
           S2 == SettledOnes'
           K2 == KnownOnes'
           Z2 == Absent'
           T == There'
           up == parent'
           X == excused
           rows == OwnRows(held, f)
           h0 == Without(held, f)
           h1(order) == GrantAgain(h0, up, f, rows, order)
           h2(order) == InsertParentsMembers(h1(order), up, f, order)
<1>1. /\ Call /\ parent[f] # None
      /\ owner' = owner /\ excused' = excused /\ view' = view /\ team' = team /\ invited' = invited
  BY DEF Move
<1>2. /\ Tree(parent) /\ held \in Tables /\ Typed /\ There \subseteq Nodes
      /\ AllUpClosed(parent, SettledOnes, KnownOnes, Absent) /\ O \in SUBSET Users
  BY StateFacts DEF AccessInv
<1>3. f \in Nodes /\ f # Space /\ f \in There
  BY <1>1, NodeFacts DEF There
<1>4. /\ Tree(up) /\ AllUpClosed(up, S2, K2, Z2)
      /\ up \in [Folders -> Nodes \cup {None, Nowhere}]
      /\ T = There /\ Z2 = Absent
      /\ S2 \subseteq SettledOnes \cup {f} /\ K2 \subseteq KnownOnes
      /\ \A x \in S2 \cup K2 : x # f => Above(up, x) = Above(parent, x) /\ f \notin Above(parent, x)
      /\ \A x \in KnownOnes' : parent'[x] # None => InSpace(x)'
      /\ strayed' \cup foreign' \subseteq There' \ {Space}
      /\ \A x \in Folders : parent'[x] = None => (\A g \in Folders : parent'[g] # x) /\ invited'[x] = None
  BY MoveTree
<1>5. PICK order \in Orders(Users) : held' = h2(order)
  BY DEF Move, Placed
<1>6. B = {w \in Users \ excused' : Own(held', Space, w) = {}} /\ O = {w \in Users \ excused : Own(held, Space, w) = {}}
  BY DEF Outsiders
<1>7. rows \in [Users -> SUBSET Bits] /\ \A w \in Users : rows[w] = Own(held, f, w)
  BY <1>2, <1>3, RowsAre DEF OwnRows
<1>8. Fine(held, parent, SettledOnes, KnownOnes, Absent, X, O)
  BY DEF AccessInv, RowsInv
<1>9. f \notin Z2
  BY <1>1, <1>4 DEF Absent
<1> HIDE DEF B, O, S2, K2, Z2, T, up, X, rows
<1>10. S2 \subseteq Folders /\ K2 \subseteq Folders
  BY <1>4 DEF AllUpClosed, UpClosed
<1>11. Fine(h0, up, S2, K2, Z2, X, O) /\ h0 \in Tables /\ Elsewhere(held, h0, f)
  <2> DEFINE S1 == {x \in SettledOnes : f \notin Above(parent, x)}
  <2>1. S1 \subseteq SettledOnes /\ S1 \subseteq Folders /\ (\A x \in S1 : f \notin Above(parent, x)) /\ S2 \subseteq S1 \cup {f}
    BY <1>4 DEF SettledOnes
  <2> HIDE DEF S1
  <2>2. Fine(held, parent, S1, KnownOnes, Absent, X, O)
    BY <1>8, <2>1, FineOfLess
  <2>3. Fine(h0, parent, S1, KnownOnes, Absent, X, O)
    BY <1>2, <2>1, <2>2, WithoutFine DEF AllUpClosed, UpClosed
  <2>4. /\ h0 \in Tables
        /\ \A m \in Nodes, w \in Users :
              /\ Own(h0, m, w) = IF m = f THEN {} ELSE Own(held, m, w)
              /\ Inherited(h0, m, w) = IF m = f THEN {} ELSE Inherited(held, m, w)
    BY <1>2, WithoutIs
  <2>5. Rowless(h0, f) /\ Elsewhere(held, h0, f)
    BY <1>3, <2>4 DEF Rowless, Elsewhere
  <2> HIDE DEF h0
  <2>6. O \subseteq Users /\ K2 \subseteq KnownOnes \cup {f} /\ Z2 \subseteq Absent \cup {f}
        /\ \A x \in S2 : x # f => Above(up, x) = Above(parent, x)
    BY <1>2, <1>4
  <2>7. Fine(h0, up, S2, K2, Z2, X, O)
    BY <2>1, <2>3, <2>5, <2>6, FineMoved
  <2> QED  BY <2>4, <2>5, <2>7
<1> HIDE DEF h0
<1>12. /\ Fine(h1(order), up, S2, K2, Z2, X, O) /\ Elsewhere(h0, h1(order), f)
       /\ \A w \in Users : "OWNER" \in rows[w] => "OWNER" \in Own(h1(order), f, w)
  <2>1. \A w \in Users \ X : rows[w] \in Plain
    BY <1>3, <1>7, <1>8 DEF Fine, PlainFor
  <2>2. f \in K2 => \A w \in O : rows[w] = {}
    BY <1>2, <1>4, <1>7, <1>8 DEF Fine, Barred
  <2> DEFINE r == GrantAgain(h0, up, f, rows, order)
  <2>3. /\ Fine(r, up, S2, K2, Z2, X, O) /\ Elsewhere(h0, r, f)
        /\ \A w \in Users : "OWNER" \in rows[w] => "OWNER" \in Own(r, f, w)
    <3>1. /\ Tree(up) /\ AllUpClosed(up, S2, K2, Z2) /\ O \in SUBSET Users
          /\ f \in Nodes /\ f \notin Z2 /\ rows \in [Users -> SUBSET Bits]
          /\ Fine(h0, up, S2, K2, Z2, X, O)
      BY <1>2, <1>3, <1>4, <1>7, <1>9, <1>11
    <3>2. order \in Orders(Users)
      OBVIOUS
    <3> QED  BY <2>1, <2>2, <3>1, <3>2, GrantAgainIsFine, SMTT(60)
  <2> QED  BY <2>3
<1> HIDE DEF h1
<1>13. Fine(h2(order), up, S2, K2, Z2, X, O) /\ \A m \in Nodes, w \in Users : Own(h2(order), m, w) = Own(h1(order), m, w)
  <2> DEFINE r == InsertParentsMembers(h1(order), up, f, order)
  <2>1. Fine(r, up, S2, K2, Z2, X, O) /\ \A m \in Nodes, w \in Users : Own(r, m, w) = Own(h1(order), m, w)
    <3>1. Tree(up) /\ AllUpClosed(up, S2, K2, Z2) /\ O \in SUBSET Users /\ f \in Nodes
      BY <1>2, <1>3, <1>4
    <3> QED  BY <1>12, <3>1, InsertIsFine
  <2> QED  BY <2>1
<1> HIDE DEF h2
<1>14. Elsewhere(held, held', f) /\ \A w \in Users : "OWNER" \in Own(held, f, w) => "OWNER" \in Own(held', f, w)
  BY <1>3, <1>5, <1>7, <1>11, <1>12, <1>13 DEF Elsewhere
<1>15. B = O
  BY <1>1, <1>3, <1>6, <1>14, NodeFacts DEF Elsewhere
<1>16. Fine(held', up, S2, K2, Z2, excused', B)
  BY <1>1, <1>5, <1>13, <1>15 DEF X
<1>17. ASSUME NEW n \in T
       PROVE  n \in There /\ owner'[n] = owner[n] /\ \E o \in Owners(held, n) : "OWNER" \in Own(held', n, o)
  <2>1. CASE n # f
    BY <1>1, <1>4, <1>14, <1>17, <2>1, OwnersElsewhere
  <2>2. CASE n = f
    <3>1. PICK o \in Users : "OWNER" \in Own(held, f, o)
      BY <1>3 DEF AccessInv, OwnedInv
    <3>2. o \in Owners(held, f)
      BY <3>1 DEF Owners, Unified
    <3> QED  BY <1>1, <1>3, <1>14, <2>2, <3>1, <3>2
  <2> QED  BY <2>1, <2>2
<1>18. /\ owner' \in [Nodes -> Users] /\ view' \in [Nodes -> Views] /\ team' \subseteq Users
       /\ invited' \in [Nodes -> Roles \cup {None}] /\ excused' \subseteq Users
       /\ \A n \in Nodes : owner'[n] \in excused'
  BY <1>1, <1>2 DEF Typed, AccessInv, PlacesInv
<1>19. \A x \in K2 : invited'[x] # None => invited'[Space] # None
  BY <1>1, <1>4 DEF AccessInv, PlacesInv
<1>20. T \subseteq Nodes /\ Call
  BY <1>1, <1>2, <1>4
<1>21. \A n \in T :
          \/ "OWNER" \in Own(held', n, owner'[n])
          \/ n \in There /\ owner'[n] = owner[n] /\ \E o \in Owners(held, n) : "OWNER" \in Own(held', n, o)
  BY <1>17
<1> QED  BY <1>4, <1>16, <1>18, <1>19, <1>20, <1>21, TreeKeeps DEF B, S2, K2, Z2, T, up

(* A folder deleted for good: what was below it has strayed. *)
LEMMA RemoveTree ==
    ASSUME AccessInv, NEW f \in Folders, RemoveFolder(f)
    PROVE  /\ Tree(parent') /\ AllUpClosed(parent', SettledOnes', KnownOnes', Absent')
           /\ parent' \in [Folders -> Nodes \cup {None, Nowhere}]
           /\ There' = There \ {f} /\ Absent' = Absent \cup {f}
           /\ SettledOnes' \subseteq SettledOnes \cup {f} /\ KnownOnes' \subseteq KnownOnes \cup {f}
           /\ \A x \in SettledOnes' \cup KnownOnes' :
                 x # f => Above(parent', x) = Above(parent, x) /\ f \notin Above(parent, x)
           /\ \A x \in KnownOnes' : parent'[x] # None => InSpace(x)'
           /\ strayed' \cup foreign' \subseteq There' \ {Space}
           /\ \A x \in Folders : parent'[x] = None => (\A g \in Folders : parent'[g] # x) /\ invited'[x] = None
<1> DEFINE up == parent'
<1>1. /\ Tree(parent) /\ Typed /\ There \subseteq Nodes
      /\ AllUpClosed(parent, SettledOnes, KnownOnes, Absent)
  BY StateFacts DEF AccessInv
<1>2. /\ parent[f] # None /\ invited[f] = None
      /\ strayed' = (strayed \cup Below(parent, f)) \ {f} /\ foreign' = foreign \ {f} /\ invited' = invited
      /\ up = Unhung(parent, f)
  BY DEF RemoveFolder, Unhung
<1>3. f \in Nodes /\ f # Space /\ f # None /\ Space # None /\ Nowhere # None /\ None \notin Folders /\ Nowhere \notin Folders
  BY NodesAssumption, NodeFacts
<1>4. /\ up \in [Folders -> Nodes \cup {None, Nowhere}]
      /\ \A x \in Folders : up[x] = IF x = f THEN None ELSE IF parent[x] = f THEN Nowhere ELSE parent[x]
  BY <1>1, <1>2 DEF Typed, Unhung
<1> HIDE DEF up
<1>5. UnhungTree(parent, up, f)
  BY <1>1, <1>2, RemovedTree
<1>6. /\ Tree(up)
      /\ \A x \in Folders : x # f /\ x \notin Below(parent, f) => Above(up, x) = Above(parent, x)
      /\ Above(up, f) = {}
  BY <1>5 DEF UnhungTree
<1>7. There' = There \ {f} /\ Absent' = Absent \cup {f}
  BY <1>3, <1>4 DEF There, Absent, up
<1>8. SettledOnes' = Clear(up, strayed') /\ KnownOnes' = Clear(up, strayed' \cup foreign' \cup Hidden)
  BY ClearOnes DEF up
<1>9. \A x \in SettledOnes' \cup KnownOnes' : x \in Folders /\ (x # f => x \notin Below(parent, f))
  BY <1>2, <1>8 DEF Clear
<1>10. \A x \in SettledOnes' \cup KnownOnes' :
          x # f => Above(up, x) = Above(parent, x) /\ f \notin Above(parent, x)
  BY <1>6, <1>9 DEF Below
<1>11. SettledOnes' \subseteq SettledOnes \cup {f}
  BY <1>2, <1>8, <1>9, <1>10, ClearOnes DEF Clear
<1>12. KnownOnes' \subseteq KnownOnes \cup {f}
  BY <1>2, <1>8, <1>9, <1>10, ClearOnes DEF Clear
<1>13. UpClosed(up, SettledOnes') /\ UpClosed(up, KnownOnes')
  BY <1>6, <1>8, ClearIsClosed
<1>14. UpClosed(up, Absent')
  <2>1. \A x \in Absent' : x \in Folders /\ up[x] = None
    BY <1>3, <1>4, <1>7 DEF Absent
  <2> QED  BY <1>3, <2>1 DEF UpClosed
<1>15. ASSUME NEW x \in KnownOnes', up[x] # None  PROVE \E g \in {x} \cup Above(up, x) : up[g] = Space
  <2>1. x # f /\ x \in KnownOnes /\ x \in Folders /\ parent[x] # None
    BY <1>3, <1>4, <1>9, <1>12, <1>15
  <2>2. PICK g \in {x} \cup Above(parent, x) : parent[g] = Space
    BY <2>1 DEF AccessInv, PlacesInv, InSpace
  <2>3. g \in Folders /\ g # f
    BY <1>1, <1>10, <2>1, <2>2, AboveIs
  <2> QED  BY <1>3, <1>4, <1>10, <2>1, <2>2, <2>3
<1>16. Below(parent, f) \subseteq There \ {Space}
  <2>1. ASSUME NEW x \in Below(parent, f)  PROVE x \in There \ {Space}
    <3>1. x \in Folders /\ Above(parent, x) # {}
      BY DEF Below
    <3>2. parent[x] # None
      BY <1>1, <3>1, AboveIs, NodeFacts
    <3> QED  BY <3>1, <3>2, NodeFacts DEF There
  <2> QED  BY <2>1
<1>17. strayed' \cup foreign' \subseteq There' \ {Space}
  BY <1>1, <1>2, <1>7, <1>16 DEF Typed
<1>18. ASSUME NEW x \in Folders, up[x] = None
       PROVE  (\A g \in Folders : up[g] # x) /\ invited'[x] = None
  <2>1. CASE x = f
    BY <1>2, <1>3, <1>4, <2>1
  <2>2. CASE x # f
    <3>1. parent[x] = None
      BY <1>3, <1>4, <1>18, <2>2
    <3> QED  BY <1>1, <1>2, <1>3, <1>4, <3>1 DEF Typed
  <2> QED  BY <2>1, <2>2
<1>19. \A x \in KnownOnes' : parent'[x] # None => InSpace(x)'
  BY <1>15 DEF InSpace, up
<1> QED  BY <1>4, <1>6, <1>7, <1>10, <1>11, <1>12, <1>13, <1>14, <1>17, <1>18, <1>19 DEF up, AllUpClosed

LEMMA RemoveFolderKeeps ==
    ASSUME AccessInv, NEW f \in Folders, RemoveFolder(f)
    PROVE  AccessInv' /\ OwnerStep
<1> DEFINE B == Outsiders'
           O == Outsiders
           S2 == SettledOnes'
           K2 == KnownOnes'
           Z2 == Absent'
           T == There'
           up == parent'
           X == excused'
           S1 == {x \in SettledOnes : f \notin Above(parent, x)}
<1>1. /\ Call /\ held' = Without(held, f) /\ invited[f] = None
      /\ owner' = [owner EXCEPT ![f] = owner[Space]] /\ excused' = excused /\ view' = [view EXCEPT ![f] = "PUBLIC"]
      /\ team' = team /\ invited' = invited
  BY DEF RemoveFolder
<1>2. /\ Tree(parent) /\ held \in Tables /\ Typed /\ There \subseteq Nodes
      /\ AllUpClosed(parent, SettledOnes, KnownOnes, Absent) /\ O \in SUBSET Users
  BY StateFacts DEF AccessInv
<1>3. f \in Nodes /\ f # Space
  BY NodeFacts
<1>4. /\ Tree(up) /\ AllUpClosed(up, S2, K2, Z2)
      /\ up \in [Folders -> Nodes \cup {None, Nowhere}]
      /\ T = There \ {f} /\ Z2 = Absent \cup {f}
      /\ S2 \subseteq SettledOnes \cup {f} /\ K2 \subseteq KnownOnes \cup {f}
      /\ \A x \in S2 \cup K2 : x # f => Above(up, x) = Above(parent, x) /\ f \notin Above(parent, x)
      /\ \A x \in KnownOnes' : parent'[x] # None => InSpace(x)'
      /\ strayed' \cup foreign' \subseteq There' \ {Space}
      /\ \A x \in Folders : parent'[x] = None => (\A g \in Folders : parent'[g] # x) /\ invited'[x] = None
  BY RemoveTree
<1>5. B = {w \in Users \ excused' : Own(held', Space, w) = {}} /\ O = {w \in Users \ excused : Own(held, Space, w) = {}}
  BY DEF Outsiders
<1>6. Fine(held, parent, SettledOnes, KnownOnes, Absent, X, O)
  BY <1>1 DEF AccessInv, RowsInv
<1>7. S1 \subseteq SettledOnes /\ S1 \subseteq Folders /\ (\A x \in S1 : f \notin Above(parent, x)) /\ S2 \subseteq S1 \cup {f}
  BY <1>4 DEF SettledOnes
<1> HIDE DEF B, O, S1, S2, K2, Z2, T, up, X
<1>8. /\ held' \in Tables
      /\ \A m \in Nodes, w \in Users :
            /\ Own(held', m, w) = IF m = f THEN {} ELSE Own(held, m, w)
            /\ Inherited(held', m, w) = IF m = f THEN {} ELSE Inherited(held, m, w)
  BY <1>1, <1>2, WithoutIs
<1>9. Rowless(held', f) /\ Elsewhere(held, held', f)
  BY <1>3, <1>8 DEF Rowless, Elsewhere
<1>10. Fine(held', parent, S1, KnownOnes, Absent, X, O)
  <2>1. Fine(held, parent, S1, KnownOnes, Absent, X, O)
    BY <1>6, <1>7, FineOfLess
  <2> DEFINE r == Without(held, f)
  <2>2. Fine(r, parent, S1, KnownOnes, Absent, X, O)
    BY <1>2, <1>7, <2>1, WithoutFine DEF AllUpClosed, UpClosed
  <2> QED  BY <1>1, <2>2
<1>11. B = O
  BY <1>1, <1>3, <1>5, <1>9, NodeFacts DEF Elsewhere
<1>12. Fine(held', up, S2, K2, Z2, X, B)
  <2>1. O \subseteq Users /\ K2 \subseteq KnownOnes \cup {f} /\ Z2 \subseteq Absent \cup {f}
        /\ \A x \in S2 : x # f => Above(up, x) = Above(parent, x)
    BY <1>2, <1>4
  <2>2. Fine(held', up, S2, K2, Z2, X, O)
    BY <1>7, <1>9, <1>10, <2>1, FineMoved
  <2> QED  BY <1>11, <2>2
<1>13. \A n \in T :
          \/ "OWNER" \in Own(held', n, owner'[n])
          \/ n \in There /\ owner'[n] = owner[n] /\ \E o \in Owners(held, n) : "OWNER" \in Own(held', n, o)
  <2>1. ASSUME NEW n \in There, n # f
        PROVE  owner'[n] = owner[n] /\ \E o \in Owners(held, n) : "OWNER" \in Own(held', n, o)
    BY <1>1, <1>2, <1>9, <2>1, OwnersElsewhere DEF Typed
  <2> QED  BY <1>4, <2>1
<1>14. /\ owner' \in [Nodes -> Users] /\ view' \in [Nodes -> Views] /\ team' \subseteq Users
       /\ invited' \in [Nodes -> Roles \cup {None}] /\ excused' \subseteq Users
       /\ \A n \in Nodes : owner'[n] \in excused'
  BY <1>1, <1>2, NodeFacts DEF Typed, AccessInv, PlacesInv, Views
<1>15. \A x \in K2 : invited'[x] # None => invited'[Space] # None
  BY <1>1, <1>4 DEF AccessInv, PlacesInv
<1>16. T \subseteq Nodes /\ Call
  BY <1>1, <1>2, <1>4
<1> QED  BY <1>4, <1>12, <1>13, <1>14, <1>15, <1>16, TreeKeeps DEF B, S2, K2, Z2, T, up, X

-----------------------------------------------------------------------------

(* The initial states *)

CreatedFrom(h, up, f, u, v, member, order, r) == r = Created(h, up, f, u, v, member, order)

LEMMA CreatedIsFine ==
    ASSUME NEW up, Tree(up), NEW Z, UpClosed(up, Z), NEW X,
           NEW h, Fine(h, up, Folders, Folders, Z, X, {}), NEW f \in Nodes, f \notin Z, NEW u \in Users, u \in X,
           NEW v, NEW member \in SomeMember, NEW order \in Orders(Users),
           NEW r, CreatedFrom(h, up, f, u, v, member, order, r)
    PROVE  /\ Fine(r, up, Folders, Folders, Z, X, {}) /\ "OWNER" \in Own(r, f, u)
           /\ \A m \in Nodes, w \in Users : "OWNER" \in Own(h, m, w) => "OWNER" \in Own(r, m, w)
           /\ f = Space => \A w \in Users : member = NoOne /\ "READ" \in Own(h, f, w) => "READ" \in Own(r, f, w)
           /\ \A m \in Nodes, w \in Users : m # f => Own(r, m, w) = Own(h, m, w)
<1> DEFINE ch == Creating(f, u, member)
           c == Created(h, up, f, u, v, member, order)
<1>1. h \in Tables
  BY DEF Fine
<1>2. c \in Tables /\ Reaches(h, c, up, ch) /\ "OWNER" \in Own(c, f, u)
  BY <1>1, CreatedIsReached
<1>3. r = c
  BY DEF CreatedFrom
<1> HIDE DEF c
<1>4. \A m \in Nodes, w \in Users, P, Q \in SUBSET Bits : <<m, w, P, Q>> \in ch =>
         /\ m = f /\ "OWNER" \notin P
         /\ member = NoOne => P = {}
         /\ w # u => (P = {} \/ P = MemberBits) /\ Q \in Plain
  BY PlainIs, MemberBitsAre DEF Creating, Giving, Inserting
<1> HIDE DEF ch
<1>5. Fair(ch, Folders, Z, X, {})
  BY <1>4 DEF Fair
<1>6. AllUpClosed(up, Folders, Folders, Z)
  BY DEF AllUpClosed, UpClosed
<1>7. Fine(c, up, Folders, Folders, Z, X, {})
  <2>1. {} \in SUBSET Users
    OBVIOUS
  <2> QED  BY <1>2, <1>5, <1>6, <2>1, ReachFine
<1>8. ASSUME NEW m \in Nodes, NEW w \in Users, "OWNER" \in Own(h, m, w)  PROVE "OWNER" \in Own(c, m, w)
  BY <1>1, <1>2, <1>4, <1>8, ReachBit
<1>9. ASSUME NEW w \in Users, member = NoOne, "READ" \in Own(h, f, w)  PROVE "READ" \in Own(c, f, w)
  BY <1>1, <1>2, <1>4, <1>9, ReachBit
<1>10. ASSUME NEW m \in Nodes, NEW w \in Users, m # f  PROVE Own(c, m, w) = Own(h, m, w)
  BY <1>1, <1>2, <1>4, <1>10, ReachOwn
<1> QED  BY <1>2, <1>3, <1>7, <1>8, <1>9, <1>10

(* With no folder above another, nothing is inherited: the rows are fine in any tree. *)
LEMMA FlatFine ==
    ASSUME NEW up, \A x \in Folders : Above(up, x) = {}, NEW Z, NEW X, NEW h, Fine(h, up, Folders, Folders, Z, X, {}),
           NEW up2
    PROVE  Fine(h, up2, Folders, Folders, Z, X, {})
BY DEF Fine, BackedIn, GrantedAbove

LEMMA InitKeeps ==
    ASSUME Init
    PROVE  AccessInv
<1>1. PICK f \in Folders, g \in Folders, u \in [Nodes -> Users], v \in [Nodes -> Views], member \in SomeMember,
           asked \in BOOLEAN, order \in Orders(Users) :
        LET none == [x \in Folders |-> None]
            one == [none EXCEPT ![f] = Space]
            readers == [k \in Nodes \X Users \X Kinds |-> IF k[1] = Space /\ k[3] = "own" THEN {"READ"} ELSE {}]
            space == Created(readers, none, Space, u[Space], "PUBLIC", NoOne, order)
            outer == Created(space, one, f, u[f], v[f], member, order)
        IN  /\ f # g /\ (asked => member = NoOne /\ v[f] = "PUBLIC")
            /\ \A n \in Nodes \ {g} : u[n] = u[Space]
            /\ \A n \in Nodes \ {f, g} : v[n] = "PUBLIC"
            /\ parent = [one EXCEPT ![g] = f] /\ owner = u /\ view = v
            /\ excused = Range(u)
            /\ held = Created(outer, parent, g, u[g], v[g], NoOne, order)
            /\ strayed = {} /\ foreign = {} /\ team = {} /\ accessed = 0
            /\ invited = [n \in Nodes |-> IF asked /\ n \in {Space, g} THEN "FULL" ELSE None]
  BY DEF Init
<1> DEFINE none == [x \in Folders |-> None]
           one == [none EXCEPT ![f] = Space]
           readers == [k \in Nodes \X Users \X Kinds |-> IF k[1] = Space /\ k[3] = "own" THEN {"READ"} ELSE {}]
           space == Created(readers, none, Space, u[Space], "PUBLIC", NoOne, order)
           outer == Created(space, one, f, u[f], v[f], member, order)
           Z == Folders \ {f, g}
           X == Range(u)
<1>2. /\ f # g /\ parent = [one EXCEPT ![g] = f] /\ owner = u /\ view = v /\ excused = X
      /\ strayed = {} /\ foreign = {} /\ team = {} /\ accessed = 0
      /\ invited = [n \in Nodes |-> IF asked /\ n \in {Space, g} THEN "FULL" ELSE None]
  BY <1>1
<1>3. /\ CreatedFrom(readers, none, Space, u[Space], "PUBLIC", NoOne, order, space)
      /\ CreatedFrom(space, one, f, u[f], v[f], member, order, outer)
      /\ CreatedFrom(outer, parent, g, u[g], v[g], NoOne, order, held)
  BY <1>1 DEF CreatedFrom
<1>4. /\ f \in Nodes /\ g \in Nodes /\ Space \in Nodes /\ Space \notin Folders /\ None \notin Nodes
      /\ f # Space /\ g # Space /\ Space # None /\ None \notin Folders /\ NoOne \in SomeMember
  BY NodeFacts DEF SomeMember
<1>5. /\ none \in [Folders -> ParentPlaces] /\ \A x \in Folders : none[x] = None
      /\ one \in [Folders -> ParentPlaces] /\ \A x \in Folders : one[x] = IF x = f THEN Space ELSE None
      /\ parent \in [Folders -> Nodes \cup {None, Nowhere}]
      /\ \A x \in Folders : parent[x] = IF x = g THEN f ELSE IF x = f THEN Space ELSE None
  BY <1>2, <1>4 DEF ParentPlaces
<1>6. /\ X \subseteq Users /\ \A n \in Nodes : u[n] \in X /\ u[n] \in Users
  BY DEF Range
<1> HIDE DEF none, one, space, outer, X
<1>7. Tree(none) /\ Tree(one) /\ Tree(parent)
  <2>1. Forest(none)
    BY <1>4, <1>5 DEF Forest
  <2>2. Forest(one)
    BY <1>4, <1>5 DEF Forest
  <2>3. Forest(parent)
    <3>1. SUFFICES ASSUME NEW S \in SUBSET Folders, \A x \in S : parent[x] \in S, NEW x \in S  PROVE FALSE
      BY DEF Forest
    <3>2. g \notin S \/ f \in S
      BY <1>5, <3>1
    <3>3. f \notin S
      BY <1>2, <1>4, <1>5, <3>1
    <3>4. x # f /\ x # g
      BY <3>2, <3>3
    <3> QED  BY <1>4, <1>5, <3>1, <3>4
  <2> QED  BY <1>5, <2>1, <2>2, <2>3 DEF Tree, ParentPlaces
<1>8. /\ UpClosed(none, Z) /\ UpClosed(one, Z) /\ UpClosed(parent, Z)
      /\ \A x \in Folders : Above(none, x) = {} /\ Above(one, x) = {}
  <2>1. \A x \in Folders : Above(none, x) = {} /\ Above(one, x) = {}
    BY <1>4, <1>5, <1>7, AboveIs
  <2> QED  BY <1>4, <1>5, <2>1 DEF UpClosed
<1>9. /\ Fine(readers, none, Folders, Folders, Z, X, {})
      /\ \A w \in Users : "READ" \in Own(readers, Space, w)
  <2>1. readers \in Tables
    <3>1. {} \in SUBSET Bits /\ {"READ"} \in SUBSET Bits
      BY DEF Bits, MemberBits
    <3> QED  BY <3>1 DEF Tables
  <2>2. ASSUME NEW n \in Nodes, NEW w \in Users
        PROVE  /\ Own(readers, n, w) = IF n = Space THEN {"READ"} ELSE {}
               /\ Inherited(readers, n, w) = {}
    BY DEF Own, Inherited, Kinds
  <2>3. {"READ"} \in Plain /\ {} \in Plain
    BY DEF Plain, MemberBits
  <2> HIDE DEF readers
  <2>4. \A w \in Users : PlainFor(readers, w) /\ Barred(readers, w, Z) /\ Inherited(readers, Space, w) = {}
    BY <1>4, <2>2, <2>3, NodeFacts DEF PlainFor, Barred
  <2>5. BackedIn(readers, none, Folders)
    BY <2>2, NodeFacts DEF BackedIn, GrantedAbove
  <2> QED  BY <1>4, <2>1, <2>2, <2>4, <2>5 DEF Fine
<1> HIDE DEF readers
<1>10. f \notin Z /\ g \notin Z /\ Space \notin Z
  BY <1>4
<1> HIDE DEF Z
<1>11. /\ Fine(space, none, Folders, Folders, Z, X, {}) /\ "OWNER" \in Own(space, Space, u[Space])
       /\ \A w \in Users : "READ" \in Own(space, Space, w)
  BY <1>3, <1>4, <1>6, <1>7, <1>8, <1>9, <1>10, CreatedIsFine
<1>12. Fine(space, one, Folders, Folders, Z, X, {})
  BY <1>8, <1>11, FlatFine
<1>13. /\ Fine(outer, one, Folders, Folders, Z, X, {}) /\ "OWNER" \in Own(outer, f, u[f])
       /\ "OWNER" \in Own(outer, Space, u[Space])
       /\ \A w \in Users : "READ" \in Own(outer, Space, w)
  <2>1. u[f] \in Users /\ u[f] \in X /\ u[Space] \in Users
    BY <1>4, <1>6
  <2>2. /\ Fine(outer, one, Folders, Folders, Z, X, {}) /\ "OWNER" \in Own(outer, f, u[f])
        /\ \A m \in Nodes, w \in Users : m # f => Own(outer, m, w) = Own(space, m, w)
    BY <1>3, <1>4, <1>7, <1>8, <1>10, <1>12, <2>1, CreatedIsFine, SMTT(60)
  <2> QED  BY <1>4, <1>11, <2>1, <2>2
<1>14. Fine(outer, parent, Folders, Folders, Z, X, {})
  BY <1>8, <1>13, FlatFine
<1>15. /\ Fine(held, parent, Folders, Folders, Z, X, {}) /\ "OWNER" \in Own(held, g, u[g])
       /\ "OWNER" \in Own(held, f, u[f]) /\ "OWNER" \in Own(held, Space, u[Space])
       /\ \A w \in Users : "READ" \in Own(held, Space, w)
  <2>1. u[f] \in Users /\ u[g] \in Users /\ u[g] \in X /\ u[Space] \in Users
    BY <1>4, <1>6
  <2>2. /\ Fine(held, parent, Folders, Folders, Z, X, {}) /\ "OWNER" \in Own(held, g, u[g])
        /\ \A m \in Nodes, w \in Users : m # g => Own(held, m, w) = Own(outer, m, w)
    BY <1>3, <1>4, <1>7, <1>8, <1>10, <1>14, <2>1, CreatedIsFine
  <2> QED  BY <1>2, <1>4, <1>13, <2>1, <2>2
<1>16. SettledOnes = Folders /\ KnownOnes \subseteq Folders /\ Absent = Z /\ Outsiders = {} /\ There = {Space, f, g}
  <2>1. SettledOnes = Folders /\ KnownOnes \subseteq Folders
    BY <1>2 DEF SettledOnes, KnownOnes, Settled
  <2>2. Outsiders = {}
    BY <1>15 DEF Outsiders
  <2>3. There = {Space, f, g} /\ Absent = Z
    BY <1>4, <1>5 DEF There, Absent, Z
  <2> QED  BY <2>1, <2>2, <2>3
<1>17. RowsInv
  BY <1>2, <1>15, <1>16 DEF RowsInv, Fine
<1>18. Typed
  <2>1. invited \in [Nodes -> Roles \cup {None}] /\ \A n \in Nodes : n # Space /\ n # g => invited[n] = None
    BY <1>2, RolesAssumption
  <2>2. \A x \in Folders : parent[x] = None => (\A y \in Folders : parent[y] # x) /\ invited[x] = None
    <3>1. SUFFICES ASSUME NEW x \in Folders, parent[x] = None
          PROVE  (\A y \in Folders : parent[y] # x) /\ invited[x] = None
      OBVIOUS
    <3>2. x # g /\ x # f
      BY <1>4, <1>5, <3>1
    <3>3. \A y \in Folders : parent[y] # x
      BY <1>4, <1>5, <3>2
    <3>4. invited[x] = None
      BY <1>4, <2>1, <3>2, NodeFacts
    <3> QED  BY <3>3, <3>4
  <2>3. Forest(parent)
    BY <1>7 DEF Tree
  <2> QED  BY <1>2, <1>5, <1>6, <2>1, <2>2, <2>3, CallsAssumption DEF Typed
<1>19. TypeOK
  BY <1>17, <1>18, TypedIs
<1>20. PlacesInv
  <2>1. \A n \in Nodes : owner[n] \in excused
    BY <1>2, <1>6
  <2>2. \A x \in KnownOnes : parent[x] # None => InSpace(x)
    <3>1. parent[f] = Space /\ f \in Above(parent, g)
      <4>1. f # g
        BY <1>2
      <4>2. parent[f] = Space /\ parent[g] = f
        BY <1>5, <4>1
      <4> QED  BY <1>7, <4>2, AboveIs
    <3> QED  BY <1>5, <1>16, <3>1 DEF InSpace
  <2>3. \A x \in KnownOnes : invited[x] # None => invited[Space] # None
    BY <1>2, <1>4, <1>16, RolesAssumption, NodeFacts
  <2> QED  BY <2>1, <2>2, <2>3 DEF PlacesInv
<1>21. OwnedInv
  BY <1>4, <1>6, <1>15, <1>16 DEF OwnedInv
<1> QED  BY <1>17, <1>19, <1>20, <1>21 DEF AccessInv

-----------------------------------------------------------------------------

(* Every step, and what follows of all of them *)

LEMMA NextKeeps ==
    ASSUME AccessInv, Next
    PROVE  AccessInv' /\ OwnerStep
<1>1. ASSUME MemberNext  PROVE AccessInv' /\ OwnerStep
  <2>1. PICK n \in Nodes, m \in Users :
           \/ \E role \in Roles : InsertMember(n, m, role) \/ UpdateMember(n, m, role)
           \/ DeleteMember(n, m)
           \/ \E kept \in Roles \cup {None} : ChangeOwner(n, m, kept)
    BY <1>1 DEF MemberNext
  <2>2. ASSUME NEW role \in Roles, InsertMember(n, m, role)  PROVE AccessInv' /\ OwnerStep
    BY <2>2, InsertMemberKeeps
  <2>3. ASSUME NEW role \in Roles, UpdateMember(n, m, role)  PROVE AccessInv' /\ OwnerStep
    BY <2>3, UpdateMemberKeeps
  <2>4. ASSUME DeleteMember(n, m)  PROVE AccessInv' /\ OwnerStep
    BY <2>4, DeleteMemberKeeps
  <2>5. ASSUME NEW kept \in Roles \cup {None}, ChangeOwner(n, m, kept)  PROVE AccessInv' /\ OwnerStep
    BY <2>5, ChangeOwnerKeeps
  <2> QED  BY <2>1, <2>2, <2>3, <2>4, <2>5
<1>2. ASSUME TeamNext  PROVE AccessInv' /\ OwnerStep
  <2>1. PICK n \in Nodes, u \in Users :
           \/ \E role \in Roles : InviteTeam(n, role)
           \/ DismissTeam(n)
           \/ n = Space /\ (JoinTeam(u) \/ LeaveTeam(u))
    BY <1>2 DEF TeamNext
  <2>2. ASSUME NEW role \in Roles, InviteTeam(n, role)  PROVE AccessInv' /\ OwnerStep
    BY <2>2, InviteTeamKeeps
  <2>3. ASSUME DismissTeam(n)  PROVE AccessInv' /\ OwnerStep
    BY <2>3, DismissTeamKeeps
  <2>4. ASSUME JoinTeam(u)  PROVE AccessInv' /\ OwnerStep
    BY <2>4, JoinTeamKeeps
  <2>5. ASSUME LeaveTeam(u)  PROVE AccessInv' /\ OwnerStep
    BY <2>5, LeaveTeamKeeps
  <2> QED  BY <2>1, <2>2, <2>3, <2>4, <2>5
<1>3. ASSUME FolderNext  PROVE AccessInv' /\ OwnerStep
  <2>1. PICK f \in Folders, p \in Nodes :
           \/ \E u \in Users, v \in Views, member \in SomeMember : Create(f, p, u, v, member)
           \/ Move(f, p)
           \/ \E g \in Folders, u \in Users, withMembers \in BOOLEAN : Copy(f, g, p, u, withMembers)
           \/ p = Space /\ \E v \in Views : UpdateView(f, v)
           \/ p = Space /\ RemoveFolder(f)
    BY <1>3 DEF FolderNext
  <2>2. ASSUME NEW u \in Users, NEW v \in Views, NEW member \in SomeMember, Create(f, p, u, v, member)
        PROVE  AccessInv' /\ OwnerStep
    BY <2>2, CreateKeeps
  <2>3. ASSUME Move(f, p)  PROVE AccessInv' /\ OwnerStep
    BY <2>3, MoveKeeps
  <2>4. ASSUME NEW g \in Folders, NEW u \in Users, NEW withMembers \in BOOLEAN, Copy(f, g, p, u, withMembers)
        PROVE  AccessInv' /\ OwnerStep
    BY <2>4, CopyKeeps
  <2>5. ASSUME NEW v \in Views, UpdateView(f, v)  PROVE AccessInv' /\ OwnerStep
    BY <2>5, UpdateViewKeeps
  <2>6. ASSUME RemoveFolder(f)  PROVE AccessInv' /\ OwnerStep
    BY <2>6, RemoveFolderKeeps
  <2> QED  BY <2>1, <2>2, <2>3, <2>4, <2>5, <2>6
<1> QED  BY <1>1, <1>2, <1>3 DEF Next

(* The invariant holds throughout: a table of rows is where the calls can take it. *)
THEOREM AccessIsKept == Spec => []AccessInv
<1>1. Init => AccessInv
  BY InitKeeps
<1>2. AccessInv /\ [Next]_folderVars => AccessInv'
  <2>1. ASSUME AccessInv, UNCHANGED folderVars  PROVE AccessInv'
    <3>1. Typed' /\ held' = held
      BY <2>1, StateFacts DEF AccessInv, Typed, There, folderVars
    <3>2. \A f : Above(parent', f) = Above(parent, f) /\ InSpace(f)' = InSpace(f)
      BY <2>1 DEF folderVars, InSpace
    <3>3. RowsInv'
      <4>1. SettledOnes' = SettledOnes /\ KnownOnes' = KnownOnes /\ Absent' = Absent /\ Outsiders' = Outsiders
        BY <2>1, <3>2 DEF folderVars, SettledOnes, KnownOnes, Absent, Outsiders, Settled, Known
      <4>2. RowsInv' <=> Fine(held', parent', SettledOnes', KnownOnes', Absent', excused', Outsiders')
        BY DEF RowsInv
      <4>3. Fine(held, parent, SettledOnes, KnownOnes, Absent, excused, Outsiders)
        BY <2>1 DEF AccessInv, RowsInv
      <4>4. held' = held /\ parent' = parent /\ excused' = excused
        BY <2>1 DEF folderVars
      <4> QED  BY <4>1, <4>2, <4>3, <4>4
    <3>4. PlacesInv'
      <4>1. KnownOnes' = KnownOnes
        BY <2>1, <3>2 DEF folderVars, KnownOnes, Known
      <4> QED  BY <2>1, <3>2, <4>1 DEF folderVars, AccessInv, PlacesInv
    <3>5. OwnedInv'
      BY <2>1 DEF folderVars, AccessInv, OwnedInv, There
    <3>6. TypeOK'
      BY <2>1 DEF folderVars, AccessInv, TypeOK, There
    <3> QED  BY <3>3, <3>4, <3>5, <3>6 DEF AccessInv
  <2> QED  BY <2>1, NextKeeps
<1> QED  BY <1>1, <1>2, PTL DEF Spec

(* Every variable has its type under any calls, the folders are a forest, and what is no folder
   has neither rows nor a team. *)
THEOREM AccessTypes == Spec => []TypeOK
<1>1. AccessInv => TypeOK
  BY DEF AccessInv
<1> QED  BY <1>1, AccessIsKept, PTL

(* What a user inherits on a settled folder, a row of its own grants somewhere above: however
   many folders, users and calls there are, nothing taken above is left below. *)
THEOREM RowsAreBacked == Spec => []Backed
<1>1. AccessInv => Backed
  <2>1. SUFFICES ASSUME AccessInv, NEW f \in Folders, NEW u \in Users, Settled(f)
                 PROVE  Inherited(held, f, u) \ Unshared \subseteq UNION {Own(held, g, u) : g \in Above(parent, f)}
    BY DEF Backed
  <2>2. GrantedAbove(held, parent, f, u)
    BY <2>1 DEF AccessInv, RowsInv, Fine, BackedIn, SettledOnes
  <2> QED  BY <2>2 DEF GrantedAbove
<1> QED  BY <1>1, AccessIsKept, PTL

(* Whoever can read a known folder and never was an owner or in a team can read the space. *)
THEOREM ReadersStayMembers == Spec => []ReadersAreMembers
<1>1. AccessInv => ReadersAreMembers
  <2>1. SUFFICES ASSUME AccessInv, NEW f \in Folders, NEW u \in Users \ excused, Known(f),
                        "READ" \in Unified(held, f, u)
                 PROVE  "READ" \in Unified(held, Space, u)
    BY DEF ReadersAreMembers
  <2>2. u \notin Outsiders
    <3>1. ASSUME u \in Outsiders  PROVE FALSE
      <4>1. Barred(held, u, KnownOnes)
        <5>1. Fine(held, parent, SettledOnes, KnownOnes, Absent, excused, Outsiders)
          BY <2>1 DEF AccessInv, RowsInv
        <5>2. \A w \in Outsiders : Barred(held, w, KnownOnes)
          BY <5>1 DEF Fine
        <5> QED  BY <3>1, <5>2
      <4>2. f \in KnownOnes
        BY <2>1 DEF KnownOnes
      <4>3. Own(held, f, u) = {} /\ Inherited(held, f, u) = {}
        BY <4>1, <4>2 DEF Barred
      <4> QED  BY <2>1, <4>3 DEF Unified
    <3> QED  BY <3>1
  <2>3. Own(held, Space, u) # {}
    BY <2>2 DEF Outsiders
  <2>4. Own(held, Space, u) \in Plain
    BY <2>1, NodeFacts DEF AccessInv, RowsInv, Fine, PlainFor
  <2> QED  BY <2>3, <2>4 DEF Plain, Unified
<1> QED  BY <1>1, AccessIsKept, PTL

(* No call leaves an entity that one user alone owned to nobody. *)
THEOREM OwnersAreKept == Spec => OwnerKept
<1>1. AccessInv /\ [Next]_folderVars => [OwnerStep]_folderVars
  BY NextKeeps
<1>2. OwnerKept <=> [][OwnerStep]_folderVars
  BY DEF OwnerKept, OwnerStep
<1>3. Spec => [][Next]_folderVars
  BY DEF Spec
<1>4. Spec => [][OwnerStep]_folderVars
  BY <1>1, <1>3, AccessIsKept, PTL
<1> QED  BY <1>2, <1>4

-----------------------------------------------------------------------------

(* What a new member is granted comes down the tree *)

(* No folder from n down to f is private. *)
OpenTo(r, up, n, f) == \A g \in {n} \cup (Above(up, f) \cap Below(up, n)) : ~IsPrivate(r, g)

LEMMA CascadeReaches ==
    ASSUME NEW h \in Tables, NEW up, Tree(up), NEW n \in Nodes, NEW u \in Users, NEW start \in SUBSET Bits,
           ~(start \subseteq Unshared), NEW r, r = Cascade(h, up, n, u, start), NEW x \in Below(up, n), OpenTo(r, up, n, x)
    PROVE  start \ Unshared \subseteq Inherited(r, x, u)
<1>1. PICK a \in [Folders -> Hands] :
         /\ r = Inheriting(h, u, BitsOf(a))
         /\ \A f \in Folders : a[f] = Handed(h, up, n, u, start, f, a[up[f]])
  BY CascadeIs
<1>2. /\ r \in Tables
      /\ \A m \in Nodes, w \in Users : Own(r, m, w) = Own(h, m, w)
      /\ \A m \in Nodes, w \in Users :
            Inherited(r, m, w) = IF m \in Folders /\ w = u THEN a[m].bits ELSE Inherited(h, m, w)
  <2> DEFINE bits == BitsOf(a)
  <2>1. bits \in [Folders -> SUBSET Bits]
    BY DEF Hands, BitsOf
  <2>2. \A m \in Folders : bits[m] = a[m].bits
    BY DEF BitsOf
  <2>3. r = Inheriting(h, u, bits)
    BY <1>1
  <2> HIDE DEF bits
  <2> QED  BY <2>1, <2>2, <2>3, InheritingIs
<1>3. \A m \in Nodes, w \in Users : (w # u \/ m \notin Below(up, n)) => Inherited(r, m, w) = Inherited(h, m, w)
  BY CascadeCells DEF Cascaded
<1>4. ASSUME NEW f \in Folders, up[f] \in Folders
      PROVE  HandedCell(h, up, n, u, start, f, a[up[f]], a[f])
  <2>1. a[up[f]] \in Hands /\ a[f] = Handed(h, up, n, u, start, f, a[up[f]])
    BY <1>1, <1>4
  <2> QED  BY <2>1, HandedCells
<1>5. ASSUME NEW f \in Below(up, n)
      PROVE  f \in Folders /\ up[f] \in Folders /\ (up[f] = n \/ up[f] \in Below(up, n))
  BY <1>5, AboveIs DEF Below
<1>6. IsPrivate(h, n) => IsPrivate(r, n)
  <2>1. n \notin Below(up, n)
    BY AboveUp DEF Below
  <2>2. \A w \in Users : Own(r, n, w) = Own(h, n, w) /\ Inherited(r, n, w) = Inherited(h, n, w)
    BY <1>2, <1>3, <2>1
  <2> QED  BY <2>2, PrivateIs
<1> DEFINE Here(f) == Opened(h, up, n, f, a[up[f]]) /\ start \ Unshared \subseteq a[f].bits
           T == {f \in Folders : f \in Below(up, n) /\ OpenTo(r, up, n, f) => Here(f)}
<1>7. ASSUME NEW f \in Folders, up[f] \in Folders => up[f] \in T, f \in Below(up, n), OpenTo(r, up, n, f)
      PROVE  Here(f)
  <2>1. up[f] \in Folders /\ Inherits(up, f)
    BY <1>5, <1>7 DEF Inherits
  <2>2. /\ a[f].bits = IF Opened(h, up, n, f, a[up[f]]) /\ ~(Given(h, up, n, u, start, f, a[up[f]]) \subseteq Unshared)
                       THEN Given(h, up, n, u, start, f, a[up[f]]) \ Unshared
                       ELSE Inherited(h, f, u)
    BY <1>4, <2>1 DEF HandedCell
  <2>3. CASE up[f] = n
    <3>1. ~IsPrivate(h, n)
      BY <1>6, <1>7 DEF OpenTo
    <3> QED  BY <2>1, <2>2, <2>3, <3>1 DEF Opened, Given
  <2>4. CASE up[f] # n
    <3> DEFINE p == up[f]
               given == Given(h, up, n, u, start, p, a[up[p]])
               y == Inherit(h, p, u, given)
    <3>1. p \in Folders /\ p \in Nodes /\ p \in Below(up, n) /\ p \in Above(up, f)
      BY <1>5, <1>7, <2>1, <2>4, AboveIs, NodeFacts
    <3>2. OpenTo(r, up, n, p) /\ ~IsPrivate(r, p)
      <4>1. Above(up, p) \subseteq Above(up, f)
        BY <3>1, AboveUp
      <4> QED  BY <1>7, <3>1, <4>1 DEF OpenTo
    <3>3. Here(p)
      BY <1>7, <3>1, <3>2
    <3>4. up[p] \in Folders
      BY <1>5, <3>1
    <3>5. /\ given \in SUBSET Bits
          /\ a[p].bits = IF ~(given \subseteq Unshared) THEN given \ Unshared ELSE Inherited(h, p, u)
          /\ a[p].open <=> ~IsPrivate(y, p)
      BY <1>4, <3>1, <3>3, <3>4 DEF HandedCell
    <3>6. ~IsPrivate(y, p)
      <4> HIDE DEF given
      <4>1. /\ \A w \in Users : Own(y, p, w) = Own(h, p, w)
            /\ \A w \in Users :
                  Inherited(y, p, w) = IF w = u /\ ~(given \subseteq Unshared) THEN given \ Unshared ELSE Inherited(h, p, w)
        <5>1. y = Inherit(h, p, u, given) /\ p \in Folders /\ p \in Nodes /\ given \in SUBSET Bits
          BY <3>1, <3>5
        <5> HIDE DEF p, y
        <5>2. /\ \A k \in Nodes, w \in Users : Own(y, k, w) = Own(h, k, w)
              /\ \A k \in Nodes, w \in Users :
                    Inherited(y, k, w) = IF k = p /\ w = u /\ ~(given \subseteq Unshared) THEN given \ Unshared
                                         ELSE Inherited(h, k, w)
          BY <5>1, InheritIs
        <5> QED  BY <5>1, <5>2
      <4> HIDE DEF y
      <4>2. \A w \in Users : Own(y, p, w) = Own(r, p, w) /\ Inherited(y, p, w) = Inherited(r, p, w)
        BY <1>2, <3>1, <3>5, <4>1
      <4> QED  BY <3>2, <4>2, PrivateIs
    <3>7. Opened(h, up, n, f, a[p])
      BY <2>1, <2>4, <3>5, <3>6 DEF Opened
    <3>8. Given(h, up, n, u, start, f, a[p]) = Own(h, p, u) \cup a[p].bits
      BY <2>4 DEF Given
    <3>9. start \ Unshared \subseteq Given(h, up, n, u, start, f, a[p])
      BY <3>3, <3>8
    <3> QED  BY <2>2, <3>7, <3>9
  <2> QED  BY <2>3, <2>4
<1>8. Folders \subseteq T
  <2>1. \A f \in Folders : (up[f] \in Folders => up[f] \in T) => f \in T
    <3> HIDE DEF Here
    <3> QED  BY <1>7
  <2>2. Forest(up)
    BY DEF Tree
  <2> HIDE DEF T
  <2> QED  BY <2>1, <2>2, TreeInduction
<1>9. x \in Folders /\ x \in Nodes
  BY <1>5, NodeFacts
<1>10. start \ Unshared \subseteq a[x].bits
  BY <1>8, <1>9
<1> QED  BY <1>2, <1>9, <1>10

(* What a member is made of is granted on n and on every folder below it that is open to it. *)
LEMMA InsertOneReaches ==
    ASSUME NEW h \in Tables, NEW up, Tree(up), NEW n \in Nodes, NEW m \in Users, NEW role \in Roles,
           NEW r, r = InsertOne(h, up, n, m, role), NEW f \in {n} \cup Below(up, n), OpenTo(r, up, n, f)
    PROVE  RoleBits[role] \subseteq Unified(r, f, m)
<1> DEFINE ch == Inserting(n, m)
           bits == RoleBits[role]
           s == Revoke(h, up, n, m, MemberBits)
           g == Put(s, n, m, "own", Own(s, n, m) \cup bits)
           t == ResetInherited(g, up, n, m)
           start == Unified(t, n, m)
<1>1. Own(r, n, m) = (Own(h, n, m) \ MemberBits) \cup bits
  BY InsertOneIsReached
<1>2. CASE f = n
  BY <1>1, <1>2 DEF Unified
<1>3. CASE f \in Below(up, n)
  <2>1. r = Cascade(t, up, n, m, start)
    BY DEF InsertOne, Grant, Put, Own
  <2>2. bits \in SUBSET Bits /\ "READ" \in bits /\ bits \cap Unshared = {}
    <3>1. bits \in Plain /\ "READ" \in bits /\ bits \in SUBSET Bits
      BY PlainIs
    <3>2. bits \ Unshared = bits
      BY <3>1, PlainIs
    <3> QED  BY <3>1, <3>2
  <2> HIDE DEF bits
  <2>3. s \in Tables
    <3>1. <<n, m, MemberBits, {}>> \in Inserting(n, m)
      BY DEF Inserting
    <3> QED  BY <3>1, RevokeIsReached, MemberBitsAre
  <2> HIDE DEF s
  <2>4. g \in Tables /\ bits \subseteq Own(g, n, m)
    <3>1. Own(s, n, m) \cup bits \in SUBSET Bits
      BY <2>2, <2>3, RowsAre
    <3> QED  BY <2>3, <3>1, PutOwn
  <2> HIDE DEF g
  <2>5. t \in Tables /\ Own(t, n, m) = Own(g, n, m)
    BY <2>4, ResetSteps
  <2> HIDE DEF t
  <2>6. start \in SUBSET Bits /\ bits \subseteq start
    BY <2>4, <2>5, RowsAre DEF Unified
  <2> HIDE DEF start
  <2>7. ~(start \subseteq Unshared)
    BY <2>2, <2>6
  <2>8. start \ Unshared \subseteq Inherited(r, f, m)
    BY <1>3, <2>1, <2>5, <2>6, <2>7, CascadeReaches
  <2> QED  BY <2>2, <2>6, <2>8 DEF Unified, bits
<1> QED  BY <1>2, <1>3

(* A new member has its rights on every folder below, as far as nothing in between is private,
   however deep the tree is and whatever rows it had. *)
THEOREM GrantsReach == Spec => GrantReaches
<1> DEFINE Reach == Same => \A n \in Nodes, m \in Users, role \in Roles :
                       InsertMember(n, m, role) =>
                           \A f \in {n} \cup Below(parent, n) :
                               (\A g \in {n} \cup (Above(parent, f) \cap Below(parent, n)) : ~IsPrivate(held', g)) =>
                                   RoleBits[role] \subseteq Unified(held', f, m)
<1>1. AccessInv => Reach
  <2>1. SUFFICES ASSUME AccessInv, NEW n \in Nodes, NEW m \in Users, NEW role \in Roles, InsertMember(n, m, role),
                        NEW f \in {n} \cup Below(parent, n), OpenTo(held', parent, n, f)
                 PROVE  RoleBits[role] \subseteq Unified(held', f, m)
    BY DEF OpenTo
  <2>2. Tree(parent) /\ held \in Tables
    BY <2>1, StateFacts DEF AccessInv
  <2>3. held' = InsertOne(held, parent, n, m, role)
    BY <2>1 DEF InsertMember
  <2> QED  BY <2>1, <2>2, <2>3, InsertOneReaches
<1>2. GrantReaches <=> [][Reach]_folderVars
  BY DEF GrantReaches
<1> HIDE DEF Reach
<1>3. Spec => [][Reach]_folderVars
  BY <1>1, AccessIsKept, PTL
<1> QED  BY <1>2, <1>3
=============================================================================
