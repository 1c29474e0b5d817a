------------------------------- MODULE Groups -------------------------------
(***************************************************************************)
(* What users may do with one kind of thing (workflows, tags, spaces ...): *)
(* their own rows of assigned_permission without an entity, the row of a   *)
(* team, and the permission groups both are computed from                  *)
(* (permission-manager-impl.service.ts, team.service.ts).                  *)
(*                                                                         *)
(* The kinds share no row, so one stands for all.  CREATE, UPDATE and      *)
(* DELETE go together and are the bit CUD.  A query for one of several     *)
(* rows finds any of them.  A call that throws rolls back and is no step.  *)
(***************************************************************************)
EXTENDS FiniteSets, Integers

CONSTANTS Members, PermissionGroups, Teams,
          MaxPermissionCalls    \* bound: calls made

ASSUME PermissionCallsAssumption == MaxPermissionCalls \in Nat

VARIABLES
    own,         \* rows of a user for the kind
    status,      \* permissionStatus of a group, or GONE
    assigned,    \* the flag stored with it
    userGroups,  \* user_permissions_group
    teamGroups,  \* team_permission_groups
    teamUsers,   \* user_role
    teamRow,     \* whether the row of the team's role allows CUD
    byHand,      \* ghost: users whose rows were set without a look at their groups
    resplit,     \* ghost: users whose rows a grant or a revocation changed while they were banned
    managed      \* how many calls there were

groupVars == <<own, status, assigned, userGroups, teamGroups, teamUsers, teamRow, byHand, resplit, managed>>

Rows == [bits : {{"READ"}, {"CUD"}, {"READ", "CUD"}}, banned : BOOLEAN]
Statuses == {"ALLOW", "DISALLOW", "UNSET"}
Row(bits) == [bits |-> bits, banned |-> FALSE]

(* grantToUser and revokeFromUser: what the rows R of a user can become. *)
Granted(R) == IF R = {} THEN {{Row({"CUD"})}}
              ELSE {(R \ {r}) \cup {[r EXCEPT !.bits = @ \cup {"CUD"}]} : r \in R}
Revoked(R) ==
    LET Left(r) == IF r.bits # {"CUD"} THEN {[r EXCEPT !.bits = @ \ {"CUD"}]}
                   ELSE IF r.banned THEN {r} ELSE {}
    IN  IF R = {} THEN {R} ELSE {(R \ {r}) \cup Left(r) : r \in R}

\* mutant: one group that allows is enough
DecisionAllow(st, S) ==
    IF \E g \in S : st[g] = "ALLOW" THEN "ALLOW" ELSE IF \E g \in S : st[g] = "DISALLOW" THEN "DISALLOW" ELSE "UNSET"

(* groupPermissionsById *)
Decision(st, S) ==
    IF \E g \in S : st[g] = "DISALLOW" THEN "DISALLOW" ELSE IF \E g \in S : st[g] = "ALLOW" THEN "ALLOW" ELSE "UNSET"

(* setPermission *)
Set(R, decision) == CASE decision = "ALLOW" -> Granted(R) [] decision = "DISALLOW" -> Revoked(R) [] OTHER -> {R}

(* setPermissionsUsingStatus: without a group left, what the one still linked had assigned is
   revoked; no group linked, and the call throws. *)
Reapplied(st, S, linked, R) ==
    IF S # {} THEN Set(R, Decision(st, S))
    ELSE UNION {IF assigned[g] THEN Revoked(R) ELSE {R} : g \in linked}

Live == {g \in PermissionGroups : status[g] # "GONE"}
OfTheGroup(g) == {u \in Members : g \in userGroups[u]}
Every(Rs) == {f \in [Members -> UNION {Rs[u] : u \in Members}] : \A u \in Members : f[u] \in Rs[u]}
Managed == managed < MaxPermissionCalls /\ managed' = managed + 1
NoTeam == UNCHANGED <<teamGroups, teamUsers, teamRow>>
NoUser == UNCHANGED <<own, userGroups, byHand, resplit>>
IsBanned(u) == \E r \in own[u] : r.banned

(* Whose rows follow their groups again after a call, and whose rows it changed in spite of a ban. *)
Followed(us, fits) == byHand' = byHand \ {u \in us : fits[u] # {}}
Met(us) == resplit' = resplit \cup {u \in us : IsBanned(u) /\ own'[u] # own[u]}

GroupsInit ==
    /\ own \in [Members -> {{Row({"READ"})}, {Row({"READ", "CUD"})}}]   \* grantDefaultPermissionsToUser
    /\ status = [g \in PermissionGroups |-> "GONE"]
    /\ assigned = [g \in PermissionGroups |-> FALSE]
    /\ userGroups = [u \in Members |-> {}]
    /\ teamGroups = [t \in Teams |-> {}] /\ teamUsers = [t \in Teams |-> {}]
    /\ teamRow = [t \in Teams |-> FALSE]
    /\ byHand = Members /\ resplit = {} /\ managed = 0

(* createPermissionGroup *)
CreatePermissionGroup(g, s) ==
    /\ Managed
    /\ status[g] = "GONE"
    /\ status' = [status EXCEPT ![g] = s]
    /\ assigned' = [assigned EXCEPT ![g] = (s = "ALLOW")]
    /\ NoTeam /\ NoUser

(* updatePermissionGroup: assigned is stored as the caller sends it, the teams are not told. *)
UpdatePermissionGroup(g, s, a) ==
    LET st == [status EXCEPT ![g] = s]
    IN  /\ Managed
        /\ g \in Live
        /\ status' = st
        /\ assigned' = [assigned EXCEPT ![g] = a]
        /\ own' \in Every([u \in Members |-> IF g \in userGroups[u] THEN Reapplied(st, userGroups[u], {}, own[u])
                                             ELSE {own[u]}])
        /\ Followed(OfTheGroup(g), userGroups)
        /\ Met(OfTheGroup(g))
        /\ UNCHANGED userGroups /\ NoTeam

(* delPermissionGroupUser, for the users us. *)
Unlinked(g, us) ==
    LET fits == [u \in Members |-> userGroups[u] \ {g}]
    IN  /\ own' \in Every([u \in Members |-> IF u \in us THEN Reapplied(status, fits[u], userGroups[u], own[u])
                                             ELSE {own[u]}])
        /\ userGroups' = [u \in Members |-> IF u \in us THEN fits[u] ELSE userGroups[u]]
        /\ Followed(us, fits)
        /\ Met(us)

(* delPermissionGroup: the rows of teams keep a group from being deleted. *)
DelPermissionGroup(g) ==
    /\ Managed
    /\ g \in Live /\ \A t \in Teams : g \notin teamGroups[t]
    /\ Unlinked(g, OfTheGroup(g))
    /\ status' = [status EXCEPT ![g] = "GONE"]
    /\ UNCHANGED assigned /\ NoTeam

DelPermissionGroupUser(g, u) ==
    /\ Managed
    /\ userGroups[u] # {}
    /\ Unlinked(g, {u})
    /\ UNCHANGED <<status, assigned>> /\ NoTeam

(* setPermissionGroupUser: to take the last group away throws. *)
SetPermissionGroupUser(u, D, I) ==
    LET new == (userGroups[u] \ D) \cup I
    IN  /\ Managed
        /\ I \subseteq Live \ (userGroups[u] \ D) /\ new # {}
        /\ userGroups' = [userGroups EXCEPT ![u] = new]
        /\ \E R \in Reapplied(status, new, new, own[u]) : own' = [own EXCEPT ![u] = R]
        /\ Followed({u}, [x \in Members |-> new])
        /\ Met({u})
        /\ UNCHANGED <<status, assigned>> /\ NoTeam

(* setPermission *)
SetPermission(u, decision) ==
    /\ Managed
    /\ \E R \in Set(own[u], decision) : own' = [own EXCEPT ![u] = R]
    /\ byHand' = byHand \cup {u}
    /\ Met({u})
    /\ UNCHANGED <<status, assigned, userGroups>> /\ NoTeam

(* setBannedUserFromEntity: with no row to split it throws. *)
BanRows(R) ==
    LET split == {r \in R : r.bits = {"CUD"}}
    IN  IF split # {} THEN {(R \ {r}) \cup {[r EXCEPT !.banned = TRUE]} : r \in split}
        ELSE {(R \ {r}) \cup {[bits |-> {"CUD"}, banned |-> TRUE], Row({"READ"})} : r \in R}

(* setBannedPermission with banned *)
Ban(u) ==
    /\ Managed
    /\ \E R \in BanRows(own[u]) : own' = [own EXCEPT ![u] = R]
    /\ UNCHANGED <<status, assigned, userGroups, byHand, resplit>> /\ NoTeam

(* setBannedPermission without: the groups are looked at again, and a user of none makes it throw. *)
Unban(u) ==
    /\ Managed
    /\ IsBanned(u)
    /\ userGroups[u] # {}
    /\ \E R \in Reapplied(status, userGroups[u], userGroups[u], {r \in own[u] : r.bits # {"CUD"}}) :
          own' = [own EXCEPT ![u] = R]
    /\ resplit' = resplit \ {u}
    /\ Followed({u}, userGroups)
    /\ UNCHANGED <<status, assigned, userGroups>> /\ NoTeam

(* assignPermissions: the row of the team's role once its groups are the set S. *)
Assigned(t, S) == Decision(status, S) = "ALLOW"

(* createTeam, and updateTeam with permissionGroups *)
SetTeamGroups(t, S) ==
    /\ Managed
    /\ S \subseteq Live
    /\ teamGroups' = [teamGroups EXCEPT ![t] = S]
    /\ teamRow' = [teamRow EXCEPT ![t] = Assigned(t, S)]
    /\ UNCHANGED <<status, assigned, teamUsers>> /\ NoUser

(* updateTeam with users; what it grants on folders is in FolderAccess. *)
SetTeamUsers(t, U) ==
    /\ Managed
    /\ teamUsers' = [teamUsers EXCEPT ![t] = U]
    /\ UNCHANGED <<status, assigned, teamGroups, teamRow>> /\ NoUser

(* deleteTeam *)
DeleteTeam(t) ==
    /\ Managed
    /\ teamGroups' = [teamGroups EXCEPT ![t] = {}]
    /\ teamUsers' = [teamUsers EXCEPT ![t] = {}]
    /\ teamRow' = [teamRow EXCEPT ![t] = FALSE]
    /\ UNCHANGED <<status, assigned>> /\ NoUser

GroupsNext ==
    \/ \E g \in PermissionGroups :
          \/ \E s \in Statuses : CreatePermissionGroup(g, s) \/ \E a \in BOOLEAN : UpdatePermissionGroup(g, s, a)
          \/ DelPermissionGroup(g)
          \/ \E u \in Members : DelPermissionGroupUser(g, u)
    \/ \E u \in Members :
          \/ \E D, I \in SUBSET PermissionGroups : SetPermissionGroupUser(u, D, I)
          \/ \E s \in {"ALLOW", "DISALLOW"} : SetPermission(u, s)
          \/ Ban(u) \/ Unban(u)
    \/ \E t \in Teams :
          \/ \E S \in SUBSET PermissionGroups : SetTeamGroups(t, S)
          \/ \E U \in SUBSET Members : SetTeamUsers(t, U)
          \/ DeleteTeam(t)

GroupsSpec == GroupsInit /\ [][GroupsNext]_groupVars

-----------------------------------------------------------------------------
(* getUserAuthorizePermissionQueryBuilder, of the rows of the user. *)
OwnCan(u) == \E r \in own[u] : "CUD" \in r.bits /\ ~r.banned
Disallowed(S) == \E g \in S : status[g] = "DISALLOW"
Allowed(S) == ~Disallowed(S) /\ \E g \in S : status[g] = "ALLOW"

(* What the groups of a user say holds of its rows: a group that disallows wins over those that
   allow (groupPermissionsById), also for a user who was banned and no longer is.  Left out are
   users whose rows setPermission set since, which looks at no group; and banned ones, where a
   grant or a revocation meets either half of the split row. *)
UserFollows ==
    \A u \in Members \ byHand : ~IsBanned(u) =>
        /\ Disallowed(userGroups[u]) => ~OwnCan(u)
        /\ Allowed(userGroups[u]) => OwnCan(u)

(* A banned user cannot, however often it is banned, unless a call changed its rows after the first
   ban: then the half that reads may have the right again, and a second ban finds only the other
   (setBannedUserFromEntity). *)
BanHolds == \A u \in Members \ resplit : IsBanned(u) => ~OwnCan(u)

(* The rows of users by kind of entity say what their groups and bans say. *)
RowsFollow == UserFollows /\ BanHolds
=============================================================================
