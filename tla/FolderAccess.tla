---------------------------- MODULE FolderAccess ----------------------------
(***************************************************************************)
(* Who may do what with a space and its folders: the rows of               *)
(* assigned_permission, one granted to a user on the folder itself and one *)
(* inherited from what it hangs below, under the calls of                  *)
(* folder.service.ts that write them through                               *)
(* authorization-impl.service.ts.                                          *)
(*                                                                         *)
(* A mask of permissions is the set of its bits; a row with none is        *)
(* deleted, so the empty set is no row.  The queries that find the         *)
(* children and the parent of an entity come from a library: they are the  *)
(* tree of folders.  The rows of a space have another type, and no folder  *)
(* inherits them.  A call that throws rolls back and is no step.           *)
(***************************************************************************)
EXTENDS FiniteSets, Functions, Integers, Sequences, Loops

CONSTANTS
    Folders, Users,
    Space,       \* the space the folders are in, shown in task management
    Hidden,      \* the folders whose show_on, given by who creates them, lacks task-management
    None,        \* parent of what is not a folder (yet)
    Nowhere,     \* parent of a folder whose parent was deleted for good
    Roles,       \* the kinds of member there are: subset of DOMAIN RoleBits
    MaxCalls     \* bound: calls made

(* addPermissions *)
RoleBits == [FULL |-> {"READ", "UPDATE", "DELETE", "FULL"},
             EDITOR |-> {"READ", "UPDATE", "EDITOR"},
             READONLY |-> {"READ"}]
Unshared == {"OWNER", "PRIVATE"}
MemberBits == {"CREATE", "READ", "UPDATE", "DELETE", "EDITOR", "FULL"}
Bits == Unshared \cup MemberBits
RUD == {"READ", "UPDATE", "DELETE"}

ASSUME NodesAssumption == Folders \cap {Space, None, Nowhere} = {} /\ Space \notin {None, Nowhere} /\ None # Nowhere
ASSUME HiddenAssumption == Hidden \subseteq Folders
ASSUME RolesAssumption == "FULL" \in Roles /\ Roles \subseteq DOMAIN RoleBits /\ None \notin Roles
ASSUME CallsAssumption == MaxCalls \in Nat
ASSUME FiniteAccess == IsFiniteSet(Folders) /\ IsFiniteSet(Users)

VARIABLES
    parent,   \* where a folder hangs
    owner,    \* folder.user_id
    view,     \* folder.view_type
    held,     \* the bits of each row of assigned_permission, by entity, user, kind
    strayed,  \* ghost: folders that hung below one that was moved or deleted for good
    foreign,  \* ghost: folders moved or copied from where one above had strayed or was hidden
    team,     \* the users of a team (user_role)
    invited,  \* folder_space_teams: the team's role by entity, or None
    excused,  \* ghost: users who were the owner of a space or folder, or were taken out of the team
    accessed  \* how many calls there were

folderVars == <<parent, owner, view, held, team, invited, strayed, foreign, excused, accessed>>

Nodes == Folders \cup {Space}
Views == {"PUBLIC", "PRIVATE"}
Kinds == {"own", "inherited"}
Tables == [Nodes \X Users \X Kinds -> SUBSET Bits]
Orders(S) == Bijection(1..Cardinality(S), S)

(* Below, h is the rows as the call has changed them so far, and up the tree it works on. *)
Own(h, n, u) == h[<<n, u, "own">>]
Inherited(h, n, u) == h[<<n, u, "inherited">>]
Unified(h, n, u) == Own(h, n, u) \cup Inherited(h, n, u)
Owners(h, n) == {u \in Users : "OWNER" \in Unified(h, n, u)}
IsPrivate(h, n) == \E u \in Users, i \in Kinds : Unshared \subseteq h[<<n, u, i>>]
Without(h, n) == [k \in DOMAIN h |-> IF k[1] = n THEN {} ELSE h[k]]

(* No folders each have their parent among them: there is no ring. *)
Forest(up) == \A S \in SUBSET Folders : (\A f \in S : up[f] \in S) => S = {}

(* The folders above n; a space is no folder. *)
Above(up, n) ==
    LET above[f \in Folders] == IF up[f] \in Folders THEN {up[f]} \cup above[up[f]] ELSE {}
    IN  IF n \in Folders THEN above[n] ELSE {}
Below(up, n) == {f \in Folders : n \in Above(up, f)}
Inherits(up, n) == n \in Folders /\ up[n] \in Folders

(* A loop over users or nodes, in the order its query returned them. *)
Each(order, Do(_, _), h) == Loop([i \in DOMAIN order |-> [r \in Tables |-> Do(r, order[i])]], h)

(* setGrantedPermissions for inherited rows: the new value takes the place of the old. *)
Inherit(h, f, u, bits) ==
    IF bits \subseteq Unshared THEN h ELSE [h EXCEPT ![<<f, u, "inherited">>] = bits \ Unshared]

(* The rows h, but for what u inherits. *)
Inheriting(h, u, bits) ==
    [k \in DOMAIN h |-> IF k[1] \in Folders /\ k[2] = u /\ k[3] = "inherited" THEN bits[k[1]] ELSE h[k]]

\* mutant: the children inherit, what is below them does not
CascadeOnce(h, up, n, u, start) ==
    Inheriting(h, u, [f \in Folders |->
        IF Inherits(up, f) /\ up[f] = n /\ ~IsPrivate(h, n) /\ ~(start \subseteq Unshared)
        THEN start \ Unshared ELSE Inherited(h, f, u)])

(* cascadeInheritedPermissionsToChildren: not below what is private. *)
Cascade(h, up, n, u, start) ==
    LET after[f \in Folders] ==
            LET open == Inherits(up, f) /\ IF up[f] = n THEN ~IsPrivate(h, n) ELSE after[up[f]].open
                given == IF up[f] = n THEN start ELSE Own(h, up[f], u) \cup after[up[f]].bits
                r == IF open THEN Inherit(h, f, u, given) ELSE h
            IN  [bits |-> Inherited(r, f, u), open |-> open /\ ~IsPrivate(r, f)]
    IN  Inheriting(h, u, [f \in Folders |-> after[f].bits])

(* cascadeRevokeToChildrenInherited: rows that are there take the value, OWNER and PRIVATE with it. *)
CascadeRevoke(h, up, n, u) ==
    LET below == Below(up, n)
        after[f \in Folders] ==
            IF f \in below /\ Inherited(h, f, u) # {} THEN Own(h, up[f], u) \cup after[up[f]]
            ELSE Inherited(h, f, u)
    IN  Inheriting(h, u, after)

(* resetInheritedPermissions: what the parent's own row gives, and what is inherited already. *)
ResetInherited(h, up, n, u) ==
    IF Inherits(up, n) THEN Inherit(h, n, u, Own(h, up[n], u) \cup Inherited(h, n, u)) ELSE h

Grant(h, up, n, u, bits) ==
    LET r == ResetInherited([h EXCEPT ![<<n, u, "own">>] = @ \cup bits], up, n, u)
    IN  Cascade(r, up, n, u, Unified(r, n, u))

\* mutant: what hangs below keeps what it inherited
RevokeHere(h, up, n, u, bits) == [h EXCEPT ![<<n, u, "own">>] = @ \ bits]

Revoke(h, up, n, u, bits) ==
    IF Own(h, n, u) = {} THEN h ELSE CascadeRevoke([h EXCEPT ![<<n, u, "own">>] = @ \ bits], up, n, u)

(* copyUnifiedPermissionsFromEntity *)
CopyUnified(h, up, n, f, kind, order) ==
    LET Do(r, u) ==
            LET bits == Unified(h, n, u)
                copied == IF kind = "inherited" THEN Inherit(r, f, u, bits)
                          ELSE [r EXCEPT ![<<f, u, "own">>] = @ \cup bits]
            IN  IF bits = {} THEN r ELSE Cascade(copied, up, f, u, bits)
    IN  Each(order, Do, h)

(* insertAllMembersPermissionsOfParentInChild *)
InsertParentsMembers(h, up, f, order) ==
    IF Inherits(up, f) THEN CopyUnified(h, up, up[f], f, "inherited", order) ELSE h

(* The rows own, granted again user by user: grantToUser throws when there is nothing but OWNER. *)
OwnRows(h, f) == [u \in Users |-> Own(h, f, u)]
Grantable(own) == \A u \in Users : own[u] # {"OWNER"}
GrantAgain(h, up, f, own, order) ==
    LET Do(r, u) == IF own[u] = {} THEN r
                    ELSE Grant(IF "OWNER" \in own[u] THEN Grant(r, up, f, u, {"OWNER"}) ELSE r,
                               up, f, u, own[u] \ {"OWNER"})
    IN  Each(order, Do, h)

RevokeAll(h, up, n, users, order) ==
    LET Do(r, u) == IF u \in users THEN Revoke(r, up, n, u, MemberBits) ELSE r
    IN  Each(order, Do, h)

(* resetPermissions: of the rows of an owner only, unless that owner has none of its own. *)
ResetPermissions(h, up, f, o) ==
    LET r == Grant(Without(h, f), up, f, o, {"OWNER"})
    IN  IF Own(h, f, o) = {} THEN h ELSE [r EXCEPT ![<<f, o, "own">>] = @ \cup Own(h, f, o)]

-----------------------------------------------------------------------------
There == {Space} \cup {f \in Folders : parent[f] # None}
InSpace(f) == \E g \in {f} \cup Above(parent, f) : parent[g] = Space
InSpaceTree == {Space} \cup {f \in Folders : InSpace(f)}

\* mutant: the folders of a space are left alone
CoveredHere(n) == {n}

(* getSpaceChildrenFoldersIds: of the folders in a space those shown in task management. *)
Covered(n) == IF n = Space THEN InSpaceTree \ Hidden ELSE {n}
Call == accessed < MaxCalls /\ accessed' = accessed + 1
Same == UNCHANGED <<parent, owner, view, team, invited, strayed, foreign, excused>>

(* Whether no folder from f up has strayed; and whether none is hidden either, and its rows come
   from no such place. *)
Settled(f) == ({f} \cup Above(parent, f)) \cap strayed = {}
Known(f) == ({f} \cup Above(parent, f)) \cap (strayed \cup foreign \cup Hidden) = {}

InsertOne(h, up, n, m, role) == Grant(Revoke(h, up, n, m, MemberBits), up, n, m, RoleBits[role])

(* The rows create leaves for a folder, with one member or none. *)
NoOne == << >>
Created(h, up, f, u, v, member, order) ==
    LET owning == Grant(h, up, f, u, {"OWNER"})
        private == IF v = "PRIVATE" THEN Grant(owning, up, f, u, {"PRIVATE"}) ELSE owning
        granted == Grant(private, up, f, u, RUD)
        joined == IF member = NoOne THEN granted ELSE InsertOne(granted, up, f, member[1], member[2])
    IN  InsertParentsMembers(joined, up, f, order)

SomeMember == {NoOne} \cup (Users \X Roles)
CanJoin(h, member) == member # NoOne => "READ" \in Unified(h, Space, member[1])

(* A space everyone can read, a folder in it and one below that, and at most one member of
   the outer: each as create leaves it. *)
Init ==
    \E f, g \in Folders, u \in [Nodes -> Users], v \in [Nodes -> Views], member \in SomeMember,
       asked \in BOOLEAN, order \in Orders(Users) :
        LET none == [x \in Folders |-> None]
            one == [none EXCEPT ![f] = Space]
            readers == [k \in Nodes \X Users \X Kinds |-> IF k[1] = Space /\ k[3] = "own" THEN {"READ"} ELSE {}]
            space == Created(readers, none, Space, u[Space], "PUBLIC", NoOne, order)
            outer == Created(space, one, f, u[f], v[f], member, order)
        IN  /\ f # g /\ (asked => member = NoOne /\ v[f] = "PUBLIC")
            /\ \A n \in Nodes \ {g} : u[n] = u[Space]
            /\ \A n \in Nodes \ {f, g} : v[n] = "PUBLIC"
            /\ parent = [one EXCEPT ![g] = f] /\ owner = u /\ view = v
            /\ excused = Range(u)
            /\ held = Created(outer, parent, g, u[g], v[g], NoOne, order)
            /\ strayed = {} /\ foreign = {} /\ team = {} /\ accessed = 0
            /\ invited = [n \in Nodes |-> IF asked /\ n \in {Space, g} THEN "FULL" ELSE None]

(* create *)
Create(f, p, u, v, member) ==
    /\ Call
    /\ parent[f] = None /\ p \in There /\ CanJoin(held, member)
    /\ parent' = [parent EXCEPT ![f] = p]
    /\ owner' = [owner EXCEPT ![f] = u]
    /\ excused' = excused \cup {u}
    /\ view' = [view EXCEPT ![f] = v]
    /\ \E order \in Orders(Users) : held' = Created(held, [parent EXCEPT ![f] = p], f, u, v, member, order)
    /\ UNCHANGED <<team, invited, strayed, foreign>>

(* setFolderMembersInternal, insert: verifySpaceMembers looks at folders in the space only. *)
InsertMember(n, m, role) ==
    /\ Call
    /\ n \in There
    /\ (n \in InSpaceTree \ {Space}) => "READ" \in Unified(held, Space, m)
    /\ held' = InsertOne(held, parent, n, m, role)
    /\ Same

(* setFolderMembersInternal, update. *)
UpdateMember(n, m, role) ==
    /\ Call
    /\ n \in There /\ Unified(held, n, m) # {}
    /\ held' = InsertOne(held, parent, n, m, role)
    /\ Same

(* setFolderMembersInternal, delete: of a space, from every folder in it. *)
DeleteMember(n, m) ==
    /\ Call
    /\ n \in There
    /\ LET Do(r, f) == Revoke(r, parent, f, m, MemberBits)
       IN  \E order \in Orders(Covered(n)) : held' = Each(order, Do, held)
    /\ Same

\* mutant: the old owner's rights go last
ChangeOwnerLate(n, new, kept) ==
    LET granted == Grant(Grant(held, parent, n, new, RUD), parent, n, new, {"OWNER"})
    IN  /\ Call
        /\ n \in There
        /\ held' = Revoke(Revoke(granted, parent, n, owner[n], RUD), parent, n, owner[n], {"OWNER"})
        /\ owner' = [owner EXCEPT ![n] = new]
        /\ excused' = excused \cup {new}
        /\ UNCHANGED <<parent, view, team, invited, strayed, foreign>>

(* changeOwnerOfAFolder: the old owner stays as a member, if kept is a role. *)
ChangeOwner(n, new, kept) ==
    LET revoked == Revoke(Revoke(held, parent, n, owner[n], RUD), parent, n, owner[n], {"OWNER"})
        granted == Grant(Grant(revoked, parent, n, new, RUD), parent, n, new, {"OWNER"})
        first == RoleBits[kept] \ RUD
        second == IF kept = "READONLY" THEN {"READ"} ELSE {"READ", "UPDATE"}
    IN  /\ Call
        /\ n \in There
        /\ held' = IF kept = None THEN granted
                   ELSE Grant(IF first = {} THEN granted ELSE Grant(granted, parent, n, owner[n], first),
                              parent, n, owner[n], second)
        /\ owner' = [owner EXCEPT ![n] = new]
        /\ excused' = excused \cup {new}
        /\ UNCHANGED <<parent, view, team, invited, strayed, foreign>>

(* updateEntityPosition *)
Placed(h, up, f, order) ==
    InsertParentsMembers(GrantAgain(Without(h, f), up, f, OwnRows(h, f), order), up, f, order)

(* updateFolderOnePosition *)
Move(f, p) ==
    LET up == [parent EXCEPT ![f] = p]
    IN  /\ Call
        /\ parent[f] # None /\ p \in There \ (Below(parent, f) \cup {f})
        /\ Grantable(OwnRows(held, f))
        /\ parent' = up
        /\ \E order \in Orders(Users) : held' = Placed(held, up, f, order)
        /\ strayed' = strayed \cup Below(parent, f)
        /\ foreign' = IF Known(f) THEN foreign ELSE foreign \cup {f}
        /\ UNCHANGED <<owner, view, team, invited, excused>>

(* What update does to the rows when the view type turns to or from PRIVATE; o is the owner it
   found first, resetPermissions looks for one again. *)
TurnedPrivate(h, f, o, again, order) ==
    LET reset == ResetPermissions(RevokeAll(h, parent, f, Users, order), parent, f, again)
        bare == [k \in DOMAIN reset |->
                    IF k[1] \in {f} \cup Below(parent, f) /\ k[3] = "inherited" THEN {} ELSE reset[k]]
    IN  Grant(bare, parent, f, o, {"PRIVATE"})
TurnedPublic(h, f, o, again, order) ==
    LET revoked == RevokeAll(Revoke(h, parent, f, o, {"PRIVATE"}), parent, f, Users, order)
    IN  InsertParentsMembers(ResetPermissions(revoked, parent, f, again), parent, f, order)

(* The end of every update. *)
OwnerGranted(h, n, o) ==
    LET owning == Grant(h, parent, n, o, {"OWNER"})
    IN  Grant(Grant(owning, parent, n, o, RUD \cup {"CREATE"}), parent, n, o, {"EDITOR", "FULL"})

(* update of the view type of a folder.  That of a space is not modelled: it takes the members out
   like DeleteMember and writes what else it writes to rows of a folder with the id of the space. *)
UpdateView(f, v) ==
    /\ Call
    /\ parent[f] # None
    /\ \E o \in Owners(held, f), again \in Owners(held, f), order \in Orders(Users) :
          LET turned == IF v = view[f] THEN held
                        ELSE IF v = "PRIVATE" /\ ~IsPrivate(held, f) THEN TurnedPrivate(held, f, o, again, order)
                        ELSE IF v # "PRIVATE" /\ IsPrivate(held, f) THEN TurnedPublic(held, f, o, again, order)
                        ELSE held
          IN  held' = OwnerGranted(turned, f, o)
    /\ view' = [view EXCEPT ![f] = v]
    /\ UNCHANGED <<parent, owner, team, invited, strayed, foreign, excused>>

(* update of the teams, insert: the caller sends the users of the team as members. *)
InviteTeam(n, role) ==
    LET Do(r, m) == IF m \in team THEN InsertOne(r, parent, n, m, role) ELSE r
    IN  /\ Call
        /\ n \in There /\ invited[n] = None
        /\ (n \in InSpaceTree \ {Space}) =>
              invited[Space] # None /\ \A m \in team : "READ" \in Unified(held, Space, m)
        /\ invited' = [invited EXCEPT ![n] = role]
        /\ \E o \in Owners(held, n), order \in Orders(Users) : held' = OwnerGranted(Each(order, Do, held), n, o)
        /\ UNCHANGED <<parent, owner, view, team, strayed, foreign, excused>>

(* update of the teams, delete: of a space, from every folder in it. *)
DismissTeam(n) ==
    /\ Call
    /\ n \in There /\ invited[n] # None
    /\ invited' = [x \in Nodes |-> IF x \in Covered(n) THEN None ELSE invited[x]]
    /\ \E o \in Owners(held, n), order \in Orders(Covered(n)), users \in Orders(Users) :
          LET Do(r, f) == RevokeAll(r, parent, f, team, users)
          IN  held' = OwnerGranted(Each(order, Do, held), n, o)
    /\ UNCHANGED <<parent, owner, view, team, strayed, foreign, excused>>

Places == {n \in Nodes : invited[n] # None}

(* updateTeam, users.insert *)
JoinTeam(u) ==
    LET Do(r, n) == Grant(r, parent, n, u, RoleBits[invited[n]])
    IN  /\ Call
        /\ u \notin team
        /\ team' = team \cup {u}
        /\ \E order \in Orders(Places) : held' = Each(order, Do, held)
        /\ UNCHANGED <<parent, owner, view, invited, strayed, foreign, excused>>

(* updateTeam, users.delete, of whoever is named, in the team or not: an owner goes on reading. *)
LeaveTeam(u) ==
    LET Do(r, n) == Revoke(r, parent, n, u, IF owner[n] = u THEN MemberBits \ {"READ"} ELSE MemberBits)
    IN  /\ Call
        /\ team' = team \ {u}
        /\ excused' = excused \cup {u}
        /\ \E order \in Orders(Places) : held' = Each(order, Do, held)
        /\ UNCHANGED <<parent, owner, view, invited, strayed, foreign>>

(* copyOneFolder, without the folders below; with the members when withMembers. *)
Copy(f, g, p, u, withMembers) ==
    LET up == [parent EXCEPT ![g] = p]
        Do(r, x) == IF p \in Folders /\ Unified(r, p, x) # {} THEN ResetInherited(r, up, g, x) ELSE r
        Joined(order) ==
            IF withMembers THEN Each(order, Do, GrantAgain(held, up, g, OwnRows(held, f), order)) ELSE held
    IN  /\ Call
        /\ parent[f] # None /\ parent[g] = None /\ p \in There
        /\ withMembers => Grantable(OwnRows(held, f))
        /\ parent' = up
        /\ owner' = [owner EXCEPT ![g] = u]
        /\ excused' = excused \cup {u}
        /\ view' = [view EXCEPT ![g] = view[f]]
        /\ invited' = [invited EXCEPT ![g] = invited[f]]
        /\ \E order \in Orders(Users) :
              held' = Grant(Grant(CopyUnified(Joined(order), up, f, g, "own", order), up, g, u, {"OWNER"}),
                            up, g, u, RUD)
        /\ foreign' = IF Known(f) THEN foreign ELSE foreign \cup {g}
        /\ UNCHANGED <<team, strayed>>

(* remove: by the time mergeChildrenFirstLevelPermissions looks for the children, there are none. *)
RemoveFolder(f) ==
    /\ Call
    /\ parent[f] # None
    /\ invited[f] = None
    /\ parent' = [g \in Folders |-> IF g = f THEN None ELSE IF parent[g] = f THEN Nowhere ELSE parent[g]]
    /\ held' = Without(held, f)
    /\ strayed' = (strayed \cup Below(parent, f)) \ {f}
    /\ foreign' = foreign \ {f}
    /\ view' = [view EXCEPT ![f] = "PUBLIC"]
    /\ owner' = [owner EXCEPT ![f] = owner[Space]]
    /\ UNCHANGED <<team, invited, excused>>

MemberNext == \E n \in Nodes, m \in Users :
    \/ \E role \in Roles : InsertMember(n, m, role) \/ UpdateMember(n, m, role)
    \/ DeleteMember(n, m)
    \/ \E kept \in Roles \cup {None} : ChangeOwner(n, m, kept)
TeamNext == \E n \in Nodes, u \in Users :
    \/ \E role \in Roles : InviteTeam(n, role)
    \/ DismissTeam(n)
    \/ n = Space /\ (JoinTeam(u) \/ LeaveTeam(u))

FolderNext == \E f \in Folders, p \in Nodes :
    \/ \E u \in Users, v \in Views, member \in SomeMember : Create(f, p, u, v, member)
    \/ Move(f, p)
    \/ \E g \in Folders, u \in Users, withMembers \in BOOLEAN : Copy(f, g, p, u, withMembers)
    \/ p = Space /\ \E v \in Views : UpdateView(f, v)
    \/ p = Space /\ RemoveFolder(f)

Next == MemberNext \/ TeamNext \/ FolderNext
Spec == Init /\ [][Next]_folderVars

-----------------------------------------------------------------------------
(* Every variable has its type, and what is no folder has no rows, nothing below it and no team. *)
TypeOK ==
    /\ parent \in [Folders -> Nodes \cup {None, Nowhere}]
    /\ owner \in [Nodes -> Users]
    /\ view \in [Nodes -> Views]
    /\ held \in Tables
    /\ team \subseteq Users /\ invited \in [Nodes -> Roles \cup {None}]
    /\ strayed \cup foreign \subseteq There \ {Space} /\ excused \subseteq Users
    /\ Forest(parent)
    /\ \A f \in Folders : parent[f] = None =>
          /\ \A u \in Users : Unified(held, f, u) = {}
          /\ \A g \in Folders : parent[g] # f
          /\ invited[f] = None
    /\ accessed \in 0..MaxCalls

(* Nothing is inherited that a row of the user on some folder above does not grant: what was
   taken away above is gone below.  (cascadeRevokeToChildrenInherited,
   deleteAllPermissionsForEntity before a new place.)  Two things the code lets through are left
   out: OWNER and PRIVATE, and what hung below a folder that was moved or deleted for good. *)
Backed ==
    \A f \in Folders, u \in Users : Settled(f) =>
        Inherited(held, f, u) \ Unshared \subseteq UNION {Own(held, g, u) : g \in Above(parent, f)}

(* Whoever can read a folder can read the space, or was an owner or in a team: taking a member
   or a team out of a space takes it out of all its folders that are shown in task management
   (getSpaceChildrenFoldersIds).  Left out are the other folders, which keep the member, and what
   hangs below them; what hung below a folder that was moved or deleted for good; and what was
   moved or copied from such a place.  Left out are the users updateTeam took out of a team: that
   takes the space from a user whom a folder of it still has as a member. *)
ReadersAreMembers ==
    \A f \in Folders, u \in Users \ excused :
        (Known(f) /\ "READ" \in Unified(held, f, u)) => "READ" \in Unified(held, Space, u)

(* A folder that no one else holds OWNER on has an owner with a row of its own for OWNER after any
   call, be it a new one: no call leaves it to nobody (changeOwnerOfAFolder, resetPermissions). *)
OwnerKept ==
    [][\A n \in Nodes :
          (n \in There /\ Owners(held, n) = {owner[n]} /\ n \in There') =>
              "OWNER" \in Own(held', n, owner'[n])]_folderVars

(* A new member has its rights on every folder below, as far as nothing in between is private. *)
GrantReaches ==
    [][Same => \A n \in Nodes, m \in Users, role \in Roles :
          InsertMember(n, m, role) =>
              \A f \in {n} \cup Below(parent, n) :
                  (\A g \in {n} \cup (Above(parent, f) \cap Below(parent, n)) : ~IsPrivate(held', g)) =>
                      RoleBits[role] \subseteq Unified(held', f, m)]_folderVars
=============================================================================
