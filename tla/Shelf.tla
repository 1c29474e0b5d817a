--------------------------------- MODULE Shelf ---------------------------------
(***************************************************************************)
(* What users put in order and mark: favourite folders and spaces          *)
(* (folder-base.service.ts, space-base.service.ts), tree views             *)
(* (tree-view-base.service.ts), and the shared rows of which one is marked *)
(* (importance-base.service.ts, displacement-group-base.service.ts).       *)
(*                                                                         *)
(* Nothing locks what it reads.  A call that reads and then writes has two *)
(* steps, with other calls between them: it writes what it made of what it *)
(* read, in one step, as rows written stay locked until the call commits.  *)
(* A call that only writes has one.                                        *)
(***************************************************************************)
EXTENDS Integers, FiniteSets

CONSTANTS Readers, Shelved, SpacesOf, Views, Rows,   \* users, folders and spaces, tree views, importances and codes
          Nobody,
          MaxShelfCalls, MaxAt                       \* bounds: calls made, positions named

ASSUME ShelfAssumption ==
    SpacesOf \subseteq Shelved /\ IsFiniteSet(Shelved) /\ Nobody \notin Readers /\ {MaxShelfCalls, MaxAt} \subseteq Nat

Absent == -1
Gone == -2      \* where a view stood that was removed since it was read

VARIABLES
    place,     \* folder_favourite: index of what each user marked
    viewer,    \* tree_view: its user
    viewAt,    \* its index
    active,    \* the views that are active
    marked,    \* the rows with default, or of the stage Completed
    known,     \* the rows there are
    reading,   \* calls that have read and not written, with what they read or will write
    doubled,   \* ghost: a row was marked after the marks had changed that the call read, or was not asked about
    borrowed,  \* ghost: users whose view another user activated, or a view updated as active
    shelfCalls

shelfVars == <<place, viewer, viewAt, active, marked, known, reading, doubled, borrowed, shelfCalls>>
favVars == <<place>>
viewVars == <<viewer, viewAt, active>>
rowVars == <<marked, known>>

ShelfCall == shelfCalls < MaxShelfCalls /\ shelfCalls' = shelfCalls + 1
Favourites(u) == {x \in Shelved : place[u][x] # Absent}
Like(x) == IF x \in SpacesOf THEN SpacesOf ELSE Shelved \ SpacesOf
Mine(u) == {v \in Views : viewer[v] = u}
Larger(a, b) == IF a > b THEN a ELSE b
NextPlace(u, x) ==
    LET used == {place[u][y] : y \in Favourites(u) \cap Like(x)} IN
    IF used = {} THEN 0 ELSE 1 + CHOOSE i \in used : \A j \in used : i >= j
Apart(S, at) == \A a, b \in S : a # b => at[a] # at[b]
FavouritesApart(p, u) == \A x, y \in Shelved : (x # y /\ Like(x) = Like(y) /\ p[u][x] # Absent) => p[u][x] # p[u][y]

Reads(call) == ShelfCall /\ reading' = reading \cup {call} /\ UNCHANGED <<favVars, viewVars, rowVars, doubled, borrowed>>

ShelfInit ==
    /\ place = [u \in Readers |-> [x \in Shelved |-> Absent]]
    /\ viewer = [v \in Views |-> Nobody] /\ viewAt = [v \in Views |-> 0] /\ active = {}
    /\ marked = {} /\ known = {} /\ reading = {} /\ doubled = FALSE /\ borrowed = {} /\ shelfCalls = 0

-----------------------------------------------------------------------------
(* markFolderFavourite: the next place among folders, or among spaces, then the insertion *)
ReadFavourites(u, x) == Reads([op |-> "MARK", user |-> u, what |-> x, next |-> NextPlace(u, x)])
MarkFolderFavourite(r) ==
    /\ r.op = "MARK" /\ place[r.user][r.what] = Absent
    /\ place' = [place EXCEPT ![r.user][r.what] = r.next]
    /\ reading' = reading \ {r}
    /\ UNCHANGED <<viewVars, rowVars, doubled, borrowed, shelfCalls>>

(* unmarkFavourite: who read the row finds it no more, nor one marked since, which is another. *)
UnmarkFavourite(u, x) ==
    /\ ShelfCall /\ place' = [place EXCEPT ![u][x] = Absent]
    /\ reading' = {IF r.op = "FAVOURITE" /\ r.user = u THEN [r EXCEPT !.puts[x] = Absent] ELSE r : r \in reading}
    /\ UNCHANGED <<viewVars, rowVars, doubled, borrowed>>

(* updateFavouritePosition numbers all favourites of the user anew, folders and spaces; what is
   not among them makes the call fail.  Equal places come in any order. *)
ReadOrder(u, x, k) ==
    LET rest == Favourites(u) \ {x}
        here == IF k > Cardinality(rest) THEN Cardinality(rest) ELSE k IN
    /\ x \in Favourites(u)
    /\ \E at \in [rest -> 0..Cardinality(rest)] :
          /\ Apart(rest, at) /\ \A y \in rest : at[y] # here
          /\ \A y, z \in rest : place[u][y] < place[u][z] => at[y] < at[z]
          /\ Reads([op |-> "FAVOURITE", user |-> u,
                    puts |-> [y \in Shelved |-> IF y = x THEN here ELSE IF y \in rest THEN at[y] ELSE Absent]])
UpdateFavouritePosition(r) ==
    /\ r.op = "FAVOURITE"
    /\ place' = [place EXCEPT ![r.user] = [y \in Shelved |-> IF r.puts[y] = Absent THEN @[y] ELSE r.puts[y]]]
    /\ reading' = reading \ {r}
    /\ UNCHANGED <<viewVars, rowVars, doubled, borrowed, shelfCalls>>

(* updateFavouriteSpacePosition: to 0 the others, folders as well, are numbered from 1; further
   down those between the place read and the new one, folders as well, close up; further up nothing
   makes room. *)
ReadSpace(u, x, k) ==
    /\ x \in SpacesOf /\ (k # 0 => x \in Favourites(u))
    /\ Reads([op |-> "SPACE", user |-> u, what |-> x, to |-> k, saw |-> place[u]])
UpdateFavouriteSpacePosition(r) ==
    LET u == r.user  x == r.what  k == r.to  rest == Favourites(u) \ {x} IN
    /\ r.op = "SPACE"
    /\ \E row \in [rest -> 1..Cardinality(rest)] :
          /\ Apart(rest, row) /\ \A y, z \in rest : place[u][y] < place[u][z] => row[y] < row[z]
          /\ place' = [place EXCEPT ![u] = [y \in Shelved |->
                CASE @[y] = Absent -> Absent
                  [] @[y] # Absent /\ y = x -> k
                  [] y \in rest /\ k = 0 -> row[y]
                  [] y \in rest /\ k # 0 /\ r.saw[x] < @[y] /\ @[y] <= k -> @[y] - 1
                  [] OTHER -> @[y]]]
    /\ reading' = reading \ {r}
    /\ UNCHANGED <<viewVars, rowVars, doubled, borrowed, shelfCalls>>

-----------------------------------------------------------------------------
(* Tree views: create takes the index it is given. *)
CreateView(u, v, k) ==
    /\ ShelfCall /\ viewer[v] = Nobody
    /\ viewer' = [viewer EXCEPT ![v] = u] /\ viewAt' = [viewAt EXCEPT ![v] = k]
    /\ UNCHANGED <<favVars, active, rowVars, reading, doubled, borrowed>>

(* update: whoever owns it *)
UpdateView(v, k, on) ==
    /\ ShelfCall /\ viewer[v] # Nobody
    /\ viewAt' = [viewAt EXCEPT ![v] = k] /\ active' = IF on THEN active \cup {v} ELSE active \ {v}
    /\ borrowed' = IF on THEN borrowed \cup {viewer[v]} ELSE borrowed
    /\ UNCHANGED <<favVars, viewer, rowVars, reading, doubled>>
RemoveView(v) ==
    /\ ShelfCall /\ viewer[v] # Nobody
    /\ viewer' = [viewer EXCEPT ![v] = Nobody] /\ active' = active \ {v} /\ viewAt' = [viewAt EXCEPT ![v] = 0]
    /\ reading' = {IF r.op = "VIEW" /\ r.saw[v] # Absent THEN [r EXCEPT !.saw[v] = Gone] ELSE r : r \in reading}
    /\ UNCHANGED <<favVars, rowVars, doubled, borrowed>>

\* mutant: the others stay active
SetActiveToo(u, v) ==
    /\ ShelfCall /\ viewer[v] # Nobody
    /\ active' = active \cup {v}
    /\ borrowed' = IF viewer[v] # u THEN borrowed \cup {viewer[v]} ELSE borrowed
    /\ UNCHANGED <<favVars, viewer, viewAt, rowVars, reading, doubled>>

(* setActive: the caller's others go off; the view goes on, whosever it is *)
SetActive(u, v) ==
    /\ ShelfCall /\ viewer[v] # Nobody
    /\ active' = (active \ Mine(u)) \cup {v}
    /\ borrowed' = IF viewer[v] # u THEN borrowed \cup {viewer[v]} ELSE borrowed \ {u}
    /\ UNCHANGED <<favVars, viewer, viewAt, rowVars, reading, doubled>>

\* mutant: the view that stands where this one goes is not moved
ShiftedShort(u, v, k) ==
    LET old == viewAt[v]  others == Mine(u) \ {v} IN
    [w \in Views |->
        CASE w = v -> k
          [] w \in others /\ k > old /\ viewAt[w] \in old..(k - 1) -> Larger(viewAt[w] - 1, 0)
          [] w \in others /\ k <= old /\ viewAt[w] \in (k + 1)..old -> viewAt[w] + 1
          [] OTHER -> Absent]

(* updatePosition: the user's views between the two places, as they are read, close up or make
   room; the others are not written. *)
Shifted(u, v, k) ==
    LET old == viewAt[v]  others == Mine(u) \ {v} IN
    [w \in Views |->
        CASE w = v -> k
          [] w \in others /\ k > old /\ viewAt[w] \in old..k -> Larger(viewAt[w] - 1, 0)
          [] w \in others /\ k <= old /\ viewAt[w] \in k..old -> viewAt[w] + 1
          [] OTHER -> Absent]
Ordered(u) == [w \in Views |-> IF w \in Mine(u) THEN viewAt[w] ELSE Absent]
ReadViews(u, v, k) ==
    /\ v \in Mine(u)
    /\ Reads([op |-> "VIEW", user |-> u, puts |-> Shifted(u, v, k), saw |-> Ordered(u)])
UpdatePosition(r) ==
    /\ r.op = "VIEW"
    /\ viewAt' = [w \in Views |-> IF r.puts[w] = Absent \/ r.saw[w] = Gone THEN viewAt[w] ELSE r.puts[w]]
    /\ reading' = reading \ {r}
    /\ UNCHANGED <<favVars, viewer, active, rowVars, doubled, borrowed, shelfCalls>>

-----------------------------------------------------------------------------
(* createOne of an importance and createOneCode of a group: the row marked default, or of the
   stage Completed, is looked for and then this one is inserted. *)
ReadMarked(x, mark) ==
    /\ x \notin known /\ ~(mark /\ marked # {})
    /\ Reads([op |-> "CREATE", what |-> x, mark |-> mark, saw |-> marked])
CreateOne(r) ==
    /\ r.op = "CREATE" /\ r.what \notin known
    /\ known' = known \cup {r.what} /\ marked' = IF r.mark THEN marked \cup {r.what} ELSE marked
    /\ doubled' = (doubled \/ (r.mark /\ marked # r.saw))
    /\ reading' = reading \ {r}
    /\ UNCHANGED <<favVars, viewVars, borrowed, shelfCalls>>

(* updateOne of an importance looks for the default as well, which may be any of several: itself
   does not count. *)
ReadDefault(x, mark) ==
    /\ x \in known /\ (mark => (marked = {} \/ x \in marked))
    /\ Reads([op |-> "UPDATE", what |-> x, mark |-> mark, saw |-> marked])
UpdateOne(r) ==
    /\ r.op = "UPDATE"
    /\ marked' = IF r.mark THEN marked \cup {r.what} ELSE marked \ {r.what}
    /\ doubled' = (doubled \/ (r.mark /\ marked # r.saw))
    /\ reading' = reading \ {r}
    /\ UNCHANGED <<favVars, viewVars, known, borrowed, shelfCalls>>

(* updateOneCode does not look whether the group has the stage. *)
UpdateOneCode(x) ==
    /\ ShelfCall /\ x \in known
    /\ marked' = marked \cup {x} /\ doubled' = (doubled \/ marked \ {x} # {})
    /\ UNCHANGED <<favVars, viewVars, known, reading, borrowed>>

(* deleteOne; an update of the row then updates none. *)
DeleteOne(x) ==
    /\ ShelfCall /\ x \in known
    /\ known' = known \ {x} /\ marked' = marked \ {x}
    /\ reading' = {r \in reading : ~(r.op = "UPDATE" /\ r.what = x)}
    /\ UNCHANGED <<favVars, viewVars, doubled, borrowed>>

(* A call is refused, or its process dies. *)
Abandon(r) == reading' = reading \ {r} /\ UNCHANGED <<favVars, viewVars, rowVars, doubled, borrowed, shelfCalls>>

ShelfNext ==
    \/ \E u \in Readers, x \in Shelved : ReadFavourites(u, x) \/ UnmarkFavourite(u, x)
    \/ \E u \in Readers, x \in Shelved, k \in 0..MaxAt : ReadOrder(u, x, k) \/ ReadSpace(u, x, k)
    \/ \E u \in Readers, v \in Views : SetActive(u, v)
    \/ \E u \in Readers, v \in Views, k \in 0..MaxAt : CreateView(u, v, k) \/ ReadViews(u, v, k)
    \/ \E v \in Views, k \in 0..MaxAt, on \in BOOLEAN : UpdateView(v, k, on)
    \/ \E v \in Views : RemoveView(v)
    \/ \E x \in Rows, mark \in BOOLEAN : ReadMarked(x, mark) \/ ReadDefault(x, mark)
    \/ \E x \in Rows : UpdateOneCode(x) \/ DeleteOne(x)
    \/ \E r \in reading :
          \/ MarkFolderFavourite(r) \/ UpdateFavouritePosition(r) \/ UpdateFavouriteSpacePosition(r)
          \/ UpdatePosition(r) \/ CreateOne(r) \/ UpdateOne(r) \/ Abandon(r)

ShelfSpec == ShelfInit /\ [][ShelfNext]_shelfVars

-----------------------------------------------------------------------------
(* What is to be there once: unless a call marked a row after the marks it had looked at changed, as
   two that overlap may, or a code was given the stage later, one importance at most is the default;
   unless another user did it or it was written as active, one view at most of a user is active. *)
OneEach ==
    /\ ~doubled => Cardinality(marked) <= 1
    /\ \A u \in Readers \ borrowed : Cardinality(active \cap Mine(u)) <= 1

(* What a call read is no more so: the next number when it marks; the order it moves a space or a
   view in.  A call that numbers all favourites anew minds only those that came since: two of
   these may overlap, and whatever is unmarked between. *)
Stale(r) ==
    CASE r.op = "MARK" -> NextPlace(r.user, r.what) # r.next
      [] r.op = "FAVOURITE" -> \E y \in Favourites(r.user) : r.puts[y] = Absent
      [] r.op = "SPACE" -> r.to # 0 /\ r.saw # place[r.user]
      [] r.op = "VIEW" -> r.saw # Ordered(r.user)
      [] OTHER -> FALSE

(* A space moved up to a place other than the first meets the one it finds there; moved down from a
   number that a folder has as well, it lets the next folder close up onto that one. *)
Meets(r) ==
    /\ r.op = "SPACE" /\ r.to # 0
    /\ LET old == r.saw[r.what] IN
       r.to < old \/ (r.to > old /\ \E y \in Favourites(r.user) \ SpacesOf : place[r.user][y] = old)

(* No call that marks or moves puts two views of a user, or two favourite folders, or two favourite
   spaces, in one place where there were none, but for those whose reading has gone stale and for
   the space that meets another. *)
PlacesStep ==
    \A r \in reading \ reading' : ~Stale(r) /\ ~Meets(r) =>
        /\ r.op \in {"MARK", "FAVOURITE", "SPACE"} /\ FavouritesApart(place, r.user) => FavouritesApart(place', r.user)
        /\ r.op = "VIEW" /\ Apart(Mine(r.user), viewAt) => Apart(Mine(r.user)', viewAt')
PlacesApart == [][PlacesStep]_shelfVars
=============================================================================
