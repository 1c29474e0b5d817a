---------------------------- MODULE TaskTree_proofs ----------------------------
(***************************************************************************)
(* Proofs about TaskTree, for any folders, tasks, users and owners, any    *)
(* ids that contain one another and any bounds.                            *)
(***************************************************************************)
EXTENDS TaskTree, Recursion, FiniteSetTheorems, SequenceTheorems, TLAPS

-----------------------------------------------------------------------------
(* What is reached along a set of edges *)

LEMMA ReachIsClosed ==
    ASSUME NEW E, NEW S
    PROVE  Closed(E, Reach(E, S)) /\ S \subseteq Reach(E, S)
BY DEF Reach, Closed

LEMMA ReachIsLeast ==
    ASSUME NEW E, NEW S, NEW W, Closed(E, W), S \subseteq W
    PROVE  Reach(E, S) \subseteq W
<1> DEFINE ends == {e[2] : e \in E}
           T == S \cup (W \cap ends)
<1>1. Closed(E, T) /\ S \subseteq T /\ T \subseteq W
  BY DEF Closed
<1>2. T \in {S \cup U : U \in SUBSET ends}
  OBVIOUS
<1> QED  BY <1>1, <1>2 DEF Reach

LEMMA ReachIsEnds ==
    ASSUME NEW E, NEW S
    PROVE  Reach(E, S) \subseteq S \cup {e[2] : e \in E}
BY DEF Reach

(* Fewer edges reach less, from fewer nodes. *)
LEMMA FewerReach ==
    ASSUME NEW E, NEW D \in SUBSET E, NEW S, NEW T \in SUBSET S
    PROVE  Reach(D, T) \subseteq Reach(E, S)
<1>1. Closed(D, Reach(E, S)) /\ T \subseteq Reach(E, S)
  BY ReachIsClosed DEF Closed
<1> QED  BY <1>1, ReachIsLeast

(* From a node one reaches the node, and what one reaches from below it. *)
LEMMA ReachFromOne ==
    ASSUME NEW E, NEW x
    PROVE  Reach(E, {x}) = {x} \cup Reach(E, Kids(E, x))
<1> DEFINE B == Reach(E, Kids(E, x))
<1>1. Closed(E, B) /\ Kids(E, x) \subseteq B
  BY ReachIsClosed
<1>2. Closed(E, {x} \cup B)
  BY <1>1 DEF Closed, Kids
<1>3. Reach(E, {x}) \subseteq {x} \cup B
  BY <1>2, ReachIsLeast
<1>4. Closed(E, Reach(E, {x})) /\ {x} \subseteq Reach(E, {x})
  BY ReachIsClosed
<1>5. Kids(E, x) \subseteq Reach(E, {x})
  BY <1>4 DEF Closed, Kids
<1>6. B \subseteq Reach(E, {x})
  BY <1>4, <1>5, ReachIsLeast
<1> QED  BY <1>3, <1>4, <1>6

(* What is reached from what is reached is reached. *)
LEMMA ReachOn ==
    ASSUME NEW E, NEW S, NEW x \in Reach(E, S)
    PROVE  Reach(E, {x}) \subseteq Reach(E, S)
BY ReachIsClosed, ReachIsLeast

(* Whatever is reached and no start hangs below something that is reached. *)
LEMMA ReachBack ==
    ASSUME NEW E, NEW S, NEW x \in Reach(E, S), x \notin S
    PROVE  \E e \in E : e[2] = x /\ e[1] \in Reach(E, S)
<1> DEFINE W == S \cup {z \in Reach(E, S) : \E e \in E : e[2] = z /\ e[1] \in Reach(E, S)}
<1>1. Closed(E, Reach(E, S)) /\ S \subseteq Reach(E, S)
  BY ReachIsClosed
<1>2. Closed(E, W)
  BY <1>1 DEF Closed
<1>3. Reach(E, S) \subseteq W
  BY <1>2, ReachIsLeast
<1> QED  BY <1>3

-----------------------------------------------------------------------------
(* Bags of rows *)

ABag(r) == \A s \in DOMAIN r : r[s] \in Nat \ {0}

IsFunction(r) == r = [s \in DOMAIN r |-> r[s]]

LEMMA Added ==
    ASSUME NEW r, NEW X, ABag(r)
    PROVE  LET q == r (+) SetToBag(X)
           IN  /\ DOMAIN q = DOMAIN r \cup X /\ ABag(q) /\ IsFunction(q)
               /\ \A s \in DOMAIN q : q[s] = IF s \notin X THEN r[s] ELSE IF s \in DOMAIN r THEN r[s] + 1 ELSE 1
BY DEF ABag, IsFunction, (+), SetToBag

LEMMA TakenOut ==
    ASSUME NEW r, NEW X, ABag(r)
    PROVE  LET q == r (-) SetToBag(X)
           IN  /\ \A s : s \in DOMAIN q <=> s \in DOMAIN r /\ (s \in X => r[s] > 1)
               /\ ABag(q) /\ IsFunction(q)
               /\ \A s \in DOMAIN q : q[s] = IF s \in X THEN r[s] - 1 ELSE r[s]
BY DEF ABag, IsFunction, (-), SetToBag

LEMMA Dropped ==
    ASSUME NEW r, NEW gone, ABag(r)
    PROVE  LET q == Without(r, gone)
           IN  /\ DOMAIN q = DOMAIN r \ gone /\ ABag(q) /\ IsFunction(q)
               /\ \A s \in DOMAIN q : q[s] = r[s]
BY DEF ABag, IsFunction, Without, Restrict

(* The rows there may be when the tasks in K are known. *)
Places(K) == Folders \X (K \cup {None}) \X K
AllRows(K) == UNION {[S -> 1..MaxCopies] : S \in SUBSET Places(K)}

LEMMA RowsAre ==
    ASSUME NEW K, NEW r \in AllRows(K)
    PROVE  ABag(r) /\ IsFunction(r) /\ DOMAIN r \subseteq Places(K) /\ \A s \in DOMAIN r : r[s] \in 1..MaxCopies
<1>1. PICK S \in SUBSET Places(K) : r \in [S -> 1..MaxCopies]
  BY DEF AllRows
<1>2. DOMAIN r = S /\ IsFunction(r) /\ \A s \in S : r[s] \in 1..MaxCopies
  BY <1>1 DEF IsFunction
<1> QED  BY <1>2, BoundsAssumption DEF ABag

LEMMA AreRows ==
    ASSUME NEW K, NEW r, ABag(r), IsFunction(r), DOMAIN r \subseteq Places(K),
           \A s \in DOMAIN r : r[s] <= MaxCopies
    PROVE  r \in AllRows(K)
<1>1. \A s \in DOMAIN r : r[s] \in 1..MaxCopies
  BY BoundsAssumption DEF ABag
<1>2. r \in [DOMAIN r -> 1..MaxCopies]
  BY <1>1, Zenon DEF IsFunction
<1> QED  BY <1>2 DEF AllRows

LEMMA FitsRows ==
    ASSUME NEW K, NEW r, ABag(r), IsFunction(r), DOMAIN r \subseteq Places(K), Fits(r)
    PROVE  r \in AllRows(K)
<1>1. \A s \in DOMAIN r : r[s] <= MaxCopies
  BY BoundsAssumption DEF Fits, ABag
<1> QED  BY <1>1, AreRows

-----------------------------------------------------------------------------
(* Types *)

TaskInv == TypeOK /\ rows \in AllRows(known) /\ IsFiniteSet(known)

LEMMA EdgesAre ==
    ASSUME NEW K \in SUBSET Tasks, NEW r, DOMAIN r \subseteq Places(K), NEW f
    PROVE  /\ \A a, b : <<a, b>> \in EdgesOf(r, f) <=> <<f, a, b>> \in DOMAIN r
           /\ EdgesOf(r, f) \subseteq (K \cup {None}) \X K
BY DEF EdgesOf, Places

LEMMA TargetsKnown ==
    ASSUME NEW K, NEW E \in SUBSET ((K \cup {None}) \X K), NEW S
    PROVE  Reach(E, S) \subseteq S \cup K
BY ReachIsEnds

LEMMA UnderKnown ==
    ASSUME TaskInv, NEW f, NEW t
    PROVE  Under(f, t) \subseteq Live
<1>1. LiveOnly(Edges(f)) \subseteq (known \cup {None}) \X known
  BY RowsAre, EdgesAre DEF TaskInv, TypeOK, Edges, LiveOnly
<1>2. Kids(LiveOnly(Edges(f)), t) \subseteq Live
  BY DEF Kids, LiveOnly
<1>3. {e[2] : e \in LiveOnly(Edges(f))} \subseteq Live
  BY DEF LiveOnly
<1> QED  BY <1>2, <1>3, ReachIsEnds DEF Under

-----------------------------------------------------------------------------
(* What the calls make of the rows *)

LEMMA RowsNow ==
    ASSUME TaskInv
    PROVE  /\ ABag(rows) /\ IsFunction(rows) /\ known \subseteq Tasks
           /\ DOMAIN rows \subseteq Places(known) /\ DOMAIN rows \subseteq Slots
BY RowsAre DEF TaskInv, TypeOK, Places, Slots, Parents

LEMMA CreateRows ==
    ASSUME TaskInv, NEW t \in Tasks, NEW f \in Folders, NEW p \in Parents, Create(t, f, p)
    PROVE  LET s0 == <<f, p, t>> IN
           /\ s0 \notin DOMAIN rows /\ DOMAIN rows' = DOMAIN rows \cup {s0}
           /\ rows'[s0] = 1 /\ \A s \in DOMAIN rows : rows'[s] = rows[s]
           /\ p \in known \cup {None} /\ t \notin known /\ known' = known \cup {t} /\ rows' \in AllRows(known')
<1> DEFINE s0 == <<f, p, t>>
<1>1. t \notin known /\ known' = known \cup {t} /\ rows' = rows (+) SetToBag({s0}) /\ Fits(rows')
  BY DEF Create
<1>2. p \in known \cup {None}
  <2>1. ASSUME NEW g \in Folders, In(g, p)  PROVE p \in known
    BY <2>1, RowsNow, EdgesAre DEF In, Edges
  <2> QED  BY <2>1 DEF Create
<1>3. s0 \notin DOMAIN rows /\ s0 \in Places(known') /\ Places(known) \subseteq Places(known')
  BY <1>1, <1>2, RowsNow DEF Places
<1>4. /\ DOMAIN rows' = DOMAIN rows \cup {s0} /\ ABag(rows') /\ IsFunction(rows')
      /\ \A s \in DOMAIN rows' : rows'[s] = IF s \notin {s0} THEN rows[s] ELSE IF s \in DOMAIN rows THEN rows[s] + 1 ELSE 1
  <2> HIDE DEF s0
  <2> QED  BY <1>1, RowsNow, Added
<1>5. DOMAIN rows' \subseteq Places(known')
  BY <1>3, <1>4, RowsNow
<1>6. rows' \in AllRows(known')
  BY <1>1, <1>4, <1>5, FitsRows
<1> HIDE DEF s0
<1>7. /\ s0 \notin DOMAIN rows /\ DOMAIN rows' = DOMAIN rows \cup {s0}
      /\ rows'[s0] = 1 /\ \A s \in DOMAIN rows : rows'[s] = rows[s]
  BY <1>3, <1>4
<1> QED  BY <1>1, <1>2, <1>6, <1>7 DEF s0

(* One row s0 has become s1. *)
Rehung(s0, s1) ==
    /\ s0 \in DOMAIN rows
    /\ DOMAIN rows' = {s \in DOMAIN rows : s = s0 => rows[s0] > 1} \cup {s1}
    /\ s1 \notin DOMAIN rows => rows'[s1] = 1
    /\ \A s \in DOMAIN rows \ {s0, s1} : rows'[s] = rows[s]

LEMMA ReparentRows ==
    ASSUME TaskInv, NEW t \in Tasks, NEW f \in Folders, NEW old \in Parents, NEW new \in Parents,
           Reparent(t, f, old, new)
    PROVE  /\ rows' \in AllRows(known) /\ new # t
           /\ \E from \in Parents : from # new /\ Rehung(<<f, from, t>>, <<f, new, t>>)
<1>1. new # t /\ Fits(rows') /\ new \in known \cup {None} /\ t \in known
  BY DEF Reparent, Live
<1>2. PICK from \in Parents :
         /\ <<from, t>> \in Edges(f) /\ from # new
         /\ rows' = (rows (-) SetToBag({<<f, from, t>>})) (+) SetToBag({<<f, new, t>>})
  BY DEF Reparent, Parents
<1> DEFINE s0 == <<f, from, t>>
           s1 == <<f, new, t>>
           r == rows (-) SetToBag({s0})
<1>3. s0 \in DOMAIN rows /\ s0 # s1 /\ s1 \in Places(known)
  BY <1>1, <1>2, RowsNow, EdgesAre DEF Edges, Places
<1>4. rows' = r (+) SetToBag({s1})
  BY <1>2
<1> HIDE DEF s0, s1
<1>5. /\ DOMAIN r = {s \in DOMAIN rows : s = s0 => rows[s0] > 1} /\ ABag(r)
      /\ \A s \in DOMAIN r : r[s] = IF s = s0 THEN rows[s] - 1 ELSE rows[s]
  BY RowsNow, TakenOut
<1> HIDE DEF r
<1>6. /\ DOMAIN rows' = DOMAIN r \cup {s1} /\ ABag(rows') /\ IsFunction(rows')
      /\ \A s \in DOMAIN rows' : rows'[s] = IF s \notin {s1} THEN r[s] ELSE IF s \in DOMAIN r THEN r[s] + 1 ELSE 1
  <2>1. ABag(r)
    BY <1>5
  <2> QED  BY <1>4, <2>1, Added, Zenon
<1>7. rows' \in AllRows(known)
  BY <1>1, <1>3, <1>5, <1>6, RowsNow, FitsRows
<1>8. /\ DOMAIN rows' = {s \in DOMAIN rows : s = s0 => rows[s0] > 1} \cup {s1}
      /\ s1 \notin DOMAIN rows => rows'[s1] = 1
      /\ \A s \in DOMAIN rows \ {s0, s1} : rows'[s] = rows[s]
  BY <1>3, <1>5, <1>6
<1>9. Rehung(s0, s1)
  BY <1>3, <1>8 DEF Rehung
<1> QED  BY <1>1, <1>2, <1>7, <1>9 DEF s0, s1

(* The rows a share to the folder leaves, and those it makes. *)
Left(to, all) == {s \in DOMAIN rows : s[1] = to => s[3] \notin all}
Shared(to, t, under, above) == {<<to, None, t>>} \cup {<<to, above[c], c>> : c \in under}

LEMMA ShareRows ==
    ASSUME TaskInv, NEW t \in Tasks, NEW from \in Folders, NEW to \in Folders, Share(t, from, to)
    PROVE  /\ rows' \in AllRows(known) /\ t \in known
           /\ \E above \in [Under(from, t) -> Under(from, t) \cup {t}] :
                /\ \A c \in Under(from, t) : <<above[c], c>> \in Edges(from)
                /\ DOMAIN rows' = Left(to, Under(from, t) \cup {t}) \cup Shared(to, t, Under(from, t), above)
                /\ \A s \in Left(to, Under(from, t) \cup {t}) : rows'[s] = rows[s]
                /\ \A s \in Shared(to, t, Under(from, t), above) : rows'[s] = 1
<1> DEFINE under == Under(from, t)
           all   == under \cup {t}
<1>1. t \in known /\ Fits(rows')
  BY DEF Share
<1>2. PICK above \in [under -> all] :
         /\ \A c \in under : <<above[c], c>> \in Edges(from)
         /\ rows' = Without(rows, {to} \X Parents \X all) (+)
                       SetToBag({<<to, None, t>>} \cup {<<to, above[c], c>> : c \in under})
  BY DEF Share
<1> DEFINE cut == {to} \X Parents \X all
           old == Left(to, all)
           new == Shared(to, t, under, above)
           r == Without(rows, cut)
<1>3. all \subseteq known
  BY <1>1, UnderKnown DEF Live
<1>4. new \subseteq Places(known) /\ \A s \in new : s[1] = to /\ s[3] \in all
  BY <1>1, <1>3 DEF Places, Shared
<1>5. rows' = r (+) SetToBag(new)
  BY <1>2 DEF Shared
<1>6. DOMAIN rows \ cut = old
  BY RowsNow DEF Slots, Left
<1> HIDE DEF under, cut, new
<1>7. DOMAIN r = old /\ ABag(r) /\ \A s \in old : r[s] = rows[s]
  <2>1. ABag(rows)
    BY RowsNow
  <2>2. DOMAIN r = DOMAIN rows \ cut /\ ABag(r) /\ \A s \in DOMAIN r : r[s] = rows[s]
    BY <2>1, Dropped, Zenon
  <2> QED  BY <1>6, <2>2
<1>8. new \cap old = {}
  BY <1>4 DEF Left
<1> HIDE DEF r, old, all
<1>9. /\ DOMAIN rows' = old \cup new /\ ABag(rows') /\ IsFunction(rows')
      /\ \A s \in DOMAIN rows' : rows'[s] = IF s \notin new THEN r[s] ELSE IF s \in old THEN r[s] + 1 ELSE 1
  <2>1. ABag(r)
    BY <1>7
  <2>2. /\ DOMAIN rows' = DOMAIN r \cup new /\ ABag(rows') /\ IsFunction(rows')
        /\ \A s \in DOMAIN rows' : rows'[s] = IF s \notin new THEN r[s] ELSE IF s \in DOMAIN r THEN r[s] + 1 ELSE 1
    <3> DEFINE q == r (+) SetToBag(new)
    <3>1. /\ DOMAIN q = DOMAIN r \cup new /\ ABag(q) /\ IsFunction(q)
          /\ \A s \in DOMAIN q : q[s] = IF s \notin new THEN r[s] ELSE IF s \in DOMAIN r THEN r[s] + 1 ELSE 1
      BY <2>1, Added, Zenon
    <3>2. rows' = q
      BY <1>5
    <3> HIDE DEF q
    <3> QED  BY <3>1, <3>2, Zenon
  <2> QED  BY <1>7, <2>2
<1>10. old \subseteq Places(known)
  BY RowsNow DEF old, Left
<1>11. rows' \in AllRows(known)
  BY <1>1, <1>4, <1>9, <1>10, FitsRows
<1>12. (\A s \in old : rows'[s] = rows[s]) /\ \A s \in new : rows'[s] = 1
  BY <1>7, <1>8, <1>9
<1> QED  BY <1>1, <1>2, <1>9, <1>11, <1>12 DEF under, old, new, all

(* Calls that only take rows away. *)
LEMMA FewerRows ==
    ASSUME TaskInv, NEW gone, rows' = Without(rows, gone)
    PROVE  /\ DOMAIN rows' = DOMAIN rows \ gone /\ ABag(rows') /\ IsFunction(rows')
           /\ \A s \in DOMAIN rows' : rows'[s] = rows[s] /\ rows[s] \in 1..MaxCopies
<1>1. \A s \in DOMAIN rows : rows[s] \in 1..MaxCopies
  BY RowsAre DEF TaskInv
<1>2. /\ DOMAIN rows' = DOMAIN rows \ gone /\ ABag(rows') /\ IsFunction(rows')
      /\ \A s \in DOMAIN rows' : rows'[s] = rows[s]
  <2>1. ABag(rows)
    BY RowsNow
  <2> QED  BY <2>1, Dropped, Zenon
<1> QED  BY <1>1, <1>2

LEMMA UnshareRows ==
    ASSUME TaskInv, NEW t \in Tasks, NEW f \in Folders, Unshare(t, f)
    PROVE  LET under == Under(f, t)
               gone  == ({f} \X (under \cup {t}) \X under) \cup {<<f, None, t>>}
           IN  /\ DOMAIN rows' = DOMAIN rows \ gone /\ \A s \in DOMAIN rows' : rows'[s] = rows[s]
               /\ rows' \in AllRows(known)
<1> DEFINE under == Under(f, t)
           gone  == ({f} \X (under \cup {t}) \X under) \cup {<<f, None, t>>}
<1>1. rows' = Without(rows, gone)
  BY DEF Unshare
<1> HIDE DEF gone
<1>2. /\ DOMAIN rows' = DOMAIN rows \ gone /\ ABag(rows') /\ IsFunction(rows')
      /\ \A s \in DOMAIN rows' : rows'[s] = rows[s] /\ rows[s] \in 1..MaxCopies
  BY <1>1, FewerRows
<1>3. rows' \in AllRows(known)
  BY <1>2, RowsNow, AreRows, BoundsAssumption
<1> QED  BY <1>2, <1>3 DEF gone

-----------------------------------------------------------------------------
(* The rounds of a move between folders *)

Takes(E, t, p, src, s) ==
    s = <<src, p, t>> \/ (s[1] = src /\ <<s[2], s[3]>> \in E /\ s[2] \in Reach(E, {t}))

LEMMA MovedRows ==
    ASSUME TaskInv, NEW r \in AllRows(known), NEW t \in Tasks, NEW p \in Parents, NEW src \in Folders, NEW dst \in Folders,
           <<p, t>> \in EdgesOf(r, src)
    PROVE  LET q == Moved(r, t, p, src, dst)
               E == LiveOnly(EdgesOf(r, src))
           IN  /\ ABag(q) /\ IsFunction(q) /\ DOMAIN q \subseteq Places(known)
               /\ \A s \in DOMAIN r : s \in DOMAIN q \/ Takes(E, t, p, src, s)
               /\ <<dst, None, t>> \in DOMAIN q
               /\ \A e \in E : e[1] \in Reach(E, {t}) => e = <<p, t>> \/ <<dst, e[1], e[2]>> \in DOMAIN q
               /\ \A s \in DOMAIN q : s[1] # dst =>
                     s \in DOMAIN r /\ q[s] <= r[s] /\ (Takes(E, t, p, src, s) => q[s] < r[s])
<1> DEFINE E == LiveOnly(EdgesOf(r, src))
           all == Reach(E, {t})
           main == <<src, p, t>>
           subs == {<<src, e[1], e[2]>> : e \in {d \in E : d[1] \in all}} \ {main}
           r1 == r (-) SetToBag({main} \cup subs)
           r2 == r1 (+) SetToBag({<<dst, None, t>>})
           more == {<<dst, s[2], s[3]>> : s \in subs}
           q == r2 (+) SetToBag(more)
<1>1. Moved(r, t, p, src, dst) = q
  BY DEF Moved
<1>2. ABag(r) /\ DOMAIN r \subseteq Places(known) /\ \A s \in DOMAIN r : r[s] \in 1..MaxCopies
  BY RowsAre
<1>3. known \subseteq Tasks /\ EdgesOf(r, src) \subseteq (known \cup {None}) \X known
      /\ \A a, b : <<a, b>> \in EdgesOf(r, src) <=> <<src, a, b>> \in DOMAIN r
  BY <1>2, RowsNow, EdgesAre
<1>4. E \subseteq EdgesOf(r, src)
  BY DEF LiveOnly
<1>5. main \in DOMAIN r /\ t \in known
  BY <1>3
<1>6. \A e \in E : e = <<e[1], e[2]>>
  BY <1>3, <1>4
<1>7. more \subseteq Places(known) /\ <<dst, None, t>> \in Places(known) /\ \A s \in more : s[1] = dst
  BY <1>3, <1>4, <1>5 DEF Places
<1>8. \A s \in DOMAIN r : s \in {main} \cup subs <=> Takes(E, t, p, src, s)
  <2> SUFFICES ASSUME NEW s \in DOMAIN r  PROVE s \in {main} \cup subs <=> Takes(E, t, p, src, s)
    OBVIOUS
  <2>1. s = <<s[1], s[2], s[3]>>
    BY <1>2 DEF Places
  <2>2. ASSUME NEW e \in E, e[1] \in all, s = <<src, e[1], e[2]>>
        PROVE  s[1] = src /\ <<s[2], s[3]>> \in E /\ s[2] \in all
    BY <1>6, <2>2
  <2>3. ASSUME s[1] = src, <<s[2], s[3]>> \in E, s[2] \in all
        PROVE  s \in {main} \cup subs
    BY <2>1, <2>3
  <2> QED  BY <2>2, <2>3 DEF Takes
<1>9. \A e \in E : e[1] \in all => e = <<p, t>> \/ <<dst, e[1], e[2]>> \in more
  <2> SUFFICES ASSUME NEW e \in E, e[1] \in all, e # <<p, t>>  PROVE <<dst, e[1], e[2]>> \in more
    OBVIOUS
  <2> DEFINE s == <<src, e[1], e[2]>>
  <2>1. s \in subs /\ <<dst, e[1], e[2]>> = <<dst, s[2], s[3]>>
    BY <1>6
  <2> HIDE DEF s, subs
  <2> QED  BY <2>1
<1> HIDE DEF subs, more, main, E
<1>10. /\ \A s : s \in DOMAIN r1 <=> s \in DOMAIN r /\ (s \in {main} \cup subs => r[s] > 1)
       /\ ABag(r1) /\ \A s \in DOMAIN r1 : r1[s] = IF s \in {main} \cup subs THEN r[s] - 1 ELSE r[s]
  <2>1. ABag(r)
    BY <1>2
  <2> QED  BY <2>1, TakenOut, Zenon
<1> HIDE DEF r1
<1>11. /\ DOMAIN r2 = DOMAIN r1 \cup {<<dst, None, t>>} /\ ABag(r2)
       /\ \A s \in DOMAIN r2 : r2[s] = IF s \notin {<<dst, None, t>>} THEN r1[s] ELSE IF s \in DOMAIN r1 THEN r1[s] + 1 ELSE 1
  <2>1. ABag(r1)
    BY <1>10
  <2> QED  BY <2>1, Added, Zenon
<1> HIDE DEF r2
<1>12. /\ DOMAIN q = DOMAIN r2 \cup more /\ ABag(q) /\ IsFunction(q)
       /\ \A s \in DOMAIN q : q[s] = IF s \notin more THEN r2[s] ELSE IF s \in DOMAIN r2 THEN r2[s] + 1 ELSE 1
  <2>1. ABag(r2)
    BY <1>11
  <2> QED  BY <2>1, Added, Zenon
<1> HIDE DEF q
<1>13. DOMAIN q \subseteq Places(known)
  BY <1>2, <1>7, <1>10, <1>11, <1>12
<1>14. \A s \in DOMAIN r : s \in DOMAIN q \/ Takes(E, t, p, src, s)
  BY <1>8, <1>10, <1>11, <1>12
<1>15. <<dst, None, t>> \in DOMAIN q /\ \A e \in E : e[1] \in all => e = <<p, t>> \/ <<dst, e[1], e[2]>> \in DOMAIN q
  BY <1>9, <1>11, <1>12
<1>16. \A s \in DOMAIN q : s[1] # dst =>
          s \in DOMAIN r /\ q[s] <= r[s] /\ (Takes(E, t, p, src, s) => q[s] < r[s])
  <2> SUFFICES ASSUME NEW s \in DOMAIN q, s[1] # dst
               PROVE  s \in DOMAIN r /\ q[s] <= r[s] /\ (Takes(E, t, p, src, s) => q[s] < r[s])
    OBVIOUS
  <2>1. s \notin more /\ s # <<dst, None, t>>
    BY <1>7
  <2>2. s \in DOMAIN r1 /\ q[s] = r1[s]
    BY <2>1, <1>11, <1>12
  <2>3. s \in DOMAIN r /\ r[s] \in 1..MaxCopies
    BY <1>2, <1>10, <2>2
  <2> QED  BY <1>8, <1>10, <2>2, <2>3, BoundsAssumption
<1> QED  BY <1>1, <1>12, <1>13, <1>14, <1>15, <1>16 DEF E

(* What keeps its truth from round to round holds in the end. *)
LEMMA RoundsKeep ==
    ASSUME NEW ts \in Batches, NEW src, NEW dst, NEW G, [rows |-> rows, brought |-> {}] \in G,
           \A b \in G, t \in Tasks : \A a \in Round(b, t, src, dst) : Fits(a.rows) => a \in G
    PROVE  AfterRounds(ts, src, dst) \subseteq G
<1> DEFINE start == {[rows |-> rows, brought |-> {}]}
           On(i, B) == UNION {{a \in Round(b, ts[i], src, dst) : Fits(a.rows)} : b \in B}
           go[i \in 0..Len(ts)] ==
              IF i = 0 THEN {[rows |-> rows, brought |-> {}]}
              ELSE UNION {{a \in Round(b, ts[i], src, dst) : Fits(a.rows)} : b \in go[i - 1]}
           K == Len(ts)
           D == SUBSET G
           V == [n \in 1..K |-> [B \in D |-> On(n, B)]]
<1>1. AfterRounds(ts, src, dst) = go[K]
  BY DEF AfterRounds
<1>2. go = CHOOSE g : g = [i \in 0..K |-> IF i = 0 THEN start ELSE On(i, g[i - 1])]
  OBVIOUS
<1>3. K \in Nat /\ \A i \in 1..K : ts[i] \in Tasks
  BY BoundsAssumption DEF Batches
<1>4. start \in D /\ \A n \in 1..K, B \in D : On(n, B) \in D
  <2>1. ASSUME NEW n \in 1..K, NEW B \in D  PROVE On(n, B) \subseteq G
    BY <1>3
  <2> QED  BY <2>1
<1> HIDE DEF go, start, On, K, D
<1>5. V \in Rules(D, K) /\ \A n \in 1..K, B \in D : V[n][B] = On(n, B)
  BY <1>4 DEF Rules
<1> HIDE DEF V
<1>6. PICK f \in [0..K -> D] : f[0] = start /\ \A n \in 1..K : f[n] = V[n][f[n - 1]]
  BY <1>3, <1>4, <1>5, Iterates
<1>7. \A n \in 0..K : n # 0 => n \in 1..K /\ n - 1 \in 0..K
  BY <1>3
<1>8. \A n \in 0..K : f[n] = IF n = 0 THEN start ELSE On(n, f[n - 1])
  BY <1>5, <1>6, <1>7
<1>9. f = [i \in 0..K |-> IF i = 0 THEN start ELSE On(i, f[i - 1])]
  BY <1>8
<1>10. go = [i \in 0..K |-> IF i = 0 THEN start ELSE On(i, go[i - 1])]
  BY <1>2, <1>9, Zenon
<1>11. \A i \in 0..K : go[i] = IF i = 0 THEN start ELSE On(i, go[i - 1])
  BY <1>10, Zenon
<1> DEFINE Q == {n \in 0..K : go[n] \in D}
<1>12. 0 \in Q
  BY <1>3, <1>4, <1>11
<1>13. ASSUME NEW n \in 1..K, n - 1 \in Q  PROVE n \in Q
  <2>1. n \in 0..K /\ n # 0 /\ go[n - 1] \in D
    BY <1>3, <1>13
  <2> QED  BY <2>1, <1>4, <1>11
<1>14. Q = 0..K
  <2> HIDE DEF Q
  <2>1. Q \subseteq 0..K
    BY DEF Q
  <2> QED  BY <1>3, <1>12, <1>13, <2>1, UpTo
<1>15. go[K] \in D
  BY <1>3, <1>14
<1> QED  BY <1>1, <1>15 DEF D

(* A folder in which every task has one row. *)
SingleRows(f) ==
    /\ \A s \in DOMAIN rows : s[1] = f => rows[s] = 1
    /\ \A d, e \in Edges(f) : d[2] = e[2] => d = e

(* What a move to dst makes of the rows: every task keeps a folder; other folders only lose
   rows; dst loses nothing of its tree; and what is seen in another one, as long as it is there,
   is seen still. *)
Good(r, dst) ==
    /\ r \in AllRows(known)
    /\ \A s \in DOMAIN rows : \E z \in DOMAIN r : z[3] = s[3]
    /\ \A s \in DOMAIN r : s[1] # dst => s \in DOMAIN rows /\ r[s] <= rows[s]
    /\ Rooted(dst) \subseteq Reach(EdgesOf(r, dst), {None})
    /\ \A f \in Folders \ {dst} : SingleRows(f) =>
          \A c \in Seen(f) : (\E e \in EdgesOf(r, f) : e[2] = c) => c \in Reach(LiveOnly(EdgesOf(r, f)), {None})

LEMMA RoundGood ==
    ASSUME TaskInv, NEW src \in Folders, NEW dst \in Folders, NEW t \in Tasks, NEW r, Good(r, dst),
           NEW p \in Parents, <<p, t>> \in EdgesOf(r, src), Fits(Moved(r, t, p, src, dst))
    PROVE  Good(Moved(r, t, p, src, dst), dst)
<1> DEFINE q == Moved(r, t, p, src, dst)
           E == LiveOnly(EdgesOf(r, src))
           all == Reach(E, {t})
<1>1. /\ ABag(q) /\ IsFunction(q) /\ DOMAIN q \subseteq Places(known)
      /\ \A s \in DOMAIN r : s \in DOMAIN q \/ Takes(E, t, p, src, s)
      /\ <<dst, None, t>> \in DOMAIN q
      /\ \A e \in E : e[1] \in Reach(E, {t}) => e = <<p, t>> \/ <<dst, e[1], e[2]>> \in DOMAIN q
      /\ \A s \in DOMAIN q : s[1] # dst =>
            s \in DOMAIN r /\ q[s] <= r[s] /\ (Takes(E, t, p, src, s) => q[s] < r[s])
  BY MovedRows DEF Good
<1>2. r \in AllRows(known) /\ ABag(r) /\ DOMAIN r \subseteq Places(known) /\ known \subseteq Tasks
  BY RowsAre, RowsNow DEF Good
<1>3. \A f : /\ \A a, b : <<a, b>> \in EdgesOf(r, f) <=> <<f, a, b>> \in DOMAIN r
             /\ EdgesOf(r, f) \subseteq (known \cup {None}) \X known
  BY <1>2, EdgesAre
<1> HIDE DEF q
<1>4. \A f : /\ \A a, b : <<a, b>> \in EdgesOf(q, f) <=> <<f, a, b>> \in DOMAIN q
             /\ EdgesOf(q, f) \subseteq (known \cup {None}) \X known
  BY <1>1, <1>2, EdgesAre
<1>5. q \in AllRows(known)
  BY <1>1, FitsRows DEF q
<1>6. \A s \in DOMAIN r : \E z \in DOMAIN q : z[3] = s[3]
  <2> SUFFICES ASSUME NEW s \in DOMAIN r, s \notin DOMAIN q  PROVE \E z \in DOMAIN q : z[3] = s[3]
    OBVIOUS
  <2>1. Takes(E, t, p, src, s) /\ s = <<s[1], s[2], s[3]>>
    BY <1>1, <1>2 DEF Places
  <2>2. CASE s[3] = t
    <3>1. <<dst, None, t>>[3] = s[3]
      BY <2>2
    <3> QED  BY <1>1, <3>1
  <2>3. CASE s[3] # t
    <3>1. s # <<src, p, t>>
      BY <2>3
    <3> DEFINE e == <<s[2], s[3]>>
    <3>2. e \in E /\ e[1] \in Reach(E, {t}) /\ e # <<p, t>> /\ e[2] = s[3]
      BY <2>1, <2>3, <3>1 DEF Takes
    <3>3. <<dst, e[1], e[2]>> \in DOMAIN q /\ <<dst, e[1], e[2]>>[3] = s[3]
      BY <1>1, <3>2
    <3> QED  BY <3>3
  <2> QED  BY <2>2, <2>3
<1>7. \A s \in DOMAIN rows : \E z \in DOMAIN q : z[3] = s[3]
  BY <1>6 DEF Good
<1>8. \A s \in DOMAIN q : s[1] # dst => s \in DOMAIN rows /\ q[s] <= rows[s]
  <2> SUFFICES ASSUME NEW s \in DOMAIN q, s[1] # dst  PROVE s \in DOMAIN rows /\ q[s] <= rows[s]
    OBVIOUS
  <2>1. s \in DOMAIN r /\ q[s] <= r[s] /\ s \in DOMAIN rows /\ r[s] <= rows[s]
    BY <1>1 DEF Good
  <2>2. q[s] \in Nat /\ r[s] \in Nat /\ rows[s] \in Nat
    BY <1>1, <1>2, <2>1, RowsNow DEF ABag
  <2> QED  BY <2>1, <2>2
<1>9. Rooted(dst) \subseteq Reach(EdgesOf(q, dst), {None})
  <2> DEFINE R == Reach(EdgesOf(q, dst), {None})
  <2>1. Closed(EdgesOf(q, dst), R) /\ None \in R
    BY ReachIsClosed
  <2>2. t \in R
    <3>1. <<None, t>> \in EdgesOf(q, dst) /\ <<None, t>>[1] = None /\ <<None, t>>[2] = t
      BY <1>1, <1>4
    <3> HIDE DEF R
    <3> QED  BY <2>1, <3>1 DEF Closed
  <2>3. Closed(EdgesOf(r, dst), R)
    <3> SUFFICES ASSUME NEW e \in EdgesOf(r, dst), e[1] \in R  PROVE e[2] \in R
      BY DEF Closed
    <3>1. e = <<e[1], e[2]>> /\ <<dst, e[1], e[2]>> \in DOMAIN r
      BY <1>3
    <3>2. CASE e \in EdgesOf(q, dst)
      BY <2>1, <3>2 DEF Closed
    <3>3. CASE e = <<p, t>>
      BY <2>2, <3>3
    <3>4. CASE e \notin EdgesOf(q, dst) /\ e # <<p, t>>
      <4>1. <<dst, e[1], e[2]>> \notin DOMAIN q
        BY <1>4, <3>1, <3>4
      <4>2. Takes(E, t, p, src, <<dst, e[1], e[2]>>)
        BY <1>1, <3>1, <4>1
      <4>3. <<e[1], e[2]>> \in E /\ e[1] \in Reach(E, {t})
        BY <3>1, <3>4, <4>2 DEF Takes
      <4> QED  BY <1>1, <3>1, <3>4, <4>1, <4>3
    <3> QED  BY <3>2, <3>3, <3>4
  <2>4. Reach(EdgesOf(r, dst), {None}) \subseteq R
    BY <2>1, <2>3, ReachIsLeast
  <2> QED  BY <2>4 DEF Good
<1>10. ASSUME NEW f \in Folders \ {dst}, SingleRows(f), NEW c \in Seen(f), NEW e \in EdgesOf(q, f), e[2] = c
       PROVE  c \in Reach(LiveOnly(EdgesOf(q, f)), {None})
  <2>1. e = <<e[1], e[2]>> /\ <<f, e[1], e[2]>> \in DOMAIN q
    BY <1>4, <1>10
  <2>2. <<f, e[1], e[2]>> \in DOMAIN r /\ q[<<f, e[1], e[2]>>] <= r[<<f, e[1], e[2]>>]
        /\ (Takes(E, t, p, src, <<f, e[1], e[2]>>) => q[<<f, e[1], e[2]>>] < r[<<f, e[1], e[2]>>])
    BY <1>1, <1>10, <2>1
  <2>3. <<f, e[1], e[2]>> \in DOMAIN rows /\ r[<<f, e[1], e[2]>>] <= rows[<<f, e[1], e[2]>>]
        /\ rows[<<f, e[1], e[2]>>] = 1
    BY <1>10, <2>2 DEF Good, SingleRows
  <2>4. ~Takes(E, t, p, src, <<f, e[1], e[2]>>)
    <3>1. q[<<f, e[1], e[2]>>] \in Nat \ {0} /\ r[<<f, e[1], e[2]>>] \in Nat
      BY <1>1, <1>2, <2>1, <2>2 DEF ABag
    <3> QED  BY <2>2, <2>3, <3>1
  <2>5. e \in EdgesOf(r, f)
    BY <1>3, <2>1, <2>2
  <2>6. c \in Reach(LiveOnly(EdgesOf(r, f)), {None})
    BY <1>10, <2>5 DEF Good
  <2>7. \A d \in EdgesOf(r, f) : d \in EdgesOf(q, f) \/ (f = src /\ (d = <<p, t>> \/ (d \in E /\ d[1] \in all)))
    <3> SUFFICES ASSUME NEW d \in EdgesOf(r, f), d \notin EdgesOf(q, f)
                 PROVE  f = src /\ (d = <<p, t>> \/ (d \in E /\ d[1] \in all))
      OBVIOUS
    <3>1. d = <<d[1], d[2]>> /\ <<f, d[1], d[2]>> \in DOMAIN r
      BY <1>3
    <3>2. Takes(E, t, p, src, <<f, d[1], d[2]>>)
      BY <1>1, <1>4, <3>1
    <3> QED  BY <3>1, <3>2 DEF Takes
  <2>8. \A d \in EdgesOf(r, f) : d[2] = c => d = e
    <3> SUFFICES ASSUME NEW d \in EdgesOf(r, f), d[2] = c  PROVE d = e
      OBVIOUS
    <3>1. d = <<d[1], d[2]>> /\ <<f, d[1], d[2]>> \in DOMAIN r
      BY <1>3
    <3>2. <<f, d[1], d[2]>> \in DOMAIN rows
      BY <1>10, <3>1 DEF Good
    <3>3. <<d[1], d[2]>> \in Edges(f) /\ <<e[1], e[2]>> \in Edges(f)
      BY <2>3, <3>2, RowsNow, EdgesAre DEF Edges
    <3> QED  BY <1>10, <2>1, <3>1, <3>3 DEF SingleRows
  <2> DEFINE L == LiveOnly(EdgesOf(r, f))
             M == LiveOnly(EdgesOf(q, f))
             R == Reach(M, {None})
             X == R \cup (IF f = src THEN all ELSE {})
  <2>9. Closed(M, R) /\ None \in R
    BY ReachIsClosed
  <2>10. Closed(E, all) /\ t \in all
    BY ReachIsClosed
  <2>11. Closed(L, X)
    <3> SUFFICES ASSUME NEW d \in L, d[1] \in X  PROVE d[2] \in X
      BY DEF Closed
    <3>1. d \in EdgesOf(r, f) /\ d[2] \in Live
      BY DEF LiveOnly
    <3>2. CASE f = src /\ d[1] \in all
      <4>1. d \in E
        BY <3>2
      <4> QED  BY <2>10, <3>2, <4>1 DEF Closed
    <3>3. CASE d[1] \in R /\ d \in EdgesOf(q, f)
      <4>1. d \in M
        BY <3>1, <3>3 DEF LiveOnly
      <4> QED  BY <2>9, <3>3, <4>1 DEF Closed
    <3>4. CASE f = src /\ d = <<p, t>>
      BY <2>10, <3>4
    <3> QED  BY <2>7, <3>1, <3>2, <3>3, <3>4
  <2>12. c \in X
    <3>1. {None} \subseteq X
      BY <2>9
    <3> HIDE DEF X, L
    <3>2. Reach(L, {None}) \subseteq X
      BY <2>11, <3>1, ReachIsLeast
    <3> QED  BY <2>6, <3>2 DEF L
  <2>13. ASSUME f = src, c \in all  PROVE FALSE
    <3>1. CASE c = t
      <4>1. e = <<p, t>>
        BY <2>8, <2>13, <3>1
      <4>2. e[1] = p /\ e[2] = t
        BY <4>1
      <4> QED  BY <2>4, <2>13, <4>2 DEF Takes
    <3>2. CASE c # t
      <4>1. PICK d \in E : d[2] = c /\ d[1] \in all
        BY <2>13, <3>2, ReachBack
      <4>2. d \in EdgesOf(r, f)
        BY <2>13 DEF LiveOnly
      <4>3. d = e
        BY <2>8, <4>1, <4>2
      <4>4. <<e[1], e[2]>> \in E /\ e[1] \in all
        BY <2>1, <4>1, <4>3
      <4> QED  BY <2>4, <2>13, <4>4 DEF Takes
    <3> QED  BY <3>1, <3>2
  <2> QED  BY <2>12, <2>13
<1> QED  BY <1>5, <1>7, <1>8, <1>9, <1>10 DEF Good, q

LEMMA MoveGood ==
    ASSUME TaskInv, NEW ts \in Batches, NEW src \in Folders, NEW dst \in Folders, MoveBetweenFolders(ts, src, dst)
    PROVE  Good(rows', dst)
<1> DEFINE G == {b \in [rows : AllRows(known), brought : SUBSET Tasks] : Good(b.rows, dst)}
<1>1. [rows |-> rows, brought |-> {}] \in G
  <2>1. Good(rows, dst)
    <3>1. \A s \in DOMAIN rows : rows[s] <= rows[s]
      BY RowsNow DEF ABag
    <3>2. rows \in AllRows(known)
      BY DEF TaskInv
    <3>3. Rooted(dst) \subseteq Reach(EdgesOf(rows, dst), {None})
      BY DEF Rooted, Edges
    <3>4. \A f : Seen(f) \subseteq Reach(LiveOnly(EdgesOf(rows, f)), {None})
      BY DEF Seen, Edges
    <3> QED  BY <3>1, <3>2, <3>3, <3>4 DEF Good
  <2>2. rows \in AllRows(known) /\ {} \in SUBSET Tasks
    BY DEF TaskInv
  <2> QED  BY <2>1, <2>2
<1>2. ASSUME NEW b \in G, NEW t \in Tasks, NEW a \in Round(b, t, src, dst), Fits(a.rows)
      PROVE  a \in G
  <2>1. b.rows \in AllRows(known) /\ b.brought \in SUBSET Tasks /\ Good(b.rows, dst)
    OBVIOUS
  <2>2. CASE t \in b.brought
    BY <1>2, <2>2 DEF Round
  <2>3. CASE t \notin b.brought
    <3> DEFINE E == LiveOnly(EdgesOf(b.rows, src))
    <3>1. PICK p \in Parents : /\ <<p, t>> \in EdgesOf(b.rows, src)
                               /\ a = [rows |-> Moved(b.rows, t, p, src, dst), brought |-> b.brought \cup Reach(E, Kids(E, t))]
      BY <1>2, <2>3 DEF Round
    <3>2. a.rows = Moved(b.rows, t, p, src, dst) /\ a.brought = b.brought \cup Reach(E, Kids(E, t))
      BY <3>1
    <3>3. Good(a.rows, dst)
      BY <1>2, <2>1, <3>1, <3>2, RoundGood
    <3>4. E \subseteq (known \cup {None}) \X known /\ known \subseteq Tasks
      BY <2>1, RowsAre, RowsNow, EdgesAre DEF LiveOnly
    <3>5. Reach(E, Kids(E, t)) \subseteq Tasks
      <4>1. Kids(E, t) \subseteq Tasks /\ {e[2] : e \in E} \subseteq Tasks
        BY <3>4 DEF Kids
      <4> QED  BY <4>1, ReachIsEnds
    <3>6. a.rows \in AllRows(known)
      BY <3>3 DEF Good
    <3>7. a \in [rows : AllRows(known), brought : SUBSET Tasks]
      BY <2>1, <3>1, <3>2, <3>5, <3>6
    <3> QED  BY <3>3, <3>7
  <2> QED  BY <2>2, <2>3
<1>3. AfterRounds(ts, src, dst) \subseteq G
  <2> HIDE DEF G
  <2> QED  BY <1>1, <1>2, RoundsKeep
<1>4. PICK end \in AfterRounds(ts, src, dst) : rows' = end.rows
  BY DEF MoveBetweenFolders
<1> QED  BY <1>3, <1>4

LEMMA PermanentDeleteRows ==
    ASSUME TaskInv, NEW t \in Tasks, PermanentDelete(t)
    PROVE  LET gone == UNION {Reach(Edges(f), {y \in Rooted(f) : <<t, y>> \in ShowsIn}) : f \in Folders}
           IN  /\ known' = known \ gone
               /\ DOMAIN rows' = {s \in DOMAIN rows : s[2] \notin gone /\ s[3] \notin gone}
               /\ \A s \in DOMAIN rows' : rows'[s] = rows[s]
               /\ rows' \in AllRows(known')
<1> DEFINE gone == UNION {Reach(Edges(f), {y \in Rooted(f) : <<t, y>> \in ShowsIn}) : f \in Folders}
           cut == {s \in Slots : {s[2], s[3]} \cap gone # {}}
<1>1. known' = known \ gone /\ rows' = Without(rows, cut)
  BY DEF PermanentDelete
<1>2. DOMAIN rows \ cut = {s \in DOMAIN rows : s[2] \notin gone /\ s[3] \notin gone}
  BY RowsNow
<1> HIDE DEF gone, cut
<1>3. /\ DOMAIN rows' = DOMAIN rows \ cut /\ ABag(rows') /\ IsFunction(rows')
      /\ \A s \in DOMAIN rows' : rows'[s] = rows[s] /\ rows[s] \in 1..MaxCopies
  BY <1>1, FewerRows
<1>4. DOMAIN rows' \subseteq Places(known')
  BY <1>1, <1>2, <1>3, RowsNow DEF Places
<1>5. rows' \in AllRows(known')
  BY <1>3, <1>4, AreRows, BoundsAssumption
<1> QED  BY <1>1, <1>2, <1>3, <1>5 DEF gone

-----------------------------------------------------------------------------
(* The inductive invariant *)

LEMMA InitTasks == Init => TaskInv
<1> SUFFICES ASSUME Init  PROVE TaskInv
  OBVIOUS
<1>1. rows = [s \in {} |-> 1] /\ DOMAIN rows = {}
  BY DEF Init, EmptyBag, SetToBag
<1>2. rows \in AllRows(known)
  <2>1. rows \in [{} -> 1..MaxCopies] /\ {} \in SUBSET Places(known)
    BY <1>1
  <2> QED  BY <2>1 DEF AllRows
<1>3. IsFiniteSet(known)
  BY FS_EmptySet DEF Init
<1> QED  BY <1>1, <1>2, <1>3 DEF Init, TaskInv, TypeOK

(* A step keeps the rows well-formed, of known tasks, and adds one task at most. *)
LEMMA StepTasks == TaskInv /\ [Next]_vars => TaskInv'
<1> SUFFICES ASSUME TaskInv, [Next]_vars  PROVE TaskInv'
  OBVIOUS
<1>1. ASSUME known' \in SUBSET Tasks, archived' \subseteq known', deleted' \subseteq known', rows' \in AllRows(known'), IsFiniteSet(known')
      PROVE  TaskInv'
  <2>1. DOMAIN rows' \subseteq Places(known') /\ \A s \in DOMAIN rows' : rows'[s] \in 1..MaxCopies
    BY <1>1, RowsAre
  <2> QED  BY <1>1, <2>1 DEF TaskInv, TypeOK, AllRows, Places
<1>2. known \in SUBSET Tasks /\ archived \subseteq known /\ deleted \subseteq known /\ rows \in AllRows(known) /\ IsFiniteSet(known)
  BY DEF TaskInv, TypeOK
<1>3. ASSUME NEW t  PROVE t \in known => Below(t) \subseteq known
  <2>1. AllEdges \subseteq (known \cup {None}) \X known
    BY RowsNow DEF AllEdges, Places
  <2>2. Kids(AllEdges, t) \subseteq known /\ {e[2] : e \in AllEdges} \subseteq known
    BY <2>1 DEF Kids
  <2> QED  BY <2>2, ReachIsEnds DEF Below
<1>4. ASSUME NEW t \in Tasks, NEW f \in Folders, NEW p \in Parents, Create(t, f, p)  PROVE TaskInv'
  <2>1. known' = known \cup {t} /\ rows' \in AllRows(known')
    BY <1>4, CreateRows
  <2>2. IsFiniteSet(known')
    BY <1>2, <2>1, FS_AddElement
  <2> QED  BY <1>1, <1>2, <1>4, <2>1, <2>2 DEF Create
<1>5. ASSUME NEW t \in Tasks, NEW f \in Folders, NEW old \in Parents, NEW new \in Parents, Reparent(t, f, old, new)
      PROVE  TaskInv'
  <2>1. rows' \in AllRows(known) /\ UNCHANGED <<known, archived, deleted>>
    BY <1>5, ReparentRows DEF Reparent
  <2> QED  BY <1>1, <1>2, <2>1
<1>6. ASSUME NEW t \in Tasks, NEW from \in Folders, NEW to \in Folders, Share(t, from, to)  PROVE TaskInv'
  <2>1. rows' \in AllRows(known) /\ UNCHANGED <<known, archived, deleted>>
    BY <1>6, ShareRows DEF Share
  <2> QED  BY <1>1, <1>2, <2>1
<1>7. ASSUME NEW t \in Tasks, NEW f \in Folders, Unshare(t, f)  PROVE TaskInv'
  <2>1. rows' \in AllRows(known) /\ UNCHANGED <<known, archived, deleted>>
    BY <1>7, UnshareRows DEF Unshare
  <2> QED  BY <1>1, <1>2, <2>1
<1>8. ASSUME NEW ts \in Batches, NEW src \in Folders, NEW dst \in Folders, MoveBetweenFolders(ts, src, dst)  PROVE TaskInv'
  <2>1. rows' \in AllRows(known) /\ UNCHANGED <<known, archived, deleted>>
    BY <1>8, MoveGood DEF MoveBetweenFolders, Good
  <2> QED  BY <1>1, <1>2, <2>1
<1>9. ASSUME NEW t \in Tasks, Archive(t)  PROVE TaskInv'
  BY <1>1, <1>2, <1>3, <1>9 DEF Archive
<1>10. ASSUME NEW t \in Tasks, NEW u \in Users, Delete(t, u)  PROVE TaskInv'
  BY <1>1, <1>2, <1>3, <1>10 DEF Delete
<1>11. ASSUME NEW t \in Tasks, Restore(t)  PROVE TaskInv'
  BY <1>1, <1>2, <1>11 DEF Restore, RestoreRecursive
<1>12. ASSUME NEW t \in Tasks, RestoreDeleted(t)  PROVE TaskInv'
  BY <1>1, <1>2, <1>12 DEF RestoreDeleted, RestoreDeletedRecursive
<1>13. ASSUME NEW t \in Tasks, PermanentDelete(t)  PROVE TaskInv'
  <2> DEFINE gone == UNION {Reach(Edges(f), {y \in Rooted(f) : <<t, y>> \in ShowsIn}) : f \in Folders}
  <2>1. known' = known \ gone /\ archived' = archived \ gone /\ deleted' = deleted \ gone
    BY <1>13 DEF PermanentDelete
  <2>2. rows' \in AllRows(known')
    BY <1>13, PermanentDeleteRows
  <2>3. IsFiniteSet(known')
    BY <1>2, <2>1, FS_Subset
  <2> HIDE DEF gone
  <2> QED  BY <1>1, <1>2, <2>1, <2>2, <2>3
<1>14. CASE UNCHANGED vars
  BY <1>1, <1>2, <1>14 DEF vars
<1> QED  BY <1>4, <1>5, <1>6, <1>7, <1>8, <1>9, <1>10, <1>11, <1>12, <1>13, <1>14 DEF Next

(* Rows are well-formed and of tasks there are, in every state. *)
THEOREM Invariance == Spec => []TaskInv
<1>1. Init => TaskInv
  BY InitTasks
<1>2. TaskInv /\ [Next]_vars => TaskInv'
  BY StepTasks
<1> QED  BY <1>1, <1>2, PTL DEF Spec

-----------------------------------------------------------------------------
(* A task keeps a folder *)

Placed(r, c) == \E s \in DOMAIN r : s[3] = c

LEMMA PlacedIs ==
    ASSUME NEW K, NEW r, DOMAIN r \subseteq Places(K), NEW c
    PROVE  Placed(r, c) <=> \E f \in Folders : \E e \in EdgesOf(r, f) : e[2] = c
<1>1. ASSUME NEW s \in DOMAIN r, s[3] = c  PROVE \E f \in Folders : \E e \in EdgesOf(r, f) : e[2] = c
  <2>1. s[1] \in Folders /\ <<s[2], s[3]>> \in EdgesOf(r, s[1]) /\ <<s[2], s[3]>>[2] = c
    BY <1>1 DEF Places, EdgesOf
  <2> QED  BY <2>1
<1>2. ASSUME NEW f, NEW e \in EdgesOf(r, f), e[2] = c  PROVE Placed(r, c)
  BY <1>2 DEF EdgesOf, Placed
<1> QED  BY <1>1, <1>2 DEF Placed

KeepsStep ==
    \A c \in known \cap known' :
        (\E f \in Folders : In(f, c)) /\ ~(\E f \in Folders : In(f, c))' =>
           \/ \E f \in Folders, t \in Tasks : c \in Under(f, t) /\ Unshare(t, f)
           \/ \E s \in DOMAIN rows : s[3] = c /\ s[2] \in known \ known'

LEMMA StepKeeps == TaskInv /\ [Next]_vars => [KeepsStep]_vars
<1> SUFFICES ASSUME TaskInv, [Next]_vars, NEW c \in known \cap known', Placed(rows, c), ~Placed(rows', c)
             PROVE  \/ \E f \in Folders, t \in Tasks : c \in Under(f, t) /\ Unshare(t, f)
                    \/ \E s \in DOMAIN rows : s[3] = c /\ s[2] \in known \ known'
  <2>1. ASSUME TaskInv  PROVE \A c : Placed(rows, c) <=> \E f \in Folders : In(f, c)
    BY <2>1, RowsNow, PlacedIs DEF In, Edges
  <2>2. ASSUME TaskInv, [Next]_vars  PROVE \A c : Placed(rows', c) <=> (\E f \in Folders : In(f, c))'
    <3>1. DOMAIN rows' \subseteq Places(known')
      BY <2>2, StepTasks, RowsAre DEF TaskInv
    <3> QED  BY <3>1, PlacedIs DEF In, Edges
  <2> QED  BY <2>1, <2>2 DEF KeepsStep
<1>1. \A s \in DOMAIN rows : s[3] = c => s \notin DOMAIN rows'
  BY DEF Placed
<1>2. PICK s \in DOMAIN rows : s[3] = c
  BY DEF Placed
<1>3. s = <<s[1], s[2], s[3]>> /\ s[1] \in Folders /\ s[2] \in Parents
  BY RowsNow DEF Slots
<1>4. ASSUME NEW t \in Tasks, NEW f \in Folders, NEW p \in Parents, Create(t, f, p)  PROVE FALSE
  BY <1>1, <1>2, <1>4, CreateRows
<1>5. ASSUME NEW t \in Tasks, NEW f \in Folders, NEW old \in Parents, NEW new \in Parents, Reparent(t, f, old, new)
      PROVE  FALSE
  <2>1. PICK from \in Parents : Rehung(<<f, from, t>>, <<f, new, t>>)
    BY <1>5, ReparentRows
  <2> USE DEF Rehung
  <2>2. s = <<f, from, t>> /\ c = t
    BY <1>1, <1>2, <2>1
  <2>3. <<f, new, t>> \in DOMAIN rows' /\ <<f, new, t>>[3] = c
    BY <2>1, <2>2
  <2> QED  BY <2>3 DEF Placed
<1>6. ASSUME NEW t \in Tasks, NEW from \in Folders, NEW to \in Folders, Share(t, from, to)  PROVE FALSE
  <2> DEFINE under == Under(from, t)
  <2>1. PICK above \in [under -> under \cup {t}] :
           DOMAIN rows' = Left(to, under \cup {t}) \cup Shared(to, t, under, above)
    BY <1>6, ShareRows
  <2> HIDE DEF under
  <2> USE DEF Left, Shared
  <2>2. c \in under \cup {t}
    BY <1>1, <1>2, <2>1
  <2>3. CASE c = t
    <3>1. <<to, None, t>> \in DOMAIN rows' /\ <<to, None, t>>[3] = c
      BY <2>1, <2>3
    <3> QED  BY <3>1 DEF Placed
  <2>4. CASE c \in under
    <3>1. <<to, above[c], c>> \in DOMAIN rows' /\ <<to, above[c], c>>[3] = c
      BY <2>1, <2>4
    <3> QED  BY <3>1 DEF Placed
  <2> QED  BY <2>2, <2>3, <2>4
<1>7. ASSUME NEW t \in Tasks, NEW f \in Folders, Unshare(t, f)  PROVE c \in Under(f, t)
  <2> DEFINE under == Under(f, t)
             gone  == ({f} \X (under \cup {t}) \X under) \cup {<<f, None, t>>}
  <2>1. DOMAIN rows' = DOMAIN rows \ gone
    BY <1>7, UnshareRows
  <2>2. SUFFICES ASSUME c \notin under  PROVE FALSE
    OBVIOUS
  <2> HIDE DEF under
  <2>3. \A z \in DOMAIN rows : z[3] = c => z = <<f, None, t>>
    BY <1>1, <2>1, <2>2
  <2>4. c = t
    BY <1>2, <1>3, <2>3
  <2>5. PICK g \in Folders \ {f} : \E e \in EdgesOf(rows, g) : e[2] = t
    BY <1>7 DEF Unshare, In, Edges
  <2>6. PICK z \in DOMAIN rows : z[1] = g /\ z[3] = t
    BY <2>5 DEF EdgesOf
  <2> QED  BY <2>3, <2>4, <2>5, <2>6
<1>8. ASSUME NEW ts \in Batches, NEW src \in Folders, NEW dst \in Folders, MoveBetweenFolders(ts, src, dst)  PROVE FALSE
  BY <1>2, <1>8, MoveGood DEF Good, Placed
<1>9. ASSUME NEW t \in Tasks, PermanentDelete(t)  PROVE s[2] \in known \ known'
  <2> DEFINE gone == UNION {Reach(Edges(f), {y \in Rooted(f) : <<t, y>> \in ShowsIn}) : f \in Folders}
  <2>1. known' = known \ gone /\ DOMAIN rows' = {z \in DOMAIN rows : z[2] \notin gone /\ z[3] \notin gone}
    BY <1>9, PermanentDeleteRows
  <2> HIDE DEF gone
  <2>2. s[2] \in gone
    BY <1>1, <1>2, <2>1
  <2>3. s[2] \in known \cup {None}
    BY RowsNow DEF Places
  <2>4. None \notin gone
    <3>1. ASSUME NEW f \in Folders, NEW S \in SUBSET Rooted(f), None \in Reach(Edges(f), S)  PROVE FALSE
      <4>1. Edges(f) \subseteq (known \cup {None}) \X known /\ known \subseteq Tasks
        BY RowsNow, EdgesAre DEF Edges
      <4>2. Reach(Edges(f), S) \subseteq S \cup known
        BY <4>1, TargetsKnown
      <4> QED  BY <3>1, <4>1, <4>2, NoneAssumption DEF Rooted
    <3>2. ASSUME NEW f \in Folders  PROVE None \notin Reach(Edges(f), {y \in Rooted(f) : <<t, y>> \in ShowsIn})
      <4>1. {y \in Rooted(f) : <<t, y>> \in ShowsIn} \in SUBSET Rooted(f)
        OBVIOUS
      <4> QED  BY <3>1, <4>1
    <3> QED  BY <3>2 DEF gone
  <2> QED  BY <2>1, <2>2, <2>3, <2>4
<1>10. rows' = rows => FALSE
  BY <1>2, <1>1
<1> QED  BY <1>2, <1>4, <1>5, <1>6, <1>7, <1>8, <1>9, <1>10 DEF Next, Archive, Delete, Restore, RestoreDeleted, vars

(* A task in some folder stays in some folder, whatever is done to it or to others, unless a task
   above it is unshared or deleted for good. *)
THEOREM TasksKeepAFolder == Spec => KeepsAFolder
<1>1. TaskInv /\ [Next]_vars => [KeepsStep]_vars
  BY StepKeeps
<1>2. Spec => [][KeepsStep]_vars
  BY Invariance, <1>1, PTL DEF Spec
<1> QED  BY <1>2 DEF KeepsAFolder, KeepsStep

-----------------------------------------------------------------------------
(* A folder stays a tree *)

NoLoops(E) == \A x \in Tasks : x \notin Reach(E, Kids(E, x))
OneParent(E) == \A d, e \in E : d[2] = e[2] => d = e
TreeIn(r, f) ==
    /\ \A s \in DOMAIN r : s[1] = f => r[s] = 1
    /\ OneParent(EdgesOf(r, f)) /\ NoLoops(EdgesOf(r, f))

LEMMA TreeInRows ==
    ASSUME NEW f
    PROVE  (IsTree(f) <=> TreeIn(rows, f)) /\ (IsTree(f)' <=> TreeIn(rows', f))
BY DEF IsTree, TreeIn, OneParent, NoLoops, Edges

(* Fewer rows are still a tree. *)
LEMMA FewerTree ==
    ASSUME NEW f, TreeIn(rows, f), NEW r, ABag(r), \A s \in DOMAIN r : s[1] = f => s \in DOMAIN rows /\ r[s] <= rows[s]
    PROVE  TreeIn(r, f)
<1> DEFINE D == EdgesOf(r, f)
           E == EdgesOf(rows, f)
<1>1. D \subseteq E
  BY DEF EdgesOf
<1>2. \A s \in DOMAIN r : s[1] = f => r[s] = 1
  BY DEF TreeIn, ABag
<1> HIDE DEF D, E
<1>3. OneParent(D)
  BY <1>1 DEF TreeIn, OneParent, E
<1>4. ASSUME NEW x \in Tasks  PROVE x \notin Reach(D, Kids(D, x))
  <2>1. Kids(D, x) \subseteq Kids(E, x)
    BY <1>1 DEF Kids
  <2>2. Reach(D, Kids(D, x)) \subseteq Reach(E, Kids(E, x))
    BY <1>1, <2>1, FewerReach
  <2> QED  BY <2>2 DEF TreeIn, NoLoops, E
<1> QED  BY <1>2, <1>3, <1>4 DEF TreeIn, NoLoops, D

LEMMA CreateTree ==
    ASSUME TaskInv, NEW t \in Tasks, NEW f \in Folders, NEW p \in Parents, Create(t, f, p), NEW g \in Folders, TreeIn(rows, g)
    PROVE  TreeIn(rows', g)
<1> DEFINE s0 == <<f, p, t>>
           E == EdgesOf(rows, f)
           D == EdgesOf(rows', f)
<1>1. /\ s0 \notin DOMAIN rows /\ DOMAIN rows' = DOMAIN rows \cup {s0}
      /\ rows'[s0] = 1 /\ \A s \in DOMAIN rows : rows'[s] = rows[s]
      /\ p \in known \cup {None} /\ t \notin known /\ known' = known \cup {t} /\ rows' \in AllRows(known')
  BY CreateRows
<1>2. ABag(rows')
  BY <1>1, RowsAre
<1>3. CASE g # f
  <2>1. \A s \in DOMAIN rows' : s[1] = g => s \in DOMAIN rows /\ rows'[s] <= rows[s]
    BY <1>1, <1>3, RowsNow DEF ABag
  <2> QED  BY <1>2, <2>1, FewerTree
<1>4. CASE g = f
  <2>1. E \subseteq (known \cup {None}) \X known /\ p # t /\ t # None
    BY <1>1, RowsNow, EdgesAre, NoneAssumption
  <2>2. D = E \cup {<<p, t>>}
    <3> HIDE DEF s0
    <3>1. D = E \cup {<<s0[2], s0[3]>>}
      BY <1>1 DEF EdgesOf, s0
    <3> QED  BY <3>1 DEF s0
  <2>3. \A s \in DOMAIN rows' : s[1] = g => rows'[s] = 1
    BY <1>1 DEF TreeIn
  <2> HIDE DEF D
  <2>4. OneParent(D)
    BY <1>1, <1>4, <2>1, <2>2 DEF OneParent, TreeIn
  <2>5. ASSUME NEW x \in Tasks, x \in Reach(D, Kids(D, x))  PROVE FALSE
    <3>1. CASE x = t
      <4>1. Kids(D, t) = {}
        BY <1>1, <2>1, <2>2 DEF Kids
      <4>2. Closed(D, {})
        BY DEF Closed
      <4>3. Reach(D, {}) \subseteq {}
        BY <4>2, ReachIsLeast
      <4> QED  BY <2>5, <3>1, <4>1, <4>3
    <3>2. CASE x # t
      <4> DEFINE W == Reach(E, Kids(E, x)) \cup {t}
      <4>1. Closed(E, Reach(E, Kids(E, x))) /\ Kids(E, x) \subseteq Reach(E, Kids(E, x))
        BY ReachIsClosed
      <4>2. Closed(D, W) /\ Kids(D, x) \subseteq W
        <5>1. ASSUME NEW e \in D, e[1] \in W  PROVE e[2] \in W
          <6>1. CASE e = <<p, t>>
            BY <6>1
          <6>2. CASE e \in E
            <7>1. e[1] # t
              BY <1>1, <2>1, <6>2
            <7> QED  BY <4>1, <5>1, <6>2, <7>1 DEF Closed
          <6> QED  BY <2>2, <6>1, <6>2
        <5>2. ASSUME NEW e \in D, e[1] = x  PROVE e[2] \in W
          <6>1. CASE e = <<p, t>>
            BY <6>1
          <6>2. CASE e \in E
            BY <4>1, <5>2, <6>2 DEF Kids
          <6> QED  BY <2>2, <6>1, <6>2
        <5> HIDE DEF W
        <5> QED  BY <5>1, <5>2 DEF Closed, Kids
      <4> HIDE DEF W
      <4>3. x \in W
        BY <2>5, <4>2, ReachIsLeast
      <4> QED  BY <1>4, <3>2, <4>3 DEF W, TreeIn, NoLoops
    <3> QED  BY <3>1, <3>2
  <2> QED  BY <1>4, <2>3, <2>4, <2>5 DEF TreeIn, NoLoops, D
<1> QED  BY <1>3, <1>4

LEMMA ReparentTree ==
    ASSUME TaskInv, NEW t \in Tasks, NEW f \in Folders, NEW old \in Parents, NEW new \in Parents,
           Reparent(t, f, old, new), NEW g \in Folders, TreeIn(rows, g),
           g = f => new \notin Reach(EdgesOf(rows, f), {t})
    PROVE  TreeIn(rows', g)
<1> DEFINE E == EdgesOf(rows, f)
           D == EdgesOf(rows', f)
<1>1. PICK from \in Parents : from # new /\ Rehung(<<f, from, t>>, <<f, new, t>>)
  BY ReparentRows
<1> USE DEF Rehung
<1>2. ABag(rows') /\ DOMAIN rows' \subseteq Places(known) /\ known \subseteq Tasks /\ DOMAIN rows \subseteq Places(known)
  BY ReparentRows, RowsAre, RowsNow
<1>3. CASE g # f
  <2>1. \A s \in DOMAIN rows' : s[1] = g => s \in DOMAIN rows /\ rows'[s] <= rows[s]
    BY <1>1, <1>3, RowsNow DEF ABag
  <2> QED  BY <1>2, <2>1, FewerTree
<1>4. CASE g = f
  <2>1. /\ \A a, b : <<a, b>> \in E <=> <<f, a, b>> \in DOMAIN rows
        /\ E \subseteq (known \cup {None}) \X known
    BY <1>2, EdgesAre
  <2>2. /\ \A a, b : <<a, b>> \in D <=> <<f, a, b>> \in DOMAIN rows'
        /\ D \subseteq (known \cup {None}) \X known
    BY <1>2, EdgesAre
  <2>3. OneParent(E) /\ NoLoops(E) /\ \A s \in DOMAIN rows : s[1] = f => rows[s] = 1
    BY <1>4 DEF TreeIn
  <2> HIDE DEF E, D
  <2>4. \A e \in E : e[2] = t => e = <<from, t>>
    <3>1. <<from, t>> \in E /\ <<from, t>>[2] = t
      BY <1>1, <2>1
    <3> QED  BY <2>3, <3>1 DEF OneParent
  <2>5. <<f, new, t>> \notin DOMAIN rows
    <3>1. <<new, t>>[2] = t /\ <<new, t>> # <<from, t>>
      BY <1>1
    <3> QED  BY <2>1, <2>4, <3>1
  <2>6. ~(rows[<<f, from, t>>] > 1)
    BY <1>1, <2>3
  <2>7. \A e \in D : (e \in E /\ e[2] # t) \/ e = <<new, t>>
    <3> SUFFICES ASSUME NEW e \in D, e # <<new, t>>  PROVE e \in E /\ e[2] # t
      OBVIOUS
    <3>1. e = <<e[1], e[2]>> /\ <<f, e[1], e[2]>> \in DOMAIN rows'
      BY <2>2
    <3>2. <<f, e[1], e[2]>> \in DOMAIN rows /\ e # <<from, t>>
      BY <1>1, <2>6, <3>1
    <3> QED  BY <2>1, <2>4, <3>1, <3>2
  <2>8. \A s \in DOMAIN rows' : s[1] = f => rows'[s] = 1
    BY <1>1, <2>3, <2>5, <2>6
  <2>9. OneParent(D)
    BY <2>3, <2>7 DEF OneParent
  <2>10. ASSUME NEW x \in Tasks, x \in Reach(D, Kids(D, x))  PROVE FALSE
    <3> DEFINE A == Reach(E, Kids(E, x))
               B == Reach(E, {t})
               W == A \cup (IF new \in Reach(E, {x}) THEN B ELSE {})
    <3>1. Closed(E, A) /\ Kids(E, x) \subseteq A /\ Closed(E, B) /\ t \in B /\ Reach(E, {x}) = {x} \cup A
      BY ReachIsClosed, ReachFromOne
    <3>2. new \notin B
      BY <1>4 DEF E
    <3> HIDE DEF A, B
    <3>3. ASSUME NEW e \in D, e[1] \in W  PROVE e[2] \in W
      <4>1. CASE e \in E
        BY <3>1, <3>3, <4>1 DEF Closed
      <4>2. CASE e = <<new, t>>
        BY <3>1, <3>2, <3>3, <4>2
      <4> QED  BY <2>7, <4>1, <4>2
    <3>4. ASSUME NEW e \in D, e[1] = x  PROVE e[2] \in W
      <4>1. CASE e \in E
        BY <3>1, <3>4, <4>1 DEF Kids
      <4>2. CASE e = <<new, t>>
        BY <3>1, <3>4, <4>2
      <4> QED  BY <2>7, <4>1, <4>2
    <3>5. x \in W
      <4> HIDE DEF W
      <4>1. Closed(D, W) /\ Kids(D, x) \subseteq W
        BY <3>3, <3>4 DEF Closed, Kids
      <4> QED  BY <2>10, <4>1, ReachIsLeast
    <3>6. x \notin A
      BY <2>3 DEF NoLoops, A
    <3>7. x \in B /\ new \in Reach(E, {x})
      BY <3>5, <3>6
    <3>8. Reach(E, {x}) \subseteq B
      BY <3>7, ReachOn DEF B
    <3> QED  BY <3>2, <3>7, <3>8
  <2> QED  BY <1>4, <2>8, <2>9, <2>10 DEF TreeIn, NoLoops, D
<1> QED  BY <1>3, <1>4

(* What share and unshare walk over: it has no loop, and not the task itself. *)
LEMMA Walk ==
    ASSUME TaskInv, NEW f, NEW t, Walkable(f, t)
    PROVE  LET L == LiveOnly(Edges(f))
               under == Under(f, t)
           IN  /\ IF t \in Rooted(f) THEN under = Reach(L, Kids(L, t)) ELSE under = {}
               /\ t \notin under /\ \A x \in under : x \notin Reach(L, Kids(L, x))
               /\ under \subseteq Live
<1> DEFINE L == LiveOnly(Edges(f))
           under == Under(f, t)
<1>1. under \subseteq Live
  BY UnderKnown
<1>2. CASE t \notin Rooted(f)
  BY <1>2 DEF Under
<1>3. CASE t \in Rooted(f)
  <2>1. under = Reach(L, Kids(L, t))
    BY <1>3 DEF Under
  <2>2. \A x \in Reach(L, {t}) : x \notin Reach(L, Kids(L, x))
    BY <1>3 DEF Walkable, Ends
  <2>3. Reach(L, {t}) = {t} \cup under
    BY <2>1, ReachFromOne
  <2> HIDE DEF L, under
  <2>4. t \notin under /\ \A x \in under : x \notin Reach(L, Kids(L, x))
    BY <2>1, <2>2, <2>3
  <2> QED  BY <1>1, <1>3, <2>1, <2>4 DEF L, under
<1> QED  BY <1>2, <1>3

LEMMA ShareTree ==
    ASSUME TaskInv, NEW t \in Tasks, NEW from \in Folders, NEW to \in Folders, Share(t, from, to),
           NEW g \in Folders, TreeIn(rows, g)
    PROVE  TreeIn(rows', g)
<1> DEFINE under == Under(from, t)
           all == under \cup {t}
           L == LiveOnly(Edges(from))
           E == EdgesOf(rows, to)
           D == EdgesOf(rows', to)
<1>1. PICK above \in [under -> all] :
         /\ \A c \in under : <<above[c], c>> \in Edges(from)
         /\ DOMAIN rows' = Left(to, all) \cup Shared(to, t, under, above)
         /\ \A s \in Left(to, all) : rows'[s] = rows[s]
         /\ \A s \in Shared(to, t, under, above) : rows'[s] = 1
  BY ShareRows
<1>2. /\ IF t \in Rooted(from) THEN under = Reach(L, Kids(L, t)) ELSE under = {}
      /\ t \notin under /\ \A x \in under : x \notin Reach(L, Kids(L, x))
      /\ under \subseteq Live
  BY Walk DEF Share
<1>3. ABag(rows') /\ DOMAIN rows' \subseteq Places(known) /\ known \subseteq Tasks /\ DOMAIN rows \subseteq Places(known)
  BY ShareRows, RowsAre, RowsNow
<1>4. \A c \in under : <<above[c], c>> \in L
  BY <1>1, <1>2 DEF LiveOnly
<1>5. CASE g # to
  <2>1. \A s \in DOMAIN rows' : s[1] = g => s \in Left(to, all)
    BY <1>1, <1>5 DEF Shared
  <2>2. \A s \in DOMAIN rows' : s[1] = g => s \in DOMAIN rows /\ rows'[s] <= rows[s]
    BY <1>1, <2>1, RowsNow DEF Left, ABag
  <2> QED  BY <1>3, <2>2, FewerTree
<1>6. CASE g = to
  <2>1. /\ \A a, b : <<a, b>> \in E <=> <<to, a, b>> \in DOMAIN rows
        /\ E \subseteq (known \cup {None}) \X known
    BY <1>3, EdgesAre
  <2>2. /\ \A a, b : <<a, b>> \in D <=> <<to, a, b>> \in DOMAIN rows'
        /\ D \subseteq (known \cup {None}) \X known
    BY <1>3, EdgesAre
  <2>3. OneParent(E) /\ NoLoops(E) /\ \A s \in DOMAIN rows : s[1] = to => rows[s] = 1
    BY <1>6 DEF TreeIn
  <2> HIDE DEF E, D, L, under
  <2>4. \A e \in D : \/ e \in E /\ e[2] \notin all
                     \/ e = <<None, t>>
                     \/ e[2] \in under /\ e = <<above[e[2]], e[2]>>
    <3> SUFFICES ASSUME NEW e \in D
                 PROVE  \/ e \in E /\ e[2] \notin all
                        \/ e = <<None, t>>
                        \/ e[2] \in under /\ e = <<above[e[2]], e[2]>>
      OBVIOUS
    <3>1. e = <<e[1], e[2]>> /\ <<to, e[1], e[2]>> \in DOMAIN rows'
      BY <2>2
    <3>2. CASE <<to, e[1], e[2]>> \in Left(to, all)
      BY <2>1, <3>1, <3>2 DEF Left
    <3>3. CASE <<to, e[1], e[2]>> \in Shared(to, t, under, above)
      BY <3>1, <3>3 DEF Shared
    <3> QED  BY <1>1, <3>1, <3>2, <3>3
  <2>5. \A s \in DOMAIN rows' : s[1] = to => rows'[s] = 1
    BY <1>1, <2>3 DEF Left
  <2>6. OneParent(D)
    <3> SUFFICES ASSUME NEW d \in D, NEW e \in D, d[2] = e[2]  PROVE d = e
      BY DEF OneParent
    <3>1. CASE d[2] \in under
      BY <1>2, <2>4, <3>1
    <3>2. CASE d[2] = t
      BY <1>2, <2>4, <3>2
    <3>3. CASE d[2] \notin all
      <4>1. d \in E /\ e \in E
        BY <2>4, <3>3
      <4> QED  BY <2>3, <4>1 DEF OneParent
    <3> QED  BY <3>1, <3>2, <3>3
  <2>7. ASSUME NEW x \in Tasks, x \in Reach(D, Kids(D, x))  PROVE FALSE
    <3>1. x # None
      BY NoneAssumption
    <3>2. CASE x \notin all
      <4> DEFINE A == Reach(E, Kids(E, x))
                 W == (A \ all) \cap Tasks
      <4>1. Closed(E, A) /\ Kids(E, x) \subseteq A
        BY ReachIsClosed
      <4> HIDE DEF A
      <4>2. ASSUME NEW e \in D, e[1] \in W \/ e[1] = x  PROVE e[2] \in W
        <5>1. e[1] \notin all /\ e[1] # None /\ e[2] \in Tasks
          BY <2>2, <1>3, <3>1, <3>2, <4>2, NoneAssumption
        <5>2. e \in E /\ e[2] \notin all
          <6>1. ~(e[2] \in under /\ e = <<above[e[2]], e[2]>>)
            BY <1>1, <5>1
          <6> QED  BY <2>4, <5>1, <6>1
        <5>3. e[2] \in A
          BY <4>1, <4>2, <5>2 DEF Closed, Kids
        <5> QED  BY <5>1, <5>2, <5>3
      <4>3. x \in W
        <5> HIDE DEF W
        <5>1. Closed(D, W) /\ Kids(D, x) \subseteq W
          BY <4>2 DEF Closed, Kids
        <5> QED  BY <2>7, <5>1, ReachIsLeast
      <4> QED  BY <2>3, <4>3 DEF NoLoops, A
    <3>3. CASE x \in all
      <4> DEFINE A == Reach(L, Kids(L, x))
                 W == (A \cap under) \cup (Tasks \ all)
      <4>1. Closed(L, A) /\ Kids(L, x) \subseteq A
        BY ReachIsClosed
      <4> HIDE DEF A
      <4>2. ASSUME NEW e \in D, e[1] \in W \/ e[1] = x  PROVE e[2] \in W
        <5>1. e[1] # None /\ e[2] \in Tasks
          BY <1>2, <1>3, <2>2, <3>1, <4>2, NoneAssumption DEF Live
        <5>2. CASE e[2] \in under /\ e = <<above[e[2]], e[2]>>
          <6>1. e \in L /\ e[1] \in all
            BY <1>1, <1>4, <5>2
          <6>2. e[1] \in A \/ e[1] = x
            BY <4>2, <6>1
          <6>3. e[2] \in A
            BY <4>1, <6>1, <6>2 DEF Closed, Kids
          <6> QED  BY <5>2, <6>3
        <5>3. CASE e[2] \notin all
          BY <5>1, <5>3
        <5> QED  BY <2>4, <5>1, <5>2, <5>3
      <4>3. x \in W
        <5> HIDE DEF W
        <5>1. Closed(D, W) /\ Kids(D, x) \subseteq W
          BY <4>2 DEF Closed, Kids
        <5> QED  BY <2>7, <5>1, ReachIsLeast
      <4> QED  BY <1>2, <3>3, <4>3 DEF A
    <3> QED  BY <3>2, <3>3
  <2> QED  BY <1>6, <2>5, <2>6, <2>7 DEF TreeIn, NoLoops, D
<1> QED  BY <1>5, <1>6

LEMMA MoveTree ==
    ASSUME TaskInv, NEW ts \in Batches, NEW src \in Folders, NEW dst \in Folders, MoveBetweenFolders(ts, src, dst),
           NEW g \in Folders, g # dst, TreeIn(rows, g)
    PROVE  TreeIn(rows', g)
<1>1. rows' \in AllRows(known) /\ \A s \in DOMAIN rows' : s[1] # dst => s \in DOMAIN rows /\ rows'[s] <= rows[s]
  BY MoveGood DEF Good
<1>2. ABag(rows')
  BY <1>1, RowsAre
<1> QED  BY <1>1, <1>2, FewerTree

TreeStep ==
    \A f \in Folders : ~IsTree(f)' /\ IsTree(f) =>
       \/ \E ts \in Batches, src \in Folders : MoveBetweenFolders(ts, src, f)
       \/ \E t \in Tasks, old \in Parents : \E new \in Reach(Edges(f), {t}) : Reparent(t, f, old, new)

LEMMA StepTrees == TaskInv /\ [Next]_vars => [TreeStep]_vars
<1> SUFFICES ASSUME TaskInv, [Next]_vars, NEW g \in Folders, TreeIn(rows, g), ~TreeIn(rows', g)
             PROVE  \/ \E ts \in Batches, src \in Folders : MoveBetweenFolders(ts, src, g)
                    \/ \E t \in Tasks, old \in Parents : \E new \in Reach(Edges(g), {t}) : Reparent(t, g, old, new)
  BY TreeInRows DEF TreeStep
<1>1. ASSUME \A s \in DOMAIN rows' : s \in DOMAIN rows /\ rows'[s] = rows[s]  PROVE FALSE
  <2>1. ABag(rows') /\ ABag(rows)
    BY <1>1, RowsNow DEF ABag
  <2>2. \A s \in DOMAIN rows' : s \in DOMAIN rows /\ rows'[s] <= rows[s]
    BY <1>1, <2>1 DEF ABag
  <2> QED  BY <2>1, <2>2, FewerTree
<1>2. ASSUME NEW t \in Tasks, NEW f \in Folders, NEW p \in Parents, Create(t, f, p)  PROVE FALSE
  BY <1>2, CreateTree
<1>3. ASSUME NEW t \in Tasks, NEW f \in Folders, NEW old \in Parents, NEW new \in Parents, Reparent(t, f, old, new)
      PROVE  f = g /\ new \in Reach(Edges(g), {t})
  BY <1>3, ReparentTree DEF Edges
<1>4. ASSUME NEW t \in Tasks, NEW from \in Folders, NEW to \in Folders, Share(t, from, to)  PROVE FALSE
  BY <1>4, ShareTree
<1>5. ASSUME NEW t \in Tasks, NEW f \in Folders, Unshare(t, f)  PROVE FALSE
  BY <1>1, <1>5, UnshareRows
<1>6. ASSUME NEW ts \in Batches, NEW src \in Folders, NEW dst \in Folders, MoveBetweenFolders(ts, src, dst)  PROVE dst = g
  BY <1>6, MoveTree
<1>7. ASSUME NEW t \in Tasks, PermanentDelete(t)  PROVE FALSE
  BY <1>1, <1>7, PermanentDeleteRows
<1>8. rows' = rows => FALSE
  BY <1>1
<1> QED  BY <1>2, <1>3, <1>4, <1>5, <1>6, <1>7, <1>8 DEF Next, Archive, Delete, Restore, RestoreDeleted, vars

(* The tasks of a folder stay a tree, but for moves of tasks to it and tasks hung below their own
   subtasks. *)
THEOREM TreesStayTrees == Spec => OnlyMovesBreakATree
<1>1. TaskInv /\ [Next]_vars => [TreeStep]_vars
  BY StepTrees
<1>2. Spec => [][TreeStep]_vars
  BY Invariance, <1>1, PTL DEF Spec
<1> QED  BY <1>2 DEF OnlyMovesBreakATree, TreeStep

-----------------------------------------------------------------------------
(* What is seen in a tree stays in it *)

LEMMA SeenIsRooted ==
    ASSUME NEW f
    PROVE  Seen(f) \subseteq Rooted(f)
<1>1. LiveOnly(Edges(f)) \in SUBSET Edges(f)
  BY DEF LiveOnly
<1>2. Reach(LiveOnly(Edges(f)), {None}) \subseteq Reach(Edges(f), {None})
  BY <1>1, FewerReach
<1> QED  BY <1>2 DEF Seen, Rooted

(* No row gone, nothing out of sight. *)
LEMMA GrownSeen ==
    ASSUME TaskInv, NEW r, NEW f, \A s \in DOMAIN rows : s[1] = f => s \in DOMAIN r
    PROVE  Rooted(f) \subseteq Reach(EdgesOf(r, f), {None})
<1>1. Edges(f) \in SUBSET EdgesOf(r, f)
  BY DEF Edges, EdgesOf
<1>2. Reach(Edges(f), {None}) \subseteq Reach(EdgesOf(r, f), {None})
  BY <1>1, FewerReach
<1> QED  BY <1>2 DEF Rooted

LEMMA ReparentSeen ==
    ASSUME TaskInv, NEW t \in Tasks, NEW f \in Folders, NEW old \in Parents, NEW new \in Parents,
           Reparent(t, f, old, new), NEW g \in Folders,
           g = f => new \in Rooted(f) \cup {None} /\ new \notin Reach(Edges(f), {t})
    PROVE  Rooted(g) \subseteq Reach(EdgesOf(rows', g), {None})
<1> DEFINE E == Edges(f)
           D == EdgesOf(rows', f)
           B == Reach(E, {t})
           R == Reach(D, {None})
<1>1. PICK from \in Parents : from # new /\ Rehung(<<f, from, t>>, <<f, new, t>>)
  BY ReparentRows
<1>2. CASE g # f
  <2>1. \A s \in DOMAIN rows : s[1] = g => s \in DOMAIN rows'
    BY <1>1, <1>2 DEF Rehung
  <2> QED  BY <2>1, GrownSeen
<1>3. CASE g = f
  <2>1. Closed(E, B) /\ t \in B /\ Closed(D, R) /\ None \in R
    BY ReachIsClosed
  <2>2. \A e \in E : e \in D \/ e[2] = t
    <3> SUFFICES ASSUME NEW s \in DOMAIN rows, s[1] = f, s \notin DOMAIN rows'  PROVE s[3] = t
      BY DEF Edges, EdgesOf
    <3> QED  BY <1>1 DEF Rehung
  <2>3. <<new, t>> \in D
    <3>1. <<f, new, t>> \in DOMAIN rows' /\ <<f, new, t>>[1] = f /\ <<f, new, t>>[2] = new /\ <<f, new, t>>[3] = t
      BY <1>1 DEF Rehung
    <3> QED  BY <3>1 DEF EdgesOf
  <2>4. <<new, t>>[1] = new /\ <<new, t>>[2] = t
    OBVIOUS
  <2> HIDE DEF E, D, B, R
  <2>5. new \in R
    <3> DEFINE X == R \cup B
    <3>1. Closed(E, X) /\ {None} \subseteq X
      BY <2>1, <2>2 DEF Closed
    <3> HIDE DEF X
    <3>2. Reach(E, {None}) \subseteq X
      BY <3>1, ReachIsLeast
    <3> QED  BY <1>3, <2>1, <3>2 DEF X, Rooted, E, B
  <2>6. t \in R
    BY <2>1, <2>3, <2>4, <2>5 DEF Closed
  <2>7. Closed(E, R) /\ {None} \subseteq R
    BY <2>1, <2>2, <2>6 DEF Closed
  <2>8. Reach(E, {None}) \subseteq R
    BY <2>7, ReachIsLeast
  <2> QED  BY <1>3, <2>8 DEF Rooted, E, D, R
<1> QED  BY <1>2, <1>3

(* A finite set in which one can always go up has a loop. *)
LEMMA NoEndlessWayUp ==
    ASSUME NEW K, IsFiniteSet(K), NEW L, NEW U \in SUBSET K,
           \A c \in U : \E b \in U : <<b, c>> \in L /\ b \notin Reach(L, Kids(L, b))
    PROVE  U = {}
<1> SUFFICES ASSUME U # {}  PROVE FALSE
  OBVIOUS
<1> DEFINE other(c) == K \ Reach(L, {c})
           T == {other(c) : c \in U}
           R == StrictSubsetOrdering(K)
<1>1. IsWellFoundedOn(R, FiniteSubsetsOf(K))
  BY FS_StrictSubsetOrderingWellFounded
<1>2. T \subseteq FiniteSubsetsOf(K) /\ T # {}
  <2>1. \A c \in U : other(c) \in SUBSET K /\ IsFiniteSet(other(c))
    BY FS_Subset
  <2> HIDE DEF other
  <2> QED  BY <2>1 DEF FiniteSubsetsOf
<1>3. PICK x \in T : \A y \in T : ~ (<<y, x>> \in R)
  <2> HIDE DEF R, T
  <2> QED  BY <1>1, <1>2, WFMin
<1>4. PICK c \in U : x = other(c)
  OBVIOUS
<1>5. PICK b \in U : <<b, c>> \in L /\ b \notin Reach(L, Kids(L, b))
  OBVIOUS
<1>6. Reach(L, {c}) \subseteq Reach(L, Kids(L, b))
  <2>1. <<b, c>>[1] = b /\ <<b, c>>[2] = c
    OBVIOUS
  <2>2. c \in Kids(L, b)
    BY <1>5, <2>1 DEF Kids
  <2>3. c \in Reach(L, Kids(L, b))
    BY <2>2, ReachIsClosed
  <2> QED  BY <2>3, ReachOn
<1>7. Reach(L, {b}) = {b} \cup Reach(L, Kids(L, b))
  BY ReachFromOne
<1>8. other(b) \subseteq other(c) /\ b \in other(c) /\ b \notin other(b)
  BY <1>5, <1>6, <1>7
<1>9. other(b) \in SUBSET K /\ other(c) \in SUBSET K /\ other(b) # other(c) /\ other(b) \in T
  BY <1>8
<1> QED  BY <1>3, <1>4, <1>8, <1>9 DEF StrictSubsetOrdering

LEMMA ShareSeen ==
    ASSUME TaskInv, NEW t \in Tasks, NEW from \in Folders, NEW to \in Folders, Share(t, from, to), NEW g \in Folders
    PROVE  Rooted(g) \subseteq Reach(EdgesOf(rows', g), {None})
<1> DEFINE under == Under(from, t)
           all == under \cup {t}
           L == LiveOnly(Edges(from))
           E == Edges(to)
           D == EdgesOf(rows', to)
           R == Reach(D, {None})
<1>1. PICK above \in [under -> all] :
         /\ \A c \in under : <<above[c], c>> \in Edges(from)
         /\ DOMAIN rows' = Left(to, all) \cup Shared(to, t, under, above)
  BY ShareRows
<1>2. /\ \A x \in under : x \notin Reach(L, Kids(L, x))
      /\ under \subseteq Live
  BY Walk DEF Share
<1>3. CASE g # to
  <2>1. \A s \in DOMAIN rows : s[1] = g => s \in DOMAIN rows'
    BY <1>1, <1>3 DEF Left
  <2> QED  BY <2>1, GrownSeen
<1>4. CASE g = to
  <2>1. Closed(D, R) /\ None \in R
    BY ReachIsClosed
  <2>2. \A e \in E : e \in D \/ e[2] \in all
    <3> SUFFICES ASSUME NEW s \in DOMAIN rows, s[1] = to, s \notin DOMAIN rows'  PROVE s[3] \in all
      BY DEF Edges, EdgesOf
    <3> QED  BY <1>1 DEF Left
  <2>3. <<None, t>> \in D
    <3>1. <<to, None, t>> \in DOMAIN rows' /\ <<to, None, t>>[1] = to
          /\ <<to, None, t>>[2] = None /\ <<to, None, t>>[3] = t
      BY <1>1 DEF Shared
    <3> HIDE DEF under, all
    <3> QED  BY <3>1 DEF EdgesOf
  <2>4. ASSUME NEW c \in under  PROVE <<above[c], c>> \in D /\ <<above[c], c>> \in L
    <3>1. <<to, above[c], c>> \in DOMAIN rows' /\ <<to, above[c], c>>[1] = to
          /\ <<to, above[c], c>>[2] = above[c] /\ <<to, above[c], c>>[3] = c
      BY <1>1 DEF Shared
    <3>2. <<above[c], c>> \in D
      <4> HIDE DEF under, all
      <4> QED  BY <3>1 DEF EdgesOf
    <3>3. <<above[c], c>> \in L
      BY <1>1, <1>2 DEF LiveOnly
    <3> QED  BY <3>2, <3>3
  <2> HIDE DEF E, D, R, L, under
  <2>5. t \in R
    <3>1. <<None, t>>[1] = None /\ <<None, t>>[2] = t
      OBVIOUS
    <3> QED  BY <2>1, <2>3, <3>1 DEF Closed
  <2>6. under \ R = {}
    <3> DEFINE U == under \ R
    <3>1. ASSUME NEW c \in U
          PROVE  \E b \in U : <<b, c>> \in L /\ b \notin Reach(L, Kids(L, b))
      <4>1. <<above[c], c>>[1] = above[c] /\ <<above[c], c>>[2] = c
        OBVIOUS
      <4>2. above[c] \notin R
        BY <2>1, <2>4, <4>1 DEF Closed
      <4>3. above[c] \in U
        BY <1>1, <2>5, <4>2
      <4> QED  BY <1>2, <2>4, <4>3
    <3>2. U \in SUBSET known /\ IsFiniteSet(known)
      BY <1>2 DEF Live, TaskInv
    <3> HIDE DEF U
    <3>3. U = {}
      BY <3>1, <3>2, NoEndlessWayUp
    <3> QED  BY <3>3 DEF U
  <2>7. Closed(E, R) /\ {None} \subseteq R
    BY <2>1, <2>2, <2>5, <2>6 DEF Closed
  <2>8. Reach(E, {None}) \subseteq R
    BY <2>7, ReachIsLeast
  <2> QED  BY <1>4, <2>8 DEF Rooted, E, D, R
<1> QED  BY <1>3, <1>4

LEMMA UnshareSeen ==
    ASSUME TaskInv, NEW t \in Tasks, NEW f \in Folders, Unshare(t, f), NEW g \in Folders, SingleRows(g),
           NEW c \in Seen(g), NEW d \in EdgesOf(rows', g), d[2] = c
    PROVE  c \in Reach(EdgesOf(rows', g), {None})
<1> DEFINE under == Under(f, t)
           gone  == ({f} \X (under \cup {t}) \X under) \cup {<<f, None, t>>}
           E == Edges(f)
           L == LiveOnly(Edges(f))
           D == EdgesOf(rows', f)
           R == Reach(D, {None})
           X == R \cup under \cup {t}
<1>1. DOMAIN rows' = DOMAIN rows \ gone /\ rows' \in AllRows(known)
  BY UnshareRows
<1>2. c \in Rooted(g) /\ c # None
  BY SeenIsRooted DEF Seen
<1>3. known \subseteq Tasks /\ DOMAIN rows \subseteq Places(known) /\ DOMAIN rows' \subseteq Places(known)
  BY <1>1, RowsNow
<1>4. /\ \A a, b : <<a, b>> \in E <=> <<f, a, b>> \in DOMAIN rows
      /\ E \subseteq (known \cup {None}) \X known
  BY <1>3, EdgesAre DEF Edges
<1>5. /\ \A a, b : <<a, b>> \in D <=> <<f, a, b>> \in DOMAIN rows'
      /\ D \subseteq (known \cup {None}) \X known
  BY <1>3, EdgesAre
<1>6. CASE g # f
  <2>1. \A s \in DOMAIN rows : s[1] = g => s \in DOMAIN rows'
    BY <1>1, <1>6
  <2>2. Rooted(g) \subseteq Reach(EdgesOf(rows', g), {None})
    BY <2>1, GrownSeen
  <2> QED  BY <1>2, <2>2
<1>7. CASE g = f /\ t \notin Rooted(f)
  <2>1. under = {}
    BY <1>7 DEF Under
  <2>2. <<f, None, t>> \notin DOMAIN rows
    <3>1. <<None, t>>[1] = None /\ <<None, t>>[2] = t
      OBVIOUS
    <3>2. Closed(E, Reach(E, {None})) /\ None \in Reach(E, {None})
      BY ReachIsClosed
    <3> QED  BY <1>4, <1>7, <3>1, <3>2, NoneAssumption DEF Closed, Rooted
  <2>3. \A s \in DOMAIN rows : s[1] = g => s \in DOMAIN rows'
    BY <1>1, <2>1, <2>2
  <2>4. Rooted(g) \subseteq Reach(EdgesOf(rows', g), {None})
    BY <2>3, GrownSeen
  <2> QED  BY <1>2, <2>4
<1>8. CASE g = f /\ t \in Rooted(f)
  <2>1. under = Reach(L, Kids(L, t)) /\ t \notin under
    BY <1>8, Walk DEF Unshare
  <2>2. \A e \in L : e \in E /\ e = <<e[1], e[2]>>
    BY <1>4 DEF LiveOnly
  <2>3. Closed(D, R) /\ None \in R /\ Closed(L, under) /\ Kids(L, t) \subseteq under
    BY <2>1, ReachIsClosed
  <2>4. \A e \in E : e \in D <=> <<f, e[1], e[2]>> \notin gone
    BY <1>1, <1>4, <1>5
  <2>5. \A e \in E : e \in D \/ e[2] \in under \cup {t}
    BY <2>4
  <2>6. d \in E /\ \A e \in E : e[2] = c => e = d
    <3>1. d = <<d[1], d[2]>> /\ <<f, d[1], d[2]>> \in DOMAIN rows
      BY <1>1, <1>5, <1>8
    <3>2. d \in E
      BY <1>4, <3>1
    <3> QED  BY <1>8, <3>2 DEF SingleRows
  <2>7. d \in D
    BY <1>8
  <2>8. ASSUME NEW e \in L, e[1] \in under \cup {t}  PROVE e[2] \in under
    BY <2>3, <2>8 DEF Closed, Kids
  <2> HIDE DEF E, L, D, R, under
  <2>9. Reach(L, {None}) \subseteq X
    <3>1. Closed(L, X) /\ {None} \subseteq X
      BY <2>2, <2>3, <2>5, <2>8 DEF Closed
    <3> HIDE DEF X
    <3> QED  BY <3>1, ReachIsLeast
  <2>10. c \in Reach(L, {None}) /\ c \notin {None}
    BY <1>8 DEF Seen, L
  <2>11. CASE c \in under
    <3>1. PICK e \in L : e[2] = c /\ e[1] \in under \cup {t}
      <4>1. CASE c \in Kids(L, t)
        BY <4>1 DEF Kids
      <4>2. CASE c \notin Kids(L, t)
        BY <2>1, <2>11, <4>2, ReachBack
      <4> QED  BY <4>1, <4>2
    <3>2. e = d /\ e \in E
      BY <2>2, <2>6, <3>1
    <3>3. <<f, e[1], e[2]>> \in gone
      BY <2>11, <3>1
    <3> QED  BY <2>4, <2>7, <3>2, <3>3
  <2>12. CASE c = t
    <3>1. PICK e \in L : e[2] = c /\ e[1] \in Reach(L, {None})
      BY <2>10, ReachBack
    <3>2. e = d /\ e[1] \in X
      BY <2>2, <2>6, <2>9, <3>1
    <3>3. e[1] \notin under \cup {t}
      BY <2>1, <2>8, <2>12, <3>1
    <3>4. e[1] \in R
      BY <3>2, <3>3
    <3> QED  BY <1>8, <2>3, <2>7, <3>1, <3>2, <3>4 DEF Closed, D, R
  <2> QED  BY <1>8, <2>9, <2>10, <2>11, <2>12 DEF D, R
<1> QED  BY <1>6, <1>7, <1>8

LEMMA PermanentDeleteSeen ==
    ASSUME TaskInv, NEW t \in Tasks, PermanentDelete(t), NEW g \in Folders, NEW c \in Rooted(g),
           \A x \in known \ known' : c \notin Reach(Edges(g), {x})
    PROVE  c \in Reach(EdgesOf(rows', g), {None})
<1> DEFINE gone == UNION {Reach(Edges(f), {y \in Rooted(f) : <<t, y>> \in ShowsIn}) : f \in Folders}
           E == Edges(g)
           D == EdgesOf(rows', g)
           R == Reach(D, {None})
           X == R \cup UNION {Reach(E, {x}) : x \in gone}
<1>1. known' = known \ gone /\ DOMAIN rows' = {s \in DOMAIN rows : s[2] \notin gone /\ s[3] \notin gone}
  BY PermanentDeleteRows
<1>2. gone \subseteq known
  <2>1. ASSUME NEW f \in Folders, NEW S \in SUBSET Rooted(f)  PROVE Reach(Edges(f), S) \subseteq known
    <3>1. Edges(f) \subseteq (known \cup {None}) \X known
      BY RowsNow, EdgesAre DEF Edges
    <3>2. Rooted(f) \subseteq known
      BY <3>1, TargetsKnown DEF Rooted
    <3>3. Reach(Edges(f), S) \subseteq S \cup known
      BY <3>1, TargetsKnown
    <3> QED  BY <3>2, <3>3
  <2>2. \A f \in Folders : Reach(Edges(f), {y \in Rooted(f) : <<t, y>> \in ShowsIn}) \subseteq known
    BY <2>1
  <2> QED  BY <2>2
<1> HIDE DEF gone
<1>3. Closed(D, R) /\ None \in R
  BY ReachIsClosed
<1>4. \A x : Closed(E, Reach(E, {x})) /\ x \in Reach(E, {x})
  BY ReachIsClosed
<1>5. \A e \in E : e \in D \/ e[1] \in gone \/ e[2] \in gone
  <2> SUFFICES ASSUME NEW s \in DOMAIN rows, s[1] = g, s \notin DOMAIN rows'  PROVE s[2] \in gone \/ s[3] \in gone
    BY DEF Edges, EdgesOf
  <2> QED  BY <1>1
<1> HIDE DEF E, D, R
<1>6. Closed(E, X) /\ {None} \subseteq X
  <2>1. ASSUME NEW e \in E, e[1] \in R  PROVE e[2] \in X
    <3>1. CASE e \in D
      BY <1>3, <2>1, <3>1 DEF Closed
    <3>2. CASE e[1] \in gone
      BY <1>4, <3>2 DEF Closed
    <3>3. CASE e[2] \in gone
      BY <1>4, <3>3
    <3> QED  BY <1>5, <3>1, <3>2, <3>3
  <2>2. ASSUME NEW e \in E, NEW x \in gone, e[1] \in Reach(E, {x})  PROVE e[2] \in X
    BY <1>4, <2>2 DEF Closed
  <2> QED  BY <1>3, <2>1, <2>2 DEF Closed
<1>7. Reach(E, {None}) \subseteq X
  <2> HIDE DEF X
  <2> QED  BY <1>6, ReachIsLeast
<1>8. ASSUME NEW x \in gone  PROVE c \notin Reach(E, {x})
  BY <1>1, <1>2 DEF E
<1>9. c \in Reach(E, {None})
  BY DEF Rooted, E
<1> QED  BY <1>7, <1>8, <1>9 DEF D, R

LEMMA MoveSeen ==
    ASSUME TaskInv, NEW ts \in Batches, NEW src \in Folders, NEW dst \in Folders, MoveBetweenFolders(ts, src, dst),
           NEW g \in Folders, SingleRows(g), NEW c \in Seen(g), NEW d \in EdgesOf(rows', g), d[2] = c
    PROVE  c \in Reach(EdgesOf(rows', g), {None})
<1>1. Good(rows', dst)
  BY MoveGood
<1>2. CASE g = dst
  BY <1>1, <1>2, SeenIsRooted DEF Good
<1>3. CASE g # dst
  <2>1. c \in Reach(LiveOnly(EdgesOf(rows', g)), {None})
    BY <1>1, <1>3 DEF Good
  <2>2. LiveOnly(EdgesOf(rows', g)) \in SUBSET EdgesOf(rows', g)
    BY DEF LiveOnly
  <2> QED  BY <2>1, <2>2, FewerReach
<1> QED  BY <1>2, <1>3

SeenStep ==
    \A f \in Folders : IsTree(f) => \A c \in Seen(f) \cap known' :
       (In(f, c) /\ c \notin Rooted(f))' =>
          \/ \E t \in Tasks, old, new \in Parents :
                /\ new \notin Rooted(f) \cup {None} \/ new \in Reach(Edges(f), {t})
                /\ Reparent(t, f, old, new)
          \/ \E t \in Tasks, x \in known \ known' :
                PermanentDelete(t) /\ c \in Reach(Edges(f), {x})

LEMMA StepSeen == TaskInv /\ [Next]_vars => [SeenStep]_vars
<1> SUFFICES ASSUME TaskInv, [Next]_vars, NEW g \in Folders, IsTree(g), NEW c \in Seen(g) \cap known',
                    NEW d \in EdgesOf(rows', g), d[2] = c, c \notin Reach(EdgesOf(rows', g), {None})
             PROVE  \/ \E t \in Tasks, old, new \in Parents :
                          /\ new \notin Rooted(g) \cup {None} \/ new \in Reach(Edges(g), {t})
                          /\ Reparent(t, g, old, new)
                    \/ \E t \in Tasks, x \in known \ known' :
                          PermanentDelete(t) /\ c \in Reach(Edges(g), {x})
  <2>1. ASSUME NEW f, NEW c \in Seen(f), (In(f, c) /\ c \notin Rooted(f))'
        PROVE  c \notin Reach(EdgesOf(rows', f), {None}) /\ \E d \in EdgesOf(rows', f) : d[2] = c
    BY <2>1 DEF In, Rooted, Edges, Seen
  <2> QED  BY <2>1 DEF SeenStep
<1>1. c \in Seen(g) /\ c \in Rooted(g)
  BY SeenIsRooted
<1>2. SingleRows(g)
  BY DEF IsTree, SingleRows
<1>3. ASSUME \A s \in DOMAIN rows : s \in DOMAIN rows'  PROVE FALSE
  <2>1. Rooted(g) \subseteq Reach(EdgesOf(rows', g), {None})
    BY <1>3, GrownSeen
  <2> QED  BY <1>1, <2>1
<1>4. ASSUME NEW t \in Tasks, NEW f \in Folders, NEW p \in Parents, Create(t, f, p)  PROVE FALSE
  BY <1>3, <1>4, CreateRows
<1>5. ASSUME NEW t \in Tasks, NEW f \in Folders, NEW old \in Parents, NEW new \in Parents, Reparent(t, f, old, new)
      PROVE  f = g /\ (new \notin Rooted(g) \cup {None} \/ new \in Reach(Edges(g), {t}))
  BY <1>1, <1>5, ReparentSeen
<1>6. ASSUME NEW t \in Tasks, NEW from \in Folders, NEW to \in Folders, Share(t, from, to)  PROVE FALSE
  BY <1>1, <1>6, ShareSeen
<1>7. ASSUME NEW t \in Tasks, NEW f \in Folders, Unshare(t, f)  PROVE FALSE
  BY <1>1, <1>2, <1>7, UnshareSeen
<1>8. ASSUME NEW ts \in Batches, NEW src \in Folders, NEW dst \in Folders, MoveBetweenFolders(ts, src, dst)  PROVE FALSE
  BY <1>1, <1>2, <1>8, MoveSeen
<1>9. ASSUME NEW t \in Tasks, PermanentDelete(t)  PROVE \E x \in known \ known' : c \in Reach(Edges(g), {x})
  BY <1>1, <1>9, PermanentDeleteSeen
<1>10. rows' = rows => FALSE
  BY <1>3
<1> QED  BY <1>4, <1>5, <1>6, <1>7, <1>8, <1>9, <1>10 DEF Next, Archive, Delete, Restore, RestoreDeleted, vars

(* What is seen in a folder that is a tree is still found there after any call, as long as it has a
   row there, but for a task hung out of the tree and what is below a task deleted for good. *)
THEOREM SeenStays == Spec => SeenStaysInTree
<1>1. TaskInv /\ [Next]_vars => [SeenStep]_vars
  BY StepSeen
<1>2. Spec => [][SeenStep]_vars
  BY Invariance, <1>1, PTL DEF Spec
<1> QED  BY <1>2 DEF SeenStaysInTree, SeenStep
=============================================================================
