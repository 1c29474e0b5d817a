------------------------------ MODULE Work_proofs ------------------------------
(***************************************************************************)
(* Proofs about the tasks of folders: Schedule, for any finite sets of     *)
(* folders and tasks, any days and any bounds, and Board, for any          *)
(* workflows, states and users besides.                                    *)
(*                                                                         *)
(* Schedule.  A loop keeps what each of its steps keeps (LoopKeeps), and   *)
(* what one of its steps makes true stays if no later one can undo it      *)
(* (LoopStays).  What is made true is that a parent spans its children, or *)
(* that a successor is behind its task.                                    *)
(*                                                                         *)
(* Board.  What makes room moves positions only (Shuffled), so the column  *)
(* of a task changes where a call names it: along a transition, which      *)
(* joins columns of one workflow (TypeOK), by a mapping, or in share.      *)
(* That a move inserts holds of one step: in a list in order no two have   *)
(* the same position (RankedApart), and a numbering that follows the       *)
(* positions is the only one (Ranks).                                      *)
(***************************************************************************)
EXTENDS Schedule, Board, Recursion, FiniteSetTheorems, TLAPS

-----------------------------------------------------------------------------
(* What a task's dates become *)

LEMMA SpanFields ==
    ASSUME NEW x \in Span
    PROVE  x.start \in Nat /\ x.end \in Nat /\ x = [start |-> x.start, end |-> x.end]
<1>1. Reach \cup {NoDate} \subseteq Nat
  BY DaysAssumption DEF NoDate
<1>2. x \in [start : Nat, end : Nat]
  BY <1>1 DEF Span
<1> QED  BY <1>2

LEMMA ThrownIsNoDates ==
    ASSUME NEW t \in Tasks, NEW d \in [Tasks -> Span]
    PROVE  d # Thrown
BY DEF Thrown

LEMMA TaskDateIs ==
    ASSUME NEW d \in [Tasks -> Span], NEW t \in Tasks, NEW start, NEW end
    PROVE  LET new == [start |-> IF start # NoDate THEN start ELSE d[t].start,
                       end |-> IF end # NoDate THEN end ELSE d[t].end]
           IN  /\ TaskDate(d, t, start, end) \in Left
               /\ TaskDate(d, t, start, end) # Thrown =>
                    /\ new \in Span /\ (start # NoDate => d[t].start # NoDate)
                    /\ TaskDate(d, t, start, end) = [d EXCEPT ![t] = new]
<1> DEFINE new == [start |-> IF start # NoDate THEN start ELSE d[t].start,
                   end |-> IF end # NoDate THEN end ELSE d[t].end]
<1> HIDE DEF new
<1>1. CASE (start # NoDate /\ d[t].start = NoDate) \/ new \notin Span
  BY <1>1 DEF TaskDate, Left, new
<1>2. CASE (start # NoDate => d[t].start # NoDate) /\ new \in Span
  <2>1. TaskDate(d, t, start, end) = [d EXCEPT ![t] = new]
    BY <1>2 DEF TaskDate, new
  <2>2. [d EXCEPT ![t] = new] \in [Tasks -> Span]
    BY <1>2
  <2> QED  BY <1>2, <2>1, <2>2 DEF Left, new
<1> QED  BY <1>1, <1>2

(* A step leaves the dates of the other tasks, or throws. *)
LEMMA OnlyOne ==
    ASSUME NEW d \in [Tasks -> Span], NEW t \in Tasks, NEW start, NEW end, NEW x \in Tasks \ {t},
           TaskDate(d, t, start, end) # Thrown
    PROVE  TaskDate(d, t, start, end)[x] = d[x]
<1> DEFINE new == [start |-> IF start # NoDate THEN start ELSE d[t].start,
                   end |-> IF end # NoDate THEN end ELSE d[t].end]
<1> HIDE DEF new
<1>1. TaskDate(d, t, start, end) = [d EXCEPT ![t] = new]
  BY DEF TaskDate, new
<1> QED  BY <1>1

LEMMA SuccessorTyped ==
    ASSUME NEW d \in [Tasks -> Span], NEW p \in Tasks, NEW s \in Tasks, NEW type, NEW old \in Span
    PROVE  Successor(d, p, s, type, old) \in Left
BY TaskDateIs DEF Successor, Left

LEMMA ChildDateTyped ==
    ASSUME NEW d \in [Tasks -> Span], NEW c \in Tasks, NEW parent, NEW old \in Span
    PROVE  ChildDate(d, parent, c, old) \in Left
BY TaskDateIs DEF ChildDate

-----------------------------------------------------------------------------
(* The loops over tasks *)

LEMMA EarliestIs ==
    ASSUME NEW d \in [Tasks -> Span], NEW S \in SUBSET Tasks, NEW order \in Orders
    PROVE  /\ Earliest(d, S, order) \in Reach \cup {NoDate}
           /\ S = {} => Earliest(d, S, order) = NoDate
           /\ (\A x \in S : d[x].start # NoDate) =>
                 /\ \A x \in S : Earliest(d, S, order) <= d[x].start
                 /\ S # {} => Earliest(d, S, order) # NoDate
<1> DEFINE D == Reach \cup {NoDate}
           pick(m, i) == IF order[i] \in S
                         THEN IF m = NoDate \/ m > d[order[i]].start THEN d[order[i]].start ELSE m
                         ELSE m
           V == [i \in 1..Count |-> [m \in D |-> pick(m, i)]]
           Solves(g) == g = [i \in 0..Count |-> IF i = 0 THEN NoDate ELSE pick(g[i - 1], i)]
           least == CHOOSE g : Solves(g)
<1>1. Count \in Nat /\ order \in [1..Count -> Tasks] /\ \A x \in Tasks : \E i \in 1..Count : order[i] = x
  BY FiniteAssumption, FS_CardinalityType DEF Count, Orders, Bijection, Injection, Surjection, IsInjective
<1>2. D \subseteq Nat /\ NoDate \in D /\ NoDate = 0
  BY DaysAssumption DEF NoDate
<1>3. \A i \in 1..Count, m \in D : pick(m, i) \in D
  BY <1>1 DEF Span
<1>4. V \in Rules(D, Count)
  BY <1>3 DEF Rules
<1>5. PICK f \in [0..Count -> D] : f[0] = NoDate /\ \A n \in 1..Count : f[n] = V[n][f[n - 1]]
  <2> HIDE DEF V, D
  <2> QED  BY <1>1, <1>2, <1>4, Iterates
<1>6. ASSUME NEW n \in 1..Count  PROVE f[n - 1] \in D /\ f[n] = pick(f[n - 1], n)
  <2>1. f[n - 1] \in D
    BY <1>5, <1>1
  <2> QED  BY <1>5, <2>1
<1>7. Solves(f)
  <2> HIDE DEF pick, D
  <2>1. \A i \in 0..Count : f[i] = IF i = 0 THEN NoDate ELSE pick(f[i - 1], i)
    BY <1>5, <1>6
  <2> QED  BY <2>1, <1>5
<1>8. Solves(least)
  <2> HIDE DEF Solves
  <2> QED  BY <1>7
<1>9. Earliest(d, S, order) = least[Count]
  BY DEF Earliest
<1>10. \A i \in 0..Count : least[i] = IF i = 0 THEN NoDate ELSE pick(least[i - 1], i)
  <2> HIDE DEF least, pick
  <2> QED  BY <1>8
<1> HIDE DEF least, V
<1> DEFINE seen(n) == {order[i] : i \in 1..n} \cap S
           Q == {n \in 0..Count : /\ least[n] \in D
                                  /\ seen(n) = {} => least[n] = NoDate
                                  /\ (\A x \in S : d[x].start # NoDate) =>
                                        /\ \A x \in seen(n) : least[n] <= d[x].start
                                        /\ seen(n) # {} => least[n] # NoDate}
<1>11. 0 \in Q
  BY <1>10, <1>1
<1>12. ASSUME NEW n \in 1..Count, n - 1 \in Q  PROVE n \in Q
  <2>1. PICK m : m = least[n - 1]
    OBVIOUS
  <2>2. PICK z : z = order[n]
    OBVIOUS
  <2>3. PICK T : T = seen(n - 1)
    OBVIOUS
  <2>4. /\ m \in D /\ (T = {} => m = NoDate)
        /\ (\A y \in S : d[y].start # NoDate) =>
              (\A y \in T : m <= d[y].start) /\ (T # {} => m # NoDate)
    BY <1>12, <2>1, <2>3
  <2>5. z \in Tasks /\ T \subseteq Tasks
    BY <1>1, <2>2, <2>3
  <2>6. d[z].start \in D /\ d[z].start \in Nat /\ \A y \in T : d[y].start \in Nat
    BY <2>5, SpanFields DEF Span
  <2>7. seen(n) = IF z \in S THEN T \cup {z} ELSE T
    <3>1. 1..n = (1..(n - 1)) \cup {n}
      BY <1>1
    <3> QED  BY <3>1, <2>2, <2>3
  <2>8. least[n] = IF z \in S THEN (IF m = NoDate \/ m > d[z].start THEN d[z].start ELSE m) ELSE m
    BY <1>10, <2>1, <2>2
  <2>9. n \in 0..Count /\ m \in Nat
    BY <2>4, <1>2
  <2> HIDE DEF seen, D, pick
  <2>10. least[n] \in D /\ (seen(n) = {} => least[n] = NoDate)
    BY <2>4, <2>6, <2>7, <2>8
  <2>11. ASSUME \A y \in S : d[y].start # NoDate
         PROVE  (\A y \in seen(n) : least[n] <= d[y].start) /\ (seen(n) # {} => least[n] # NoDate)
    <3>1. CASE z \notin S
      BY <3>1, <2>11, <2>4, <2>7, <2>8
    <3>2. CASE z \in S
      <4>1. m = NoDate => T = {}
        BY <2>11, <2>4
      <4>2. \A y \in T : m <= d[y].start
        BY <2>11, <2>4
      <4>3. d[z].start # NoDate
        BY <3>2, <2>11
      <4>4. seen(n) = T \cup {z} /\ least[n] = IF m = NoDate \/ m > d[z].start THEN d[z].start ELSE m
        BY <3>2, <2>7, <2>8
      <4> QED  BY <4>1, <4>2, <4>3, <4>4, <2>6, <2>9
    <3> QED  BY <3>1, <3>2
  <2> QED  BY <2>9, <2>10, <2>11
<1>13. Q = 0..Count
  <2>1. Q \in SUBSET (0..Count)
    OBVIOUS
  <2> HIDE DEF Q
  <2> QED  BY <1>1, <1>11, <1>12, <2>1, UpTo
<1>14. Count \in Q
  BY <1>13, <1>1
<1>15. seen(Count) = S
  BY <1>1
<1> QED  BY <1>9, <1>14, <1>15

LEMMA LatestIs ==
    ASSUME NEW d \in [Tasks -> Span], NEW S \in SUBSET Tasks, NEW order \in Orders
    PROVE  /\ Latest(d, S, order) \in Reach \cup {NoDate}
           /\ S = {} => Latest(d, S, order) = NoDate
           /\ \A x \in S : d[x].end <= Latest(d, S, order)
<1> DEFINE D == Reach \cup {NoDate}
           pick(m, i) == IF order[i] \in S
                         THEN IF m = NoDate \/ m < d[order[i]].end THEN d[order[i]].end ELSE m
                         ELSE m
           V == [i \in 1..Count |-> [m \in D |-> pick(m, i)]]
           Solves(g) == g = [i \in 0..Count |-> IF i = 0 THEN NoDate ELSE pick(g[i - 1], i)]
           last == CHOOSE g : Solves(g)
<1>1. Count \in Nat /\ order \in [1..Count -> Tasks] /\ \A x \in Tasks : \E i \in 1..Count : order[i] = x
  BY FiniteAssumption, FS_CardinalityType DEF Count, Orders, Bijection, Injection, Surjection, IsInjective
<1>2. D \subseteq Nat /\ NoDate \in D /\ NoDate = 0
  BY DaysAssumption DEF NoDate
<1>3. \A i \in 1..Count, m \in D : pick(m, i) \in D
  BY <1>1 DEF Span
<1>4. V \in Rules(D, Count)
  BY <1>3 DEF Rules
<1>5. PICK f \in [0..Count -> D] : f[0] = NoDate /\ \A n \in 1..Count : f[n] = V[n][f[n - 1]]
  <2> HIDE DEF V, D
  <2> QED  BY <1>1, <1>2, <1>4, Iterates
<1>6. ASSUME NEW n \in 1..Count  PROVE f[n - 1] \in D /\ f[n] = pick(f[n - 1], n)
  <2>1. f[n - 1] \in D
    BY <1>5, <1>1
  <2> QED  BY <1>5, <2>1
<1>7. Solves(f)
  <2> HIDE DEF pick, D
  <2>1. \A i \in 0..Count : f[i] = IF i = 0 THEN NoDate ELSE pick(f[i - 1], i)
    BY <1>5, <1>6
  <2> QED  BY <2>1, <1>5
<1>8. Solves(last)
  <2> HIDE DEF Solves
  <2> QED  BY <1>7
<1>9. Latest(d, S, order) = last[Count]
  BY DEF Latest
<1>10. \A i \in 0..Count : last[i] = IF i = 0 THEN NoDate ELSE pick(last[i - 1], i)
  <2> HIDE DEF last, pick
  <2> QED  BY <1>8
<1> HIDE DEF last, V
<1> DEFINE seen(n) == {order[i] : i \in 1..n} \cap S
           Q == {n \in 0..Count : /\ last[n] \in D
                                  /\ seen(n) = {} => last[n] = NoDate
                                  /\ \A x \in seen(n) : d[x].end <= last[n]}
<1>11. 0 \in Q
  BY <1>10, <1>1
<1>12. ASSUME NEW n \in 1..Count, n - 1 \in Q  PROVE n \in Q
  <2>1. PICK m : m = last[n - 1]
    OBVIOUS
  <2>2. PICK z : z = order[n]
    OBVIOUS
  <2>3. PICK T : T = seen(n - 1)
    OBVIOUS
  <2>4. /\ m \in D /\ (T = {} => m = NoDate)
        /\ \A y \in T : d[y].end <= m
    BY <1>12, <2>1, <2>3
  <2>5. z \in Tasks /\ T \subseteq Tasks
    BY <1>1, <2>2, <2>3
  <2>6. d[z].end \in D /\ d[z].end \in Nat /\ \A y \in T : d[y].end \in Nat
    BY <2>5, SpanFields DEF Span
  <2>7. seen(n) = IF z \in S THEN T \cup {z} ELSE T
    <3>1. 1..n = (1..(n - 1)) \cup {n}
      BY <1>1
    <3> QED  BY <3>1, <2>2, <2>3
  <2>8. last[n] = IF z \in S THEN (IF m = NoDate \/ m < d[z].end THEN d[z].end ELSE m) ELSE m
    BY <1>10, <2>1, <2>2
  <2>9. n \in 0..Count /\ m \in Nat
    BY <2>4, <1>2
  <2> HIDE DEF seen, D, pick
  <2>10. last[n] \in D /\ (seen(n) = {} => last[n] = NoDate)
    BY <2>4, <2>6, <2>7, <2>8
  <2>11. \A y \in seen(n) : d[y].end <= last[n]
    BY <2>4, <2>6, <2>7, <2>8, <2>9, <1>2
  <2> QED  BY <2>9, <2>10, <2>11
<1>13. Q = 0..Count
  <2>1. Q \in SUBSET (0..Count)
    OBVIOUS
  <2> HIDE DEF Q
  <2> QED  BY <1>1, <1>11, <1>12, <2>1, UpTo
<1>14. Count \in Q
  BY <1>13, <1>1
<1>15. seen(Count) = S
  BY <1>1
<1> QED  BY <1>9, <1>14, <1>15

-----------------------------------------------------------------------------
(* Going up and down in a folder *)

(* The rows of task_relation a call leaves: each task in each folder, below a task or none. *)
Mounted(r) == r.up \in [Folders \X Tasks -> Tasks \cup {None}] /\ r.live \subseteq Tasks

LEMMA ClimbIs ==
    ASSUME NEW r, Mounted(r), NEW f \in Folders, NEW t \in Tasks
    PROVE  /\ Count \in Nat
           /\ Climb(r, f, t)[0] = t
           /\ \A i \in 1..Count :
                /\ Climb(r, f, t)[i] \in r.live \cup {None}
                /\ Climb(r, f, t)[i] # None =>
                     /\ Climb(r, f, t)[i - 1] \in Tasks
                     /\ r.up[<<f, Climb(r, f, t)[i - 1]>>] = Climb(r, f, t)[i]
                /\ Climb(r, f, t)[i - 1] \in Tasks /\ Climb(r, f, t)[i] = None =>
                     r.up[<<f, Climb(r, f, t)[i - 1]>>] \notin r.live
<1> DEFINE D == Tasks \cup {None}
           above(x) == IF <<f, x>> \in DOMAIN r.up /\ r.up[<<f, x>>] \in r.live THEN r.up[<<f, x>>] ELSE None
           V == [i \in 1..Count |-> [x \in D |-> above(x)]]
           Solves(g) == g = [i \in 0..Count |-> IF i = 0 THEN t ELSE above(g[i - 1])]
           at == CHOOSE g : Solves(g)
<1>1. Count \in Nat
  BY FiniteAssumption, FS_CardinalityType DEF Count
<1>2. r.live \subseteq Tasks
  BY DEF Mounted
<1>3. \A x \in D : above(x) \in D
  BY <1>2
<1>4. V \in Rules(D, Count)
  BY <1>3 DEF Rules
<1>5. PICK g \in [0..Count -> D] : g[0] = t /\ \A n \in 1..Count : g[n] = V[n][g[n - 1]]
  <2> HIDE DEF V, D
  <2>1. t \in D
    BY DEF D
  <2> QED  BY <1>1, <1>4, <2>1, Iterates
<1>6. ASSUME NEW n \in 1..Count  PROVE g[n - 1] \in D /\ g[n] = above(g[n - 1])
  <2>1. g[n - 1] \in D
    BY <1>5, <1>1
  <2> QED  BY <1>5, <2>1
<1>7. Solves(g)
  <2> HIDE DEF above, D
  <2>1. \A i \in 0..Count : g[i] = IF i = 0 THEN t ELSE above(g[i - 1])
    BY <1>5, <1>6
  <2> QED  BY <2>1, <1>5
<1>8. Solves(at)
  <2> HIDE DEF Solves
  <2> QED  BY <1>7
<1>9. Climb(r, f, t) = at
  BY DEF Climb
<1>10. \A i \in 0..Count : at[i] = IF i = 0 THEN t ELSE above(at[i - 1])
  <2> HIDE DEF at, above
  <2> QED  BY <1>8
<1> HIDE DEF at, V, Solves
<1>11. at[0] = t
  <2> HIDE DEF above
  <2>1. 0 \in 0..Count
    BY <1>1
  <2> QED  BY <1>10, <2>1
<1>12. ASSUME NEW i \in 1..Count  PROVE at[i] = above(at[i - 1])
  BY <1>10
<1>13. ASSUME NEW x
       PROVE  /\ above(x) \in r.live \cup {None}
              /\ above(x) # None => x \in Tasks /\ r.up[<<f, x>>] = above(x)
              /\ x \in Tasks /\ above(x) = None => r.up[<<f, x>>] \notin r.live
  BY <1>2, NoneAssumption DEF Mounted
<1> QED  BY <1>1, <1>9, <1>11, <1>12, <1>13

(* A parent on the way up is a task that is not archived. *)
LEMMA ClimbLive ==
    ASSUME NEW r, Mounted(r), NEW f \in Folders, NEW t \in Tasks, NEW i \in 1..Count, Climb(r, f, t)[i] # None
    PROVE  Climb(r, f, t)[i] \in Tasks \cap r.live
<1>1. Climb(r, f, t)[i] \in r.live \cup {None}
  BY ClimbIs
<1> QED  BY <1>1 DEF Mounted

(* A parent on the way up has a child. *)
LEMMA AboveHasChild ==
    ASSUME NEW r, Mounted(r), NEW f \in Folders, NEW t \in r.live, NEW i \in 1..Count,
           Climb(r, f, t)[i] # None
    PROVE  Climb(r, f, t)[i - 1] \in Children(r, Climb(r, f, t)[i])
<1> DEFINE c == Climb(r, f, t)
<1>1. t \in Tasks /\ Count \in Nat
  BY ClimbIs DEF Mounted
<1>2. c[i - 1] \in Tasks /\ r.up[<<f, c[i - 1]>>] = c[i]
  BY <1>1, ClimbIs
<1>3. c[i - 1] \in r.live
  <2>1. CASE i = 1
    BY <2>1, <1>1, ClimbIs
  <2>2. CASE i # 1
    <3>1. i - 1 \in 1..Count
      BY <2>2, <1>1
    <3>2. c[i - 1] \in r.live \cup {None}
      BY <3>1, <1>1, ClimbIs
    <3> QED  BY <3>2, <1>2, NoneAssumption
  <2> QED  BY <2>1, <2>2
<1> QED  BY <1>2, <1>3 DEF Children, Mounted

LEMMA CountIsNat == Count \in Nat
BY FiniteAssumption, FS_CardinalityType DEF Count

(* No tasks of a folder each have their parent among them. *)
NoRing(r) == \A f \in Folders, S \in SUBSET Tasks : (\A x \in S : r.up[<<f, x>>] \in S) => S = {}

(* All that is passed on the way up to a parent is a task. *)
LEMMA ClimbBack ==
    ASSUME NEW r, Mounted(r), NEW f \in Folders, NEW t \in Tasks, NEW j \in 1..Count, Climb(r, f, t)[j] # None
    PROVE  \A n \in 0..j : Climb(r, f, t)[n] \in Tasks
<1> DEFINE c == Climb(r, f, t)
           Q == {k \in 0..j : \A n \in (j - k)..j : c[n] \in Tasks}
<1>1. Count \in Nat
  BY CountIsNat
<1>2. \A n \in 1..Count : c[n] # None => c[n - 1] \in Tasks
  BY ClimbIs
<1>3. c[j] \in Tasks
  BY ClimbLive
<1> HIDE DEF c
<1>4. 0 \in Q
  BY <1>3, <1>1
<1>5. ASSUME NEW k \in 1..j, k - 1 \in Q  PROVE k \in Q
  <2>1. \A n \in (j - (k - 1))..j : c[n] \in Tasks
    BY <1>5
  <2>2. j - k + 1 \in 1..Count /\ c[j - k + 1] \in Tasks
    BY <2>1, <1>1
  <2>3. c[j - k] \in Tasks
    <3>1. (j - k + 1) - 1 = j - k
      BY <1>1
    <3>2. c[j - k + 1] # None
      BY <2>2, NoneAssumption
    <3> QED  BY <2>2, <3>1, <3>2, <1>2
  <2>4. \A n \in (j - k)..j : n = j - k \/ n \in (j - (k - 1))..j
    BY <1>1
  <2> QED  BY <2>1, <2>3, <2>4
<1>6. Q = 0..j
  <2>1. Q \in SUBSET (0..j) /\ j \in Nat
    BY <1>1
  <2> HIDE DEF Q
  <2> QED  BY <1>4, <1>5, <2>1, UpTo
<1>7. j \in Q
  <2>1. j \in 0..j
    BY <1>1
  <2> HIDE DEF Q
  <2> QED  BY <1>6, <2>1
<1>8. \A n \in 0..j : c[n] \in Tasks
  BY <1>7, <1>1
<1> QED  BY <1>8 DEF c

(* In a forest the way up from a task never comes to a task twice. *)
LEMMA NeverTwice ==
    ASSUME NEW r, Mounted(r), NoRing(r), NEW f \in Folders, NEW t \in Tasks,
           NEW j \in 1..Count, NEW i \in 0..(j - 1), Climb(r, f, t)[j] # None
    PROVE  Climb(r, f, t)[i] # Climb(r, f, t)[j]
<1> DEFINE c == Climb(r, f, t)
           S == {c[n] : n \in i..j}
<1>1. Count \in Nat
  BY CountIsNat
<1>2. \A n \in 1..Count : c[n] # None => r.up[<<f, c[n - 1]>>] = c[n]
  BY ClimbIs
<1>3. \A n \in 0..j : c[n] \in Tasks
  BY ClimbBack
<1> HIDE DEF c
<1>4. SUFFICES ASSUME c[i] = c[j]  PROVE FALSE
  BY DEF c
<1>5. S \in SUBSET Tasks /\ S # {}
  BY <1>3, <1>1
<1>6. ASSUME NEW n \in i..j  PROVE r.up[<<f, c[n]>>] \in S
  <2>1. PICK m \in i..(j - 1) : c[m] = c[n]
    BY <1>4, <1>1
  <2>2. m + 1 \in 1..Count /\ m + 1 \in i..j /\ (m + 1) - 1 = m
    BY <1>1
  <2>3. c[m + 1] # None
    BY <2>2, <1>3, NoneAssumption
  <2> QED  BY <2>1, <2>2, <2>3, <1>2
<1>7. \A x \in S : r.up[<<f, x>>] \in S
  BY <1>6
<1> QED  BY <1>5, <1>7 DEF NoRing

-----------------------------------------------------------------------------
(* Up: the parents *)

(* Where the parent has its children's dates, it spans them. *)
Spans(r, e, a) ==
    /\ \A c \in Children(r, a) : e[c].end <= e[a].end
    /\ (\A c \in Children(r, a) : e[c].start # NoDate) => (\A c \in Children(r, a) : e[a].start <= e[c].start)

LEMMA ParentDateIs ==
    ASSUME NEW r, Mounted(r), NEW d \in [Tasks -> Span], NEW p \in Tasks, NEW order \in Orders
    PROVE  /\ ParentDate(r, d, p, order) \in Left
           /\ ParentDate(r, d, p, order) # Thrown =>
                /\ ParentDate(r, d, p, order) \in [Tasks -> Span]
                /\ \A x \in Tasks \ {p} : ParentDate(r, d, p, order)[x] = d[x]
                /\ p \notin Children(r, p) => Spans(r, ParentDate(r, d, p, order), p)
<1> DEFINE K == Children(r, p)
           first == Earliest(d, K, order)
           last == Latest(d, K, order)
           new == [start |-> IF first # NoDate THEN first ELSE d[p].start,
                   end |-> IF last # NoDate THEN last ELSE d[p].end]
           e == ParentDate(r, d, p, order)
<1>1. K \in SUBSET Tasks
  BY DEF Mounted, Children
<1>2. e = TaskDate(d, p, first, last)
  BY DEF ParentDate
<1>3. e \in Left /\ (e # Thrown => new \in Span /\ e = [d EXCEPT ![p] = new])
  <2> HIDE DEF first, last
  <2> QED  BY <1>2, TaskDateIs
<1>4. SUFFICES ASSUME e # Thrown
               PROVE  /\ e \in [Tasks -> Span] /\ \A x \in Tasks \ {p} : e[x] = d[x]
                      /\ p \notin K => Spans(r, e, p)
  BY <1>3
<1> HIDE DEF e, new, K
<1>5. e = [d EXCEPT ![p] = new] /\ new \in Span
  BY <1>3, <1>4
<1>6. e \in [Tasks -> Span] /\ e[p] = new /\ \A x \in Tasks \ {p} : e[x] = d[x]
  BY <1>5
<1>7. ASSUME p \notin K  PROVE Spans(r, e, p)
  <2>1. \A x \in K : x \in Tasks /\ e[x] = d[x] /\ d[x].end \in Nat /\ d[x].start \in Nat
    BY <1>1, <1>6, <1>7, SpanFields
  <2>2. \A x \in K : d[x].end <= last
    BY <1>1, LatestIs
  <2>3. (\A x \in K : d[x].start # NoDate) => (\A x \in K : first <= d[x].start) /\ (K # {} => first # NoDate)
    BY <1>1, EarliestIs
  <2>4. last \in Nat /\ first \in Nat
    <3>1. last \in Reach \cup {NoDate} /\ first \in Reach \cup {NoDate}
      BY <1>1, LatestIs, EarliestIs
    <3> HIDE DEF last, first
    <3> QED  BY <3>1, DaysAssumption DEF NoDate
  <2>5. new.start = (IF first # NoDate THEN first ELSE d[p].start) /\ new.end = (IF last # NoDate THEN last ELSE d[p].end)
    BY DEF new
  <2>6. d[p].end \in Nat /\ d[p].start \in Nat
    BY SpanFields
  <2> HIDE DEF first, last
  <2>7. \A x \in K : e[x].end <= e[p].end
    BY <2>1, <2>2, <2>4, <2>5, <2>6, <1>6 DEF NoDate
  <2>8. ASSUME \A x \in K : e[x].start # NoDate  PROVE \A x \in K : e[p].start <= e[x].start
    BY <2>8, <2>1, <2>3, <2>4, <2>5, <1>6
  <2> QED  BY <2>7, <2>8 DEF Spans, K
<1> QED  BY <1>6, <1>7

(* What ParentDate keeps for each parent on the way up, the whole way up keeps. *)
LEMMA ParentsKeep ==
    ASSUME NEW r, Mounted(r), NEW f \in Folders, NEW t \in Tasks, NEW order \in Orders,
           NEW Q, NEW d \in Left \cap Q, Thrown \in Q,
           \A i \in 1..Count : Climb(r, f, t)[i] # None =>
               \A e \in [Tasks -> Span] \cap Q : ParentDate(r, e, Climb(r, f, t)[i], order) \in Q
    PROVE  UpdateParentTasks(r, d, f, t, order) \in Left \cap Q
<1> DEFINE above == Climb(r, f, t)
           step(e, i) == IF e = Thrown \/ above[i] = None THEN e ELSE ParentDate(r, e, above[i], order)
           V == [i \in 1..Count |-> [e \in Left |-> step(e, i)]]
<1>1. UpdateParentTasks(r, d, f, t, order) = Loop(V, d)
  BY DEF UpdateParentTasks
<1>2. ASSUME NEW i \in 1..Count, above[i] # None  PROVE above[i] \in Tasks
  BY <1>2, ClimbLive
<1>3. ASSUME NEW i \in 1..Count, NEW e \in Left  PROVE step(e, i) \in Left /\ (e \in Q => step(e, i) \in Q)
  <2>1. CASE e = Thrown \/ above[i] = None
    BY <2>1
  <2>2. CASE e # Thrown /\ above[i] # None
    <3>1. e \in [Tasks -> Span]
      BY <2>2 DEF Left
    <3>2. step(e, i) = ParentDate(r, e, above[i], order)
      BY <2>2
    <3> HIDE DEF step, above
    <3>3. step(e, i) \in Left
      BY <3>1, <3>2, <2>2, <1>2, ParentDateIs
    <3>4. e \in Q => ParentDate(r, e, above[i], order) \in Q
      BY <3>1, <2>2 DEF above
    <3> QED  BY <3>2, <3>3, <3>4
  <2> QED  BY <2>1, <2>2
<1>4. V \in Rules(Left, Count) /\ \A i \in 1..Count, e \in Left \cap Q : V[i][e] \in Q
  <2> HIDE DEF step
  <2> QED  BY <1>3 DEF Rules
<1> HIDE DEF V
<1>5. Loop(V, d) \in Left \cap Q
  BY <1>4, CountIsNat, LoopStays
<1> QED  BY <1>1, <1>5

LEMMA ParentsTyped ==
    ASSUME NEW r, Mounted(r), NEW f \in Folders, NEW t \in Tasks, NEW order \in Orders, NEW d \in Left
    PROVE  UpdateParentTasks(r, d, f, t, order) \in Left
<1> DEFINE Q == Left
<1>1. d \in Left \cap Q /\ Thrown \in Q
  BY DEF Left
<1>2. \A i \in 1..Count : Climb(r, f, t)[i] # None =>
          \A e \in [Tasks -> Span] \cap Q : ParentDate(r, e, Climb(r, f, t)[i], order) \in Q
  <2>1. \A i \in 1..Count : Climb(r, f, t)[i] # None => Climb(r, f, t)[i] \in Tasks
    BY ClimbLive
  <2> QED  BY <2>1, ParentDateIs
<1> HIDE DEF Q
<1>3. UpdateParentTasks(r, d, f, t, order) \in Left \cap Q
  BY <1>1, <1>2, ParentsKeep
<1> QED  BY <1>3

(* After the way up each parent on it spans its live children, if none of them is on the way after it. *)
LEMMA ParentsSpan ==
    ASSUME NEW r, Mounted(r), NoRing(r), NEW f \in Folders, NEW t \in Tasks, NEW order \in Orders, NEW d \in Left,
           UpdateParentTasks(r, d, f, t, order) # Thrown, NEW k \in 1..Count, Climb(r, f, t)[k] # None,
           \A j \in (k + 1)..Count : Climb(r, f, t)[j] \notin Children(r, Climb(r, f, t)[k])
    PROVE  Spans(r, UpdateParentTasks(r, d, f, t, order), Climb(r, f, t)[k])
<1> DEFINE above == Climb(r, f, t)
           step(e, i) == IF e = Thrown \/ above[i] = None THEN e ELSE ParentDate(r, e, above[i], order)
           V == [i \in 1..Count |-> [e \in Left |-> step(e, i)]]
           p == above[k]
           K == Children(r, p)
           Q == [n \in 0..Count |-> {e \in Left : e = Thrown \/ (k <= n => Spans(r, e, p))}]
<1>1. UpdateParentTasks(r, d, f, t, order) = Loop(V, d)
  BY DEF UpdateParentTasks
<1>2. ASSUME NEW i \in 1..Count, above[i] # None  PROVE above[i] \in Tasks
  BY <1>2, ClimbLive
<1>3. ASSUME NEW i \in 1..Count, NEW e \in Left
      PROVE  step(e, i) \in Left
  BY <1>2, ParentDateIs DEF Left
<1>4. p \in Tasks /\ K \subseteq Tasks /\ p \notin K
  <2>1. p \in Tasks
    BY <1>2
  <2>2. \A h \in Folders : r.up[<<h, p>>] # p
    <3>1. SUFFICES ASSUME NEW h \in Folders, r.up[<<h, p>>] = p  PROVE FALSE
      OBVIOUS
    <3>2. {p} \in SUBSET Tasks /\ \A x \in {p} : r.up[<<h, x>>] \in {p}
      BY <2>1, <3>1
    <3> QED  BY <3>2 DEF NoRing
  <2> HIDE DEF p
  <2> QED  BY <2>1, <2>2 DEF Mounted, Children
<1>5. ASSUME NEW i \in 1..Count, i > k, above[i] # None  PROVE above[i] # p /\ above[i] \notin K
  <2>1. k \in 0..(i - 1) /\ i \in (k + 1)..Count
    BY <1>5
  <2> QED  BY <2>1, <1>5, NeverTwice
<1>6. V \in Rules(Left, Count)
  <2> HIDE DEF step
  <2> QED  BY <1>3 DEF Rules
<1>7. Count \in Nat /\ d \in Q[0]
  <2>1. 0 \in 0..Count /\ ~ (k <= 0)
    BY CountIsNat
  <2> QED  BY <2>1, CountIsNat
<1>8. ASSUME NEW n \in 1..Count, NEW e \in Left, e \in Q[n - 1]  PROVE V[n][e] \in Q[n]
  <2>0. V[n][e] = step(e, n) /\ step(e, n) \in Left
    BY <1>3
  <2>1. V[n][e] = step(e, n) /\ step(e, n) \in Left /\ n \in 0..Count /\ n - 1 \in 0..Count
    BY <2>0, CountIsNat
  <2>2. SUFFICES ASSUME e # Thrown, step(e, n) # Thrown, k <= n  PROVE Spans(r, step(e, n), p)
    <3> HIDE DEF step
    <3>1. CASE e = Thrown
      BY <3>1, <2>1 DEF step
    <3> QED  BY <2>1, <3>1, <2>2
  <2>3. e \in [Tasks -> Span]
    BY <2>2 DEF Left
  <2>4. CASE n = k
    <3>1. step(e, n) = ParentDate(r, e, p, order)
      BY <2>4, <2>2
    <3> HIDE DEF step, p
    <3> QED  BY <3>1, <2>2, <2>3, <1>4, ParentDateIs
  <2>5. CASE n # k
    <3>1. k <= n - 1 /\ n > k
      BY <2>2, <2>5
    <3>2. Spans(r, e, p)
      BY <3>1, <1>8, <2>1, <2>2
    <3>3. CASE above[n] = None
      BY <3>2, <3>3
    <3>4. CASE above[n] # None
      <4>1. step(e, n) = ParentDate(r, e, above[n], order) /\ above[n] \in Tasks
        BY <3>4, <2>2, <1>2
      <4>2. above[n] # p /\ above[n] \notin K
        BY <3>1, <3>4, <1>5
      <4>3. \A x \in K \cup {p} : step(e, n)[x] = e[x]
        <5> HIDE DEF step, p, K, above
        <5> QED  BY <4>1, <4>2, <2>2, <2>3, <1>4, ParentDateIs
      <4> HIDE DEF step, p
      <4> QED  BY <4>3, <3>2 DEF Spans, K
    <3> QED  BY <3>3, <3>4
  <2> QED  BY <2>4, <2>5
<1>9. Loop(V, d) \in Left \cap Q[Count]
  <2> HIDE DEF V, Q
  <2> QED  BY <1>6, <1>7, <1>8, LoopKeeps
<1>10. Count \in 0..Count /\ k <= Count
  BY CountIsNat
<1> HIDE DEF V
<1>11. Spans(r, Loop(V, d), p)
  BY <1>1, <1>9, <1>10
<1> QED  BY <1>1, <1>11

-----------------------------------------------------------------------------
(* Down: the children *)

(* A task below another has a parent that is a task. *)
LEMMA BelowHasParent ==
    ASSUME NEW r, Mounted(r), NEW f \in Folders, NEW c \in Tasks, NEW n \in 1..Count, Climb(r, f, c)[n] # None
    PROVE  r.up[<<f, c>>] \in Tasks
<1>1. Count \in Nat /\ 1 \in 1..Count /\ 1 \in 0..n /\ 1 - 1 = 0
  BY CountIsNat
<1>2. Climb(r, f, c)[1] \in Tasks
  BY <1>1, ClimbBack
<1>3. r.up[<<f, Climb(r, f, c)[0]>>] = Climb(r, f, c)[1] /\ Climb(r, f, c)[0] = c
  BY <1>1, <1>2, ClimbIs, NoneAssumption
<1> QED  BY <1>2, <1>3

(* What ChildDate keeps for each task below, the whole way down keeps. *)
LEMMA ChildrenKeep ==
    ASSUME NEW r, Mounted(r), NEW f \in Folders, NEW t \in Tasks, NEW order \in Orders,
           NEW Q, NEW d \in [Tasks -> Span] \cap Q, Thrown \in Q,
           \A n \in 1..Count, c \in r.live : t \in r.live /\ Climb(r, f, c)[n] = t =>
               \A e \in [Tasks -> Span] \cap Q : ChildDate(e, e[r.up[<<f, c>>]], c, d[c]) \in Q
    PROVE  UpdateChildTasks(r, d, f, t, order) \in Left \cap Q
<1> DEFINE Visit(e, n, c) == IF e # Thrown /\ {c, t} \subseteq r.live /\ Climb(r, f, c)[n] = t
                             THEN ChildDate(e, e[r.up[<<f, c>>]], c, d[c]) ELSE e
           Level(n) == [i \in 1..Count |-> [e \in Left |-> Visit(e, n, order[i])]]
           V == [n \in 1..Count |-> [e \in Left |-> Loop(Level(n), e)]]
<1>1. UpdateChildTasks(r, d, f, t, order) = Loop(V, d)
  BY DEF UpdateChildTasks
<1>2. ASSUME NEW n \in 1..Count, NEW c \in Tasks, NEW e \in Left
      PROVE  Visit(e, n, c) \in Left /\ (e \in Q => Visit(e, n, c) \in Q)
  <2>1. CASE e # Thrown /\ {c, t} \subseteq r.live /\ Climb(r, f, c)[n] = t
    <3>1. e \in [Tasks -> Span] /\ d[c] \in Span
      BY <2>1 DEF Left
    <3>2. Visit(e, n, c) = ChildDate(e, e[r.up[<<f, c>>]], c, d[c])
      BY <2>1
    <3>3. ChildDate(e, e[r.up[<<f, c>>]], c, d[c]) \in Left
      BY <3>1, ChildDateTyped
    <3>4. e \in Q => ChildDate(e, e[r.up[<<f, c>>]], c, d[c]) \in Q
      BY <3>1, <2>1
    <3> HIDE DEF Visit
    <3> QED  BY <3>2, <3>3, <3>4
  <2>2. CASE ~ (e # Thrown /\ {c, t} \subseteq r.live /\ Climb(r, f, c)[n] = t)
    BY <2>2
  <2> QED  BY <2>1, <2>2
<1> HIDE DEF Visit
<1>3. order \in [1..Count -> Tasks] /\ Count \in Nat
  BY CountIsNat DEF Orders, Bijection, Injection
<1>4. ASSUME NEW n \in 1..Count, NEW e \in Left
      PROVE  Loop(Level(n), e) \in Left /\ (e \in Q => Loop(Level(n), e) \in Q)
  <2>1. Level(n) \in Rules(Left, Count)
    BY <1>2, <1>3 DEF Rules
  <2>2. \A i \in 1..Count, x \in Left \cap Left : Level(n)[i][x] \in Left
    BY <1>2, <1>3
  <2>3. \A i \in 1..Count, x \in Left \cap Q : Level(n)[i][x] \in Q
    BY <1>2, <1>3
  <2> HIDE DEF Level
  <2>4. e \in Left \cap Left => Loop(Level(n), e) \in Left \cap Left
    BY <2>1, <2>2, <1>3, LoopStays
  <2>5. e \in Left \cap Q => Loop(Level(n), e) \in Left \cap Q
    BY <2>1, <2>3, <1>3, LoopStays
  <2> QED  BY <2>4, <2>5
<1> HIDE DEF Level
<1>5. V \in Rules(Left, Count) /\ \A n \in 1..Count, e \in Left \cap Q : V[n][e] \in Q
  BY <1>4 DEF Rules
<1> HIDE DEF V
<1>6. Loop(V, d) \in Left \cap Q
  <2>1. d \in Left \cap Q
    BY DEF Left
  <2> QED  BY <2>1, <1>3, <1>5, LoopStays
<1> QED  BY <1>1, <1>6

-----------------------------------------------------------------------------
(* Along: the successors *)

Sound(r) == Mounted(r) /\ DOMAIN r.deps \subseteq Folders \X Tasks \X Tasks

LEMMA DepsAreFinite ==
    ASSUME NEW r, Sound(r)
    PROVE  IsFiniteSet(DOMAIN r.deps)
<1> DEFINE T == Folders \X Tasks \X Tasks
           P == (Folders \X Tasks) \X Tasks
           F == [e \in T |-> <<<<e[1], e[2]>>, e[3]>>]
<1>1. IsFiniteSet(P)
  BY FiniteAssumption, FS_Product
<1>2. F \in Injection(T, P)
  BY DEF Injection, IsInjective
<1>3. IsFiniteSet(T)
  <2> HIDE DEF F, T, P
  <2> QED  BY <1>1, <1>2, FS_Injection
<1> QED  BY <1>3, FS_Subset DEF Sound

(* The ways along dependencies from t are ways over tasks, and finitely many. *)
LEMMA WalksAreFinite ==
    ASSUME NEW r, Sound(r), NEW f \in Folders, NEW t \in Tasks
    PROVE  IsFiniteSet(Walks(r, f, t))
<1> DEFINE W == Walks(r, f, t)
           P == (1..(Count + 1)) \X Tasks
           F == [w \in W |-> {<<i, w[i]>> : i \in DOMAIN w}]
           met == {t} \cup {x[3] : x \in DOMAIN r.deps}
<1>1. Count \in Nat
  BY CountIsNat
<1>2. IsFiniteSet(SUBSET P)
  <2>1. IsFiniteSet(1..(Count + 1))
    BY <1>1, FS_Interval
  <2> QED  BY <2>1, FiniteAssumption, FS_Product, FS_SUBSET
<1>3. met \subseteq Tasks
  BY DEF Sound
<1>4. ASSUME NEW w \in W  PROVE \E n \in 2..(Count + 1) : w \in [1..n -> Tasks]
  <2>1. PICK n \in 2..(Count + 1) : w \in [1..n -> met]
    BY DEF Walks
  <2> HIDE DEF met
  <2> QED  BY <2>1, <1>3
<1> HIDE DEF W
<1>5. ASSUME NEW w \in W  PROVE F[w] \in SUBSET P
  <2>1. PICK n \in 2..(Count + 1) : w \in [1..n -> Tasks]
    BY <1>4
  <2>2. DOMAIN w = 1..n /\ 1..n \subseteq 1..(Count + 1)
    BY <2>1, <1>1
  <2> QED  BY <2>1, <2>2
<1>6. ASSUME NEW v \in W, NEW w \in W, F[v] = F[w]  PROVE v = w
  <2>1. PICK n \in 2..(Count + 1), m \in 2..(Count + 1) : v \in [1..n -> Tasks] /\ w \in [1..m -> Tasks]
    BY <1>4
  <2> DEFINE G(x) == {<<i, x[i]>> : i \in DOMAIN x}
  <2>2. G(v) = G(w)
    BY <1>6
  <2>3. ASSUME NEW i \in DOMAIN v  PROVE i \in DOMAIN w /\ v[i] = w[i]
    <3>1. <<i, v[i]>> \in G(v)
      OBVIOUS
    <3>2. PICK j \in DOMAIN w : <<i, v[i]>> = <<j, w[j]>>
      BY <2>2, <3>1
    <3> QED  BY <3>2
  <2>4. ASSUME NEW i \in DOMAIN w  PROVE i \in DOMAIN v
    <3>1. <<i, w[i]>> \in G(w)
      OBVIOUS
    <3>2. PICK j \in DOMAIN v : <<i, w[i]>> = <<j, v[j]>>
      BY <2>2, <3>1
    <3> QED  BY <3>2
  <2>5. DOMAIN v = DOMAIN w
    BY <2>3, <2>4
  <2> QED  BY <2>1, <2>3, <2>5
<1>7. F \in Injection(W, SUBSET P)
  <2>1. F \in [W -> SUBSET P]
    BY <1>5
  <2> HIDE DEF F, P
  <2> QED  BY <2>1, <1>6 DEF Injection, IsInjective
<1>8. IsFiniteSet(W)
  <2> HIDE DEF F, P
  <2> QED  BY <1>2, <1>7, FS_Injection
<1> QED  BY <1>8 DEF W

(* One visit of the loops over the successors: s is moved behind p, and its parents span it. *)
VisitSuccessor(r, d, f, order, e, p, s) ==
    IF e = Thrown THEN e
    ELSE LET moved == Successor(e, p, s, r.deps[<<f, p, s>>], d[s])
         IN  IF moved = Thrown THEN Thrown ELSE UpdateParentTasks(r, moved, f, s, order)

(* There is a way of n steps from t, the last of them from p to s. *)
OnWalk(r, f, t, n, p, s) == \E w \in Walks(r, f, t) : Len(w) = n + 1 /\ w[n] = p /\ w[n + 1] = s

VisitsKeep(r, d, f, t, order, X) ==
    \A n \in 1..Count, p, s \in Tasks : OnWalk(r, f, t, n, p, s) =>
        \A e \in [Tasks -> Span] \cap X : VisitSuccessor(r, d, f, order, e, p, s) \in X

LEMMA VisitTyped ==
    ASSUME NEW r, Mounted(r), NEW d \in [Tasks -> Span], NEW f \in Folders, NEW order \in Orders,
           NEW e \in Left, NEW p \in Tasks, NEW s \in Tasks
    PROVE  VisitSuccessor(r, d, f, order, e, p, s) \in Left
<1> DEFINE moved == Successor(e, p, s, r.deps[<<f, p, s>>], d[s])
<1>1. CASE e = Thrown
  BY <1>1 DEF VisitSuccessor
<1>2. CASE e # Thrown
  <2>1. e \in [Tasks -> Span] /\ d[s] \in Span
    BY <1>2 DEF Left
  <2>2. moved \in Left
    BY <2>1, SuccessorTyped
  <2>3. VisitSuccessor(r, d, f, order, e, p, s) = IF moved = Thrown THEN Thrown ELSE UpdateParentTasks(r, moved, f, s, order)
    BY <1>2 DEF VisitSuccessor
  <2> HIDE DEF moved
  <2>4. UpdateParentTasks(r, moved, f, s, order) \in Left
    BY <2>2, ParentsTyped
  <2> QED  BY <2>3, <2>4 DEF Left
<1> QED  BY <1>1, <1>2

(* One step of a loop that takes Q to P is enough, where all steps keep both. *)
LEMMA LoopReaches ==
    ASSUME NEW D, NEW K \in Nat, NEW V \in Rules(D, K), NEW Q, NEW P, NEW a \in D \cap Q,
           \A n \in 1..K, x \in D \cap Q : V[n][x] \in Q,
           \A n \in 1..K, x \in D \cap P : V[n][x] \in P,
           NEW k \in 1..K, \A x \in D \cap Q : V[k][x] \in P
    PROVE  Loop(V, a) \in P
<1> DEFINE R == [n \in 0..K |-> {x \in Q : k <= n => x \in P}]
<1>1. a \in D /\ a \in R[0]
  OBVIOUS
<1>2. ASSUME NEW n \in 1..K, NEW x \in D, x \in R[n - 1]  PROVE V[n][x] \in R[n]
  <2>1. n \in 0..K /\ n - 1 \in 0..K
    OBVIOUS
  <2>2. x \in Q /\ (k <= n - 1 => x \in P)
    BY <1>2, <2>1
  <2>3. V[n][x] \in Q
    BY <2>2
  <2>4. k <= n => k = n \/ k <= n - 1
    OBVIOUS
  <2>5. k <= n => V[n][x] \in P
    BY <2>2, <2>4
  <2> QED  BY <2>1, <2>3, <2>5
<1>3. Loop(V, a) \in D \cap R[K]
  <2> HIDE DEF R
  <2> QED  BY <1>1, <1>2, LoopKeeps
<1> QED  BY <1>3

(* What each visit keeps, the loops over the successors keep; and they visit each task that
   depends on t. *)
LEMMA SuccessorsReach ==
    ASSUME NEW r, Sound(r), NEW f \in Folders, NEW t \in Tasks, NEW order \in Orders,
           NEW Q, NEW P, NEW d \in [Tasks -> Span] \cap Q, Thrown \in Q, Thrown \in P,
           VisitsKeep(r, d, f, t, order, Q), VisitsKeep(r, d, f, t, order, P)
    PROVE  /\ UpdateSuccessors(r, d, f, t, order) \in Left \cap Q
           /\ \A s \in r.live :
                /\ t \in r.live \cap InFolder(r, f) /\ <<f, t, s>> \in DOMAIN r.deps
                /\ \A e \in [Tasks -> Span] \cap Q : VisitSuccessor(r, d, f, order, e, t, s) \in P
                => UpdateSuccessors(r, d, f, t, order) \in P
<1> DEFINE times == Cardinality({x \in DOMAIN r.deps : x[2] = t})
           walks == Walks(r, f, t)
           from(n, p) == {w \in walks : Len(w) = n + 1 /\ w[n] = p}
           ways(n, p, s) == Cardinality({w \in from(n, p) : w[n + 1] = s})
           Visit(e, p, s) == VisitSuccessor(r, d, f, order, e, p, s)
           Visits(n, p, s) == [i \in 1..(times * ways(n, p, s)) |-> [e \in Left |-> Visit(e, p, s)]]
           From(n, p) == [i \in 1..Count |-> [e \in Left |-> Loop(Visits(n, p, order[i]), e)]]
           Level(n) == [i \in 1..Count |-> [e \in Left |-> IF from(n, order[i]) = {} THEN e ELSE Loop(From(n, order[i]), e)]]
           V == [n \in 1..Count |-> [e \in Left |-> Loop(Level(n), e)]]
           after == UpdateSuccessors(r, d, f, t, order)
<1>1. after = IF t \in r.live \cap InFolder(r, f) /\ times > 0 THEN Loop(V, d) ELSE d
  BY DEF UpdateSuccessors, VisitSuccessor
<1>2. Mounted(r) /\ r.live \subseteq Tasks /\ Count \in Nat /\ order \in [1..Count -> Tasks]
  BY CountIsNat DEF Sound, Mounted, Orders, Bijection, Injection
<1>3. IsFiniteSet({x \in DOMAIN r.deps : x[2] = t})
  BY DepsAreFinite, FS_Subset
<1> DEFINE S(n, p, s) == {w \in from(n, p) : w[n + 1] = s}
<1>4. ASSUME NEW n, NEW p, NEW s
      PROVE  /\ IsFiniteSet(S(n, p, s)) /\ ways(n, p, s) = Cardinality(S(n, p, s))
             /\ S(n, p, s) # {} => OnWalk(r, f, t, n, p, s)
  <2>1. IsFiniteSet(walks) /\ S(n, p, s) \in SUBSET walks
    BY WalksAreFinite
  <2>2. S(n, p, s) # {} => OnWalk(r, f, t, n, p, s)
    BY DEF OnWalk
  <2> HIDE DEF walks, from
  <2> QED  BY <2>1, <2>2, FS_Subset
<1> HIDE DEF S, ways
<1>5. ASSUME NEW n, NEW p, NEW s
      PROVE  ways(n, p, s) \in Nat /\ (ways(n, p, s) = 0 <=> S(n, p, s) = {})
  <2>1. IsFiniteSet(S(n, p, s)) /\ ways(n, p, s) = Cardinality(S(n, p, s))
    BY <1>4
  <2> QED  BY <2>1, FS_CardinalityType, FS_EmptySet
<1>6. times \in Nat
  BY <1>3, FS_CardinalityType
<1>8. ASSUME NEW e \in Left, NEW p \in Tasks, NEW s \in Tasks  PROVE Visit(e, p, s) \in Left
  BY <1>2, VisitTyped
<1>9. ASSUME NEW n, NEW p, NEW s, ways(n, p, s) # 0  PROVE OnWalk(r, f, t, n, p, s)
  BY <1>4, <1>5, <1>9
<1> HIDE DEF Visit, times
<1>10. \A n, p, s : times * ways(n, p, s) \in Nat
  BY <1>5, <1>6
<1>11. \A n, p, s : ways(n, p, s) = 0 => times * ways(n, p, s) = 0
  BY <1>6
<1> DEFINE Keeps(X) == Thrown \in X /\ VisitsKeep(r, d, f, t, order, X)
<1>12. ASSUME NEW n \in 1..Count, NEW p \in Tasks, NEW s \in Tasks, NEW X, Keeps(X), ways(n, p, s) # 0
       PROVE  \A e \in Left \cap X : Visit(e, p, s) \in X
  <2>1. OnWalk(r, f, t, n, p, s)
    BY <1>9, <1>12
  <2>2. \A e \in [Tasks -> Span] \cap X : Visit(e, p, s) \in X
    BY <2>1, <1>12 DEF VisitsKeep, Visit
  <2>3. Visit(Thrown, p, s) = Thrown
    BY DEF Visit, VisitSuccessor
  <2> QED  BY <2>2, <2>3, <1>12 DEF Left
<1>13. ASSUME NEW n \in 1..Count, NEW p \in Tasks, NEW s \in Tasks
       PROVE  Visits(n, p, s) \in Rules(Left, times * ways(n, p, s))
  BY <1>8 DEF Rules
<1>14. ASSUME NEW n \in 1..Count, NEW p \in Tasks, NEW s \in Tasks, NEW X, Keeps(X), NEW e \in Left \cap X
       PROVE  Loop(Visits(n, p, s), e) \in Left \cap X
  <2> DEFINE K == times * ways(n, p, s)
             W == Visits(n, p, s)
  <2>1. W \in Rules(Left, K) /\ K \in Nat
    BY <1>10, <1>13
  <2>2. ASSUME NEW i \in 1..K, NEW x \in Left \cap X  PROVE W[i][x] \in X
    <3>1. ways(n, p, s) # 0
      BY <1>11
    <3>2. Visit(x, p, s) \in X
      BY <3>1, <1>12, <1>14
    <3> QED  BY <3>2
  <2> HIDE DEF W, K
  <2>3. Loop(W, e) \in Left \cap X
    BY <2>1, <2>2, LoopStays
  <2> QED  BY <2>3 DEF W
<1>15. Keeps(Left)
  BY <1>2, VisitTyped DEF Left, VisitsKeep
<1> HIDE DEF Visits
<1>16. ASSUME NEW n \in 1..Count, NEW p \in Tasks  PROVE From(n, p) \in Rules(Left, Count)
  <2>1. ASSUME NEW i \in 1..Count, NEW e \in Left  PROVE Loop(Visits(n, p, order[i]), e) \in Left
    BY <1>2, <1>14, <1>15
  <2> QED  BY <2>1 DEF Rules
<1>17. ASSUME NEW n \in 1..Count, NEW p \in Tasks, NEW X, Keeps(X)
       PROVE  \A i \in 1..Count, x \in Left \cap X : From(n, p)[i][x] \in X
  BY <1>2, <1>14, <1>17
<1> HIDE DEF From, Keeps
<1>18. ASSUME NEW n \in 1..Count, NEW p \in Tasks, NEW X, Keeps(X), NEW e \in Left \cap X
       PROVE  Loop(From(n, p), e) \in Left \cap X
  BY <1>2, <1>16, <1>17, <1>18, LoopStays
<1> HIDE DEF from
<1>19. ASSUME NEW n \in 1..Count  PROVE Level(n) \in Rules(Left, Count)
  <2>1. ASSUME NEW i \in 1..Count, NEW e \in Left
        PROVE  (IF from(n, order[i]) = {} THEN e ELSE Loop(From(n, order[i]), e)) \in Left
    BY <1>2, <1>15, <1>18
  <2> QED  BY <2>1 DEF Rules
<1>20. ASSUME NEW n \in 1..Count, NEW X, Keeps(X)
       PROVE  \A i \in 1..Count, x \in Left \cap X : Level(n)[i][x] \in X
  BY <1>2, <1>18, <1>20
<1> HIDE DEF Level
<1>21. ASSUME NEW n \in 1..Count, NEW X, Keeps(X), NEW e \in Left \cap X
       PROVE  Loop(Level(n), e) \in Left \cap X
  BY <1>2, <1>19, <1>20, <1>21, LoopStays
<1>22. V \in Rules(Left, Count)
  BY <1>15, <1>21 DEF Rules
<1>23. ASSUME NEW X, Keeps(X)
       PROVE  \A n \in 1..Count, x \in Left \cap X : V[n][x] \in X
  BY <1>21, <1>23
<1> HIDE DEF V
<1>24. Keeps(Q) /\ Keeps(P) /\ d \in Left \cap Q
  BY DEF Keeps, Left
<1>25. Loop(V, d) \in Left \cap Q
  BY <1>2, <1>22, <1>23, <1>24, LoopStays
<1>26. ASSUME NEW s \in r.live, t \in r.live \cap InFolder(r, f), <<f, t, s>> \in DOMAIN r.deps,
              \A e \in [Tasks -> Span] \cap Q : VisitSuccessor(r, d, f, order, e, t, s) \in P
       PROVE  after \in P
  <2>1. Count \in Nat \ {0} /\ 1 \in 1..Count
    <3>1. Count # 0
      BY FiniteAssumption, FS_EmptySet DEF Count
    <3> QED  BY <3>1, <1>2
  <2>2. times > 0
    <3>1. <<f, t, s>> \in {x \in DOMAIN r.deps : x[2] = t}
      BY <1>26
    <3>2. times # 0
      BY <3>1, <1>3, FS_EmptySet DEF times
    <3> QED  BY <3>2, <1>6
  <2> DEFINE w == <<t, s>>
  <2>3. w \in S(1, t, s)
    <3> DEFINE met == {t} \cup {x[3] : x \in DOMAIN r.deps}
    <3>1. w \in [1..2 -> met] /\ Len(w) = 2 /\ w[1] = t /\ w[2] = s
      <4>1. s \in met /\ t \in met
        BY <1>26
      <4> HIDE DEF met
      <4> QED  BY <4>1
    <3>2. 2 \in 2..(Count + 1)
      BY <2>1
    <3>3. IsInjective([i \in 1..(Len(w) - 1) |-> w[i]])
      BY <3>1 DEF IsInjective
    <3>4. \A i \in 1..(Len(w) - 1) : <<f, w[i], w[i + 1]>> \in DOMAIN r.deps /\ w[i + 1] \in r.live
      BY <3>1, <1>26
    <3> HIDE DEF w
    <3>5. w \in walks
      BY <3>1, <3>2, <3>3, <3>4 DEF Walks
    <3> QED  BY <3>1, <3>5 DEF from, S
  <2>4. times * ways(1, t, s) \in Nat \ {0}
    <3>1. ways(1, t, s) # 0
      BY <2>3, <1>5
    <3> QED  BY <3>1, <2>2, <1>5, <1>6
  <2>5. s \in Tasks /\ \E i \in 1..Count : order[i] = s
    BY <1>2 DEF Orders, Bijection, Surjection
  <2>6. \E i \in 1..Count : order[i] = t
    BY <1>2 DEF Orders, Bijection, Surjection
  <2>7. \A e \in Left \cap Q : Visit(e, t, s) \in P
    <3>1. Visit(Thrown, t, s) = Thrown
      BY DEF Visit, VisitSuccessor
    <3> QED  BY <3>1, <1>26 DEF Left, Visit
  <2>8. ASSUME NEW e \in Left \cap Q  PROVE Loop(Visits(1, t, s), e) \in P
    <3> DEFINE K == times * ways(1, t, s)
               W == Visits(1, t, s)
    <3>1. W \in Rules(Left, K) /\ K \in Nat /\ 1 \in 1..K
      BY <2>1, <2>4, <2>5, <1>13
    <3>2. \A i \in 1..K, x \in Left : W[i][x] = Visit(x, t, s)
      BY DEF Visits
    <3>3. ways(1, t, s) # 0
      BY <2>4, <1>11
    <3>4. \A x \in Left \cap Q : Visit(x, t, s) \in Q
      BY <2>1, <2>5, <3>3, <1>12, <1>24
    <3>5. \A x \in Left \cap P : Visit(x, t, s) \in P
      BY <2>1, <2>5, <3>3, <1>12, <1>24
    <3> HIDE DEF W, K
    <3>6. /\ \A i \in 1..K, x \in Left \cap Q : W[i][x] \in Q
          /\ \A i \in 1..K, x \in Left \cap P : W[i][x] \in P
          /\ \A x \in Left \cap Q : W[1][x] \in P
      BY <3>1, <3>2, <3>4, <3>5, <2>7
    <3>7. Loop(W, e) \in P
      BY <3>1, <3>6, LoopReaches
    <3> QED  BY <3>7 DEF W
  <2>9. ASSUME NEW e \in Left \cap Q  PROVE Loop(From(1, t), e) \in P
    <3>1. PICK k \in 1..Count : order[k] = s
      BY <2>5
    <3>2. \A x \in Left \cap Q : From(1, t)[k][x] \in P
      BY <3>1, <2>8 DEF From
    <3> QED  BY <2>1, <3>2, <1>16, <1>17, <1>24, LoopReaches
  <2>10. ASSUME NEW e \in Left \cap Q  PROVE Loop(Level(1), e) \in P
    <3>1. PICK k \in 1..Count : order[k] = t
      BY <2>6
    <3>0. from(1, t) # {}
      BY <2>3 DEF S
    <3>2. \A x \in Left \cap Q : Level(1)[k][x] \in P
      BY <3>1, <3>0, <2>9 DEF Level
    <3> QED  BY <2>1, <3>2, <1>19, <1>20, <1>24, LoopReaches
  <2>11. \A x \in Left \cap Q : V[1][x] \in P
    BY <2>1, <2>10 DEF V
  <2>12. Loop(V, d) \in P
    BY <2>1, <2>11, <1>22, <1>23, <1>24, LoopReaches
  <2> QED  BY <2>2, <2>12, <1>1, <1>26
<1>27. after \in Left \cap Q
  BY <1>1, <1>24, <1>25
<1> QED  BY <1>26, <1>27

-----------------------------------------------------------------------------
(* A whole call *)

LEMMA SuccessorsTyped ==
    ASSUME NEW r, Sound(r), NEW f \in Folders, NEW t \in Tasks, NEW order \in Orders, NEW d \in [Tasks -> Span]
    PROVE  UpdateSuccessors(r, d, f, t, order) \in Left
<1> DEFINE Q == Left
<1>1. Mounted(r)
  BY DEF Sound
<1>2. VisitsKeep(r, d, f, t, order, Q) /\ Thrown \in Q /\ d \in [Tasks -> Span] \cap Q
  BY <1>1, VisitTyped DEF VisitsKeep, Left
<1> HIDE DEF Q
<1>3. UpdateSuccessors(r, d, f, t, order) \in Left \cap Q
  BY <1>2, SuccessorsReach
<1> QED  BY <1>3

LEMMA ChildrenTyped ==
    ASSUME NEW r, Mounted(r), NEW f \in Folders, NEW t \in Tasks, NEW order \in Orders, NEW d \in [Tasks -> Span]
    PROVE  UpdateChildTasks(r, d, f, t, order) \in Left
<1> DEFINE Q == Left
<1>1. Thrown \in Q /\ d \in [Tasks -> Span] \cap Q
  BY DEF Left
<1>2. \A n \in 1..Count, c \in r.live : t \in r.live /\ Climb(r, f, c)[n] = t =>
          \A e \in [Tasks -> Span] \cap Q : ChildDate(e, e[r.up[<<f, c>>]], c, d[c]) \in Q
  <2>1. \A c \in r.live : c \in Tasks /\ d[c] \in Span
    BY DEF Mounted
  <2> QED  BY <2>1, ChildDateTyped
<1> HIDE DEF Q
<1>3. UpdateChildTasks(r, d, f, t, order) \in Left \cap Q
  BY <1>1, <1>2, ChildrenKeep
<1> QED  BY <1>3

(* The three parts of a call that has not thrown. *)
LEMMA ChangesTyped ==
    ASSUME NEW r, Sound(r), NEW f \in Folders, NEW t \in Tasks, NEW order \in Orders, NEW d \in [Tasks -> Span],
           TaskDateChanges(r, d, f, t, order) # Thrown
    PROVE  LET first == UpdateSuccessors(r, d, f, t, order)
               second == UpdateChildTasks(r, first, f, t, order)
           IN  /\ first \in [Tasks -> Span] /\ second \in [Tasks -> Span]
               /\ TaskDateChanges(r, d, f, t, order) = UpdateParentTasks(r, second, f, t, order)
               /\ TaskDateChanges(r, d, f, t, order) \in [Tasks -> Span]
<1> DEFINE first == UpdateSuccessors(r, d, f, t, order)
           second == UpdateChildTasks(r, first, f, t, order)
<1>1. Mounted(r)
  BY DEF Sound
<1>2. first # Thrown /\ second # Thrown /\ TaskDateChanges(r, d, f, t, order) = UpdateParentTasks(r, second, f, t, order)
  BY DEF TaskDateChanges
<1>3. first \in [Tasks -> Span]
  <2>1. first \in Left
    BY SuccessorsTyped
  <2> QED  BY <1>2, <2>1 DEF Left
<1> HIDE DEF first
<1>4. second \in [Tasks -> Span]
  <2>1. second \in Left
    BY <1>1, <1>3, ChildrenTyped
  <2> QED  BY <1>2, <2>1 DEF Left
<1> HIDE DEF second
<1>5. UpdateParentTasks(r, second, f, t, order) \in Left
  <2>1. second \in Left
    BY <1>4 DEF Left
  <2> QED  BY <1>1, <2>1, ParentsTyped
<1>6. TaskDateChanges(r, d, f, t, order) \in [Tasks -> Span]
  BY <1>2, <1>5 DEF Left
<1> QED  BY <1>2, <1>3, <1>4, <1>6 DEF first, second

LEMMA FolderTyped ==
    ASSUME NEW r, NEW d \in [Tasks -> Span], NEW x \in Span, NEW f \in Folders, NEW order \in Orders
    PROVE  ProjectDate(r, d, x, f, order) \in Span
<1> DEFINE S == InFolder(r, f)
           first == Earliest(d, S, order)
           last == Latest(d, S, order)
<1>1. S \in SUBSET Tasks
  BY DEF InFolder
<1>2. first \in Reach \cup {NoDate} /\ last \in Reach \cup {NoDate}
  BY <1>1, EarliestIs, LatestIs
<1>3. ProjectDate(r, d, x, f, order) = [start |-> IF x.start > first THEN first ELSE x.start,
                                        end |-> IF x.end < last THEN last ELSE x.end]
  BY DEF ProjectDate
<1> HIDE DEF first, last
<1> QED  BY <1>2, <1>3 DEF Span

(* What a step that handles a task's dates comes to. *)
LEMMA Handles ==
    ASSUME NEW r, Sound(r), NEW f \in Folders, NEW t \in Tasks, NEW d \in [Tasks -> Span],
           span \in [Folders -> Span], HandleTaskDateChanges(r, d, f, t)
    PROVE  /\ up' = r.up /\ deps' = r.deps /\ archived' = archived /\ handled' = <<f, t>>
           /\ dates' \in [Tasks -> Span] /\ span' \in [Folders -> Span]
           /\ \E order \in Orders :
                /\ TaskDateChanges(r, d, f, t, order) # Thrown
                /\ dates' = TaskDateChanges(r, d, f, t, order)
                /\ span'[f] = ProjectDate(r, dates', span[f], f, order)
<1>1. PICK order \in Orders :
        /\ TaskDateChanges(r, d, f, t, order) # Thrown
        /\ dates' = TaskDateChanges(r, d, f, t, order)
        /\ span' = [span EXCEPT ![f] = ProjectDate(r, TaskDateChanges(r, d, f, t, order), span[f], f, order)]
  BY DEF HandleTaskDateChanges
<1>2. dates' \in [Tasks -> Span]
  BY <1>1, ChangesTyped
<1>3. ProjectDate(r, dates', span[f], f, order) \in Span
  BY <1>2, FolderTyped
<1>4. span' = [span EXCEPT ![f] = ProjectDate(r, dates', span[f], f, order)]
  BY <1>1
<1>5. span' \in [Folders -> Span] /\ span'[f] = ProjectDate(r, dates', span[f], f, order)
  <2> DEFINE x == ProjectDate(r, dates', span[f], f, order)
  <2> HIDE DEF x
  <2>1. x \in Span /\ span' = [span EXCEPT ![f] = x]
    BY <1>3, <1>4 DEF x
  <2>2. span' \in [Folders -> Span] /\ span'[f] = x
    BY <2>1
  <2> QED  BY <2>2 DEF x
<1> QED  BY <1>1, <1>2, <1>5 DEF HandleTaskDateChanges

-----------------------------------------------------------------------------
(* Types *)

LEMMA RowsSound ==
    ASSUME ScheduleTyped
    PROVE  Sound(Rows) /\ NoRing(Rows) /\ Rows.up = up /\ Rows.deps = deps /\ Rows.live = Live
BY DEF ScheduleTyped, Rows, Sound, Mounted, Live, Forest, NoRing

LEMMA SentTyped ==
    ASSUME NEW x \in Span, NEW start \in Asked, NEW end \in Asked
    PROVE  Sent(x, start, end) \in Span
<1>1. start \in Reach \cup {NoDate} /\ end \in Reach \cup {NoDate}
  BY DaysAssumption DEF Asked
<1> QED  BY <1>1 DEF Sent, Span

(* A task hung below one that it is not above closes no ring. *)
LEMMA HangKeepsForest ==
    ASSUME up \in [Folders \X Tasks -> Tasks \cup {None}], Forest,
           NEW f \in Folders, NEW t \in Tasks, NEW p \in Tasks, p # t, t \notin Above(f, p)
    PROVE  NoRing([Rows EXCEPT !.up = [up EXCEPT ![<<f, t>>] = p]])
<1> DEFINE new == [up EXCEPT ![<<f, t>>] = p]
           r == [Rows EXCEPT !.up = new]
<1>1. PICK S1 \in SUBSET Tasks : (\A x \in S1 \cup {p} : up[<<f, x>>] \in S1 \cup {None}) /\ t \notin S1
  BY DEF Above
<1>2. r.up = new
  BY DEF Rows
<1>3. \A h \in Folders, x \in Tasks : new[<<h, x>>] = IF h = f /\ x = t THEN p ELSE up[<<h, x>>]
  OBVIOUS
<1> HIDE DEF new, r
<1>4. SUFFICES ASSUME NEW h \in Folders, NEW S \in SUBSET Tasks, \A x \in S : new[<<h, x>>] \in S, S # {}
               PROVE  FALSE
  BY <1>2 DEF NoRing, new, r
<1>5. CASE h # f \/ t \notin S
  <2>1. \A x \in S : up[<<h, x>>] \in S
    BY <1>3, <1>4, <1>5
  <2> QED  BY <2>1, <1>4 DEF Forest
<1>6. CASE h = f /\ t \in S
  <2> DEFINE A == (S1 \cup {p}) \cap S
  <2>1. p \in S
    BY <1>3, <1>4, <1>6
  <2>2. ASSUME NEW x \in A  PROVE up[<<f, x>>] \in A
    <3>1. x # t /\ x \in S
      BY <1>1
    <3>2. up[<<f, x>>] \in S
      BY <3>1, <1>3, <1>4, <1>6
    <3>3. up[<<f, x>>] # None
      BY <3>2, NoneAssumption
    <3> QED  BY <3>2, <3>3, <1>1
  <2>3. A \in SUBSET Tasks /\ A # {}
    BY <2>1
  <2> HIDE DEF A
  <2> QED  BY <2>2, <2>3 DEF Forest
<1> QED  BY <1>5, <1>6

(* What the step of each kind keeps of the types. *)
LEMMA HandlesTyped ==
    ASSUME ScheduleTyped, NEW r, Sound(r), NoRing(r), \A e \in DOMAIN r.deps : r.deps[e] \in Types,
           NEW f \in Folders, NEW t \in Tasks, NEW d \in [Tasks -> Span], HandleTaskDateChanges(r, d, f, t),
           calls' \in 0..MaxCalls
    PROVE  ScheduleTyped'
<1>1. /\ up' = r.up /\ deps' = r.deps /\ archived' = archived /\ handled' = <<f, t>>
      /\ dates' \in [Tasks -> Span] /\ span' \in [Folders -> Span]
  BY Handles DEF ScheduleTyped
<1>2. Forest' /\ up' \in [Folders \X Tasks -> Tasks \cup {None}] /\ DOMAIN deps' \subseteq Folders \X Tasks \X Tasks
  BY <1>1 DEF Forest, NoRing, Sound, Mounted
<1> QED  BY <1>1, <1>2 DEF ScheduleTyped

LEMMA UpdateFolderTyped ==
    ASSUME ScheduleTyped, NEW f \in Folders, NEW start \in Asked, NEW end \in Asked, UpdateFolder(f, start, end)
    PROVE  dates' \in [Tasks -> Span] /\ span' \in [Folders -> Span]
<1> DEFINE sent == [start |-> start, end |-> end]
           Visit(e, t) == IF e = Thrown \/ t \notin InFolder(Rows, f) THEN e ELSE ChildDate(e, sent, t, dates[t])
<1>1. PICK order \in Orders :
        LET after == Loop([i \in 1..Count |-> [e \in Left |-> Visit(e, order[i])]], dates)
        IN  after # Thrown /\ dates' = after
  BY DEF UpdateFolder
<1> DEFINE V == [i \in 1..Count |-> [e \in Left |-> Visit(e, order[i])]]
           Q == Left
<1>2. order \in [1..Count -> Tasks] /\ dates \in [Tasks -> Span] /\ Count \in Nat
  BY CountIsNat DEF Orders, Bijection, Injection, ScheduleTyped
<1>3. ASSUME NEW e \in Left, NEW t \in Tasks  PROVE Visit(e, t) \in Left
  <2>1. CASE e = Thrown \/ t \notin InFolder(Rows, f)
    BY <2>1
  <2>2. CASE e # Thrown /\ t \in InFolder(Rows, f)
    <3>1. e \in [Tasks -> Span] /\ dates[t] \in Span
      BY <2>2, <1>2 DEF Left
    <3>2. Visit(e, t) = ChildDate(e, sent, t, dates[t])
      BY <2>2
    <3> HIDE DEF Visit
    <3> QED  BY <3>1, <3>2, ChildDateTyped
  <2> QED  BY <2>1, <2>2
<1> HIDE DEF Visit
<1>4. V \in Rules(Left, Count) /\ \A i \in 1..Count, e \in Left \cap Q : V[i][e] \in Q
  BY <1>2, <1>3 DEF Rules
<1>5. dates \in Left \cap Q
  BY <1>2 DEF Left
<1>6. dates' = Loop(V, dates) /\ dates' # Thrown
  BY <1>1
<1> HIDE DEF V, Q
<1>7. dates' \in Left
  BY <1>2, <1>4, <1>5, <1>6, LoopStays
<1>8. Sent(span[f], start, end) \in Span
  BY SentTyped DEF ScheduleTyped
<1> QED  BY <1>6, <1>7, <1>8 DEF Left, UpdateFolder, ScheduleTyped

LEMMA StepTyped ==
    ASSUME ScheduleTyped, ScheduleNext
    PROVE  ScheduleTyped'
<1>1. calls' \in 0..MaxCalls
  BY ScheduleBounds DEF ScheduleTyped, ScheduleNext
<1>2. Sound(Rows) /\ NoRing(Rows) /\ Rows.up = up /\ Rows.deps = deps /\ Rows.live = Live /\ dates \in [Tasks -> Span]
      /\ \A e \in DOMAIN Rows.deps : Rows.deps[e] \in Types
  BY RowsSound DEF ScheduleTyped
<1>3. ASSUME NEW f \in Folders, NEW t \in Tasks, NEW start \in Asked, NEW end \in Asked, UpdateTask(f, t, start, end)
      PROVE  ScheduleTyped'
  <2> DEFINE d == [dates EXCEPT ![t] = Sent(dates[t], start, end)]
  <2>1. d \in [Tasks -> Span]
    BY <1>2, SentTyped
  <2>2. HandleTaskDateChanges(Rows, d, f, t)
    BY <1>3 DEF UpdateTask
  <2> HIDE DEF d
  <2> QED  BY <1>1, <1>2, <2>1, <2>2, HandlesTyped
<1>4. ASSUME NEW t \in Tasks, NEW start \in Asked, NEW end \in Asked, UpdateTaskAlone(t, start, end)
      PROVE  ScheduleTyped'
  <2> DEFINE d == [dates EXCEPT ![t] = Sent(dates[t], start, end)]
  <2>1. d \in [Tasks -> Span] /\ dates' = d
    BY <1>2, <1>4, SentTyped DEF UpdateTaskAlone
  <2> HIDE DEF d
  <2> QED  BY <2>1, <1>1, <1>4 DEF UpdateTaskAlone, ScheduleTyped, Forest
<1>5. ASSUME NEW f \in Folders, NEW p \in Tasks, NEW s \in Tasks, NEW type \in Types, CreateDependency(f, p, s, type)
      PROVE  ScheduleTyped'
  <2> DEFINE more == [e \in DOMAIN deps \cup {<<f, p, s>>} |-> IF e = <<f, p, s>> THEN type ELSE deps[e]]
             r == [Rows EXCEPT !.deps = more]
  <2>1. HandleTaskDateChanges(r, dates, f, p)
    BY <1>5 DEF CreateDependency
  <2>2. r.deps = more /\ r.up = up /\ r.live = Live
    BY DEF Rows
  <2>3. DOMAIN more \subseteq Folders \X Tasks \X Tasks /\ \A e \in DOMAIN more : more[e] \in Types
    BY DEF ScheduleTyped
  <2> HIDE DEF more, r
  <2>4. Sound(r) /\ NoRing(r) /\ \A e \in DOMAIN r.deps : r.deps[e] \in Types
    BY <1>2, <2>2, <2>3 DEF Sound, Mounted, NoRing
  <2> QED  BY <1>1, <1>2, <2>1, <2>4, HandlesTyped
<1>6. ASSUME NEW e \in DOMAIN deps, DeleteDependency(e)  PROVE ScheduleTyped'
  BY <1>1, <1>6 DEF DeleteDependency, ScheduleTyped, Forest
<1>7. ASSUME NEW f \in Folders, NEW t \in Tasks, NEW p \in Tasks, ChangeParent(f, t, p)  PROVE ScheduleTyped'
  <2> DEFINE new == [up EXCEPT ![<<f, t>>] = p]
             r == [Rows EXCEPT !.up = new]
             d == [dates EXCEPT ![t] = dates[p]]
  <2>1. HandleTaskDateChanges(r, d, f, t)
    BY <1>7 DEF ChangeParent
  <2>2. r.deps = deps /\ r.up = new /\ r.live = Live
    BY DEF Rows
  <2>3. new \in [Folders \X Tasks -> Tasks \cup {None}] /\ d \in [Tasks -> Span]
    BY <1>2 DEF ScheduleTyped
  <2>4. NoRing(r)
    BY <1>7, HangKeepsForest DEF ChangeParent, ScheduleTyped
  <2> HIDE DEF new, r, d
  <2>5. Sound(r) /\ \A e \in DOMAIN r.deps : r.deps[e] \in Types
    BY <1>2, <2>2, <2>3 DEF Sound, Mounted
  <2> QED  BY <1>1, <1>2, <2>1, <2>3, <2>4, <2>5, HandlesTyped
<1>8. ASSUME NEW f \in Folders, NEW t \in Tasks, ChildToRoot(f, t)  PROVE ScheduleTyped'
  <2>1. up' = [up EXCEPT ![<<f, t>>] = None] /\ up \in [Folders \X Tasks -> Tasks \cup {None}]
    BY <1>8 DEF ChildToRoot, ScheduleTyped
  <2>2. ASSUME NEW h \in Folders, NEW S \in SUBSET Tasks, \A x \in S : up'[<<h, x>>] \in S  PROVE S = {}
    <3>1. \A x \in S : up[<<h, x>>] \in S
      BY <2>1, <2>2, NoneAssumption
    <3> QED  BY <3>1 DEF ScheduleTyped, Forest
  <2>3. Forest'
    BY <2>2 DEF Forest
  <2>4. up' \in [Folders \X Tasks -> Tasks \cup {None}]
    BY <2>1
  <2> QED  BY <2>3, <2>4, <1>1, <1>8 DEF ChildToRoot, ScheduleTyped
<1>9. ASSUME NEW f \in Folders, NEW start \in Asked, NEW end \in Asked, UpdateFolder(f, start, end)
      PROVE  ScheduleTyped'
  <2>1. dates' \in [Tasks -> Span] /\ span' \in [Folders -> Span]
    BY <1>9, UpdateFolderTyped
  <2> QED  BY <2>1, <1>1, <1>9 DEF UpdateFolder, ScheduleTyped, Forest
<1> QED  BY <1>3, <1>4, <1>5, <1>6, <1>7, <1>8, <1>9 DEF ScheduleNext

(* The dates of tasks and folders, the rows of parents and dependencies are of their types,
   and no task of a folder is above itself in it. *)
THEOREM ScheduleTypes == ScheduleSpec => []ScheduleTyped
<1>1. ScheduleInit => ScheduleTyped
  <2> SUFFICES ASSUME ScheduleInit  PROVE ScheduleTyped
    OBVIOUS
  <2>1. PICK x \in [start : Days, end : Days], undated \in SUBSET Tasks :
          /\ dates = [t \in Tasks |-> IF t \in undated THEN Undated ELSE x]
          /\ span = [f \in Folders |-> [x EXCEPT !.end = NoDate]]
          /\ archived \in SUBSET Tasks
    BY DEF ScheduleInit
  <2>2. x \in Span /\ Undated \in Span /\ [x EXCEPT !.end = NoDate] \in Span
    BY DaysAssumption DEF Span, Undated
  <2>3. dates \in [Tasks -> Span] /\ span \in [Folders -> Span]
    BY <2>1, <2>2
  <2>4. DOMAIN deps \subseteq Folders \X Tasks \X Tasks /\ \A e \in DOMAIN deps : deps[e] \in Types
    BY DEF ScheduleInit
  <2> QED  BY <2>1, <2>3, <2>4, ScheduleBounds DEF ScheduleInit, ScheduleTyped
<1>2. ScheduleTyped /\ [ScheduleNext]_scheduleVars => ScheduleTyped'
  <2>1. ASSUME ScheduleTyped, UNCHANGED scheduleVars  PROVE ScheduleTyped'
    BY <2>1 DEF ScheduleTyped, scheduleVars, Forest
  <2> QED  BY <2>1, StepTyped
<1> QED  BY <1>1, <1>2, PTL DEF ScheduleSpec

-----------------------------------------------------------------------------
(* What a call that handles dates leaves *)

AllInOrder(e) == \A x \in Tasks : Dated(e[x]) /\ InOrder(e[x])

LEMMA HandledHow ==
    ASSUME ScheduleTyped, ScheduleNext, handled' # None
    PROVE  \E r : \E f \in Folders, t \in Tasks, d \in [Tasks -> Span], order \in Orders :
             /\ r = [up |-> up', deps |-> deps', live |-> Tasks \ archived'] /\ Sound(r) /\ NoRing(r)
             /\ handled' = <<f, t>>
             /\ TaskDateChanges(r, d, f, t, order) # Thrown
             /\ dates' = TaskDateChanges(r, d, f, t, order)
             /\ span'[f] = ProjectDate(r, dates', span[f], f, order)
             /\ AllInOrder(dates) => AllInOrder(d)
<1>1. Sound(Rows) /\ NoRing(Rows) /\ Rows.up = up /\ Rows.deps = deps /\ Rows.live = Live
      /\ Rows = [up |-> Rows.up, deps |-> Rows.deps, live |-> Live]
      /\ dates \in [Tasks -> Span] /\ span \in [Folders -> Span]
  BY RowsSound DEF ScheduleTyped, Rows
<1> DEFINE Is(r, f, t, d, order) ==
             /\ r = [up |-> up', deps |-> deps', live |-> Tasks \ archived'] /\ Sound(r) /\ NoRing(r)
             /\ handled' = <<f, t>>
             /\ TaskDateChanges(r, d, f, t, order) # Thrown
             /\ dates' = TaskDateChanges(r, d, f, t, order)
             /\ span'[f] = ProjectDate(r, dates', span[f], f, order)
             /\ AllInOrder(dates) => AllInOrder(d)
           How == \E r : \E f \in Folders, t \in Tasks, d \in [Tasks -> Span], order \in Orders : Is(r, f, t, d, order)
<1>2. ASSUME NEW r, Sound(r), NoRing(r), r = [up |-> r.up, deps |-> r.deps, live |-> Live], NEW f \in Folders, NEW t \in Tasks, NEW d \in [Tasks -> Span],
             HandleTaskDateChanges(r, d, f, t), AllInOrder(dates) => AllInOrder(d)
      PROVE  How
  <2>1. up' = r.up /\ deps' = r.deps /\ archived' = archived /\ handled' = <<f, t>>
    BY <1>1, <1>2, Handles
  <2>2. PICK order \in Orders :
          /\ TaskDateChanges(r, d, f, t, order) # Thrown
          /\ dates' = TaskDateChanges(r, d, f, t, order)
          /\ span'[f] = ProjectDate(r, dates', span[f], f, order)
    BY <1>1, <1>2, Handles
  <2>3. r = [up |-> up', deps |-> deps', live |-> Tasks \ archived']
    BY <2>1, <1>2 DEF Live
  <2>4. Is(r, f, t, d, order)
    BY <2>1, <2>2, <2>3, <1>2
  <2> HIDE DEF Is
  <2> QED  BY <2>4
<1> HIDE DEF How
<1>3. ASSUME NEW f \in Folders, NEW t \in Tasks, NEW start \in Asked, NEW end \in Asked, UpdateTask(f, t, start, end)
      PROVE  How
  <2> DEFINE new == Sent(dates[t], start, end)
             d == [dates EXCEPT ![t] = new]
  <2>1. new \in Span
    BY <1>1, SentTyped
  <2>2. HandleTaskDateChanges(Rows, d, f, t) /\ InOrder(new)
    BY <1>3 DEF UpdateTask
  <2>3. Dated(dates[t]) => Dated(new)
    BY DEF Dated, Sent
  <2> HIDE DEF new
  <2>4. d \in [Tasks -> Span] /\ (AllInOrder(dates) => AllInOrder(d))
    BY <1>1, <2>1, <2>2, <2>3 DEF AllInOrder
  <2> HIDE DEF d
  <2> QED  BY <1>1, <1>2, <2>2, <2>4
<1>4. ASSUME NEW f \in Folders, NEW p \in Tasks, NEW s \in Tasks, NEW type \in Types, CreateDependency(f, p, s, type)
      PROVE  How
  <2> DEFINE more == [e \in DOMAIN deps \cup {<<f, p, s>>} |-> IF e = <<f, p, s>> THEN type ELSE deps[e]]
             r == [Rows EXCEPT !.deps = more]
  <2>1. HandleTaskDateChanges(r, dates, f, p)
    BY <1>4 DEF CreateDependency
  <2>2. r.deps = more /\ r.up = up /\ r.live = Live /\ r = [up |-> r.up, deps |-> r.deps, live |-> Live]
    BY DEF Rows
  <2>3. DOMAIN more \subseteq Folders \X Tasks \X Tasks
    BY DEF ScheduleTyped
  <2> HIDE DEF more, r
  <2>4. Sound(r) /\ NoRing(r)
    BY <1>1, <2>2, <2>3 DEF Sound, Mounted, NoRing
  <2> QED  BY <1>1, <1>2, <2>1, <2>2, <2>4
<1>5. ASSUME NEW f \in Folders, NEW t \in Tasks, NEW p \in Tasks, ChangeParent(f, t, p)  PROVE How
  <2> DEFINE new == [up EXCEPT ![<<f, t>>] = p]
             r == [Rows EXCEPT !.up = new]
             d == [dates EXCEPT ![t] = dates[p]]
  <2>1. HandleTaskDateChanges(r, d, f, t)
    BY <1>5 DEF ChangeParent
  <2>2. r.deps = deps /\ r.up = new /\ r.live = Live /\ r = [up |-> r.up, deps |-> r.deps, live |-> Live]
    BY DEF Rows
  <2>3. new \in [Folders \X Tasks -> Tasks \cup {None}] /\ d \in [Tasks -> Span]
    BY <1>1 DEF ScheduleTyped
  <2>4. NoRing(r)
    BY <1>5, HangKeepsForest DEF ChangeParent, ScheduleTyped
  <2>5. AllInOrder(dates) => AllInOrder(d)
    BY <1>1 DEF AllInOrder
  <2> HIDE DEF new, r, d
  <2>6. Sound(r)
    BY <1>1, <2>2, <2>3 DEF Sound, Mounted
  <2> QED  BY <1>2, <2>1, <2>2, <2>3, <2>4, <2>5, <2>6
<1>6. How
  BY <1>3, <1>4, <1>5 DEF ScheduleNext, UpdateTaskAlone, DeleteDependency, ChildToRoot, UpdateFolder
<1> QED  BY <1>6 DEF How

LEMMA StepCovers ==
    ASSUME ScheduleTyped, ScheduleNext
    PROVE  FolderCovers'
<1> SUFFICES ASSUME handled' # None  PROVE FolderCovers'
  BY DEF FolderCovers
<1>0. PICK r : \E f \in Folders, t \in Tasks, d \in [Tasks -> Span], order \in Orders :
        /\ r = [up |-> up', deps |-> deps', live |-> Tasks \ archived'] /\ handled' = <<f, t>>
        /\ span'[f] = ProjectDate(r, dates', span[f], f, order)
  BY HandledHow
<1>1. PICK f \in Folders, t \in Tasks, order \in Orders :
        /\ r.up = up' /\ handled' = <<f, t>>
        /\ span'[f] = ProjectDate(r, dates', span[f], f, order)
  BY <1>0
<1>2. dates' \in [Tasks -> Span] /\ span[f] \in Span
  BY StepTyped DEF ScheduleTyped
<1> DEFINE S == InFolder(r, f)
           first == Earliest(dates', S, order)
           last == Latest(dates', S, order)
<1>3. S \in SUBSET Tasks /\ S = {x \in Tasks : <<f, x>> \in DOMAIN up'}
  BY <1>1 DEF InFolder
<1>4. \A x \in S : dates'[x].end <= last
  BY <1>2, <1>3, LatestIs
<1>5. (\A x \in S : dates'[x].start # NoDate) => \A x \in S : first <= dates'[x].start
  BY <1>2, <1>3, EarliestIs
<1>6. first \in Nat /\ last \in Nat
  <2>1. first \in Reach \cup {NoDate} /\ last \in Reach \cup {NoDate}
    BY <1>2, <1>3, EarliestIs, LatestIs
  <2> HIDE DEF first, last
  <2> QED  BY <2>1, DaysAssumption DEF NoDate
<1>7. /\ span'[f].start = IF span[f].start > first THEN first ELSE span[f].start
      /\ span'[f].end = IF span[f].end < last THEN last ELSE span[f].end
  BY <1>1 DEF ProjectDate
<1>8. span[f].start \in Nat /\ span[f].end \in Nat
  BY <1>2, SpanFields
<1>9. \A x \in S : dates'[x].start \in Nat /\ dates'[x].end \in Nat
  BY <1>2, <1>3, SpanFields
<1> HIDE DEF first, last, S
<1>10. \A x \in S : dates'[x].end <= span'[f].end
  BY <1>4, <1>6, <1>7, <1>8, <1>9
<1>11. (\A x \in S : dates'[x].start # NoDate) => \A x \in S : span'[f].start <= dates'[x].start
  BY <1>5, <1>6, <1>7, <1>8, <1>9
<1>12. handled'[1] = f
  BY <1>1
<1> QED  BY <1>3, <1>10, <1>11, <1>12 DEF FolderCovers, InFolder, Rows

(* After a change of a task's dates has been handled, the folder covers all its tasks, unless
   one of them has no start (updateProjectDate). *)
THEOREM FolderIsCovering == ScheduleSpec => []FolderCovers
<1>1. ScheduleInit => FolderCovers
  BY DEF ScheduleInit, FolderCovers
<1>2. ScheduleTyped /\ FolderCovers /\ [ScheduleNext]_scheduleVars => FolderCovers'
  <2>1. ASSUME FolderCovers, UNCHANGED scheduleVars  PROVE FolderCovers'
    BY <2>1 DEF FolderCovers, scheduleVars, InFolder, Rows
  <2> QED  BY <2>1, StepCovers
<1> QED  BY <1>1, <1>2, ScheduleTypes, PTL DEF ScheduleSpec

(* The way up goes on from each parent on it as from a task. *)
LEMMA ClimbOn ==
    ASSUME NEW r, Mounted(r), NEW f \in Folders, NEW t \in Tasks, NEW i \in 1..Count, Climb(r, f, t)[i] # None,
           NEW j \in i..Count
    PROVE  Climb(r, f, Climb(r, f, t)[i])[j - i] = Climb(r, f, t)[j]
<1> DEFINE c == Climb(r, f, t)
           a == Climb(r, f, c[i])
           K == Count - i
           Q == {n \in 0..K : a[n] = c[i + n]}
<1>1. Count \in Nat /\ K \in Nat
  BY CountIsNat
<1>2. c[i] \in Tasks
  BY ClimbLive
<1>3. a[0] = c[i]
  BY <1>2, ClimbIs
<1>4. ASSUME NEW n \in 1..K, n - 1 \in Q  PROVE n \in Q
  <2>1. a[n - 1] = c[i + n - 1] /\ n \in 1..Count /\ i + n \in 1..Count
    BY <1>1, <1>4
  <2> HIDE DEF c
  <2>2. /\ a[n] \in r.live \cup {None}
        /\ a[n] # None => a[n - 1] \in Tasks /\ r.up[<<f, a[n - 1]>>] = a[n]
        /\ a[n - 1] \in Tasks /\ a[n] = None => r.up[<<f, a[n - 1]>>] \notin r.live
    BY <1>2, <2>1, ClimbIs
  <2>3. /\ c[i + n] \in r.live \cup {None}
        /\ c[i + n] # None => c[i + n - 1] \in Tasks /\ r.up[<<f, c[i + n - 1]>>] = c[i + n]
        /\ c[i + n - 1] \in Tasks /\ c[i + n] = None => r.up[<<f, c[i + n - 1]>>] \notin r.live
    BY <2>1, ClimbIs DEF c
  <2> HIDE DEF a
  <2>4. a[n] = c[i + n]
    BY <2>1, <2>2, <2>3
  <2> QED  BY <2>4
<1>5. 0 \in Q /\ Q \in SUBSET (0..K)
  BY <1>1, <1>3
<1>6. Q = 0..K
  <2> HIDE DEF Q
  <2> QED  BY <1>1, <1>4, <1>5, UpTo
<1>7. j - i \in 0..K /\ i + (j - i) = j
  BY <1>1
<1> HIDE DEF K
<1>8. j - i \in Q
  <2> HIDE DEF Q
  <2> QED  BY <1>6, <1>7
<1> QED  BY <1>7, <1>8

SpansAbove(r, e, f, t) ==
    \A a \in {Climb(r, f, t)[i] : i \in 1..Count} \ {None} :
        Children(r, a) \cap ({Climb(r, f, a)[i] : i \in 1..Count} \ {None}) = {} => Spans(r, e, a)

LEMMA SpanIs ==
    /\ AncestorsSpan <=> (handled # None => SpansAbove(Rows, dates, handled[1], handled[2]))
    /\ AncestorsSpan' <=> (handled' # None => SpansAbove(Rows', dates', handled'[1], handled'[2]))
<1>1. AncestorsSpan <=> (handled # None => SpansAbove(Rows, dates, handled[1], handled[2]))
  BY DEF AncestorsSpan, SpansAbove, Spans, LiveAbove
<1>2. AncestorsSpan' <=> (handled # None => SpansAbove(Rows, dates, handled[1], handled[2]))'
  BY <1>1, PTL
<1> QED  BY <1>1, <1>2

LEMMA StepSpans ==
    ASSUME ScheduleTyped, ScheduleNext
    PROVE  AncestorsSpan'
<1> SUFFICES ASSUME handled' # None  PROVE AncestorsSpan'
  BY SpanIs
<1>1. PICK r : \E f \in Folders, t \in Tasks, d \in [Tasks -> Span], order \in Orders :
        /\ r = [up |-> up', deps |-> deps', live |-> Tasks \ archived'] /\ Sound(r) /\ NoRing(r)
        /\ handled' = <<f, t>>
        /\ TaskDateChanges(r, d, f, t, order) # Thrown
        /\ dates' = TaskDateChanges(r, d, f, t, order)
  BY HandledHow
<1>2. PICK f \in Folders, t \in Tasks, d \in [Tasks -> Span], order \in Orders :
        /\ r = [up |-> up', deps |-> deps', live |-> Tasks \ archived'] /\ Sound(r) /\ NoRing(r)
        /\ handled' = <<f, t>>
        /\ TaskDateChanges(r, d, f, t, order) # Thrown
        /\ dates' = TaskDateChanges(r, d, f, t, order)
  BY <1>1
<1>3. r = Rows' /\ Mounted(r)
  BY <1>2 DEF Rows, Live, Sound
<1> DEFINE before == UpdateChildTasks(r, UpdateSuccessors(r, d, f, t, order), f, t, order)
<1>4. before \in Left /\ dates' = UpdateParentTasks(r, before, f, t, order) /\ dates' # Thrown
  BY <1>2, ChangesTyped DEF Left
<1> HIDE DEF before
<1>5. ASSUME NEW k \in 1..Count, Climb(r, f, t)[k] # None,
             Children(r, Climb(r, f, t)[k]) \cap ({Climb(r, f, Climb(r, f, t)[k])[n] : n \in 1..Count} \ {None}) = {}
      PROVE  Spans(r, dates', Climb(r, f, t)[k])
  <2> DEFINE a == Climb(r, f, t)[k]
  <2>1. ASSUME NEW j \in (k + 1)..Count, Climb(r, f, t)[j] \in Children(r, a)  PROVE FALSE
    <3>1. j \in k..Count /\ j - k \in 1..Count
      BY CountIsNat
    <3>2. Climb(r, f, a)[j - k] = Climb(r, f, t)[j]
      BY <1>3, <1>5, <3>1, ClimbOn
    <3>3. Climb(r, f, t)[j] # None
      BY <2>1, <1>3, NoneAssumption DEF Children, Mounted
    <3> HIDE DEF a
    <3>4. Children(r, a) \cap ({Climb(r, f, a)[n] : n \in 1..Count} \ {None}) = {}
      BY <1>5 DEF a
    <3> QED  BY <3>1, <3>2, <3>3, <3>4, <2>1
  <2>2. Spans(r, UpdateParentTasks(r, before, f, t, order), a)
    BY <1>2, <1>3, <1>4, <1>5, <2>1, ParentsSpan
  <2> QED  BY <2>2, <1>4
<1>6. SUFFICES ASSUME NEW a \in {Climb(r, f, t)[i] : i \in 1..Count} \ {None},
                      Children(r, a) \cap ({Climb(r, f, a)[n] : n \in 1..Count} \ {None}) = {}
               PROVE  Spans(r, dates', a)
  <2>1. handled'[1] = f /\ handled'[2] = t /\ r = Rows'
    BY <1>2, <1>3
  <2>2. SpansAbove(r, dates', f, t) => AncestorsSpan'
    BY <2>1, SpanIs
  <2> QED  BY <2>2 DEF SpansAbove
<1>7. PICK k \in 1..Count : a = Climb(r, f, t)[k]
  BY <1>6
<1> QED  BY <1>5, <1>6, <1>7

(* After a change of a task's dates has been handled, each task above it in the folder spans
   its live children, if none of them is above it (updateParentTasksQuery). *)
THEOREM AncestorsAreSpanning == ScheduleSpec => []AncestorsSpan
<1>1. ScheduleInit => AncestorsSpan
  BY DEF ScheduleInit, AncestorsSpan
<1>2. ScheduleTyped /\ AncestorsSpan /\ [ScheduleNext]_scheduleVars => AncestorsSpan'
  <2>1. ASSUME AncestorsSpan, UNCHANGED scheduleVars  PROVE AncestorsSpan'
    BY <2>1, SpanIs DEF scheduleVars, Rows, Live
  <2> QED  BY <2>1, StepSpans
<1> QED  BY <1>1, <1>2, ScheduleTypes, PTL DEF ScheduleSpec

-----------------------------------------------------------------------------
(* No start after its end *)

Ordered == {e \in Left : e = Thrown \/ AllInOrder(e)}

LEMMA OrderedDates ==
    ASSUME NEW e \in [Tasks -> Span] \cap Ordered, NEW x \in Tasks
    PROVE  /\ e[x].start \in Nat \ {0} /\ e[x].end \in Nat \ {0} /\ e[x].start <= e[x].end
           /\ AllInOrder(e)
<1>1. AllInOrder(e)
  BY ThrownIsNoDates DEF Ordered
<1>2. e[x].start \in Nat /\ e[x].end \in Nat
  BY SpanFields
<1> QED  BY <1>1, <1>2 DEF AllInOrder, Dated, InOrder, NoDate

(* A task that is given both dates in order, or none. *)
LEMMA TaskDateOrdered ==
    ASSUME NEW e \in [Tasks -> Span] \cap Ordered, NEW t \in Tasks, NEW start, NEW end,
           (start = NoDate /\ end = NoDate) \/ (start # NoDate /\ end # NoDate /\ start <= end)
    PROVE  TaskDate(e, t, start, end) \in Ordered
<1> DEFINE new == [start |-> IF start # NoDate THEN start ELSE e[t].start,
                   end |-> IF end # NoDate THEN end ELSE e[t].end]
           z == TaskDate(e, t, start, end)
<1>1. z \in Left /\ (z # Thrown => new \in Span /\ z = [e EXCEPT ![t] = new])
  BY TaskDateIs
<1>2. AllInOrder(e) /\ e[t].start # NoDate /\ e[t].end # NoDate /\ e[t].start <= e[t].end
  BY OrderedDates DEF NoDate
<1>3. Dated(new) /\ InOrder(new)
  BY <1>2 DEF Dated, InOrder
<1> HIDE DEF new, z
<1>4. ASSUME z # Thrown  PROVE AllInOrder(z)
  <2>1. z = [e EXCEPT ![t] = new]
    BY <1>1, <1>4
  <2>2. \A x \in Tasks : z[x] = IF x = t THEN new ELSE e[x]
    BY <2>1
  <2> QED  BY <2>2, <1>2, <1>3 DEF AllInOrder
<1>5. z \in Ordered
  BY <1>1, <1>4 DEF Ordered
<1> QED  BY <1>5 DEF z

LEMMA SuccessorOrdered ==
    ASSUME NEW e \in [Tasks -> Span] \cap Ordered, NEW p \in Tasks, NEW s \in Tasks, NEW type,
           NEW old \in Span, Dated(old), InOrder(old)
    PROVE  Successor(e, p, s, type, old) \in Ordered
<1> DEFINE mark == IF type \in {"START_TO_START", "START_TO_FINISH"} THEN e[p].start ELSE e[p].end
           toStart == type \in {"START_TO_START", "FINISH_TO_START"}
           days == old.end - old.start
           z == Successor(e, p, s, type, old)
<1>1. z = IF mark <= (IF toStart THEN old.start ELSE old.end) THEN e
          ELSE IF toStart THEN TaskDate(e, s, mark, mark + days) ELSE TaskDate(e, s, mark - days, mark)
  BY DEF Successor
<1>2. mark \in Nat \ {0}
  BY OrderedDates
<1>3. old.start \in Nat \ {0} /\ old.end \in Nat \ {0} /\ old.start <= old.end
  BY SpanFields DEF Dated, InOrder, NoDate
<1> HIDE DEF mark, toStart, z
<1>4. CASE mark <= (IF toStart THEN old.start ELSE old.end)
  BY <1>1, <1>4 DEF z
<1>5. CASE ~ (mark <= (IF toStart THEN old.start ELSE old.end)) /\ toStart
  <2>1. mark # NoDate /\ mark + days # NoDate /\ mark <= mark + days
    BY <1>2, <1>3 DEF NoDate
  <2> HIDE DEF days
  <2>2. TaskDate(e, s, mark, mark + days) \in Ordered
    BY <2>1, TaskDateOrdered
  <2> QED  BY <1>1, <1>5, <2>2 DEF z
<1>6. CASE ~ (mark <= (IF toStart THEN old.start ELSE old.end)) /\ ~ toStart
  <2>1. mark # NoDate /\ mark - days # NoDate /\ mark - days <= mark
    BY <1>2, <1>3, <1>6 DEF NoDate
  <2> HIDE DEF days
  <2>2. TaskDate(e, s, mark - days, mark) \in Ordered
    BY <2>1, TaskDateOrdered
  <2> QED  BY <1>1, <1>6, <2>2 DEF z
<1> QED  BY <1>4, <1>5, <1>6

LEMMA ChildDateOrdered ==
    ASSUME NEW e \in [Tasks -> Span] \cap Ordered, NEW p \in Tasks, NEW c \in Tasks,
           NEW old \in Span, Dated(old), InOrder(old)
    PROVE  ChildDate(e, e[p], c, old) \in Ordered
<1> DEFINE parent == e[p]
           late == parent.start # NoDate /\ parent.start > old.start
           early == parent.end # NoDate /\ parent.end < old.end
           start == IF ~early \/ NoDate \in {parent.start, old.start}
                    THEN IF late THEN parent.start ELSE NoDate
                    ELSE Back(old.start, Smaller(old.end - parent.end, Apart(old.start, parent.start)))
           end == IF early THEN parent.end
                  ELSE IF late /\ NoDate \notin {parent.end, old.end}
                       THEN old.end + Smaller(parent.start - old.start, parent.end - old.end)
                       ELSE NoDate
<1>1. ChildDate(e, parent, c, old) = TaskDate(e, c, start, end)
  BY DEF ChildDate
<1>2. parent.start \in Nat \ {0} /\ parent.end \in Nat \ {0} /\ parent.start <= parent.end
  BY OrderedDates
<1>3. old.start \in Nat \ {0} /\ old.end \in Nat \ {0} /\ old.start <= old.end
  BY SpanFields DEF Dated, InOrder, NoDate
<1> HIDE DEF parent
<1>4. CASE ~ early /\ ~ late
  <2>1. start = NoDate /\ end = NoDate
    BY <1>2, <1>3, <1>4
  <2> HIDE DEF start, end
  <2> QED  BY <1>1, <2>1, TaskDateOrdered DEF parent
<1>5. CASE ~ early /\ late
  <2>1. start = parent.start /\ end = old.end + Smaller(parent.start - old.start, parent.end - old.end)
    BY <1>2, <1>3, <1>5 DEF NoDate
  <2>2. start # NoDate /\ end # NoDate /\ start <= end
    BY <1>2, <1>3, <1>5, <2>1 DEF Smaller, NoDate
  <2> HIDE DEF start, end
  <2> QED  BY <1>1, <2>2, TaskDateOrdered DEF parent
<1>6. CASE early
  <2>1. end = parent.end /\ start = Back(old.start, Smaller(old.end - parent.end, Apart(old.start, parent.start)))
    BY <1>2, <1>3, <1>6 DEF NoDate
  <2>2. start # NoDate /\ end # NoDate /\ start <= end
    BY <1>2, <1>3, <1>6, <2>1 DEF Smaller, Apart, Back, NoDate
  <2> HIDE DEF start, end
  <2> QED  BY <1>1, <2>2, TaskDateOrdered DEF parent
<1> QED  BY <1>4, <1>5, <1>6

LEMMA ParentDateOrdered ==
    ASSUME NEW r, Mounted(r), NEW e \in [Tasks -> Span] \cap Ordered, NEW p \in Tasks, NEW order \in Orders
    PROVE  ParentDate(r, e, p, order) \in Ordered
<1> DEFINE K == Children(r, p)
           first == Earliest(e, K, order)
           last == Latest(e, K, order)
<1>1. K \in SUBSET Tasks
  BY DEF Mounted, Children
<1>2. ParentDate(r, e, p, order) = TaskDate(e, p, first, last)
  BY DEF ParentDate
<1>3. first \in Nat /\ last \in Nat
  <2>1. last \in Reach \cup {NoDate} /\ first \in Reach \cup {NoDate}
    BY <1>1, LatestIs, EarliestIs
  <2> HIDE DEF last, first
  <2> QED  BY <2>1, DaysAssumption DEF NoDate
<1>4. CASE K = {}
  <2>1. first = NoDate /\ last = NoDate
    BY <1>4, <1>1, LatestIs, EarliestIs
  <2> HIDE DEF first, last
  <2> QED  BY <1>2, <2>1, TaskDateOrdered
<1>5. CASE K # {}
  <2>1. PICK k \in K : k \in Tasks
    BY <1>1, <1>5
  <2>2. \A x \in K : e[x].start # NoDate
    BY <1>1, OrderedDates DEF NoDate
  <2>3. first # NoDate /\ first <= e[k].start /\ e[k].end <= last
    BY <1>1, <1>5, <2>1, <2>2, LatestIs, EarliestIs
  <2>4. e[k].start \in Nat \ {0} /\ e[k].end \in Nat \ {0} /\ e[k].start <= e[k].end
    BY <2>1, OrderedDates
  <2> HIDE DEF first, last
  <2>5. first <= last /\ last # NoDate
    BY <2>3, <2>4, <1>3 DEF NoDate
  <2> QED  BY <1>2, <2>3, <2>5, TaskDateOrdered
<1> QED  BY <1>4, <1>5

LEMMA ParentsOrdered ==
    ASSUME NEW r, Mounted(r), NEW f \in Folders, NEW t \in Tasks, NEW order \in Orders, NEW d \in Ordered
    PROVE  UpdateParentTasks(r, d, f, t, order) \in Ordered
<1>1. d \in Left \cap Ordered /\ Thrown \in Ordered
  BY DEF Left, Ordered
<1>2. \A i \in 1..Count : Climb(r, f, t)[i] # None =>
          \A e \in [Tasks -> Span] \cap Ordered : ParentDate(r, e, Climb(r, f, t)[i], order) \in Ordered
  BY ClimbLive, ParentDateOrdered
<1> QED  BY <1>1, <1>2, ParentsKeep

LEMMA ChangesOrdered ==
    ASSUME NEW r, Sound(r), NEW f \in Folders, NEW t \in Tasks, NEW order \in Orders, NEW d \in [Tasks -> Span],
           AllInOrder(d), TaskDateChanges(r, d, f, t, order) # Thrown
    PROVE  AllInOrder(TaskDateChanges(r, d, f, t, order))
<1> DEFINE first == UpdateSuccessors(r, d, f, t, order)
           second == UpdateChildTasks(r, first, f, t, order)
<1>1. /\ first \in [Tasks -> Span] /\ second \in [Tasks -> Span] /\ Mounted(r)
      /\ TaskDateChanges(r, d, f, t, order) = UpdateParentTasks(r, second, f, t, order)
  BY ChangesTyped DEF Sound
<1>2. d \in [Tasks -> Span] \cap Ordered /\ Thrown \in Ordered
  BY DEF Ordered, Left
<1>3. VisitsKeep(r, d, f, t, order, Ordered)
  <2>1. SUFFICES ASSUME NEW p \in Tasks, NEW s \in Tasks, NEW e \in [Tasks -> Span] \cap Ordered
                 PROVE  VisitSuccessor(r, d, f, order, e, p, s) \in Ordered
    BY DEF VisitsKeep
  <2> DEFINE moved == Successor(e, p, s, r.deps[<<f, p, s>>], d[s])
  <2>2. d[s] \in Span /\ Dated(d[s]) /\ InOrder(d[s])
    BY DEF AllInOrder
  <2>3. moved \in Ordered
    BY <2>2, SuccessorOrdered
  <2> HIDE DEF moved
  <2>4. UpdateParentTasks(r, moved, f, s, order) \in Ordered
    BY <1>1, <2>3, ParentsOrdered
  <2> QED  BY <1>2, <2>4 DEF VisitSuccessor, moved
<1>4. first \in [Tasks -> Span] \cap Ordered
  BY <1>1, <1>2, <1>3, SuccessorsReach
<1> HIDE DEF first
<1>5. \A n \in 1..Count, c \in r.live : t \in r.live /\ Climb(r, f, c)[n] = t =>
          \A e \in [Tasks -> Span] \cap Ordered : ChildDate(e, e[r.up[<<f, c>>]], c, first[c]) \in Ordered
  <2>1. SUFFICES ASSUME NEW n \in 1..Count, NEW c \in r.live, Climb(r, f, c)[n] = t,
                        NEW e \in [Tasks -> Span] \cap Ordered
                 PROVE  ChildDate(e, e[r.up[<<f, c>>]], c, first[c]) \in Ordered
    OBVIOUS
  <2>2. c \in Tasks
    BY <1>1 DEF Mounted
  <2>3. r.up[<<f, c>>] \in Tasks
    BY <1>1, <2>1, <2>2, BelowHasParent, NoneAssumption
  <2>4. first[c] \in Span /\ Dated(first[c]) /\ InOrder(first[c])
    BY <1>4, <2>2, OrderedDates DEF AllInOrder
  <2> QED  BY <2>2, <2>3, <2>4, ChildDateOrdered
<1>6. second \in Ordered
  BY <1>1, <1>2, <1>4, <1>5, ChildrenKeep
<1> HIDE DEF second
<1>7. TaskDateChanges(r, d, f, t, order) \in Ordered
  BY <1>1, <1>6, ParentsOrdered
<1> QED  BY <1>7 DEF Ordered

(* A call that handles dates never makes a task start after its end where all tasks had both
   dates, in order (updateSuccessor, updateChildTaskDate, updateParentTaskDate). *)
THEOREM OrderStays == ScheduleSpec => StaysInOrder
<1>1. ScheduleTyped /\ [ScheduleNext]_scheduleVars =>
        [ (handled' # None /\ \A t \in Tasks : Dated(dates[t]) /\ InOrder(dates[t]))
            => \A t \in Tasks : InOrder(dates'[t]) ]_scheduleVars
  <2> SUFFICES ASSUME ScheduleTyped, ScheduleNext, handled' # None, AllInOrder(dates)
               PROVE  \A t \in Tasks : InOrder(dates'[t])
    BY DEF AllInOrder
  <2>1. PICK r : \E f \in Folders, t \in Tasks, d \in [Tasks -> Span], order \in Orders :
          /\ Sound(r)
          /\ TaskDateChanges(r, d, f, t, order) # Thrown
          /\ dates' = TaskDateChanges(r, d, f, t, order)
          /\ AllInOrder(dates) => AllInOrder(d)
    BY HandledHow
  <2>2. PICK f \in Folders, t \in Tasks, d \in [Tasks -> Span], order \in Orders :
          /\ Sound(r)
          /\ TaskDateChanges(r, d, f, t, order) # Thrown
          /\ dates' = TaskDateChanges(r, d, f, t, order)
          /\ AllInOrder(d)
    BY <2>1
  <2>3. AllInOrder(dates')
    BY <2>2, ChangesOrdered
  <2> QED  BY <2>3 DEF AllInOrder
<1> QED  BY <1>1, ScheduleTypes, PTL DEF ScheduleSpec, StaysInOrder

-----------------------------------------------------------------------------
(* Dependencies *)

(* X says nothing but of the dates of s and t, two tasks without children. *)
About(X, r, s, t) ==
    /\ Thrown \in X
    /\ Children(r, s) = {} /\ Children(r, t) = {}
    /\ \A e1, e2 \in [Tasks -> Span] : e1 \in X /\ e1[s] = e2[s] /\ e1[t] = e2[t] => e2 \in X

LEMMA ParentsPass ==
    ASSUME NEW r, Mounted(r), NEW f \in Folders, NEW u \in r.live, NEW order \in Orders,
           NEW s \in Tasks, NEW t \in Tasks, NEW X, About(X, r, s, t), NEW d \in Left \cap X
    PROVE  UpdateParentTasks(r, d, f, u, order) \in Left \cap X
<1>1. u \in Tasks /\ Thrown \in X
  BY DEF Mounted, About
<1>2. ASSUME NEW i \in 1..Count, Climb(r, f, u)[i] # None, NEW e \in [Tasks -> Span] \cap X
      PROVE  ParentDate(r, e, Climb(r, f, u)[i], order) \in X
  <2> DEFINE p == Climb(r, f, u)[i]
             z == ParentDate(r, e, p, order)
  <2>1. p \in Tasks
    BY <1>1, <1>2, ClimbLive
  <2>2. p # s /\ p # t
    BY <1>2, AboveHasChild DEF About
  <2> HIDE DEF p
  <2>3. z \in Left /\ (z # Thrown => z \in [Tasks -> Span] /\ z[s] = e[s] /\ z[t] = e[t])
    BY <2>1, <2>2, ParentDateIs
  <2> HIDE DEF z
  <2>4. z \in X
    BY <2>3, <1>1 DEF About
  <2> QED  BY <2>4 DEF z, p
<1> QED  BY <1>1, <1>2, ParentsKeep

(* A step on another task. *)
LEMMA OtherPass ==
    ASSUME NEW r, NEW s \in Tasks, NEW t \in Tasks, NEW X, About(X, r, s, t), NEW e \in [Tasks -> Span] \cap X,
           NEW u \in Tasks \ {s, t}, NEW start, NEW end
    PROVE  TaskDate(e, u, start, end) \in Left \cap X
<1> DEFINE z == TaskDate(e, u, start, end)
<1>1. z \in Left
  BY TaskDateIs
<1>2. ASSUME z # Thrown  PROVE z[s] = e[s] /\ z[t] = e[t]
  BY <1>2, OnlyOne
<1> HIDE DEF z
<1>3. z \in Left \cap X
  BY <1>1, <1>2 DEF Left, About
<1> QED  BY <1>3 DEF z

(* The first task is before the second as the type asks. *)
Behind(type, first, second) ==
    (IF type \in {"START_TO_START", "START_TO_FINISH"} THEN first.start ELSE first.end)
        <= (IF type \in {"START_TO_START", "FINISH_TO_START"} THEN second.start ELSE second.end)

LEMMA SuccessorIsBehind ==
    ASSUME NEW e \in [Tasks -> Span], NEW t \in Tasks, NEW s \in Tasks \ {t}, NEW type, NEW old \in Span,
           e[s] = old \/ Behind(type, e[t], e[s]),
           Successor(e, t, s, type, old) # Thrown
    PROVE  /\ Successor(e, t, s, type, old) \in [Tasks -> Span]
           /\ Successor(e, t, s, type, old)[t] = e[t]
           /\ Behind(type, e[t], Successor(e, t, s, type, old)[s])
<1> DEFINE mark == IF type \in {"START_TO_START", "START_TO_FINISH"} THEN e[t].start ELSE e[t].end
           toStart == type \in {"START_TO_START", "FINISH_TO_START"}
           days == old.end - old.start
           z == Successor(e, t, s, type, old)
           oldMark == IF toStart THEN old.start ELSE old.end
<1>1. z = IF mark <= oldMark THEN e
          ELSE IF ~Dated(old) THEN Thrown
          ELSE IF toStart THEN TaskDate(e, s, mark, mark + days) ELSE TaskDate(e, s, mark - days, mark)
  BY DEF Successor
<1>2. mark \in Nat /\ old.start \in Nat /\ old.end \in Nat
  BY SpanFields
<1>3. \A x : Behind(type, e[t], x) <=> mark <= (IF toStart THEN x.start ELSE x.end)
  BY DEF Behind
<1>4. CASE mark <= oldMark
  <2>1. z = e
    BY <1>1, <1>4
  <2> HIDE DEF mark, z
  <2>2. Behind(type, e[t], e[s])
    BY <1>3, <1>4
  <2> QED  BY <2>1, <2>2 DEF z
<1>5. CASE ~ (mark <= oldMark)
  <2> DEFINE start == IF toStart THEN mark ELSE mark - days
             end == IF toStart THEN mark + days ELSE mark
             new == [start |-> IF start # NoDate THEN start ELSE e[s].start,
                     end |-> IF end # NoDate THEN end ELSE e[s].end]
  <2>1. z = TaskDate(e, s, start, end) /\ z # Thrown
    BY <1>1, <1>5
  <2>2. mark # NoDate
    BY <1>2, <1>5 DEF NoDate
  <2>3. mark <= (IF toStart THEN new.start ELSE new.end)
    BY <1>2, <2>2
  <2> HIDE DEF start, end, mark, toStart
  <2>4. new \in Span /\ z = [e EXCEPT ![s] = new]
    BY <2>1, TaskDateIs
  <2> HIDE DEF new, z
  <2>5. z \in [Tasks -> Span] /\ z[t] = e[t] /\ z[s] = new
    BY <2>4
  <2>6. Behind(type, e[t], new)
    BY <1>3, <2>3
  <2> QED  BY <2>5, <2>6 DEF z
<1> QED  BY <1>4, <1>5

LEMMA ChangesBehind ==
    ASSUME NEW r, Sound(r), NEW f \in Folders, NEW t \in r.live, NEW s \in r.live, NEW order \in Orders,
           NEW d \in [Tasks -> Span], TaskDateChanges(r, d, f, t, order) # Thrown,
           t \in InFolder(r, f), <<f, t, s>> \in DOMAIN r.deps,
           \A x \in DOMAIN r.deps : x[3] # t /\ (x[3] = s => x = <<f, t, s>>),
           Children(r, s) = {}, Children(r, t) = {}
    PROVE  LET e == TaskDateChanges(r, d, f, t, order)
           IN  Behind(r.deps[<<f, t, s>>], e[t], e[s])
<1> DEFINE type == r.deps[<<f, t, s>>]
           first == UpdateSuccessors(r, d, f, t, order)
           second == UpdateChildTasks(r, first, f, t, order)
           after == TaskDateChanges(r, d, f, t, order)
           Q == {e \in Left : e = Thrown \/ (e[t] = d[t] /\ (e[s] = d[s] \/ Behind(type, e[t], e[s])))}
           P == {e \in Left : e = Thrown \/ (e[t] = d[t] /\ Behind(type, e[t], e[s]))}
<1>1. /\ first \in [Tasks -> Span] /\ second \in [Tasks -> Span] /\ Mounted(r) /\ s \in Tasks /\ t \in Tasks
      /\ after = UpdateParentTasks(r, second, f, t, order) /\ after \in [Tasks -> Span]
  <2>1. Mounted(r) /\ s \in Tasks /\ t \in Tasks
    BY DEF Sound, Mounted
  <2> QED  BY <2>1, ChangesTyped
<1>2. s # t
  BY <1>1
<1>3. About(Q, r, s, t) /\ About(P, r, s, t)
  <2>1. \A e1, e2 \in [Tasks -> Span] : e1 \in Q /\ e1[s] = e2[s] /\ e1[t] = e2[t] => e2 \in Q
    BY <1>1, ThrownIsNoDates DEF Left
  <2>2. \A e1, e2 \in [Tasks -> Span] : e1 \in P /\ e1[s] = e2[s] /\ e1[t] = e2[t] => e2 \in P
    BY <1>1, ThrownIsNoDates DEF Left
  <2>3. Thrown \in Q /\ Thrown \in P
    BY DEF Left
  <2> HIDE DEF Q, P
  <2> QED  BY <2>1, <2>2, <2>3 DEF About
<1>4. d \in [Tasks -> Span] \cap Q /\ Thrown \in Q /\ Thrown \in P /\ P \subseteq Q
  BY DEF Left
<1>5. ASSUME NEW e \in [Tasks -> Span] \cap Q  PROVE VisitSuccessor(r, d, f, order, e, t, s) \in P
  <2> DEFINE moved == Successor(e, t, s, type, d[s])
  <2>1. e[t] = d[t] /\ (e[s] = d[s] \/ Behind(type, e[t], e[s])) /\ d[s] \in Span
    BY <1>1, ThrownIsNoDates
  <2>2. moved # Thrown => moved \in [Tasks -> Span] /\ moved[t] = e[t] /\ Behind(type, e[t], moved[s])
    BY <1>1, <1>2, <2>1, SuccessorIsBehind
  <2>3. VisitSuccessor(r, d, f, order, e, t, s) = IF moved = Thrown THEN Thrown ELSE UpdateParentTasks(r, moved, f, s, order)
    BY <1>1, ThrownIsNoDates DEF VisitSuccessor
  <2> HIDE DEF moved, type
  <2>4. moved # Thrown => moved \in Left \cap P
    BY <2>1, <2>2 DEF Left
  <2> HIDE DEF P, Q
  <2>5. moved # Thrown => UpdateParentTasks(r, moved, f, s, order) \in P
    BY <1>1, <1>3, <2>4, ParentsPass
  <2> QED  BY <2>3, <2>5, <1>4
<1>6. ASSUME NEW X, About(X, r, s, t), \A e \in [Tasks -> Span] \cap X : VisitSuccessor(r, d, f, order, e, t, s) \in X
      PROVE  VisitsKeep(r, d, f, t, order, X)
  <2>1. SUFFICES ASSUME NEW n \in 1..Count, NEW p \in Tasks, NEW u \in Tasks, OnWalk(r, f, t, n, p, u),
                        NEW e \in [Tasks -> Span] \cap X
                 PROVE  VisitSuccessor(r, d, f, order, e, p, u) \in X
    BY DEF VisitsKeep
  <2>2. <<f, p, u>> \in DOMAIN r.deps /\ u \in r.live
    <3>1. PICK w \in Walks(r, f, t) : Len(w) = n + 1 /\ w[n] = p /\ w[n + 1] = u
      BY <2>1 DEF OnWalk
    <3>2. n \in 1..(Len(w) - 1)
      BY <3>1, CountIsNat
    <3> QED  BY <3>1, <3>2 DEF Walks
  <2>3. u # t /\ (u = s => p = t)
    BY <2>2
  <2>4. CASE u = s
    BY <2>3, <2>4, <1>6
  <2>5. CASE u # s
    <3> DEFINE moved == Successor(e, p, u, r.deps[<<f, p, u>>], d[u])
    <3>1. u \in Tasks \ {s, t} /\ e \in Left \cap X
      BY <2>3, <2>5 DEF Left
    <3>2. moved \in Left \cap X
      <4>1. Thrown \in Left \cap X
        BY <1>6 DEF About, Left
      <4>2. \A start, end : TaskDate(e, u, start, end) \in Left \cap X
        BY <1>1, <1>6, <3>1, OtherPass
      <4> QED  BY <3>1, <4>1, <4>2 DEF Successor
    <3>3. VisitSuccessor(r, d, f, order, e, p, u) = IF moved = Thrown THEN Thrown ELSE UpdateParentTasks(r, moved, f, u, order)
      BY <1>1, ThrownIsNoDates DEF VisitSuccessor
    <3> HIDE DEF moved
    <3>4. UpdateParentTasks(r, moved, f, u, order) \in Left \cap X
      BY <1>1, <1>6, <2>2, <3>2, ParentsPass
    <3> QED  BY <3>3, <3>4, <1>6 DEF About
  <2> QED  BY <2>4, <2>5
<1>7. VisitsKeep(r, d, f, t, order, Q) /\ VisitsKeep(r, d, f, t, order, P)
  <2> HIDE DEF P, Q
  <2> QED  BY <1>3, <1>4, <1>5, <1>6
<1>8. first \in [Tasks -> Span] \cap P
  <2> HIDE DEF P, Q
  <2>1. t \in r.live \cap InFolder(r, f) /\ t \in Tasks
    BY <1>1
  <2> QED  BY <2>1, <1>1, <1>4, <1>5, <1>7, SuccessorsReach
<1> HIDE DEF first, P, Q
<1>9. second \in Left \cap P
  <2>1. ASSUME NEW n \in 1..Count, NEW c \in r.live, Climb(r, f, c)[n] = t  PROVE FALSE
    BY <1>1, <2>1, AboveHasChild, NoneAssumption
  <2> QED  BY <1>1, <1>4, <1>8, <2>1, ChildrenKeep
<1> HIDE DEF second
<1>10. after \in Left \cap P
  BY <1>1, <1>3, <1>9, ParentsPass
<1>11. after # Thrown
  OBVIOUS
<1> HIDE DEF after
<1>12. Behind(type, after[t], after[s])
  BY <1>10, <1>11 DEF P
<1> QED  BY <1>12 DEF after

BehindAll(r, e, f, t) ==
    \A s \in Tasks :
        ( /\ <<f, t, s>> \in DOMAIN r.deps /\ {x \in DOMAIN r.deps : x[3] = s} = {<<f, t, s>>}
          /\ ~\E x \in DOMAIN r.deps : x[3] = t
          /\ Children(r, s) \cup Children(r, t) = {}
          /\ {s, t} \subseteq r.live /\ t \in InFolder(r, f) ) => Behind(r.deps[<<f, t, s>>], e[t], e[s])

LEMMA KeptIs ==
    ASSUME ScheduleTyped
    PROVE  DependencyKept <=> (handled # None => BehindAll(Rows, dates, handled[1], handled[2]))
<1>1. Rows.deps = deps /\ Rows.live = Live
  BY RowsSound
<1>2. \A f, t, s : <<f, t, s>> \in DOMAIN deps => deps[<<f, t, s>>] \in AllTypes
  BY TypesAssumption DEF ScheduleTyped
<1>3. ASSUME NEW type \in AllTypes, NEW x, NEW y
      PROVE  Behind(type, x, y) <=>
               CASE type = "START_TO_START"   -> x.start <= y.start
                 [] type = "START_TO_FINISH"  -> x.start <= y.end
                 [] type = "FINISH_TO_START"  -> x.end <= y.start
                 [] type = "FINISH_TO_FINISH" -> x.end <= y.end
  BY DEF Behind, AllTypes
<1> QED  BY <1>1, <1>2, <1>3 DEF DependencyKept, BehindAll

LEMMA StepKept ==
    ASSUME ScheduleTyped, ScheduleNext, handled' # None
    PROVE  BehindAll(Rows', dates', handled'[1], handled'[2])
<1>1. PICK r : \E f \in Folders, t \in Tasks, d \in [Tasks -> Span], order \in Orders :
        /\ r = [up |-> up', deps |-> deps', live |-> Tasks \ archived'] /\ Sound(r)
        /\ handled' = <<f, t>>
        /\ TaskDateChanges(r, d, f, t, order) # Thrown
        /\ dates' = TaskDateChanges(r, d, f, t, order)
  BY HandledHow
<1>2. PICK f \in Folders, t \in Tasks, d \in [Tasks -> Span], order \in Orders :
        /\ r = [up |-> up', deps |-> deps', live |-> Tasks \ archived'] /\ Sound(r)
        /\ handled' = <<f, t>>
        /\ TaskDateChanges(r, d, f, t, order) # Thrown
        /\ dates' = TaskDateChanges(r, d, f, t, order)
  BY <1>1
<1>3. r = Rows' /\ handled'[1] = f /\ handled'[2] = t
  BY <1>2 DEF Rows, Live
<1>4. BehindAll(r, dates', f, t)
  <2> SUFFICES ASSUME NEW s \in Tasks, <<f, t, s>> \in DOMAIN r.deps, {x \in DOMAIN r.deps : x[3] = s} = {<<f, t, s>>},
                      ~\E x \in DOMAIN r.deps : x[3] = t, Children(r, s) \cup Children(r, t) = {},
                      {s, t} \subseteq r.live, t \in InFolder(r, f)
               PROVE  Behind(r.deps[<<f, t, s>>], dates'[t], dates'[s])
    BY DEF BehindAll
  <2>1. \A x \in DOMAIN r.deps : x[3] # t /\ (x[3] = s => x = <<f, t, s>>)
    OBVIOUS
  <2>2. t \in r.live /\ s \in r.live /\ Children(r, s) = {} /\ Children(r, t) = {}
    OBVIOUS
  <2> QED  BY <1>2, <2>1, <2>2, ChangesBehind
<1> QED  BY <1>3, <1>4

(* After a change of a task's dates has been handled, no task that depends on it starts or ends
   before the day the type of the dependency names, but for those the property leaves out
   (updateSuccessorTaskDate). *)
THEOREM DependenciesAreKept == ScheduleSpec => []DependencyKept
<1> DEFINE Kept == handled # None => BehindAll(Rows, dates, handled[1], handled[2])
<1>1. ScheduleInit => Kept
  BY DEF ScheduleInit
<1>2. ScheduleTyped /\ Kept /\ [ScheduleNext]_scheduleVars => Kept'
  <2>1. ASSUME Kept, UNCHANGED scheduleVars  PROVE Kept'
    BY <2>1 DEF scheduleVars, Rows, Live
  <2>2. ASSUME ScheduleTyped, ScheduleNext  PROVE Kept'
    BY <2>2, StepKept
  <2> QED  BY <2>1, <2>2
<1>3. ScheduleTyped /\ Kept => DependencyKept
  BY KeptIs
<1> QED  BY <1>1, <1>2, <1>3, ScheduleTypes, PTL DEF ScheduleSpec

-----------------------------------------------------------------------------
(* Tables of rows *)

Fields == {"index", "stateIndex"}
Tables == UNION {[S -> Row] : S \in SUBSET (Folders \X Tasks)}

LEMMA TableIs ==
    ASSUME NEW R
    PROVE  R \in Tables <=> /\ DOMAIN R \subseteq Folders \X Tasks
                            /\ R = [x \in DOMAIN R |-> R[x]]
                            /\ \A x \in DOMAIN R : R[x] \in Row
<1>1. ASSUME R \in Tables
      PROVE  DOMAIN R \subseteq Folders \X Tasks /\ R = [x \in DOMAIN R |-> R[x]] /\ \A x \in DOMAIN R : R[x] \in Row
  BY <1>1 DEF Tables
<1>2. ASSUME DOMAIN R \subseteq Folders \X Tasks, R = [x \in DOMAIN R |-> R[x]], \A x \in DOMAIN R : R[x] \in Row
      PROVE  R \in Tables
  <2>1. R \in [DOMAIN R -> Row]
    BY <1>2
  <2> QED  BY <1>2, <2>1 DEF Tables
<1> QED  BY <1>1, <1>2

LEMMA CellsAreFinite ==
    ASSUME NEW R \in Tables, NEW S, S \subseteq DOMAIN R
    PROVE  IsFiniteSet(S)
<1>1. IsFiniteSet(Folders \X Tasks)
  BY FiniteAssumption, FS_Product
<1>2. S \in SUBSET (Folders \X Tasks)
  BY TableIs
<1> QED  BY <1>1, <1>2, FS_Subset

(* Two tables that differ in positions only. *)
Shuffled(R, Q) ==
    /\ Q \in Tables /\ DOMAIN Q = DOMAIN R
    /\ \A x \in DOMAIN R : Q[x].state = R[x].state /\ Q[x].parent = R[x].parent

(* and only in one, of some rows. *)
OnlyIn(R, Q, S, fld) ==
    /\ Shuffled(R, Q)
    /\ \A x \in DOMAIN R, g \in Fields : (x \notin S \/ g # fld) => Q[x][g] = R[x][g]

(* Rows that get new positions, and rows that are moved by as much. *)
Renumbers(R, Q, S, fld, n) == OnlyIn(R, Q, S, fld) /\ \A x \in S \cap DOMAIN R : Q[x][fld] = n[x]
Shifts(R, Q, S, fld, by)   == OnlyIn(R, Q, S, fld) /\ \A x \in S \cap DOMAIN R : Q[x][fld] = R[x][fld] + by

LEMMA WithIs ==
    ASSUME NEW R \in Tables, NEW S, NEW fld \in Fields, NEW n, \A x \in S \cap DOMAIN R : n[x] \in Int
    PROVE  Renumbers(R, With(R, S, fld, n), S, fld, n)
<1> DEFINE Q == With(R, S, fld, n)
<1>1. DOMAIN R \subseteq Folders \X Tasks /\ \A x \in DOMAIN R : R[x] \in Row
  BY TableIs
<1>2. DOMAIN Q = DOMAIN R /\ Q = [x \in DOMAIN Q |-> Q[x]]
  BY DEF With
<1>3. \A x \in DOMAIN R : Q[x] = IF x \in S THEN [R[x] EXCEPT ![fld] = n[x]] ELSE R[x]
  BY DEF With
<1> HIDE DEF Q
<1>4. ASSUME NEW x \in DOMAIN R
      PROVE  /\ Q[x] \in Row /\ Q[x].state = R[x].state /\ Q[x].parent = R[x].parent
             /\ x \in S => Q[x][fld] = n[x]
             /\ \A g \in Fields : (x \notin S \/ g # fld) => Q[x][g] = R[x][g]
  <2>1. CASE x \notin S
    BY <1>1, <1>3, <2>1
  <2>2. CASE x \in S
    <3>1. Q[x] = [R[x] EXCEPT ![fld] = n[x]] /\ R[x] \in Row /\ n[x] \in Int
      BY <1>1, <1>3, <2>2
    <3>2. CASE fld = "index"
      BY <2>2, <3>1, <3>2 DEF Row, Fields
    <3>3. CASE fld = "stateIndex"
      BY <2>2, <3>1, <3>3 DEF Row, Fields
    <3> QED  BY <3>2, <3>3 DEF Fields
  <2> QED  BY <2>1, <2>2
<1>5. Q \in Tables
  BY <1>1, <1>2, <1>4, TableIs
<1> QED  BY <1>2, <1>4, <1>5 DEF OnlyIn, Shuffled, Renumbers, Q

LEMMA ShiftIs ==
    ASSUME NEW R \in Tables, NEW S, NEW fld \in Fields, NEW by \in Int
    PROVE  Shifts(R, Shift(R, S, fld, by), S, fld, by)
<1> DEFINE n == [x \in S |-> R[x][fld] + by]
<1>1. \A x \in S \cap DOMAIN R : n[x] = R[x][fld] + by /\ n[x] \in Int
  <2>1. \A x \in DOMAIN R : R[x][fld] \in Int
    BY TableIs DEF Row, Fields
  <2> QED  BY <2>1
<1>2. Shift(R, S, fld, by) = With(R, S, fld, n)
  BY DEF Shift
<1> HIDE DEF n
<1>3. Renumbers(R, With(R, S, fld, n), S, fld, n)
  BY <1>1, WithIs
<1> QED  BY <1>1, <1>2, <1>3 DEF Renumbers, Shifts

(* One position in every folder of a task. *)
AllAt(R, Q, t, fld, k) ==
    /\ OnlyIn(R, Q, {x \in DOMAIN R : x[2] = t}, fld)
    /\ \A x \in DOMAIN R : x[2] = t => Q[x][fld] = k

LEMMA EverywhereIs ==
    ASSUME NEW R \in Tables, NEW t, NEW fld \in Fields, NEW k \in Int
    PROVE  AllAt(R, Everywhere(R, t, fld, k), t, fld, k)
<1> DEFINE S == {x \in DOMAIN R : x[2] = t}
           n == [x \in S |-> k]
<1>1. \A x \in S \cap DOMAIN R : n[x] = k /\ n[x] \in Int
  OBVIOUS
<1>2. Everywhere(R, t, fld, k) = With(R, S, fld, n)
  BY DEF Everywhere
<1> HIDE DEF n, S
<1>3. Renumbers(R, With(R, S, fld, n), S, fld, n)
  BY <1>1, WithIs
<1> USE DEF S
<1> QED  BY <1>1, <1>2, <1>3 DEF AllAt, Renumbers

LEMMA Shuffles ==
    ASSUME NEW R, NEW Q, NEW P, Shuffled(R, Q), Shuffled(Q, P)
    PROVE  Shuffled(R, P)
BY DEF Shuffled

(* Where others make room, only they move. *)
LEMMA PlaceMoves ==
    ASSUME NEW R \in Tables, NEW S, NEW fld \in Fields, NEW k, NEW old, NEW Q \in Place(R, S, fld, k, old)
    PROVE  OnlyIn(R, Q, S, fld)
<1>1. CASE k = 0
  <2>1. PICK n \in RowNumbers(R, S, fld) : Q = With(R, S, fld, n)
    BY <1>1 DEF Place
  <2>2. \A x \in S \cap DOMAIN R : n[x] \in Int
    BY DEF RowNumbers, Bijection, Injection
  <2> QED  BY <2>1, <2>2, WithIs DEF Renumbers
<1>2. CASE k # 0
  <2> DEFINE U == {x \in S : R[x][fld] \in (old + 1)..k}
             V == {x \in S : R[x][fld] \in k..(old - 1)}
  <2>1. Q = Shift(R, U, fld, -1) \/ Q = Shift(R, V, fld, 1)
    BY <1>2 DEF Place
  <2>3. U \subseteq S /\ V \subseteq S
    OBVIOUS
  <2> HIDE DEF U, V
  <2>2. OnlyIn(R, Q, U, fld) \/ OnlyIn(R, Q, V, fld)
    BY <2>1, ShiftIs DEF Shifts
  <2> QED  BY <2>2, <2>3 DEF OnlyIn
<1> QED  BY <1>1, <1>2

LEMMA SiblingsMove ==
    ASSUME NEW R \in Tables, NEW p, NEW f, NEW k \in Int, NEW t, NEW old, NEW Q \in UpdateTaskSiblings(R, p, f, k, t, old)
    PROVE  /\ Shuffled(R, Q)
           /\ \A x \in DOMAIN R : Q[x].stateIndex = R[x].stateIndex
<1> DEFINE M == Everywhere(R, t, "index", k)
           S == Siblings(R, f, p, t)
<1>1. Q \in Place(M, S, "index", k, old)
  BY DEF UpdateTaskSiblings
<1>2. OnlyIn(R, M, {x \in DOMAIN R : x[2] = t}, "index")
  BY EverywhereIs DEF Fields, AllAt
<1> HIDE DEF M, S
<1>3. M \in Tables
  BY <1>2 DEF OnlyIn, Shuffled
<1>4. OnlyIn(M, Q, S, "index")
  BY <1>1, <1>3, PlaceMoves DEF Fields
<1>5. Shuffled(R, Q)
  BY <1>2, <1>4, Shuffles DEF OnlyIn
<1>6. \A x \in DOMAIN R : Q[x].stateIndex = R[x].stateIndex
  <2>1. \A x \in DOMAIN R : M[x]["stateIndex"] = R[x]["stateIndex"]
    BY <1>2 DEF OnlyIn, Fields
  <2>2. \A x \in DOMAIN R : Q[x]["stateIndex"] = M[x]["stateIndex"]
    BY <1>2, <1>4 DEF OnlyIn, Shuffled, Fields
  <2> QED  BY <2>1, <2>2
<1> QED  BY <1>5, <1>6

LEMMA ColumnsMove ==
    ASSUME NEW R \in Tables, NEW p, NEW f, NEW k \in Int, NEW t, NEW to, NEW old, NEW from,
           NEW Q \in UpdateFolderWorkflowStateSiblings(R, p, f, k, t, to, old, from)
    PROVE  /\ Shuffled(R, Q)
           /\ \A x \in DOMAIN R : Q[x].index = R[x].index
<1> DEFINE M == Everywhere(R, t, "stateIndex", k)
           S == InColumn(R, Siblings(R, f, p, t), from)
           T == InColumn(R, Siblings(R, f, p, t), to)
<1>1. Q \in IF to = from THEN Place(M, T, "stateIndex", k, old) ELSE ChangeColumn(M, S, T, k, old)
  BY DEF UpdateFolderWorkflowStateSiblings
<1>2. OnlyIn(R, M, {x \in DOMAIN R : x[2] = t}, "stateIndex")
  BY EverywhereIs DEF Fields, AllAt
<1> HIDE DEF M, S, T
<1>3. M \in Tables /\ DOMAIN M = DOMAIN R
  BY <1>2 DEF OnlyIn, Shuffled
<1>4. Shuffled(M, Q) /\ \A x \in DOMAIN M : Q[x]["index"] = M[x]["index"]
  <2>1. CASE to = from
    <3>1. OnlyIn(M, Q, T, "stateIndex")
      BY <1>1, <1>3, <2>1, PlaceMoves DEF Fields
    <3> QED  BY <3>1 DEF OnlyIn, Fields
  <2>2. CASE to # from /\ k = 0
    <3> DEFINE U == {x \in S : M[x].stateIndex >= old}
               P == Shift(M, U, "stateIndex", -1)
    <3>1. PICK n \in RowNumbers(M, T, "stateIndex") : Q = With(P, T, "stateIndex", n)
      BY <1>1, <2>2 DEF ChangeColumn
    <3> HIDE DEF U
    <3>2. OnlyIn(M, P, U, "stateIndex")
      <4>1. M \in Tables /\ "stateIndex" \in Fields /\ -1 \in Int
        BY <1>3 DEF Fields
      <4> QED  BY <4>1, ShiftIs DEF Shifts
    <3> HIDE DEF P
    <3>3. P \in Tables
      BY <3>2 DEF OnlyIn, Shuffled
    <3>4. \A x \in T \cap DOMAIN P : n[x] \in Int
      BY DEF RowNumbers, Bijection, Injection
    <3>5. OnlyIn(P, Q, T, "stateIndex")
      BY <3>1, <3>3, <3>4, WithIs DEF Fields, Renumbers
    <3>6. Shuffled(M, Q)
      BY <3>2, <3>5, Shuffles DEF OnlyIn
    <3> QED  BY <3>2, <3>5, <3>6 DEF OnlyIn, Shuffled, Fields
  <2>3. CASE to # from /\ k # 0
    <3> DEFINE U == {x \in S : M[x].stateIndex > old}
               V == {x \in T : M[x].stateIndex >= old}
               P == Shift(M, U, "stateIndex", -1)
    <3>1. Q = Shift(P, V, "stateIndex", 1)
      BY <1>1, <2>3 DEF ChangeColumn
    <3> HIDE DEF U, V
    <3>2. OnlyIn(M, P, U, "stateIndex")
      BY <1>3, ShiftIs DEF Fields, Shifts
    <3> HIDE DEF P
    <3>3. P \in Tables
      BY <3>2 DEF OnlyIn, Shuffled
    <3>4. OnlyIn(P, Q, V, "stateIndex")
      BY <3>1, <3>3, ShiftIs DEF Fields, Shifts
    <3>5. Shuffled(M, Q)
      BY <3>2, <3>4, Shuffles DEF OnlyIn
    <3> QED  BY <3>2, <3>4, <3>5 DEF OnlyIn, Shuffled, Fields
  <2> QED  BY <2>1, <2>2, <2>3
<1>5. Shuffled(R, Q)
  BY <1>2, <1>4, Shuffles DEF OnlyIn
<1>6. \A x \in DOMAIN R : M[x]["index"] = R[x]["index"]
  BY <1>2 DEF OnlyIn, Fields
<1> QED  BY <1>3, <1>4, <1>5, <1>6

LEMMA SavedMoves ==
    ASSUME NEW R \in Tables, NEW f, NEW t, NEW k \in Int, NEW Q \in Saved(R, f, t, k)
    PROVE  Shuffled(R, Q)
<1> DEFINE p == R[<<f, t>>].parent
           s == R[<<f, t>>].state
<1>1. PICK R2 \in UpdateTaskSiblings(R, p, f, k, t, k) : Q \in UpdateFolderWorkflowStateSiblings(R2, p, f, 0, t, s, 0, s)
  BY DEF Saved
<1> HIDE DEF p, s
<1>2. Shuffled(R, R2)
  BY <1>1, SiblingsMove
<1>3. R2 \in Tables
  BY <1>2 DEF Shuffled
<1>4. Shuffled(R2, Q)
  BY <1>1, <1>3, ColumnsMove
<1> QED  BY <1>2, <1>4, Shuffles

LEMMA AddedIs ==
    ASSUME NEW R \in Tables, NEW f \in Folders, NEW t \in Tasks, NEW row \in Row
    PROVE  LET Q == Added(R, <<f, t>>, row)
           IN  /\ Q \in Tables /\ DOMAIN Q = DOMAIN R \cup {<<f, t>>}
               /\ \A y \in DOMAIN Q : Q[y] = IF y = <<f, t>> THEN row ELSE R[y]
<1> DEFINE Q == Added(R, <<f, t>>, row)
<1>1. DOMAIN R \subseteq Folders \X Tasks /\ \A x \in DOMAIN R : R[x] \in Row
  BY TableIs
<1>2. DOMAIN Q = DOMAIN R \cup {<<f, t>>} /\ Q = [y \in DOMAIN Q |-> Q[y]]
  BY DEF Added
<1>3. \A y \in DOMAIN Q : Q[y] = IF y = <<f, t>> THEN row ELSE R[y]
  BY DEF Added
<1> HIDE DEF Q
<1>4. Q \in Tables
  BY <1>1, <1>2, <1>3, TableIs
<1> QED  BY <1>2, <1>3, <1>4 DEF Q

-----------------------------------------------------------------------------
(* Types *)

LEMMA TypeIs ==
    TypeOK <=>
      /\ owner \in [DOMAIN owner -> Users \cup {None}] /\ DOMAIN owner \subseteq Workflows
      /\ columns \in [DOMAIN columns -> [of : DOMAIN owner, at : Nat]] /\ DOMAIN columns \subseteq States
      /\ lanes \subseteq (DOMAIN columns) \X (DOMAIN columns)
      /\ \A l \in lanes : columns[l[1]].of = columns[l[2]].of
      /\ guarded \subseteq lanes
      /\ offered \subseteq DOMAIN owner
      /\ flow \in [Folders -> DOMAIN owner]
      /\ rows \in Tables
      /\ \A x \in DOMAIN rows : rows[x].state \in DOMAIN columns
<1>1. ASSUME rows \in [DOMAIN rows -> Row], DOMAIN rows \subseteq Folders \X Tasks
      PROVE  rows \in Tables
  BY <1>1 DEF Tables
<1>2. ASSUME rows \in Tables
      PROVE  rows \in [DOMAIN rows -> Row] /\ DOMAIN rows \subseteq Folders \X Tasks
  BY <1>2 DEF Tables
<1> QED  BY <1>1, <1>2 DEF TypeOK

(* A row of another state, or below another parent. *)
InState(R, x, s) == [R EXCEPT ![x].state = s]
Below(R, x, p)   == [R EXCEPT ![x].parent = p]

LEMMA RowPut ==
    ASSUME NEW R \in Tables, NEW x \in DOMAIN R
    PROVE  /\ \A s \in States : InState(R, x, s) \in Tables
           /\ \A p \in Parents : Below(R, x, p) \in Tables
<1> USE DEF InState, Below
<1>1. DOMAIN R \subseteq Folders \X Tasks /\ R \in [DOMAIN R -> Row]
  BY DEF Tables
<1>2. /\ \A s \in States : [R EXCEPT ![x].state = s] \in [DOMAIN R -> Row]
      /\ \A p \in Parents : [R EXCEPT ![x].parent = p] \in [DOMAIN R -> Row]
  BY <1>1 DEF Row
<1> QED  BY <1>1, <1>2 DEF Tables

(* A call of updatePosition gives the task its column and leaves the columns of others. *)
LEMMA ColumnedIs ==
    ASSUME NEW f, NEW t, rows \in Tables, <<f, t>> \in DOMAIN rows, NEW to \in States, NEW k \in Int,
           NEW board \in BOOLEAN, NEW R \in Columned(f, t, to, k, board)
    PROVE  /\ R \in Tables /\ DOMAIN R = DOMAIN rows
           /\ \A x \in DOMAIN rows : /\ R[x].state = IF x = <<f, t>> THEN to ELSE rows[x].state
                                     /\ R[x].parent = rows[x].parent
<1> DEFINE r == rows[<<f, t>>]
           moved == [rows EXCEPT ![<<f, t>>].state = to]
<1>1. CASE to = r.state
  <2>1. PICK M \in IF board THEN UpdateFolderWorkflowStateSiblings(rows, r.parent, f, k, t, to, r.stateIndex, to)
                   ELSE {rows} : R \in UpdateTaskSiblings(M, r.parent, f, k, t, r.index)
    BY <1>1 DEF Columned
  <2>2. Shuffled(rows, M)
    <3>1. CASE board
      BY <2>1, <3>1, ColumnsMove
    <3>2. CASE ~board
      BY <2>1, <3>2 DEF Shuffled
    <3> QED  BY <3>1, <3>2
  <2>3. M \in Tables
    BY <2>2 DEF Shuffled
  <2>4. Shuffled(M, R)
    BY <2>1, <2>3, SiblingsMove
  <2>5. Shuffled(rows, R)
    BY <2>2, <2>4, Shuffles
  <2> QED  BY <1>1, <2>5 DEF Shuffled
<1>2. CASE to # r.state
  <2>1. R \in UpdateFolderWorkflowStateSiblings(moved, r.parent, f, k, t, to, r.stateIndex, r.state)
    BY <1>2 DEF Columned
  <2>2. moved \in Tables
    <3>1. moved = InState(rows, <<f, t>>, to)
      BY DEF InState
    <3>2. InState(rows, <<f, t>>, to) \in Tables
      BY RowPut
    <3> QED  BY <3>1, <3>2
  <2>3. /\ DOMAIN moved = DOMAIN rows
        /\ \A x \in DOMAIN rows : /\ moved[x].state = IF x = <<f, t>> THEN to ELSE rows[x].state
                                  /\ moved[x].parent = rows[x].parent
    <3>1. \A x \in DOMAIN rows : rows[x] \in Row
      BY TableIs
    <3> QED  BY <3>1 DEF Row
  <2> HIDE DEF moved, r
  <2>4. Shuffled(moved, R)
    BY <2>1, <2>2, ColumnsMove
  <2> QED  BY <2>3, <2>4 DEF Shuffled
<1> QED  BY <1>1, <1>2

LEMMA HungIs ==
    ASSUME NEW f, NEW t, NEW P \in Tables, <<f, t>> \in DOMAIN P, NEW k \in Int, NEW new \in Parents,
           NEW R \in Hung(P, f, t, k, new)
    PROVE  /\ R \in Tables /\ DOMAIN R = DOMAIN P
           /\ \A x \in DOMAIN P : R[x].state = P[x].state
<1> DEFINE M == [P EXCEPT ![<<f, t>>].parent = new]
<1>1. PICK old : R \in UpdateTaskSiblings(M, new, f, k, t, old)
  BY DEF Hung
<1>2. M \in Tables /\ DOMAIN M = DOMAIN P
  <2>1. M = Below(P, <<f, t>>, new)
    BY DEF Below
  <2>2. Below(P, <<f, t>>, new) \in Tables
    BY RowPut
  <2> QED  BY <2>1, <2>2
<1>3. \A x \in DOMAIN P : M[x].state = P[x].state
  <2>1. \A x \in DOMAIN P : P[x] \in Row
    BY TableIs
  <2> QED  BY <2>1 DEF Row
<1> HIDE DEF M
<1>4. Shuffled(M, R)
  BY <1>1, <1>2, SiblingsMove
<1> QED  BY <1>2, <1>3, <1>4 DEF Shuffled

(* The subtasks of a task have rows in its folder. *)
LEMMA TreeIs ==
    ASSUME NEW f, NEW t \in Tasks
    PROVE  Tree(f, t) \subseteq Tasks /\ \A c \in Tree(f, t) : c = t \/ <<f, c>> \in DOMAIN rows
<1> DEFINE T == {c \in Tasks : c = t \/ <<f, c>> \in DOMAIN rows}
<1>1. T \in SUBSET Tasks /\ \A c \in Tasks : <<f, c>> \in DOMAIN rows /\ rows[<<f, c>>].parent \in T => c \in T
  OBVIOUS
<1> DEFINE Closed == {S \in SUBSET Tasks : \A c \in Tasks :
                        <<f, c>> \in DOMAIN rows /\ rows[<<f, c>>].parent \in S => c \in S}
<1>2. Tree(f, t) = {c \in Tasks : \A S \in Closed : t \in S => c \in S}
  BY DEF Tree
<1>3. T \in Closed
  BY <1>1
<1> HIDE DEF Closed
<1>4. \A c \in Tree(f, t) : c \in Tasks /\ (t \in T => c \in T)
  BY <1>2, <1>3
<1>5. t \in T \/ t \notin Tasks
  OBVIOUS
<1> QED  BY <1>4, <1>5

-----------------------------------------------------------------------------
(* What share saves *)

SharedRow(c, t, from, s) ==
    [parent |-> IF c = t THEN None ELSE rows[<<from, c>>].parent, state |-> s, index |-> 0, stateIndex |-> 0]
SharedIn(Rs, c, t, from, to, s) ==
    UNION {Saved(Added(R, <<to, c>>, SharedRow(c, t, from, s)), to, c, 0) : R \in Rs}

(* The tables that differ from the rows only in rows of the folder to, in the state s. *)
SharedTables(to, s) ==
    {R \in Tables : /\ DOMAIN rows \subseteq DOMAIN R
                    /\ \A x \in DOMAIN R : \/ x \in DOMAIN rows /\ R[x].state = rows[x].state
                                           \/ x[1] = to /\ R[x].state = s}

LEMMA ShareSaves ==
    ASSUME NEW c \in Tasks, NEW t, NEW from, NEW to \in Folders, NEW s \in States, rows \in Tables,
           c = t \/ <<from, c>> \in DOMAIN rows,
           NEW Rs, Rs \subseteq SharedTables(to, s)
    PROVE  SharedIn(Rs, c, t, from, to, s) \subseteq SharedTables(to, s)
<1> SUFFICES ASSUME NEW Q \in SharedIn(Rs, c, t, from, to, s)  PROVE Q \in SharedTables(to, s)
  OBVIOUS
<1> DEFINE row == SharedRow(c, t, from, s)
<1>1. PICK R \in Rs : Q \in Saved(Added(R, <<to, c>>, row), to, c, 0)
  BY DEF SharedIn
<1>2. row \in Row /\ row.state = s
  <2>1. \A x \in DOMAIN rows : rows[x] \in Row
    BY TableIs
  <2>2. row.parent \in Parents
    BY <2>1 DEF SharedRow, Row, Parents
  <2> QED  BY <2>2 DEF SharedRow, Row
<1> HIDE DEF row
<1>3. R \in Tables /\ R \in SharedTables(to, s)
  BY <1>1 DEF SharedTables
<1> DEFINE M == Added(R, <<to, c>>, row)
<1>4. /\ M \in Tables /\ DOMAIN M = DOMAIN R \cup {<<to, c>>}
      /\ \A y \in DOMAIN M : M[y] = IF y = <<to, c>> THEN row ELSE R[y]
  BY <1>2, <1>3, AddedIs
<1> HIDE DEF M
<1>5. Shuffled(M, Q)
  BY <1>1, <1>4, SavedMoves DEF M
<1>6. Q \in Tables /\ DOMAIN Q = DOMAIN M /\ \A x \in DOMAIN M : Q[x].state = M[x].state
  BY <1>5 DEF Shuffled
<1>7. ASSUME NEW x \in DOMAIN Q
      PROVE  \/ x \in DOMAIN rows /\ Q[x].state = rows[x].state
             \/ x[1] = to /\ Q[x].state = s
  <2>1. CASE x = <<to, c>>
    BY <1>2, <1>4, <1>6, <2>1
  <2>2. CASE x # <<to, c>>
    <3>1. x \in DOMAIN R /\ Q[x].state = R[x].state
      BY <1>4, <1>6, <2>2
    <3> QED  BY <1>3, <3>1 DEF SharedTables
  <2> QED  BY <2>1, <2>2
<1>8. DOMAIN rows \subseteq DOMAIN Q
  BY <1>3, <1>4, <1>6 DEF SharedTables
<1> QED  BY <1>6, <1>7, <1>8 DEF SharedTables

LEMMA ShareIs ==
    ASSUME NEW t \in Tasks, NEW from \in Folders, NEW to \in Folders, NEW s \in States, rows \in Tables,
           Share(t, from, to, s)
    PROVE  rows' \in SharedTables(to, s)
<1> DEFINE tree == Tree(from, t)
           A == SharedTables(to, s)
<1>1. tree \subseteq Tasks /\ \A c \in tree : c = t \/ <<from, c>> \in DOMAIN rows
  BY TreeIs
<1>2. PICK v \in Bijection(1..Cardinality(tree), tree) :
         rows' \in LET go[i \in 0..Len(v)] == IF i = 0 THEN {rows} ELSE SharedIn(go[i - 1], v[i], t, from, to, s)
                   IN  go[Len(v)]
  BY DEF Share, SharedIn, SharedRow
<1> HIDE DEF tree
<1>3. IsFiniteSet(tree)
  BY <1>1, FiniteAssumption, FS_Subset
<1> DEFINE K == Cardinality(tree)
<1>4. K \in Nat
  BY <1>3, FS_CardinalityType
<1> HIDE DEF K
<1>5. v \in [1..K -> tree] /\ Len(v) = K
  <2>1. v \in [1..K -> tree]
    BY <1>2 DEF K, Bijection, Injection
  <2> QED  BY <1>4, <2>1
<1> DEFINE V == [i \in 1..K |-> [Rs \in SUBSET A |-> SharedIn(Rs, v[i], t, from, to, s)]]
<1>6. ASSUME NEW i \in 1..K, NEW Rs \in SUBSET A
      PROVE  SharedIn(Rs, v[i], t, from, to, s) \in SUBSET A
  <2>1. v[i] \in Tasks /\ (v[i] = t \/ <<from, v[i]>> \in DOMAIN rows)
    BY <1>1, <1>5
  <2> HIDE DEF A
  <2>2. Rs \subseteq SharedTables(to, s)
    BY DEF A
  <2> QED  BY <2>1, <2>2, ShareSaves DEF A
<1> HIDE DEF A
<1>7. V \in Rules(SUBSET A, K)
  BY <1>6 DEF Rules
<1>8. {rows} \in SUBSET A
  BY DEF A, SharedTables
<1>9. PICK g \in [0..K -> SUBSET A] : g[0] = {rows} /\ \A n \in 1..K : g[n] = V[n][g[n - 1]]
  <2> DEFINE D == SUBSET A
             a == {rows}
  <2>1. K \in Nat /\ V \in Rules(D, K) /\ a \in D
    BY <1>4, <1>7, <1>8
  <2> HIDE DEF V, D, a
  <2>2. \E g \in [0..K -> D] : g[0] = a /\ \A n \in 1..K : g[n] = V[n][g[n - 1]]
    BY SMTT(60), <2>1, Iterates
  <2> QED  BY <2>2 DEF D, a
<1>10. \A n \in 1..K : g[n] = SharedIn(g[n - 1], v[n], t, from, to, s)
  <2>1. \A n \in 1..K : g[n - 1] \in SUBSET A
    BY <1>4, <1>9
  <2> QED  BY <1>9, <2>1
<1> HIDE DEF V
<1> DEFINE Grows(h) == h = [i \in 0..Len(v) |-> IF i = 0 THEN {rows} ELSE SharedIn(h[i - 1], v[i], t, from, to, s)]
           go == CHOOSE h : Grows(h)
<1>11. Grows(g)
  BY <1>4, <1>5, <1>9, <1>10
<1>12. Grows(go)
  <2> HIDE DEF Grows
  <2> QED  BY <1>11
<1>13. rows' \in go[K]
  BY <1>2, <1>5
<1> HIDE DEF go
<1>14. go[0] = {rows} /\ \A i \in 1..K : go[i] = SharedIn(go[i - 1], v[i], t, from, to, s)
  <2>1. go = [i \in 0..K |-> IF i = 0 THEN {rows} ELSE SharedIn(go[i - 1], v[i], t, from, to, s)]
    BY <1>12, <1>5
  <2>2. \A i \in 0..K : go[i] = IF i = 0 THEN {rows} ELSE SharedIn(go[i - 1], v[i], t, from, to, s)
    BY <2>1
  <2> QED  BY <1>4, <2>2
<1> HIDE DEF Grows
<1> DEFINE Q == {i \in 0..K : go[i] \in SUBSET A}
<1>15. 0 \in Q /\ Q \in SUBSET (0..K)
  BY <1>4, <1>8, <1>14
<1>16. ASSUME NEW n \in 1..K, n - 1 \in Q  PROVE n \in Q
  <2>1. go[n - 1] \in SUBSET A
    BY <1>16
  <2>2. go[n] \in SUBSET A
    BY <2>1, <1>6, <1>14
  <2> QED  BY <2>2
<1>17. Q = 0..K
  <2> HIDE DEF Q
  <2> QED  BY <1>4, <1>15, <1>16, UpTo
<1>18. go[K] \in SUBSET A
  BY <1>4, <1>17
<1> QED  BY <1>13, <1>18 DEF A

-----------------------------------------------------------------------------
(* The calls: each keeps the types, and the board of the tasks it does not name. *)

Stay == \A x \in DOMAIN rows \cap DOMAIN rows' :
           columns[rows[x].state].of = flow[x[1]] => columns'[rows'[x].state].of = flow'[x[1]]

LEMMA FlowsStay ==
    ASSUME TypeOK, UNCHANGED flows, rows' \in Tables, \A x \in DOMAIN rows' : rows'[x].state \in DOMAIN columns
    PROVE  TypeOK'
BY DEF TypeOK, flows, Tables

LEMMA CreateStep ==
    ASSUME TypeOK, NEW t \in Tasks, NEW f \in Folders, NEW p \in Parents, NEW s \in DOMAIN columns, NEW k \in Nat,
           Create(t, f, p, s, k)
    PROVE  TypeOK' /\ Stay
<1> DEFINE row == [parent |-> p, state |-> s, index |-> k, stateIndex |-> 0]
           M == Added(rows, <<f, t>>, row)
<1>1. rows \in Tables /\ s \in States /\ \A x \in DOMAIN rows : rows[x].state \in DOMAIN columns
  BY TypeIs
<1>2. rows' \in Saved(M, f, t, k) /\ UNCHANGED flows /\ \A x \in DOMAIN rows : x[2] # t
  BY DEF Create
<1>3. row \in Row /\ row.state = s
  BY <1>1 DEF Row
<1> HIDE DEF row
<1>4. /\ M \in Tables /\ DOMAIN M = DOMAIN rows \cup {<<f, t>>}
      /\ \A y \in DOMAIN M : M[y] = IF y = <<f, t>> THEN row ELSE rows[y]
  BY <1>1, <1>3, AddedIs
<1> HIDE DEF M
<1>5. Shuffled(M, rows')
  BY <1>2, <1>4, SavedMoves
<1>6. rows' \in Tables /\ DOMAIN rows' = DOMAIN M /\ \A x \in DOMAIN M : rows'[x].state = M[x].state
  BY <1>5 DEF Shuffled
<1>7. \A x \in DOMAIN rows' : rows'[x].state = IF x = <<f, t>> THEN s ELSE rows[x].state
  BY <1>3, <1>4, <1>6
<1>8. \A x \in DOMAIN rows' : rows'[x].state \in DOMAIN columns
  BY <1>1, <1>4, <1>6, <1>7
<1>9. TypeOK'
  BY <1>2, <1>6, <1>8, FlowsStay
<1>10. \A x \in DOMAIN rows : rows'[x].state = rows[x].state
  BY <1>2, <1>4, <1>6, <1>7
<1> QED  BY <1>2, <1>9, <1>10 DEF Stay, flows

LEMMA PositionStep ==
    ASSUME TypeOK, NEW t \in Tasks, NEW f \in Folders, NEW u, NEW to \in DOMAIN columns, NEW k \in Nat,
           NEW board \in BOOLEAN, MayTake(t, f, u, to), UNCHANGED flows,
           NEW R \in Columned(f, t, to, k, board),
           rows' = R \/ \E new \in Parents : rows' \in Hung(R, f, t, k, new)
    PROVE  TypeOK' /\ Stay
<1>1. rows \in Tables /\ to \in States /\ \A x \in DOMAIN rows : rows[x].state \in DOMAIN columns
  BY TypeIs
<1>2. /\ <<f, t>> \in DOMAIN rows /\ UNCHANGED flows
      /\ to # rows[<<f, t>>].state => <<rows[<<f, t>>].state, to>> \in lanes
  BY DEF MayTake
<1>4. /\ R \in Tables /\ DOMAIN R = DOMAIN rows
      /\ \A x \in DOMAIN rows : R[x].state = IF x = <<f, t>> THEN to ELSE rows[x].state
  BY <1>1, <1>2, ColumnedIs
<1>5. /\ rows' \in Tables /\ DOMAIN rows' = DOMAIN R
      /\ \A x \in DOMAIN R : rows'[x].state = R[x].state
  BY <1>2, <1>4, HungIs
<1>6. \A x \in DOMAIN rows' : rows'[x].state \in DOMAIN columns
  BY <1>1, <1>4, <1>5
<1>7. TypeOK'
  BY <1>2, <1>5, <1>6, FlowsStay
<1>8. columns[to].of = columns[rows[<<f, t>>].state].of
  BY <1>2 DEF TypeOK
<1>9. \A x \in DOMAIN rows : columns[rows'[x].state].of = columns[rows[x].state].of
  BY <1>4, <1>5, <1>8
<1> QED  BY <1>2, <1>5, <1>7, <1>9 DEF Stay, flows

LEMMA MoveStep ==
    ASSUME TypeOK, NEW t \in Tasks, NEW from \in Folders, NEW to \in Folders, NEW s \in DOMAIN columns,
           MoveBetweenFolders(t, from, to, s)
    PROVE  TypeOK' /\ Stay
<1> DEFINE tree == Tree(from, t)
           gone == {from} \X tree
           put == {to} \X tree
           new(c) == [rows[<<from, c>>] EXCEPT !.state = s, !.stateIndex = columns[s].at,
                                               !.parent = IF c = t THEN None ELSE @]
<1>1. /\ <<from, t>> \in DOMAIN rows /\ UNCHANGED flows
      /\ \A c \in tree : <<to, c>> \notin DOMAIN rows
      /\ rows' = [x \in (DOMAIN rows \ gone) \cup put |-> IF x \in put THEN new(x[2]) ELSE rows[x]]
  BY DEF MoveBetweenFolders
<1>2. tree \subseteq Tasks /\ \A c \in tree : <<from, c>> \in DOMAIN rows
  BY <1>1, TreeIs
<1> HIDE DEF tree
<1>3. /\ DOMAIN rows \subseteq Folders \X Tasks /\ \A x \in DOMAIN rows : rows[x] \in Row /\ rows[x].state \in DOMAIN columns
      /\ s \in States /\ columns[s].at \in Nat
  BY TypeIs, TableIs
<1>4. ASSUME NEW c \in tree  PROVE new(c) \in Row /\ new(c).state = s
  <2> DEFINE r == rows[<<from, c>>]
             n == columns[s].at
             p == IF c = t THEN None ELSE r.parent
  <2>1. r \in Row /\ n \in Int
    BY <1>2, <1>3
  <2>2. p \in Parents
    BY <2>1 DEF Row, Parents
  <2>3. new(c) = [r EXCEPT !.state = s, !.stateIndex = n, !.parent = p]
    OBVIOUS
  <2> HIDE DEF r, n, p, new
  <2> QED  BY <1>3, <2>1, <2>2, <2>3 DEF Row
<1> HIDE DEF new
<1>5. /\ DOMAIN rows' = (DOMAIN rows \ gone) \cup put
      /\ \A x \in DOMAIN rows' : rows'[x] = IF x \in put THEN new(x[2]) ELSE rows[x]
      /\ rows' = [x \in DOMAIN rows' |-> rows'[x]]
  BY <1>1
<1>6. \A x \in put : x[2] \in tree
  OBVIOUS
<1>7. \A x \in DOMAIN rows' : rows'[x] \in Row /\ rows'[x].state \in DOMAIN columns
  BY <1>3, <1>4, <1>5, <1>6
<1>8. rows' \in Tables
  <2>1. DOMAIN rows' \subseteq Folders \X Tasks
    BY <1>2, <1>3, <1>5
  <2> QED  BY <1>5, <1>7, <2>1, TableIs
<1>9. TypeOK'
  BY <1>1, <1>7, <1>8, FlowsStay
<1>10. \A x \in DOMAIN rows \cap DOMAIN rows' : rows'[x] = rows[x]
  <2>1. \A x \in put : x \notin DOMAIN rows
    BY <1>1
  <2> QED  BY <1>5, <2>1
<1> QED  BY <1>1, <1>9, <1>10 DEF Stay, flows

LEMMA ShareStep ==
    ASSUME TypeOK, NEW t \in Tasks, NEW from \in Folders, NEW to \in Folders, NEW s \in DOMAIN columns,
           Share(t, from, to, s)
    PROVE  /\ TypeOK'
           /\ UNCHANGED flows
           /\ Stay
<1>1. rows \in Tables /\ s \in States /\ \A x \in DOMAIN rows : rows[x].state \in DOMAIN columns
  BY TypeIs
<1>2. rows' \in SharedTables(to, s)
  BY <1>1, ShareIs
<1>3. UNCHANGED flows
  BY DEF Share
<1>4. rows' \in Tables /\ \A x \in DOMAIN rows' : rows'[x].state \in DOMAIN columns
  BY <1>1, <1>2 DEF SharedTables
<1>5. TypeOK'
  BY <1>3, <1>4, FlowsStay
<1>6. ASSUME NEW x \in DOMAIN rows \cap DOMAIN rows'
      PROVE  rows'[x] = rows[x] \/ columns'[rows'[x].state].of = flow'[x[1]]
  BY DEF Share, Checked, OnBoard
<1>7. Stay
  BY <1>3, <1>6 DEF Stay, flows
<1> QED  BY <1>3, <1>5, <1>7

(* The states a workflow gets. *)
LEMMA NewColumnsAre ==
    ASSUME NEW w, NEW q \in NewStates
    PROVE  /\ Range(q) \subseteq States \ DOMAIN columns
           /\ \A s \in Range(q) : NewColumns(w, q)[s].of = w /\ NewColumns(w, q)[s] \in [of : {w}, at : Nat]
<1>1. PICK n \in 1..MaxColumns : q \in [1..n -> States \ DOMAIN columns]
  BY DEF NewStates
<1>2. Range(q) \subseteq States \ DOMAIN columns
  BY <1>1 DEF Range
<1>3. ASSUME NEW s \in Range(q)  PROVE AntiFunction(q)[s] \in 1..n
  <2>1. AntiFunction(q)[s] = CHOOSE i \in DOMAIN q : s \in Range(q) => q[i] = s
    BY DEF AntiFunction, Inverse
  <2>2. \E i \in DOMAIN q : q[i] = s
    BY DEF Range
  <2>3. AntiFunction(q)[s] \in DOMAIN q
    BY <2>1, <2>2
  <2> QED  BY <1>1, <2>3
<1>4. n \in Nat
  BY BoundsAssumption
<1>5. \A s \in Range(q) : AntiFunction(q)[s] - 1 \in Nat
  BY <1>3, <1>4
<1> QED  BY <1>2, <1>5 DEF NewColumns

(* A workflow more, or another definition of it: old are the columns that leave. *)
Redefined(w, q, old) ==
    columns' = [s \in (DOMAIN columns \ old) \cup Range(q) |->
                   IF s \in Range(q) THEN NewColumns(w, q)[s] ELSE columns[s]]
Become(w, q, old) ==
    /\ DOMAIN columns' = (DOMAIN columns \ old) \cup Range(q) /\ DOMAIN columns' \subseteq States
    /\ Range(q) \cap DOMAIN columns = {}
    /\ \A s \in Range(q) : columns'[s].of = w
    /\ \A s \in DOMAIN columns \ old : columns'[s] = columns[s]
    /\ columns' \in [DOMAIN columns' -> [of : DOMAIN owner \cup {w}, at : Nat]]

LEMMA ColumnsBecome ==
    ASSUME NEW w, NEW q \in NewStates, NEW old, TypeOK, Redefined(w, q, old)
    PROVE  Become(w, q, old)
<1> DEFINE C == (DOMAIN columns \ old) \cup Range(q)
           at(s) == IF s \in Range(q) THEN NewColumns(w, q)[s] ELSE columns[s]
<1>1. /\ Range(q) \subseteq States \ DOMAIN columns
      /\ \A s \in Range(q) : NewColumns(w, q)[s].of = w /\ NewColumns(w, q)[s] \in [of : {w}, at : Nat]
  BY NewColumnsAre
<1>2. columns' = [s \in C |-> at(s)]
  BY DEF Redefined
<1>3. \A s \in DOMAIN columns : s \in States /\ columns[s] \in [of : DOMAIN owner, at : Nat]
  BY TypeIs
<1>4. ASSUME NEW s \in C  PROVE at(s) \in [of : DOMAIN owner \cup {w}, at : Nat]
  BY <1>1, <1>3
<1>5. /\ \A s \in Range(q) : at(s) = NewColumns(w, q)[s]
      /\ \A s \in DOMAIN columns \ old : at(s) = columns[s]
  BY <1>1
<1>6. C \subseteq States
  BY <1>1, <1>3
<1> HIDE DEF at
<1>7. DOMAIN columns' = C /\ \A s \in C : columns'[s] = at(s)
  BY <1>2
<1>8. columns' \in [C -> [of : DOMAIN owner \cup {w}, at : Nat]]
  BY <1>2, <1>4
<1>9. Range(q) \cap DOMAIN columns = {}
  BY <1>1
<1>10. \A s \in Range(q) : columns'[s].of = w
  BY <1>1, <1>5, <1>7
<1>11. \A s \in DOMAIN columns \ old : columns'[s] = columns[s]
  BY <1>5, <1>7
<1> QED  BY <1>6, <1>7, <1>8, <1>9, <1>10, <1>11 DEF Become

LEMMA NewLanesAre ==
    ASSUME NEW q, NEW names
    PROVE  NewLanes(q, names) \subseteq Range(q) \X Range(q)
BY DEF NewLanes

LEMMA CreateWorkflowStep ==
    ASSUME TypeOK, NEW w \in Workflows, NEW by \in Users \cup {None}, NEW q \in NewStates, NEW names,
           NEW constrained, CreateWorkflow(w, by, q, names, constrained)
    PROVE  TypeOK' /\ Stay
<1> DEFINE L == NewLanes(q, names)
<1>1. /\ w \notin DOMAIN owner
      /\ owner' = [v \in DOMAIN owner \cup {w} |-> IF v = w THEN by ELSE owner[v]]
      /\ lanes' = lanes \cup L
      /\ guarded' = guarded \cup {l \in L : l[2] \in constrained}
      /\ UNCHANGED <<offered, flow, rows>>
  BY DEF CreateWorkflow
<1>2. Redefined(w, q, {})
  <2>1. DOMAIN columns \ {} = DOMAIN columns
    OBVIOUS
  <2> QED  BY <2>1 DEF CreateWorkflow, Redefined
<1>3. /\ DOMAIN columns' = DOMAIN columns \cup Range(q) /\ DOMAIN columns' \subseteq States
      /\ \A s \in Range(q) : columns'[s].of = w
      /\ \A s \in DOMAIN columns : columns'[s] = columns[s]
      /\ columns' \in [DOMAIN columns' -> [of : DOMAIN owner \cup {w}, at : Nat]]
  <2>1. Become(w, q, {})
    BY <1>2, ColumnsBecome
  <2> QED  BY <2>1 DEF Become
<1>4. L \subseteq Range(q) \X Range(q)
  BY NewLanesAre
<1> HIDE DEF L
<1>5. /\ owner \in [DOMAIN owner -> Users \cup {None}] /\ DOMAIN owner \subseteq Workflows
      /\ lanes \subseteq (DOMAIN columns) \X (DOMAIN columns)
      /\ \A l \in lanes : columns[l[1]].of = columns[l[2]].of
      /\ guarded \subseteq lanes /\ offered \subseteq DOMAIN owner
      /\ flow \in [Folders -> DOMAIN owner]
      /\ rows \in [DOMAIN rows -> Row] /\ DOMAIN rows \subseteq Folders \X Tasks
      /\ \A x \in DOMAIN rows : rows[x].state \in DOMAIN columns
  BY DEF TypeOK
<1>6. owner' \in [DOMAIN owner' -> Users \cup {None}] /\ DOMAIN owner' = DOMAIN owner \cup {w}
  BY <1>1, <1>5
<1>7. \A l \in lanes' : columns'[l[1]].of = columns'[l[2]].of
  <2>1. \A l \in L : columns'[l[1]].of = columns'[l[2]].of
    BY <1>3, <1>4
  <2>2. \A l \in lanes : columns'[l[1]].of = columns'[l[2]].of
    BY <1>3, <1>5
  <2> QED  BY <1>1, <2>1, <2>2
<1>8. lanes' \subseteq (DOMAIN columns') \X (DOMAIN columns') /\ guarded' \subseteq lanes'
  BY <1>1, <1>3, <1>4, <1>5
<1>9. flow' \in [Folders -> DOMAIN owner'] /\ offered' \subseteq DOMAIN owner' /\ DOMAIN owner' \subseteq Workflows
  BY <1>1, <1>5, <1>6
<1>10. /\ rows' \in [DOMAIN rows' -> Row] /\ DOMAIN rows' \subseteq Folders \X Tasks
       /\ \A x \in DOMAIN rows' : rows'[x].state \in DOMAIN columns'
  BY <1>1, <1>3, <1>5
<1>11. columns' \in [DOMAIN columns' -> [of : DOMAIN owner', at : Nat]] /\ DOMAIN columns' \subseteq States
  BY <1>3, <1>6
<1>12. TypeOK'
  BY <1>6, <1>7, <1>8, <1>9, <1>10, <1>11 DEF TypeOK
<1>13. Stay
  BY <1>1, <1>3, <1>5 DEF Stay
<1> QED  BY <1>12, <1>13

LEMMA CopyStep ==
    ASSUME TypeOK, NEW w \in Workflows, NEW v, NEW u, NEW q \in NewStates, CreateCommonFromPersonalise(w, v, u, q)
    PROVE  TypeOK' /\ Stay
<1>1. \E names : CreateWorkflow(w, None, q, names, {})
  BY DEF CreateCommonFromPersonalise
<1> QED  BY <1>1, CreateWorkflowStep

LEMMA DeleteWorkflowStep ==
    ASSUME TypeOK, NEW w \in Workflows, DeleteWorkflow(w)
    PROVE  TypeOK' /\ Stay
<1> DEFINE old == ColumnsOf(w)
<1>1. /\ \A f \in Folders : flow[f] # w
      /\ w \notin offered
      /\ \A x \in DOMAIN rows : rows[x].state \notin old
      /\ \A l \in guarded : l[1] \notin old
      /\ lanes' = {l \in lanes : l[1] \notin old}
      /\ UNCHANGED <<guarded, offered, flow, rows>>
  BY DEF DeleteWorkflow
<1>2. /\ DOMAIN owner' = DOMAIN owner \ {w} /\ \A v \in DOMAIN owner' : owner'[v] = owner[v]
      /\ DOMAIN columns' = DOMAIN columns \ old /\ \A s \in DOMAIN columns' : columns'[s] = columns[s]
      /\ owner' = [v \in DOMAIN owner' |-> owner'[v]] /\ columns' = [s \in DOMAIN columns' |-> columns'[s]]
  BY DEF DeleteWorkflow, Restrict
<1>3. /\ owner \in [DOMAIN owner -> Users \cup {None}] /\ DOMAIN owner \subseteq Workflows
      /\ columns \in [DOMAIN columns -> [of : DOMAIN owner, at : Nat]] /\ DOMAIN columns \subseteq States
      /\ lanes \subseteq (DOMAIN columns) \X (DOMAIN columns)
      /\ \A l \in lanes : columns[l[1]].of = columns[l[2]].of
      /\ guarded \subseteq lanes /\ offered \subseteq DOMAIN owner
      /\ flow \in [Folders -> DOMAIN owner]
      /\ rows \in [DOMAIN rows -> Row] /\ DOMAIN rows \subseteq Folders \X Tasks
      /\ \A x \in DOMAIN rows : rows[x].state \in DOMAIN columns
  BY DEF TypeOK
<1>4. \A s \in DOMAIN columns : s \in old <=> columns[s].of = w
  BY DEF ColumnsOf
<1> HIDE DEF old
<1>5. owner' \in [DOMAIN owner' -> Users \cup {None}] /\ DOMAIN owner' \subseteq Workflows
  BY <1>2, <1>3
<1>6. columns' \in [DOMAIN columns' -> [of : DOMAIN owner', at : Nat]] /\ DOMAIN columns' \subseteq States
  <2>1. ASSUME NEW s \in DOMAIN columns'  PROVE columns'[s] \in [of : DOMAIN owner', at : Nat]
    BY <1>2, <1>3, <1>4
  <2> QED  BY <1>2, <1>3, <2>1
<1>7. lanes' \subseteq (DOMAIN columns') \X (DOMAIN columns') /\ \A l \in lanes' : columns'[l[1]].of = columns'[l[2]].of
  BY <1>1, <1>2, <1>3, <1>4
<1>8. guarded' \subseteq lanes' /\ offered' \subseteq DOMAIN owner' /\ flow' \in [Folders -> DOMAIN owner']
  BY <1>1, <1>2, <1>3
<1>9. /\ rows' \in [DOMAIN rows' -> Row] /\ DOMAIN rows' \subseteq Folders \X Tasks
      /\ \A x \in DOMAIN rows' : rows'[x].state \in DOMAIN columns'
  BY <1>1, <1>2, <1>3
<1>10. TypeOK'
  BY <1>5, <1>6, <1>7, <1>8, <1>9 DEF TypeOK
<1>11. Stay
  BY <1>1, <1>2, <1>3 DEF Stay
<1> QED  BY <1>10, <1>11

LEMMA UpdateSpaceStep ==
    ASSUME TypeOK, NEW add, NEW drop, UpdateSpaceWorkflows(add, drop)
    PROVE  TypeOK' /\ Stay
BY DEF TypeOK, Stay, UpdateSpaceWorkflows

LEMMA ChangeWorkflowStep ==
    ASSUME TypeOK, NEW f \in Folders, NEW w \in Workflows, NEW u, NEW mapping \in CodeMaps(f, w),
           ChangeWorkflow(f, w, u, mapping)
    PROVE  TypeOK' /\ (mapping # << >> => Stay)
<1> DEFINE mapped == {x \in DOMAIN rows : x[1] = f /\ OnBoard(x) /\ mapping # << >>}
<1>1. /\ w \in DOMAIN owner /\ \A x \in mapped : rows[x].state \in DOMAIN mapping
      /\ flow' = [flow EXCEPT ![f] = w]
      /\ rows' = [x \in DOMAIN rows |-> IF x \in mapped THEN [rows[x] EXCEPT !.state = mapping[@]] ELSE rows[x]]
      /\ UNCHANGED <<owner, columns, lanes, guarded, offered>>
  BY DEF ChangeWorkflow
<1>2. mapping \in [DOMAIN mapping -> ColumnsOf(w)]
  BY DEF CodeMaps
<1>3. \A s \in ColumnsOf(w) : s \in DOMAIN columns /\ s \in States /\ columns[s].of = w
  BY DEF ColumnsOf, TypeOK
<1>4. rows \in [DOMAIN rows -> Row] /\ \A x \in DOMAIN rows : rows[x].state \in DOMAIN columns
  BY DEF TypeOK
<1>5. \A x \in DOMAIN rows : x \in mapped <=> x[1] = f /\ columns[rows[x].state].of = flow[f] /\ mapping # << >>
  BY DEF OnBoard
<1> HIDE DEF mapped
<1>6. ASSUME NEW x \in DOMAIN rows
      PROVE  /\ rows'[x] \in Row /\ rows'[x].state \in DOMAIN columns
             /\ x \in mapped => columns[rows'[x].state].of = w
             /\ x \notin mapped => rows'[x] = rows[x]
  <2>1. CASE x \in mapped
    <3> DEFINE s == mapping[rows[x].state]
    <3>1. s \in ColumnsOf(w) /\ rows[x] \in Row
      BY <1>1, <1>2, <1>4, <2>1
    <3>2. rows'[x] = [rows[x] EXCEPT !.state = s]
      BY <1>1, <2>1
    <3> HIDE DEF s
    <3> QED  BY <1>3, <2>1, <3>1, <3>2 DEF Row
  <2>2. CASE x \notin mapped
    BY <1>1, <1>4, <2>2
  <2> QED  BY <2>1, <2>2
<1>7. DOMAIN rows' = DOMAIN rows /\ rows' \in [DOMAIN rows' -> Row]
  <2>1. rows' = [x \in DOMAIN rows |-> rows'[x]]
    BY <1>1
  <2> QED  BY <1>6, <2>1
<1>8. TypeOK'
  BY <1>1, <1>6, <1>7 DEF TypeOK
<1>9. ASSUME mapping # << >>  PROVE Stay
  <2>1. flow \in [Folders -> DOMAIN owner] /\ DOMAIN rows \subseteq Folders \X Tasks
    BY DEF TypeOK
  <2>2. \A g \in Folders : flow'[g] = IF g = f THEN w ELSE flow[g]
    BY <1>1, <2>1
  <2>3. \A x \in DOMAIN rows : x[1] \in Folders
    BY <2>1
  <2> QED  BY <1>1, <1>5, <1>6, <1>9, <2>2, <2>3 DEF Stay
<1> QED  BY <1>8, <1>9

(* What the mapping of a new definition of a workflow does to the states of rows. *)
RemappedTables(old, new) ==
    {R \in [DOMAIN rows -> Row] : \A x \in DOMAIN rows :
        R[x].state = rows[x].state \/ R[x].state \in new}

LEMMA RemapStays ==
    ASSUME NEW old, NEW new \in SUBSET States, new \cap old = {},
           NEW R \in RemappedTables(old, new),
           NEW m, m[2] \in new
    PROVE  Remapped(R, m, old) \in RemappedTables(old, new)
<1> DEFINE Q == Remapped(R, m, old)
<1>1. R \in [DOMAIN rows -> Row] /\ DOMAIN R = DOMAIN rows
  BY DEF RemappedTables
<1>2. Q = [x \in DOMAIN rows |-> IF m[1] \notin old \/ R[x].state = m[1] THEN [R[x] EXCEPT !.state = m[2]] ELSE R[x]]
  BY <1>1 DEF Remapped
<1> HIDE DEF Q
<1>3. ASSUME NEW x \in DOMAIN rows
      PROVE  /\ Q[x] \in Row
             /\ Q[x].state = rows[x].state \/ Q[x].state \in new
  <2>1. R[x] \in Row /\ (R[x].state = rows[x].state \/ R[x].state \in new)
    BY <1>1 DEF RemappedTables
  <2>2. CASE m[1] \notin old \/ R[x].state = m[1]
    <3>1. Q[x] = [R[x] EXCEPT !.state = m[2]]
      BY <1>2, <2>2
    <3>2. Q[x] \in Row /\ Q[x].state = m[2]
      BY <2>1, <3>1 DEF Row
    <3> QED  BY <3>2
  <2>3. CASE ~(m[1] \notin old \/ R[x].state = m[1])
    BY <1>2, <2>1, <2>3
  <2> QED  BY <2>2, <2>3
<1>4. Q \in [DOMAIN rows -> Row]
  BY <1>2, <1>3
<1> QED  BY <1>3, <1>4 DEF RemappedTables, Q

LEMMA MappingIs ==
    ASSUME NEW w, NEW q, NEW mapping \in Mappings(w, q)
    PROVE  \E n \in Nat : /\ mapping \in [1..n -> (ColumnsOf(w) \cup {None}) \X Range(q)]
                          /\ DOMAIN mapping = 1..n
<1>1. PICK n \in 0..Cardinality(ColumnsOf(w)) : mapping \in [1..n -> (ColumnsOf(w) \cup {None}) \X Range(q)]
  BY DEF Mappings
<1>2. n \in Nat
  OBVIOUS
<1> QED  BY <1>1, <1>2

LEMMA UpdateWorkflowRows ==
    ASSUME TypeOK, NEW w \in Workflows, NEW q \in NewStates, NEW names, NEW constrained, NEW mapping \in Mappings(w, q),
           UpdateWorkflow(w, q, names, constrained, mapping)
    PROVE  rows' \in RemappedTables(ColumnsOf(w), Range(q))
<1> DEFINE old == ColumnsOf(w)
           D == [DOMAIN rows -> Row]
           V == [i \in DOMAIN mapping |-> [R \in D |-> Remapped(R, mapping[i], old)]]
           Q == RemappedTables(old, Range(q))
<1>1. rows' = Loop(V, rows)
  BY DEF UpdateWorkflow
<1>2. PICK K \in Nat : mapping \in [1..K -> (old \cup {None}) \X Range(q)] /\ DOMAIN mapping = 1..K
  BY MappingIs
<1>3. Range(q) \in SUBSET States /\ Range(q) \cap old = {}
  BY NewColumnsAre DEF ColumnsOf
<1>4. \A n \in 1..K : mapping[n][2] \in Range(q)
  BY <1>2
<1>5. rows \in D /\ rows \in Q
  BY DEF TypeOK, RemappedTables
<1>6. ASSUME NEW n \in 1..K, NEW R \in D  PROVE Remapped(R, mapping[n], old) \in D
  <2>1. mapping[n][2] \in States
    BY <1>3, <1>4
  <2> DEFINE s == mapping[n][2]
             b(x) == mapping[n][1] \notin old \/ R[x].state = mapping[n][1]
  <2>2. \A x \in DOMAIN rows : R[x] \in Row /\ [R[x] EXCEPT !.state = s] \in Row
    <3> HIDE DEF s
    <3> QED  BY <2>1 DEF s, Row
  <2>3. Remapped(R, mapping[n], old) = [x \in DOMAIN rows |-> IF b(x) THEN [R[x] EXCEPT !.state = s] ELSE R[x]]
    BY DEF Remapped
  <2> HIDE DEF s, b
  <2> QED  BY <2>2, <2>3
<1>7. ASSUME NEW n \in 1..K, NEW R \in D \cap Q  PROVE Remapped(R, mapping[n], old) \in Q
  <2>1. mapping[n][2] \in Range(q) /\ Range(q) \cap old = {} /\ Range(q) \in SUBSET States
    BY <1>3, <1>4
  <2> HIDE DEF D, old
  <2> QED  BY <2>1, RemapStays
<1> HIDE DEF old, D, Q
<1>8. V = [i \in 1..K |-> [R \in D |-> Remapped(R, mapping[i], old)]]
  BY <1>2
<1>9. V \in Rules(D, K) /\ \A n \in 1..K, R \in D : V[n][R] = Remapped(R, mapping[n], old)
  BY <1>6, <1>8 DEF Rules
<1> HIDE DEF V
<1>10. rows \in D \cap Q /\ \A n \in 1..K, R \in D \cap Q : V[n][R] \in Q
  BY <1>5, <1>7, <1>9
<1>11. Loop(V, rows) \in D \cap Q
  BY <1>9, <1>10, LoopStays
<1> QED  BY <1>1, <1>11 DEF Q, old

LEMMA UpdateWorkflowStep ==
    ASSUME TypeOK, NEW w \in Workflows, NEW q \in NewStates, NEW names, NEW constrained, NEW mapping \in Mappings(w, q),
           UpdateWorkflow(w, q, names, constrained, mapping)
    PROVE  TypeOK' /\ Stay
<1> DEFINE old == ColumnsOf(w)
           L == NewLanes(q, names)
           kept == {l \in lanes : l[1] \notin old}
<1>1. /\ w \in DOMAIN owner
      /\ \A x \in DOMAIN rows' : rows'[x].state \notin old
      /\ columns' = [s \in (DOMAIN columns \ old) \cup Range(q) |->
                        IF s \in Range(q) THEN NewColumns(w, q)[s] ELSE columns[s]]
      /\ lanes' = kept \cup L
      /\ guarded' = (guarded \cap kept) \cup {l \in L : l[2] \in constrained}
      /\ UNCHANGED <<owner, offered, flow>>
  BY DEF UpdateWorkflow
<1>2. rows' \in RemappedTables(old, Range(q))
  BY UpdateWorkflowRows
<1>3. \A s \in DOMAIN columns : s \in old <=> columns[s].of = w
  BY DEF ColumnsOf
<1>4. L \subseteq Range(q) \X Range(q)
  BY NewLanesAre
<1> HIDE DEF old, L
<1>5. /\ DOMAIN columns' = (DOMAIN columns \ old) \cup Range(q) /\ DOMAIN columns' \subseteq States
      /\ Range(q) \cap DOMAIN columns = {}
      /\ \A s \in Range(q) : columns'[s].of = w
      /\ \A s \in DOMAIN columns \ old : columns'[s] = columns[s]
      /\ columns' \in [DOMAIN columns' -> [of : DOMAIN owner \cup {w}, at : Nat]]
  <2>1. Redefined(w, q, old)
    BY <1>1 DEF Redefined
  <2>2. Become(w, q, old)
    BY <2>1, ColumnsBecome
  <2> QED  BY <2>2 DEF Become
<1>6. /\ owner \in [DOMAIN owner -> Users \cup {None}] /\ DOMAIN owner \subseteq Workflows
      /\ lanes \subseteq (DOMAIN columns) \X (DOMAIN columns)
      /\ \A l \in lanes : columns[l[1]].of = columns[l[2]].of
      /\ guarded \subseteq lanes /\ offered \subseteq DOMAIN owner
      /\ flow \in [Folders -> DOMAIN owner]
      /\ rows \in [DOMAIN rows -> Row] /\ DOMAIN rows \subseteq Folders \X Tasks
      /\ \A x \in DOMAIN rows : rows[x].state \in DOMAIN columns
  BY DEF TypeOK
<1>7. \A l \in kept : l[1] \in DOMAIN columns \ old /\ l[2] \in DOMAIN columns \ old
  BY <1>3, <1>6
<1>8. \A l \in lanes' : columns'[l[1]].of = columns'[l[2]].of
  <2>1. \A l \in L : columns'[l[1]].of = columns'[l[2]].of
    BY <1>4, <1>5
  <2>2. \A l \in kept : columns'[l[1]].of = columns'[l[2]].of
    BY <1>5, <1>6, <1>7
  <2> QED  BY <1>1, <2>1, <2>2
<1>9. lanes' \subseteq (DOMAIN columns') \X (DOMAIN columns')
  <2>1. kept \subseteq (DOMAIN columns') \X (DOMAIN columns')
    BY <1>5, <1>6, <1>7
  <2> QED  BY <1>1, <1>4, <1>5, <2>1
<1> HIDE DEF kept
<1>10. guarded' \subseteq lanes'
  BY <1>1
<1>11. ASSUME NEW x \in DOMAIN rows
       PROVE  /\ rows'[x].state \in DOMAIN columns' /\ rows'[x].state \notin old
              /\ \/ rows'[x].state = rows[x].state
                 \/ rows'[x].state \in Range(q)
  <2>1. DOMAIN rows' = DOMAIN rows
    BY <1>2 DEF RemappedTables
  <2>2. \/ rows'[x].state = rows[x].state
        \/ rows'[x].state \in Range(q)
    BY <1>2 DEF RemappedTables
  <2>3. rows'[x].state \notin old
    BY <1>1, <2>1
  <2> QED  BY <1>5, <1>6, <2>2, <2>3
<1>12. rows' \in [DOMAIN rows' -> Row] /\ DOMAIN rows' = DOMAIN rows
  BY <1>2 DEF RemappedTables
<1>13. columns' \in [DOMAIN columns' -> [of : DOMAIN owner', at : Nat]]
  <2>1. DOMAIN owner \cup {w} = DOMAIN owner' /\ UNCHANGED owner
    BY <1>1
  <2> QED  BY <1>5, <2>1
<1>14. /\ owner' \in [DOMAIN owner' -> Users \cup {None}] /\ DOMAIN owner' \subseteq Workflows
       /\ offered' \subseteq DOMAIN owner' /\ flow' \in [Folders -> DOMAIN owner']
  BY <1>1, <1>6
<1>15. TypeOK'
  BY <1>5, <1>6, <1>8, <1>9, <1>10, <1>11, <1>12, <1>13, <1>14 DEF TypeOK
<1>16. Stay
  <2>1. ASSUME NEW x \in DOMAIN rows, columns[rows[x].state].of = flow[x[1]]
        PROVE  columns'[rows'[x].state].of = flow'[x[1]]
    <3>1. CASE rows'[x] = rows[x]
      BY <1>1, <1>5, <1>6, <1>11, <2>1, <3>1
    <3>2. CASE rows'[x] # rows[x]
      BY <1>12, <3>2 DEF UpdateWorkflow, Checked, OnBoard
    <3> QED  BY <3>1, <3>2
  <2> QED  BY <2>1 DEF Stay
<1> QED  BY <1>15, <1>16

-----------------------------------------------------------------------------
LEMMA InitTypes == Init => TypeOK
<1> SUFFICES ASSUME Init  PROVE TypeOK
  OBVIOUS
<1>1. PICK w \in Workflows, q \in UNION {[1..n -> States] : n \in 1..MaxColumns} :
         /\ owner = [v \in {w} |-> None]
         /\ columns = [s \in Range(q) |-> [of |-> w, at |-> AntiFunction(q)[s] - 1]]
         /\ lanes = {l \in Range(q) \X Range(q) : l[1] # l[2]}
         /\ offered = {w}
         /\ flow = [f \in Folders |-> w]
  BY DEF Init
<1>2. PICK n \in 1..MaxColumns : q \in [1..n -> States]
  BY <1>1
<1>3. Range(q) \subseteq States
  BY <1>2 DEF Range
<1>4. n \in Nat
  BY BoundsAssumption
<1>5. ASSUME NEW s \in Range(q)  PROVE AntiFunction(q)[s] - 1 \in Nat
  <2>1. AntiFunction(q)[s] = CHOOSE i \in DOMAIN q : s \in Range(q) => q[i] = s
    BY DEF AntiFunction, Inverse
  <2>2. \E i \in DOMAIN q : q[i] = s
    BY DEF Range
  <2>3. AntiFunction(q)[s] \in DOMAIN q
    BY <2>1, <2>2
  <2> QED  BY <1>2, <1>4, <2>3
<1>6. DOMAIN owner = {w} /\ owner \in [{w} -> Users \cup {None}]
  BY <1>1
<1>7. DOMAIN columns = Range(q) /\ columns \in [Range(q) -> [of : {w}, at : Nat]]
  <2> DEFINE at(s) == AntiFunction(q)[s] - 1
  <2>1. columns = [s \in Range(q) |-> [of |-> w, at |-> at(s)]] /\ \A s \in Range(q) : at(s) \in Nat
    BY <1>1, <1>5
  <2> HIDE DEF at
  <2> QED  BY <2>1
<1>8. lanes \subseteq Range(q) \X Range(q) /\ \A l \in lanes : columns[l[1]].of = columns[l[2]].of
  <2>1. \A s \in Range(q) : columns[s].of = w
    BY <1>7
  <2> QED  BY <1>1, <2>1
<1>9. guarded = {} /\ offered = {w} /\ flow \in [Folders -> {w}]
  BY <1>1 DEF Init
<1>10. rows = << >>
  BY DEF Init
<1>11. rows \in [DOMAIN rows -> Row] /\ DOMAIN rows = {}
  BY <1>10
<1> QED  BY <1>3, <1>6, <1>7, <1>8, <1>9, <1>11 DEF TypeOK

(* The call that may take a task off the board of its folder. *)
Unmapped(x) == \E w \in Workflows, u \in Users : ChangeWorkflow(x[1], w, u, << >>)
StayOrNamed == \A x \in DOMAIN rows \cap DOMAIN rows' :
                  columns[rows[x].state].of = flow[x[1]] /\ columns'[rows'[x].state].of # flow'[x[1]] =>
                     Unmapped(x)

LEMMA StayIsEnough == ASSUME Stay  PROVE StayOrNamed
BY DEF Stay, StayOrNamed

LEMMA BoardStep ==
    ASSUME TypeOK, [Next]_vars
    PROVE  TypeOK' /\ StayOrNamed
<1>1. CASE UNCHANGED vars
  BY <1>1 DEF TypeOK, StayOrNamed, vars
<1>2. ASSUME NEW t \in Tasks, NEW f \in Folders, NEW p \in Parents, NEW s \in DOMAIN columns, NEW k \in 0..MaxIndex,
             Create(t, f, p, s, k)
      PROVE  TypeOK' /\ StayOrNamed
  <2>1. k \in Nat
    OBVIOUS
  <2> QED  BY <1>2, <2>1, CreateStep, StayIsEnough
<1>3. ASSUME NEW t \in Tasks, NEW f \in Folders, NEW u \in Users, NEW to \in DOMAIN columns, NEW k \in 0..MaxIndex,
             NEW board \in BOOLEAN,
             \/ UpdatePosition(t, f, u, to, k, board)
             \/ \E new \in Parents : UpdatePositionAndParent(t, f, u, to, k, board, new)
      PROVE  TypeOK' /\ StayOrNamed
  <2>1. k \in Nat /\ MayTake(t, f, u, to) /\ UNCHANGED flows
    BY <1>3 DEF UpdatePosition, UpdatePositionAndParent
  <2>2. PICK R \in Columned(f, t, to, k, board) :
           rows' = R \/ \E new \in Parents : rows' \in Hung(R, f, t, k, new)
    BY <1>3 DEF UpdatePosition, UpdatePositionAndParent
  <2> QED  BY <2>1, <2>2, PositionStep, StayIsEnough
<1>4. ASSUME NEW t \in Tasks, NEW from \in Folders, NEW to \in Folders, NEW s \in DOMAIN columns,
             MoveBetweenFolders(t, from, to, s)
      PROVE  TypeOK' /\ StayOrNamed
  BY <1>4, MoveStep, StayIsEnough
<1>5. ASSUME NEW t \in Tasks, NEW from \in Folders, NEW to \in Folders, NEW s \in DOMAIN columns,
             Share(t, from, to, s)
      PROVE  TypeOK' /\ StayOrNamed
  BY <1>5, ShareStep, StayIsEnough
<1>6. ASSUME NEW w \in Workflows, NEW by \in Users \cup {None}, NEW q \in NewStates, NEW names \in Swimlanes(q),
             NEW constrained \in SUBSET Range(q), CreateWorkflow(w, by, q, names, constrained)
      PROVE  TypeOK' /\ StayOrNamed
  BY <1>6, CreateWorkflowStep, StayIsEnough
<1>7. ASSUME NEW w \in Workflows, NEW v \in Workflows, NEW u \in Users, NEW q \in NewStates,
             CreateCommonFromPersonalise(w, v, u, q)
      PROVE  TypeOK' /\ StayOrNamed
  BY <1>7, CopyStep, StayIsEnough
<1>8. ASSUME NEW w \in Workflows, NEW q \in NewStates, NEW names \in Swimlanes(q), NEW constrained \in SUBSET Range(q),
             NEW mapping \in Mappings(w, q), UpdateWorkflow(w, q, names, constrained, mapping)
      PROVE  TypeOK' /\ StayOrNamed
  BY <1>8, UpdateWorkflowStep, StayIsEnough
<1>9. ASSUME NEW w \in Workflows, DeleteWorkflow(w)
      PROVE  TypeOK' /\ StayOrNamed
  BY <1>9, DeleteWorkflowStep, StayIsEnough
<1>10. ASSUME NEW add \in SUBSET Workflows, NEW drop \in SUBSET Workflows, UpdateSpaceWorkflows(add, drop)
       PROVE  TypeOK' /\ StayOrNamed
  BY <1>10, UpdateSpaceStep, StayIsEnough
<1>11. ASSUME NEW f \in Folders, NEW w \in Workflows, NEW u \in Users, NEW mapping \in CodeMaps(f, w),
              ChangeWorkflow(f, w, u, mapping)
       PROVE  TypeOK' /\ StayOrNamed
  <2>1. TypeOK' /\ (mapping # << >> => Stay)
    BY <1>11, ChangeWorkflowStep
  <2>2. CASE mapping # << >>
    BY <2>1, <2>2, StayIsEnough
  <2>3. CASE mapping = << >>
    <3>1. ASSUME NEW x \in DOMAIN rows, columns[rows[x].state].of = flow[x[1]], columns'[rows'[x].state].of # flow'[x[1]]
          PROVE  Unmapped(x)
      <4>1. CASE x[1] = f
        BY <1>11, <2>3, <4>1 DEF Unmapped
      <4>2. CASE x[1] # f
        <5>1. flow \in [Folders -> DOMAIN owner] /\ DOMAIN rows \subseteq Folders \X Tasks
          BY DEF TypeOK
        <5>2. x[1] \in Folders /\ flow' = [flow EXCEPT ![f] = w] /\ columns' = columns
          BY <1>11, <5>1 DEF ChangeWorkflow
        <5>3. rows'[x] = rows[x]
          BY <1>11, <4>2 DEF ChangeWorkflow
        <5> QED  BY <3>1, <4>2, <5>1, <5>2, <5>3
      <4> QED  BY <4>1, <4>2
    <3> QED  BY <2>1, <3>1 DEF StayOrNamed
  <2> QED  BY <2>2, <2>3
<1> QED  BY <1>1, <1>2, <1>3, <1>4, <1>5, <1>6, <1>7, <1>8, <1>9, <1>10, <1>11 DEF Next

(* The rows of the boards and of the workflows refer to one another: no call leaves
   a task in a state, a folder on a workflow, or a transition at a state, that is
   gone, and none makes a transition between two workflows. *)
THEOREM BoardTypes == Spec => []TypeOK
<1>1. Init => TypeOK
  BY InitTypes
<1>2. TypeOK /\ [Next]_vars => TypeOK'
  BY BoardStep
<1> QED  BY <1>1, <1>2, PTL DEF Spec

(* No call takes a task off the board of its folder but changeWorkflow without a
   mapping, whatever workflows there are and however they were redefined before:
   the check of task_relation is enough for the rest. *)
THEOREM TasksStayOnBoard == Spec => StaysOnBoard
<1>1. TypeOK /\ [Next]_vars =>
        [ \A x \in DOMAIN rows \cap DOMAIN rows' :
            OnBoard(x) /\ ~OnBoard(x)' =>
               \E w \in Workflows, u \in Users : ChangeWorkflow(x[1], w, u, << >>) ]_vars
  BY BoardStep DEF StayOrNamed, Unmapped, OnBoard
<1> QED  BY <1>1, BoardTypes, PTL DEF Spec, StaysOnBoard

-----------------------------------------------------------------------------
(* Positions *)

(* In a list in order no two have the same position. *)
LEMMA RankedApart ==
    ASSUME NEW R, NEW S, IsFiniteSet(S), NEW fld, Ranked(R, S, fld)
    PROVE  \A x, y \in S : R[x][fld] = R[y][fld] => x = y
<1> DEFINE T == 0..(Cardinality(S) - 1)
           g == [x \in S |-> R[x][fld]]
<1>1. Cardinality(S) \in Nat
  BY FS_CardinalityType
<1>2. Cardinality(T) = Cardinality(S)
  BY <1>1, FS_Interval
<1>3. {R[x][fld] : x \in S} = T
  BY DEF Ranked
<1> HIDE DEF T
<1>4. g \in Surjection(S, T)
  <2>1. g \in [S -> T]
    BY <1>3
  <2>2. \A i \in T : \E x \in S : g[x] = i
    BY <1>3
  <2> HIDE DEF g
  <2> QED  BY <2>1, <2>2 DEF Surjection
<1>5. g \in Injection(S, T)
  <2> HIDE DEF g
  <2> QED  BY <1>2, <1>4, FS_SurjSameCardinalityImpliesInj
<1>6. \A x, y \in S : g[x] = g[y] => x = y
  <2> HIDE DEF g
  <2> QED  BY <1>5 DEF Injection, IsInjective
<1> QED  BY <1>6

(* Two numberings that agree on what comes before what are one. *)
Agree(n, m, S, K) ==
    /\ n \in [S -> 1..K] /\ m \in [S -> 1..K]
    /\ \A i \in 1..K : \E x \in S : m[x] = i
    /\ \A x, y \in S : m[x] < m[y] => n[x] < n[y]

LEMMA Ranks ==
    ASSUME NEW K \in Nat, NEW S, NEW n, NEW m, Agree(n, m, S, K)
    PROVE  \A x \in S : n[x] = m[x]
<1> USE DEF Agree
<1> DEFINE Q == {i \in 0..K : \A x \in S : m[x] = i => i <= n[x]}
           P == {i \in 0..K : \A x \in S : m[x] = K - i => n[x] <= K - i}
<1>1. 0 \in Q /\ 0 \in P
  OBVIOUS
<1>2. ASSUME NEW i \in 1..K, i - 1 \in Q  PROVE i \in Q
  <2>1. ASSUME NEW x \in S, m[x] = i  PROVE i <= n[x]
    <3>1. CASE i = 1
      BY <3>1
    <3>2. CASE i # 1
      <4>1. PICK y \in S : m[y] = i - 1
        BY <3>2
      <4>2. i - 1 <= n[y] /\ n[y] < n[x]
        BY <1>2, <2>1, <4>1
      <4> QED  BY <4>2
    <3> QED  BY <3>1, <3>2
  <2> QED  BY <2>1
<1>3. ASSUME NEW i \in 1..K, i - 1 \in P  PROVE i \in P
  <2>1. ASSUME NEW x \in S, m[x] = K - i  PROVE n[x] <= K - i
    <3>1. K - i + 1 \in 1..K
      BY <2>1
    <3>2. PICK y \in S : m[y] = K - i + 1
      BY <3>1
    <3>3. m[y] = K - (i - 1) /\ i - 1 \in 0..K
      BY <3>2
    <3>4. n[y] <= K - (i - 1)
      BY <1>3, <3>3
    <3>5. n[x] < n[y]
      BY <2>1, <3>2
    <3> QED  BY <3>4, <3>5
  <2> QED  BY <2>1
<1>4. Q = 0..K /\ P = 0..K
  <2>1. Q \in SUBSET (0..K) /\ P \in SUBSET (0..K)
    OBVIOUS
  <2> HIDE DEF Q, P
  <2> QED  BY <1>1, <1>2, <1>3, <2>1, UpTo
<1>5. ASSUME NEW x \in S  PROVE n[x] = m[x]
  <2>1. m[x] \in Q /\ K - m[x] \in P
    BY <1>4
  <2>2. m[x] <= n[x]
    BY <2>1
  <2>3. n[x] <= m[x]
    <3>1. K - (K - m[x]) = m[x]
      OBVIOUS
    <3> QED  BY <2>1, <3>1
  <2> QED  BY <2>2, <2>3
<1> QED  BY <1>5

(* Rows numbered by their positions: where the positions are known, so are the
   numbers. *)
LEMMA Renumbered ==
    ASSUME NEW R \in Tables, NEW S, S \subseteq DOMAIN R, NEW fld \in Fields, NEW n \in RowNumbers(R, S, fld),
           NEW m \in [S -> 1..Cardinality(S)],
           \A i \in 1..Cardinality(S) : \E x \in S : m[x] = i,
           \A x, y \in S : m[x] < m[y] => R[x][fld] < R[y][fld]
    PROVE  \A x \in S : n[x] = m[x]
<1> DEFINE K == Cardinality(S)
<1>1. K \in Nat
  BY CellsAreFinite, FS_CardinalityType
<1>2. n \in [S -> 1..K] /\ \A x, y \in S : R[x][fld] < R[y][fld] => n[x] < n[y]
  BY DEF RowNumbers, Bijection, Injection
<1>3. \A x, y \in S : m[x] < m[y] => n[x] < n[y]
  BY <1>2
<1> HIDE DEF K
<1>4. m \in [S -> 1..K] /\ \A i \in 1..K : \E x \in S : m[x] = i
  BY DEF K
<1>5. Agree(n, m, S, K)
  BY <1>2, <1>3, <1>4 DEF Agree
<1> QED  BY <1>1, <1>5, Ranks

(* A list from which one was taken, and into which it is put again. *)
LEMMA PlaceInserts ==
    ASSUME NEW R \in Tables, NEW S, S \subseteq DOMAIN R, NEW fld \in Fields,
           NEW k \in 0..Cardinality(S), NEW old \in 0..Cardinality(S),
           {R[x][fld] : x \in S} = (0..Cardinality(S)) \ {old},
           NEW Q \in Place(R, S, fld, k, old)
    PROVE  \A x \in S : Q[x][fld] = Given(Taken(R[x][fld], old), k)
<1> DEFINE K == Cardinality(S)
<1>1. K \in Nat
  BY CellsAreFinite, FS_CardinalityType
<1>2. \A x \in S : R[x][fld] \in 0..K /\ R[x][fld] # old
  OBVIOUS
<1>3. \A i \in (0..K) \ {old} : \E x \in S : R[x][fld] = i
  OBVIOUS
<1>4. k \in 0..K /\ old \in 0..K
  OBVIOUS
<1>5. CASE k = 0
  <2> DEFINE m == [x \in S |-> Taken(R[x][fld], old) + 1]
  <2>1. PICK n \in RowNumbers(R, S, fld) : Q = With(R, S, fld, n)
    BY <1>5 DEF Place
  <2> HIDE DEF K
  <2>2. m \in [S -> 1..K]
    BY <1>1, <1>2, <1>4 DEF Taken
  <2>3. ASSUME NEW i \in 1..K  PROVE \E x \in S : m[x] = i
    <3>1. CASE i - 1 < old
      <4>1. PICK x \in S : R[x][fld] = i - 1
        BY <1>1, <1>3, <1>4, <3>1
      <4> QED  BY <4>1, <1>1, <1>4, <3>1 DEF Taken
    <3>2. CASE ~(i - 1 < old)
      <4>1. PICK x \in S : R[x][fld] = i
        BY <1>1, <1>3, <1>4, <3>2
      <4> QED  BY <4>1, <1>1, <1>4, <3>2 DEF Taken
    <3> QED  BY <3>1, <3>2
  <2>4. \A x, y \in S : m[x] < m[y] => R[x][fld] < R[y][fld]
    BY <1>1, <1>2, <1>4 DEF Taken
  <2>5. \A x \in S : m[x] = Given(Taken(R[x][fld], old), k)
    BY <1>1, <1>2, <1>4, <1>5 DEF Taken, Given
  <2> HIDE DEF m
  <2>6. \A x \in S : n[x] = m[x]
    BY <2>2, <2>3, <2>4, Renumbered DEF K
  <2>7. \A x \in S : n[x] \in Int
    BY <1>1, <2>2, <2>6
  <2>8. \A x \in S : Q[x][fld] = n[x]
    BY <2>1, <2>7, WithIs DEF Renumbers
  <2> QED  BY <2>5, <2>6, <2>8
<1>6. CASE k # 0 /\ k > old
  <2> DEFINE U == {x \in S : R[x][fld] \in (old + 1)..k}
  <2>1. Q = Shift(R, U, fld, -1)
    BY <1>6 DEF Place
  <2>2. \A x \in S : x \in U <=> old < R[x][fld] /\ R[x][fld] <= k
    BY <1>1, <1>2, <1>4
  <2>3. U \subseteq S
    OBVIOUS
  <2> HIDE DEF K, U
  <2>4. OnlyIn(R, Q, U, fld) /\ \A x \in U \cap DOMAIN R : Q[x][fld] = R[x][fld] + (-1)
    <3>1. -1 \in Int
      OBVIOUS
    <3> QED  BY <2>1, <3>1, ShiftIs DEF Shifts
  <2>5. \A x \in S : Q[x][fld] = IF x \in U THEN R[x][fld] - 1 ELSE R[x][fld]
    <3>1. \A x \in S : x \notin U => Q[x][fld] = R[x][fld]
      BY <2>4 DEF OnlyIn
    <3>2. \A x \in U : Q[x][fld] = R[x][fld] - 1
      BY <1>1, <1>2, <2>3, <2>4
    <3> QED  BY <3>1, <3>2
  <2>6. \A x \in S : (IF x \in U THEN R[x][fld] - 1 ELSE R[x][fld]) = Given(Taken(R[x][fld], old), k)
    BY <1>1, <1>2, <1>4, <1>6, <2>2 DEF Given, Taken
  <2> QED  BY <2>5, <2>6
<1>7. CASE k # 0 /\ ~(k > old)
  <2> DEFINE U == {x \in S : R[x][fld] \in k..(old - 1)}
  <2>1. Q = Shift(R, U, fld, 1)
    BY <1>7 DEF Place
  <2>2. \A x \in S : x \in U <=> k <= R[x][fld] /\ R[x][fld] < old
    BY <1>1, <1>2, <1>4
  <2>3. U \subseteq S
    OBVIOUS
  <2> HIDE DEF K, U
  <2>4. OnlyIn(R, Q, U, fld) /\ \A x \in U \cap DOMAIN R : Q[x][fld] = R[x][fld] + 1
    BY <2>1, ShiftIs DEF Shifts
  <2>5. \A x \in S : Q[x][fld] = IF x \in U THEN R[x][fld] + 1 ELSE R[x][fld]
    <3>1. \A x \in S : x \notin U => Q[x][fld] = R[x][fld]
      BY <2>4 DEF OnlyIn
    <3> QED  BY <2>3, <2>4, <3>1
  <2>6. \A x \in S : (IF x \in U THEN R[x][fld] + 1 ELSE R[x][fld]) = Given(Taken(R[x][fld], old), k)
    BY <1>1, <1>2, <1>4, <1>7, <2>2 DEF Given, Taken
  <2> QED  BY <2>5, <2>6
<1> QED  BY <1>5, <1>6, <1>7

(* What is left of a list in order when one is taken out. *)
Without(R, S, x0, fld) ==
    /\ R[x0][fld] \in 0..Cardinality(S)
    /\ {R[x][fld] : x \in S} = (0..Cardinality(S)) \ {R[x0][fld]}

LEMMA WithoutOne ==
    ASSUME NEW R, NEW S, IsFiniteSet(S), NEW x0, x0 \notin S, NEW fld, Ranked(R, S \cup {x0}, fld)
    PROVE  Without(R, S, x0, fld)
<1>1. Cardinality(S \cup {x0}) = Cardinality(S) + 1 /\ Cardinality(S) \in Nat /\ IsFiniteSet(S \cup {x0})
  BY FS_AddElement, FS_CardinalityType
<1>2. {R[x][fld] : x \in S \cup {x0}} = 0..Cardinality(S)
  BY <1>1 DEF Ranked
<1>3. \A x \in S : R[x][fld] # R[x0][fld]
  BY <1>1, RankedApart
<1> QED  BY <1>2, <1>3 DEF Without

(* A task put at its new position, and the others of its list making room. *)
Inserted(R, Q, S, x0, fld, k) ==
    /\ Q[x0][fld] = k
    /\ \A x \in S : Q[x][fld] = Given(Taken(R[x][fld], R[x0][fld]), k)

LEMMA PutIn ==
    ASSUME NEW R \in Tables, NEW t, NEW S, S \subseteq DOMAIN R, \A x \in S : x[2] # t, NEW fld \in Fields,
           NEW x0 \in DOMAIN R, x0[2] = t, Ranked(R, S \cup {x0}, fld), NEW k \in 0..Cardinality(S),
           NEW Q \in Place(Everywhere(R, t, fld, k), S, fld, k, R[x0][fld])
    PROVE  Inserted(R, Q, S, x0, fld, k)
<1> DEFINE E == Everywhere(R, t, fld, k)
           old == R[x0][fld]
<1>1. IsFiniteSet(S) /\ x0 \notin S
  BY CellsAreFinite
<1>2. old \in 0..Cardinality(S) /\ {R[x][fld] : x \in S} = (0..Cardinality(S)) \ {old}
  <2>1. Without(R, S, x0, fld)
    BY <1>1, WithoutOne
  <2> QED  BY <2>1 DEF Without
<1>3. OnlyIn(R, E, {x \in DOMAIN R : x[2] = t}, fld) /\ \A x \in DOMAIN R : x[2] = t => E[x][fld] = k
  <2>1. k \in Int
    OBVIOUS
  <2> HIDE DEF E
  <2>2. AllAt(R, E, t, fld, k)
    BY <2>1, EverywhereIs DEF E
  <2> QED  BY <2>2 DEF AllAt
<1> HIDE DEF E, old
<1>4. E \in Tables /\ DOMAIN E = DOMAIN R
  BY <1>3 DEF OnlyIn, Shuffled
<1>5. \A x \in S : E[x][fld] = R[x][fld]
  BY <1>3 DEF OnlyIn
<1>6. {E[x][fld] : x \in S} = (0..Cardinality(S)) \ {old}
  BY <1>2, <1>5
<1>7. Q \in Place(E, S, fld, k, old)
  BY DEF E, old
<1>8. \A x \in S : Q[x][fld] = Given(Taken(E[x][fld], old), k)
  BY <1>2, <1>4, <1>6, <1>7, PlaceInserts
<1>9. OnlyIn(E, Q, S, fld)
  BY <1>4, <1>7, PlaceMoves
<1>10. Q[x0][fld] = k
  BY <1>1, <1>3, <1>4, <1>9 DEF OnlyIn
<1> QED  BY <1>5, <1>8, <1>10 DEF old, Inserted

(* Positions do not tell who is whose sibling, nor what is in a column. *)
LEMMA SiblingsAre ==
    ASSUME NEW R, NEW Q, Shuffled(R, Q), NEW f, NEW p, NEW t
    PROVE  Siblings(Q, f, p, t) = Siblings(R, f, p, t)
BY DEF Shuffled, Siblings

LEMMA SiblingsKnow ==
    ASSUME NEW R, NEW f, NEW p, NEW t
    PROVE  Siblings(R, f, p, t) \subseteq DOMAIN R /\ \A x \in Siblings(R, f, p, t) : x[2] # t
BY DEF Siblings

LEMMA IndexPutIn ==
    ASSUME NEW R \in Tables, NEW M, Shuffled(R, M), \A x \in DOMAIN R : M[x].index = R[x].index,
           NEW f, NEW p, NEW t, NEW x0 \in DOMAIN R, x0 = <<f, t>>, NEW S, S = Siblings(R, f, p, t),
           Ranked(R, S \cup {x0}, "index"), NEW k \in 0..Cardinality(S),
           NEW old, old = R[x0].index, NEW Q \in UpdateTaskSiblings(M, p, f, k, t, old)
    PROVE  Inserted(R, Q, S, x0, "index", k)
<1>1. S \subseteq DOMAIN R /\ (\A x \in S : x[2] # t) /\ x0[2] = t
  BY SiblingsKnow
<1>2. M \in Tables /\ DOMAIN M = DOMAIN R
  BY DEF Shuffled
<1>3. Siblings(M, f, p, t) = S
  BY SiblingsAre
<1>4. Q \in Place(Everywhere(M, t, "index", k), S, "index", k, R[x0]["index"])
  BY <1>3 DEF UpdateTaskSiblings
<1>5. Ranked(R, S \cup {x0}, "index") /\ x0 \in DOMAIN R /\ k \in 0..Cardinality(S)
  OBVIOUS
<1>6. \A x \in DOMAIN R : M[x]["index"] = R[x]["index"]
  OBVIOUS
<1>7. Ranked(M, S \cup {x0}, "index")
  <2>1. \A x \in S \cup {x0} : M[x]["index"] = R[x]["index"]
    BY <1>1, <1>5, <1>6
  <2>2. {M[x]["index"] : x \in S \cup {x0}} = {R[x]["index"] : x \in S \cup {x0}}
    BY <2>1
  <2> QED  BY <1>5, <2>2 DEF Ranked
<1>8. Q \in Place(Everywhere(M, t, "index", k), S, "index", k, M[x0]["index"])
  BY <1>4, <1>5, <1>6
<1>9. /\ Q[x0]["index"] = k
      /\ \A x \in S : Q[x]["index"] = Given(Taken(M[x]["index"], M[x0]["index"]), k)
  <2>1. "index" \in Fields /\ S \subseteq DOMAIN M /\ x0 \in DOMAIN M
    BY <1>1, <1>2, <1>5 DEF Fields
  <2>2. Inserted(M, Q, S, x0, "index", k)
    BY <1>1, <1>2, <1>5, <1>7, <1>8, <2>1, PutIn
  <2> QED  BY <2>2 DEF Inserted
<1>10. \A x \in S : Q[x]["index"] = Given(Taken(R[x]["index"], R[x0]["index"]), k)
  BY <1>1, <1>5, <1>6, <1>9
<1> QED  BY <1>9, <1>10 DEF Inserted

(* The call of updatePosition that leaves the task in its column and below its parent. *)
LEMMA MovesWithin ==
    ASSUME rows \in Tables, NEW t, NEW f, <<f, t>> \in DOMAIN rows, NEW u, NEW k \in Int, NEW board \in BOOLEAN,
           UpdatePosition(t, f, u, rows[<<f, t>>].state, k, board)
    PROVE  LET r == rows[<<f, t>>] IN
           \E M \in Tables : /\ IF board THEN M \in UpdateFolderWorkflowStateSiblings(rows, r.parent, f, k, t, r.state,
                                                                                      r.stateIndex, r.state)
                                ELSE M = rows
                             /\ Shuffled(rows, M) /\ \A x \in DOMAIN rows : M[x].index = rows[x].index
                             /\ rows' \in UpdateTaskSiblings(M, r.parent, f, k, t, r.index)
<1> DEFINE r == rows[<<f, t>>]
<1>1. PICK R \in Columned(f, t, r.state, k, board) : rows' = R
  BY DEF UpdatePosition
<1>2. rows' = R
  BY <1>1
<1>3. PICK M \in IF board THEN UpdateFolderWorkflowStateSiblings(rows, r.parent, f, k, t, r.state, r.stateIndex, r.state)
                 ELSE {rows} : R \in UpdateTaskSiblings(M, r.parent, f, k, t, r.index)
  BY <1>1 DEF Columned
<1>4. Shuffled(rows, M) /\ \A x \in DOMAIN rows : M[x].index = rows[x].index
  <2>1. CASE board
    BY <1>3, <2>1, ColumnsMove
  <2>2. CASE ~board
    BY <1>3, <2>2 DEF Shuffled
  <2> QED  BY <2>1, <2>2
<1>5. M \in Tables
  BY <1>4 DEF Shuffled
<1> QED  BY <1>2, <1>3, <1>4, <1>5

MoveInsertsNow ==
    \A t \in Tasks, f \in Folders :
          <<f, t>> \in DOMAIN rows =>
          LET r == rows[<<f, t>>]
              S == Siblings(rows, f, r.parent, t)
          IN  Ranked(rows, S \cup {<<f, t>>}, "index") =>
              \A u \in Users, k \in 0..Cardinality(S), board \in BOOLEAN :
                 k <= MaxIndex /\ UpdatePosition(t, f, u, r.state, k, board) =>
                 /\ rows'[<<f, t>>].index = k
                 /\ \A x \in S : rows'[x].index = Given(Taken(rows[x].index, r.index), k)

LEMMA MoveStepInserts ==
    ASSUME TypeOK
    PROVE  MoveInsertsNow
<1>1. rows \in Tables
  BY TypeIs
<1>2. ASSUME NEW t \in Tasks, NEW f \in Folders, <<f, t>> \in DOMAIN rows,
             NEW r, r = rows[<<f, t>>], NEW S, S = Siblings(rows, f, r.parent, t),
             Ranked(rows, S \cup {<<f, t>>}, "index"),
             NEW u \in Users, NEW k \in 0..Cardinality(S), NEW board \in BOOLEAN,
             UpdatePosition(t, f, u, r.state, k, board)
      PROVE  /\ rows'[<<f, t>>].index = k
             /\ \A x \in S : rows'[x].index = Given(Taken(rows[x].index, r.index), k)
  <2>1. k \in Int
    OBVIOUS
  <2>2. PICK M \in Tables : /\ Shuffled(rows, M) /\ \A x \in DOMAIN rows : M[x].index = rows[x].index
                            /\ rows' \in UpdateTaskSiblings(M, r.parent, f, k, t, r.index)
    BY <1>1, <1>2, <2>1, MovesWithin
  <2>3. PICK x0 : x0 = <<f, t>>
    OBVIOUS
  <2>4. PICK old : old = rows[x0].index
    OBVIOUS
  <2>5. x0 \in DOMAIN rows /\ Ranked(rows, S \cup {x0}, "index") /\ rows' \in UpdateTaskSiblings(M, r.parent, f, k, t, old)
    BY <1>2, <2>2, <2>3, <2>4
  <2>6. Inserted(rows, rows', S, x0, "index", k)
    BY <1>1, <1>2, <2>2, <2>3, <2>4, <2>5, IndexPutIn
  <2>7. rows'[x0]["index"] = k /\ \A x \in S : rows'[x]["index"] = Given(Taken(rows[x]["index"], rows[x0]["index"]), k)
    BY <2>6 DEF Inserted
  <2> QED  BY <1>2, <2>3, <2>7
<1> QED  BY <1>2 DEF MoveInsertsNow

(* A move within a column. *)
LEMMA ColumnPutIn ==
    ASSUME NEW R \in Tables, NEW f, NEW p, NEW t, NEW x0 \in DOMAIN R, x0 = <<f, t>>, NEW s,
           NEW S, S = InColumn(R, Siblings(R, f, p, t), s),
           Ranked(R, S \cup {x0}, "stateIndex"), NEW k \in 0..Cardinality(S),
           NEW old, old = R[x0].stateIndex, NEW Q \in UpdateFolderWorkflowStateSiblings(R, p, f, k, t, s, old, s)
    PROVE  Inserted(R, Q, S, x0, "stateIndex", k)
<1>1. Siblings(R, f, p, t) \subseteq DOMAIN R /\ \A x \in Siblings(R, f, p, t) : x[2] # t
  BY SiblingsKnow
<1>2. S \subseteq DOMAIN R /\ \A x \in S : x[2] # t
  BY <1>1 DEF InColumn
<1>3. Q \in Place(Everywhere(R, t, "stateIndex", k), S, "stateIndex", k, old)
  BY DEF UpdateFolderWorkflowStateSiblings
<1>4. "stateIndex" \in Fields /\ x0[2] = t /\ old = R[x0]["stateIndex"]
  BY DEF Fields
<1>5. Q \in Place(Everywhere(R, t, "stateIndex", k), S, "stateIndex", k, R[x0]["stateIndex"])
  BY <1>3, <1>4
<1> QED  BY <1>2, <1>4, <1>5, PutIn

(* A list in order, numbered from one. *)
LEMMA NumberedOn ==
    ASSUME NEW R \in Tables, NEW T, T \subseteq DOMAIN R, NEW fld \in Fields, Ranked(R, T, fld),
           NEW n \in RowNumbers(R, T, fld)
    PROVE  \A x \in T : n[x] = R[x][fld] + 1
<1> DEFINE K == Cardinality(T)
           m == [x \in T |-> R[x][fld] + 1]
<1>1. K \in Nat
  BY CellsAreFinite, FS_CardinalityType
<1>2. {R[x][fld] : x \in T} = 0..(K - 1)
  BY DEF Ranked
<1> HIDE DEF K
<1>3. \A x \in T : R[x][fld] \in 0..(K - 1)
  BY <1>2
<1>4. m \in [T -> 1..K]
  BY <1>1, <1>3
<1>5. \A i \in 1..K : \E x \in T : m[x] = i
  <2>1. ASSUME NEW i \in 1..K  PROVE \E x \in T : m[x] = i
    <3>1. i - 1 \in 0..(K - 1)
      BY <1>1
    <3>2. PICK x \in T : R[x][fld] = i - 1
      BY <1>2, <3>1
    <3> QED  BY <3>2
  <2> QED  BY <2>1
<1>6. \A x, y \in T : m[x] < m[y] => R[x][fld] < R[y][fld]
  BY <1>1, <1>3
<1> HIDE DEF m
<1>7. \A x \in T : n[x] = m[x]
  BY <1>4, <1>5, <1>6, Renumbered DEF K
<1> QED  BY <1>7 DEF m

(* A move from the column S to the column T. *)
Carried(R, Q, S, T, x0, k) ==
    /\ Q[x0]["stateIndex"] = k
    /\ \A x \in S : Q[x]["stateIndex"] = Taken(R[x]["stateIndex"], R[x0]["stateIndex"])
    /\ k = 0 => \A x \in T : Q[x]["stateIndex"] = R[x]["stateIndex"] + 1

LEMMA ColumnCarries ==
    ASSUME NEW R \in Tables, NEW M \in Tables, DOMAIN M = DOMAIN R, NEW t, NEW x0 \in DOMAIN R, x0[2] = t,
           NEW S, S \subseteq DOMAIN R, NEW T, T \subseteq DOMAIN R, S \cap T = {}, \A x \in S \cup T : x[2] # t,
           \A x \in DOMAIN R : M[x]["stateIndex"] = R[x]["stateIndex"],
           Ranked(R, S \cup {x0}, "stateIndex"), Ranked(R, T, "stateIndex"), NEW k \in Nat,
           NEW old, old = R[x0]["stateIndex"],
           NEW Q \in ChangeColumn(Everywhere(M, t, "stateIndex", k), S, T, k, old)
    PROVE  Carried(R, Q, S, T, x0, k)
<1> DEFINE E == Everywhere(M, t, "stateIndex", k)
<1>1. IsFiniteSet(S) /\ x0 \notin S /\ x0 \notin T
  BY CellsAreFinite
<1>2. old \in 0..Cardinality(S) /\ {R[x]["stateIndex"] : x \in S} = (0..Cardinality(S)) \ {old}
  <2>1. Without(R, S, x0, "stateIndex")
    BY <1>1, WithoutOne
  <2> QED  BY <2>1 DEF Without
<1>3. \A x \in S : R[x]["stateIndex"] \in Int /\ R[x]["stateIndex"] # old
  BY <1>2
<1>4. old \in Int /\ \A x \in DOMAIN R : R[x]["stateIndex"] \in Int
  BY TableIs DEF Row
<1>5. AllAt(M, E, t, "stateIndex", k)
  <2>1. k \in Int /\ "stateIndex" \in Fields
    BY DEF Fields
  <2> HIDE DEF E
  <2> QED  BY <2>1, EverywhereIs DEF E
<1> HIDE DEF E
<1>6. /\ E \in Tables /\ DOMAIN E = DOMAIN R /\ E[x0]["stateIndex"] = k
      /\ \A x \in DOMAIN R : x[2] # t => E[x]["stateIndex"] = R[x]["stateIndex"]
  BY <1>5 DEF AllAt, OnlyIn, Shuffled, Fields
<1>7. \A x \in S \cup T : E[x]["stateIndex"] = R[x]["stateIndex"]
  BY <1>6
<1>8. CASE k = 0
  <2> DEFINE U == {x \in S : E[x].stateIndex >= old}
             P == Shift(E, U, "stateIndex", -1)
  <2>1. PICK n \in RowNumbers(E, T, "stateIndex") : Q = With(P, T, "stateIndex", n)
    BY <1>8 DEF ChangeColumn, E
  <2>2. \A x \in S : x \in U <=> R[x]["stateIndex"] >= old
    BY <1>7
  <2>3. U \subseteq S
    OBVIOUS
  <2> HIDE DEF U
  <2>4. OnlyIn(E, P, U, "stateIndex") /\ \A x \in U \cap DOMAIN E : P[x]["stateIndex"] = E[x]["stateIndex"] + (-1)
    <3>1. -1 \in Int /\ "stateIndex" \in Fields
      BY DEF Fields
    <3> HIDE DEF P
    <3>2. Shifts(E, P, U, "stateIndex", -1)
      BY <1>6, <3>1, ShiftIs DEF P
    <3> QED  BY <3>2 DEF Shifts
  <2> HIDE DEF P
  <2>5. P \in Tables /\ DOMAIN P = DOMAIN E
    BY <2>4 DEF OnlyIn, Shuffled
  <2>6. Ranked(E, T, "stateIndex")
    <3>1. {E[x]["stateIndex"] : x \in T} = {R[x]["stateIndex"] : x \in T}
      BY <1>7
    <3> QED  BY <3>1 DEF Ranked
  <2>7. \A x \in T : n[x] = E[x]["stateIndex"] + 1
    BY <1>6, <2>1, <2>6, NumberedOn DEF Fields
  <2>8. \A x \in T \cap DOMAIN P : n[x] \in Int
    BY <1>4, <1>7, <2>7
  <2>9. OnlyIn(P, Q, T, "stateIndex") /\ \A x \in T \cap DOMAIN P : Q[x]["stateIndex"] = n[x]
    <3>1. "stateIndex" \in Fields
      BY DEF Fields
    <3>2. Renumbers(P, Q, T, "stateIndex", n)
      BY <2>1, <2>5, <2>8, <3>1, WithIs
    <3> QED  BY <3>2 DEF Renumbers
  <2>10. \A x \in T : Q[x]["stateIndex"] = R[x]["stateIndex"] + 1
    BY <1>6, <1>7, <2>5, <2>7, <2>9
  <2>11. \A x \in DOMAIN R : x \notin T => Q[x]["stateIndex"] = P[x]["stateIndex"]
    BY <1>6, <2>5, <2>9 DEF OnlyIn, Fields
  <2>12. \A x \in DOMAIN R : P[x]["stateIndex"] = IF x \in U THEN E[x]["stateIndex"] + (-1) ELSE E[x]["stateIndex"]
    BY <1>6, <2>4 DEF OnlyIn, Fields
  <2>13. Q[x0]["stateIndex"] = k
    BY <1>1, <1>6, <2>3, <2>11, <2>12
  <2>14. \A x \in S : Q[x]["stateIndex"] = IF R[x]["stateIndex"] >= old THEN R[x]["stateIndex"] + (-1) ELSE R[x]["stateIndex"]
    BY <1>7, <2>2, <2>11, <2>12
  <2>15. \A x \in S : Q[x]["stateIndex"] = Taken(R[x]["stateIndex"], old)
    BY <1>3, <1>4, <2>14 DEF Taken
  <2> QED  BY <2>10, <2>13, <2>15 DEF Carried
<1>9. CASE k # 0
  <2> DEFINE U == {x \in S : E[x].stateIndex > old}
             V == {x \in T : E[x].stateIndex >= old}
             P == Shift(E, U, "stateIndex", -1)
  <2>1. Q = Shift(P, V, "stateIndex", 1)
    BY <1>9 DEF ChangeColumn, E
  <2>2. \A x \in S : x \in U <=> R[x]["stateIndex"] > old
    BY <1>7
  <2>3. U \subseteq S /\ V \subseteq T
    OBVIOUS
  <2> HIDE DEF U, V
  <2>4. OnlyIn(E, P, U, "stateIndex") /\ \A x \in U \cap DOMAIN E : P[x]["stateIndex"] = E[x]["stateIndex"] + (-1)
    <3>1. -1 \in Int /\ "stateIndex" \in Fields
      BY DEF Fields
    <3> HIDE DEF P
    <3>2. Shifts(E, P, U, "stateIndex", -1)
      BY <1>6, <3>1, ShiftIs DEF P
    <3> QED  BY <3>2 DEF Shifts
  <2> HIDE DEF P
  <2>5. P \in Tables /\ DOMAIN P = DOMAIN E
    BY <2>4 DEF OnlyIn, Shuffled
  <2>6. OnlyIn(P, Q, V, "stateIndex")
    <3>1. "stateIndex" \in Fields
      BY DEF Fields
    <3>2. Shifts(P, Q, V, "stateIndex", 1)
      BY <2>1, <2>5, <3>1, ShiftIs
    <3> QED  BY <3>2 DEF Shifts
  <2>7. \A x \in DOMAIN R : x \notin T => Q[x]["stateIndex"] = P[x]["stateIndex"]
    BY <1>6, <2>3, <2>5, <2>6 DEF OnlyIn, Fields
  <2>8. \A x \in DOMAIN R : P[x]["stateIndex"] = IF x \in U THEN E[x]["stateIndex"] + (-1) ELSE E[x]["stateIndex"]
    BY <1>6, <2>4 DEF OnlyIn, Fields
  <2>9. Q[x0]["stateIndex"] = k
    BY <1>1, <1>6, <2>3, <2>7, <2>8
  <2>10. \A x \in S : Q[x]["stateIndex"] = IF R[x]["stateIndex"] > old THEN R[x]["stateIndex"] + (-1) ELSE R[x]["stateIndex"]
    BY <1>7, <2>2, <2>7, <2>8
  <2>11. \A x \in S : Q[x]["stateIndex"] = Taken(R[x]["stateIndex"], old)
    BY <1>3, <1>4, <2>10 DEF Taken
  <2> QED  BY <1>9, <2>9, <2>11 DEF Carried
<1> QED  BY <1>8, <1>9

(* The call of updatePosition that takes the task to another column. *)
LEMMA MovesAcross ==
    ASSUME rows \in Tables, NEW t, NEW f, NEW x0 \in DOMAIN rows, x0 = <<f, t>>, NEW u, NEW to \in States, NEW k \in Nat,
           NEW r, r = rows[x0], to # r.state, UpdatePosition(t, f, u, to, k, TRUE),
           NEW S, S = InColumn(rows, Siblings(rows, f, r.parent, t), r.state),
           NEW T, T = InColumn(rows, Siblings(rows, f, r.parent, t), to),
           Ranked(rows, S \cup {x0}, "stateIndex"), Ranked(rows, T, "stateIndex")
    PROVE  Carried(rows, rows', S, T, x0, k)
<1> DEFINE M == InState(rows, x0, to)
<1>1. PICK R \in Columned(f, t, to, k, TRUE) : rows' = R
  BY DEF UpdatePosition
<1>2. rows' = R
  BY <1>1
<1>3. R \in UpdateFolderWorkflowStateSiblings(M, r.parent, f, k, t, to, r.stateIndex, r.state)
  BY <1>1 DEF Columned, InState
<1>4. M \in Tables
  BY RowPut
<1>5. DOMAIN M = DOMAIN rows /\ \A x \in DOMAIN rows : x # x0 => M[x] = rows[x]
  BY DEF InState
<1>6. M[x0].stateIndex = rows[x0].stateIndex /\ M[x0].parent = rows[x0].parent
  <2>1. rows[x0] \in Row
    BY TableIs
  <2> QED  BY <2>1 DEF InState, Row
<1> HIDE DEF M
<1> DEFINE B == Siblings(rows, f, r.parent, t)
<1>7. Siblings(M, f, r.parent, t) = B
  BY <1>5 DEF Siblings
<1>8. B \subseteq DOMAIN rows /\ \A x \in B : x[2] # t
  BY SiblingsKnow
<1>9. S = InColumn(rows, B, r.state) /\ T = InColumn(rows, B, to)
  OBVIOUS
<1> HIDE DEF B
<1>10. InColumn(M, B, r.state) = S /\ InColumn(M, B, to) = T
  BY <1>5, <1>8, <1>9 DEF InColumn
<1>11. R \in ChangeColumn(Everywhere(M, t, "stateIndex", k), S, T, k, r.stateIndex)
  BY <1>3, <1>7, <1>10 DEF UpdateFolderWorkflowStateSiblings
<1>12. S \subseteq DOMAIN rows /\ T \subseteq DOMAIN rows /\ S \cap T = {} /\ \A x \in S \cup T : x[2] # t
  BY <1>8, <1>9 DEF InColumn
<1>13. x0[2] = t /\ \A x \in DOMAIN rows : M[x]["stateIndex"] = rows[x]["stateIndex"]
  BY <1>5, <1>6
<1>14. PICK old : old = rows[x0]["stateIndex"] /\ R \in ChangeColumn(Everywhere(M, t, "stateIndex", k), S, T, k, old)
  BY <1>11
<1>15. Carried(rows, R, S, T, x0, k)
  BY <1>4, <1>5, <1>12, <1>13, <1>14, ColumnCarries
<1> QED  BY <1>2, <1>15

ColumnInsertsNow ==
    \A t \in Tasks, f \in Folders :
          <<f, t>> \in DOMAIN rows =>
          LET r == rows[<<f, t>>]
              S == InColumn(rows, Siblings(rows, f, r.parent, t), r.state)
              T(to) == InColumn(rows, Siblings(rows, f, r.parent, t), to)
          IN  Ranked(rows, S \cup {<<f, t>>}, "stateIndex") =>
              \A to \in DOMAIN columns, u \in Users, k \in 0..MaxIndex :
                 (IF to = r.state THEN k <= Cardinality(S) ELSE Ranked(rows, T(to), "stateIndex"))
                 /\ UpdatePosition(t, f, u, to, k, TRUE) =>
                 /\ rows'[<<f, t>>].stateIndex = k
                 /\ to = r.state =>
                       \A x \in S : rows'[x].stateIndex = Given(Taken(rows[x].stateIndex, r.stateIndex), k)
                 /\ to # r.state =>
                       /\ \A x \in S : rows'[x].stateIndex = Taken(rows[x].stateIndex, r.stateIndex)
                       /\ k = 0 => \A x \in T(to) : rows'[x].stateIndex = rows[x].stateIndex + 1

(* Where a call of updatePosition leaves the task, its old column and its new one. *)
Landed(x0, r, S, T, to, k) ==
    /\ rows'[x0].stateIndex = k
    /\ to = r.state =>
          \A x \in S : rows'[x].stateIndex = Given(Taken(rows[x].stateIndex, r.stateIndex), k)
    /\ to # r.state =>
          /\ \A x \in S : rows'[x].stateIndex = Taken(rows[x].stateIndex, r.stateIndex)
          /\ k = 0 => \A x \in T : rows'[x].stateIndex = rows[x].stateIndex + 1

LEMMA ColumnStepOf ==
    ASSUME TypeOK, NEW t \in Tasks, NEW f \in Folders, NEW x0 \in DOMAIN rows, x0 = <<f, t>>,
           NEW r, r = rows[x0], NEW S, S = InColumn(rows, Siblings(rows, f, r.parent, t), r.state),
           Ranked(rows, S \cup {x0}, "stateIndex"),
           NEW to \in DOMAIN columns, NEW u \in Users, NEW k \in 0..MaxIndex,
           NEW T, T = InColumn(rows, Siblings(rows, f, r.parent, t), to),
           IF to = r.state THEN k <= Cardinality(S) ELSE Ranked(rows, T, "stateIndex"),
           UpdatePosition(t, f, u, to, k, TRUE)
    PROVE  Landed(x0, r, S, T, to, k)
<1> USE DEF Landed
<1>0. rows \in Tables /\ \A x \in DOMAIN rows : rows[x].state \in DOMAIN columns
  BY TypeIs
<1>1. k \in Nat /\ k \in Int
  OBVIOUS
<1>2. CASE to = r.state
  <2>1. PICK M \in Tables : /\ M \in UpdateFolderWorkflowStateSiblings(rows, r.parent, f, k, t, r.state, r.stateIndex, r.state)
                            /\ Shuffled(rows, M)
                            /\ rows' \in UpdateTaskSiblings(M, r.parent, f, k, t, r.index)
    BY <1>0, <1>1, <1>2, MovesWithin
  <2>2. \A x \in DOMAIN M : rows'[x].stateIndex = M[x].stateIndex
    BY <1>1, <2>1, SiblingsMove
  <2>3. k \in 0..Cardinality(S)
    <3>1. S \subseteq DOMAIN rows
      BY SiblingsKnow DEF InColumn
    <3>2. Cardinality(S) \in Nat
      BY <1>0, <3>1, CellsAreFinite, FS_CardinalityType
    <3> QED  BY <1>1, <1>2, <3>2
  <2>4. PICK old : old = rows[x0].stateIndex
    OBVIOUS
  <2>5. M \in UpdateFolderWorkflowStateSiblings(rows, r.parent, f, k, t, r.state, old, r.state)
    BY <2>1, <2>4
  <2>6. Inserted(rows, M, S, x0, "stateIndex", k)
    BY <1>0, <2>3, <2>4, <2>5, ColumnPutIn
  <2>7. /\ M[x0]["stateIndex"] = k
        /\ \A x \in S : M[x]["stateIndex"] = Given(Taken(rows[x]["stateIndex"], rows[x0]["stateIndex"]), k)
    BY <2>6 DEF Inserted
  <2>8. x0 \in DOMAIN M /\ S \subseteq DOMAIN M
    <3>1. S \subseteq DOMAIN rows
      BY SiblingsKnow DEF InColumn
    <3> QED  BY <2>1, <3>1 DEF Shuffled
  <2> QED  BY <1>2, <2>2, <2>7, <2>8
<1>3. CASE to # r.state
  <2>1. to \in States
    BY DEF TypeOK
  <2>2. Ranked(rows, T, "stateIndex")
    BY <1>3
  <2>3. Carried(rows, rows', S, T, x0, k)
    BY <1>0, <1>1, <1>3, <2>1, <2>2, MovesAcross
  <2>4. /\ rows'[x0]["stateIndex"] = k
        /\ \A x \in S : rows'[x]["stateIndex"] = Taken(rows[x]["stateIndex"], rows[x0]["stateIndex"])
        /\ k = 0 => \A x \in T : rows'[x]["stateIndex"] = rows[x]["stateIndex"] + 1
    BY <2>3 DEF Carried
  <2> QED  BY <1>3, <2>4
<1> QED  BY <1>2, <1>3

LEMMA ColumnStepInserts ==
    ASSUME TypeOK
    PROVE  ColumnInsertsNow
<1>1. ASSUME NEW t \in Tasks, NEW f \in Folders, <<f, t>> \in DOMAIN rows
      PROVE  LET r == rows[<<f, t>>]
                 S == InColumn(rows, Siblings(rows, f, r.parent, t), r.state)
                 T(to) == InColumn(rows, Siblings(rows, f, r.parent, t), to)
             IN  Ranked(rows, S \cup {<<f, t>>}, "stateIndex") =>
                 \A to \in DOMAIN columns, u \in Users, k \in 0..MaxIndex :
                    (IF to = r.state THEN k <= Cardinality(S) ELSE Ranked(rows, T(to), "stateIndex"))
                    /\ UpdatePosition(t, f, u, to, k, TRUE) =>
                    /\ rows'[<<f, t>>].stateIndex = k
                    /\ to = r.state =>
                          \A x \in S : rows'[x].stateIndex = Given(Taken(rows[x].stateIndex, r.stateIndex), k)
                    /\ to # r.state =>
                          /\ \A x \in S : rows'[x].stateIndex = Taken(rows[x].stateIndex, r.stateIndex)
                          /\ k = 0 => \A x \in T(to) : rows'[x].stateIndex = rows[x].stateIndex + 1
  <2> DEFINE x0 == <<f, t>>
             r == rows[x0]
             B == Siblings(rows, f, r.parent, t)
             S == InColumn(rows, B, r.state)
  <2> SUFFICES ASSUME Ranked(rows, S \cup {x0}, "stateIndex"), NEW to \in DOMAIN columns, NEW u \in Users, NEW k \in 0..MaxIndex,
                      IF to = r.state THEN k <= Cardinality(S) ELSE Ranked(rows, InColumn(rows, B, to), "stateIndex"),
                      UpdatePosition(t, f, u, to, k, TRUE)
               PROVE  /\ rows'[x0].stateIndex = k
                      /\ to = r.state =>
                            \A x \in S : rows'[x].stateIndex = Given(Taken(rows[x].stateIndex, r.stateIndex), k)
                      /\ to # r.state =>
                            /\ \A x \in S : rows'[x].stateIndex = Taken(rows[x].stateIndex, r.stateIndex)
                            /\ k = 0 => \A x \in InColumn(rows, B, to) : rows'[x].stateIndex = rows[x].stateIndex + 1
    OBVIOUS
  <2> DEFINE T == InColumn(rows, B, to)
  <2>1. x0 \in DOMAIN rows /\ x0 = <<f, t>> /\ r = rows[x0] /\ S = InColumn(rows, Siblings(rows, f, r.parent, t), r.state)
        /\ T = InColumn(rows, Siblings(rows, f, r.parent, t), to)
    BY <1>1
  <2>2. /\ Ranked(rows, S \cup {x0}, "stateIndex") /\ UpdatePosition(t, f, u, to, k, TRUE)
        /\ IF to = r.state THEN k <= Cardinality(S) ELSE Ranked(rows, T, "stateIndex")
    OBVIOUS
  <2> HIDE DEF x0, r, S, T, B
  <2>3. Landed(x0, r, S, T, to, k)
    BY <2>1, <2>2, ColumnStepOf
  <2> QED  BY <2>3 DEF T, x0, r, S, Landed
<1> QED  BY <1>1 DEF ColumnInsertsNow

(* A call of updatePosition without parents takes the task out of its list and puts it
   in at the position asked for, on a list that was in order, however long it is. *)
THEOREM TasksMoveInserts == Spec => MoveInserts
<1>1. TypeOK /\ [Next]_vars => [MoveInsertsNow]_vars
  BY MoveStepInserts
<1> QED  BY <1>1, BoardTypes, PTL DEF Spec, MoveInserts, MoveInsertsNow

(* The same of the columns of a board: within one, and from one to the top of
   another. *)
THEOREM TasksColumnInserts == Spec => ColumnInserts
<1>1. TypeOK /\ [Next]_vars => [ColumnInsertsNow]_vars
  BY ColumnStepInserts
<1> QED  BY <1>1, BoardTypes, PTL DEF Spec, ColumnInserts, ColumnInsertsNow
=============================================================================
