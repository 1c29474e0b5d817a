--------------------------- MODULE FolderTree_proofs ---------------------------
(***************************************************************************)
(* Proofs about FolderTree, for any set of folders and any orders in which *)
(* queries return rows.                                                    *)
(***************************************************************************)
EXTENDS FolderTree, Recursion, FiniteSetTheorems, SequenceTheorems, TLAPS

-----------------------------------------------------------------------------
(* What is reached through a set of relations *)

(* The relations there may be: from a node, or from no parent, to a node. *)
Relations == SUBSET ((Nodes \cup {Top}) \X Nodes)

LEMMA ReachIsClosed ==
    ASSUME NEW E \in Relations, NEW S \in SUBSET Nodes
    PROVE  Reach(E, S) \in Closed(E) /\ S \subseteq Reach(E, S)
BY DEF Relations, Reach, Closed

LEMMA ReachIsLeast ==
    ASSUME NEW E, NEW S, NEW T \in Closed(E), S \subseteq T
    PROVE  Reach(E, S) \subseteq T
BY DEF Reach

(* Fewer relations reach less. *)
LEMMA FewerReach ==
    ASSUME NEW E \in Relations, NEW D \in SUBSET E, NEW S \in SUBSET Nodes
    PROVE  Reach(D, S) \subseteq Reach(E, S)
<1>1. Reach(E, S) \in Closed(D) /\ S \subseteq Reach(E, S)
  BY ReachIsClosed DEF Closed
<1> QED  BY <1>1, ReachIsLeast

LEMMA ChildrenAreNodes ==
    ASSUME NEW E \in Relations, NEW x
    PROVE  Children(E, x) \in SUBSET Nodes
BY DEF Relations, Children

(* From a node one reaches the node, and what one reaches from its children. *)
LEMMA ReachFromOne ==
    ASSUME NEW E \in Relations, NEW x \in Nodes
    PROVE  Reach(E, {x}) = {x} \cup Reach(E, Children(E, x))
<1> DEFINE B == Reach(E, Children(E, x))
<1>1. B \in Closed(E) /\ Children(E, x) \subseteq B
  BY ChildrenAreNodes, ReachIsClosed
<1>2. {x} \cup B \in Closed(E)
  BY <1>1 DEF Closed, Children
<1>3. Reach(E, {x}) \subseteq {x} \cup B
  BY <1>2, ReachIsLeast
<1>4. Reach(E, {x}) \in Closed(E) /\ {x} \subseteq Reach(E, {x})
  BY ReachIsClosed
<1>5. Children(E, x) \subseteq Reach(E, {x})
  BY <1>4 DEF Closed, Children
<1>6. B \subseteq Reach(E, {x})
  BY <1>4, <1>5, ReachIsLeast
<1> QED  BY <1>3, <1>4, <1>6

(* What is reached from what is reached is reached. *)
LEMMA ReachOn ==
    ASSUME NEW E \in Relations, NEW S \in SUBSET Nodes, NEW x \in Reach(E, S)
    PROVE  Reach(E, {x}) \subseteq Reach(E, S)
BY ReachIsClosed, ReachIsLeast

NoLoopIn(E) == \A x \in Nodes : x \notin Reach(E, Children(E, x))

(* A relation added closes no loop when its parent is not reached from its child. *)
LEMMA AddedRelation ==
    ASSUME NEW E \in Relations, NoLoopIn(E),
           NEW p \in Nodes \cup {Top}, NEW f \in Nodes, p \notin Reach(E, {f}),
           NEW D \in SUBSET (E \cup {<<p, f>>})
    PROVE  NoLoopIn(D)
<1> DEFINE R == Reach(E, {f})
<1>1. R \in Closed(E) /\ f \in R /\ R \subseteq Nodes
  BY ReachIsClosed DEF Closed
<1>2. SUFFICES ASSUME NEW x \in Nodes  PROVE x \notin Reach(D, Children(D, x))
  BY DEF NoLoopIn
<1> DEFINE B == Reach(E, Children(E, x))
<1>3. B \in Closed(E) /\ Children(E, x) \subseteq B /\ x \notin B
  BY ChildrenAreNodes, ReachIsClosed DEF NoLoopIn
<1>4. CASE x \in R
  <2>1. Children(E, x) \subseteq R /\ x # p
    BY <1>1, <1>4 DEF Closed, Children
  <2>2. B \subseteq R
    BY <1>1, <2>1, ReachIsLeast
  <2>3. B \in Closed(D)
    BY <1>3, <2>2 DEF Closed
  <2>4. Children(D, x) \subseteq B
    BY <1>3, <2>1 DEF Children
  <2>5. Reach(D, Children(D, x)) \subseteq B
    BY <2>3, <2>4, ReachIsLeast
  <2> QED  BY <1>3, <2>5
<1>5. CASE x \notin R
  <2>1. B \cup R \in Closed(D)
    BY <1>1, <1>3 DEF Closed
  <2>2. Children(D, x) \subseteq B \cup R
    BY <1>1, <1>3 DEF Children
  <2>3. Reach(D, Children(D, x)) \subseteq B \cup R
    BY <2>1, <2>2, ReachIsLeast
  <2> QED  BY <1>3, <1>5, <2>3
<1> QED  BY <1>4, <1>5

LEMMA FewerLoops ==
    ASSUME NEW E \in Relations, NoLoopIn(E), NEW D \in SUBSET E
    PROVE  NoLoopIn(D)
<1> SUFFICES ASSUME NEW x \in Nodes  PROVE x \notin Reach(D, Children(D, x))
  BY DEF NoLoopIn
<1>1. Children(D, x) \subseteq Children(E, x) /\ Children(E, x) \in SUBSET Nodes
  BY ChildrenAreNodes DEF Children
<1>2. Reach(E, Children(E, x)) \in Closed(E) /\ Children(E, x) \subseteq Reach(E, Children(E, x))
  BY <1>1, ReachIsClosed
<1>3. Reach(E, Children(E, x)) \in Closed(D)
  BY <1>2 DEF Closed
<1>4. Reach(D, Children(D, x)) \subseteq Reach(E, Children(E, x))
  BY <1>1, <1>2, <1>3, ReachIsLeast
<1> QED  BY <1>4 DEF NoLoopIn

(* From a folder one does not come back up to another one that it is reached from. *)
LEMMA NotBackUp ==
    ASSUME NEW E \in Relations, NoLoopIn(E), NEW D \in SUBSET E,
           NEW s \in Nodes, NEW f \in Reach(D, {s}), s # f
    PROVE  s \notin Reach(E, {f})
<1>1. f \in Reach(E, {s})
  BY FewerReach
<1>2. f \in Reach(E, Children(E, s))
  BY <1>1, ReachFromOne
<1>3. Reach(E, {f}) \subseteq Reach(E, Children(E, s))
  BY <1>2, ReachOn, ChildrenAreNodes
<1> QED  BY <1>3 DEF NoLoopIn
-----------------------------------------------------------------------------
(* archiveRecursive and deleteRecursive *)

(* The children of a node: its homes, and all of them. *)
LEMMA ChildHomesAre ==
    ASSUME NEW H, NEW p, NEW ord \in Orders
    PROVE  /\ ChildHomes(H, p, ord) \in Seq({e \in H : e[1] = p})
           /\ \A c \in Folders : <<p, c>> \in H =>
                 \E i \in DOMAIN ChildHomes(H, p, ord) : ChildHomes(H, p, ord)[i] = <<p, c>>
<1> DEFINE D == Seq({e \in H : e[1] = p})
           K == Len(ord)
           first[n \in 0..Len(ord)] ==
               IF n = 0 THEN << >>
               ELSE IF <<p, ord[n]>> \in H THEN Append(first[n - 1], <<p, ord[n]>>) ELSE first[n - 1]
           V == [n \in 1..K |-> [s \in D |-> IF <<p, ord[n]>> \in H THEN Append(s, <<p, ord[n]>>) ELSE s]]
<1>1. ChildHomes(H, p, ord) = first[K]
  BY DEF ChildHomes
<1>2. K \in Nat /\ ord \in Seq(Folders) /\ DOMAIN ord = 1..K
  BY OrdersAssumption
<1>3. << >> \in D /\ \A n \in 1..K, s \in D : <<p, ord[n]>> \in H => Append(s, <<p, ord[n]>>) \in D
  BY AppendProperties
<1>4. first = [n \in 0..K |->
                  IF n = 0 THEN << >>
                  ELSE IF <<p, ord[n]>> \in H THEN Append(first[n - 1], <<p, ord[n]>>) ELSE first[n - 1]]
  <2>1. V \in Rules(D, K)
    BY <1>3 DEF Rules
  <2>2. \A n \in 1..K, s \in D : V[n][s] = IF <<p, ord[n]>> \in H THEN Append(s, <<p, ord[n]>>) ELSE s
    OBVIOUS
  <2> HIDE DEF V, D
  <2> DEFINE a == << >>
  <2>7. a \in D /\ K \in Nat
    BY <1>2, <1>3
  <2> HIDE DEF K, a
  <2>8. PICK f \in [0..K -> D] : f[0] = a /\ \A n \in 1..K : f[n] = V[n][f[n - 1]]
    BY <2>7, <2>1, Iterates
  <2>3. f \in [0..K -> D] /\ f = [n \in 0..K |-> IF n = 0 THEN << >> ELSE V[n][f[n - 1]]]
    <3>1. \A n \in 0..K : n # 0 => n \in 1..K
      BY <2>7
    <3>2. \A n \in 0..K : f[n] = IF n = 0 THEN << >> ELSE V[n][f[n - 1]]
      BY <2>8, <3>1 DEF a
    <3> QED  BY <3>2
  <2> USE DEF K
  <2>4. \A n \in 0..K :
           (IF n = 0 THEN << >> ELSE V[n][f[n - 1]])
             = IF n = 0 THEN << >>
               ELSE IF <<p, ord[n]>> \in H THEN Append(f[n - 1], <<p, ord[n]>>) ELSE f[n - 1]
    <3>1. \A n \in 1..K : f[n - 1] \in D
      BY <1>2
    <3> QED  BY <2>2, <3>1, <1>2
  <2>5. f = [n \in 0..K |->
                IF n = 0 THEN << >>
                ELSE IF <<p, ord[n]>> \in H THEN Append(f[n - 1], <<p, ord[n]>>) ELSE f[n - 1]]
    BY <2>3, <2>4, Zenon
  <2>6. first = CHOOSE g : g = [n \in 0..K |->
                IF n = 0 THEN << >>
                ELSE IF <<p, ord[n]>> \in H THEN Append(g[n - 1], <<p, ord[n]>>) ELSE g[n - 1]]
    OBVIOUS
  <2> HIDE DEF first
  <2> QED  BY <2>5, <2>6, Zenon
<1> HIDE DEF first, V, D
<1>5. \A n \in 0..K :
         first[n] = IF n = 0 THEN << >>
                    ELSE IF <<p, ord[n]>> \in H THEN Append(first[n - 1], <<p, ord[n]>>) ELSE first[n - 1]
  BY <1>4, Zenon
<1> DEFINE Q == {n \in 0..K :
                    /\ first[n] \in D
                    /\ \A m \in 1..n : <<p, ord[m]>> \in H =>
                          \E i \in DOMAIN first[n] : first[n][i] = <<p, ord[m]>>}
<1>6. 0 \in Q
  <2>1. 0 \in 0..K /\ first[0] = << >>
    <3> HIDE DEF K
    <3>1. 0 \in 0..K
      BY <1>2
    <3> QED  BY <3>1, <1>5, Zenon
  <2>2. \A m \in 1..0 : FALSE
    OBVIOUS
  <2> HIDE DEF K
  <2> QED  BY <1>3, <2>1, <2>2
<1>7. ASSUME NEW n \in 1..K, n - 1 \in Q  PROVE n \in Q
  <2> DEFINE s == first[n - 1]
             e == <<p, ord[n]>>
  <2>1. /\ s \in D /\ n \in 0..K
        /\ \A m \in 1..(n - 1) : <<p, ord[m]>> \in H => \E i \in DOMAIN s : s[i] = <<p, ord[m]>>
    <3> HIDE DEF K
    <3>1. n - 1 \in 0..K /\ n \in 0..K
      BY <1>2
    <3>2. /\ first[n - 1] \in D
          /\ \A m \in 1..(n - 1) : <<p, ord[m]>> \in H =>
                \E i \in DOMAIN first[n - 1] : first[n - 1][i] = <<p, ord[m]>>
      BY <1>7, Zenon
    <3> QED  BY <3>1, <3>2
  <2>2. first[n] = IF e \in H THEN Append(s, e) ELSE s
    BY <1>2, <1>5
  <2>3. \A m \in 1..n : m \in 1..(n - 1) \/ m = n
    BY <1>2
  <2>4. CASE e \in H
    <3>1. /\ Append(s, e) \in D /\ e \in {d \in H : d[1] = p}
          /\ s \in Seq({d \in H : d[1] = p})
      BY <1>3, <2>1, <2>4 DEF D
    <3>2. /\ DOMAIN Append(s, e) = 1..(Len(s) + 1) /\ DOMAIN s = 1..Len(s) /\ Len(s) \in Nat
          /\ \A i \in 1..Len(s) : Append(s, e)[i] = s[i]
          /\ Append(s, e)[Len(s) + 1] = e
      BY <3>1, AppendProperties
    <3> DEFINE a == Append(s, e)
    <3>3. \A m \in 1..n : <<p, ord[m]>> \in H => \E i \in DOMAIN a : a[i] = <<p, ord[m]>>
      <4> SUFFICES ASSUME NEW m \in 1..n, <<p, ord[m]>> \in H
                   PROVE  \E i \in DOMAIN a : a[i] = <<p, ord[m]>>
        OBVIOUS
      <4>1. CASE m = n
        <5>1. Len(s) + 1 \in DOMAIN a /\ a[Len(s) + 1] = <<p, ord[m]>>
          BY <3>2, <4>1
        <5> QED  BY <5>1
      <4>2. CASE m \in 1..(n - 1)
        <5>1. PICK i \in DOMAIN s : s[i] = <<p, ord[m]>>
          BY <2>1, <4>2
        <5>2. i \in DOMAIN a /\ a[i] = <<p, ord[m]>>
          BY <3>2, <5>1
        <5> QED  BY <5>2
      <4> QED  BY <2>3, <4>1, <4>2
    <3> QED  BY <2>1, <2>2, <2>4, <3>1, <3>3
  <2>5. CASE e \notin H
    <3>1. first[n] = s
      BY <2>2, <2>5
    <3>2. \A m \in 1..n : <<p, ord[m]>> \in H => m \in 1..(n - 1)
      BY <2>3, <2>5
    <3> QED  BY <2>1, <3>1, <3>2
  <2> QED  BY <2>4, <2>5
<1>8. Q = 0..K
  <2> HIDE DEF Q
  <2>1. Q \subseteq 0..K
    BY DEF Q
  <2> QED  BY <1>2, <1>6, <1>7, <2>1, UpTo
<1>9. K \in Q
  <2> HIDE DEF Q, K
  <2> QED  BY <1>2, <1>8
<1>10. \A c \in Folders : <<p, c>> \in H => \E i \in DOMAIN first[K] : first[K][i] = <<p, c>>
  <2> SUFFICES ASSUME NEW c \in Folders, <<p, c>> \in H
               PROVE  \E i \in DOMAIN first[K] : first[K][i] = <<p, c>>
    OBVIOUS
  <2>1. PICK m \in 1..K : ord[m] = c
    BY <1>2, OrdersAssumption
  <2> QED  BY <1>9, <2>1
<1> QED  BY <1>1, <1>9, <1>10 DEF D

(* What holds at the start of a walk and at each child looked at holds at its end. *)
LEMMA SweepKeeps ==
    ASSUME NEW x, NEW gone0, NEW ord, NEW copiesCount, NEW G,
           [todo |-> ChildHomes(home, x, ord), gone |-> gone0 \cup {x}, home |-> home] \in G,
           \A s \in G : s.todo # << >> => Visit(s, ord, copiesCount) \in G
    PROVE  Sweep(x, gone0, ord, copiesCount) \in G
<1> DEFINE start == [todo |-> ChildHomes(home, x, ord), gone |-> gone0 \cup {x}, home |-> home]
           On(s) == IF s.todo = << >> THEN s ELSE Visit(s, ord, copiesCount)
           at[n \in 0..MaxVisits] ==
               IF n = 0 THEN start
               ELSE LET last == at[n - 1]
                    IN  IF last.todo = << >> THEN last ELSE Visit(last, ord, copiesCount)
           V == [n \in 1..MaxVisits |-> [s \in G |-> On(s)]]
<1>1. Sweep(x, gone0, ord, copiesCount) = at[MaxVisits]
  BY DEF Sweep
<1>2. at = CHOOSE g : g = [n \in 0..MaxVisits |-> IF n = 0 THEN start ELSE On(g[n - 1])]
  OBVIOUS
<1>3. start \in G /\ \A s \in G : On(s) \in G
  OBVIOUS
<1> HIDE DEF at, start, On
<1>4. V \in Rules(G, MaxVisits) /\ \A n \in 1..MaxVisits, s \in G : V[n][s] = On(s)
  BY <1>3 DEF Rules
<1> HIDE DEF V
<1>5. PICK f \in [0..MaxVisits -> G] : f[0] = start /\ \A n \in 1..MaxVisits : f[n] = V[n][f[n - 1]]
  BY <1>3, <1>4, VisitsAssumption, Iterates
<1>6. \A n \in 0..MaxVisits : n # 0 => n \in 1..MaxVisits /\ n - 1 \in 0..MaxVisits
  BY VisitsAssumption
<1>7. \A n \in 0..MaxVisits : f[n] = IF n = 0 THEN start ELSE On(f[n - 1])
  BY <1>4, <1>5, <1>6
<1>8. f = [n \in 0..MaxVisits |-> IF n = 0 THEN start ELSE On(f[n - 1])]
  BY <1>7
<1>9. at = [n \in 0..MaxVisits |-> IF n = 0 THEN start ELSE On(at[n - 1])]
  BY <1>2, <1>8, Zenon
<1> DEFINE Q == {n \in 0..MaxVisits : at[n] \in G}
<1>10. \A n \in 0..MaxVisits : at[n] = IF n = 0 THEN start ELSE On(at[n - 1])
  BY <1>9, Zenon
<1>11. 0 \in Q
  BY <1>3, <1>10, VisitsAssumption
<1>12. ASSUME NEW n \in 1..MaxVisits, n - 1 \in Q  PROVE n \in Q
  <2>1. n \in 0..MaxVisits /\ n # 0 /\ at[n - 1] \in G
    BY <1>12, VisitsAssumption
  <2> QED  BY <2>1, <1>3, <1>10
<1>13. Q = 0..MaxVisits
  <2> HIDE DEF Q
  <2>1. Q \subseteq 0..MaxVisits
    BY DEF Q
  <2> QED  BY <1>11, <1>12, <2>1, VisitsAssumption, UpTo
<1>14. MaxVisits \in 0..MaxVisits
  BY VisitsAssumption
<1>15. at[MaxVisits] \in G
  BY <1>13, <1>14
<1> QED  BY <1>1, <1>15

SpaceIsRoot == \A e \in links : e[2] = Space => e[1] = Top

(* A walk at x from the rows gone0: what is gone are rows, x and gone0 with them;
   the children that wait are homes below what is gone; no folder lost its last
   parent; and some of what is gone holds x and, with each of its members, the
   folders at home below it, but for those that wait. *)
Taken(x, s) ==
    \E W \in SUBSET s.gone :
        /\ x \in W
        /\ \A e \in s.home : e[1] \in W =>
              e[2] \in W \/ \E i \in DOMAIN s.todo : s.todo[i] = e

Walks(x, gone0) ==
    {s \in [todo : Seq(home), gone : SUBSET known, home : SUBSET home] :
        /\ gone0 \cup {x} \subseteq s.gone
        /\ \A i \in DOMAIN s.todo : s.todo[i][1] \in s.gone
        /\ \A f \in known : Parents(links, f) \cap Nodes # {} =>
                               Parents(s.home \cup bind, f) \cap Nodes # {}
        /\ Taken(x, s)}

LEMMA WalkStarts ==
    ASSUME TypeOK, SpaceIsRoot, NEW x \in known, NEW gone0 \in SUBSET known, NEW ord \in Orders
    PROVE  [todo |-> ChildHomes(home, x, ord), gone |-> gone0 \cup {x}, home |-> home]
              \in Walks(x, gone0)
<1> DEFINE todo == ChildHomes(home, x, ord)
           s == [todo |-> todo, gone |-> gone0 \cup {x}, home |-> home]
<1>1. /\ todo \in Seq({e \in home : e[1] = x})
      /\ \A c \in Folders : <<x, c>> \in home => \E i \in DOMAIN todo : todo[i] = <<x, c>>
  BY ChildHomesAre
<1> HIDE DEF todo
<1>2. todo \in Seq(home) /\ \A i \in DOMAIN todo : todo[i][1] = x
  BY <1>1
<1>3. \A e \in home : e[1] = x => \E i \in DOMAIN todo : todo[i] = e
  <2> SUFFICES ASSUME NEW e \in home, e[1] = x  PROVE \E i \in DOMAIN todo : todo[i] = e
    OBVIOUS
  <2>1. e = <<x, e[2]>> /\ e[2] \in Nodes /\ x # Top
    BY NodesAssumption DEF TypeOK, Nodes
  <2>2. e[2] # Space
    BY <2>1 DEF SpaceIsRoot, links
  <2> QED  BY <1>1, <2>1, <2>2 DEF Nodes
<1>4. Taken(x, s)
  <2>1. s.gone = gone0 \cup {x} /\ s.home = home /\ s.todo = todo
    OBVIOUS
  <2>2. {x} \in SUBSET s.gone
    BY <2>1
  <2> HIDE DEF s
  <2>3. \A e \in s.home : e[1] \in {x} => \E i \in DOMAIN s.todo : s.todo[i] = e
    BY <1>3, <2>1
  <2> QED  BY <2>2, <2>3 DEF Taken
<1>5. s \in [todo : Seq(home), gone : SUBSET known, home : SUBSET home]
  BY <1>2
<1>6. home \cup bind = links
  BY DEF links
<1>7. s.gone = gone0 \cup {x} /\ s.home = home /\ s.todo = todo
  OBVIOUS
<1>8. s \in Walks(x, gone0)
  <2> HIDE DEF s
  <2> QED  BY <1>2, <1>4, <1>5, <1>6, <1>7 DEF Walks
<1> QED  BY <1>8 DEF todo

LEMMA WalkGoesOn ==
    ASSUME TypeOK, SpaceIsRoot, NEW x, NEW gone0, NEW ord \in Orders, NEW copiesCount \in BOOLEAN,
           NEW s \in Walks(x, gone0), s.todo # << >>
    PROVE  Visit(s, ord, copiesCount) \in Walks(x, gone0)
<1> DEFINE e == Head(s.todo)
           c == e[2]
           rest == Tail(s.todo)
           more == ChildHomes(s.home, c, ord)
           counts == IF copiesCount THEN s.home \cup bind ELSE s.home
           t == [s EXCEPT !.todo = rest, !.home = @ \ {e}]
           u == [s EXCEPT !.todo = more \o rest, !.gone = @ \cup {c}]
<1>1. /\ s \in [todo : Seq(home), gone : SUBSET known, home : SUBSET home]
      /\ s.todo \in Seq(home) /\ s.gone \in SUBSET known /\ s.home \in SUBSET home
      /\ gone0 \cup {x} \subseteq s.gone
      /\ \A i \in DOMAIN s.todo : s.todo[i][1] \in s.gone
      /\ \A f \in known : Parents(links, f) \cap Nodes # {} =>
                             Parents(s.home \cup bind, f) \cap Nodes # {}
  BY DEF Walks
<1>2. PICK W \in SUBSET s.gone :
         /\ x \in W
         /\ \A d \in s.home : d[1] \in W =>
               d[2] \in W \/ \E i \in DOMAIN s.todo : s.todo[i] = d
  BY DEF Walks, Taken
<1>3. /\ e \in home /\ e[1] \in s.gone /\ rest \in Seq(home)
      /\ \A i \in DOMAIN rest : i + 1 \in DOMAIN s.todo /\ rest[i] = s.todo[i + 1]
      /\ \A i \in DOMAIN s.todo : s.todo[i] = e \/ (i - 1 \in DOMAIN rest /\ rest[i - 1] = s.todo[i])
  BY <1>1, HeadTailProperties
<1>4. e = <<e[1], c>> /\ c \in known
  BY <1>3 DEF TypeOK
<1>5. Visit(s, ord, copiesCount) =
         IF (Parents(counts, c) \cap Nodes) \ s.gone # {} THEN t ELSE u
  BY DEF Visit
<1> HIDE DEF e, c, rest, more
<1>6. CASE (Parents(counts, c) \cap Nodes) \ s.gone # {}
  <2>1. /\ t \in [todo : Seq(home), gone : SUBSET known, home : SUBSET home]
        /\ t.todo = rest /\ t.gone = s.gone /\ t.home = s.home \ {e}
    BY <1>1, <1>3
  <2> HIDE DEF t
  <2>2. PICK q \in Nodes : q \notin s.gone /\ <<q, c>> \in s.home \cup bind
    <3>1. PICK q \in Nodes : q \in Parents(counts, c) /\ q \notin s.gone
      BY <1>6
    <3>2. PICK d \in counts : d[1] = q /\ d[2] = c
      BY <3>1 DEF Parents
    <3>3. d \in s.home \cup bind /\ d = <<q, c>>
      BY <3>2, <1>1 DEF TypeOK
    <3> QED  BY <3>1, <3>3
  <2>3. \A f \in known : Parents(links, f) \cap Nodes # {} =>
                            Parents(t.home \cup bind, f) \cap Nodes # {}
    <3> SUFFICES ASSUME NEW f \in known, Parents(links, f) \cap Nodes # {}
                 PROVE  \E d \in t.home \cup bind : d[2] = f /\ d[1] \in Nodes
      BY DEF Parents
    <3>1. CASE f = c
      <4>1. <<q, c>> # e
        BY <1>3, <2>2
      <4> QED  BY <2>1, <2>2, <3>1, <4>1
    <3>2. CASE f # c
      <4>1. PICK d \in s.home \cup bind : d[2] = f /\ d[1] \in Nodes
        BY <1>1 DEF Parents
      <4>2. d # e
        BY <1>4, <3>2, <4>1
      <4> QED  BY <2>1, <4>1, <4>2
    <3> QED  BY <3>1, <3>2
  <2>4. \A i \in DOMAIN t.todo : t.todo[i][1] \in t.gone
    BY <1>1, <1>3, <2>1
  <2>5. Taken(x, t)
    <3>1. \A d \in t.home : d[1] \in W => d[2] \in W \/ \E i \in DOMAIN t.todo : t.todo[i] = d
      BY <1>2, <1>3, <2>1
    <3>2. W \in SUBSET t.gone
      BY <2>1
    <3> QED  BY <1>2, <3>1, <3>2 DEF Taken
  <2>6. t \in Walks(x, gone0)
    BY <1>1, <2>1, <2>3, <2>4, <2>5 DEF Walks
  <2> QED  BY <1>5, <1>6, <2>6 DEF t
<1>7. CASE ~ ((Parents(counts, c) \cap Nodes) \ s.gone # {})
  <2>1. /\ more \in Seq({d \in s.home : d[1] = c})
        /\ \A d \in Folders : <<c, d>> \in s.home => \E i \in DOMAIN more : more[i] = <<c, d>>
    BY ChildHomesAre DEF more
  <2>2. more \in Seq(home) /\ \A i \in DOMAIN more : more[i][1] = c
    BY <1>1, <2>1
  <2>3. /\ more \o rest \in Seq(home)
        /\ \A i \in DOMAIN more : i \in DOMAIN (more \o rest) /\ (more \o rest)[i] = more[i]
        /\ \A i \in DOMAIN rest : /\ i + Len(more) \in DOMAIN (more \o rest)
                                  /\ (more \o rest)[i + Len(more)] = rest[i]
        /\ \A i \in DOMAIN (more \o rest) :
              \/ i \in DOMAIN more /\ (more \o rest)[i] = more[i]
              \/ i - Len(more) \in DOMAIN rest /\ (more \o rest)[i] = rest[i - Len(more)]
    BY <1>3, <2>2, ConcatProperties
  <2> DEFINE all == more \o rest
  <2> HIDE DEF all
  <2>4. /\ u \in [todo : Seq(home), gone : SUBSET known, home : SUBSET home]
        /\ u.todo = all /\ u.gone = s.gone \cup {c} /\ u.home = s.home
    BY <1>1, <1>4, <2>3 DEF all
  <2> HIDE DEF u
  <2>5. \A i \in DOMAIN u.todo : u.todo[i][1] \in u.gone
    <3> SUFFICES ASSUME NEW i \in DOMAIN all  PROVE all[i][1] \in s.gone \cup {c}
      BY <2>4
    <3>1. CASE i \in DOMAIN more /\ all[i] = more[i]
      BY <2>2, <3>1
    <3>2. CASE i - Len(more) \in DOMAIN rest /\ all[i] = rest[i - Len(more)]
      BY <1>1, <1>3, <3>2
    <3> QED  BY <2>3, <3>1, <3>2 DEF all
  <2>6. Taken(x, u)
    <3>1. \A d \in u.home : d[1] \in W \cup {c} =>
             d[2] \in W \cup {c} \/ \E i \in DOMAIN u.todo : u.todo[i] = d
      <4> SUFFICES ASSUME NEW d \in s.home, d[1] \in W \cup {c}, d[2] \notin W \cup {c}
                   PROVE  \E i \in DOMAIN all : all[i] = d
        BY <2>4
      <4>1. CASE d[1] = c
        <5>1. d = <<c, d[2]>> /\ d[2] \in Nodes /\ c # Top
          BY <1>1, <1>4, <4>1, NodesAssumption DEF TypeOK, Nodes
        <5>2. d[2] # Space
          BY <1>1, <5>1 DEF SpaceIsRoot, links
        <5>3. PICK i \in DOMAIN more : more[i] = d
          BY <2>1, <5>1, <5>2 DEF Nodes
        <5> QED  BY <2>3, <5>3 DEF all
      <4>2. CASE d[1] \in W
        <5>1. PICK i \in DOMAIN s.todo : s.todo[i] = d
          BY <1>2, <4>2
        <5>2. i - 1 \in DOMAIN rest /\ rest[i - 1] = d
          BY <1>3, <1>4, <5>1
        <5> QED  BY <2>3, <5>2 DEF all
      <4> QED  BY <4>1, <4>2
    <3>2. W \cup {c} \in SUBSET u.gone
      BY <2>4
    <3> QED  BY <1>2, <3>1, <3>2 DEF Taken
  <2>7. u \in Walks(x, gone0)
    BY <1>1, <2>4, <2>5, <2>6 DEF Walks
  <2> QED  BY <1>5, <1>7, <2>7 DEF u
<1> QED  BY <1>6, <1>7

LEMMA WalkEnds ==
    ASSUME TypeOK, SpaceIsRoot, NEW x \in known, NEW gone0 \in SUBSET known, NEW ord \in Orders,
           NEW copiesCount \in BOOLEAN
    PROVE  Sweep(x, gone0, ord, copiesCount) \in Walks(x, gone0)
<1> DEFINE G == Walks(x, gone0)
<1>1. [todo |-> ChildHomes(home, x, ord), gone |-> gone0 \cup {x}, home |-> home] \in G
  BY WalkStarts
<1>2. \A s \in G : s.todo # << >> => Visit(s, ord, copiesCount) \in G
  BY WalkGoesOn
<1> HIDE DEF G
<1>3. Sweep(x, gone0, ord, copiesCount) \in G
  BY <1>1, <1>2, SweepKeeps
<1> QED  BY <1>3 DEF G

-----------------------------------------------------------------------------
(* What holds of every state *)

(* A space hangs below nothing: what the recursion over the folders of a parent
   never looks at is no child. *)
TreeInv == TypeOK /\ SpaceIsRoot /\ Acyclic

LEMMA LinksAreRelations ==
    ASSUME TypeOK
    PROVE  links \in Relations /\ home \in Relations
BY DEF TypeOK, Relations, links, Nodes

LEMMA NothingBelowUnknown ==
    ASSUME TypeOK, NEW x \in Nodes \ known
    PROVE  Below(x) = {}
<1>1. Children(links, x) = {}
  BY NodesAssumption DEF TypeOK, Children, links, Nodes
<1>2. {} \in Closed(links)
  BY DEF Closed
<1> QED  BY <1>1, <1>2, ReachIsLeast DEF Below

LEMMA AcyclicIs ==
    ASSUME TypeOK
    PROVE  Acyclic <=> NoLoopIn(links)
<1>1. \A x \in Nodes \ known : x \notin Below(x)
  BY NothingBelowUnknown
<1>2. known \subseteq Nodes
  BY DEF TypeOK
<1> QED  BY <1>1, <1>2 DEF Acyclic, NoLoopIn, Below

(* A root is a row that hangs below the missing parent. *)
LEMMA RootsAreRows ==
    ASSUME TypeOK, NEW E, NEW f
    PROVE  RootsIn(E, f) \subseteq known /\ LiveRoots(f) \subseteq known
BY DEF TypeOK, RootsIn, LiveRoots, Live, Children

(* What a walk leaves of the relations. *)
LEMMA WalkLeaves ==
    ASSUME TypeOK, SpaceIsRoot, NEW x \in known, NEW gone0 \in SUBSET known, NEW ord \in Orders,
           NEW copiesCount \in BOOLEAN
    PROVE  /\ Sweep(x, gone0, ord, copiesCount).gone \in SUBSET known
           /\ Sweep(x, gone0, ord, copiesCount).home \in SUBSET home
           /\ \A f \in known : Parents(links, f) \cap Nodes # {} =>
                 Parents(Sweep(x, gone0, ord, copiesCount).home \cup bind, f) \cap Nodes # {}
<1> DEFINE s == Sweep(x, gone0, ord, copiesCount)
<1>1. s \in Walks(x, gone0)
  BY WalkEnds
<1> HIDE DEF s
<1>2. /\ s.gone \in SUBSET known /\ s.home \in SUBSET home
      /\ \A f \in known : Parents(links, f) \cap Nodes # {} =>
                             Parents(s.home \cup bind, f) \cap Nodes # {}
  BY <1>1 DEF Walks
<1> QED  BY <1>2 DEF s

LEMMA InitTree == Init => TreeInv
<1> SUFFICES ASSUME Init  PROVE TreeInv
  OBVIOUS
<1> USE DEF Init
<1>1. TypeOK
  BY NodesAssumption DEF TypeOK, Nodes
<1>2. SpaceIsRoot
  BY DEF SpaceIsRoot, links
<1>3. Acyclic
  <2>1. Children(links, Space) = {}
    BY NodesAssumption DEF Children, links
  <2>2. {} \in Closed(links)
    BY DEF Closed
  <2>3. Below(Space) = {}
    BY <2>1, <2>2, ReachIsLeast DEF Below
  <2> QED  BY <2>3 DEF Acyclic
<1> QED  BY <1>1, <1>2, <1>3 DEF TreeInv

LEMMA StepTypes == TypeOK /\ SpaceIsRoot /\ [Next]_vars => TypeOK' /\ SpaceIsRoot'
<1> SUFFICES ASSUME TypeOK, SpaceIsRoot, [Next]_vars  PROVE TypeOK' /\ SpaceIsRoot'
  OBVIOUS
<1> USE NodesAssumption
<1>1. ASSUME NEW p \in Nodes, NEW f \in Folders, Create(p, f)  PROVE TypeOK' /\ SpaceIsRoot'
  <2>1. p \in known /\ f # Space
    BY <1>1 DEF TypeOK, Create, Parents, Nodes
  <2> QED  BY <1>1, <2>1 DEF TypeOK, SpaceIsRoot, Create, links, Nodes
<1>2. ASSUME NEW p \in Folders, NEW f \in Folders, Bind(p, f)  PROVE TypeOK' /\ SpaceIsRoot'
  BY <1>2 DEF TypeOK, SpaceIsRoot, Bind, links
<1>3. ASSUME NEW p \in Folders, NEW f \in Folders, Unbind(p, f)  PROVE TypeOK' /\ SpaceIsRoot'
  <2>1. PICK s \in IF LiveRoots(f) = {} THEN {Top} ELSE LiveRoots(f) :
           home' = (home \ {<<p, f>>}) \cup
                      {<<q, f>> : q \in IF Parents(links, f) = {p} THEN {s} ELSE {}}
    BY <1>3 DEF Unbind
  <2>2. s \in known \cup {Top} /\ f \in known /\ f # Space
    BY <1>3, <2>1, RootsAreRows DEF Unbind, TypeOK, links
  <2>3. bind' = bind \ {<<p, f>>} /\ known' = known /\ archived' = archived /\ deleted' = deleted
    BY <1>3 DEF Unbind
  <2>4. CASE Parents(links, f) = {p}
    <3>1. home' = (home \ {<<p, f>>}) \cup {<<s, f>>}
      BY <2>1, <2>4
    <3>2. <<s, f>> \notin bind'
      BY <2>3, <2>4 DEF Parents, links
    <3> QED  BY <2>2, <2>3, <3>1, <3>2 DEF TypeOK, SpaceIsRoot, links
  <2>5. CASE Parents(links, f) # {p}
    <3>1. home' = home \ {<<p, f>>}
      BY <2>1, <2>5
    <3> QED  BY <2>3, <3>1 DEF TypeOK, SpaceIsRoot, links
  <2> QED  BY <2>4, <2>5
<1>4. ASSUME NEW old \in Nodes, NEW new \in Nodes, NEW f \in Folders, Move(old, new, f)
      PROVE  TypeOK' /\ SpaceIsRoot'
  <2>1. f \in known /\ f # Space
    BY <1>4 DEF Move, TypeOK, links
  <2> QED  BY <1>4, <2>1 DEF TypeOK, SpaceIsRoot, Move, links
<1>5. ASSUME NEW x \in Nodes, Archive(x)  PROVE TypeOK' /\ SpaceIsRoot'
  <2>1. x \in known /\ archived \in SUBSET known /\ FALSE \in BOOLEAN
    BY <1>5 DEF Archive, TypeOK
  <2>2. PICK ord \in Orders : /\ archived' = Sweep(x, archived, ord, FALSE).gone
                              /\ home' = Sweep(x, archived, ord, FALSE).home
    BY <1>5 DEF Archive
  <2>3. archived' \in SUBSET known /\ home' \in SUBSET home
    BY <2>1, <2>2, WalkLeaves
  <2>4. known' = known /\ deleted' = deleted /\ bind' = bind
    BY <1>5 DEF Archive
  <2> QED  BY <2>3, <2>4 DEF TypeOK, SpaceIsRoot, links
<1>6. ASSUME NEW x \in Nodes, Delete(x)  PROVE TypeOK' /\ SpaceIsRoot'
  <2>1. x \in known /\ deleted \in SUBSET known /\ TRUE \in BOOLEAN
    BY <1>6 DEF Delete, TypeOK
  <2>2. PICK ord \in Orders : /\ deleted' = Sweep(x, deleted, ord, TRUE).gone
                              /\ home' = Sweep(x, deleted, ord, TRUE).home
    BY <1>6 DEF Delete
  <2>3. deleted' \in SUBSET known /\ home' \in SUBSET home
    BY <2>1, <2>2, WalkLeaves
  <2>4. known' = known /\ archived' = archived \ {x} /\ bind' = bind
    BY <1>6 DEF Delete
  <2> QED  BY <2>3, <2>4 DEF TypeOK, SpaceIsRoot, links
<1>7. ASSUME NEW x \in Nodes, RestoreArchived(x)  PROVE TypeOK' /\ SpaceIsRoot'
  <2>1. /\ x \in known /\ known' = known /\ deleted' = deleted
        /\ archived' = archived \ (Below(x) \cup {x})
    BY <1>7 DEF RestoreArchived
  <2>2. CASE x = Space
    <3>1. home' = home /\ bind' = bind
      BY <1>7, <2>2 DEF RestoreArchived
    <3> QED  BY <2>1, <3>1 DEF TypeOK, SpaceIsRoot, links
  <2>3. CASE x # Space
    <3> DEFINE hidden == {p \in Parents(links, x) : p \in archived' \/ (p = Top /\ archived' # {})}
               moved  == hidden \cap Parents(home, x)
    <3>1. /\ bind' = bind \ {<<p, x>> : p \in hidden}
          /\ \E s \in RootsIn(links, x) \cup (IF RootsIn(links, x) = {} THEN {Top} ELSE {}) :
                /\ moved # {} => s # x /\ (s \in hidden \/ <<s, x>> \notin links)
                /\ home' = (home \ {<<p, x>> : p \in hidden}) \cup {<<s, x>> : p \in moved}
      BY <1>7, <2>3 DEF RestoreArchived
    <3> HIDE DEF hidden
    <3>2. PICK s \in RootsIn(links, x) \cup (IF RootsIn(links, x) = {} THEN {Top} ELSE {}) :
             /\ moved # {} => s # x /\ (s \in hidden \/ <<s, x>> \notin links)
             /\ home' = (home \ {<<p, x>> : p \in hidden}) \cup {<<s, x>> : p \in moved}
      BY <3>1
    <3>3. s \in known \cup {Top}
      BY RootsAreRows
    <3>4. CASE moved = {}
      <4>1. home' \subseteq home /\ bind' \subseteq bind
        BY <3>1, <3>2, <3>4
      <4> QED  BY <2>1, <4>1 DEF TypeOK, SpaceIsRoot, links
    <3>5. CASE moved # {}
      <4>1. home' \subseteq home \cup {<<s, x>>} /\ bind' \subseteq bind
        BY <3>1, <3>2
      <4>2. <<s, x>> \notin bind'
        BY <3>1, <3>2, <3>5 DEF links
      <4> QED  BY <2>1, <2>3, <3>3, <4>1, <4>2 DEF TypeOK, SpaceIsRoot, links
    <3> QED  BY <3>4, <3>5
  <2> QED  BY <2>2, <2>3
<1>8. ASSUME NEW x \in Nodes, RestoreDeleted(x)  PROVE TypeOK' /\ SpaceIsRoot'
  <2>1. /\ known' = known /\ home' = home /\ bind' = bind
        /\ archived' \subseteq archived /\ deleted' \subseteq deleted
    BY <1>8 DEF RestoreDeleted
  <2> QED  BY <2>1 DEF TypeOK, SpaceIsRoot, links
<1>9. ASSUME NEW x \in Folders, Purge(x)  PROVE TypeOK' /\ SpaceIsRoot'
  BY <1>9 DEF TypeOK, SpaceIsRoot, Purge, links
<1>10. CASE UNCHANGED vars
  BY <1>10 DEF TypeOK, SpaceIsRoot, vars, links
<1> QED  BY <1>1, <1>2, <1>3, <1>4, <1>5, <1>6, <1>7, <1>8, <1>9, <1>10 DEF Next

(* A folder that the check finds no loop for is not above its new parent. *)
LEMMA NoLoopAbove ==
    ASSUME TypeOK, NEW p \in Nodes, NEW f \in Folders, NoLoopFound(p, f)
    PROVE  p \notin Reach(links, {f})
BY LinksAreRelations, ReachFromOne DEF NoLoopFound, Below, Nodes

LEMMA TopNotReached ==
    ASSUME NEW f
    PROVE  Top \notin Reach(links, {f})
BY NodesAssumption DEF Reach, Nodes

LEMMA StepLoops == TreeInv /\ [Next]_vars => NoLoopIn(links)'
<1> SUFFICES ASSUME TreeInv, [Next]_vars  PROVE NoLoopIn(links')
  BY DEF NoLoopIn, Reach, Closed, Children
<1> USE NodesAssumption
<1>1. TypeOK /\ SpaceIsRoot /\ links \in Relations /\ NoLoopIn(links)
  BY LinksAreRelations, AcyclicIs DEF TreeInv
<1>2. ASSUME links' \subseteq links  PROVE NoLoopIn(links')
  BY <1>1, <1>2, FewerLoops
<1>3. ASSUME NEW p \in Nodes \cup {Top}, NEW f \in Nodes, p \notin Reach(links, {f}),
             links' \subseteq links \cup {<<p, f>>}
      PROVE  NoLoopIn(links')
  BY <1>1, <1>3, AddedRelation
<1>4. ASSUME NEW p \in Nodes, NEW f \in Folders, Create(p, f)  PROVE NoLoopIn(links')
  <2>1. p \in known /\ f \in Nodes \ known
    BY <1>1, <1>4 DEF TypeOK, Create, Parents, Nodes
  <2>2. Below(f) = {}
    BY <1>1, <2>1, NothingBelowUnknown
  <2>3. p \notin Reach(links, {f})
    BY <1>1, <2>1, <2>2, ReachFromOne DEF Below
  <2>4. links' \subseteq links \cup {<<p, f>>}
    BY <1>4 DEF Create, links
  <2> QED  BY <1>3, <2>1, <2>3, <2>4
<1>5. ASSUME NEW p \in Folders, NEW f \in Folders, Bind(p, f)  PROVE NoLoopIn(links')
  <2>1. p \in Nodes /\ f \in Nodes /\ p \notin Reach(links, {f})
    BY <1>1, <1>5, NoLoopAbove DEF Bind, Nodes
  <2>2. links' \subseteq links \cup {<<p, f>>}
    BY <1>5 DEF Bind, links
  <2> QED  BY <1>3, <2>1, <2>2
<1>6. ASSUME NEW p \in Folders, NEW f \in Folders, Unbind(p, f)  PROVE NoLoopIn(links')
  <2>1. PICK s \in IF LiveRoots(f) = {} THEN {Top} ELSE LiveRoots(f) :
           home' = (home \ {<<p, f>>}) \cup
                      {<<q, f>> : q \in IF Parents(links, f) = {p} THEN {s} ELSE {}}
    BY <1>6 DEF Unbind
  <2>2. bind' = bind \ {<<p, f>>} /\ f \in Nodes
    BY <1>6 DEF Unbind, Nodes
  <2>3. CASE Parents(links, f) # {p}
    <3>1. home' = home \ {<<p, f>>}
      BY <2>1, <2>3
    <3> QED  BY <1>2, <2>2, <3>1 DEF links
  <2>4. CASE Parents(links, f) = {p}
    <3>1. links' \subseteq links \cup {<<s, f>>}
      BY <2>1, <2>2, <2>4 DEF links
    <3>2. CASE s = Top
      BY <1>3, <2>2, <3>1, <3>2, TopNotReached
    <3>3. CASE s \in LiveRoots(f)
      <4> DEFINE D == {e \in links : {e[1], e[2]} \subseteq Live}
      <4>1. s \in Children(home, Top) /\ f \in Reach(D, {s})
        BY <3>3 DEF LiveRoots, RootsIn
      <4>2. s \in Nodes /\ s # f
        <5>1. s # f
          BY <2>4, <4>1 DEF Children, Parents, links
        <5>2. s \in known
          BY <1>1, <3>3, RootsAreRows
        <5> QED  BY <1>1, <5>1, <5>2 DEF TypeOK
      <4>3. D \in SUBSET links
        OBVIOUS
      <4> HIDE DEF D
      <4>4. s \notin Reach(links, {f})
        BY <1>1, <4>1, <4>2, <4>3, NotBackUp
      <4> QED  BY <1>3, <2>2, <3>1, <4>2, <4>4
    <3> QED  BY <2>1, <3>2, <3>3
  <2> QED  BY <2>3, <2>4
<1>7. ASSUME NEW old \in Nodes, NEW new \in Nodes, NEW f \in Folders, Move(old, new, f)
      PROVE  NoLoopIn(links')
  <2>1. f \in Nodes /\ new \notin Reach(links, {f})
    BY <1>1, <1>7, NoLoopAbove DEF Move, Nodes
  <2>2. links' \subseteq links \cup {<<new, f>>}
    BY <1>7 DEF Move, links
  <2> QED  BY <1>3, <2>1, <2>2
<1>8. ASSUME NEW x \in Nodes, Archive(x)  PROVE NoLoopIn(links')
  <2>1. x \in known /\ archived \in SUBSET known /\ FALSE \in BOOLEAN
    BY <1>1, <1>8 DEF Archive, TypeOK
  <2>2. PICK ord \in Orders : home' = Sweep(x, archived, ord, FALSE).home
    BY <1>8 DEF Archive
  <2>3. home' \in SUBSET home
    BY <1>1, <2>1, <2>2, WalkLeaves
  <2> QED  BY <1>2, <1>8, <2>3 DEF Archive, links
<1>9. ASSUME NEW x \in Nodes, Delete(x)  PROVE NoLoopIn(links')
  <2>1. x \in known /\ deleted \in SUBSET known /\ TRUE \in BOOLEAN
    BY <1>1, <1>9 DEF Delete, TypeOK
  <2>2. PICK ord \in Orders : home' = Sweep(x, deleted, ord, TRUE).home
    BY <1>9 DEF Delete
  <2>3. home' \in SUBSET home
    BY <1>1, <2>1, <2>2, WalkLeaves
  <2> QED  BY <1>2, <1>9, <2>3 DEF Delete, links
<1>10. ASSUME NEW x \in Nodes, RestoreArchived(x)  PROVE NoLoopIn(links')
  <2>1. CASE x = Space
    BY <1>2, <1>10, <2>1 DEF RestoreArchived, links
  <2>2. CASE x # Space
    <3> DEFINE hidden == {p \in Parents(links, x) : p \in archived' \/ (p = Top /\ archived' # {})}
               moved  == hidden \cap Parents(home, x)
    <3>1. /\ bind' = bind \ {<<p, x>> : p \in hidden}
          /\ \E s \in RootsIn(links, x) \cup (IF RootsIn(links, x) = {} THEN {Top} ELSE {}) :
                /\ moved # {} => s # x /\ (s \in hidden \/ <<s, x>> \notin links)
                /\ home' = (home \ {<<p, x>> : p \in hidden}) \cup {<<s, x>> : p \in moved}
      BY <1>10, <2>2 DEF RestoreArchived
    <3> HIDE DEF hidden
    <3>2. PICK s \in RootsIn(links, x) \cup (IF RootsIn(links, x) = {} THEN {Top} ELSE {}) :
             /\ moved # {} => s # x
             /\ home' = (home \ {<<p, x>> : p \in hidden}) \cup {<<s, x>> : p \in moved}
      BY <3>1
    <3>3. CASE moved = {}
      <4>1. home' \subseteq home /\ bind' \subseteq bind
        BY <3>1, <3>2, <3>3
      <4> QED  BY <1>2, <4>1 DEF links
    <3>4. CASE moved # {}
      <4>1. links' \subseteq links \cup {<<s, x>>}
        BY <3>1, <3>2 DEF links
      <4>2. CASE s = Top
        BY <1>3, <4>1, <4>2, TopNotReached
      <4>3. CASE s \in RootsIn(links, x)
        <5>1. x \in Reach(links, {s}) /\ s # x /\ s \in Nodes
          BY <1>1, <3>2, <3>4, <4>3, RootsAreRows DEF RootsIn, TypeOK
        <5>2. s \notin Reach(links, {x})
          BY <1>1, <5>1, NotBackUp
        <5> QED  BY <1>3, <4>1, <5>1, <5>2
      <4> QED  BY <3>2, <4>2, <4>3
    <3> QED  BY <3>3, <3>4
  <2> QED  BY <2>1, <2>2
<1>11. ASSUME NEW x \in Nodes, RestoreDeleted(x)  PROVE NoLoopIn(links')
  BY <1>2, <1>11 DEF RestoreDeleted, links
<1>12. ASSUME NEW x \in Folders, Purge(x)  PROVE NoLoopIn(links')
  BY <1>2, <1>12 DEF Purge, links
<1>13. CASE UNCHANGED vars
  BY <1>2, <1>13 DEF vars, links
<1> QED  BY <1>4, <1>5, <1>6, <1>7, <1>8, <1>9, <1>10, <1>11, <1>12, <1>13 DEF Next

(* In every state the rows and relations have their types, the space hangs below
   nothing and no folder hangs below itself. *)
THEOREM Invariance == Spec => []TreeInv
<1>1. TypeOK => (Acyclic <=> NoLoopIn(links))
  BY AcyclicIs
<1>2. (TypeOK => (Acyclic <=> NoLoopIn(links)))'
  BY <1>1, PTL
<1>3. TreeInv /\ [Next]_vars => TreeInv'
  BY <1>2, StepTypes, StepLoops DEF TreeInv
<1> QED  BY InitTree, <1>3, PTL DEF Spec

(* However calls follow each other, no folder comes to hang below itself: the
   check of bindFolder and of the move keeps the tree a tree. *)
THEOREM NoFolderBelowItself == Spec => []Acyclic
<1>1. TreeInv => Acyclic
  BY DEF TreeInv
<1> QED  BY Invariance, <1>1, PTL

-----------------------------------------------------------------------------
(* What a step may do *)

KeepsStep ==
    \A f \in known \cap known' :
        LET above == Parents(links, f) \ {Top} IN
        above # {} /\ (Parents(links, f) \ {Top})' = {} =>
           \/ \E x \in above : Purge(x)
           \/ RestoreArchived(f) /\ (Parents(home, f) = {} \/ RootsIn(links, f) = {})
           \/ \E x \in above : Unbind(x, f) /\ (LiveRoots(f) = {} \/ f \in Children(home, Top))

LEMMA StepKeepsParents == TreeInv /\ [Next]_vars => [KeepsStep]_vars
<1> SUFFICES ASSUME TypeOK, SpaceIsRoot, Next,
                    NEW f \in known \cap known',
                    Parents(links, f) \ {Top} # {}, Parents(links', f) \ {Top} = {},
                    ~ \E x \in Parents(links, f) \ {Top} : Purge(x),
                    ~ (RestoreArchived(f) /\ (Parents(home, f) = {} \/ RootsIn(links, f) = {})),
                    ~ \E x \in Parents(links, f) \ {Top} :
                          Unbind(x, f) /\ (LiveRoots(f) = {} \/ f \in Children(home, Top))
             PROVE  FALSE
  BY DEF TreeInv, KeepsStep, Parents, vars
<1> USE NodesAssumption
<1>1. PICK q : q # Top /\ <<q, f>> \in links
  <2>1. PICK e \in links : e[2] = f /\ e[1] # Top
    BY DEF Parents
  <2>2. e = <<e[1], f>>
    BY <2>1 DEF TypeOK, links
  <2> QED  BY <2>1, <2>2
<1>2. q \in known /\ q \in Parents(links, f) \cap Nodes /\ f \in Nodes
  BY <1>1 DEF TypeOK, links, Parents
<1>3. \A p : <<p, f>> \in links' => p = Top
  BY DEF Parents
<1>4. ASSUME NEW p \in Nodes, NEW g \in Folders, Create(p, g)  PROVE FALSE
  BY <1>1, <1>3, <1>4 DEF Create, links
<1>5. ASSUME NEW p \in Folders, NEW g \in Folders, Bind(p, g)  PROVE FALSE
  BY <1>1, <1>3, <1>5 DEF Bind, links
<1>6. ASSUME NEW p \in Folders, NEW g \in Folders, Unbind(p, g)  PROVE FALSE
  <2>1. PICK s \in IF LiveRoots(g) = {} THEN {Top} ELSE LiveRoots(g) :
           home' = (home \ {<<p, g>>}) \cup
                      {<<r, g>> : r \in IF Parents(links, g) = {p} THEN {s} ELSE {}}
    BY <1>6 DEF Unbind
  <2>2. bind' = bind \ {<<p, g>>} /\ <<p, g>> \in links /\ p # Top
    BY <1>6 DEF Unbind
  <2>3. <<q, f>> = <<p, g>>
    BY <1>1, <1>3, <2>1, <2>2 DEF links
  <2>4. p \in Parents(links, f) \ {Top} /\ Unbind(p, f)
    BY <1>1, <1>6, <2>2, <2>3 DEF Parents
  <2>5. LiveRoots(f) # {} /\ f \notin Children(home, Top)
    BY <2>4
  <2>6. CASE Parents(links, f) = {p}
    <3>1. s \in LiveRoots(f) /\ s \in known /\ s # Top
      BY <2>1, <2>3, <2>5, RootsAreRows DEF TypeOK, Nodes
    <3>2. <<s, f>> \in links'
      BY <2>1, <2>3, <2>6 DEF links
    <3> QED  BY <1>3, <3>1, <3>2
  <2>7. CASE Parents(links, f) # {p}
    <3>1. PICK r \in Parents(links, f) : r # p
      BY <2>4, <2>7
    <3>2. <<r, f>> \in links
      BY <3>1 DEF Parents, TypeOK, links
    <3>3. <<r, f>> \in links'
      BY <2>1, <2>2, <2>3, <3>1, <3>2 DEF links
    <3>4. r = Top
      BY <1>3, <3>3
    <3>5. <<Top, f>> \in home
      BY <3>2, <3>4 DEF TypeOK, links, Nodes
    <3> QED  BY <2>5, <3>5 DEF Children
  <2> QED  BY <2>6, <2>7
<1>7. ASSUME NEW old \in Nodes, NEW new \in Nodes, NEW g \in Folders, Move(old, new, g)
      PROVE  FALSE
  <2>1. new # Top /\ <<new, g>> \in links'
    BY <1>7 DEF Move, links, Nodes
  <2>2. g # f
    BY <1>3, <2>1
  <2>3. <<q, f>> \in links'
    BY <1>1, <1>7, <2>2 DEF Move, links
  <2> QED  BY <1>1, <1>3, <2>3
<1>8. ASSUME NEW left, Parents(links, f) \cap Nodes # {} => Parents(left \cup bind, f) \cap Nodes # {},
             home' = left, bind' = bind
      PROVE  FALSE
  <2>1. Parents(links', f) \cap Nodes # {}
    BY <1>2, <1>8 DEF links
  <2> QED  BY <2>1 DEF Nodes
<1>9. ASSUME NEW x \in Nodes, Archive(x)  PROVE FALSE
  <2>1. x \in known /\ archived \in SUBSET known /\ FALSE \in BOOLEAN
    BY <1>9 DEF Archive, TypeOK
  <2>2. PICK ord \in Orders : home' = Sweep(x, archived, ord, FALSE).home
    BY <1>9 DEF Archive
  <2>3. Parents(links, f) \cap Nodes # {} => Parents(home' \cup bind, f) \cap Nodes # {}
    BY <2>1, <2>2, WalkLeaves
  <2>4. bind' = bind
    BY <1>9 DEF Archive
  <2> QED  BY <1>8, <2>3, <2>4
<1>10. ASSUME NEW x \in Nodes, Delete(x)  PROVE FALSE
  <2>1. x \in known /\ deleted \in SUBSET known /\ TRUE \in BOOLEAN
    BY <1>10 DEF Delete, TypeOK
  <2>2. PICK ord \in Orders : home' = Sweep(x, deleted, ord, TRUE).home
    BY <1>10 DEF Delete
  <2>3. Parents(links, f) \cap Nodes # {} => Parents(home' \cup bind, f) \cap Nodes # {}
    BY <2>1, <2>2, WalkLeaves
  <2>4. bind' = bind
    BY <1>10 DEF Delete
  <2> QED  BY <1>8, <2>3, <2>4
<1>11. ASSUME NEW x \in Nodes, RestoreArchived(x)  PROVE FALSE
  <2>1. CASE x = Space
    BY <1>1, <1>3, <1>11, <2>1 DEF RestoreArchived, links
  <2>2. CASE x # Space
    <3> DEFINE hidden == {p \in Parents(links, x) : p \in archived' \/ (p = Top /\ archived' # {})}
               moved  == hidden \cap Parents(home, x)
    <3>1. /\ bind' = bind \ {<<p, x>> : p \in hidden}
          /\ \E s \in RootsIn(links, x) \cup (IF RootsIn(links, x) = {} THEN {Top} ELSE {}) :
                /\ moved # {} => s # x /\ (s \in hidden \/ <<s, x>> \notin links)
                /\ home' = (home \ {<<p, x>> : p \in hidden}) \cup {<<s, x>> : p \in moved}
      BY <1>11, <2>2 DEF RestoreArchived
    <3>2. \A p \in Parents(links, x) : p \notin hidden => p \notin archived' /\ (p = Top => archived' = {})
      OBVIOUS
    <3>3. \A p \in hidden : p \in archived' \/ (p = Top /\ archived' # {})
      OBVIOUS
    <3> HIDE DEF hidden
    <3>4. PICK s \in RootsIn(links, x) \cup (IF RootsIn(links, x) = {} THEN {Top} ELSE {}) :
             home' = (home \ {<<p, x>> : p \in hidden}) \cup {<<s, x>> : p \in moved}
      BY <3>1
    <3>5. \A p : <<p, f>> \in links \ {<<r, x>> : r \in hidden} => <<p, f>> \in links'
      BY <3>1, <3>4 DEF links
    <3>6. x = f /\ q \in hidden
      BY <1>1, <1>3, <3>5
    <3>7. Parents(home, f) # {} /\ RootsIn(links, f) # {}
      BY <1>11, <3>6
    <3>8. s \in known /\ s # Top
      BY <3>4, <3>6, <3>7, RootsAreRows DEF TypeOK, Nodes
    <3>9. moved = {}
      BY <1>3, <3>4, <3>6, <3>8 DEF links
    <3>10. PICK h : <<h, f>> \in home
      <4>1. PICK e \in home : e[2] = f
        BY <3>7 DEF Parents
      <4>2. e = <<e[1], f>>
        BY <4>1 DEF TypeOK
      <4> QED  BY <4>1, <4>2
    <3>11. h \in Parents(links, f) /\ h \in Parents(home, f)
      BY <3>10 DEF Parents, links
    <3>12. h \notin hidden
      BY <3>6, <3>9, <3>11
    <3>13. h = Top
      BY <1>3, <3>5, <3>10, <3>12 DEF links
    <3>14. archived' = {}
      BY <3>2, <3>6, <3>11, <3>12, <3>13
    <3> QED  BY <3>3, <3>6, <3>14
  <2> QED  BY <2>1, <2>2
<1>12. ASSUME NEW x \in Nodes, RestoreDeleted(x)  PROVE FALSE
  BY <1>1, <1>3, <1>12 DEF RestoreDeleted, links
<1>13. ASSUME NEW x \in Folders, Purge(x)  PROVE FALSE
  <2>1. x # f
    BY <1>13 DEF Purge
  <2>2. q = x
    BY <1>1, <1>3, <1>13, <2>1 DEF Purge, links
  <2> QED  BY <1>1, <1>2, <1>13, <2>2
<1> QED  BY <1>4, <1>5, <1>6, <1>7, <1>9, <1>10, <1>11, <1>12, <1>13 DEF Next

(* Whatever is done to it or to others, a folder that hangs below another keeps a
   parent, but for a parent deleted for good, a restore below archived folders
   only, and its last relation unbound without a live way up or while it is a root too. *)
THEOREM FoldersKeepAParent == Spec => KeepsAParent
<1>1. TreeInv /\ [Next]_vars => [KeepsStep]_vars
  BY StepKeepsParents
<1>2. Spec => [][KeepsStep]_vars
  BY Invariance, <1>1, PTL DEF Spec
<1> QED  BY <1>2 DEF KeepsAParent, KeepsStep

ArchiveStep == \A x \in known : Archive(x) => Reach(home, {x})' \subseteq archived'

LEMMA StepArchives == TreeInv /\ [Next]_vars => [ArchiveStep]_vars
<1> SUFFICES ASSUME TypeOK, SpaceIsRoot, NEW x \in known, Archive(x)
             PROVE  Reach(home', {x}) \subseteq archived'
  BY DEF TreeInv, ArchiveStep, Reach, Closed
<1>1. archived \in SUBSET known /\ FALSE \in BOOLEAN
  BY DEF TypeOK
<1>2. PICK ord \in Orders :
         LET end == Sweep(x, archived, ord, FALSE)
         IN  end.todo = << >> /\ archived' = end.gone /\ home' = end.home
  BY DEF Archive
<1> DEFINE s == Sweep(x, archived, ord, FALSE)
<1>3. s \in Walks(x, archived)
  BY <1>1, WalkEnds
<1>4. s.todo = << >> /\ archived' = s.gone /\ home' = s.home
  BY <1>2
<1> HIDE DEF s
<1>5. PICK W \in SUBSET archived' :
         /\ x \in W
         /\ \A e \in home' : e[1] \in W => e[2] \in W
  <2>1. s.gone \in SUBSET known
    BY <1>3 DEF Walks
  <2>2. PICK W \in SUBSET s.gone :
           /\ x \in W
           /\ \A e \in s.home : e[1] \in W => e[2] \in W \/ \E i \in DOMAIN s.todo : s.todo[i] = e
    BY <1>3 DEF Walks, Taken
  <2> QED  BY <1>4, <2>2
<1>6. archived' \subseteq Nodes
  BY <1>3, <1>4 DEF Walks, TypeOK
<1>7. W \in Closed(home')
  BY <1>5, <1>6 DEF Closed
<1> QED  BY <1>5, <1>7, ReachIsLeast

(* Archiving a folder archives everything that stays at home below it, at any depth. *)
THEOREM ArchivingTakesTheTree == Spec => ArchiveTakesAll
<1>1. TreeInv /\ [Next]_vars => [ArchiveStep]_vars
  BY StepArchives
<1>2. Spec => [][ArchiveStep]_vars
  BY Invariance, <1>1, PTL DEF Spec
<1> QED  BY <1>2 DEF ArchiveTakesAll, ArchiveStep

RestoreStep ==
    \A x \in Folders : RestoreArchived(x) =>
        /\ archived' \cap ({x} \cup Below(x)) = {}
        /\ (Parents(links, x) \cap archived)' \subseteq Children(home, Top)'

LEMMA StepRestores == TreeInv /\ [Next]_vars => [RestoreStep]_vars
<1> SUFFICES ASSUME TypeOK, NEW x \in Folders, RestoreArchived(x)
             PROVE  /\ archived' \cap ({x} \cup Below(x)) = {}
                    /\ Parents(links', x) \cap archived' \subseteq Children(home', Top)
  BY DEF TreeInv, RestoreStep, Parents, Children
<1> USE NodesAssumption
<1>1. archived' = archived \ (Below(x) \cup {x})
  BY DEF RestoreArchived
<1> DEFINE hidden == {p \in Parents(links, x) : p \in archived' \/ (p = Top /\ archived' # {})}
           moved  == hidden \cap Parents(home, x)
<1>2. /\ bind' = bind \ {<<p, x>> : p \in hidden}
      /\ \E s \in RootsIn(links, x) \cup (IF RootsIn(links, x) = {} THEN {Top} ELSE {}) :
            /\ moved # {} => s # x /\ (s \in hidden \/ <<s, x>> \notin links)
            /\ home' = (home \ {<<p, x>> : p \in hidden}) \cup {<<s, x>> : p \in moved}
  BY DEF RestoreArchived
<1>3. \A p \in Parents(links, x) : p \in archived' => p \in hidden
  OBVIOUS
<1> HIDE DEF hidden
<1>4. PICK s \in RootsIn(links, x) \cup (IF RootsIn(links, x) = {} THEN {Top} ELSE {}) :
         /\ moved # {} => s # x
         /\ home' = (home \ {<<p, x>> : p \in hidden}) \cup {<<s, x>> : p \in moved}
  BY <1>2
<1>5. ASSUME NEW p \in Parents(links', x), p \in archived'  PROVE p \in Children(home', Top)
  <2>1. <<p, x>> \in links' /\ p # Top
    <3>1. PICK e \in links' : e[2] = x /\ e[1] = p
      BY <1>5 DEF Parents
    <3>2. e \in links \cup {<<s, x>>}
      BY <1>2, <1>4 DEF links
    <3>3. e = <<e[1], e[2]>>
      BY <3>2 DEF links, TypeOK
    <3> QED  BY <1>1, <1>5, <3>1, <3>3 DEF TypeOK, Nodes
  <2>2. <<p, x>> \in links => p \in hidden
    BY <1>3, <1>5 DEF Parents
  <2>3. p = s /\ moved # {}
    BY <1>2, <1>4, <2>1, <2>2 DEF links
  <2>4. s \in Children(home, Top) /\ s # x
    BY <1>4, <2>1, <2>3 DEF RootsIn
  <2>5. <<Top, s>> \in home
    BY <2>4 DEF Children, TypeOK
  <2>6. <<Top, s>> \in home'
    BY <1>4, <2>4, <2>5
  <2> QED  BY <2>3, <2>6 DEF Children
<1> QED  BY <1>1, <1>5

(* Restoring an archived folder brings back all that hangs below it, and leaves it
   below no archived folder but one without a parent, its space. *)
THEOREM RestoringBringsBack == Spec => RestoreBringsBack
<1>1. TreeInv /\ [Next]_vars => [RestoreStep]_vars
  BY StepRestores
<1>2. Spec => [][RestoreStep]_vars
  BY Invariance, <1>1, PTL DEF Spec
<1> QED  BY <1>2 DEF RestoreBringsBack, RestoreStep
=============================================================================
