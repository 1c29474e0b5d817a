------------------------------- MODULE Recursion -------------------------------
(***************************************************************************)
(* Facts about recursions that count up to a number, for the proofs about  *)
(* the modules whose calls go through lists.                               *)
(***************************************************************************)
EXTENDS Loops, FiniteSetTheorems, WellFoundedInduction, TLAPS

(* A set of numbers has a least one. *)
LEMMA Least ==
    ASSUME NEW S \in SUBSET Nat, S # {}
    PROVE  \E n \in S : \A m \in S : n <= m
<1> DEFINE upto(n) == 0..(n - 1)
           T == {upto(n) : n \in S}
           R == StrictSubsetOrdering(Nat)
<1>1. IsWellFoundedOn(R, FiniteSubsetsOf(Nat))
  BY FS_StrictSubsetOrderingWellFounded
<1>2. T \subseteq FiniteSubsetsOf(Nat) /\ T # {}
  <2>1. \A n \in S : IsFiniteSet(upto(n)) /\ upto(n) \in SUBSET Nat
    BY FS_Interval
  <2> QED  BY <2>1 DEF FiniteSubsetsOf
<1>3. PICK x \in T : \A y \in T : ~ (<<y, x>> \in R)
  <2> HIDE DEF R, T
  <2> QED  BY <1>1, <1>2, WFMin
<1>4. PICK n \in S : x = upto(n)
  OBVIOUS
<1>5. ASSUME NEW m \in S  PROVE n <= m
  <2>1. ~ (<<upto(m), upto(n)>> \in R)
    BY <1>3, <1>4
  <2>2. SUFFICES ASSUME m < n  PROVE FALSE
    OBVIOUS
  <2>3. upto(m) \subseteq upto(n) /\ m \in upto(n) /\ m \notin upto(m)
    BY <2>2
  <2>4. upto(m) \in SUBSET Nat /\ upto(n) \in SUBSET Nat /\ upto(m) # upto(n)
    BY <2>3
  <2> QED  BY <2>1, <2>3, <2>4 DEF StrictSubsetOrdering
<1> QED  BY <1>5

(* A set of numbers up to K that holds 0 and goes on from each to the next holds all. *)
LEMMA UpTo ==
    ASSUME NEW K \in Nat, NEW Q \in SUBSET (0..K), 0 \in Q,
           \A n \in 1..K : n - 1 \in Q => n \in Q
    PROVE  Q = 0..K
<1> SUFFICES ASSUME (0..K) \ Q # {}  PROVE FALSE
  OBVIOUS
<1> DEFINE M == (0..K) \ Q
<1>1. M \in SUBSET Nat /\ M # {}
  OBVIOUS
<1> HIDE DEF M
<1>3. PICK n \in M : \A m \in M : n <= m
  BY <1>1, Least
<1>2. n \in 1..K /\ n - 1 \in 0..K /\ ~ (n <= n - 1)
  BY <1>3 DEF M
<1> QED  BY <1>3, <1>2 DEF M

(* The rules by which a recursion up to K goes on, from a member of D to the next. *)
Rules(D, K) == [1..K -> [D -> D]]

(* A recursion from each number to the next has a solution. *)
LEMMA Iterates ==
    ASSUME NEW D, NEW K \in Nat, NEW a \in D, NEW V \in Rules(D, K)
    PROVE  \E f \in [0..K -> D] : f[0] = a /\ \A n \in 1..K : f[n] = V[n][f[n - 1]]
<1> USE DEF Rules
<1> DEFINE Solves(f, k) == f = [n \in 0..k |-> IF n = 0 THEN a ELSE V[n][f[n - 1]]]
           Q == {k \in 0..K : \E f \in [0..k -> D] : Solves(f, k)}
<1>1. 0 \in Q
  <2> DEFINE g == [n \in 0..0 |-> a]
  <2>1. g \in [0..0 -> D] /\ Solves(g, 0)
    OBVIOUS
  <2> HIDE DEF Solves, g
  <2> QED  BY <2>1
<1>2. ASSUME NEW k \in 1..K, k - 1 \in Q  PROVE k \in Q
  <2>1. PICK f \in [0..(k - 1) -> D] : Solves(f, k - 1)
    BY <1>2
  <2> DEFINE g == [n \in 0..k |-> IF n = 0 THEN a ELSE V[n][f[n - 1]]]
  <2>2. \A n \in 1..k : f[n - 1] \in D /\ V[n][f[n - 1]] \in D
    OBVIOUS
  <2>3. g \in [0..k -> D]
    BY <2>2
  <2>4. \A n \in 0..(k - 1) : f[n] = IF n = 0 THEN a ELSE V[n][f[n - 1]]
    BY <2>1
  <2>5. \A n \in 1..k : g[n - 1] = f[n - 1]
    BY <2>4
  <2>6. \A n \in 0..k : (IF n = 0 THEN a ELSE V[n][f[n - 1]]) = (IF n = 0 THEN a ELSE V[n][g[n - 1]])
    BY <2>5
  <2>7. g = [n \in 0..k |-> IF n = 0 THEN a ELSE V[n][g[n - 1]]]
    BY <2>6, Zenon
  <2>8. Solves(g, k)
    BY <2>7
  <2> HIDE DEF Solves, g
  <2> QED  BY <2>3, <2>8
<1>3. Q = 0..K
  <2> HIDE DEF Q
  <2>1. Q \subseteq 0..K
    BY DEF Q
  <2> QED  BY <1>1, <1>2, <2>1, UpTo
<1>4. PICK f \in [0..K -> D] : Solves(f, K)
  <2> HIDE DEF Solves
  <2> QED  BY <1>3
<1>5. f[0] = a
  BY <1>4
<1>6. \A n \in 1..K : f[n] = V[n][f[n - 1]]
  BY <1>4
<1> QED  BY <1>5, <1>6

(* What a loop leaves after each of its steps. *)
LEMMA LoopRuns ==
    ASSUME NEW D, NEW K \in Nat, NEW V \in Rules(D, K), NEW a \in D
    PROVE  \E f \in [0..K -> D] : /\ f[0] = a /\ f[K] = Loop(V, a)
                                  /\ \A n \in 1..K : f[n] = V[n][f[n - 1]]
<1>1. PICK f \in [0..K -> D] : f[0] = a /\ \A n \in 1..K : f[n] = V[n][f[n - 1]]
  BY Iterates
<1>2. DOMAIN V = 1..K /\ Len(V) = K
  BY DEF Rules
<1> DEFINE Left(g) == g = [i \in 0..Len(V) |-> IF i = 0 THEN a ELSE V[i][g[i - 1]]]
           h == CHOOSE g : Left(g)
<1>3. Left(f)
  BY <1>1, <1>2
<1>4. Left(h)
  <2> HIDE DEF Left
  <2> QED  BY <1>3
<1>5. Loop(V, a) = h[Len(V)]
  BY DEF Loop
<1> DEFINE Q == {k \in 0..K : h[k] = f[k]}
<1>6. h[0] = a /\ \A n \in 1..K : h[n] = V[n][h[n - 1]]
  <2>1. h = [i \in 0..K |-> IF i = 0 THEN a ELSE V[i][h[i - 1]]]
    BY <1>4, <1>2
  <2> HIDE DEF h
  <2>2. \A i \in 0..K : h[i] = IF i = 0 THEN a ELSE V[i][h[i - 1]]
    BY <2>1
  <2> QED  BY <2>2
<1>7. Q = 0..K
  <2>1. 0 \in Q /\ Q \in SUBSET (0..K)
    BY <1>1, <1>6
  <2> HIDE DEF h
  <2>2. ASSUME NEW n \in 1..K, n - 1 \in Q  PROVE n \in Q
    <3>1. n - 1 \in 0..K /\ h[n - 1] = f[n - 1]
      BY <2>2
    <3> QED  BY <1>1, <1>6, <3>1
  <2> HIDE DEF Q
  <2> QED  BY <2>1, <2>2, UpTo
<1>8. h[K] = f[K]
  BY <1>7
<1> QED  BY <1>1, <1>5, <1>8, <1>2

(* What each step of a loop passes on from Q[n - 1] to Q[n], the loop ends in. *)
LEMMA LoopKeeps ==
    ASSUME NEW D, NEW K \in Nat, NEW V \in Rules(D, K), NEW a \in D,
           NEW Q, a \in Q[0], \A n \in 1..K, x \in D : x \in Q[n - 1] => V[n][x] \in Q[n]
    PROVE  Loop(V, a) \in D \cap Q[K]
<1>1. PICK f \in [0..K -> D] : /\ f[0] = a /\ f[K] = Loop(V, a)
                               /\ \A n \in 1..K : f[n] = V[n][f[n - 1]]
  BY LoopRuns
<1> DEFINE T == {k \in 0..K : f[k] \in Q[k]}
<1>2. 0 \in T /\ T \in SUBSET (0..K)
  BY <1>1
<1>3. \A n \in 1..K : n - 1 \in T => n \in T
  BY <1>1
<1>4. T = 0..K
  <2> HIDE DEF T
  <2> QED  BY <1>2, <1>3, UpTo
<1> QED  BY <1>1, <1>4

(* The same of one set. *)
LEMMA LoopStays ==
    ASSUME NEW D, NEW K \in Nat, NEW V \in Rules(D, K), NEW Q, NEW a \in D \cap Q,
           \A n \in 1..K, x \in D \cap Q : V[n][x] \in Q
    PROVE  Loop(V, a) \in D \cap Q
<1> DEFINE R == [n \in 0..K |-> Q]
<1>1. Loop(V, a) \in D \cap R[K]
  <2>1. a \in R[0] /\ \A n \in 1..K, x \in D : x \in R[n - 1] => V[n][x] \in R[n]
    OBVIOUS
  <2> HIDE DEF R
  <2> QED  BY <2>1, LoopKeeps
<1> QED  BY <1>1
=============================================================================
