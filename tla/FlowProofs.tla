----------------------------- MODULE FlowProofs -----------------------------
(***************************************************************************)
(* Proofs about the bodies of MCWeighPaths, whatever their size: removing  *)
(* the loops keeps the flow, every cycle runs through a header, every      *)
(* statement weighs what the heaviest path to the next header does,        *)
(* prepatch leaves only gotos and its switch to lead to a case, and with   *)
(* the counterweights of patch all ways on from a statement weigh the same.*)
(*                                                                         *)
(* Recursive functions are met by their least (or greatest) element that   *)
(* would break a lemma, for the induction theorems are out of reach.       *)
(***************************************************************************)
EXTENDS Bodies, FiniteSetTheorems, SequenceTheorems,
        WellFoundedInduction, TLAPS

LEMMA LeastNumber ==
    ASSUME NEW T \in SUBSET Nat, T # {}
    PROVE  \E x \in T : \A y \in T : x <= y
<1> DEFINE R == OpToRel(<, Nat)
<1>1. IsWellFoundedOn(R, Nat)
  BY NatLessThanWellFounded
<1>2. \A y, z \in Nat : y < z => <<y, z>> \in R
  BY DEF OpToRel
<1> HIDE DEF R
<1>3. PICK x \in T : \A y \in T : <<y, x>> \notin R
  BY <1>1, WFMin
<1>4. ASSUME NEW y \in T PROVE x <= y
  <2>1. x \in Nat /\ y \in Nat /\ <<y, x>> \notin R
    BY <1>3
  <2>2. ~(y < x)
    BY <1>2, <2>1
  <2> QED BY <2>1, <2>2
<1> QED BY <1>4

-----------------------------------------------------------------------------
(* Recursive functions that look at smaller arguments only.  (The library's *)
(* induction theorems cannot be used: the least counterexample will do.)   *)

LEMMA ClimbExists ==
    ASSUME NEW n \in Nat, NEW stop, NEW val, NEW up,
           \A j \in 0..n : ~stop[j] => up[j] \in 0..(j - 1)
    PROVE  \E f : Climbs(f, n, stop, val, up)
<1> DEFINE T == {m \in 0..n : ~\E f : Climbs(f, m, stop, val, up)}
<1>1. T = {}
  <2> SUFFICES ASSUME T # {} PROVE FALSE
    OBVIOUS
  <2>1. PICK m \in T : \A y \in T : m <= y
    <3>1. T \in SUBSET Nat
      OBVIOUS
    <3> HIDE DEF T
    <3> QED BY <3>1, LeastNumber
  <2>2. m \in 0..n /\ ~\E f : Climbs(f, m, stop, val, up)
    OBVIOUS
  <2>3. PICK g : m # 0 => Climbs(g, m - 1, stop, val, up)
    <3>1. CASE m = 0
      BY <3>1
    <3>2. CASE m # 0
      <4>1. m - 1 \in 0..n /\ ~(m <= m - 1)
        BY <2>2, <3>2
      <4>2. m - 1 \notin T
        <5> HIDE DEF T
        <5> QED BY <2>1, <4>1
      <4> QED BY <4>1, <4>2
    <3> QED BY <3>1, <3>2
  <2> DEFINE f == [j \in 0..m |-> IF j = m THEN (IF stop[m] THEN val[m] ELSE g[up[m]]) ELSE g[j]]
  <2>4. ASSUME NEW j \in 0..m
        PROVE  f[j] = IF stop[j] THEN val[j] ELSE f[up[j]]
    <3>1. j \in 0..n /\ (~stop[j] => up[j] \in 0..(j - 1) /\ up[j] \in 0..m /\ up[j] # m)
      BY <2>2
    <3>2. ~stop[j] => f[up[j]] = g[up[j]]
      BY <3>1
    <3>3. CASE j = m
      BY <3>2, <3>3
    <3>4. CASE j # m
      <4>1. j \in 0 .. m - 1 /\ m # 0 /\ f[j] = g[j]
        BY <2>2, <3>4
      <4>2. g[j] = IF stop[j] THEN val[j] ELSE g[up[j]]
        BY <2>3, <4>1 DEF Climbs
      <4> QED BY <3>2, <4>1, <4>2
    <3> QED BY <3>3, <3>4
  <2>5. f = [j \in 0..m |-> f[j]]
    OBVIOUS
  <2> HIDE DEF f, T
  <2>6. Climbs(f, m, stop, val, up)
    BY <2>4, <2>5 DEF Climbs
  <2> QED BY <2>2, <2>6
<1>2. n \in 0..n
  OBVIOUS
<1> QED BY <1>1, <1>2

-----------------------------------------------------------------------------
(* The tree of statements *)

LEMMA TreeStep ==
    ASSUME NEW p, NEW f, Tree(f, p), NEW i \in 1..Len(p)
    PROVE  /\ i = 1 => f[i] = 0
           /\ i # 1 => /\ i - 1 \in 1..Len(p)
                       /\ p[i - 1].kind \in Compound => f[i] = i - 1
                       /\ p[i - 1].kind \in Closing =>
                              f[i - 1] \in 1..(i - 2) /\ f[i] = f[f[i - 1]]
                       /\ p[i - 1].kind \notin Compound \cup Closing => f[i] = f[i - 1]
<1> USE DEF Tree
<1>1. f[i] = IF i = 1 THEN 0
             ELSE IF p[i - 1].kind \in Compound THEN i - 1
             ELSE IF p[i - 1].kind \in Closing THEN f[f[i - 1]]
             ELSE f[i - 1]
  BY DEF Computes
<1>2. Compound \cap Closing = {}
  BY DEF Compound, Closing
<1>3. i # 1 => i - 1 \in 1..Len(p) /\ f[i - 1] \in 0..(i - 2)
              /\ (p[i - 1].kind \in Closing => f[i - 1] # 0)
  <2>1. i # 1 => i - 1 \in 1..Len(p) /\ (i - 1) - 1 = i - 2
    OBVIOUS
  <2> QED BY <2>1
<1> QED BY <1>1, <1>2, <1>3

LEMMA ParentIs ==
    ASSUME NEW p, NEW f, Tree(f, p)
    PROVE  Parent(p) = f
<1> DEFINE g == CHOOSE g : Computes(g, p)
<1>1. Computes(f, p) /\ Len(p) \in Nat /\ DOMAIN p = 1..Len(p)
  BY DEF Tree
<1>2. Computes(g, p)
  <2>1. \E h : Computes(h, p)
    BY <1>1
  <2> QED BY <2>1
<1>3. Parent(p) = [i \in DOMAIN p |-> g[i]]
  BY DEF Parent, Computes
<1> HIDE DEF g
<1> DEFINE T == {i \in 1..Len(p) : g[i] # f[i]}
<1>4. T = {}
  <2> SUFFICES ASSUME T # {} PROVE FALSE
    OBVIOUS
  <2>1. PICK i \in T : \A y \in T : i <= y
    <3>1. T \in SUBSET Nat
      OBVIOUS
    <3> HIDE DEF T
    <3> QED BY <3>1, LeastNumber
  <2>2. i \in 1..Len(p) /\ g[i] # f[i]
    OBVIOUS
  <2>3. \A j \in 1..(i - 1) : g[j] = f[j]
    <3> SUFFICES ASSUME NEW j \in 1..(i - 1) PROVE g[j] = f[j]
      OBVIOUS
    <3>1. j \in 1..Len(p) /\ ~(i <= j)
      BY <1>1, <2>2
    <3>2. j \notin T
      <4> HIDE DEF T
      <4> QED BY <2>1, <3>1
    <3> QED BY <3>1, <3>2
  <2> HIDE DEF T
  <2>4. g[i] = IF i = 1 THEN 0
               ELSE IF p[i - 1].kind \in Compound THEN i - 1
               ELSE IF p[i - 1].kind \in Closing THEN g[g[i - 1]]
               ELSE g[i - 1]
    BY <1>1, <1>2, <2>2 DEF Computes
  <2>5. i # 1 => g[i - 1] = f[i - 1] /\ (p[i - 1].kind \in Closing => g[f[i - 1]] = f[f[i - 1]])
    <3>1. i # 1 => i - 1 \in 1..(i - 1)
      BY <1>1, <2>2
    <3>2. i # 1 /\ p[i - 1].kind \in Closing => f[i - 1] \in 1..(i - 1)
      BY <1>1, <2>2, TreeStep
    <3> QED BY <2>3, <3>1, <3>2
  <2> QED BY <2>2, <2>4, <2>5, TreeStep
<1>5. Parent(p) = [i \in 1..Len(p) |-> f[i]]
  BY <1>1, <1>3, <1>4
<1>6. f = [i \in 1..Len(p) |-> f[i]]
  BY <1>1 DEF Computes
<1> QED BY <1>5, <1>6

\* Behind the end of k nothing is in k, nor directly in what was before the end.
LEMMA BehindTheEnd ==
    ASSUME NEW p, NEW f, Tree(f, p), NEW k, NEW j, Ends(f, p, k, j)
    PROVE  \A m \in 1..Len(p) : m > j => f[m] < k \/ f[m] > j
<1> DEFINE T == {m \in 1..Len(p) : m > j /\ ~(f[m] < k \/ f[m] > j)}
<1> SUFFICES ASSUME T # {} PROVE FALSE
  OBVIOUS
<1>1. Len(p) \in Nat /\ j \in 1..Len(p) /\ k \in 1..(j - 1) /\ f[j] = k /\ p[j].kind \in Closing
  BY DEF Ends, Tree
<1>2. PICK m \in T : \A y \in T : m <= y
  <2>1. T \in SUBSET Nat
    BY <1>1
  <2> HIDE DEF T
  <2> QED BY <2>1, LeastNumber
<1>3. m \in 1..Len(p) /\ m > j /\ ~(f[m] < k \/ f[m] > j)
  OBVIOUS
<1>4. ASSUME NEW q \in 1..Len(p), q > j, q < m
      PROVE  f[q] < k \/ f[q] > j
  <2>1. q \notin T
    <3>1. ~(m <= q)
      BY <1>1, <1>3, <1>4
    <3> HIDE DEF T
    <3> QED BY <1>2, <3>1
  <2> QED BY <1>4, <2>1
<1> HIDE DEF T
<1>5. m # 1 /\ m - 1 \in 1..Len(p) /\ m - 1 >= j /\ m - 1 < m
  BY <1>1, <1>3
<1>6. f[m - 1] \in 0..(m - 2)
  <2>1. f[m - 1] \in 0..((m - 1) - 1)
    BY <1>5 DEF Tree
  <2> QED BY <1>1, <1>3, <2>1
<1>7. CASE p[m - 1].kind \in Compound
  <2>1. f[m] = m - 1 /\ m - 1 # j
    BY <1>1, <1>3, <1>5, <1>7, TreeStep DEF Compound, Closing
  <2> QED BY <1>1, <1>3, <1>5, <2>1
<1>8. CASE p[m - 1].kind \in Closing
  <2> DEFINE q == f[m - 1]
  <2>1. q \in 1..(m - 2) /\ f[m] = f[q] /\ q \in 1..Len(p)
    BY <1>1, <1>3, <1>5, <1>8, TreeStep
  <2>2. f[q] \in 0..(q - 1)
    BY <2>1 DEF Tree
  <2>3. q <= k \/ q > j
    <3>1. CASE m - 1 = j
      BY <1>1, <3>1
    <3>2. CASE m - 1 # j
      <4>1. m - 1 > j
        BY <1>1, <1>3, <1>5, <3>2
      <4>2. q < k \/ q > j
        BY <1>4, <1>5, <4>1
      <4> QED BY <1>1, <2>1, <4>2
    <3> QED BY <3>1, <3>2
  <2>4. CASE q <= k
    BY <1>1, <1>3, <2>1, <2>2, <2>4
  <2>5. CASE q > j
    <3>1. q < m
      BY <1>3, <2>1
    <3>2. f[q] < k \/ f[q] > j
      BY <1>4, <2>1, <2>5, <3>1
    <3> QED BY <1>3, <2>1, <3>2
  <2> QED BY <2>3, <2>4, <2>5
<1>9. CASE p[m - 1].kind \notin Compound \cup Closing
  <2>1. f[m] = f[m - 1] /\ m - 1 # j
    BY <1>1, <1>3, <1>5, <1>9, TreeStep
  <2>2. m - 1 > j
    BY <1>1, <1>5, <2>1
  <2> QED BY <1>3, <1>4, <1>5, <2>1, <2>2
<1> QED BY <1>7, <1>8, <1>9

LEMMA EndIs ==
    ASSUME NEW p, NEW f, Tree(f, p), Closed(f, p),
           NEW k \in 1..Len(p), p[k].kind \in Compound
    PROVE  /\ Ends(f, p, k, EndOf(p, k))
           /\ \A j : Ends(f, p, k, j) => j = EndOf(p, k)
           /\ EndOf(p, k) \in (k + 1)..Len(p)
<1>1. Parent(p) = f /\ DOMAIN p = 1..Len(p) /\ Len(p) \in Nat
  BY ParentIs DEF Tree
<1>2. EndOf(p, k) = CHOOSE j \in 1..Len(p) : p[j].kind \in Closing /\ f[j] = k
  BY <1>1 DEF EndOf
<1>3. \E j \in 1..Len(p) : p[j].kind \in Closing /\ f[j] = k
  BY DEF Closed, Ends
<1>4. Ends(f, p, k, EndOf(p, k))
  BY <1>2, <1>3 DEF Ends
<1> DEFINE e == EndOf(p, k)
<1>5. e \in 1..Len(p) /\ f[e] = k
  BY <1>4 DEF Ends
<1>6. f[e] \in 0..(e - 1)
  BY <1>5 DEF Tree
<1> HIDE DEF e
<1>7. e \in (k + 1)..Len(p)
  BY <1>1, <1>5, <1>6
<1>8. ASSUME NEW j, Ends(f, p, k, j) PROVE j = e
  <2>1. j \in 1..Len(p) /\ f[j] = k
    BY <1>8 DEF Ends
  <2>2. f[j] \in 0..(j - 1)
    BY <2>1 DEF Tree
  <2>3. ~(j > e)
    BY <1>1, <1>4, <1>5, <1>7, <2>1, BehindTheEnd DEF e
  <2>4. ~(e > j)
    BY <1>1, <1>5, <1>7, <1>8, <2>1, <2>2, BehindTheEnd
  <2> QED BY <1>5, <2>1, <2>3, <2>4
<1> QED BY <1>4, <1>7, <1>8 DEF e

\* Statements are nested: what is in k ends before k does.
LEMMA Nested ==
    ASSUME NEW p, NEW f, Tree(f, p), Closed(f, p), NEW i \in 1..Len(p), f[i] # 0
    PROVE  /\ LastOf(p, i) \in i..Len(p)
           /\ LastOf(p, i) <= EndOf(p, f[i])
           /\ ~Ends(f, p, f[i], i) => LastOf(p, i) < EndOf(p, f[i])
<1> DEFINE k == f[i]
           e == EndOf(p, k)
           l == LastOf(p, i)
<1>1. Len(p) \in Nat /\ k \in 1..(i - 1) /\ k \in 1..Len(p) /\ p[k].kind \in Compound
  BY DEF Tree
<1>2. Ends(f, p, k, e) /\ e \in (k + 1)..Len(p) /\ \A j : Ends(f, p, k, j) => j = e
  BY <1>1, EndIs
<1>3. i <= e
  <2>1. ~(i > e)
    BY <1>1, <1>2, BehindTheEnd
  <2> QED BY <1>2, <2>1
<1>4. CASE p[i].kind \notin Compound
  <2>1. l = i
    BY <1>4 DEF LastOf
  <2>2. ~Ends(f, p, k, i) => i # e
    BY <1>2
  <2> HIDE DEF k, e, l
  <2>3. l \in i..Len(p) /\ l <= e /\ (~Ends(f, p, k, i) => l < e)
    BY <1>1, <1>2, <1>3, <2>1, <2>2
  <2> QED BY <2>3 DEF k, e, l
<1>5. CASE p[i].kind \in Compound
  <2>1. l = EndOf(p, i) /\ Ends(f, p, i, l) /\ l \in (i + 1)..Len(p)
    BY <1>5, EndIs DEF LastOf
  <2>2. f[l] = i /\ l \in 1..Len(p)
    BY <2>1 DEF Ends
  <2> HIDE DEF e, l
  <2>3. ~(l > e)
    <3>1. l > e => i < k \/ i > e
      BY <1>2, <2>2, BehindTheEnd
    <3> QED BY <1>1, <1>2, <1>3, <3>1
  <2>4. l # e
    <3>1. f[e] = k
      BY <1>2 DEF Ends
    <3> QED BY <1>1, <2>2, <3>1
  <2> HIDE DEF k
  <2>5. l \in i..Len(p) /\ l <= e /\ l < e
    BY <1>1, <1>2, <1>3, <2>1, <2>3, <2>4
  <2> QED BY <2>5 DEF k, e, l
<1> QED BY <1>4, <1>5

-----------------------------------------------------------------------------
(* Where control goes *)

LEMMA EnclosingStep ==
    ASSUME NEW p, NEW f, Tree(f, p), NEW i \in 1..Len(p), NEW kinds
    PROVE  Enclosing(p, i, kinds) =
               IF f[i] = 0 \/ p[f[i]].kind \in kinds THEN f[i]
               ELSE Enclosing(p, f[i], kinds)
<1> DEFINE n == Len(p)
           Climb(h) == h = [j \in 0..n |-> IF j = 0 \/ p[j].kind \in kinds THEN j ELSE h[f[j]]]
           climb == CHOOSE h : Climb(h)
<1>1. n \in Nat /\ Parent(p) = f /\ \A j \in 1..n : f[j] \in 0..(j - 1)
  BY ParentIs DEF Tree
<1>2. \E h : Climb(h)
  <2> DEFINE stop == [j \in 0..n |-> j = 0 \/ p[j].kind \in kinds]
             val == [j \in 0..n |-> j]
  <2>1. \A j \in 0..n : (stop[j] <=> j = 0 \/ p[j].kind \in kinds) /\ val[j] = j
    OBVIOUS
  <2>2. \A j \in 0..n : ~stop[j] => j # 0
    BY <2>1
  <2> HIDE DEF stop, val
  <2>3. \A j \in 0..n : ~stop[j] => f[j] \in 0..(j - 1)
    <3>1. \A j \in 0..n : j # 0 => j \in 1..n
      BY <1>1
    <3> HIDE DEF n
    <3> QED BY <1>1, <2>2, <3>1
  <2> HIDE DEF n
  <2>4. PICK h : Climbs(h, n, stop, val, f)
    BY <1>1, <2>3, ClimbExists
  <2>5. h = [j \in 0..n |-> IF j = 0 \/ p[j].kind \in kinds THEN j ELSE h[f[j]]]
    BY <2>1, <2>4 DEF Climbs
  <2> QED BY <2>5
<1>3. Climb(climb)
  <2> HIDE DEF Climb
  <2> QED BY <1>2
<1>4. \A j : Enclosing(p, j, kinds) = climb[f[j]]
  BY <1>1 DEF Enclosing
<1> HIDE DEF climb
<1>5. f[i] \in 0..n
  BY <1>1
<1>6. climb[f[i]] = IF f[i] = 0 \/ p[f[i]].kind \in kinds THEN f[i] ELSE climb[f[f[i]]]
  BY <1>3, <1>5
<1> QED BY <1>4, <1>6

\* The enclosing statement is before what it encloses, and ends behind it.
LEMMA EnclosingIs ==
    ASSUME NEW p, NEW f, Tree(f, p), Closed(f, p), NEW kinds, kinds \subseteq Compound
    PROVE  \A i \in 1..Len(p) :
               /\ Enclosing(p, i, kinds) \in 0..(i - 1)
               /\ Enclosing(p, i, kinds) # 0 =>
                      /\ p[Enclosing(p, i, kinds)].kind \in kinds
                      /\ LastOf(p, i) <= EndOf(p, Enclosing(p, i, kinds))
<1> DEFINE Good(i) ==
               /\ Enclosing(p, i, kinds) \in 0..(i - 1)
               /\ Enclosing(p, i, kinds) # 0 =>
                      /\ p[Enclosing(p, i, kinds)].kind \in kinds
                      /\ LastOf(p, i) <= EndOf(p, Enclosing(p, i, kinds))
           T == {i \in 1..Len(p) : ~Good(i)}
<1>1. Len(p) \in Nat
  BY DEF Tree
<1>2. T = {}
  <2> SUFFICES ASSUME T # {} PROVE FALSE
    OBVIOUS
  <2>1. PICK i \in T : \A y \in T : i <= y
    <3>1. T \in SUBSET Nat
      BY <1>1
    <3> HIDE DEF T
    <3> QED BY <3>1, LeastNumber
  <2>2. i \in 1..Len(p) /\ ~Good(i)
    OBVIOUS
  <2> DEFINE k == f[i]
  <2>3. k \in 0..(i - 1) /\ (k # 0 => k \in 1..Len(p) /\ p[k].kind \in Compound)
    BY <1>1, <2>2 DEF Tree
  <2>4. k # 0 => Good(k)
    <3>1. k # 0 => k \in 1..Len(p) /\ ~(i <= k)
      BY <1>1, <2>2, <2>3
    <3>2. k \notin T
      <4> HIDE DEF T
      <4> QED BY <2>1, <2>2, <3>1, <1>1
    <3> QED BY <3>1, <3>2
  <2> HIDE DEF T
  <2>5. CASE k = 0
    BY <2>2, <2>3, <2>5, EnclosingStep
  <2>6. k # 0 => LastOf(p, i) \in i..Len(p) /\ LastOf(p, i) <= EndOf(p, k)
    BY <2>2, Nested
  <2>7. CASE k # 0 /\ p[k].kind \in kinds
    BY <2>2, <2>3, <2>6, <2>7, EnclosingStep
  <2>8. CASE k # 0 /\ p[k].kind \notin kinds
    <3> DEFINE c == Enclosing(p, k, kinds)
    <3>1. Enclosing(p, i, kinds) = c
      BY <2>2, <2>8, EnclosingStep
    <3>2. c \in 0..(k - 1) /\ (c # 0 => p[c].kind \in kinds /\ LastOf(p, k) <= EndOf(p, c))
      BY <2>4, <2>8
    <3>3. LastOf(p, k) = EndOf(p, k) /\ EndOf(p, k) \in (k + 1)..Len(p)
      BY <2>3, <2>8, EndIs DEF LastOf
    <3>4. c # 0 => EndOf(p, c) \in (c + 1)..Len(p)
      <4>1. c # 0 => c \in 1..Len(p) /\ p[c].kind \in Compound
        BY <1>1, <2>3, <2>8, <3>2
      <4> HIDE DEF c
      <4> QED BY <4>1, EndIs
    <3> HIDE DEF c, k
    <3>5. c \in 0..(i - 1) /\ (c # 0 => p[c].kind \in kinds /\ LastOf(p, i) <= EndOf(p, c))
      BY <1>1, <2>2, <2>3, <2>6, <2>8, <3>2, <3>3, <3>4
    <3> QED BY <2>2, <3>1, <3>5
  <2> QED BY <2>5, <2>7, <2>8
<1> QED BY <1>2

LEMMA FollowerIs ==
    ASSUME NEW p, NEW i
    PROVE  Follower(p, i) = LastOf(p, i) + 1
BY DEF Follower, LastOf

LEMMA FallStep ==
    ASSUME NEW p, NEW f, Tree(f, p), NEW i \in 1..Len(p)
    PROVE  Fall(p)[i] =
               IF IsStatement(p, Follower(p, i)) THEN Follower(p, i)
               ELSE IF f[i] = 0 THEN 0
               ELSE IF p[f[i]].kind = "loop" THEN f[i]
               ELSE Fall(p)[f[i]]
<1> DEFINE n == Len(p)
           Falls(h) == h = [j \in DOMAIN p |->
                               IF IsStatement(p, Follower(p, j)) THEN Follower(p, j)
                               ELSE IF f[j] = 0 THEN 0
                               ELSE IF p[f[j]].kind = "loop" THEN f[j]
                               ELSE h[f[j]]]
           next == CHOOSE h : Falls(h)
<1>1. n \in Nat /\ Parent(p) = f /\ DOMAIN p = 1..n /\ \A j \in 1..n : f[j] \in 0..(j - 1)
  BY ParentIs DEF Tree
<1>2. \E h : Falls(h)
  <2> DEFINE stop == [j \in 0..n |-> \/ j = 0
                                     \/ IsStatement(p, Follower(p, j))
                                     \/ f[j] = 0
                                     \/ p[f[j]].kind = "loop"]
             val == [j \in 0..n |-> IF IsStatement(p, Follower(p, j)) THEN Follower(p, j)
                                    ELSE f[j]]
  <2>1. \A j \in 1..n : stop[j] <=> \/ IsStatement(p, Follower(p, j))
                                    \/ f[j] = 0
                                    \/ p[f[j]].kind = "loop"
    <3>1. \A j \in 1..n : j \in 0..n /\ j # 0
      BY <1>1
    <3> HIDE DEF n
    <3> QED BY <3>1
  <2>2. \A j \in 1..n : val[j] = IF IsStatement(p, Follower(p, j)) THEN Follower(p, j)
                                 ELSE f[j]
    BY <1>1
  <2>3. \A j \in 0..n : ~stop[j] => j \in 1..n
    BY <1>1
  <2> HIDE DEF stop, val
  <2>4. \A j \in 0..n : ~stop[j] => f[j] \in 0..(j - 1)
    BY <1>1, <2>3
  <2> HIDE DEF n
  <2>5. PICK g : Climbs(g, n, stop, val, f)
    BY <1>1, <2>4, ClimbExists
  <2> DEFINE h == [j \in 1..n |-> g[j]]
  <2>6. ASSUME NEW j \in 1..n
        PROVE  h[j] = IF IsStatement(p, Follower(p, j)) THEN Follower(p, j)
                      ELSE IF f[j] = 0 THEN 0
                      ELSE IF p[f[j]].kind = "loop" THEN f[j]
                      ELSE h[f[j]]
    <3>1. j \in 0..n /\ h[j] = g[j]
      BY <1>1
    <3>2. g[j] = IF stop[j] THEN val[j] ELSE g[f[j]]
      BY <2>5, <3>1 DEF Climbs
    <3>3. f[j] # 0 => f[j] \in 1..n /\ h[f[j]] = g[f[j]]
      BY <1>1
    <3> HIDE DEF h
    <3> QED BY <2>1, <2>2, <3>1, <3>2, <3>3
  <2>7. h = [j \in 1..n |-> h[j]]
    OBVIOUS
  <2> HIDE DEF h
  <2>8. Falls(h)
    BY <1>1, <2>6, <2>7
  <2> QED BY <2>8
<1>3. Falls(next)
  <2> HIDE DEF Falls
  <2> QED BY <1>2
<1>4. Fall(p) = next
  BY <1>1 DEF Fall
<1> HIDE DEF next
<1>5. next[i] = IF IsStatement(p, Follower(p, i)) THEN Follower(p, i)
                ELSE IF f[i] = 0 THEN 0
                ELSE IF p[f[i]].kind = "loop" THEN f[i]
                ELSE next[f[i]]
  BY <1>1, <1>3
<1> QED BY <1>4, <1>5

\* Control falls to a statement behind, or back to a loop around, or off the end.
LEMMA FallIs ==
    ASSUME NEW p, NEW f, Tree(f, p), Closed(f, p)
    PROVE  \A i \in 1..Len(p) :
               \/ Fall(p)[i] = 0
               \/ /\ Fall(p)[i] \in Statements(p)
                  /\ \/ Fall(p)[i] > LastOf(p, i)
                     \/ Fall(p)[i] < i /\ p[Fall(p)[i]].kind = "loop"
<1> DEFINE Good(i) == \/ Fall(p)[i] = 0
                      \/ /\ Fall(p)[i] \in Statements(p)
                         /\ \/ Fall(p)[i] > LastOf(p, i)
                            \/ Fall(p)[i] < i /\ p[Fall(p)[i]].kind = "loop"
           T == {i \in 1..Len(p) : ~Good(i)}
<1>1. Len(p) \in Nat /\ DOMAIN p = 1..Len(p)
  BY DEF Tree
<1>2. T = {}
  <2> SUFFICES ASSUME T # {} PROVE FALSE
    OBVIOUS
  <2>1. PICK i \in T : \A y \in T : i <= y
    <3>1. T \in SUBSET Nat
      BY <1>1
    <3> HIDE DEF T
    <3> QED BY <3>1, LeastNumber
  <2>2. i \in 1..Len(p) /\ ~Good(i)
    OBVIOUS
  <2> DEFINE k == f[i]
             l == LastOf(p, i)
  <2>3. k \in 0..(i - 1) /\ (k # 0 => k \in 1..Len(p) /\ p[k].kind \in Compound)
    BY <1>1, <2>2 DEF Tree
  <2>4. k # 0 => Good(k)
    <3>1. k # 0 => k \in 1..Len(p) /\ ~(i <= k)
      BY <1>1, <2>2, <2>3
    <3>2. k \notin T
      <4> HIDE DEF T
      <4> QED BY <1>1, <2>1, <2>2, <3>1
    <3> QED BY <3>1, <3>2
  <2>5. l \in i..Len(p)
    <3>1. CASE p[i].kind \in Compound
      BY <1>1, <2>2, <3>1, EndIs DEF LastOf
    <3>2. CASE p[i].kind \notin Compound
      BY <1>1, <2>2, <3>2 DEF LastOf
    <3> QED BY <3>1, <3>2
  <2> HIDE DEF T
  <2>6. CASE IsStatement(p, l + 1)
    <3>1. Fall(p)[i] = l + 1
      BY <2>2, <2>6, FallStep, FollowerIs
    <3>2. l + 1 \in Statements(p)
      BY <2>6 DEF Statements, IsStatement
    <3> QED BY <2>2, <2>5, <3>1, <3>2
  <2>7. CASE ~IsStatement(p, l + 1) /\ k = 0
    BY <2>2, <2>7, FallStep, FollowerIs
  <2>8. CASE ~IsStatement(p, l + 1) /\ k # 0 /\ p[k].kind = "loop"
    <3>1. Fall(p)[i] = k
      BY <2>2, <2>8, FallStep, FollowerIs
    <3>2. k \in Statements(p)
      BY <1>1, <2>3, <2>8 DEF Statements, IsStatement
    <3> QED BY <2>2, <2>3, <2>8, <3>1, <3>2
  <2>9. CASE ~IsStatement(p, l + 1) /\ k # 0 /\ p[k].kind # "loop"
    <3> DEFINE t == Fall(p)[k]
    <3>1. Fall(p)[i] = t
      BY <2>2, <2>9, FallStep, FollowerIs
    <3>2. LastOf(p, k) = EndOf(p, k) /\ EndOf(p, k) \in (k + 1)..Len(p)
      BY <2>3, <2>9, EndIs DEF LastOf
    <3>3. l <= EndOf(p, k)
      BY <2>2, <2>9, Nested
    <3>4. t = 0 \/ (t \in Statements(p)
                      /\ (t > EndOf(p, k) \/ (t < k /\ p[t].kind = "loop")))
      BY <2>4, <2>9, <3>2
    <3>5. t \in Statements(p) => t \in Nat
      BY <1>1 DEF Statements
    <3> HIDE DEF t, l, k
    <3>6. t = 0 \/ (t \in Statements(p) /\ (t > l \/ (t < i /\ p[t].kind = "loop")))
      BY <1>1, <2>2, <2>3, <2>5, <2>9, <3>2, <3>3, <3>4, <3>5
    <3> QED BY <2>2, <3>1, <3>6 DEF l
  <2> QED BY <2>6, <2>7, <2>8, <2>9
<1> QED BY <1>2

\* Enclosing depends on nothing behind an item, nor on the item itself.
LEMMA SameEnclosing ==
    ASSUME NEW p, NEW f, Tree(f, p), NEW q, NEW g, Tree(g, q),
           NEW m \in Nat, m <= Len(p), m <= Len(q), NEW kinds,
           \A i \in 1..m : f[i] = g[i],
           \A i \in 1..(m - 1) : p[i].kind \in kinds <=> q[i].kind \in kinds
    PROVE  \A i \in 1..m : Enclosing(p, i, kinds) = Enclosing(q, i, kinds)
<1> DEFINE T == {i \in 1..m : Enclosing(p, i, kinds) # Enclosing(q, i, kinds)}
<1> SUFFICES ASSUME T # {} PROVE FALSE
  OBVIOUS
<1>1. PICK i \in T : \A y \in T : i <= y
  <2>1. T \in SUBSET Nat
    OBVIOUS
  <2> HIDE DEF T
  <2> QED BY <2>1, LeastNumber
<1>2. i \in 1..m /\ Enclosing(p, i, kinds) # Enclosing(q, i, kinds)
  OBVIOUS
<1>3. ASSUME NEW k \in 1..(i - 1) PROVE Enclosing(p, k, kinds) = Enclosing(q, k, kinds)
  <2>1. k \in 1..m /\ ~(i <= k)
    BY <1>2
  <2>2. k \notin T
    <3> HIDE DEF T
    <3> QED BY <1>1, <2>1
  <2> QED BY <2>1, <2>2
<1> HIDE DEF T
<1>4. Len(p) \in Nat /\ Len(q) \in Nat
  BY DEF Tree
<1>5. i \in 1..Len(p) /\ i \in 1..Len(q) /\ f[i] = g[i]
  BY <1>2, <1>4
<1>6. f[i] \in 0..(i - 1)
  BY <1>5 DEF Tree
<1>7. CASE f[i] = 0
  BY <1>2, <1>5, <1>7, EnclosingStep
<1>8. CASE f[i] # 0
  <2> DEFINE k == f[i]
  <2>1. k \in 1..(i - 1) /\ k \in 1..(m - 1)
    BY <1>2, <1>6, <1>8
  <2>2. p[k].kind \in kinds <=> q[k].kind \in kinds
    BY <2>1
  <2>3. Enclosing(p, k, kinds) = Enclosing(q, k, kinds)
    BY <1>3, <2>1
  <2>4. Enclosing(p, i, kinds) = IF k = 0 \/ p[k].kind \in kinds THEN k ELSE Enclosing(p, k, kinds)
    BY <1>5, EnclosingStep
  <2>5. Enclosing(q, i, kinds) = IF k = 0 \/ q[k].kind \in kinds THEN k ELSE Enclosing(q, k, kinds)
    BY <1>5, EnclosingStep
  <2> HIDE DEF k
  <2> QED BY <1>2, <2>2, <2>3, <2>4, <2>5
<1> QED BY <1>7, <1>8

-----------------------------------------------------------------------------
(* What is written *)

LEMMA AppendTree ==
    ASSUME NEW p \in Seq(Items), NEW f, Tree(f, p), NEW x \in Items,
           x.kind \in Closing => NextParent(f, p) # 0
    PROVE  Tree(Extended(f, p), Append(p, x))
<1> DEFINE n == Len(p)
           q == Append(p, x)
           g == Extended(f, p)
           v == NextParent(f, p)
<1>1. n \in Nat /\ DOMAIN p = 1..n
  BY DEF Tree
<1>2. Len(q) = n + 1 /\ DOMAIN q = 1..(n + 1)
      /\ q[n + 1] = x /\ (\A i \in 1..n : q[i] = p[i])
  BY <1>1
<1>3. g = [i \in 1..(n + 1) |-> IF i = n + 1 THEN v ELSE f[i]]
  BY DEF Extended
<1>4. g[n + 1] = v /\ \A i \in 1..n : g[i] = f[i]
  <2>1. n + 1 \in 1..(n + 1) /\ \A i \in 1..n : i \in 1..(n + 1) /\ i # n + 1
    BY <1>1
  <2> HIDE DEF n, v, g
  <2> QED BY <1>3, <2>1
<1>5. v \in 0..n /\ (v # 0 => p[v].kind \in Compound)
  <2>1. CASE n = 0
    BY <2>1 DEF NextParent
  <2>2. CASE n # 0 /\ p[n].kind \in Compound
    BY <1>1, <2>2 DEF NextParent
  <2>3. CASE n # 0 /\ p[n].kind \notin Compound /\ p[n].kind \in Closing
    <3>1. v = f[f[n]]
      BY <2>3 DEF NextParent
    <3>2. f[n] \in 1..(n - 1) /\ f[n] \in 1..n
      <4>1. n \in 1..n
        BY <1>1, <2>3
      <4>2. f[n] \in 0..(n - 1) /\ f[n] # 0
        BY <2>3, <4>1 DEF Tree
      <4> QED BY <1>1, <4>2
    <3>3. f[f[n]] \in 0..(f[n] - 1) /\ (f[f[n]] # 0 => p[f[f[n]]].kind \in Compound)
      BY <3>2 DEF Tree
    <3> QED BY <1>1, <3>1, <3>2, <3>3
  <2>4. CASE n # 0 /\ p[n].kind \notin Compound /\ p[n].kind \notin Closing
    <3>1. v = f[n] /\ n \in 1..n
      BY <1>1, <2>4 DEF NextParent
    <3>2. f[n] \in 0..(n - 1) /\ (f[n] # 0 => p[f[n]].kind \in Compound)
      BY <3>1 DEF Tree
    <3> QED BY <1>1, <3>1, <3>2
  <2> QED BY <2>1, <2>2, <2>3, <2>4
<1> HIDE DEF q, g
<1>6. ASSUME NEW i \in 1..(n + 1)
      PROVE  g[i] = IF i = 1 THEN 0
                    ELSE IF q[i - 1].kind \in Compound THEN i - 1
                    ELSE IF q[i - 1].kind \in Closing THEN g[g[i - 1]]
                    ELSE g[i - 1]
  <2>1. i # 1 => i - 1 \in 1..n /\ q[i - 1] = p[i - 1] /\ g[i - 1] = f[i - 1]
    BY <1>1, <1>2, <1>4
  <2>2. i # 1 /\ p[i - 1].kind \in Closing => f[i - 1] \in 1..n /\ g[f[i - 1]] = f[f[i - 1]]
    <3>1. ASSUME i # 1, p[i - 1].kind \in Closing
          PROVE  f[i - 1] \in 1..n
      <4>1. f[i - 1] \in 0..((i - 1) - 1) /\ f[i - 1] # 0
        BY <2>1, <3>1 DEF Tree
      <4> QED BY <1>1, <2>1, <3>1, <4>1
    <3> QED BY <1>4, <3>1
  <2>3. CASE i = n + 1
    <3>1. g[i] = v /\ (i # 1 <=> n # 0) /\ i - 1 = n
      BY <1>1, <1>4, <2>3
    <3>2. v = IF n = 0 THEN 0 ELSE IF p[n].kind \in Compound THEN n
              ELSE IF p[n].kind \in Closing THEN f[f[n]] ELSE f[n]
      BY DEF NextParent
    <3> HIDE DEF v, n
    <3> QED BY <2>1, <2>2, <3>1, <3>2
  <2>4. CASE i # n + 1
    <3>1. i \in 1..n /\ g[i] = f[i] /\ i \in DOMAIN p
      BY <1>1, <1>4, <2>4
    <3>2. f[i] = IF i = 1 THEN 0
                 ELSE IF p[i - 1].kind \in Compound THEN i - 1
                 ELSE IF p[i - 1].kind \in Closing THEN f[f[i - 1]]
                 ELSE f[i - 1]
      BY <3>1 DEF Tree, Computes
    <3> HIDE DEF n
    <3> QED BY <2>1, <2>2, <3>1, <3>2
  <2> QED BY <2>3, <2>4
<1>7. Computes(g, q)
  <2>1. g = [i \in 1..(n + 1) |-> g[i]]
    BY <1>3
  <2> HIDE DEF n
  <2> QED BY <1>2, <1>6, <2>1 DEF Computes
<1> HIDE DEF v
<1>8. ASSUME NEW i \in 1..Len(q)
      PROVE  /\ g[i] \in 0..(i - 1)
             /\ g[i] # 0 => q[g[i]].kind \in Compound
             /\ q[i].kind \in Closing => g[i] # 0
  <2>1. CASE i = n + 1
    <3>1. g[i] = v /\ q[i] = x /\ i - 1 = n
      BY <1>1, <1>2, <1>4, <2>1
    <3>2. v # 0 => v \in 1..n /\ q[v] = p[v]
      BY <1>1, <1>2, <1>5
    <3> HIDE DEF n
    <3> QED BY <1>5, <3>1, <3>2 DEF v
  <2>2. CASE i # n + 1
    <3>1. i \in 1..n /\ g[i] = f[i] /\ q[i] = p[i]
      BY <1>1, <1>2, <1>4, <2>2
    <3>2. /\ f[i] \in 0..(i - 1)
          /\ f[i] # 0 => p[f[i]].kind \in Compound
          /\ p[i].kind \in Closing => f[i] # 0
      BY <3>1 DEF Tree
    <3>3. f[i] # 0 => f[i] \in 1..n /\ q[f[i]] = p[f[i]]
      BY <1>1, <1>2, <3>1, <3>2
    <3> QED BY <3>1, <3>2, <3>3
  <2> QED BY <2>1, <2>2
<1>9. Len(q) \in Nat /\ DOMAIN q = 1..Len(q)
  BY <1>1, <1>2
<1>10. Tree(g, q)
  BY <1>7, <1>8, <1>9 DEF Tree
<1> QED BY <1>10 DEF g, q

LEMMA AppendWritten ==
    ASSUME NEW p, NEW f, Written(f, p), NEW x \in Items,
           x.kind \in Closing => NextParent(f, p) # 0,
           x.kind = "goto" => x.dest # Len(p) + 1,
           x.kind = "break" => Enclosing(Append(p, x), Len(p) + 1, {"loop", "switch"}) # 0,
           x.kind = "continue" => Enclosing(Append(p, x), Len(p) + 1, {"loop"}) # 0,
           x.kind = "else" => NextParent(f, p) # 0 /\ p[NextParent(f, p)].kind = "if",
           x.kind \in {"else", "end"} => x.label = "none",
           x.kind = "end" /\ p[NextParent(f, p)].kind = "if" =>
               \E k \in 1..Len(p) : p[k].kind = "else" /\ f[k] = NextParent(f, p)
    PROVE  Written(Extended(f, p), Append(p, x))
<1> DEFINE n == Len(p)
           q == Append(p, x)
           g == Extended(f, p)
           v == NextParent(f, p)
<1>1. p \in Seq(Items) /\ Tree(f, p) /\ n \in Nat /\ DOMAIN p = 1..n
  BY DEF Written, Tree
<1>2. q \in Seq(Items) /\ Len(q) = n + 1
      /\ q[n + 1] = x /\ (\A i \in 1..n : q[i] = p[i])
  BY <1>1
<1>3. g[n + 1] = v /\ \A i \in 1..n : g[i] = f[i]
  <2>1. g = [i \in 1..(n + 1) |-> IF i = n + 1 THEN v ELSE f[i]]
    BY DEF Extended
  <2>2. n + 1 \in 1..(n + 1) /\ \A i \in 1..n : i \in 1..(n + 1) /\ i # n + 1
    BY <1>1
  <2> HIDE DEF n, v, g
  <2> QED BY <2>1, <2>2
<1>4. Tree(g, q)
  BY <1>1, AppendTree
<1>5. \A i \in 1..n : \A kinds : Enclosing(q, i, kinds) = Enclosing(p, i, kinds)
  <2> SUFFICES ASSUME NEW kinds PROVE \A i \in 1..n : Enclosing(p, i, kinds) = Enclosing(q, i, kinds)
    OBVIOUS
  <2>1. n <= Len(p) /\ n <= Len(q)
    BY <1>1, <1>2
  <2>2. \A i \in 1..(n - 1) : i \in 1..n /\ (p[i].kind \in kinds <=> q[i].kind \in kinds)
    BY <1>1, <1>2
  <2>3. \A i \in 1..(n - 1) : p[i].kind \in kinds <=> q[i].kind \in kinds
    BY <2>2
  <2>4. Tree(f, p) /\ n \in Nat /\ \A i \in 1..n : f[i] = g[i]
    BY <1>1, <1>3
  <2> HIDE DEF n, q, g
  <2> QED BY <1>4, <2>1, <2>3, <2>4, SameEnclosing
<1>6. \A i \in 1..n : f[i] \in 0..(i - 1) /\ (f[i] # 0 => f[i] \in 1..n /\ q[f[i]] = p[f[i]])
  <2>1. \A i \in 1..n : f[i] \in 0..(i - 1)
    BY <1>1 DEF Tree
  <2> QED BY <1>1, <1>2, <2>1
<1>7. v \in 0..n /\ (v # 0 => q[v] = p[v])
  <2>1. g[n + 1] \in 0..((n + 1) - 1)
    BY <1>1, <1>2, <1>4 DEF Tree
  <2> QED BY <1>1, <1>2, <1>3, <2>1
<1> HIDE DEF q, g, v
<1>8. ASSUME NEW i \in 1..Len(q)
      PROVE  i \in 1..n \/ i = n + 1
  BY <1>1, <1>2
<1>9. \A i \in 1..Len(q) : q[i].kind = "goto" => q[i].dest # i
  BY <1>2, <1>8 DEF Written
<1>10. \A i \in 1..Len(q) : q[i].kind = "break" => Enclosing(q, i, {"loop", "switch"}) # 0
  BY <1>2, <1>5, <1>8 DEF Written, q
<1>11. \A i \in 1..Len(q) : q[i].kind = "continue" => Enclosing(q, i, {"loop"}) # 0
  BY <1>2, <1>5, <1>8 DEF Written, q
<1>12. \A i \in 1..Len(q) : q[i].kind = "else" => g[i] # 0 /\ q[g[i]].kind = "if"
  <2> TAKE i \in 1..Len(q)
  <2>1. CASE i \in 1..n
    <3>1. q[i] = p[i] /\ g[i] = f[i] /\ (f[i] # 0 => q[f[i]] = p[f[i]])
      BY <1>2, <1>3, <1>6, <2>1
    <3>2. p[i].kind = "else" => f[i] # 0 /\ p[f[i]].kind = "if"
      BY <2>1 DEF Written
    <3> QED BY <3>1, <3>2
  <2>2. CASE i = n + 1
    <3>1. q[i] = x /\ g[i] = v
      BY <1>2, <1>3, <2>2
    <3>2. x.kind = "else" => v # 0 /\ p[v].kind = "if"
      BY DEF v
    <3> QED BY <1>7, <3>1, <3>2
  <2> QED BY <1>8, <2>1, <2>2
<1>13. \A i \in 1..Len(q) : q[i].kind \in {"else", "end"} => q[i].label = "none"
  BY <1>2, <1>8 DEF Written
<1>14. ASSUME NEW i \in 1..Len(q), q[i].kind = "end", q[g[i]].kind = "if"
       PROVE  \E k \in 1..Len(q) : q[k].kind = "else" /\ g[k] = g[i]
  <2>1. \A k \in 1..n : k \in 1..Len(q)
    BY <1>1, <1>2
  <2>2. CASE i \in 1..n
    <3>1. q[i] = p[i] /\ g[i] = f[i] /\ f[i] # 0
      <4>1. p[i].kind \in Closing
        BY <1>2, <1>14, <2>2 DEF Closing
      <4> QED BY <1>1, <1>2, <1>3, <2>2, <4>1 DEF Tree
    <3>2. p[i].kind = "end" /\ p[f[i]].kind = "if"
      BY <1>6, <1>14, <2>2, <3>1
    <3>3. PICK k \in 1..n : p[k].kind = "else" /\ f[k] = f[i]
      BY <2>2, <3>2 DEF Written
    <3> QED BY <1>2, <1>3, <2>1, <3>1, <3>3
  <2>3. CASE i = n + 1
    <3>1. q[i] = x /\ g[i] = v /\ v # 0
      BY <1>2, <1>3, <1>14, <2>3 DEF Closing, v
    <3>2. x.kind = "end" /\ p[v].kind = "if"
      BY <1>7, <1>14, <3>1
    <3>3. PICK k \in 1..n : p[k].kind = "else" /\ f[k] = v
      BY <3>2 DEF v
    <3> QED BY <1>2, <1>3, <2>1, <3>1, <3>3
  <2> QED BY <1>8, <2>2, <2>3
<1>15. Written(g, q)
  BY <1>2, <1>4, <1>9, <1>10, <1>11, <1>12, <1>13, <1>14 DEF Written
<1> QED BY <1>15 DEF g, q

LEMMA ItemType ==
    ASSUME NEW kind \in Kinds, NEW dest \in Nat, NEW label \in {"none", "case", "default"}
    PROVE  /\ Item(kind, dest, label) \in Items
           /\ Item(kind, dest, label).kind = kind
           /\ Item(kind, dest, label).dest = dest
           /\ Item(kind, dest, label).label = label
           /\ Item(kind, dest, label).scale = NoSite
BY DEF Item, Items, NoSite

\* Within says where any next item will be.
LEMMA WithinIs ==
    ASSUME BodyInv, NEW kinds, NEW x \in Items,
           x.kind \in Closing => NextParent(Parent(body), body) # 0
    PROVE  /\ Enclosing(Append(body, x), At, kinds) = Within(kinds)
           /\ Within(Compound) = NextParent(Parent(body), body)
<1> DEFINE f == Parent(body)
           n == Len(body)
           g == Extended(f, body)
           q == Append(body, x)
           r == Append(body, EmptyStmt)
           v == NextParent(f, body)
<1>1. body \in Seq(Items) /\ Tree(f, body) /\ n \in Nat /\ At = n + 1
  BY DEF BodyInv, Written, Tree, At
<1>2. EmptyStmt \in Items /\ EmptyStmt.kind \notin Closing
  BY ItemType DEF EmptyStmt, Kinds, Closing
<1>3. Tree(g, q) /\ Tree(g, r)
  BY <1>1, <1>2, AppendTree
<1>4. Len(q) = n + 1 /\ Len(r) = n + 1 /\ \A i \in 1..n : q[i] = r[i]
      /\ r[i] = body[i]
  BY <1>1, <1>2
<1>5. g[n + 1] = v
  BY <1>1 DEF Extended
<1> HIDE DEF f, g, q, r, v, n
<1>6. Enclosing(q, n + 1, kinds) = Enclosing(r, n + 1, kinds)
  <2>1. n + 1 \in Nat /\ n + 1 <= Len(q) /\ n + 1 <= Len(r) /\ n + 1 \in 1..(n + 1)
    BY <1>1, <1>4
  <2>2. \A i \in 1..((n + 1) - 1) : q[i].kind \in kinds <=> r[i].kind \in kinds
    BY <1>1, <1>4
  <2>3. \A i \in 1..(n + 1) : Enclosing(q, i, kinds) = Enclosing(r, i, kinds)
    BY <1>3, <2>1, <2>2, SameEnclosing
  <2> QED BY <2>1, <2>3
<1>7. Enclosing(r, n + 1, Compound) = v
  <2>1. n + 1 \in 1..Len(r)
    BY <1>1, <1>4
  <2>2. g[n + 1] # 0 => r[g[n + 1]].kind \in Compound
    BY <1>3, <2>1 DEF Tree
  <2> QED BY <1>3, <1>5, <2>1, <2>2, EnclosingStep
<1> QED BY <1>1, <1>6, <1>7 DEF Within, q, r, v, f

LEMMA WriteKeeps ==
    ASSUME BodyInv, NEW x \in Items, Write(x),
           x.kind \in Closing => Within(Compound) # 0,
           x.kind = "goto" => x.dest # At,
           x.kind = "break" => Within({"loop", "switch"}) # 0,
           x.kind = "continue" => Within({"loop"}) # 0,
           x.kind = "else" => Within(Compound) # 0 /\ body[Within(Compound)].kind = "if",
           x.kind \in {"else", "end"} => x.label = "none",
           x.kind = "end" /\ body[Within(Compound)].kind = "if" => HasElse(Within(Compound))
    PROVE  BodyInv'
<1> DEFINE f == Parent(body)
           v == NextParent(f, body)
           q == Append(body, x)
<1>1. Written(f, body) /\ At = Len(body) + 1 /\ DOMAIN body = 1..Len(body)
  BY DEF BodyInv, Written, Tree, At
<1>2. EmptyStmt \in Items /\ EmptyStmt.kind \notin Closing
  BY ItemType DEF EmptyStmt, Kinds, Closing
<1>3. Within(Compound) = v
  BY <1>2, WithinIs
<1>4. \A kinds : Enclosing(q, At, kinds) = Within(kinds)
  BY <1>3, WithinIs
<1>5. x.kind = "end" /\ body[v].kind = "if" =>
          \E k \in 1..Len(body) : body[k].kind = "else" /\ f[k] = v
  BY <1>1, <1>3 DEF HasElse
<1>6. x.kind = "break" => Enclosing(q, Len(body) + 1, {"loop", "switch"}) # 0
  BY <1>1, <1>4
<1>7. x.kind = "continue" => Enclosing(q, Len(body) + 1, {"loop"}) # 0
  BY <1>1, <1>4
<1>8. /\ x.kind \in Closing => v # 0
      /\ x.kind = "goto" => x.dest # Len(body) + 1
      /\ x.kind = "else" => v # 0 /\ body[v].kind = "if"
  BY <1>1, <1>3
<1> HIDE DEF f
<1>9. Written(Extended(f, body), q)
  BY <1>1, <1>5, <1>6, <1>7, <1>8, AppendWritten
<1>10. body' = q
  BY DEF Write
<1>11. Parent(body') = Extended(f, body)
  BY <1>9, <1>10, ParentIs DEF Written
<1> QED BY <1>9, <1>10, <1>11 DEF BodyInv

LEMMA InitBody == Init => BodyInv
<1> SUFFICES ASSUME Init PROVE BodyInv
  OBVIOUS
<1> DEFINE f == [i \in 1..0 |-> 0]
<1>1. body = << >> /\ body \in Seq(Items) /\ Len(body) = 0 /\ DOMAIN body = 1..0
  BY EmptySeq DEF Init
<1>2. \A i \in 1..0 : FALSE
  OBVIOUS
<1>3. Computes(f, body)
  BY <1>1, <1>2 DEF Computes
<1> HIDE DEF f
<1>4. Tree(f, body)
  BY <1>1, <1>2, <1>3 DEF Tree
<1>5. Written(f, body)
  BY <1>1, <1>2, <1>4 DEF Written
<1>6. Parent(body) = f
  BY <1>4, ParentIs
<1> QED BY <1>5, <1>6 DEF BodyInv

LEMMA NextWrites ==
    ASSUME Next
    PROVE  \E x : Fits(x) /\ Write(x)
<1> DEFINE Labels == {"none", "case", "default"}
<1>1. \A label \in LabelsHere : label \in Labels /\ (label # "none" => Within({"switch"}) # 0)
  BY DEF LabelsHere
<1>2. 0 \in Nat /\ "none" \in Labels
  OBVIOUS
<1>3. ASSUME NEW kind \in Kinds, NEW dest \in Nat, NEW label \in Labels
      PROVE  /\ Item(kind, dest, label) \in Items /\ Item(kind, dest, label).scale = NoSite
             /\ Item(kind, dest, label).kind = kind /\ Item(kind, dest, label).dest = dest
             /\ Item(kind, dest, label).label = label
  BY ItemType DEF Item
<1>4. CASE WritePlain
  <2>1. PICK kind \in {"instr", "return"}, label \in LabelsHere : Room > 0 /\ Write(Item(kind, 0, label))
    BY <1>4 DEF WritePlain
  <2>2. kind \in Kinds /\ kind \notin Compound \cup Closing
    BY DEF Kinds, Compound, Closing
  <2>3. Fits(Item(kind, 0, label))
    BY <1>1, <1>2, <1>3, <2>1, <2>2 DEF Fits
  <2> QED BY <2>1, <2>3
<1>5. CASE WriteCall
  <2>1. "call" \in Kinds /\ "call" \notin Compound \cup Closing
    BY DEF Kinds, Compound, Closing
  <2>2. Fits(Item("call", 0, "none"))
    BY <1>2, <1>3, <1>5, <2>1 DEF Fits, WriteCall
  <2> QED BY <1>5, <2>2 DEF WriteCall
<1>6. CASE WriteGoto
  <2>1. PICK dest \in (1..Size) \ {At}, label \in LabelsHere : Write(Item("goto", dest, label))
    BY <1>6 DEF WriteGoto
  <2>2. "goto" \in Kinds /\ "goto" \notin Compound \cup Closing /\ dest \in Nat /\ Room > 0
    BY <1>6 DEF Kinds, Compound, Closing, WriteGoto
  <2>3. Fits(Item("goto", dest, label))
    BY <1>1, <1>3, <2>1, <2>2 DEF Fits
  <2> QED BY <2>1, <2>3
<1>7. CASE WriteBreak
  <2>1. PICK label \in LabelsHere :
            Room > 0 /\ Within({"loop", "switch"}) # 0 /\ Write(Item("break", 0, label))
    BY <1>7 DEF WriteBreak
  <2>2. "break" \in Kinds /\ "break" \notin Compound \cup Closing
    BY DEF Kinds, Compound, Closing
  <2>3. Fits(Item("break", 0, label))
    BY <1>1, <1>2, <1>3, <2>1, <2>2 DEF Fits
  <2> QED BY <2>1, <2>3
<1>8. CASE WriteContinue
  <2>1. PICK label \in LabelsHere : Room > 0 /\ Within({"loop"}) # 0 /\ Write(Item("continue", 0, label))
    BY <1>8 DEF WriteContinue
  <2>2. "continue" \in Kinds /\ "continue" \notin Compound \cup Closing
    BY DEF Kinds, Compound, Closing
  <2>3. Fits(Item("continue", 0, label))
    BY <1>1, <1>2, <1>3, <2>1, <2>2 DEF Fits
  <2> QED BY <2>1, <2>3
<1>9. CASE OpenCompound
  <2>1. PICK kind \in Compound, label \in LabelsHere :
            Room > (IF kind = "if" THEN 2 ELSE 1) /\ Write(Item(kind, 0, label))
    BY <1>9 DEF OpenCompound
  <2>2. /\ kind \in Kinds /\ kind \notin Closing
        /\ kind \notin {"goto", "break", "continue", "call", "else", "end"}
    BY DEF Kinds, Compound, Closing
  <2>3. Fits(Item(kind, 0, label))
    BY <1>1, <1>2, <1>3, <2>1, <2>2 DEF Fits
  <2> QED BY <2>1, <2>3
<1>10. CASE WriteElse
  <2>1. "else" \in Kinds /\ "else" \notin Compound \cup Closing
    BY DEF Kinds, Compound, Closing
  <2>2. Fits(Item("else", 0, "none"))
    BY <1>2, <1>3, <1>10, <2>1 DEF Fits, WriteElse
  <2> QED BY <1>10, <2>2 DEF WriteElse
<1>11. CASE WriteEnd
  <2>1. "end" \in Kinds /\ "end" \notin Compound
    BY DEF Kinds, Compound
  <2>2. Fits(Item("end", 0, "none"))
    BY <1>2, <1>3, <1>11, <2>1 DEF Fits, WriteEnd
  <2> QED BY <1>11, <2>2 DEF WriteEnd
<1> QED BY <1>4, <1>5, <1>6, <1>7, <1>8, <1>9, <1>10, <1>11 DEF Next

LEMMA NextBody == BodyInv /\ [Next]_body => BodyInv'
<1> SUFFICES ASSUME BodyInv, [Next]_body PROVE BodyInv'
  OBVIOUS
<1>1. CASE Next
  <2>1. PICK x : Fits(x) /\ Write(x)
    BY <1>1, NextWrites
  <2> QED BY <2>1, WriteKeeps DEF Fits
<1>2. CASE UNCHANGED body
  BY <1>2 DEF BodyInv
<1> QED BY <1>1, <1>2

\* No two ends are those of one statement.
LEMMA EndsOnce ==
    ASSUME BodyInv
    PROVE  LET C == {i \in DOMAIN body : body[i].kind \in Compound}
               E == {i \in DOMAIN body : body[i].kind = "end"}
           IN  /\ IsFiniteSet(C) /\ IsFiniteSet(E)
               /\ [j \in E |-> Parent(body)[j]] \in Injection(E, C)
               /\ \A i \in 1..Len(body) : body[i].kind \in Closing <=> body[i].kind = "end"
<1> DEFINE f == Parent(body)
           C == {i \in DOMAIN body : body[i].kind \in Compound}
           E == {i \in DOMAIN body : body[i].kind = "end"}
           h == [j \in E |-> f[j]]
<1>1. Tree(f, body) /\ body \in Seq(Items) /\ DOMAIN body = 1..Len(body) /\ Len(body) \in Nat
  BY DEF BodyInv, Written, Tree
<1>2. \A i \in 1..Len(body) : body[i].kind \in Closing <=> body[i].kind = "end"
  <2>1. \A i \in 1..Len(body) : body[i].kind \in Kinds
    <3>1. \A i \in 1..Len(body) : body[i] \in Items
      BY <1>1, ElementOfSeq
    <3> QED BY <3>1 DEF Items
  <2> QED BY <2>1 DEF Kinds, Closing
<1>3. IsFiniteSet(C) /\ IsFiniteSet(E)
  <2>1. IsFiniteSet(1..Len(body))
    BY <1>1, FS_Interval
  <2> QED BY <1>1, <2>1, FS_Subset
<1>4. h \in Injection(E, C)
  <2>1. ASSUME NEW j \in E
        PROVE  h[j] = f[j] /\ Ends(f, body, f[j], j) /\ f[j] \in C /\ j \in 1..Len(body)
    <3>1. j \in 1..Len(body) /\ body[j].kind \in Closing
      BY <1>1, <1>2
    <3>2. f[j] \in 0..(j - 1) /\ f[j] # 0 /\ body[f[j]].kind \in Compound
      BY <1>1, <3>1 DEF Tree
    <3>3. f[j] \in 1..Len(body)
      BY <1>1, <3>1, <3>2
    <3> QED BY <1>1, <3>1, <3>2, <3>3 DEF Ends
  <2>2. h \in [E -> C]
    <3> HIDE DEF C
    <3> QED BY <2>1
  <2>3. ASSUME NEW a \in E, NEW b \in E, h[a] = h[b], a < b PROVE FALSE
    <3>1. f[b] < f[a] \/ f[b] > a
      BY <1>1, <2>1, <2>3, BehindTheEnd
    <3>2. f[a] \in 0..(a - 1)
      BY <1>1, <2>1 DEF Tree
    <3> QED BY <1>1, <2>1, <2>3, <3>1, <3>2
  <2>4. \A a, b \in E : h[a] = h[b] => a = b
    <3> SUFFICES ASSUME NEW a \in E, NEW b \in E, h[a] = h[b] PROVE a = b
      OBVIOUS
    <3>1. a \in 1..Len(body) /\ b \in 1..Len(body)
      BY <2>1
    <3>2. ~(a < b) /\ ~(b < a)
      <4> HIDE DEF E, h
      <4> QED BY <2>3
    <3> QED BY <1>1, <3>1, <3>2
  <2>5. DOMAIN h = E
    OBVIOUS
  <2> HIDE DEF h, E, C
  <2> QED BY <2>2, <2>4, <2>5 DEF Injection, IsInjective
<1> QED BY <1>2, <1>3, <1>4

\* As many ends as statements to be closed.
LEMMA CompleteIsClosed ==
    ASSUME BodyInv, Complete
    PROVE  Closed(Parent(body), body)
<1> DEFINE f == Parent(body)
           C == {i \in DOMAIN body : body[i].kind \in Compound}
           E == {i \in DOMAIN body : body[i].kind = "end"}
           h == [j \in E |-> f[j]]
<1>1. Tree(f, body) /\ body \in Seq(Items) /\ DOMAIN body = 1..Len(body) /\ Len(body) \in Nat
  BY DEF BodyInv, Written, Tree
<1>2. \A i \in 1..Len(body) : body[i].kind \in Closing <=> body[i].kind = "end"
  BY EndsOnce
<1>3. IsFiniteSet(C) /\ IsFiniteSet(E)
  BY EndsOnce
<1>4. Cardinality(C) = Cardinality(E)
  <2>1. Open = Cardinality(C) - Cardinality(E) /\ Open = 0
    BY DEF Open, Complete
  <2> HIDE DEF C, E
  <2>2. Cardinality(C) \in Nat /\ Cardinality(E) \in Nat
    BY <1>3, FS_CardinalityType
  <2> QED BY <2>1, <2>2
<1>5. h \in Injection(E, C)
  BY EndsOnce
<1>6. h \in Surjection(E, C)
  <2> HIDE DEF h, E, C
  <2> QED BY <1>3, <1>4, <1>5, FS_Injection
<1>7. ASSUME NEW k \in 1..Len(body), body[k].kind \in Compound
      PROVE  \E j \in 1..Len(body) : Ends(f, body, k, j)
  <2>1. k \in C
    BY <1>1, <1>7
  <2>2. PICK j \in E : h[j] = k
    <3> HIDE DEF h, E, C
    <3> QED BY <1>6, <2>1 DEF Surjection
  <2>3. j \in 1..Len(body) /\ body[j].kind \in Closing /\ f[j] = k
    BY <1>1, <1>2, <2>2
  <2> QED BY <2>3 DEF Ends
<1> QED BY <1>7 DEF Closed

-----------------------------------------------------------------------------
(* Without its loops *)

LEMMA CompleteIsFinished ==
    ASSUME BodyInv, Complete
    PROVE  Finished(Parent(body), body)
<1>1. DOMAIN body = 1..Len(body)
  BY DEF BodyInv, Written, Tree
<1> QED BY <1>1, CompleteIsClosed DEF Finished, BodyInv, Complete, Gotos

LEMMA ItemIs ==
    ASSUME NEW x \in Items, NEW kind, NEW dest
    PROVE  /\ x.kind \in Kinds
           /\ [x EXCEPT !.kind = kind].kind = kind
           /\ [x EXCEPT !.kind = kind].label = x.label
           /\ [x EXCEPT !.kind = kind].scale = x.scale
           /\ [x EXCEPT !.kind = kind, !.dest = dest].kind = kind
           /\ [x EXCEPT !.kind = kind, !.dest = dest].dest = dest
           /\ [x EXCEPT !.kind = kind, !.dest = dest].label = x.label
           /\ [x EXCEPT !.kind = kind, !.dest = dest].scale = x.scale
BY DEF Items

LEMMA JumpsReplace ==
    ASSUME NEW p, NEW f, Finished(f, p)
    PROVE  /\ DOMAIN RemoveLoops(p) = 1..Len(p)
           /\ Len(RemoveLoops(p)) = Len(p)
           /\ \A i \in 1..Len(p) : Replaces(f, p, i, RemoveLoops(p)[i])
<1> DEFINE n == Len(p)
           q == RemoveLoops(p)
<1>1. p \in Seq(Items) /\ Tree(f, p) /\ n \in Nat /\ DOMAIN p = 1..n
  BY DEF Finished, Written, Tree
<1>2. DOMAIN q = 1..n
  BY <1>1 DEF RemoveLoops
<1>3. Len(q) = n
  <2> DEFINE S == {q[i] : i \in 1..n}
  <2>1. q = [i \in 1..n |-> q[i]]
    BY <1>1 DEF RemoveLoops
  <2> HIDE DEF q, n
  <2>2. q \in [1..n -> S]
    BY <2>1
  <2> HIDE DEF S
  <2>3. q \in Seq(S)
    BY <1>1, <2>2, SeqDef
  <2>4. Len(q) \in Nat /\ 1..Len(q) = 1..n
    BY <1>2, <2>3, LenProperties
  <2>5. (n # 0 => n \in 1..Len(q)) /\ (Len(q) # 0 => Len(q) \in 1..n)
    <3>1. (n # 0 => n \in 1..n) /\ (Len(q) # 0 => Len(q) \in 1..Len(q))
      BY <1>1, <2>4
    <3> QED BY <2>4, <3>1
  <2> QED BY <1>1, <2>4, <2>5
<1>4. ASSUME NEW i \in 1..n PROVE Replaces(f, p, i, q[i])
  <2>1. p[i] \in Items
    BY <1>1, ElementOfSeq
  <2>2. f[i] # 0 => Enclosing(p, i, Compound) = f[i]
    <3>1. f[i] # 0 => p[f[i]].kind \in Compound
      BY <1>1 DEF Tree
    <3> QED BY <1>1, <3>1, EnclosingStep
  <2>3. p[i].kind \in Closing => f[i] # 0
    BY <1>1 DEF Tree
  <2> DEFINE loop == Enclosing(p, i, Compound)
  <2>4. q[i] = CASE p[i].kind = "loop"     -> [p[i] EXCEPT !.kind = "block"]
                 [] p[i].kind = "break"    -> WithoutBreak(p, i)
                 [] p[i].kind = "continue" -> [p[i] EXCEPT !.kind = "goto",
                                                           !.dest = Enclosing(p, i, {"loop"})]
                 [] p[i].kind = "end" /\ p[loop].kind = "loop" ->
                        [p[i] EXCEPT !.kind = "back", !.dest = loop]
                 [] OTHER                  -> p[i]
    BY <1>1 DEF RemoveLoops
  <2> HIDE DEF loop, q, n
  <2>5. CASE p[i].kind = "loop"
    <3>1. q[i] = [p[i] EXCEPT !.kind = "block"]
      BY <2>4, <2>5
    <3> QED BY <2>1, <2>5, <3>1, ItemIs DEF Replaces
  <2>6. CASE p[i].kind = "break"
    <3> DEFINE t == Target(p, i)
    <3>1. q[i] = WithoutBreak(p, i)
      BY <2>4, <2>6
    <3>2. i \in Statements(p)
      BY <1>1, <2>6 DEF Statements, IsStatement, n
    <3>3. build(p)[i] = {t} \ {0}
      <4>1. build(p)[i] = Links(p, i) \ {0}
        BY <3>2 DEF build
      <4>2. Links(p, i) = {t}
        BY <2>6 DEF Links, Target
      <4> HIDE DEF t
      <4> QED BY <4>1, <4>2
    <3>4. CASE t = 0
      <4>1. q[i] = [p[i] EXCEPT !.kind = "return"]
        BY <3>1, <3>3, <3>4 DEF WithoutBreak
      <4> QED BY <2>1, <2>6, <3>4, <4>1, ItemIs DEF Replaces
    <3>5. CASE t # 0
      <4>1. build(p)[i] = {t}
        BY <3>3, <3>5
      <4> HIDE DEF t
      <4>2. build(p)[i] # {} /\ (CHOOSE j \in build(p)[i] : TRUE) = t
        BY <4>1
      <4>3. q[i] = [p[i] EXCEPT !.kind = "goto", !.dest = t]
        BY <3>1, <4>2 DEF WithoutBreak
      <4> QED BY <2>1, <2>6, <3>5, <4>3, ItemIs DEF Replaces, t
    <3> QED BY <3>4, <3>5
  <2>7. CASE p[i].kind = "continue"
    <3>1. q[i] = [p[i] EXCEPT !.kind = "goto", !.dest = Enclosing(p, i, {"loop"})]
      BY <2>4, <2>7
    <3> QED BY <2>1, <2>7, <3>1, ItemIs DEF Replaces
  <2>8. CASE p[i].kind = "end"
    <3>1. loop = f[i]
      BY <2>2, <2>3, <2>8 DEF Closing, loop
    <3>2. CASE p[f[i]].kind = "loop"
      <4>1. q[i] = [p[i] EXCEPT !.kind = "back", !.dest = f[i]]
        BY <2>4, <2>8, <3>1, <3>2
      <4> QED BY <2>1, <2>8, <3>2, <4>1, ItemIs DEF Replaces
    <3>3. CASE p[f[i]].kind # "loop"
      <4>1. q[i] = p[i]
        BY <2>4, <2>8, <3>1, <3>3
      <4> QED BY <2>8, <3>3, <4>1 DEF Replaces
    <3> QED BY <3>2, <3>3
  <2>9. CASE p[i].kind \notin {"loop", "break", "continue", "end"}
    <3>1. q[i] = p[i]
      BY <2>4, <2>9
    <3> QED BY <2>9, <3>1 DEF Replaces
  <2> QED BY <2>5, <2>6, <2>7, <2>8, <2>9
<1> QED BY <1>2, <1>3, <1>4

\* The same tree without the loops.
LEMMA JumpsTree ==
    ASSUME NEW p, NEW f, Finished(f, p), NEW q, q = RemoveLoops(p)
    PROVE  /\ Tree(f, q) /\ Closed(f, q)
           /\ \A i \in 1..Len(p) : /\ q[i].kind \in Compound <=> p[i].kind \in Compound
                                   /\ q[i].kind \in Closing <=> p[i].kind \in Closing
                                   /\ q[i].kind = "else" <=> p[i].kind = "else"
                                   /\ q[i].kind = "if" <=> p[i].kind = "if"
                                   /\ q[i].kind = "switch" <=> p[i].kind = "switch"
                                   /\ q[i].kind \in {"instr", "call", "return", "goto", "back", "if",
                                                     "switch", "block", "else", "end"}
<1> DEFINE n == Len(p)
<1>1. p \in Seq(Items) /\ Tree(f, p) /\ Closed(f, p) /\ n \in Nat /\ DOMAIN p = 1..n
  BY DEF Finished, Written, Tree
<1>2. DOMAIN q = 1..n /\ Len(q) = n /\ \A i \in 1..n : Replaces(f, p, i, q[i])
  BY JumpsReplace
<1> HIDE DEF n
<1>3. ASSUME NEW i \in 1..n
      PROVE  /\ q[i].kind \in Compound <=> p[i].kind \in Compound
             /\ q[i].kind \in Closing <=> p[i].kind \in Closing
             /\ q[i].kind = "else" <=> p[i].kind = "else"
             /\ q[i].kind = "if" <=> p[i].kind = "if"
             /\ q[i].kind = "switch" <=> p[i].kind = "switch"
             /\ q[i].kind \in {"instr", "call", "return", "goto", "back", "if",
                               "switch", "block", "else", "end"}
  <2>1. p[i] \in Items
    BY <1>1, <1>3, ElementOfSeq DEF n
  <2>2. p[i].kind \in Kinds
    BY <2>1 DEF Items
  <2>3. Replaces(f, p, i, q[i])
    BY <1>2
  <2>4. \/ p[i].kind = "loop" /\ q[i].kind = "block"
        \/ p[i].kind = "break" /\ q[i].kind \in {"return", "goto"}
        \/ p[i].kind = "continue" /\ q[i].kind = "goto"
        \/ p[i].kind = "end" /\ q[i].kind \in {"back", "end"}
        \/ p[i].kind \notin {"loop", "break", "continue", "end"} /\ q[i].kind = p[i].kind
    BY <2>3 DEF Replaces
  <2> QED BY <2>2, <2>4 DEF Kinds, Compound, Closing
<1>4. Tree(f, q)
  <2>1. Computes(f, q)
    <3>1. ASSUME NEW i \in 1..n
          PROVE  f[i] = IF i = 1 THEN 0
                        ELSE IF q[i - 1].kind \in Compound THEN i - 1
                        ELSE IF q[i - 1].kind \in Closing THEN f[f[i - 1]]
                        ELSE f[i - 1]
      <4>1. f[i] = IF i = 1 THEN 0
                   ELSE IF p[i - 1].kind \in Compound THEN i - 1
                   ELSE IF p[i - 1].kind \in Closing THEN f[f[i - 1]]
                   ELSE f[i - 1]
        BY <1>1 DEF Tree, Computes
      <4>2. i # 1 => i - 1 \in 1..n
        BY <1>1
      <4> QED BY <1>3, <4>1, <4>2
    <3>2. f = [i \in 1..n |-> f[i]]
      BY <1>1 DEF Tree, Computes
    <3> QED BY <1>2, <3>1, <3>2 DEF Computes
  <2>2. ASSUME NEW i \in 1..n
        PROVE  /\ f[i] \in 0..(i - 1)
               /\ f[i] # 0 => q[f[i]].kind \in Compound
               /\ q[i].kind \in Closing => f[i] # 0
    <3>1. /\ f[i] \in 0..(i - 1)
          /\ f[i] # 0 => p[f[i]].kind \in Compound
          /\ p[i].kind \in Closing => f[i] # 0
      BY <1>1 DEF Tree, n
    <3>2. f[i] # 0 => f[i] \in 1..n
      BY <1>1, <3>1
    <3> QED BY <1>3, <3>1, <3>2
  <2> QED BY <1>1, <1>2, <2>1, <2>2 DEF Tree
<1>5. Closed(f, q)
  BY <1>1, <1>2, <1>3 DEF Closed, Ends, n
<1> QED BY <1>3, <1>4, <1>5 DEF n

\* Both branches of an if are there.
LEMMA ElseIs ==
    ASSUME NEW p, NEW f, Finished(f, p), NEW q, q = RemoveLoops(p),
           NEW i \in 1..Len(p), p[i].kind = "if"
    PROVE  /\ ElseOf(p, i) \in (i + 1)..Len(p)
           /\ p[ElseOf(p, i)].kind = "else" /\ f[ElseOf(p, i)] = i
           /\ ElseOf(q, i) = ElseOf(p, i)
<1>1. Tree(f, p) /\ Closed(f, p) /\ Len(p) \in Nat /\ DOMAIN p = 1..Len(p) /\ p \in Seq(Items)
  BY DEF Finished, Written, Tree
<1>2. Tree(f, q) /\ DOMAIN q = 1..Len(p) /\ \A k \in 1..Len(p) : q[k].kind = "else" <=> p[k].kind = "else"
  BY JumpsTree, JumpsReplace
<1>3. Parent(p) = f /\ Parent(q) = f
  BY <1>1, <1>2, ParentIs
<1>4. p[i].kind \in Compound
  BY DEF Compound
<1> DEFINE e == EndOf(p, i)
<1>5. e \in 1..Len(p) /\ p[e].kind \in Closing /\ f[e] = i
  BY <1>1, <1>4, EndIs DEF Ends
<1>6. p[e].kind = "end"
  <2>1. p[e] \in Items
    BY <1>1, <1>5, ElementOfSeq
  <2>2. p[e].kind \in Kinds
    BY <2>1 DEF Items
  <2> QED BY <1>5, <2>2 DEF Kinds, Closing
<1> HIDE DEF e
<1>7. \E k \in 1..Len(p) : p[k].kind = "else" /\ f[k] = i
  BY <1>5, <1>6 DEF Finished, Written
<1> DEFINE k == CHOOSE k \in 1..Len(p) : p[k].kind = "else" /\ f[k] = i
<1>8. ElseOf(p, i) = k
  BY <1>1, <1>3 DEF ElseOf
<1>9. k \in 1..Len(p) /\ p[k].kind = "else" /\ f[k] = i
  BY <1>7
<1>10. ElseOf(q, i) = k
  <2>1. ElseOf(q, i) = CHOOSE j \in 1..Len(p) : q[j].kind = "else" /\ f[j] = i
    BY <1>2, <1>3 DEF ElseOf
  <2>2. \A j \in 1..Len(p) : (q[j].kind = "else" /\ f[j] = i) <=> (p[j].kind = "else" /\ f[j] = i)
    BY <1>2
  <2> QED BY <2>1, <2>2
<1> HIDE DEF k
<1>11. f[k] \in 0..(k - 1)
  BY <1>1, <1>9 DEF Tree
<1> QED BY <1>1, <1>8, <1>9, <1>10, <1>11

\* Where a jump of the program goes: not to itself, and to a statement.
LEMMA GotoIs ==
    ASSUME NEW p, NEW f, Finished(f, p), NEW q, q = RemoveLoops(p),
           NEW i \in 1..Len(p), q[i].kind \in {"goto", "back"}
    PROVE  /\ q[i].dest \in Statements(p)
           /\ q[i].dest # i
           /\ q[i].kind = "back" => q[i].dest < i
<1> DEFINE n == Len(p)
<1>1. p \in Seq(Items) /\ Tree(f, p) /\ Closed(f, p) /\ n \in Nat /\ DOMAIN p = 1..n
  BY DEF Finished, Written, Tree
<1>2. Replaces(f, p, i, q[i])
  BY JumpsReplace
<1>3. p[i].kind \in Kinds
  <2>1. p[i] \in Items
    BY <1>1, ElementOfSeq
  <2> QED BY <2>1 DEF Items
<1>4. \/ p[i].kind = "goto" /\ q[i] = p[i]
      \/ p[i].kind = "continue" /\ q[i].kind = "goto" /\ q[i].dest = Enclosing(p, i, {"loop"})
      \/ p[i].kind = "break" /\ q[i].kind = "goto" /\ Target(p, i) # 0 /\ q[i].dest = Target(p, i)
      \/ p[i].kind = "end" /\ p[f[i]].kind = "loop" /\ q[i].dest = f[i]
  BY <1>2, <1>3 DEF Replaces, Kinds
<1> HIDE DEF n
<1>5. CASE p[i].kind = "goto" /\ q[i] = p[i]
  <2>1. IsStatement(p, p[i].dest) /\ p[i].dest # i
    BY <1>5 DEF Finished, Written
  <2> QED BY <1>5, <2>1 DEF Statements, IsStatement
<1>6. CASE p[i].kind = "continue" /\ q[i].kind = "goto" /\ q[i].dest = Enclosing(p, i, {"loop"})
  <2> DEFINE k == Enclosing(p, i, {"loop"})
  <2>1. k # 0
    BY <1>6 DEF Finished, Written
  <2>2. {"loop"} \subseteq Compound
    BY DEF Compound
  <2>3. k \in 0..(i - 1) /\ p[k].kind \in {"loop"}
    BY <1>1, <2>1, <2>2, EnclosingIs
  <2> HIDE DEF k
  <2>4. k \in 1..n /\ k < i
    BY <1>1, <2>1, <2>3 DEF n
  <2>5. k \in Statements(p)
    BY <1>1, <2>3, <2>4 DEF Statements, IsStatement
  <2> QED BY <1>1, <1>6, <2>4, <2>5 DEF k
<1>7. CASE p[i].kind = "break" /\ q[i].kind = "goto" /\ Target(p, i) # 0 /\ q[i].dest = Target(p, i)
  <2> DEFINE kinds == {"loop", "switch"}
             k == Enclosing(p, i, kinds)
             t == Fall(p)[k]
  <2>1. k # 0
    BY <1>7 DEF Finished, Written
  <2>2. kinds \subseteq Compound
    BY DEF Compound
  <2> HIDE DEF kinds
  <2>3. k \in 0..(i - 1) /\ p[k].kind \in kinds /\ LastOf(p, i) <= EndOf(p, k)
    BY <1>1, <2>1, <2>2, EnclosingIs
  <2>4. LastOf(p, i) = i
    BY <1>7 DEF LastOf, Compound
  <2> HIDE DEF k
  <2>5. k \in 1..n
    BY <1>1, <2>1, <2>3 DEF n
  <2>6. LastOf(p, k) = EndOf(p, k) /\ EndOf(p, k) \in (k + 1)..n
    BY <1>1, <2>2, <2>3, <2>5, EndIs DEF LastOf, n
  <2>7. t = Target(p, i)
    BY DEF Target, k, kinds
  <2>8. t \in Statements(p) /\ (t > LastOf(p, k) \/ t < k)
    BY <1>1, <1>7, <2>5, <2>7, FallIs DEF n
  <2>9. t \in Nat
    BY <1>1, <2>8 DEF Statements
  <2> HIDE DEF t
  <2>10. t # i
    BY <1>1, <2>3, <2>4, <2>5, <2>6, <2>8, <2>9
  <2> QED BY <1>7, <2>7, <2>8, <2>10
<1>8. CASE p[i].kind = "end" /\ p[f[i]].kind = "loop" /\ q[i].dest = f[i]
  <2>1. f[i] \in 0..(i - 1) /\ f[i] # 0
    BY <1>1, <1>8 DEF Tree, Closing, n
  <2>2. f[i] \in 1..n /\ f[i] < i
    BY <1>1, <2>1 DEF n
  <2>3. f[i] \in Statements(p)
    BY <1>1, <1>8, <2>2 DEF Statements, IsStatement
  <2> QED BY <1>1, <1>8, <2>2, <2>3
<1> QED BY <1>4, <1>5, <1>6, <1>7, <1>8

\* What was a statement is one, and so is the goto behind a former loop.
LEMMA StatementsKept ==
    ASSUME NEW p, NEW f, Finished(f, p), NEW q, q = RemoveLoops(p)
    PROVE  /\ Statements(p) \subseteq Statements(q)
           /\ \A i \in Statements(q) \ Statements(p) :
                 p[i].kind = "end" /\ p[f[i]].kind = "loop" /\ q[i].kind = "back"
           /\ \A i \in Statements(p) : q[i].kind # "back"
<1>1. p \in Seq(Items) /\ DOMAIN p = 1..Len(p)
  BY DEF Finished, Written, Tree
<1>2. DOMAIN q = 1..Len(p) /\ \A i \in 1..Len(p) : Replaces(f, p, i, q[i])
  BY JumpsReplace
<1>3. ASSUME NEW i \in 1..Len(p)
      PROVE  /\ i \in Statements(p) => i \in Statements(q) /\ q[i].kind # "back"
             /\ i \in Statements(q) /\ i \notin Statements(p) =>
                    p[i].kind = "end" /\ p[f[i]].kind = "loop" /\ q[i].kind = "back"
  <2>1. p[i].kind \in Kinds
    <3>1. p[i] \in Items
      BY <1>1, ElementOfSeq
    <3> QED BY <3>1 DEF Items
  <2>2. Replaces(f, p, i, q[i])
    BY <1>2
  <2>3. /\ i \in Statements(p) <=> p[i].kind \notin {"else", "end"}
        /\ i \in Statements(q) <=> q[i].kind \notin {"else", "end"}
    BY <1>1, <1>2 DEF Statements, IsStatement
  <2> QED BY <2>1, <2>2, <2>3 DEF Replaces, Kinds
<1> QED BY <1>1, <1>2, <1>3 DEF Statements

LEMMA LinksForward ==
    ASSUME NEW p, NEW f, Finished(f, p), NEW q, q = RemoveLoops(p),
           NEW i \in Statements(q), NEW s \in build(q)[i]
    PROVE  s \in Statements(q) /\ (i \notin Backward(q) => s > i)
<1> DEFINE n == Len(p)
<1>1. Tree(f, p) /\ Closed(f, p) /\ n \in Nat /\ DOMAIN p = 1..n
  BY DEF Finished, Written, Tree
<1>2. DOMAIN q = 1..n /\ Len(q) = n
  BY JumpsReplace
<1>3. Tree(f, q) /\ Closed(f, q)
      /\ \A j \in 1..n : q[j].kind \in {"instr", "call", "return", "goto", "back", "if",
                                        "switch", "block", "else", "end"}
  BY JumpsTree
<1>4. i \in 1..n /\ s \in Links(q, i) /\ s # 0 /\ q[i].kind \notin {"else", "end"}
  BY <1>2 DEF build, Statements, IsStatement
<1> HIDE DEF n
<1>5. \A j \in Statements(q) : j \in Nat
  BY <1>2 DEF Statements
<1> DEFINE Beyond(t) == t = 0 \/ (t \in Statements(q) /\ t > i)
<1>6. Beyond(Fall(q)[i])
  <2> DEFINE t == Fall(q)[i]
  <2>1. \/ t = 0
        \/ t \in Statements(q) /\ (t > LastOf(q, i) \/ q[t].kind = "loop")
    BY <1>2, <1>3, <1>4, FallIs
  <2>2. t \in Statements(q) => q[t].kind # "loop"
    BY <1>2, <1>3 DEF Statements
  <2>3. LastOf(q, i) \in i..n
    <3>1. CASE q[i].kind \in Compound
      BY <1>1, <1>2, <1>3, <1>4, <3>1, EndIs DEF LastOf
    <3>2. CASE q[i].kind \notin Compound
      BY <1>1, <1>4, <3>2 DEF LastOf
    <3> QED BY <3>1, <3>2
  <2> HIDE DEF t
  <2>4. ASSUME t # 0 PROVE t \in Statements(q) /\ t > i
    <3>1. t \in Statements(q) /\ t > LastOf(q, i) /\ t \in Nat
      BY <1>5, <2>1, <2>2, <2>4
    <3>2. LastOf(q, i) \in Int /\ LastOf(q, i) >= i /\ i \in Nat
      BY <1>4, <2>3
    <3> QED BY <3>1, <3>2
  <2> QED BY <2>4 DEF t
<1>7. \A j : j \in Nat /\ j >= i => Beyond(First(q, j + 1, Fall(q)[i]))
  <2> SUFFICES ASSUME NEW j \in Nat, j >= i PROVE Beyond(First(q, j + 1, Fall(q)[i]))
    OBVIOUS
  <2>1. CASE IsStatement(q, j + 1)
    <3>1. First(q, j + 1, Fall(q)[i]) = j + 1 /\ j + 1 > i /\ j + 1 \in Statements(q)
      BY <1>4, <2>1 DEF First, Statements, IsStatement
    <3> QED BY <3>1
  <2>2. CASE ~IsStatement(q, j + 1)
    BY <1>6, <2>2 DEF First
  <2> QED BY <2>1, <2>2
<1>8. CASE q[i].kind \in {"instr", "call"}
  BY <1>4, <1>6, <1>8 DEF Links
<1>9. CASE q[i].kind = "return"
  BY <1>4, <1>9 DEF Links
<1>10. CASE q[i].kind \in {"goto", "back"}
  <2>1. s = q[i].dest
    BY <1>4, <1>10 DEF Links
  <2>2. s \in Statements(p) /\ s # i
    BY <1>4, <1>10, <2>1, GotoIs DEF n
  <2>3. s \in Statements(q)
    BY <2>2, StatementsKept
  <2>4. i \notin Backward(q) => ~(s < i)
    BY <1>2, <1>4, <1>10, <2>1 DEF Backward, Gotos
  <2>5. s \in Nat /\ i \in Nat
    BY <1>5, <2>3
  <2>6. ~(s < i) => s > i
    BY <2>2, <2>5
  <2> QED BY <2>3, <2>4, <2>6
<1>11. CASE q[i].kind = "if"
  <2>1. s = First(q, i + 1, Fall(q)[i]) \/ s = First(q, ElseOf(q, i) + 1, Fall(q)[i])
    BY <1>4, <1>11 DEF Links
  <2>2. p[i].kind = "if"
    BY <1>4, <1>11, JumpsTree DEF n
  <2>3. ElseOf(q, i) = ElseOf(p, i) /\ ElseOf(p, i) \in (i + 1)..n
    BY <1>4, <2>2, ElseIs DEF n
  <2>4. i \in Nat /\ ElseOf(q, i) \in Nat /\ ElseOf(q, i) >= i
    BY <1>4, <2>3
  <2>5. Beyond(s)
    <3> HIDE DEF Beyond
    <3>1. i >= i
      BY <2>4
    <3> QED BY <1>7, <2>1, <2>4, <3>1
  <2> QED BY <1>4, <2>5
<1>12. CASE q[i].kind = "switch"
  <2>1. s \in Cases(q, i) \/ s = Fall(q)[i]
    BY <1>4, <1>12 DEF Links
  <2>2. CASE s \in Cases(q, i)
    <3>1. s \in Statements(q) /\ s \in 1..n /\ Enclosing(q, s, {"switch"}) = i
      BY <1>2, <2>2 DEF Cases, Statements
    <3>2. {"switch"} \subseteq Compound
      BY DEF Compound
    <3>3. i \in 0..(s - 1)
      BY <1>2, <1>3, <3>1, <3>2, EnclosingIs
    <3> QED BY <1>1, <1>4, <3>1, <3>3
  <2>3. CASE s = Fall(q)[i]
    BY <1>4, <1>6, <2>3
  <2> QED BY <2>1, <2>2, <2>3
<1>13. CASE q[i].kind = "block"
  <2>1. s = First(q, i + 1, Fall(q)[i])
    BY <1>4, <1>13 DEF Links
  <2>2. i \in Nat /\ i >= i
    BY <1>4
  <2> QED BY <1>4, <1>7, <2>1, <2>2
<1> QED BY <1>3, <1>4, <1>8, <1>9, <1>10, <1>11, <1>12, <1>13

LEMMA LargestNumber ==
    ASSUME NEW n \in Nat, NEW T \in SUBSET (1..n), T # {}
    PROVE  \E x \in T : \A y \in T : y <= x
<1> DEFINE U == {u \in 0..n : \A y \in T : y <= u}
<1>1. n \in U
  OBVIOUS
<1>2. U \in SUBSET Nat /\ U # {}
  BY <1>1
<1>3. PICK u \in U : \A v \in U : u <= v
  <2> HIDE DEF U
  <2> QED BY <1>2, LeastNumber
<1>4. u \in 0..n /\ \A y \in T : y <= u
  OBVIOUS
<1>5. u \in T
  <2> SUFFICES ASSUME u \notin T PROVE FALSE
    OBVIOUS
  <2>1. PICK y \in T : TRUE
    OBVIOUS
  <2>2. u - 1 \in 0..n
    BY <1>4, <2>1
  <2>3. \A z \in T : z <= u - 1
    BY <1>4
  <2>4. u - 1 \in U
    BY <2>2, <2>3
  <2>5. u <= u - 1
    <3> HIDE DEF U
    <3> QED BY <1>3, <2>4
  <2> QED BY <1>4, <2>5
<1> QED BY <1>4, <1>5

\* Every cycle of a body without loops runs through a backward goto, whatever
\* its size and its gotos: all other links lead forwards.  (removeLoops.ml,
\* classifyJumps.ml; weigh needs it to end, and regions to be bounded)
THEOREM Cycles == Spec => []CyclesAreCut
<1>1. BodyInv => CyclesAreCut
  <2> SUFFICES ASSUME BodyInv, Complete,
                      NEW ring \in SUBSET (Statements(RemoveLoops(body)) \ Backward(RemoveLoops(body))),
                      \A i \in ring : build(RemoveLoops(body))[i] \cap ring # {},
                      ring # {}
               PROVE  FALSE
    BY DEF CyclesAreCut
  <2> DEFINE q == RemoveLoops(body)
             f == Parent(body)
             n == Len(body)
  <2>1. Finished(f, body) /\ n \in Nat
    BY CompleteIsFinished DEF Finished, Written, Tree
  <2>2. DOMAIN q = 1..n
    BY <2>1, JumpsReplace
  <2>3. ring \in SUBSET (1..n)
    BY <2>2 DEF Statements
  <2> HIDE DEF f, n
  <2>4. PICK i \in ring : \A j \in ring : j <= i
    BY <2>1, <2>3, LargestNumber
  <2>5. PICK s \in build(q)[i] : s \in ring
    BY <2>4
  <2>6. i \in Statements(q) /\ i \notin Backward(q)
    BY <2>4
  <2>7. s > i
    <3> HIDE DEF q
    <3>1. q = RemoveLoops(body)
      BY DEF q
    <3> QED BY <2>1, <2>5, <2>6, <3>1, LinksForward
  <2>8. s <= i /\ s \in Nat /\ i \in Nat
    BY <2>3, <2>4, <2>5
  <2> QED BY <2>7, <2>8
<1> QED BY <1>1, InitBody, NextBody, PTL DEF Spec

-----------------------------------------------------------------------------
(* The flow without the loops *)

LEMMA EndKept ==
    ASSUME NEW p, NEW f, Finished(f, p), NEW q, q = RemoveLoops(p),
           NEW k \in 1..Len(p)
    PROVE  LastOf(q, k) = LastOf(p, k)
<1>1. Tree(f, p) /\ Closed(f, p)
  BY DEF Finished, Written
<1>2. Tree(f, q) /\ Closed(f, q) /\ Len(q) = Len(p)
      /\ \A i \in 1..Len(p) : /\ q[i].kind \in Compound <=> p[i].kind \in Compound
                              /\ q[i].kind \in Closing <=> p[i].kind \in Closing
  BY JumpsTree, JumpsReplace
<1>3. CASE p[k].kind \in Compound
  <2>1. Ends(f, p, k, EndOf(p, k))
    BY <1>1, <1>3, EndIs
  <2>2. Ends(f, q, k, EndOf(p, k))
    BY <1>2, <2>1 DEF Ends
  <2>3. k \in 1..Len(q) /\ q[k].kind \in Compound
    BY <1>2, <1>3
  <2>4. EndOf(p, k) = EndOf(q, k)
    BY <1>2, <2>2, <2>3, EndIs
  <2> QED BY <1>3, <2>3, <2>4 DEF LastOf
<1>4. CASE p[k].kind \notin Compound
  BY <1>2, <1>4 DEF LastOf
<1> QED BY <1>3, <1>4

\* What follows a statement is in what the statement is in.
LEMMA FollowerParent ==
    ASSUME NEW p, NEW f, Finished(f, p), NEW i \in Statements(p),
           LastOf(p, i) + 1 \in 1..Len(p)
    PROVE  f[LastOf(p, i) + 1] = f[i]
<1> DEFINE n == Len(p)
           l == LastOf(p, i)
<1>1. p \in Seq(Items) /\ Tree(f, p) /\ Closed(f, p) /\ n \in Nat /\ DOMAIN p = 1..n
  BY DEF Finished, Written, Tree
<1>2. i \in 1..n /\ p[i].kind \notin {"else", "end"}
  BY <1>1 DEF Statements, IsStatement
<1>3. p[i].kind \in Kinds
  <2>1. p[i] \in Items
    BY <1>1, <1>2, ElementOfSeq
  <2> QED BY <2>1 DEF Items
<1> HIDE DEF n
<1>4. CASE p[i].kind \in Compound
  <2>1. l = EndOf(p, i) /\ Ends(f, p, i, l)
    BY <1>1, <1>2, <1>4, EndIs DEF LastOf, n
  <2>2. l \in 1..n /\ p[l].kind \in Closing /\ f[l] = i
    BY <2>1 DEF Ends, n
  <2> HIDE DEF l
  <2>3. l + 1 \in 1..n /\ l + 1 # 1 /\ (l + 1) - 1 = l
    BY <1>1, <2>2 DEF l, n
  <2>4. f[l + 1] = f[f[l]]
    BY <1>1, <2>2, <2>3, TreeStep DEF n
  <2> QED BY <2>2, <2>4 DEF l
<1>5. CASE p[i].kind \notin Compound
  <2>1. l = i
    BY <1>5 DEF LastOf
  <2>2. p[i].kind \notin Closing
    BY <1>2, <1>3 DEF Kinds, Closing
  <2>3. i + 1 \in 1..n /\ i + 1 # 1 /\ (i + 1) - 1 = i
    BY <1>1, <1>2, <2>1 DEF n
  <2>4. f[i + 1] = f[i]
    BY <1>1, <1>5, <2>2, <2>3, TreeStep DEF n
  <2> QED BY <2>1, <2>4
<1> QED BY <1>4, <1>5

LEMMA FallKept ==
    ASSUME NEW p, NEW f, Finished(f, p), NEW q, q = RemoveLoops(p)
    PROVE  \A i \in Statements(p) : Stands(q, Fall(q)[i]) = Fall(p)[i]
<1> DEFINE n == Len(p)
           T == {i \in Statements(p) : Stands(q, Fall(q)[i]) # Fall(p)[i]}
<1>1. p \in Seq(Items) /\ Tree(f, p) /\ Closed(f, p) /\ n \in Nat /\ DOMAIN p = 1..n
  BY DEF Finished, Written, Tree
<1>2. DOMAIN q = 1..n /\ Len(q) = n /\ \A i \in 1..n : Replaces(f, p, i, q[i])
  BY JumpsReplace
<1>3. Tree(f, q) /\ \A i \in 1..n : q[i].kind # "loop"
  BY JumpsTree
<1>4. \A i \in Statements(p) : i \in 1..n /\ p[i].kind \notin {"else", "end"}
  BY <1>1 DEF Statements, IsStatement
<1> SUFFICES ASSUME T # {} PROVE FALSE
  OBVIOUS
<1>5. PICK i \in T : \A y \in T : i <= y
  <2>1. T \in SUBSET Nat
    BY <1>4
  <2> HIDE DEF T
  <2> QED BY <2>1, LeastNumber
<1>6. i \in Statements(p) /\ Stands(q, Fall(q)[i]) # Fall(p)[i]
  OBVIOUS
<1> DEFINE k == f[i]
           l == LastOf(p, i)
<1>7. i \in 1..n /\ p[i].kind \notin {"else", "end"}
  BY <1>4, <1>6
<1>8. k \in 0..(i - 1) /\ (k # 0 => k \in 1..n /\ p[k].kind \in Compound)
  <2>1. f[i] \in 0..(i - 1) /\ (f[i] # 0 => p[f[i]].kind \in Compound)
    BY <1>1, <1>7 DEF Tree
  <2> QED BY <1>1, <1>7, <2>1
<1>9. k # 0 => Stands(q, Fall(q)[k]) = Fall(p)[k]
  <2>1. k # 0 => k \in Statements(p) /\ ~(i <= k)
    BY <1>1, <1>7, <1>8 DEF Statements, IsStatement, Compound
  <2>2. k \notin T
    <3>1. k = 0 => k \notin Statements(p)
      BY <1>1, <1>4
    <3>2. k # 0 => k \notin T
      <4> HIDE DEF T
      <4> QED BY <1>5, <2>1
    <3> QED BY <3>1, <3>2
  <2> QED BY <2>1, <2>2
<1> HIDE DEF T, n
<1>10. Follower(p, i) = l + 1 /\ Follower(q, i) = l + 1
  BY <1>7, EndKept, FollowerIs DEF n
<1>11. l + 1 \in 1..n => f[l + 1] = k
  BY <1>6, FollowerParent DEF n
<1>12. Fall(p)[i] = IF IsStatement(p, l + 1) THEN l + 1
                    ELSE IF k = 0 THEN 0
                    ELSE IF p[k].kind = "loop" THEN k
                    ELSE Fall(p)[k]
  BY <1>1, <1>7, <1>10, FallStep DEF n
<1>13. Fall(q)[i] = IF IsStatement(q, l + 1) THEN l + 1
                    ELSE IF k = 0 THEN 0
                    ELSE IF q[k].kind = "loop" THEN k
                    ELSE Fall(q)[k]
  BY <1>2, <1>3, <1>7, <1>10, FallStep DEF n
<1>14. /\ \A j : IsStatement(p, j) <=> j \in Statements(p)
       /\ \A j : IsStatement(q, j) <=> j \in Statements(q)
  BY DEF Statements, IsStatement
<1>15. l \in i..n
  <2>1. CASE p[i].kind \in Compound
    BY <1>1, <1>7, <2>1, EndIs DEF LastOf, n
  <2>2. CASE p[i].kind \notin Compound
    BY <1>1, <1>7, <2>2 DEF LastOf
  <2> QED BY <2>1, <2>2
<1>16. CASE IsStatement(p, l + 1)
  <2>1. l + 1 \in Statements(q) /\ q[l + 1].kind # "back"
    BY <1>14, <1>16, StatementsKept
  <2>2. Fall(p)[i] = l + 1 /\ Fall(q)[i] = l + 1
    BY <1>12, <1>13, <1>14, <1>16, <2>1
  <2> QED BY <1>6, <2>1, <2>2 DEF Stands
<1>17. CASE ~IsStatement(p, l + 1) /\ k # 0 /\ p[k].kind = "loop"
  <2> DEFINE e == EndOf(p, k)
  <2>1. Ends(f, p, k, e) /\ e \in (k + 1)..n
    BY <1>1, <1>8, <1>17, EndIs DEF n
  <2>2. ~Ends(f, p, k, i)
    <3>1. p[i].kind \notin Closing
      <4>1. p[i] \in Items
        BY <1>1, <1>7, ElementOfSeq DEF n
      <4>2. p[i].kind \in Kinds
        BY <4>1 DEF Items
      <4> QED BY <1>7, <4>2 DEF Kinds, Closing
    <3> QED BY <3>1 DEF Ends
  <2>3. l < e
    BY <1>1, <1>7, <1>17, <2>2, Nested DEF n
  <2> HIDE DEF e, l
  <2>4. l + 1 \in 1..n
    BY <1>1, <1>7, <1>8, <1>15, <2>1, <2>3
  <2>5. p[l + 1].kind \in {"else", "end"} /\ f[l + 1] = k
    BY <1>1, <1>11, <1>17, <2>4 DEF IsStatement
  <2>6. p[l + 1].kind = "end"
    <3>1. p[l + 1].kind = "else" => p[f[l + 1]].kind = "if"
      BY <2>4 DEF Finished, Written, n
    <3> QED BY <1>17, <2>5, <3>1
  <2>7. q[l + 1].kind = "back" /\ q[l + 1].dest = k
    <3>1. Replaces(f, p, l + 1, q[l + 1])
      BY <1>2, <2>4
    <3> QED BY <1>17, <2>5, <2>6, <3>1 DEF Replaces
  <2>8. IsStatement(q, l + 1) /\ l + 1 # 0
    BY <1>2, <2>4, <2>7 DEF IsStatement
  <2>9. Fall(q)[i] = l + 1 /\ Fall(p)[i] = k
    BY <1>12, <1>13, <1>17, <2>8 DEF l
  <2> QED BY <1>6, <2>7, <2>8, <2>9 DEF Stands
<1>18. CASE ~IsStatement(p, l + 1) /\ (k = 0 \/ p[k].kind # "loop")
  <2>1. ~IsStatement(q, l + 1)
    <3> SUFFICES ASSUME IsStatement(q, l + 1) PROVE FALSE
      OBVIOUS
    <3>1. p[l + 1].kind = "end" /\ p[f[l + 1]].kind = "loop"
      BY <1>14, <1>18, StatementsKept
    <3>2. l + 1 \in 1..n
      BY <1>2 DEF IsStatement
    <3>3. f[l + 1] = k /\ k # 0
      BY <1>1, <1>11, <3>1, <3>2 DEF Tree, Closing, n
    <3> QED BY <1>18, <3>1, <3>3
  <2>2. CASE k = 0
    BY <1>6, <1>12, <1>13, <1>18, <2>1, <2>2 DEF Stands
  <2>3. CASE k # 0
    <3>1. q[k].kind # "loop" /\ p[k].kind # "loop"
      BY <1>3, <1>8, <1>18, <2>3
    <3> QED BY <1>6, <1>9, <1>12, <1>13, <1>18, <2>1, <2>3, <3>1
  <2> QED BY <2>2, <2>3
<1> QED BY <1>16, <1>17, <1>18

\* The first statement of a block or a branch.
LEMMA FirstKept ==
    ASSUME NEW p, NEW f, Finished(f, p), NEW q, q = RemoveLoops(p),
           NEW i \in Statements(p), p[i].kind # "loop",
           NEW j \in 1..Len(p), j + 1 \in 1..Len(p) => f[j + 1] = i
    PROVE  Stands(q, First(q, j + 1, Fall(q)[i])) = First(p, j + 1, Fall(p)[i])
<1>1. DOMAIN p = 1..Len(p) /\ Tree(f, p)
  BY DEF Finished, Written, Tree
<1>2. /\ IsStatement(p, j + 1) <=> j + 1 \in Statements(p)
      /\ IsStatement(q, j + 1) <=> j + 1 \in Statements(q)
  BY DEF Statements, IsStatement
<1>3. CASE j + 1 \in Statements(p)
  <2>1. j + 1 \in Statements(q) /\ q[j + 1].kind # "back"
    BY <1>3, StatementsKept
  <2> QED BY <1>2, <1>3, <2>1 DEF First, Stands
<1>4. CASE j + 1 \notin Statements(p)
  <2>1. j + 1 \notin Statements(q)
    <3> SUFFICES ASSUME j + 1 \in Statements(q) PROVE FALSE
      OBVIOUS
    <3>1. p[f[j + 1]].kind = "loop"
      BY <1>4, StatementsKept
    <3>2. j + 1 \in 1..Len(p)
      BY JumpsReplace DEF Statements
    <3> QED BY <3>1, <3>2
  <2> QED BY <1>2, <1>4, <2>1, FallKept DEF First
<1> QED BY <1>3, <1>4

LEMMA CasesKept ==
    ASSUME NEW p, NEW f, Finished(f, p), NEW q, q = RemoveLoops(p), NEW i
    PROVE  Cases(q, i) = Cases(p, i) /\ (HasDefault(q, i) <=> HasDefault(p, i))
<1> DEFINE n == Len(p)
<1>1. Tree(f, p) /\ n \in Nat /\ DOMAIN p = 1..n
  BY DEF Finished, Written, Tree
<1>2. DOMAIN q = 1..n /\ Len(q) = n /\ \A j \in 1..n : Replaces(f, p, j, q[j])
  BY JumpsReplace
<1>3. Tree(f, q) /\ \A j \in 1..n : q[j].kind = "switch" <=> p[j].kind = "switch"
  BY JumpsTree
<1>4. \A j \in 1..n : Enclosing(p, j, {"switch"}) = Enclosing(q, j, {"switch"})
  <2>1. n <= Len(p) /\ n <= Len(q)
    BY <1>1, <1>2
  <2>2. \A j \in 1..(n - 1) : p[j].kind \in {"switch"} <=> q[j].kind \in {"switch"}
    BY <1>1, <1>3
  <2> HIDE DEF n
  <2> QED BY <1>1, <1>3, <2>1, <2>2, SameEnclosing
<1>5. \A j \in 1..n : q[j].label = p[j].label
  BY <1>2 DEF Replaces
<1>6. \A j \in Statements(q) : j \in 1..n /\ (j \notin Statements(p) => p[j].label = "none")
  <2>1. \A j \in Statements(q) : j \in 1..n
    BY <1>2 DEF Statements
  <2>2. \A j \in Statements(q) : j \notin Statements(p) => p[j].kind \in {"else", "end"}
    BY StatementsKept
  <2> QED BY <2>1, <2>2 DEF Finished, Written
<1>7. \A j \in Statements(p) : j \in 1..n /\ j \in Statements(q)
  BY <1>1, StatementsKept DEF Statements
<1>8. Cases(q, i) = Cases(p, i)
  BY <1>4, <1>5, <1>6, <1>7 DEF Cases
<1>9. \A j \in Cases(p, i) : q[j].label = p[j].label
  BY <1>5, <1>7 DEF Cases
<1> QED BY <1>8, <1>9 DEF HasDefault

\* The links of the program, one by one.
LEMMA LinksKept ==
    ASSUME NEW p, NEW f, Finished(f, p), NEW q, q = RemoveLoops(p),
           NEW i \in Statements(p)
    PROVE  {Stands(q, s) : s \in Links(q, i)} \ {0} = Links(p, i) \ {0}
<1> DEFINE n == Len(p)
<1>1. p \in Seq(Items) /\ Tree(f, p) /\ Closed(f, p) /\ n \in Nat /\ DOMAIN p = 1..n
  BY DEF Finished, Written, Tree
<1>2. i \in 1..n /\ p[i].kind \notin {"else", "end"}
  BY <1>1 DEF Statements, IsStatement
<1>3. p[i].kind \in Kinds
  <2>1. p[i] \in Items
    BY <1>1, <1>2, ElementOfSeq
  <2> QED BY <2>1 DEF Items
<1>4. Replaces(f, p, i, q[i])
  BY <1>2, JumpsReplace
<1>5. Stands(q, Fall(q)[i]) = Fall(p)[i]
  BY FallKept
<1>6. \A s \in Statements(p) : Stands(q, s) = s
  BY StatementsKept DEF Stands
<1>7. q[i].kind \in {"goto", "back"} => q[i].dest \in Statements(p)
  BY <1>2, GotoIs
<1>8. 0 \notin Statements(p)
  BY <1>1 DEF Statements
<1>9. p[i].kind \in Compound /\ i + 1 \in 1..n => f[i + 1] = i
  <2>1. i + 1 # 1 /\ (i + 1) - 1 = i
    BY <1>2
  <2> QED BY <1>1, <2>1, TreeStep
<1> HIDE DEF n
<1> USE DEF Links
<1>10. CASE p[i].kind \in {"instr", "call"}
  <2>1. q[i] = p[i]
    BY <1>4, <1>10 DEF Replaces
  <2> QED BY <1>5, <1>10, <2>1
<1>11. CASE p[i].kind = "return"
  <2>1. q[i] = p[i]
    BY <1>4, <1>11 DEF Replaces
  <2> QED BY <1>11, <2>1
<1>12. CASE p[i].kind = "goto"
  <2>1. q[i] = p[i]
    BY <1>4, <1>12 DEF Replaces
  <2>2. Links(q, i) = {p[i].dest} /\ Links(p, i) = {p[i].dest}
    BY <1>12, <2>1
  <2>3. Stands(q, p[i].dest) = p[i].dest
    BY <1>6, <1>7, <1>12, <2>1
  <2> QED BY <2>2, <2>3
<1>13. CASE p[i].kind = "break"
  <2> DEFINE t == Target(p, i)
  <2>1. Links(p, i) = {t}
    BY <1>13 DEF Target
  <2> HIDE DEF t
  <2>2. CASE t = 0 /\ q[i].kind = "return"
    <3>1. Links(q, i) = {}
      BY <2>2
    <3> QED BY <2>1, <2>2, <3>1
  <2>3. CASE t # 0 /\ q[i].kind = "goto" /\ q[i].dest = t
    <3>1. Links(q, i) = {t}
      BY <2>3
    <3>2. Stands(q, t) = t
      BY <1>6, <1>7, <2>3
    <3> QED BY <2>1, <3>1, <3>2
  <2> QED BY <1>4, <1>13, <2>2, <2>3 DEF Replaces, t
<1>14. CASE p[i].kind = "continue"
  <2> DEFINE t == Enclosing(p, i, {"loop"})
  <2>1. Links(p, i) = {t}
    BY <1>14
  <2>2. q[i].kind = "goto" /\ q[i].dest = t
    BY <1>4, <1>14 DEF Replaces
  <2> HIDE DEF t
  <2>3. Links(q, i) = {t}
    BY <2>2
  <2>4. Stands(q, t) = t
    BY <1>6, <1>7, <2>2
  <2> QED BY <2>1, <2>3, <2>4
<1>15. CASE p[i].kind = "if"
  <2>1. q[i] = p[i]
    BY <1>4, <1>15 DEF Replaces
  <2>2. ElseOf(p, i) \in (i + 1)..n /\ p[ElseOf(p, i)].kind = "else" /\ f[ElseOf(p, i)] = i
        /\ ElseOf(q, i) = ElseOf(p, i)
    BY <1>2, <1>15, ElseIs DEF n
  <2> DEFINE e == ElseOf(p, i)
             a == Fall(p)[i]
             b == Fall(q)[i]
  <2>3. e \in 1..n
    BY <1>1, <1>2, <2>2
  <2>4. e + 1 \in 1..n => f[e + 1] = i
    <3> HIDE DEF e
    <3>1. e + 1 # 1 /\ (e + 1) - 1 = e
      BY <2>3
    <3>2. p[e].kind \notin Compound \cup Closing /\ f[e] = i
      BY <2>2 DEF Compound, Closing, e
    <3> QED BY <1>1, <3>1, <3>2, TreeStep DEF n
  <2>5. Stands(q, First(q, i + 1, b)) = First(p, i + 1, a)
    BY <1>2, <1>9, <1>15, FirstKept DEF Compound, n
  <2>6. Stands(q, First(q, e + 1, b)) = First(p, e + 1, a)
    <3> HIDE DEF e
    <3> QED BY <1>15, <2>3, <2>4, FirstKept DEF n
  <2>7. Links(q, i) = {First(q, i + 1, b), First(q, e + 1, b)}
    BY <1>15, <2>1, <2>2
  <2>8. Links(p, i) = {First(p, i + 1, a), First(p, e + 1, a)}
    BY <1>15
  <2> HIDE DEF e, a, b, Links
  <2>9. {Stands(q, s) : s \in Links(q, i)} = Links(p, i)
    BY <2>5, <2>6, <2>7, <2>8
  <2> QED BY <2>9
<1>16. CASE p[i].kind = "switch"
  <2>1. q[i] = p[i]
    BY <1>4, <1>16 DEF Replaces
  <2>2. Cases(q, i) = Cases(p, i) /\ (HasDefault(q, i) <=> HasDefault(p, i))
    BY CasesKept
  <2>3. Links(p, i) = Cases(p, i) \cup (IF HasDefault(p, i) THEN {} ELSE {Fall(p)[i]})
    BY <1>16
  <2>4. Links(q, i) = Cases(p, i) \cup (IF HasDefault(p, i) THEN {} ELSE {Fall(q)[i]})
    BY <1>16, <2>1, <2>2
  <2>5. \A s \in Cases(p, i) : Stands(q, s) = s
    BY <1>6 DEF Cases
  <2> HIDE DEF Links
  <2>6. {Stands(q, s) : s \in Links(q, i)} = Links(p, i)
    <3>1. CASE HasDefault(p, i)
      <4>1. Links(p, i) = Cases(p, i) /\ Links(q, i) = Cases(p, i)
        BY <2>3, <2>4, <3>1
      <4> QED BY <2>5, <4>1
    <3>2. CASE ~HasDefault(p, i)
      <4>1. Links(p, i) = Cases(p, i) \cup {Fall(p)[i]} /\ Links(q, i) = Cases(p, i) \cup {Fall(q)[i]}
        BY <2>3, <2>4, <3>2
      <4> QED BY <1>5, <2>5, <4>1
    <3> QED BY <3>1, <3>2
  <2> QED BY <2>6
<1>17. CASE p[i].kind = "loop"
  <2>1. q[i].kind = "block"
    BY <1>4, <1>17 DEF Replaces
  <2> DEFINE b == Fall(q)[i]
  <2>2. Links(p, i) = {First(p, i + 1, i)} /\ Links(q, i) = {First(q, i + 1, b)}
    BY <1>17, <2>1
  <2>3. Stands(q, First(q, i + 1, b)) = First(p, i + 1, i)
    <3>1. CASE IsStatement(p, i + 1)
      <4>1. i + 1 \in Statements(p)
        BY <3>1 DEF Statements, IsStatement
      <4>2. IsStatement(q, i + 1)
        BY <4>1, StatementsKept DEF Statements
      <4> QED BY <1>6, <3>1, <4>1, <4>2 DEF First
    <3>2. CASE ~IsStatement(p, i + 1)
      <4>1. EndOf(p, i) \in (i + 1)..n
        BY <1>1, <1>2, <1>17, EndIs DEF Compound, n
      <4>2. i + 1 \in 1..n
        BY <1>1, <1>2, <4>1
      <4>3. f[i + 1] = i
        BY <1>9, <1>17, <4>2 DEF Compound
      <4>4. p[i + 1].kind \in {"else", "end"}
        BY <1>1, <3>2, <4>2 DEF IsStatement
      <4>5. p[i + 1].kind = "end"
        <5>1. p[i + 1].kind = "else" => p[f[i + 1]].kind = "if"
          BY <4>2 DEF Finished, Written, n
        <5> QED BY <1>17, <4>3, <4>4, <5>1
      <4>6. q[i + 1].kind = "back" /\ q[i + 1].dest = i
        <5>1. Replaces(f, p, i + 1, q[i + 1])
          BY <4>2, JumpsReplace DEF n
        <5> QED BY <1>17, <4>3, <4>5, <5>1 DEF Replaces
      <4>7. IsStatement(q, i + 1) /\ i + 1 # 0
        BY <1>2, <4>2, <4>6, JumpsReplace DEF IsStatement, n
      <4> QED BY <3>2, <4>6, <4>7 DEF First, Stands
    <3> QED BY <3>1, <3>2
  <2> DEFINE x == First(q, i + 1, b)
             y == First(p, i + 1, i)
  <2>4. Links(p, i) = {y} /\ Links(q, i) = {x} /\ Stands(q, x) = y
    BY <2>2, <2>3
  <2> HIDE DEF x, y, Links
  <2> QED BY <2>4
<1>18. CASE p[i].kind = "block"
  <2>1. q[i] = p[i]
    BY <1>4, <1>18 DEF Replaces
  <2> DEFINE a == Fall(p)[i]
             b == Fall(q)[i]
  <2>2. Links(p, i) = {First(p, i + 1, a)} /\ Links(q, i) = {First(q, i + 1, b)}
    BY <1>18, <2>1
  <2>3. Stands(q, First(q, i + 1, b)) = First(p, i + 1, a)
    BY <1>2, <1>9, <1>18, FirstKept DEF Compound, n
  <2> DEFINE x == First(q, i + 1, b)
             y == First(p, i + 1, a)
  <2>4. Links(p, i) = {y} /\ Links(q, i) = {x} /\ Stands(q, x) = y
    BY <2>2, <2>3
  <2> HIDE DEF x, y, Links
  <2> QED BY <2>4
<1> QED BY <1>2, <1>3, <1>10, <1>11, <1>12, <1>13, <1>14, <1>15, <1>16, <1>17, <1>18 DEF Kinds

\* Removing loops leaves the flow between the statements of the program what it
\* was: breaks, continues and what falls off a loop's end go where they went.
\* (removeLoops.ml, cfgUtils.ml)
THEOREM Flows == Spec => []FlowIsKept
<1>1. BodyInv => FlowIsKept
  <2> SUFFICES ASSUME BodyInv, Complete PROVE FlowIsKept
    BY DEF FlowIsKept
  <2> DEFINE q == RemoveLoops(body)
             f == Parent(body)
             Origin(i) == IF q[i].kind = "back" THEN q[i].dest ELSE i
  <2>1. Finished(f, body)
    BY CompleteIsFinished
  <2>2. q = RemoveLoops(body)
    OBVIOUS
  <2> HIDE DEF q, f
  <2>3. ASSUME NEW i \in Statements(body)
        PROVE  {Origin(s) : s \in build(q)[i]} = build(body)[i]
    <3>1. i \in Statements(q)
      BY <2>1, <2>2, StatementsKept
    <3>2. build(q)[i] = Links(q, i) \ {0} /\ build(body)[i] = Links(body, i) \ {0}
      BY <3>1 DEF build
    <3>3. {Stands(q, s) : s \in Links(q, i)} \ {0} = Links(body, i) \ {0}
      BY <2>1, <2>2, LinksKept
    <3>4. 0 \notin Statements(body)
      BY <2>1 DEF Finished, Written, Tree, Statements
    <3>5. ASSUME NEW s \in build(q)[i]
          PROVE  Stands(q, s) = Origin(s) /\ Stands(q, s) # 0
      <4>1. s # 0
        BY <3>2
      <4>2. q[s].kind = "back" => q[s].dest \in Statements(body)
        <5>1. s \in Statements(q)
          BY <2>1, <2>2, <3>1, LinksForward
        <5>2. s \in 1..Len(body)
          BY <2>1, <2>2, <5>1, JumpsReplace DEF Statements
        <5> QED BY <2>1, <2>2, <5>2, GotoIs
      <4> QED BY <3>4, <4>1, <4>2 DEF Stands
    <3>6. Stands(q, 0) = 0
      BY DEF Stands
    <3> HIDE DEF Origin
    <3> QED BY <3>2, <3>3, <3>5, <3>6
  <2> QED BY <2>2, <2>3 DEF FlowIsKept
<1> QED BY <1>1, InitBody, NextBody, PTL DEF Spec

-----------------------------------------------------------------------------
(* Sums *)

LEMMA SumExists ==
    ASSUME NEW n \in Nat, NEW w, \A i \in 1..n : w[i] \in Nat
    PROVE  \E F : IsSum(F, 1..n, w)
<1> DEFINE T == {m \in 0..n : ~\E F : IsSum(F, 1..m, w)}
<1>1. T = {}
  <2> SUFFICES ASSUME T # {} PROVE FALSE
    OBVIOUS
  <2>1. PICK m \in T : \A y \in T : m <= y
    <3>1. T \in SUBSET Nat
      OBVIOUS
    <3> HIDE DEF T
    <3> QED BY <3>1, LeastNumber
  <2>2. m \in 0..n /\ ~\E F : IsSum(F, 1..m, w)
    OBVIOUS
  <2>3. CASE m = 0
    <3> DEFINE F == [s \in SUBSET (1..m) |-> 0]
    <3>1. 1..m = {}
      BY <2>3
    <3>2. IsSum(F, 1..m, w)
      BY <3>1 DEF IsSum
    <3> QED BY <2>2, <3>2
  <2>4. CASE m # 0
    <3>1. m - 1 \in 0..n /\ ~(m <= m - 1)
      BY <2>2, <2>4
    <3>2. m - 1 \notin T
      <4> HIDE DEF T
      <4> QED BY <2>1, <3>1
    <3>3. PICK G : IsSum(G, 1..(m - 1), w)
      BY <3>1, <3>2
    <3> HIDE DEF T
    <3> DEFINE U == 1..(m - 1)
               F == [s \in SUBSET (1..m) |-> IF m \in s THEN w[m] + G[s \ {m}] ELSE G[s]]
    <3>4. 1..m = U \cup {m} /\ m \notin U /\ w[m] \in Nat /\ \A i \in 1..m : w[i] \in Nat
      BY <2>2, <2>4
    <3>5. \A s \in SUBSET (1..m) : s \ {m} \in SUBSET U /\ (m \notin s => s \in SUBSET U)
      <4> HIDE DEF U
      <4> QED BY <3>4
    <3>6. \A s \in SUBSET U : G[s] \in Nat /\ \A x \in s : G[s] = w[x] + G[s \ {x}]
      BY <3>3 DEF IsSum
    <3>7. \A s \in SUBSET (1..m) : F[s] = IF m \in s THEN w[m] + G[s \ {m}] ELSE G[s]
      OBVIOUS
    <3>8. F[{}] = 0
      <4>1. G[{}] = 0 /\ {} \in SUBSET (1..m)
        BY <3>3 DEF IsSum
      <4> HIDE DEF F
      <4> QED BY <3>7, <4>1
    <3>9. F = [s \in SUBSET (1..m) |-> F[s]]
      OBVIOUS
    <3> HIDE DEF F, U
    <3>10. \A s \in SUBSET (1..m) : F[s] \in Nat
      <4> SUFFICES ASSUME NEW s \in SUBSET (1..m) PROVE F[s] \in Nat
        OBVIOUS
      <4> DEFINE a == s \ {m}
      <4>1. a \in SUBSET U
        BY <3>5
      <4>2. G[a] \in Nat /\ (m \notin s => G[s] \in Nat)
        BY <3>5, <3>6, <4>1
      <4>3. F[s] = IF m \in s THEN w[m] + G[a] ELSE G[s]
        BY <3>7
      <4> HIDE DEF a
      <4> QED BY <3>4, <4>2, <4>3
    <3>11. ASSUME NEW s \in SUBSET (1..m), NEW x \in s PROVE F[s] = w[x] + F[s \ {x}]
      <4> DEFINE r == s \ {x}
                 a == s \ {m}
                 b == r \ {m}
      <4>1. r \in SUBSET (1..m) /\ a \in SUBSET U /\ b \in SUBSET U /\ b = a \ {x}
        BY <3>5
      <4>2. w[x] \in Nat /\ w[m] \in Nat /\ G[a] \in Nat /\ G[b] \in Nat
        BY <3>4, <3>6, <4>1
      <4>3. CASE x = m
        <5>1. F[s] = w[m] + G[a] /\ m \notin r /\ r = a
          BY <3>7, <3>11, <4>3
        <5>2. F[r] = G[a]
          BY <3>7, <4>1, <5>1
        <5> QED BY <4>3, <5>1, <5>2
      <4>4. CASE x # m
        <5>1. x \in a
          BY <3>11, <4>4
        <5>2. G[a] = w[x] + G[b]
          BY <3>6, <4>1, <5>1
        <5>3. CASE m \in s
          <6>1. F[s] = w[m] + G[a] /\ F[r] = w[m] + G[b]
            BY <3>7, <4>1, <4>4, <5>3
          <6> HIDE DEF a, b, r
          <6> QED BY <4>2, <5>2, <6>1 DEF r
        <5>4. CASE m \notin s
          <6>1. a = s /\ b = r /\ m \notin r
            BY <5>4
          <6>2. F[s] = G[a] /\ F[r] = G[b]
            BY <3>7, <4>1, <5>4, <6>1
          <6> QED BY <5>2, <6>2
        <5> QED BY <5>3, <5>4
      <4> QED BY <4>3, <4>4
    <3>12. IsSum(F, 1..m, w)
      BY <3>8, <3>9, <3>10, <3>11 DEF IsSum
    <3> QED BY <2>2, <3>12
  <2> QED BY <2>3, <2>4
<1>2. n \in 0..n
  OBVIOUS
<1> QED BY <1>1, <1>2

\* The fold takes elements in any order: it is that sum.
LEMMA FoldIs ==
    ASSUME NEW n \in Nat, NEW w, NEW F, IsSum(F, 1..n, w), NEW v,
           NEW S \in SUBSET (1..n), \A i \in S : v[i] = w[i]
    PROVE  (CHOOSE h : Folds(h, S, v))[S] = F[S]
<1> DEFINE iter == CHOOSE h : Folds(h, S, v)
<1>2. IsFiniteSet(S) /\ \A s \in SUBSET S : IsFiniteSet(s) /\ s \in SUBSET (1..n)
  <2>1. IsFiniteSet(1..n)
    BY FS_Interval
  <2>2. \A s \in SUBSET S : s \in SUBSET (1..n)
    OBVIOUS
  <2> QED BY <2>1, <2>2, FS_Subset
<1> DEFINE c(s) == CHOOSE x \in s : TRUE
<1>3. ASSUME NEW s \in SUBSET S, s # {}
      PROVE  c(s) \in s /\ s \ {c(s)} \in SUBSET S /\ F[s] = v[c(s)] + F[s \ {c(s)}]
  <2>1. c(s) \in s
    BY <1>3
  <2> HIDE DEF c
  <2>2. s \in SUBSET (1..n) /\ v[c(s)] = w[c(s)]
    BY <2>1
  <2>3. F[s] = w[c(s)] + F[s \ {c(s)}]
    BY <2>1, <2>2 DEF IsSum
  <2> QED BY <2>1, <2>2, <2>3
<1>4. Folds(iter, S, v)
  <2> DEFINE h == [s \in SUBSET S |-> F[s]]
  <2>1. \A s \in SUBSET S : h[s] = F[s]
    OBVIOUS
  <2>2. F[{}] = 0
    BY DEF IsSum
  <2> HIDE DEF c, h
  <2>3. \A s \in SUBSET S : h[s] = IF s = {} THEN 0 ELSE v[c(s)] + h[s \ {c(s)}]
    BY <1>3, <2>1, <2>2
  <2>4. h = [s \in SUBSET S |-> h[s]]
    BY DEF h
  <2>5. h = [s \in SUBSET S |-> IF s = {} THEN 0 ELSE v[c(s)] + h[s \ {c(s)}]]
    BY <2>3, <2>4
  <2>6. \E k : Folds(k, S, v)
    BY <2>5 DEF c, Folds
  <2> QED BY <2>6
<1>5. \A s \in SUBSET S : iter[s] = IF s = {} THEN 0 ELSE v[c(s)] + iter[s \ {c(s)}]
  <2> HIDE DEF iter
  <2> QED BY <1>4 DEF Folds
<1> HIDE DEF iter, c
<1> DEFINE Bad == {s \in SUBSET S : iter[s] # F[s]}
           T == {Cardinality(s) : s \in Bad}
<1>6. Bad = {}
  <2> SUFFICES ASSUME Bad # {} PROVE FALSE
    OBVIOUS
  <2>1. T \in SUBSET Nat /\ T # {}
    <3>1. \A s \in SUBSET S : Cardinality(s) \in Nat
      BY <1>2, FS_CardinalityType
    <3> QED BY <3>1
  <2>2. PICK k \in T : \A y \in T : k <= y
    <3> HIDE DEF T
    <3> QED BY <2>1, LeastNumber
  <2>3. PICK s \in Bad : Cardinality(s) = k
    OBVIOUS
  <2>4. s \in SUBSET S /\ iter[s] # F[s] /\ s # {}
    <3>1. F[{}] = 0
      BY DEF IsSum
    <3> QED BY <1>5, <3>1
  <2> DEFINE r == s \ {c(s)}
  <2>5. c(s) \in s /\ r \in SUBSET S /\ F[s] = v[c(s)] + F[r] /\ iter[s] = v[c(s)] + iter[r]
    BY <1>3, <1>5, <2>4
  <2>6. Cardinality(r) = Cardinality(s) - 1
    BY <1>2, <2>4, <2>5, FS_RemoveElement
  <2>7. r \notin Bad
    <3>1. Cardinality(r) \in Nat /\ Cardinality(s) \in Nat
      BY <1>2, <2>4, <2>5, FS_CardinalityType
    <3>2. ~(k <= Cardinality(r))
      BY <2>3, <2>6, <3>1
    <3>3. Cardinality(r) \notin T
      <4> HIDE DEF T
      <4> QED BY <2>2, <3>2
    <3> HIDE DEF Bad, r
    <3> QED BY <3>3
  <2> QED BY <2>4, <2>5, <2>7
<1> QED BY <1>6 DEF iter

LEMMA TotalIs ==
    ASSUME NEW n \in Nat, NEW w, NEW F, IsSum(F, 1..n, w), NEW g, NEW path,
           NEW S \in SUBSET (1..n), Sites(g, w, path, S)
    PROVE  Total(g, path) = F[S]
<1> DEFINE v == g.scale
<1>1. Total(g, path) = (CHOOSE h : Folds(h, S, v))[S]
  BY DEF Total, MapThenSumSet, MapThenFoldSet, Sites, Folds
<1>2. \A i \in S : v[i] = w[i]
  BY DEF Sites
<1> HIDE DEF v
<1>3. (CHOOSE h : Folds(h, S, v))[S] = F[S]
  BY <1>2, FoldIs
<1> QED BY <1>1, <1>3

-----------------------------------------------------------------------------
(* Weights *)

LEMMA ImageMax ==
    ASSUME NEW n \in Nat, NEW S \in SUBSET (1..n), S # {}, NEW v, \A s \in S : v[s] \in Nat
    PROVE  \E s \in S : \A t \in S : v[t] <= v[s]
<1> DEFINE T == {m \in 0..n : \E U \in SUBSET S : /\ U # {} /\ U \subseteq 1..m
                                                  /\ ~\E s \in U : \A t \in U : v[t] <= v[s]}
<1>1. T = {}
  <2> SUFFICES ASSUME T # {} PROVE FALSE
    OBVIOUS
  <2>1. PICK m \in T : \A y \in T : m <= y
    <3>1. T \in SUBSET Nat
      OBVIOUS
    <3> HIDE DEF T
    <3> QED BY <3>1, LeastNumber
  <2>2. PICK U \in SUBSET S : /\ U # {} /\ U \subseteq 1..m
                              /\ ~\E s \in U : \A t \in U : v[t] <= v[s]
    OBVIOUS
  <2>3. m \in 0..n /\ m # 0
    <3>1. m \in 0..n
      OBVIOUS
    <3>2. 1..0 = {}
      OBVIOUS
    <3> HIDE DEF T
    <3> QED BY <2>2, <3>1, <3>2
  <2> DEFINE W == U \ {m}
  <2>4. W \in SUBSET S /\ W \subseteq 1..(m - 1) /\ m - 1 \in 0..n /\ ~(m <= m - 1)
    BY <2>2, <2>3
  <2>5. m - 1 \notin T
    <3> HIDE DEF T
    <3> QED BY <2>1, <2>4
  <2>6. W # {} => \E s \in W : \A t \in W : v[t] <= v[s]
    <3> HIDE DEF W
    <3> QED BY <2>4, <2>5
  <2> HIDE DEF T
  <2>7. \A t \in U : t \in W \/ t = m
    OBVIOUS
  <2>8. \A t \in U : v[t] \in Nat
    BY <2>2
  <2>9. CASE W = {}
    <3>1. m \in U /\ \A t \in U : t = m
      BY <2>2, <2>7, <2>9
    <3>2. v[m] \in Nat
      BY <2>8, <3>1
    <3> QED BY <2>2, <3>1, <3>2
  <2>10. CASE W # {}
    <3>1. PICK s \in W : \A t \in W : v[t] <= v[s]
      BY <2>6, <2>10
    <3>2. s \in U /\ v[s] \in Nat
      BY <2>8
    <3>3. CASE m \notin U \/ v[m] <= v[s]
      <4>1. \A t \in U : v[t] <= v[s]
        BY <2>7, <3>1, <3>3
      <4> QED BY <2>2, <3>2, <4>1
    <3>4. CASE m \in U /\ ~(v[m] <= v[s])
      <4>1. v[m] \in Nat /\ v[s] <= v[m]
        BY <2>8, <3>2, <3>4
      <4>2. \A t \in U : v[t] <= v[m]
        <5> TAKE t \in U
        <5>1. v[t] \in Nat
          BY <2>8
        <5>2. t = m \/ v[t] <= v[s]
          BY <2>7, <3>1
        <5> QED BY <3>2, <4>1, <5>1, <5>2
      <4> QED BY <2>2, <3>4, <4>2
    <3> QED BY <3>3, <3>4
  <2> QED BY <2>9, <2>10
<1>2. n \in 0..n /\ n \notin T
  <2> HIDE DEF T
  <2> QED BY <1>1
<1>3. S \in SUBSET S /\ S \subseteq 1..n
  OBVIOUS
<1> QED BY <1>2, <1>3

LEMMA SameWeight ==
    ASSUME NEW g, NEW h, NEW k, NEW i, \A s \in g.succ[i] \ g.headers : h[s] = k[s]
    PROVE  WeightOf(g, h, i) = WeightOf(g, k, i)
<1>1. \A s \in g.succ[i] : (IF s \in g.headers THEN weightless ELSE h[s])
                         = (IF s \in g.headers THEN weightless ELSE k[s])
  OBVIOUS
<1>2. {IF s \in g.headers THEN weightless ELSE h[s] : s \in g.succ[i]}
        = {IF s \in g.headers THEN weightless ELSE k[s] : s \in g.succ[i]}
  BY <1>1
<1> QED BY <1>2 DEF WeightOf

\* The memo of weigh is what its recursion says, from the last statement on for
\* those that are no headers, and then for the headers.
LEMMA WeighStep ==
    ASSUME NEW nodes, NEW g, NEW n, Forward(nodes, g, n), NEW i \in nodes
    PROVE  weigh(nodes, g)[i] = WeightOf(g, weigh(nodes, g), i)
<1> DEFINE Memo(h) == h = [j \in nodes |-> WeightOf(g, h, j)]
           D(m) == {j \in nodes \ g.headers : j > n - m}
           Partial(h, m) == h = [j \in D(m) |-> WeightOf(g, h, j)]
           T == {m \in 0..n : ~\E h : Partial(h, m)}
<1>1. /\ n \in Nat /\ nodes \in SUBSET (1..n)
      /\ \A j \in nodes : g.succ[j] \in SUBSET nodes
      /\ \A j \in nodes \ g.headers : \A s \in g.succ[j] : s > j
  BY DEF Forward
<1>2. T = {}
  <2> SUFFICES ASSUME T # {} PROVE FALSE
    OBVIOUS
  <2>1. PICK m \in T : \A y \in T : m <= y
    <3>1. T \in SUBSET Nat
      OBVIOUS
    <3> HIDE DEF T
    <3> QED BY <3>1, LeastNumber
  <2>2. m \in 0..n /\ ~\E h : Partial(h, m)
    OBVIOUS
  <2>3. CASE m = 0
    <3>1. D(m) = {}
      <4> SUFFICES ASSUME NEW j \in nodes, j > n - m PROVE FALSE
        OBVIOUS
      <4>1. j \in 1..n /\ n - m = n
        BY <1>1, <2>3
      <4> HIDE DEF T
      <4> QED BY <1>1, <4>1
    <3> DEFINE h == [j \in D(m) |-> 0]
    <3>2. Partial(h, m)
      BY <3>1
    <3> QED BY <2>2, <3>2
  <2>4. CASE m # 0
    <3>1. m - 1 \in 0..n /\ ~(m <= m - 1)
      <4> HIDE DEF T, Partial
      <4> QED BY <1>1, <2>2, <2>4
    <3>2. m - 1 \notin T
      <4> HIDE DEF T
      <4> QED BY <2>1, <3>1
    <3>3. PICK k : Partial(k, m - 1)
      BY <3>1, <3>2
    <3> HIDE DEF T
    <3> DEFINE a == n - m + 1
               h == [j \in D(m) |-> IF j = a THEN WeightOf(g, k, a) ELSE k[j]]
    <3>4. /\ \A j \in D(m) : j # a => j \in D(m - 1)
          /\ \A s \in D(m - 1) : s \in D(m) /\ s # a
      BY <1>1, <2>2
    <3>5. \A j \in D(m) : h[j] = IF j = a THEN WeightOf(g, k, a) ELSE k[j]
      OBVIOUS
    <3>6. \A j \in D(m) : \A s \in g.succ[j] \ g.headers : s \in D(m - 1)
      <4> SUFFICES ASSUME NEW j \in D(m), NEW s \in g.succ[j] \ g.headers PROVE s \in D(m - 1)
        OBVIOUS
      <4>1. j \in nodes \ g.headers /\ j \in 1..n /\ j > n - m
        BY <1>1
      <4>2. s \in nodes \ g.headers /\ s > j /\ s \in 1..n
        BY <1>1, <4>1
      <4> QED BY <1>1, <2>2, <4>1, <4>2
    <3>7. h = [j \in D(m) |-> h[j]]
      OBVIOUS
    <3>8. \A j \in D(m - 1) : k[j] = WeightOf(g, k, j)
      <4> HIDE DEF D
      <4> QED BY <3>3
    <3> HIDE DEF h, D, a
    <3>9. ASSUME NEW j \in D(m) PROVE h[j] = WeightOf(g, h, j)
      <4>1. \A s \in g.succ[j] \ g.headers : h[s] = k[s]
        BY <3>4, <3>5, <3>6
      <4>2. WeightOf(g, h, j) = WeightOf(g, k, j)
        BY <4>1, SameWeight
      <4>3. CASE j = a
        BY <3>5, <4>2, <4>3
      <4>4. CASE j # a
        BY <3>4, <3>5, <3>8, <4>2, <4>4
      <4> QED BY <4>3, <4>4
    <3>10. Partial(h, m)
      BY <3>7, <3>9
    <3> QED BY <2>2, <3>10
  <2> QED BY <2>3, <2>4
<1>3. PICK k : Partial(k, n)
  <2>1. n \in 0..n /\ n \notin T
    <3> HIDE DEF T
    <3> QED BY <1>1, <1>2
  <2> QED BY <2>1
<1> HIDE DEF T
<1>4. D(n) = nodes \ g.headers
  <2>1. n - n = 0
    BY <1>1
  <2>2. \A j \in nodes : j \in 1..n /\ j > 0
    BY <1>1
  <2> HIDE DEF Partial
  <2> QED BY <2>1, <2>2
<1>5. \A j \in nodes \ g.headers : k[j] = WeightOf(g, k, j)
  <2> HIDE DEF D
  <2> QED BY <1>3, <1>4
<1> DEFINE h == [j \in nodes |-> IF j \in g.headers THEN WeightOf(g, k, j) ELSE k[j]]
<1>6. \A j \in nodes \ g.headers : h[j] = k[j]
  OBVIOUS
<1>7. \A j \in nodes : h[j] = WeightOf(g, k, j)
  BY <1>5
<1>8. h = [j \in nodes |-> h[j]]
  OBVIOUS
<1> HIDE DEF h
<1>9. \A j \in nodes : h[j] = WeightOf(g, h, j)
  <2> SUFFICES ASSUME NEW j \in nodes PROVE h[j] = WeightOf(g, h, j)
    OBVIOUS
  <2>1. \A s \in g.succ[j] \ g.headers : h[s] = k[s]
    BY <1>1, <1>6
  <2>2. WeightOf(g, h, j) = WeightOf(g, k, j)
    BY <2>1, SameWeight
  <2> QED BY <1>7, <2>2
<1>10. Memo(h)
  BY <1>8, <1>9
<1> DEFINE weight == CHOOSE w : Memo(w)
<1>11. Memo(weight)
  <2>1. \E w : Memo(w)
    BY <1>10
  <2> HIDE DEF Memo
  <2> QED BY <2>1
<1>12. weigh(nodes, g) = weight
  BY DEF weigh, WeightOf
<1> HIDE DEF weight
<1> QED BY <1>11, <1>12

LEMMA MaxOf ==
    ASSUME NEW R \in SUBSET Nat, NEW m \in R, \A y \in R : y <= m
    PROVE  Max(R) = m
<1>1. \E x \in R : \A y \in R : x >= y
  OBVIOUS
<1>2. Max(R) \in R /\ \A y \in R : Max(R) >= y
  BY <1>1 DEF Max
<1> DEFINE x == Max(R)
<1>3. x \in Nat /\ m \in Nat /\ x >= m /\ x <= m
  BY <1>2
<1> HIDE DEF x
<1>4. x = m
  BY <1>3
<1> QED BY <1>4 DEF x

LEMMA MinOf ==
    ASSUME NEW R \in SUBSET Nat, R # {}
    PROVE  Min(R) \in R /\ \A y \in R : Min(R) <= y
<1>1. \E x \in R : \A y \in R : x =< y
  BY LeastNumber
<1> QED BY <1>1 DEF Min

\* The same for one statement, when those that it leads to are weighed.
LEMMA BoundsStep ==
    ASSUME NEW nodes, NEW g, NEW n, Forward(nodes, g, n), NEW i \in nodes, NEW h,
           \A s \in g.succ[i] \ g.headers : h[s].threshold \in Nat /\ h[s].count \in Nat
    PROVE  LET w == WeightOf(g, h, i)
               self == SelfWeight(g, i)
           IN  /\ self.threshold \in Nat /\ self.count \in Nat
               /\ w = [threshold |-> w.threshold, count |-> w.count]
               /\ w.threshold \in Nat /\ w.count \in Nat
               /\ w.threshold >= self.threshold /\ w.count >= self.count
               /\ \A s \in g.succ[i] \ g.headers :
                      /\ w.threshold >= self.threshold + h[s].threshold
                      /\ w.count >= self.count + h[s].count
               /\ w.threshold # self.threshold =>
                      \E s \in g.succ[i] \ g.headers : w.threshold = self.threshold + h[s].threshold
               /\ w.count # self.count =>
                      \E s \in g.succ[i] \ g.headers : w.count = self.count + h[s].count
<1> DEFINE w == WeightOf(g, h, i)
           self == SelfWeight(g, i)
           S == g.succ[i] \ g.headers
           ws == {IF s \in g.headers THEN weightless ELSE h[s] : s \in g.succ[i]}
           heaviest == MaxWeight(ws)
           R == {v.threshold : v \in ws} \cup {0}
           Q == {v.count : v \in ws} \cup {0}
<1>1. n \in Nat /\ S \in SUBSET (1..n)
  BY DEF Forward
<1>2. self.threshold \in Nat /\ self.count \in Nat
  BY DEF SelfWeight, weightless, Forward
<1>3. w = [threshold |-> self.threshold + heaviest.threshold, count |-> self.count + heaviest.count]
  BY DEF WeightOf, SumWeight
<1>4. heaviest = [threshold |-> Max(R), count |-> Max(Q)]
  BY DEF MaxWeight
<1>5. \A s \in S : h[s] \in ws
  OBVIOUS
<1>6. \A v \in ws : v = weightless \/ \E s \in S : v = h[s]
  OBVIOUS
<1>7. weightless.threshold = 0 /\ weightless.count = 0
  BY DEF weightless
<1> HIDE DEF S, ws, self, w
<1>8. /\ Max(R) \in Nat
      /\ \A s \in S : Max(R) >= h[s].threshold
      /\ Max(R) # 0 => \E s \in S : Max(R) = h[s].threshold
  <2>1. R \in SUBSET Nat /\ \A r \in R : r = 0 \/ \E s \in S : r = h[s].threshold
    BY <1>6, <1>7 DEF S
  <2>2. \A s \in S : h[s].threshold \in R
    BY <1>5
  <2>3. CASE S = {}
    <3>1. 0 \in R /\ \A r \in R : r <= 0
      BY <2>1, <2>3
    <3> HIDE DEF R
    <3>2. Max(R) = 0
      BY <2>1, <3>1, MaxOf
    <3> QED BY <2>3, <3>2
  <2>4. CASE S # {}
    <3> DEFINE x == [s \in S |-> h[s].threshold]
    <3>1. \A s \in S : x[s] = h[s].threshold /\ x[s] \in Nat
      BY DEF S
    <3> HIDE DEF x
    <3>2. PICK s \in S : \A t \in S : x[t] <= x[s]
      BY <1>1, <2>4, <3>1, ImageMax
    <3>3. x[s] \in R /\ x[s] \in Nat /\ \A r \in R : r <= x[s]
      <4> HIDE DEF R
      <4> QED BY <2>1, <2>2, <3>1, <3>2
    <3> HIDE DEF R
    <3>4. Max(R) = x[s]
      BY <2>1, <3>3, MaxOf
    <3> QED BY <3>1, <3>2, <3>4
  <2> QED BY <2>3, <2>4
<1>9. /\ Max(Q) \in Nat
      /\ \A s \in S : Max(Q) >= h[s].count
      /\ Max(Q) # 0 => \E s \in S : Max(Q) = h[s].count
  <2>1. Q \in SUBSET Nat /\ \A r \in Q : r = 0 \/ \E s \in S : r = h[s].count
    BY <1>6, <1>7 DEF S
  <2>2. \A s \in S : h[s].count \in Q
    BY <1>5
  <2>3. CASE S = {}
    <3>1. 0 \in Q /\ \A r \in Q : r <= 0
      BY <2>1, <2>3
    <3> HIDE DEF Q
    <3>2. Max(Q) = 0
      BY <2>1, <3>1, MaxOf
    <3> QED BY <2>3, <3>2
  <2>4. CASE S # {}
    <3> DEFINE x == [s \in S |-> h[s].count]
    <3>1. \A s \in S : x[s] = h[s].count /\ x[s] \in Nat
      BY DEF S
    <3> HIDE DEF x
    <3>2. PICK s \in S : \A t \in S : x[t] <= x[s]
      BY <1>1, <2>4, <3>1, ImageMax
    <3>3. x[s] \in Q /\ x[s] \in Nat /\ \A r \in Q : r <= x[s]
      <4> HIDE DEF Q
      <4> QED BY <2>1, <2>2, <3>1, <3>2
    <3> HIDE DEF Q
    <3>4. Max(Q) = x[s]
      BY <2>1, <3>3, MaxOf
    <3> QED BY <3>1, <3>2, <3>4
  <2> QED BY <2>3, <2>4
<1> HIDE DEF R, Q, heaviest
<1>10. w.threshold = self.threshold + Max(R) /\ w.count = self.count + Max(Q)
       /\ w = [threshold |-> w.threshold, count |-> w.count]
  BY <1>3, <1>4
<1>11. \A s \in S : h[s].threshold \in Nat /\ h[s].count \in Nat
  BY DEF S
<1>12. /\ w.threshold \in Nat /\ w.count \in Nat
       /\ w.threshold >= self.threshold /\ w.count >= self.count
       /\ \A s \in S : /\ w.threshold >= self.threshold + h[s].threshold
                       /\ w.count >= self.count + h[s].count
  BY <1>2, <1>8, <1>9, <1>10, <1>11
<1>13. /\ w.threshold # self.threshold => \E s \in S : w.threshold = self.threshold + h[s].threshold
       /\ w.count # self.count => \E s \in S : w.count = self.count + h[s].count
  BY <1>2, <1>8, <1>9, <1>10
<1> QED BY <1>2, <1>10, <1>12, <1>13 DEF w, self, S

LEMMA WeighBounds ==
    ASSUME NEW nodes, NEW g, NEW n, Forward(nodes, g, n)
    PROVE  LET weight == weigh(nodes, g)
           IN  /\ \A i \in nodes : weight[i] \in [threshold : Nat, count : Nat]
               /\ Bounds([i \in nodes |-> weight[i].threshold],
                         [i \in nodes |-> SelfWeight(g, i).threshold], nodes, g)
               /\ Bounds([i \in nodes |-> weight[i].count],
                         [i \in nodes |-> SelfWeight(g, i).count], nodes, g)
<1> DEFINE w == weigh(nodes, g)
           Good(i) == w[i].threshold \in Nat /\ w[i].count \in Nat
           T == {i \in nodes \ g.headers : ~Good(i)}
<1>1. /\ n \in Nat /\ nodes \in SUBSET (1..n)
      /\ \A i \in nodes : g.succ[i] \in SUBSET nodes
      /\ \A i \in nodes \ g.headers : \A s \in g.succ[i] : s > i
  BY DEF Forward
<1>2. \A i \in nodes : w[i] = WeightOf(g, w, i)
  BY WeighStep
<1> HIDE DEF w
<1>3. T = {}
  <2> SUFFICES ASSUME T # {} PROVE FALSE
    OBVIOUS
  <2>1. PICK i \in T : \A y \in T : y <= i
    <3>1. T \in SUBSET (1..n)
      BY <1>1
    <3> HIDE DEF T
    <3> QED BY <1>1, <3>1, LargestNumber
  <2>2. i \in nodes \ g.headers /\ ~Good(i) /\ i \in 1..n
    BY <1>1
  <2>3. ASSUME NEW s \in g.succ[i] \ g.headers PROVE Good(s)
    <3>1. s \in nodes \ g.headers /\ s > i /\ s \in 1..n
      BY <1>1, <2>2
    <3>2. ~(s <= i)
      BY <2>2, <3>1
    <3>3. s \notin T
      <4> HIDE DEF T
      <4> QED BY <2>1, <3>2
    <3> QED BY <3>1, <3>3
  <2> HIDE DEF T
  <2>4. Good(i)
    BY <1>2, <2>2, <2>3, BoundsStep
  <2> QED BY <2>2, <2>4
<1>4. \A i \in nodes : \A s \in g.succ[i] \ g.headers : Good(s) /\ s \in nodes
  BY <1>1, <1>3
<1> HIDE DEF T
<1>5. \A i \in nodes :
          LET self == SelfWeight(g, i)
          IN  /\ self.threshold \in Nat /\ self.count \in Nat
              /\ w[i] = [threshold |-> w[i].threshold, count |-> w[i].count]
              /\ w[i].threshold \in Nat /\ w[i].count \in Nat
              /\ w[i].threshold >= self.threshold /\ w[i].count >= self.count
              /\ \A s \in g.succ[i] \ g.headers :
                     /\ w[i].threshold >= self.threshold + w[s].threshold
                     /\ w[i].count >= self.count + w[s].count
              /\ w[i].threshold # self.threshold =>
                     \E s \in g.succ[i] \ g.headers : w[i].threshold = self.threshold + w[s].threshold
              /\ w[i].count # self.count =>
                     \E s \in g.succ[i] \ g.headers : w[i].count = self.count + w[s].count
  BY <1>2, <1>4, BoundsStep
<1>6. ASSUME NEW i \in nodes PROVE w[i] \in [threshold : Nat, count : Nat]
  <2> DEFINE a == w[i].threshold
             b == w[i].count
  <2>1. w[i] = [threshold |-> a, count |-> b] /\ a \in Nat /\ b \in Nat
    BY <1>5
  <2> HIDE DEF a, b
  <2> QED BY <2>1
<1>7. Bounds([i \in nodes |-> w[i].threshold], [i \in nodes |-> SelfWeight(g, i).threshold], nodes, g)
  <2> DEFINE V == [i \in nodes |-> w[i].threshold]
             u == [i \in nodes |-> SelfWeight(g, i).threshold]
  <2>1. \A i \in nodes : V[i] = w[i].threshold /\ u[i] = SelfWeight(g, i).threshold
    OBVIOUS
  <2> HIDE DEF V, u
  <2>2. Bounds(V, u, nodes, g)
    BY <1>4, <1>5, <2>1 DEF Bounds
  <2> QED BY <2>2 DEF V, u
<1>8. Bounds([i \in nodes |-> w[i].count], [i \in nodes |-> SelfWeight(g, i).count], nodes, g)
  <2> DEFINE V == [i \in nodes |-> w[i].count]
             u == [i \in nodes |-> SelfWeight(g, i).count]
  <2>1. \A i \in nodes : V[i] = w[i].count /\ u[i] = SelfWeight(g, i).count
    OBVIOUS
  <2> HIDE DEF V, u
  <2>2. Bounds(V, u, nodes, g)
    BY <1>4, <1>5, <2>1 DEF Bounds
  <2> QED BY <2>2 DEF V, u
<1> QED BY <1>6, <1>7, <1>8 DEF w

-----------------------------------------------------------------------------
(* Paths *)

\* A path is its first statement and a path from there.
LEMMA PathTail ==
    ASSUME NEW nodes, NEW g, NEW n, Forward(nodes, g, n), NEW i \in nodes,
           NEW path \in PathsFrom(nodes, g, i), path # {}
    PROVE  \E m \in g.succ[i] \ g.headers : \E tail \in PathsFrom(nodes, g, m) :
               path = {m} \cup tail /\ m \notin tail /\ i \notin path
<1> DEFINE m == Min(path)
           tail == path \ {m}
           Later(p, k) == {j \in p : j > k}
<1>1. /\ n \in Nat /\ nodes \in SUBSET (1..n)
      /\ \A j \in nodes : g.succ[j] \in SUBSET nodes
      /\ \A j \in nodes \ g.headers : \A s \in g.succ[j] : s > j
  BY DEF Forward
<1>2. path \in SUBSET (nodes \ g.headers) /\ m \in g.succ[i] /\ Linked(g, path)
  BY DEF PathsFrom
<1>3. m \in path /\ \A y \in path : m <= y
  <2>1. path \in SUBSET Nat
    BY <1>1, <1>2
  <2> QED BY <2>1, MinOf
<1> HIDE DEF m
<1>4. m \in g.succ[i] \ g.headers /\ path = {m} \cup tail /\ m \notin tail
  BY <1>2, <1>3
<1>5. path \in SUBSET Nat /\ i \in Nat
  BY <1>1, <1>2
<1>6. i \notin path
  <2>1. CASE i \in g.headers
    BY <1>2, <2>1
  <2>2. CASE i \notin g.headers
    <3>1. m > i
      BY <1>1, <1>4, <2>2
    <3> QED BY <1>3, <1>5, <3>1
  <2> QED BY <2>1, <2>2
<1>7. \A k \in path : Later(path, k) # {} => Min(Later(path, k)) \in g.succ[k]
  BY <1>2 DEF Linked
<1>8. Later(path, m) = tail
  <2>1. \A j \in path : j > m <=> j # m
    BY <1>3, <1>5
  <2> QED BY <2>1
<1>9. \A k \in tail : Later(tail, k) = Later(path, k)
  <2> SUFFICES ASSUME NEW k \in tail PROVE Later(tail, k) = Later(path, k)
    OBVIOUS
  <2>1. ~(m > k)
    BY <1>3, <1>5
  <2> QED BY <2>1
<1>10. Linked(g, tail)
  <2>1. \A k \in tail : Later(tail, k) # {} => Min(Later(tail, k)) \in g.succ[k]
    BY <1>7, <1>9
  <2> QED BY <2>1 DEF Linked
<1>11. tail # {} => Min(tail) \in g.succ[m]
  BY <1>3, <1>7, <1>8
<1>12. tail \in PathsFrom(nodes, g, m)
  BY <1>2, <1>10, <1>11 DEF PathsFrom
<1> QED BY <1>4, <1>6, <1>12

\* And the other way round.
LEMMA PathHead ==
    ASSUME NEW nodes, NEW g, NEW n, Forward(nodes, g, n), NEW i \in nodes,
           NEW m \in g.succ[i] \ g.headers, NEW tail \in PathsFrom(nodes, g, m)
    PROVE  /\ {m} \cup tail \in PathsFrom(nodes, g, i)
           /\ m \notin tail /\ i \notin {m} \cup tail
<1> DEFINE path == {m} \cup tail
           Later(p, k) == {j \in p : j > k}
<1>1. /\ n \in Nat /\ nodes \in SUBSET (1..n)
      /\ \A j \in nodes : g.succ[j] \in SUBSET nodes
      /\ \A j \in nodes \ g.headers : \A s \in g.succ[j] : s > j
  BY DEF Forward
<1>2. m \in nodes \ g.headers /\ m \in Nat /\ i \in Nat
  <2>1. m \in nodes \ g.headers
    BY <1>1
  <2>2. m \in 1..n /\ i \in 1..n
    BY <1>1, <2>1
  <2> QED BY <1>1, <2>1, <2>2
<1>3. /\ tail \in SUBSET (nodes \ g.headers) /\ tail \in SUBSET Nat
      /\ tail # {} => Min(tail) \in g.succ[m] /\ Linked(g, tail)
  <2>1. tail \in SUBSET (nodes \ g.headers)
    BY DEF PathsFrom
  <2>2. tail # {} => Min(tail) \in g.succ[m] /\ Linked(g, tail)
    BY DEF PathsFrom
  <2>3. nodes \in SUBSET Nat
    BY <1>1
  <2> QED BY <2>1, <2>2, <2>3
<1>4. \A j \in tail : j > m
  <2> SUFFICES ASSUME NEW j \in tail PROVE j > m
    OBVIOUS
  <2> DEFINE x == Min(tail)
  <2>1. x \in tail /\ x <= j
    BY <1>3, MinOf
  <2>2. x > m
    BY <1>1, <1>2, <1>3
  <2>3. x \in Nat /\ j \in Nat
    BY <1>3, <2>1
  <2> HIDE DEF x
  <2> QED BY <1>2, <2>1, <2>2, <2>3
<1>5. m \notin tail
  BY <1>2, <1>4
<1>6. path \in SUBSET (nodes \ g.headers) /\ path \in SUBSET Nat /\ m \in path
  BY <1>2, <1>3
<1>7. Later(path, m) = tail
  <2>1. \A j \in path : j > m <=> j \in tail
    BY <1>2, <1>4
  <2> QED BY <2>1
<1>8. \A k \in tail : Later(path, k) = Later(tail, k)
  <2> SUFFICES ASSUME NEW k \in tail PROVE Later(path, k) = Later(tail, k)
    OBVIOUS
  <2>1. ~(m > k)
    BY <1>2, <1>3, <1>4
  <2> QED BY <2>1
<1>9. Linked(g, path)
  <2>1. \A k \in tail : Later(tail, k) # {} => Min(Later(tail, k)) \in g.succ[k]
    BY <1>3 DEF Linked
  <2>2. \A k \in path : Later(path, k) # {} => Min(Later(path, k)) \in g.succ[k]
    BY <1>3, <1>7, <1>8, <2>1
  <2> QED BY <2>2 DEF Linked
<1>10. Min(path) = m
  <2> DEFINE x == Min(path)
  <2>1. x \in path /\ x <= m
    BY <1>6, MinOf
  <2>2. x \in Nat
    BY <1>6, <2>1
  <2> HIDE DEF x
  <2>3. x = m
    BY <1>2, <1>4, <2>1, <2>2
  <2> QED BY <2>3 DEF x
<1>11. path \in PathsFrom(nodes, g, i)
  BY <1>6, <1>9, <1>10 DEF PathsFrom
<1>12. i \notin path
  <2>1. CASE i \in g.headers
    BY <1>6, <2>1
  <2>2. CASE i \notin g.headers
    <3>1. m > i
      BY <1>1, <2>2
    <3> QED BY <1>2, <1>3, <1>4, <3>1
  <2> QED BY <2>1, <2>2
<1> QED BY <1>5, <1>11, <1>12

\* What bounds the weights of neighbours tightly bounds that of paths tightly.
LEMMA Tight ==
    ASSUME NEW nodes, NEW g, NEW n, Forward(nodes, g, n),
           NEW V, NEW u, Bounds(V, u, nodes, g), NEW M, Adds(M, u, nodes)
    PROVE  \A i \in nodes :
               /\ \A path \in PathsFrom(nodes, g, i) : M[{i} \cup path] <= V[i]
               /\ \E path \in PathsFrom(nodes, g, i) : M[{i} \cup path] = V[i]
<1> DEFINE Good(i) == /\ \A path \in PathsFrom(nodes, g, i) : M[{i} \cup path] <= V[i]
                      /\ \E path \in PathsFrom(nodes, g, i) : M[{i} \cup path] = V[i]
           T == {i \in nodes \ g.headers : ~Good(i)}
<1>1. /\ n \in Nat /\ nodes \in SUBSET (1..n)
      /\ \A i \in nodes : g.succ[i] \in SUBSET nodes
      /\ \A i \in nodes \ g.headers : \A s \in g.succ[i] : s > i
  BY DEF Forward
<1>2. ASSUME NEW i \in nodes, \A s \in g.succ[i] \ g.headers : Good(s)
      PROVE  Good(i)
  <2>1. {} \in PathsFrom(nodes, g, i) /\ \A path \in PathsFrom(nodes, g, i) : path \in SUBSET nodes
    BY DEF PathsFrom
  <2>2. u[i] \in Nat /\ V[i] \in Nat /\ V[i] >= u[i]
    BY DEF Bounds
  <2>3. M[{i} \cup {}] = u[i]
    <3>1. M[{}] = 0 /\ M[{i} \cup {}] = u[i] + M[{}]
      BY DEF Adds
    <3> QED BY <2>2, <3>1
  <2>4. ASSUME NEW path \in PathsFrom(nodes, g, i) PROVE M[{i} \cup path] <= V[i]
    <3>1. CASE path = {}
      BY <2>2, <2>3, <3>1
    <3>2. CASE path # {}
      <4>0. PICK m \in g.succ[i] \ g.headers : \E tail \in PathsFrom(nodes, g, m) :
                path = {m} \cup tail /\ m \notin tail /\ i \notin path
        BY <3>2, PathTail
      <4>1. PICK tail \in PathsFrom(nodes, g, m) :
                path = {m} \cup tail /\ m \notin tail /\ i \notin path
        BY <4>0
      <4>2. M[path] <= V[m]
        BY <1>2, <4>1
      <4>3. M[{i} \cup path] = u[i] + M[path] /\ M[path] \in Nat
        BY <2>1, <4>1 DEF Adds
      <4>4. V[m] \in Nat /\ V[i] >= u[i] + V[m]
        BY <1>1 DEF Bounds
      <4> HIDE DEF Good
      <4> QED BY <2>2, <4>2, <4>3, <4>4
    <3> QED BY <3>1, <3>2
  <2>5. \E path \in PathsFrom(nodes, g, i) : M[{i} \cup path] = V[i]
    <3>1. CASE V[i] = u[i]
      BY <2>1, <2>3, <3>1
    <3>2. CASE V[i] # u[i]
      <4>1. PICK m \in g.succ[i] \ g.headers : V[i] = u[i] + V[m]
        BY <3>2 DEF Bounds
      <4>2. PICK tail \in PathsFrom(nodes, g, m) : M[{m} \cup tail] = V[m]
        BY <1>2
      <4> DEFINE path == {m} \cup tail
      <4>3. path \in PathsFrom(nodes, g, i) /\ i \notin path
        BY PathHead
      <4> HIDE DEF path
      <4>4. M[{i} \cup path] = u[i] + M[path]
        BY <2>1, <4>3 DEF Adds
      <4>5. M[path] = V[m]
        BY <4>2 DEF path
      <4> QED BY <4>1, <4>3, <4>4, <4>5
    <3> QED BY <3>1, <3>2
  <2> QED BY <2>4, <2>5
<1> HIDE DEF Good
<1>3. T = {}
  <2> SUFFICES ASSUME T # {} PROVE FALSE
    OBVIOUS
  <2>1. PICK i \in T : \A y \in T : y <= i
    <3>1. T \in SUBSET (1..n)
      BY <1>1
    <3> HIDE DEF T
    <3> QED BY <1>1, <3>1, LargestNumber
  <2>2. i \in nodes \ g.headers /\ ~Good(i) /\ i \in 1..n
    BY <1>1
  <2>3. ASSUME NEW s \in g.succ[i] \ g.headers PROVE Good(s)
    <3>1. s \in nodes \ g.headers /\ s > i /\ s \in 1..n
      BY <1>1, <2>2
    <3>2. ~(s <= i)
      BY <2>2, <3>1
    <3>3. s \notin T
      <4> HIDE DEF T
      <4> QED BY <2>1, <3>2
    <3> QED BY <3>1, <3>3
  <2> QED BY <1>2, <2>2, <2>3
<1>4. \A i \in nodes : \A s \in g.succ[i] \ g.headers : Good(s)
  BY <1>1, <1>3
<1>5. \A i \in nodes : Good(i)
  BY <1>2, <1>4
<1> QED BY <1>5 DEF Good

-----------------------------------------------------------------------------
(* Sites *)

LEMMA LengthIs ==
    ASSUME NEW S, NEW q \in Seq(S), NEW n \in Nat, DOMAIN q = 1..n
    PROVE  Len(q) = n
<1> DEFINE m == Len(q)
<1>1. m \in Nat /\ 1..m = 1..n
  BY LenProperties
<1> HIDE DEF m
<1>2. (n # 0 => n \in 1..n) /\ (m # 0 => m \in 1..m)
  BY <1>1
<1>3. (n # 0 => n \in 1..m) /\ (m # 0 => m \in 1..n)
  BY <1>1, <1>2
<1>4. m = n
  BY <1>1, <1>3
<1> QED BY <1>4 DEF m

\* Sites change nothing but the scales.
LEMMA SitedFinished ==
    ASSUME NEW f, Finished(f, body), NEW sites \in SUBSET DOMAIN body,
           \A i \in sites : Weights[i] \in Int
    PROVE  /\ Finished(f, Sited(sites)) /\ DOMAIN Sited(sites) = DOMAIN body
           /\ \A i \in DOMAIN body :
                 /\ Sited(sites)[i].kind = body[i].kind /\ Sited(sites)[i].dest = body[i].dest
                 /\ Sited(sites)[i].label = body[i].label
                 /\ Sited(sites)[i].scale = IF i \in sites THEN Weights[i] ELSE body[i].scale
<1> DEFINE n == Len(body)
           q == Sited(sites)
<1>1. Written(f, body) /\ body \in Seq(Items) /\ Tree(f, body) /\ n \in Nat /\ DOMAIN body = 1..n
  BY DEF Finished, Written, Tree
<1>2. \A i \in 1..n : q[i] = IF i \in sites THEN [body[i] EXCEPT !.scale = Weights[i]] ELSE body[i]
  BY <1>1 DEF Sited
<1>3. q = [i \in 1..n |-> q[i]]
  BY <1>1 DEF Sited
<1> HIDE DEF q
<1>4. ASSUME NEW i \in 1..n
      PROVE  /\ q[i] \in Items /\ q[i].kind = body[i].kind /\ q[i].dest = body[i].dest
             /\ q[i].label = body[i].label
             /\ q[i].scale = IF i \in sites THEN Weights[i] ELSE body[i].scale
  <2>1. body[i] \in Items
    BY <1>1, ElementOfSeq
  <2>2. CASE i \in sites
    <3>1. q[i] = [body[i] EXCEPT !.scale = Weights[i]] /\ Weights[i] \in Int
      BY <1>2, <2>2
    <3> QED BY <2>1, <2>2, <3>1 DEF Items
  <2>3. CASE i \notin sites
    BY <1>2, <2>1, <2>3
  <2> QED BY <2>2, <2>3
<1>5. q \in Seq(Items) /\ Len(q) = n /\ DOMAIN q = 1..n
  <2>1. q \in [1..n -> Items]
    BY <1>3, <1>4
  <2>2. q \in Seq(Items)
    BY <1>1, <2>1, SeqDef
  <2>3. DOMAIN q = 1..n
    BY <1>3
  <2> HIDE DEF n
  <2>5. Len(q) = n
    BY <1>1, <2>2, <2>3, LengthIs
  <2> QED BY <2>2, <2>3, <2>5
<1>6. \A i \in 1..n : f[i] \in 0..(i - 1) /\ (f[i] # 0 => f[i] \in 1..n)
  <2> SUFFICES ASSUME NEW i \in 1..n PROVE f[i] \in 0..(i - 1) /\ (f[i] # 0 => f[i] \in 1..n)
    OBVIOUS
  <2>1. f[i] \in 0..(i - 1)
    BY <1>1 DEF Tree
  <2> QED BY <1>1, <2>1
<1> HIDE DEF n
<1>7. Tree(f, q)
  <2>1. Computes(f, q)
    <3> DEFINE g(p) == [i \in 1..n |->
                          IF i = 1 THEN 0
                          ELSE IF p[i - 1].kind \in Compound THEN i - 1
                          ELSE IF p[i - 1].kind \in Closing THEN f[f[i - 1]]
                          ELSE f[i - 1]]
    <3>1. f = g(body)
      BY <1>1 DEF Tree, Computes
    <3>2. \A i \in 1..n : i # 1 => q[i - 1].kind = body[i - 1].kind
      <4> SUFFICES ASSUME NEW i \in 1..n, i # 1 PROVE q[i - 1].kind = body[i - 1].kind
        OBVIOUS
      <4>1. i - 1 \in 1..n
        BY <1>1
      <4> QED BY <1>4, <4>1
    <3>3. g(body) = g(q)
      BY <3>2
    <3>4. f = g(q)
      BY <3>1, <3>3
    <3> QED BY <1>5, <3>4 DEF Computes
  <2>2. \A i \in 1..n : f[i] # 0 => q[f[i]].kind \in Compound
    BY <1>1, <1>4, <1>6 DEF Tree, n
  <2>3. \A i \in 1..n : q[i].kind \in Closing => f[i] # 0
    BY <1>1, <1>4 DEF Tree, n
  <2> QED BY <1>1, <1>5, <1>6, <2>1, <2>2, <2>3 DEF Tree
<1>8. \A i \in 1..n : \A kinds : Enclosing(q, i, kinds) = Enclosing(body, i, kinds)
  <2> SUFFICES ASSUME NEW kinds PROVE \A i \in 1..n : Enclosing(body, i, kinds) = Enclosing(q, i, kinds)
    OBVIOUS
  <2>1. n <= Len(body) /\ n <= Len(q) /\ \A i \in 1..(n - 1) : i \in 1..n
    BY <1>1, <1>5 DEF n
  <2>2. \A i \in 1..(n - 1) : body[i].kind \in kinds <=> q[i].kind \in kinds
    BY <1>4, <2>1
  <2> QED BY <1>1, <1>7, <2>1, <2>2, SameEnclosing
<1>9. \A i \in 1..n : f[i] # 0 => q[f[i]].kind = body[f[i]].kind
  BY <1>4, <1>6
<1>10. /\ \A i \in 1..n : q[i].kind = "goto" => q[i].dest # i
       /\ \A i \in 1..n : q[i].kind = "break" => Enclosing(q, i, {"loop", "switch"}) # 0
       /\ \A i \in 1..n : q[i].kind = "continue" => Enclosing(q, i, {"loop"}) # 0
       /\ \A i \in 1..n : q[i].kind = "else" => f[i] # 0 /\ q[f[i]].kind = "if"
       /\ \A i \in 1..n : q[i].kind \in {"else", "end"} => q[i].label = "none"
  <2>1. /\ \A i \in 1..n : body[i].kind = "goto" => body[i].dest # i
        /\ \A i \in 1..n : body[i].kind = "break" => Enclosing(body, i, {"loop", "switch"}) # 0
        /\ \A i \in 1..n : body[i].kind = "continue" => Enclosing(body, i, {"loop"}) # 0
        /\ \A i \in 1..n : body[i].kind = "else" => f[i] # 0 /\ body[f[i]].kind = "if"
        /\ \A i \in 1..n : body[i].kind \in {"else", "end"} => body[i].label = "none"
    BY <1>1 DEF Written, n
  <2> QED BY <1>4, <1>8, <1>9, <2>1
<1>11. \A i \in 1..n : q[i].kind = "end" /\ q[f[i]].kind = "if" =>
           \E k \in 1..n : q[k].kind = "else" /\ f[k] = f[i]
  <2> SUFFICES ASSUME NEW i \in 1..n, q[i].kind = "end", q[f[i]].kind = "if"
               PROVE  \E k \in 1..n : q[k].kind = "else" /\ f[k] = f[i]
    OBVIOUS
  <2>1. body[i].kind = "end" /\ f[i] # 0
    BY <1>4, <1>7, <1>5 DEF Tree, Closing
  <2>2. body[f[i]].kind = "if"
    BY <1>9, <2>1
  <2>3. PICK k \in 1..n : body[k].kind = "else" /\ f[k] = f[i]
    BY <1>1, <2>1, <2>2 DEF Written, n
  <2> QED BY <1>4, <2>3
<1>12. Written(f, q)
  BY <1>5, <1>7, <1>10, <1>11 DEF Written
<1>13. Closed(f, q)
  <2>1. \A k \in 1..n : body[k].kind \in Compound => \E j \in 1..n : body[j].kind \in Closing /\ f[j] = k
    BY DEF Finished, Closed, Ends, n
  <2>2. \A k \in 1..n : q[k].kind \in Compound => \E j \in 1..n : q[j].kind \in Closing /\ f[j] = k
    BY <1>4, <2>1
  <2> QED BY <1>5, <2>2 DEF Closed, Ends
<1>14. \A i \in 1..n : q[i].kind = "goto" => IsStatement(q, q[i].dest)
  <2>1. \A i \in 1..n : body[i].kind = "goto" => IsStatement(body, body[i].dest)
    BY DEF Finished, n
  <2>2. \A i : IsStatement(body, i) => IsStatement(q, i)
    BY <1>1, <1>4, <1>5 DEF IsStatement
  <2> QED BY <1>4, <2>1, <2>2
<1>15. Finished(f, q)
  BY <1>5, <1>12, <1>13, <1>14 DEF Finished
<1>16. DOMAIN q = DOMAIN body
       /\ \A i \in DOMAIN body : /\ q[i].kind = body[i].kind /\ q[i].dest = body[i].dest
                                 /\ q[i].label = body[i].label
                                 /\ q[i].scale = IF i \in sites THEN Weights[i] ELSE body[i].scale
  BY <1>1, <1>4, <1>5
<1> QED BY <1>15, <1>16 DEF q

-----------------------------------------------------------------------------
(* Room *)

\* The cardinality of a set of items when one more is written.
LEMMA CountNext ==
    ASSUME NEW n \in Nat, NEW S \in SUBSET (1..n), NEW R \in SUBSET (1..(n + 1)),
           \A i \in 1..n : i \in R <=> i \in S
    PROVE  /\ Cardinality(S) \in Nat
           /\ Cardinality(R) = IF n + 1 \in R THEN Cardinality(S) + 1 ELSE Cardinality(S)
<1>1. IsFiniteSet(S)
  <2>1. IsFiniteSet(1..n)
    BY FS_Interval
  <2> QED BY <2>1, FS_Subset
<1>2. \A i : i \in 1..(n + 1) <=> i \in 1..n \/ i = n + 1
  OBVIOUS
<1>3. n + 1 \notin S
  OBVIOUS
<1>4. Cardinality(S) \in Nat /\ Cardinality(S \cup {n + 1}) = Cardinality(S) + 1
  BY <1>1, <1>3, FS_AddElement, FS_CardinalityType
<1>5. CASE n + 1 \in R
  <2> DEFINE a == n + 1
             U == 1..n
  <2>1. \A i : i \in R => i \in U \/ i = a
    BY <1>2
  <2>2. \A i : i \in S => i \in U
    OBVIOUS
  <2> HIDE DEF U, a
  <2>3. R = S \cup {a}
    BY <1>5, <2>1, <2>2 DEF a, U
  <2> QED BY <1>4, <1>5, <2>3 DEF a
<1>6. CASE n + 1 \notin R
  <2>1. R = S
    BY <1>2, <1>6
  <2> QED BY <1>4, <1>6, <2>1
<1> QED BY <1>5, <1>6

LEMMA RoomLeft ==
    ASSUME BodyInv, RoomInv, Size \in Nat
    PROVE  Len(body) \in Nat /\ Len(body) <= Size
<1> DEFINE C == {i \in DOMAIN body : body[i].kind \in Compound}
           E == {i \in DOMAIN body : body[i].kind = "end"}
           I == {i \in DOMAIN body : body[i].kind = "if" /\ ~HasElse(i)}
           h == [j \in E |-> Parent(body)[j]]
<1>1. Len(body) \in Nat /\ DOMAIN body = 1..Len(body)
  BY DEF BodyInv, Written, Tree
<1>2. IsFiniteSet(C) /\ IsFiniteSet(E) /\ h \in Injection(E, C)
  BY EndsOnce
<1>3. IsFiniteSet(I)
  <2>1. IsFiniteSet(1..Len(body))
    BY <1>1, FS_Interval
  <2> QED BY <1>1, <2>1, FS_Subset
<1>4. Room = Size - Len(body) - (Cardinality(C) - Cardinality(E)) - Cardinality(I) /\ Room \in Nat
  BY DEF RoomInv, Room, Open
<1> HIDE DEF C, E, I, h
<1>5. /\ Cardinality(C) \in Nat /\ Cardinality(E) \in Nat /\ Cardinality(I) \in Nat
      /\ Cardinality(E) <= Cardinality(C)
  BY <1>2, <1>3, FS_CardinalityType, FS_Injection
<1> QED BY <1>1, <1>4, <1>5

\* Writing keeps room for the ends and the elses that are missing.
LEMMA RoomStep ==
    ASSUME BodyInv, RoomInv, Size \in Nat, NEW x \in Items, Write(x), x.scale = NoSite,
           x.kind \in Closing => Within(Compound) # 0,
           x.kind \notin Compound \cup {"else", "end"} => Room > 0,
           x.kind \in Compound => Room > (IF x.kind = "if" THEN 2 ELSE 1),
           x.kind = "else" => /\ Within(Compound) # 0 /\ body[Within(Compound)].kind = "if"
                              /\ ~HasElse(Within(Compound))
    PROVE  RoomInv'
<1> DEFINE n == Len(body)
           f == Parent(body)
           v == NextParent(f, body)
           q == Append(body, x)
           C == {i \in DOMAIN body : body[i].kind \in Compound}
           E == {i \in DOMAIN body : body[i].kind = "end"}
           I == {i \in DOMAIN body : body[i].kind = "if" /\ ~HasElse(i)}
           Has(i) == \E k \in DOMAIN q : q[k].kind = "else" /\ Parent(q)[k] = i
           D == {i \in DOMAIN q : q[i].kind \in Compound}
           F == {i \in DOMAIN q : q[i].kind = "end"}
           J == {i \in DOMAIN q : q[i].kind = "if" /\ ~Has(i)}
<1>1. Written(f, body) /\ body \in Seq(Items) /\ Tree(f, body) /\ n \in Nat /\ DOMAIN body = 1..n
  BY DEF BodyInv, Written, Tree
<1>2. v = Within(Compound)
  <2>1. EmptyStmt \in Items /\ EmptyStmt.kind \notin Closing
    BY ItemType DEF EmptyStmt, Kinds, Closing
  <2> QED BY <2>1, WithinIs
<1>3. /\ q \in Seq(Items) /\ Len(q) = n + 1 /\ DOMAIN q = 1..(n + 1) /\ q[n + 1] = x
      /\ \A i \in 1..n : q[i] = body[i]
  BY <1>1, AppendProperties
<1>4. Parent(q) = Extended(f, body)
  <2>1. x.kind \in Closing => v # 0
    BY <1>2
  <2> QED BY <1>1, <2>1, AppendTree, ParentIs
<1>5. Parent(q)[n + 1] = v /\ \A i \in 1..n : Parent(q)[i] = f[i]
  BY <1>1, <1>4 DEF Extended
<1>6. v \in 0..n
  <2>1. \A i \in 1..n : f[i] \in 0..(i - 1)
    BY <1>1 DEF Tree
  <2>2. CASE n = 0
    BY <2>2 DEF NextParent
  <2>3. CASE n # 0
    <3>1. n \in 1..n
      BY <1>1, <2>3
    <3>2. body[n].kind \in Closing => f[n] \in 1..n
      BY <1>1, <2>1, <3>1 DEF Tree
    <3>3. f[n] \in 0..n /\ (f[n] \in 1..n => f[f[n]] \in 0..n)
      BY <1>1, <2>1, <3>1
    <3> QED BY <1>1, <2>3, <3>2, <3>3 DEF NextParent
  <2> QED BY <2>2, <2>3
<1>7. body' = q
  BY DEF Write
<1> HIDE DEF q, f, v, n
<1>8. \A i : HasElse(i) <=> \E k \in 1..n : body[k].kind = "else" /\ f[k] = i
  BY <1>1 DEF HasElse, f
<1>9. \A k : k \in 1..(n + 1) <=> k \in 1..n \/ k = n + 1
  BY <1>1
<1>10. \A i : Has(i) <=> HasElse(i) \/ (x.kind = "else" /\ i = v)
  BY <1>3, <1>5, <1>8, <1>9
<1>11. ~Has(n + 1)
  <2>1. n + 1 # v
    BY <1>1, <1>6
  <2>2. ~HasElse(n + 1)
    <3> SUFFICES ASSUME NEW k \in 1..n, f[k] = n + 1 PROVE FALSE
      BY <1>8
    <3>1. f[k] \in 0..(k - 1)
      BY <1>1 DEF Tree, n
    <3> QED BY <1>1, <3>1
  <2> QED BY <1>10, <2>1, <2>2
<1>12. /\ Room = Size - n - (Cardinality(C) - Cardinality(E)) - Cardinality(I) /\ Room \in Nat
       /\ Room' = Size - (n + 1) - (Cardinality(D) - Cardinality(F)) - Cardinality(J)
  <2>1. Room = Size - n - (Cardinality(C) - Cardinality(E)) - Cardinality(I) /\ Room \in Nat
    BY DEF RoomInv, Room, Open, n
  <2>2. \A i : HasElse(i)' <=> Has(i)
    BY <1>7 DEF HasElse
  <2>3. J = {i \in DOMAIN body' : body'[i].kind = "if" /\ ~HasElse(i)'}
    BY <1>7, <2>2
  <2>4. Room' = Size - Len(body') - (Cardinality(D) - Cardinality(F)) - Cardinality(J)
    <3> HIDE DEF J, Has
    <3> QED BY <1>7, <2>3 DEF Room, Open
  <2> QED BY <1>3, <1>7, <2>1, <2>4
<1>13. /\ C \in SUBSET (1..n) /\ E \in SUBSET (1..n) /\ I \in SUBSET (1..n)
       /\ D \in SUBSET (1..(n + 1)) /\ F \in SUBSET (1..(n + 1)) /\ J \in SUBSET (1..(n + 1))
  BY <1>1, <1>3
<1>14. /\ \A i \in 1..n : i \in D <=> i \in C
       /\ \A i \in 1..n : i \in F <=> i \in E
       /\ n + 1 \in D <=> x.kind \in Compound
       /\ n + 1 \in F <=> x.kind = "end"
       /\ n + 1 \in J <=> x.kind = "if"
  <2> HIDE DEF Has
  <2> QED BY <1>1, <1>3, <1>9, <1>11
<1>15. \A i \in 1..n : i \in J <=> i \in I /\ ~(x.kind = "else" /\ i = v)
  <2> HIDE DEF Has
  <2> QED BY <1>1, <1>3, <1>9, <1>10
<1>16. x.kind = "else" => v \in I
  <2> SUFFICES ASSUME x.kind = "else" PROVE v \in I
    OBVIOUS
  <2>1. v # 0 /\ body[v].kind = "if" /\ ~HasElse(v)
    BY <1>2
  <2>2. v \in 1..n
    BY <1>1, <1>6, <2>1
  <2> QED BY <1>1, <2>1, <2>2
<1> HIDE DEF C, E, I, D, F, J
<1>17. /\ Cardinality(C) \in Nat /\ Cardinality(E) \in Nat
       /\ Cardinality(D) = IF x.kind \in Compound THEN Cardinality(C) + 1 ELSE Cardinality(C)
       /\ Cardinality(F) = IF x.kind = "end" THEN Cardinality(E) + 1 ELSE Cardinality(E)
  BY <1>1, <1>13, <1>14, CountNext
<1>18. /\ Cardinality(I) \in Nat
       /\ Cardinality(J) = CASE x.kind = "if"   -> Cardinality(I) + 1
                             [] x.kind = "else" -> Cardinality(I) - 1
                             [] OTHER           -> Cardinality(I)
  <2>1. CASE x.kind # "else"
    BY <1>1, <1>13, <1>14, <1>15, <2>1, CountNext
  <2>2. CASE x.kind = "else"
    <3>1. J = I \ {v}
      BY <1>9, <1>13, <1>14, <1>15, <2>2
    <3>2. IsFiniteSet(I)
      <4>1. IsFiniteSet(1..n)
        BY <1>1, FS_Interval
      <4> QED BY <1>13, <4>1, FS_Subset
    <3> QED BY <1>16, <2>2, <3>1, <3>2, FS_RemoveElement, FS_CardinalityType
  <2> QED BY <2>1, <2>2
<1>19. Room' \in Nat
  <2>1. x.kind \in Compound => x.kind # "end" /\ x.kind # "else"
    BY DEF Compound
  <2>2. x.kind = "if" => x.kind \in Compound
    BY DEF Compound
  <2>3. CASE x.kind \in Compound
    BY <1>1, <1>12, <1>17, <1>18, <2>1, <2>3
  <2>4. CASE x.kind = "else"
    BY <1>1, <1>12, <1>17, <1>18, <2>1, <2>4
  <2>5. CASE x.kind = "end"
    BY <1>1, <1>12, <1>17, <1>18, <2>1, <2>5
  <2>6. CASE x.kind \notin Compound \cup {"else", "end"}
    BY <1>1, <1>12, <1>17, <1>18, <2>2, <2>6
  <2> QED BY <2>3, <2>4, <2>5, <2>6
<1>20. \A i \in DOMAIN body' : body'[i].scale = NoSite
  <2>1. \A i \in 1..n : body[i].scale = NoSite
    BY <1>1 DEF RoomInv
  <2> QED BY <1>3, <1>7, <1>9, <2>1
<1> QED BY <1>19, <1>20 DEF RoomInv

LEMMA InitRoom == Size \in Nat /\ Init => RoomInv
<1> SUFFICES ASSUME Size \in Nat, Init PROVE RoomInv
  OBVIOUS
<1>1. body = << >> /\ Len(body) = 0 /\ \A i : i \notin DOMAIN body
  BY EmptySeq DEF Init
<1>2. /\ {i \in DOMAIN body : body[i].kind \in Compound} = {}
      /\ {i \in DOMAIN body : body[i].kind = "end"} = {}
      /\ {i \in DOMAIN body : body[i].kind = "if" /\ ~HasElse(i)} = {}
  BY <1>1
<1>3. Cardinality({}) = 0
  BY FS_EmptySet
<1>4. Room = Size - 0 - (0 - 0) - 0
  BY <1>1, <1>2, <1>3 DEF Room, Open
<1>5. Room \in Nat
  BY <1>4
<1> QED BY <1>1, <1>5 DEF RoomInv

LEMMA NextRoom == Size \in Nat /\ BodyInv /\ RoomInv /\ [Next]_body => RoomInv'
<1> SUFFICES ASSUME Size \in Nat, BodyInv, RoomInv, [Next]_body PROVE RoomInv'
  OBVIOUS
<1>1. CASE Next
  <2>1. PICK x : Fits(x) /\ Write(x)
    BY <1>1, NextWrites
  <2> QED BY <2>1, RoomStep DEF Fits
<1>2. CASE UNCHANGED body
  BY <1>2 DEF RoomInv, Room, Open, HasElse
<1> QED BY <1>1, <1>2

\* What the weigher is given meets its needs.
LEMMA FlowIsForward ==
    ASSUME NEW p, NEW f, Finished(f, p), NEW q, q = RemoveLoops(p),
           \A i \in DOMAIN p : p[i].scale = NoSite \/ p[i].scale \in Nat
    PROVE  Forward(Statements(q), Flow(q), Len(p))
<1> DEFINE n == Len(p)
           g == Flow(q)
           nodes == Statements(q)
<1>1. n \in Nat /\ DOMAIN p = 1..n
  BY DEF Finished, Written, Tree
<1>2. DOMAIN q = 1..n /\ \A i \in 1..n : q[i].scale = p[i].scale
  BY JumpsReplace DEF Replaces
<1>3. nodes \in SUBSET (1..n)
  BY <1>2 DEF Statements
<1>4. /\ g.succ = build(q) /\ g.headers = Headers(q)
      /\ g.scale = [i \in {j \in nodes : q[j].scale # NoSite} |-> q[i].scale]
  BY DEF Flow
<1>5. \A i \in nodes : \A s \in build(q)[i] : s \in nodes /\ (i \notin Backward(q) => s > i)
  <2> HIDE DEF nodes
  <2> SUFFICES ASSUME NEW i \in nodes, NEW s \in build(q)[i]
               PROVE  s \in nodes /\ (i \notin Backward(q) => s > i)
    OBVIOUS
  <2> QED BY LinksForward DEF nodes
<1>6. \A i : i \notin Headers(q) => i \notin Backward(q)
  BY DEF Headers
<1> HIDE DEF nodes, g, n
<1>7. DOMAIN g.scale \subseteq nodes /\ \A i \in DOMAIN g.scale : g.scale[i] \in Nat
  <2>1. \A i \in nodes : q[i].scale = NoSite \/ q[i].scale \in Nat
    BY <1>1, <1>2, <1>3
  <2>2. DOMAIN g.scale = {j \in nodes : q[j].scale # NoSite}
    BY <1>4
  <2>3. \A i \in DOMAIN g.scale : g.scale[i] = q[i].scale
    BY <1>4
  <2> QED BY <2>1, <2>2, <2>3
<1>8. /\ \A i \in nodes : g.succ[i] \in SUBSET nodes
      /\ \A i \in nodes \ g.headers : \A s \in g.succ[i] : s > i
  BY <1>4, <1>5, <1>6
<1>9. Forward(nodes, g, n)
  BY <1>1, <1>3, <1>7, <1>8 DEF Forward
<1> QED BY <1>9 DEF nodes, g, n

\* Wherever the sites are, they are what the flow has scales for.
LEMMA SitedFlow ==
    ASSUME BodyInv, RoomInv, Complete, NEW sites \in MaybeSites,
           Size \in Nat, \A i \in 1..Size : Weights[i] \in Nat
    PROVE  LET g == Flow(RemoveLoops(Sited(sites)))
           IN  /\ Len(body) \in Nat
               /\ Forward(Statements(RemoveLoops(Sited(sites))), g, Len(body))
               /\ DOMAIN g.scale = sites /\ \A i \in sites : g.scale[i] = Weights[i]
               /\ sites \in SUBSET (1..Len(body)) /\ \A i \in sites : Weights[i] \in Nat
<1> DEFINE f == Parent(body)
           p == Sited(sites)
           q == RemoveLoops(p)
           nodes == Statements(q)
           g == Flow(q)
           n == Len(body)
<1>1. Finished(f, body) /\ n \in Nat /\ DOMAIN body = 1..n
  BY CompleteIsFinished DEF Finished, Written, Tree
<1>2. n <= Size /\ Size \in Nat
  BY RoomLeft
<1>3. /\ sites \in SUBSET (1..n) /\ \A i \in sites : Weights[i] \in Nat /\ body[i].kind = "instr"
      /\ \A i \in 1..n : body[i].scale = NoSite
  <2>1. sites \in SUBSET (1..n) /\ \A i \in sites : body[i].kind = "instr"
    BY <1>1 DEF MaybeSites
  <2>2. \A i \in 1..n : i \in 1..Size
    BY <1>1, <1>2
  <2> QED BY <1>1, <2>1, <2>2 DEF RoomInv
<1> HIDE DEF f, n
<1>4. /\ Finished(f, p) /\ DOMAIN p = 1..n
      /\ \A i \in 1..n : /\ p[i].kind = body[i].kind
                         /\ p[i].scale = IF i \in sites THEN Weights[i] ELSE body[i].scale
  <2>1. sites \in SUBSET DOMAIN body /\ \A i \in sites : Weights[i] \in Int
    BY <1>1, <1>3
  <2> HIDE DEF p
  <2> QED BY <1>1, <2>1, SitedFinished DEF p
<1> HIDE DEF p
<1>5. Len(p) = n
  <2>1. p \in Seq(Items)
    BY <1>4 DEF Finished, Written
  <2> QED BY <1>1, <1>4, <2>1, LengthIs
<1>6. DOMAIN q = 1..n /\ \A i \in 1..n : Replaces(f, p, i, q[i])
  BY <1>4, <1>5, JumpsReplace
<1>7. Statements(p) \subseteq Statements(q)
  BY <1>4, StatementsKept
<1>8. Forward(nodes, g, n)
  <2>1. \A i \in DOMAIN p : p[i].scale = NoSite \/ p[i].scale \in Nat
    BY <1>3, <1>4
  <2> QED BY <1>4, <1>5, <2>1, FlowIsForward
<1>9. DOMAIN g.scale = sites /\ \A i \in sites : g.scale[i] = Weights[i]
  <2>1. \A i \in 1..n : q[i].scale = IF i \in sites THEN Weights[i] ELSE NoSite
    BY <1>3, <1>4, <1>6 DEF Replaces
  <2>2. \A i \in sites : i \in nodes /\ i \in 1..n
    BY <1>3, <1>4, <1>7 DEF Statements, IsStatement
  <2>3. nodes \in SUBSET (1..n)
    BY <1>6 DEF Statements
  <2>4. g.scale = [i \in {j \in nodes : q[j].scale # NoSite} |-> q[i].scale]
    BY DEF Flow
  <2> HIDE DEF nodes, g, q
  <2>5. \A i \in nodes : q[i].scale # NoSite <=> i \in sites
    BY <1>3, <2>1, <2>3 DEF NoSite
  <2>6. {j \in nodes : q[j].scale # NoSite} = sites
    BY <2>2, <2>5
  <2>7. g.scale = [i \in sites |-> q[i].scale]
    BY <2>4, <2>6
  <2> QED BY <2>1, <2>2, <2>7
<1> QED BY <1>1, <1>3, <1>8, <1>9 DEF n, p, q, nodes, g

\* The weight of every statement of any body, whatever its sites and their
\* scales, is that of the heaviest path to the next header, in predicates and
\* in sites: the threshold check that it feeds neither lets a region run with
\* too small a countdown nor sends it to the slow clone for nothing.
THEOREM Weighing == Spec => []WeightIsTight
<1> USE WeightsAssumption
<1>1. BodyInv /\ RoomInv => WeightIsTight
  <2> SUFFICES ASSUME BodyInv, RoomInv, Complete, NEW sites \in MaybeSites
               PROVE  LET jumps == RemoveLoops(Sited(sites))
                          nodes == Statements(jumps)
                          g == Flow(jumps)
                          weight == weigh(nodes, g)
                      IN  \A n \in nodes :
                          LET totals == {[threshold |-> Total(g, {n} \cup path),
                                          count |-> Cardinality(({n} \cup path) \cap sites)] :
                                         path \in PathsFrom(nodes, g, n)}
                          IN  /\ weight[n].threshold = Max({t.threshold : t \in totals})
                              /\ weight[n].count = Max({t.count : t \in totals})
    BY DEF WeightIsTight
  <2> DEFINE p == Sited(sites)
             q == RemoveLoops(p)
             nodes == Statements(q)
             g == Flow(q)
             weight == weigh(nodes, g)
             n == Len(body)
  <2>1. /\ n \in Nat /\ Forward(nodes, g, n)
        /\ DOMAIN g.scale = sites /\ \A i \in sites : g.scale[i] = Weights[i]
        /\ sites \in SUBSET (1..n) /\ \A i \in sites : Weights[i] \in Nat
    BY SitedFlow
  <2> HIDE DEF p, q, nodes, g, n
  <2> DEFINE w == [i \in 1..n |-> IF i \in sites THEN Weights[i] ELSE 0]
  <2>10. \A i \in 1..n : w[i] \in Nat /\ w[i] = IF i \in sites THEN Weights[i] ELSE 0
    BY <2>1
  <2> HIDE DEF w
  <2>11. PICK F : IsSum(F, 1..n, w)
    BY <2>1, <2>10, SumExists
  <2>12. nodes \in SUBSET (1..n)
    BY <2>1 DEF Forward
  <2> DEFINE T == [s \in SUBSET nodes |-> F[s \cap sites]]
             K == [s \in SUBSET nodes |-> Cardinality(s \cap sites)]
             u == [i \in nodes |-> SelfWeight(g, i).threshold]
             c == [i \in nodes |-> SelfWeight(g, i).count]
             V == [i \in nodes |-> weight[i].threshold]
             W == [i \in nodes |-> weight[i].count]
  <2>13. \A i \in nodes : /\ u[i] = w[i] /\ u[i] \in Nat
                          /\ c[i] = IF i \in sites THEN 1 ELSE 0
    <3> SUFFICES ASSUME NEW i \in nodes
                 PROVE  u[i] = w[i] /\ u[i] \in Nat /\ c[i] = IF i \in sites THEN 1 ELSE 0
      OBVIOUS
    <3>1. u[i] = SelfWeight(g, i).threshold /\ c[i] = SelfWeight(g, i).count
      OBVIOUS
    <3>2. i \in 1..n
      BY <2>1, <2>12
    <3> HIDE DEF u, c
    <3> QED BY <2>1, <2>10, <3>1, <3>2 DEF SelfWeight, weightless
  <2>14. \A s \in SUBSET nodes : T[s] = F[s \cap sites] /\ K[s] = Cardinality(s \cap sites)
    OBVIOUS
  <2>15. \A s \in SUBSET nodes : s \cap sites \in SUBSET (1..n) /\ IsFiniteSet(s \cap sites)
    <3>1. IsFiniteSet(1..n)
      BY <2>1, FS_Interval
    <3>2. \A s \in SUBSET nodes : s \cap sites \in SUBSET (1..n)
      BY <2>1, <2>12
    <3> QED BY <3>1, <3>2, FS_Subset
  <2>16. {} \in SUBSET nodes /\ {} \cap sites = {}
    OBVIOUS
  <2> HIDE DEF T, K, u, c
  <2>17. Adds(T, u, nodes)
    <3>1. T[{}] = 0
      BY <2>1, <2>11, <2>14, <2>16 DEF IsSum
    <3>2. \A s \in SUBSET nodes : T[s] \in Nat
      BY <2>1, <2>11, <2>14, <2>15 DEF IsSum
    <3>3. ASSUME NEW s \in SUBSET nodes, NEW x \in nodes \ s
          PROVE  T[{x} \cup s] = u[x] + T[s]
      <4> DEFINE r == {x} \cup s
                 a == r \cap sites
                 b == s \cap sites
      <4>1. r \in SUBSET nodes /\ T[r] = F[a] /\ T[s] = F[b] /\ a \in SUBSET (1..n)
        BY <2>1, <2>14, <2>15
      <4>2. CASE x \in sites
        <5>1. x \in a /\ a \ {x} = b
          BY <3>3, <4>2
        <5> HIDE DEF a, b, r
        <5>2. F[a] = w[x] + F[b]
          BY <2>1, <2>11, <4>1, <5>1 DEF IsSum
        <5> QED BY <2>1, <2>13, <3>3, <4>1, <5>2 DEF r
      <4>3. CASE x \notin sites
        <5>1. a = b
          BY <4>3
        <5>2. w[x] = 0 /\ u[x] = 0
          BY <2>1, <2>10, <2>12, <2>13, <3>3, <4>3
        <5>3. T[s] \in Nat
          BY <3>2
        <5> HIDE DEF a, b, r
        <5>4. T[r] = u[x] + T[s]
          BY <4>1, <5>1, <5>2, <5>3
        <5> QED BY <5>4 DEF r
      <4> QED BY <4>2, <4>3
    <3> QED BY <3>1, <3>2, <3>3 DEF Adds
  <2>18. Adds(K, c, nodes)
    <3>1. K[{}] = 0
      BY <2>1, <2>14, <2>16, FS_EmptySet
    <3>2. \A s \in SUBSET nodes : K[s] \in Nat
      BY <2>1, <2>14, <2>15, FS_CardinalityType
    <3>3. ASSUME NEW s \in SUBSET nodes, NEW x \in nodes \ s
          PROVE  K[{x} \cup s] = c[x] + K[s]
      <4> DEFINE r == {x} \cup s
                 a == r \cap sites
                 b == s \cap sites
      <4>1. r \in SUBSET nodes /\ K[r] = Cardinality(a) /\ K[s] = Cardinality(b)
            /\ IsFiniteSet(b) /\ K[s] \in Nat
        BY <2>1, <2>14, <2>15, <3>2
      <4>2. CASE x \in sites
        <5>1. a = b \cup {x} /\ x \notin b
          BY <3>3, <4>2
        <5>2. c[x] = 1
          BY <2>1, <2>13, <3>3, <4>2
        <5> HIDE DEF a, b, r
        <5>3. Cardinality(a) = Cardinality(b) + 1
          BY <4>1, <5>1, FS_AddElement
        <5>4. K[r] = c[x] + K[s]
          BY <4>1, <5>2, <5>3
        <5> QED BY <5>4 DEF r
      <4>3. CASE x \notin sites
        <5>1. a = b
          BY <4>3
        <5>2. c[x] = 0
          BY <2>1, <2>13, <3>3, <4>3
        <5> HIDE DEF a, b, r
        <5>3. K[r] = c[x] + K[s]
          BY <4>1, <5>1, <5>2
        <5> QED BY <5>3 DEF r
      <4> QED BY <4>2, <4>3
    <3> QED BY <3>1, <3>2, <3>3 DEF Adds
  <2>19. Bounds(V, u, nodes, g) /\ Bounds(W, c, nodes, g)
    BY <2>1, WeighBounds DEF u, c
  <2>20. \A i \in nodes : V[i] = weight[i].threshold /\ W[i] = weight[i].count
    OBVIOUS
  <2> HIDE DEF V, W, weight
  <2>21. ASSUME NEW i \in nodes
         PROVE  LET totals == {[threshold |-> Total(g, {i} \cup path),
                                count |-> Cardinality(({i} \cup path) \cap sites)] :
                               path \in PathsFrom(nodes, g, i)}
                IN  /\ weight[i].threshold = Max({t.threshold : t \in totals})
                    /\ weight[i].count = Max({t.count : t \in totals})
    <3> DEFINE P == PathsFrom(nodes, g, i)
               threshold == [path \in P |-> Total(g, {i} \cup path)]
               count == [path \in P |-> Cardinality(({i} \cup path) \cap sites)]
               totals == {[threshold |-> Total(g, {i} \cup path),
                           count |-> Cardinality(({i} \cup path) \cap sites)] : path \in P}
               A == [path \in P |-> T[{i} \cup path]]
               B == [path \in P |-> K[{i} \cup path]]
    <3>1. \A path \in P : {i} \cup path \in SUBSET nodes
      BY DEF PathsFrom
    <3>2. \A s \in SUBSET nodes : Total(g, s) = T[s]
      <4> SUFFICES ASSUME NEW s \in SUBSET nodes PROVE Total(g, s) = T[s]
        OBVIOUS
      <4> DEFINE S == s \cap sites
      <4>1. Sites(g, w, s, S)
        BY <2>1, <2>10, <2>15 DEF Sites
      <4>2. S \in SUBSET (1..n)
        BY <2>1, <2>15
      <4>3. T[s] = F[S]
        BY <2>1, <2>14
      <4> HIDE DEF S
      <4>4. Total(g, s) = F[S]
        BY <2>1, <2>11, <4>1, <4>2, TotalIs
      <4> QED BY <4>3, <4>4
    <3> HIDE DEF P
    <3>3. \A path \in P : /\ threshold[path] = A[path] /\ A[path] \in Nat
                          /\ count[path] = B[path] /\ B[path] \in Nat
                          /\ A[path] = T[{i} \cup path] /\ B[path] = K[{i} \cup path]
      BY <2>1, <2>14, <2>17, <2>18, <3>1, <3>2 DEF Adds
    <3>4. /\ \A path \in P : T[{i} \cup path] <= V[i]
          /\ \E path \in P : T[{i} \cup path] = V[i]
      BY <2>1, <2>17, <2>19, Tight DEF P
    <3>5. /\ \A path \in P : K[{i} \cup path] <= W[i]
          /\ \E path \in P : K[{i} \cup path] = W[i]
      BY <2>1, <2>18, <2>19, Tight DEF P
    <3> DEFINE both(path) == [threshold |-> Total(g, {i} \cup path),
                              count |-> Cardinality(({i} \cup path) \cap sites)]
    <3>11. \A path \in P : both(path).threshold = threshold[path] /\ both(path).count = count[path]
      OBVIOUS
    <3>12. totals = {both(path) : path \in P}
      OBVIOUS
    <3> HIDE DEF A, B, threshold, count, totals, both
    <3>6. {r.threshold : r \in totals} = {threshold[path] : path \in P}
      BY <3>11, <3>12
    <3>7. {r.count : r \in totals} = {count[path] : path \in P}
      BY <3>11, <3>12
    <3>8. Max({threshold[path] : path \in P}) = V[i]
      <4> DEFINE v == V[i]
      <4>1. /\ \A path \in P : A[path] <= v
            /\ \E path \in P : A[path] = v
        BY <3>3, <3>4
      <4> DEFINE R == {threshold[path] : path \in P}
      <4> HIDE DEF v
      <4>2. R \in SUBSET Nat /\ v \in R /\ \A y \in R : y <= v
        BY <3>3, <4>1
      <4> HIDE DEF R
      <4>3. Max(R) = v
        BY <4>2, MaxOf
      <4> QED BY <4>3 DEF v, R
    <3>9. Max({count[path] : path \in P}) = W[i]
      <4> DEFINE v == W[i]
      <4>1. /\ \A path \in P : B[path] <= v
            /\ \E path \in P : B[path] = v
        BY <3>3, <3>5
      <4> DEFINE R == {count[path] : path \in P}
      <4> HIDE DEF v
      <4>2. R \in SUBSET Nat /\ v \in R /\ \A y \in R : y <= v
        BY <3>3, <4>1
      <4> HIDE DEF R
      <4>3. Max(R) = v
        BY <4>2, MaxOf
      <4> QED BY <4>3 DEF v, R
    <3>10. /\ weight[i].threshold = Max({t.threshold : t \in totals})
           /\ weight[i].count = Max({t.count : t \in totals})
      BY <2>20, <3>6, <3>7, <3>8, <3>9
    <3> QED BY <3>10 DEF totals, P
  <2> QED BY <2>21 DEF p, q, nodes, g, weight
<1>2. Init => BodyInv /\ RoomInv
  BY InitBody, InitRoom
<1>3. BodyInv /\ RoomInv /\ [Next]_body => BodyInv' /\ RoomInv'
  BY NextBody, NextRoom
<1> QED BY <1>1, <1>2, <1>3, PTL DEF Spec

\* weighPaths provides, for any body and any sites, what the transformed code
\* is shown to rely on: FastPathSafe and the refinement assume it of Weight.
THEOREM Coverage ==
    Spec => [](Complete => \A sites \in MaybeSites :
                  LET jumps == RemoveLoops(Sited(sites))
                      nodes == Statements(jumps)
                  IN  Covers(nodes, Flow(jumps), weigh(nodes, Flow(jumps))))
<1> DEFINE Covered == Complete => \A sites \in MaybeSites :
                          LET jumps == RemoveLoops(Sited(sites))
                              nodes == Statements(jumps)
                          IN  Covers(nodes, Flow(jumps), weigh(nodes, Flow(jumps)))
<1>1. BodyInv /\ RoomInv => Covered
  <2> SUFFICES ASSUME BodyInv, RoomInv, Complete, NEW sites \in MaybeSites
               PROVE  LET jumps == RemoveLoops(Sited(sites))
                          nodes == Statements(jumps)
                      IN  Covers(nodes, Flow(jumps), weigh(nodes, Flow(jumps)))
    OBVIOUS
  <2> DEFINE nodes == Statements(RemoveLoops(Sited(sites)))
             g == Flow(RemoveLoops(Sited(sites)))
             weight == weigh(nodes, g)
             n == Len(body)
             V == [i \in nodes |-> weight[i].threshold]
             W == [i \in nodes |-> weight[i].count]
             u == [i \in nodes |-> SelfWeight(g, i).threshold]
             c == [i \in nodes |-> SelfWeight(g, i).count]
  <2>1. Forward(nodes, g, n)
    BY WeightsAssumption, SitedFlow
  <2> HIDE DEF nodes, g, n
  <2>2. /\ \A i \in nodes : weight[i] \in [threshold : Nat, count : Nat]
        /\ Bounds(V, u, nodes, g) /\ Bounds(W, c, nodes, g)
    BY <2>1, WeighBounds
  <2>3. \A i \in nodes : /\ V[i] = weight[i].threshold /\ W[i] = weight[i].count
                         /\ u[i] = SelfWeight(g, i).threshold /\ c[i] = SelfWeight(g, i).count
    OBVIOUS
  <2>4. \A i \in nodes : \A s \in g.succ[i] : s \in nodes
    BY <2>1 DEF Forward
  <2> HIDE DEF V, W, u, c, weight
  <2>5. ASSUME NEW i \in nodes
        PROVE  LET self == SelfWeight(g, i)
                   Rest(s) == IF s \in g.headers THEN weightless ELSE weight[s]
               IN  /\ weight[i].threshold >= self.threshold /\ weight[i].count >= self.count
                   /\ \A s \in g.succ[i] : /\ weight[i].threshold >= self.threshold + Rest(s).threshold
                                           /\ weight[i].count >= self.count + Rest(s).count
    <3> DEFINE self == SelfWeight(g, i)
    <3>1. /\ V[i] >= u[i] /\ W[i] >= c[i] /\ u[i] \in Nat /\ c[i] \in Nat
          /\ V[i] = weight[i].threshold /\ W[i] = weight[i].count
          /\ u[i] = self.threshold /\ c[i] = self.count
      BY <2>2, <2>3 DEF Bounds
    <3>2. ASSUME NEW s \in g.succ[i] \ g.headers
          PROVE  /\ weight[i].threshold >= self.threshold + weight[s].threshold
                 /\ weight[i].count >= self.count + weight[s].count
      <4>1. V[i] >= u[i] + V[s] /\ W[i] >= c[i] + W[s]
        BY <2>2 DEF Bounds
      <4>2. V[s] = weight[s].threshold /\ W[s] = weight[s].count
        BY <2>3, <2>4
      <4> QED BY <3>1, <4>1, <4>2
    <3>3. weightless.threshold = 0 /\ weightless.count = 0
      BY DEF weightless
    <3> HIDE DEF self
    <3>4. self.threshold + 0 = self.threshold /\ self.count + 0 = self.count
      BY <3>1
    <3>5. /\ weight[i].threshold >= self.threshold /\ weight[i].count >= self.count
      BY <3>1
    <3> QED BY <3>2, <3>3, <3>4, <3>5 DEF self
  <2>6. Covers(nodes, g, weight)
    BY <2>2, <2>5 DEF Covers
  <2> QED BY <2>6 DEF nodes, g, weight
<1>2. Init => BodyInv /\ RoomInv
  BY WeightsAssumption, InitBody, InitRoom
<1>3. BodyInv /\ RoomInv /\ [Next]_body => BodyInv' /\ RoomInv'
  BY WeightsAssumption, NextBody, NextRoom
<1> HIDE DEF Covered
<1>4. Spec => []Covered
  BY <1>1, <1>2, <1>3, PTL DEF Spec
<1> QED BY <1>4 DEF Covered

-----------------------------------------------------------------------------
(* Pieces put one behind the other *)

LEMMA SumIsOffset ==
    ASSUME NEW n \in Nat, NEW w, \A i \in 1..n : w[i] \in Nat,
           NEW s, \A i \in 1..(n + 1) : s[i] = (CHOOSE h : Folds(h, 1..(i - 1), w))[1..(i - 1)]
    PROVE  Offsets(s, n, w)
<1>1. PICK F : IsSum(F, 1..n, w)
  BY SumExists
<1>2. ASSUME NEW i \in 1..(n + 1) PROVE s[i] = F[1..(i - 1)] /\ 1..(i - 1) \in SUBSET (1..n)
  <2>1. 1..(i - 1) \in SUBSET (1..n)
    BY <1>2
  <2> DEFINE S == 1..(i - 1)
  <2>2. s[i] = (CHOOSE h : Folds(h, S, w))[S]
    OBVIOUS
  <2>3. S \in SUBSET (1..n) /\ \A x \in S : w[x] = w[x]
    BY <2>1
  <2> HIDE DEF S
  <2>4. (CHOOSE h : Folds(h, S, w))[S] = F[S]
    BY <1>1, <2>3, FoldIs
  <2> QED BY <2>2, <2>3, <2>4 DEF S
<1>3. \A i \in 1..(n + 1) : s[i] \in Nat
  BY <1>1, <1>2 DEF IsSum
<1>4. s[1] = 0
  <2>1. 1 \in 1..(n + 1) /\ 1..(1 - 1) = {}
    OBVIOUS
  <2> QED BY <1>1, <1>2, <2>1 DEF IsSum
<1>5. ASSUME NEW i \in 1..n PROVE s[i + 1] = s[i] + w[i]
  <2>0. i \in Nat /\ 1 <= i /\ i <= n
    OBVIOUS
  <2>1. i \in 1..(n + 1) /\ i + 1 \in 1..(n + 1) /\ (i + 1) - 1 = i /\ i \in 1..i
    BY <2>0
  <2>5. (1..i) \ {i} = 1..(i - 1)
    OBVIOUS
  <2>2. s[i + 1] = F[1..i] /\ 1..i \in SUBSET (1..n) /\ s[i] = F[1..(i - 1)]
    BY <1>2, <2>1
  <2>3. F[1..i] = w[i] + F[(1..i) \ {i}]
    BY <1>1, <2>1, <2>2 DEF IsSum
  <2>4. s[i] \in Nat /\ w[i] \in Nat
    BY <1>3, <2>1
  <2>6. F[(1..i) \ {i}] = F[1..(i - 1)]
    BY <2>5
  <2> QED BY <2>2, <2>3, <2>4, <2>6
<1> QED BY <1>3, <1>4, <1>5 DEF Offsets

\* The sequence of the pieces has each item of each piece at its offset.
LEMMA FlattenIs ==
    ASSUME NEW n \in Nat, NEW V, NEW seqs, NEW s, NEW w, Pieces(seqs, n, V, w), Offsets(s, n, w)
    PROVE  /\ FlattenSeq(seqs) \in Seq(V)
           /\ Len(FlattenSeq(seqs)) = s[n + 1]
           /\ \A i \in 1..n : \A k \in 1..Len(seqs[i]) : FlattenSeq(seqs)[s[i] + k] = seqs[i][k]
<1>0. seqs \in [1..n -> Seq(V)] /\ \A i \in 1..n : w[i] = Len(seqs[i])
  BY DEF Pieces
<1>1. seqs \in Seq(Seq(V)) /\ Len(seqs) = n
  BY <1>0
<1>2. /\ s[1] = 0
      /\ \A i \in 1..(n + 1) : s[i] \in Nat
      /\ \A i \in 1..n : s[i + 1] = s[i] + Len(seqs[i]) /\ Len(seqs[i]) \in Nat /\ seqs[i] \in Seq(V)
  <2>1. \A i \in 1..n : Len(seqs[i]) \in Nat /\ seqs[i] \in Seq(V)
    BY <1>0, LenProperties
  <2> QED BY <1>0, <2>1 DEF Offsets
<1>3. CASE n = 0
  <2>1. FlattenSeq(seqs) = seqs /\ seqs = <<>>
    BY <1>1, <1>3 DEF FlattenSeq
  <2> QED BY <1>2, <1>3, <2>1
<1>4. CASE n # 0
  <2> DEFINE Step(h) == h = [i \in 1..n |-> IF i = 1 THEN seqs[i] ELSE h[i - 1] \o seqs[i]]
             stop == [j \in 0..n |-> j <= 1]
             up == [j \in 0..n |-> j - 1]
             flatten == CHOOSE h : Step(h)
  <2>1. FlattenSeq(seqs) = flatten[n]
    BY <1>1, <1>4 DEF FlattenSeq
  <2>2. Step(flatten)
    <3> SUFFICES \E h : Step(h)
      OBVIOUS
    <3> DEFINE T == {m \in 1..n : ~\E h : h = [i \in 1..m |-> IF i = 1 THEN seqs[i] ELSE h[i - 1] \o seqs[i]]}
    <3>1. T = {}
      <4> SUFFICES ASSUME T # {} PROVE FALSE
        OBVIOUS
      <4>1. PICK m \in T : \A y \in T : m <= y
        <5>1. \A m \in T : m \in 1..n
          OBVIOUS
        <5> HIDE DEF T
        <5>2. T \in SUBSET Nat
          BY <5>1
        <5> QED BY <5>2, LeastNumber
      <4>2. m \in 1..n /\ ~\E h : h = [i \in 1..m |-> IF i = 1 THEN seqs[i] ELSE h[i - 1] \o seqs[i]]
        OBVIOUS
      <4>3. PICK g : m # 1 => g = [i \in 1..(m - 1) |-> IF i = 1 THEN seqs[i] ELSE g[i - 1] \o seqs[i]]
        <5>1. CASE m # 1
          <6>1. m - 1 \in 1..n /\ ~(m <= m - 1)
            BY <4>2, <5>1
          <6>2. m - 1 \notin T
            <7> HIDE DEF T
            <7> QED BY <4>1, <6>1
          <6> QED BY <6>1, <6>2
        <5> QED BY <5>1
      <4> HIDE DEF T
      <4> DEFINE h == [i \in 1..m |-> IF i = 1 THEN seqs[1]
                                      ELSE IF i = m THEN g[m - 1] \o seqs[m] ELSE g[i]]
      <4>4. ASSUME NEW i \in 1..m PROVE h[i] = IF i = 1 THEN seqs[i] ELSE h[i - 1] \o seqs[i]
        <5>1. CASE i = 1
          BY <5>1
        <5>2. CASE i # 1
          <6>1. i - 1 \in 1..m /\ i - 1 \in 1..(m - 1) /\ m # 1 /\ i - 1 # m
            BY <4>2, <5>2
          <6>2. h[i - 1] = g[i - 1]
            <7>1. 1 \in 1..(m - 1)
              BY <4>2, <6>1
            <7>2. g[1] = seqs[1]
              BY <4>3, <6>1, <7>1
            <7> QED BY <6>1, <7>2
          <6>3. h[i] = g[i - 1] \o seqs[i]
            <7>1. CASE i = m
              BY <5>2, <7>1
            <7>2. CASE i # m
              <8>1. i \in 1..(m - 1)
                BY <4>2, <7>2
              <8> QED BY <4>3, <5>2, <6>1, <7>2, <8>1
            <7> QED BY <7>1, <7>2
          <6> QED BY <5>2, <6>2, <6>3
        <5> QED BY <5>1, <5>2
      <4>5. h = [i \in 1..m |-> h[i]]
        OBVIOUS
      <4> HIDE DEF h
      <4>6. h = [i \in 1..m |-> IF i = 1 THEN seqs[i] ELSE h[i - 1] \o seqs[i]]
        BY <4>4, <4>5
      <4> QED BY <4>2, <4>6
    <3>2. n \in 1..n
      BY <1>4
    <3> QED BY <3>1, <3>2
  <2> HIDE DEF flatten
  <2>3. \A i \in 1..n : flatten[i] = IF i = 1 THEN seqs[i] ELSE flatten[i - 1] \o seqs[i]
    BY <2>2
  <2> HIDE DEF Step
  <2> DEFINE Fine(m) == /\ flatten[m] \in Seq(V)
                        /\ Len(flatten[m]) = s[m + 1]
                        /\ \A i \in 1..m : \A k \in 1..Len(seqs[i]) : flatten[m][s[i] + k] = seqs[i][k]
             T == {m \in 1..n : ~Fine(m)}
  <2>4. \A m \in 1..n : \A i \in 1..m : s[i + 1] <= s[m + 1]
    <3> DEFINE U == {m \in 1..n : ~\A i \in 1..m : s[i + 1] <= s[m + 1]}
    <3> SUFFICES ASSUME U # {} PROVE FALSE
      OBVIOUS
    <3>1. PICK m \in U : \A y \in U : m <= y
      <4>1. U \in SUBSET Nat
        OBVIOUS
      <4> HIDE DEF U
      <4> QED BY <4>1, LeastNumber
    <3>2. PICK i \in 1..m : ~(s[i + 1] <= s[m + 1])
      OBVIOUS
    <3>3. m \in 1..n /\ s[m + 1] = s[m] + Len(seqs[m]) /\ s[m] \in Nat /\ Len(seqs[m]) \in Nat
      BY <1>2
    <3>4. i # m /\ m - 1 \in 1..n /\ i \in 1..(m - 1)
      BY <3>2, <3>3
    <3>5. m - 1 \notin U
      <4>1. ~(m <= m - 1)
        BY <3>3
      <4> HIDE DEF U
      <4> QED BY <3>1, <4>1
    <3>6. s[i + 1] <= s[m]
      BY <3>3, <3>4, <3>5
    <3>7. s[i + 1] \in Nat
      BY <1>2, <3>3, <3>4
    <3> QED BY <3>2, <3>3, <3>6, <3>7
  <2>5. T = {}
    <3> SUFFICES ASSUME T # {} PROVE FALSE
      OBVIOUS
    <3>1. PICK m \in T : \A y \in T : m <= y
      <4>1. T \in SUBSET Nat
        OBVIOUS
      <4> HIDE DEF T
      <4> QED BY <4>1, LeastNumber
    <3>2. m \in 1..n /\ ~Fine(m)
      OBVIOUS
    <3>3. m \in Nat /\ s[m + 1] = s[m] + Len(seqs[m]) /\ s[m] \in Nat /\ Len(seqs[m]) \in Nat /\ seqs[m] \in Seq(V)
      <4> HIDE DEF T, Fine
      <4> QED BY <1>2, <3>2
    <3>4. CASE m = 1
      <4>1. flatten[m] = seqs[m]
        BY <2>3, <3>2, <3>4
      <4>2. Fine(m)
        <5>1. 1..m = {1}
          BY <3>4
        <5>2. \A k \in 1..Len(seqs[1]) : s[1] + k = k
          BY <1>2
        <5> QED BY <1>2, <3>3, <3>4, <4>1, <5>1, <5>2
      <4> QED BY <3>2, <4>2
    <3>5. CASE m # 1
      <4> DEFINE l == m - 1
                 a == flatten[l]
                 b == seqs[m]
      <4>1. l \in 1..n /\ ~(m <= l) /\ l + 1 = m /\ m \in 1..n
        BY <3>2, <3>5
      <4>2. Fine(l)
        <5>1. l \notin T
          <6> HIDE DEF T, l
          <6> QED BY <3>1, <4>1
        <5> HIDE DEF Fine, l
        <5> QED BY <4>1, <5>1
      <4>3. flatten[m] = a \o b
        BY <2>3, <3>2, <3>5
      <4>4. a \in Seq(V) /\ b \in Seq(V) /\ Len(a) = s[m]
        BY <3>3, <4>1, <4>2
      <4>5. /\ a \o b \in Seq(V) /\ Len(a \o b) = Len(a) + Len(b)
            /\ \A x \in 1..(Len(a) + Len(b)) : (a \o b)[x] = IF x <= Len(a) THEN a[x] ELSE b[x - Len(a)]
        <5>1. a \in Seq(V) /\ b \in Seq(V)
          BY <4>4
        <5> HIDE DEF T, Fine, a, b
        <5> QED BY <5>1, ConcatProperties
      <4>6. ASSUME NEW i \in 1..m, NEW k \in 1..Len(seqs[i])
            PROVE  flatten[m][s[i] + k] = seqs[i][k]
        <5>0. m \in 1..n
          BY <3>2
        <5> HIDE DEF T, l, a, b, Fine
        <5>4. i \in 1..n
          BY <5>0
        <5>1. s[i] \in Nat /\ Len(seqs[i]) \in Nat /\ s[i + 1] = s[i] + Len(seqs[i]) /\ i \in 1..(n + 1)
          BY <1>2, <5>4
        <5>2. CASE i = m
          <6>1. s[i] + k \in 1..(Len(a) + Len(b)) /\ ~(s[i] + k <= Len(a)) /\ (s[i] + k) - Len(a) = k
            BY <3>3, <4>4, <5>1, <5>2 DEF b
          <6> QED BY <4>3, <4>5, <5>2, <6>1 DEF b
        <5>3. CASE i # m
          <6>1. i \in 1..l /\ s[i + 1] <= s[l + 1]
            <7>1. i \in 1..l
              BY <4>1, <5>0, <5>3
            <7> QED BY <2>4, <4>1, <7>1
          <6>2. s[i] + k \in 1..(Len(a) + Len(b)) /\ s[i] + k <= Len(a)
            <7>1. s[i] \in Nat /\ Len(seqs[i]) \in Nat /\ s[i] + Len(seqs[i]) <= s[m] /\ s[m] \in Nat
              BY <3>3, <4>1, <5>1, <6>1
            <7>2. Len(a) = s[m] /\ Len(b) \in Nat
              BY <3>3, <4>4 DEF b
            <7> QED BY <7>1, <7>2
          <6>3. flatten[m][s[i] + k] = a[s[i] + k]
            BY <4>3, <4>5, <6>2
          <6> QED BY <4>2, <6>1, <6>3 DEF Fine, a
        <5> QED BY <5>2, <5>3
      <4>7. Fine(m)
        <5> HIDE DEF l, a, b, T
        <5> QED BY <3>3, <4>3, <4>4, <4>5, <4>6 DEF b
      <4> QED BY <3>2, <4>7
    <3> QED BY <3>4, <3>5
  <2>6. Fine(n)
    <3>1. n \in 1..n
      BY <1>4
    <3> QED BY <2>5, <3>1
  <2> QED BY <2>1, <2>6
<1> QED BY <1>3, <1>4

LEMMA SpliceIs ==
    ASSUME NEW n \in Nat, NEW V, \A x \in V : x.dest \in Int /\ x.dest <= n,
           NEW before \in [1..n -> Seq(V)], NEW item \in [1..n -> V],
           NEW after \in [1..n -> Seq(V)], NEW goal
    PROVE  \E s : Spliced(Splice(before, item, after, goal), s, n, before, item, after, goal)
<1> DEFINE piece == [i \in DOMAIN item |-> before[i] \o <<item[i]>> \o after[i]]
           w == [i \in 1..n |-> Len(piece[i])]
           s == [i \in 1..(n + 1) |-> (CHOOSE h : Folds(h, 1..(i - 1), w))[1..(i - 1)]]
           start == [i \in DOMAIN item |-> MapThenSumSet(LAMBDA j : Len(piece[j]), 1..(i - 1))]
           Put(i, x) == [x EXCEPT !.dest = IF x.dest > 0 THEN start[x.dest] + goal[x.dest]
                                           ELSE IF x.dest < 0 THEN start[i] - x.dest ELSE 0]
           seqs == [i \in 1..n |-> [k \in 1..Len(piece[i]) |-> Moved(s, goal, i, piece[i][k])]]
           q == Splice(before, item, after, goal)
           M == {Moved(s, goal, i, x) : i \in 1..n, x \in V}
<1>0. DOMAIN item = 1..n
  OBVIOUS
<1>1. ASSUME NEW i \in 1..n
      PROVE  /\ piece[i] \in Seq(V) /\ DOMAIN piece[i] = 1..Len(piece[i])
             /\ Len(before[i]) \in Nat /\ Len(after[i]) \in Nat
             /\ Len(piece[i]) = Len(before[i]) + 1 + Len(after[i])
             /\ \A k \in 1..Len(before[i]) : piece[i][k] = before[i][k]
             /\ piece[i][Len(before[i]) + 1] = item[i]
             /\ \A k \in 1..Len(after[i]) : piece[i][Len(before[i]) + 1 + k] = after[i][k]
  <2> DEFINE a == before[i]
             b == <<item[i]>>
             c == after[i]
             d == a \o b
  <2>1. a \in Seq(V) /\ b \in Seq(V) /\ c \in Seq(V) /\ Len(b) = 1 /\ b[1] = item[i]
    OBVIOUS
  <2>2. piece[i] = d \o c
    BY <1>0
  <2> HIDE DEF a, b, c, piece
  <2>3. Len(a) \in Nat /\ Len(c) \in Nat
    BY <2>1, LenProperties
  <2> HIDE DEF d
  <2>11. d \in Seq(V) /\ Len(d) = Len(a) + Len(b)
         /\ \A k \in 1..(Len(a) + Len(b)) : d[k] = IF k <= Len(a) THEN a[k] ELSE b[k - Len(a)]
    BY <2>1, ConcatProperties, Zenon DEF d
  <2>4. d \in Seq(V) /\ Len(d) = Len(a) + 1
        /\ \A k \in 1..(Len(a) + 1) : d[k] = IF k <= Len(a) THEN a[k] ELSE b[k - Len(a)]
    BY <2>1, <2>11
  <2>5. d \o c \in Seq(V) /\ Len(d \o c) = Len(d) + Len(c)
        /\ \A k \in 1..(Len(d) + Len(c)) : (d \o c)[k] = IF k <= Len(d) THEN d[k] ELSE c[k - Len(d)]
    <3>1. d \in Seq(V) /\ c \in Seq(V)
      BY <2>1, <2>4
    <3> QED BY <3>1, ConcatProperties, Zenon
  <2>6. ASSUME NEW k \in 1..Len(a) PROVE piece[i][k] = a[k]
    <3>1. k \in 1..(Len(d) + Len(c)) /\ k <= Len(d) /\ k \in 1..(Len(a) + 1) /\ k <= Len(a)
      BY <2>3, <2>4
    <3> QED BY <2>2, <2>4, <2>5, <3>1
  <2>7. piece[i][Len(a) + 1] = item[i]
    <3>1. /\ Len(a) + 1 \in 1..(Len(d) + Len(c)) /\ Len(a) + 1 <= Len(d)
          /\ Len(a) + 1 \in 1..(Len(a) + 1) /\ ~(Len(a) + 1 <= Len(a)) /\ (Len(a) + 1) - Len(a) = 1
      BY <2>3, <2>4
    <3> QED BY <2>1, <2>2, <2>4, <2>5, <3>1
  <2>8. ASSUME NEW k \in 1..Len(c) PROVE piece[i][Len(a) + 1 + k] = c[k]
    <3>1. /\ Len(a) + 1 + k \in 1..(Len(d) + Len(c)) /\ ~(Len(a) + 1 + k <= Len(d))
          /\ (Len(a) + 1 + k) - Len(d) = k
      BY <2>3, <2>4
    <3> QED BY <2>2, <2>5, <3>1
  <2>9. piece[i] \in Seq(V) /\ Len(piece[i]) = Len(a) + 1 + Len(c)
    BY <2>2, <2>3, <2>4, <2>5
  <2>10. DOMAIN piece[i] = 1..Len(piece[i])
    BY <2>9, LenProperties
  <2> QED BY <2>3, <2>6, <2>7, <2>8, <2>9, <2>10 DEF a, c
<1>2. Offsets(s, n, w)
  <2>1. \A i \in 1..n : w[i] \in Nat
    BY <1>1, LenProperties
  <2>2. \A i \in 1..(n + 1) : s[i] = (CHOOSE h : Folds(h, 1..(i - 1), w))[1..(i - 1)]
    OBVIOUS
  <2> HIDE DEF s, w
  <2> QED BY <2>1, <2>2, SumIsOffset
<1>3. \A i \in 1..n : start[i] = s[i]
  <2> SUFFICES ASSUME NEW i \in 1..n PROVE start[i] = s[i]
    OBVIOUS
  <2> DEFINE S == 1..(i - 1)
             A(h) == h = [t \in SUBSET S |-> IF t = {} THEN 0
                              ELSE Len(piece[CHOOSE x \in t : TRUE]) + h[t \ {CHOOSE x \in t : TRUE}]]
  <2>1. start[i] = (CHOOSE h : A(h))[S]
    BY <1>0 DEF MapThenSumSet, MapThenFoldSet
  <2>2. s[i] = (CHOOSE h : Folds(h, S, w))[S]
    OBVIOUS
  <2>3. ASSUME NEW t \in SUBSET S, t # {}
        PROVE  Len(piece[CHOOSE x \in t : TRUE]) = w[CHOOSE x \in t : TRUE]
    <3> DEFINE c == CHOOSE x \in t : TRUE
    <3>1. c \in t
      BY <2>3
    <3> HIDE DEF c
    <3>2. c \in 1..n
      BY <3>1
    <3> HIDE DEF piece
    <3>3. w[c] = Len(piece[c])
      BY <3>2
    <3> QED BY <3>3 DEF c
  <2> HIDE DEF piece, w, S, start, s
  <2>4. \A h : A(h) <=> Folds(h, S, w)
    <3> SUFFICES ASSUME NEW h PROVE A(h) <=> Folds(h, S, w)
      OBVIOUS
    <3> DEFINE F == [t \in SUBSET S |-> IF t = {} THEN 0
                          ELSE Len(piece[CHOOSE x \in t : TRUE]) + h[t \ {CHOOSE x \in t : TRUE}]]
               G == [t \in SUBSET S |-> IF t = {} THEN 0
                          ELSE w[CHOOSE x \in t : TRUE] + h[t \ {CHOOSE x \in t : TRUE}]]
    <3> DEFINE fb(t) == IF t = {} THEN 0
                        ELSE Len(piece[CHOOSE x \in t : TRUE]) + h[t \ {CHOOSE x \in t : TRUE}]
               gb(t) == IF t = {} THEN 0
                        ELSE w[CHOOSE x \in t : TRUE] + h[t \ {CHOOSE x \in t : TRUE}]
    <3>4. \A t \in SUBSET S : fb(t) = gb(t)
      BY <2>3
    <3>5. F = [t \in SUBSET S |-> fb(t)] /\ G = [t \in SUBSET S |-> gb(t)]
      OBVIOUS
    <3> HIDE DEF fb, gb, F, G
    <3>1. F = G
      BY <3>4, <3>5
    <3>2. A(h) <=> h = F
      BY DEF F
    <3>3. Folds(h, S, w) <=> h = G
      BY DEF Folds, G
    <3> HIDE DEF A
    <3> QED BY <3>1, <3>2, <3>3
  <2> HIDE DEF A
  <2>5. (CHOOSE h : A(h)) = (CHOOSE h : Folds(h, S, w))
    BY <2>4
  <2> QED BY <2>1, <2>2, <2>5
<1> HIDE DEF s, start
<1>4. q = FlattenSeq(seqs)
  <2>1. q = FlattenSeq([i \in DOMAIN item |-> [k \in DOMAIN piece[i] |-> Put(i, piece[i][k])]])
    BY DEF Splice, start
  <2> HIDE DEF q
  <2>2. ASSUME NEW i \in 1..n
        PROVE  [k \in DOMAIN piece[i] |-> Put(i, piece[i][k])]
               = [k \in 1..Len(piece[i]) |-> Moved(s, goal, i, piece[i][k])]
    <3>1. DOMAIN piece[i] = 1..Len(piece[i]) /\ piece[i] \in Seq(V)
      BY <1>1
    <3>2. ASSUME NEW k \in 1..Len(piece[i])
          PROVE  Put(i, piece[i][k]) = Moved(s, goal, i, piece[i][k])
      <4> DEFINE x == piece[i][k]
      <4>1. x \in V
        BY <3>1, ElementOfSeq
      <4>2. x.dest \in Int /\ (x.dest > 0 => x.dest \in 1..n)
        BY <4>1
      <4> HIDE DEF x
      <4>3. x.dest > 0 => start[x.dest] = s[x.dest]
        BY <1>3, <4>2
      <4>4. start[i] = s[i]
        BY <1>3
      <4>5. Put(i, x) = Moved(s, goal, i, x)
        BY <4>3, <4>4 DEF Moved
      <4> HIDE DEF Put
      <4> QED BY <4>5 DEF x
    <3> HIDE DEF Put, piece
    <3> QED BY <3>1, <3>2
  <2> HIDE DEF Put, piece
  <2> QED BY <1>0, <2>1, <2>2
<1>5. /\ \A i \in 1..n : Len(seqs[i]) = w[i]
      /\ seqs \in [1..n -> Seq(M)]
      /\ \A i \in 1..n : \A k \in 1..Len(piece[i]) : seqs[i][k] = Moved(s, goal, i, piece[i][k])
  <2> HIDE DEF piece, M
  <2>0. seqs = [i \in 1..n |-> seqs[i]]
    OBVIOUS
  <2> SUFFICES ASSUME NEW i \in 1..n
               PROVE  /\ Len(seqs[i]) = w[i] /\ seqs[i] \in Seq(M)
                      /\ \A k \in 1..Len(piece[i]) : seqs[i][k] = Moved(s, goal, i, piece[i][k])
    <3> HIDE DEF seqs, w
    <3> QED BY <2>0
  <2> DEFINE m == Len(piece[i])
  <2>1. m \in Nat /\ piece[i] \in Seq(V)
    BY <1>1
  <2>2. \A k \in 1..m : piece[i][k] \in V
    BY <2>1, ElementOfSeq
  <2>3. w[i] = m
    OBVIOUS
  <2>4. seqs[i] = [k \in 1..m |-> Moved(s, goal, i, piece[i][k])]
    OBVIOUS
  <2> HIDE DEF m, piece, w, seqs
  <2>5. \A k \in 1..m : Moved(s, goal, i, piece[i][k]) \in M
    BY <2>2 DEF M
  <2> QED BY <2>1, <2>3, <2>4, <2>5 DEF m
<1> HIDE DEF seqs, M
<1>7. /\ q \in Seq(M) /\ Len(q) = s[n + 1]
      /\ \A i \in 1..n : \A k \in 1..Len(seqs[i]) : q[s[i] + k] = seqs[i][k]
  <2> HIDE DEF q, piece, w
  <2>2. /\ FlattenSeq(seqs) \in Seq(M) /\ Len(FlattenSeq(seqs)) = s[n + 1]
        /\ \A i \in 1..n : \A k \in 1..Len(seqs[i]) : FlattenSeq(seqs)[s[i] + k] = seqs[i][k]
    <3>1. \A i \in 1..n : w[i] = Len(seqs[i])
      BY <1>5
    <3>2. seqs \in [1..n -> Seq(M)]
      BY <1>5
    <3>3. Pieces(seqs, n, M, w)
      BY <3>1, <3>2 DEF Pieces
    <3> QED BY <1>2, <3>3, FlattenIs
  <2> QED BY <1>4, <2>2
<1>8. w = [i \in 1..n |-> Len(before[i]) + 1 + Len(after[i])]
  <2> HIDE DEF piece
  <2> QED BY <1>1
<1> HIDE DEF q
<1>9. ASSUME NEW i \in 1..n
      PROVE  /\ \A k \in 1..Len(before[i]) : q[s[i] + k] = Moved(s, goal, i, before[i][k])
             /\ q[s[i] + Len(before[i]) + 1] = Moved(s, goal, i, item[i])
             /\ \A k \in 1..Len(after[i]) :
                    q[s[i] + Len(before[i]) + 1 + k] = Moved(s, goal, i, after[i][k])
  <2> DEFINE a == Len(before[i])
             b == Len(after[i])
             m == Len(piece[i])
  <2>1. /\ a \in Nat /\ b \in Nat /\ m = a + 1 + b
        /\ \A k \in 1..a : piece[i][k] = before[i][k]
        /\ piece[i][a + 1] = item[i]
        /\ \A k \in 1..b : piece[i][a + 1 + k] = after[i][k]
    BY <1>1
  <2>2. Len(seqs[i]) = m
    BY <1>5
  <2>3. s[i] \in Nat
    BY <1>2 DEF Offsets
  <2> HIDE DEF a, b, m, piece, w
  <2>4. \A k \in 1..m : q[s[i] + k] = Moved(s, goal, i, piece[i][k])
    BY <1>5, <1>7, <2>2 DEF m
  <2>5. ASSUME NEW k \in 1..a PROVE q[s[i] + k] = Moved(s, goal, i, before[i][k])
    <3>1. k \in 1..m
      BY <2>1
    <3> QED BY <2>1, <2>4, <3>1
  <2>6. q[s[i] + a + 1] = Moved(s, goal, i, item[i])
    <3>1. a + 1 \in 1..m
      BY <2>1
    <3>3. s[i] + a + 1 = s[i] + (a + 1)
      <4>1. \A x, y \in Nat : x + y + 1 = x + (y + 1)
        OBVIOUS
      <4> QED BY <2>1, <2>3, <4>1
    <3>2. q[s[i] + (a + 1)] = Moved(s, goal, i, item[i])
      BY <2>1, <2>4, <3>1
    <3> QED BY <3>2, <3>3
  <2>7. ASSUME NEW k \in 1..b PROVE q[s[i] + a + 1 + k] = Moved(s, goal, i, after[i][k])
    <3>1. a + 1 + k \in 1..m /\ s[i] + a + 1 + k = s[i] + (a + 1 + k)
      BY <2>1, <2>3
    <3>2. q[s[i] + (a + 1 + k)] = Moved(s, goal, i, after[i][k])
      BY <2>1, <2>4, <3>1
    <3> QED BY <3>1, <3>2
  <2> QED BY <2>5, <2>6, <2>7 DEF a, b
<1>10. q \in Seq({q[x] : x \in 1..Len(q)})
  <2>1. q = [x \in 1..Len(q) |-> q[x]] /\ Len(q) \in Nat
    BY <1>7
  <2> QED BY <2>1
<1> HIDE DEF w
<1>11. Spliced(q, s, n, before, item, after, goal)
  BY <1>2, <1>7, <1>8, <1>9, <1>10 DEF Spliced
<1> QED BY <1>11 DEF q

-----------------------------------------------------------------------------
(* Bodies with room in them *)

LEMMA OffsetsGrow ==
    ASSUME NEW n, NEW s, NEW w, Offsets(s, n, w)
    PROVE  \A j \in 1..(n + 1) : \A i \in 1..j : s[i] <= s[j]
<1> USE DEF Offsets
<1> DEFINE U == {j \in 1..(n + 1) : ~\A i \in 1..j : s[i] <= s[j]}
<1> SUFFICES ASSUME U # {} PROVE FALSE
  OBVIOUS
<1>1. PICK j \in U : \A y \in U : j <= y
  <2>1. U \in SUBSET Nat
    OBVIOUS
  <2> HIDE DEF U
  <2> QED BY <2>1, LeastNumber
<1>2. PICK i \in 1..j : ~(s[i] <= s[j])
  OBVIOUS
<1>3. j \in 1..(n + 1) /\ n \in Nat /\ s[j] \in Nat /\ s[i] \in Nat
  OBVIOUS
<1>4. i # j /\ j - 1 \in 1..n /\ j - 1 \in 1..(n + 1) /\ i \in 1..(j - 1) /\ (j - 1) + 1 = j
  BY <1>2, <1>3
<1>5. j - 1 \notin U
  <2>1. ~(j <= j - 1)
    BY <1>3
  <2> HIDE DEF U
  <2> QED BY <1>1, <2>1
<1>6. s[i] <= s[j - 1]
  BY <1>4, <1>5
<1> HIDE DEF U
<1>7. s[j] = s[j - 1] + w[j - 1] /\ s[j - 1] \in Nat /\ w[j - 1] \in Nat
  BY <1>4
<1> QED BY <1>2, <1>3, <1>6, <1>7

LEMMA PieceIs ==
    ASSUME NEW n, NEW s, NEW w, Offsets(s, n, w), NEW i \in 1..n, NEW k \in 1..w[i]
    PROVE  /\ s[i] + k \in 1..s[n + 1]
           /\ Piece(s, n, s[i] + k) = i
<1> DEFINE x == s[i] + k
<1>1. /\ n \in Nat /\ s[i] \in Nat /\ w[i] \in Nat /\ s[i + 1] = s[i] + w[i]
      /\ s[n + 1] \in Nat /\ i + 1 \in 1..(n + 1) /\ n + 1 \in 1..(n + 1) /\ i + 1 \in 1..(n + 1)
      /\ s[i + 1] \in Nat
  <2>1. n \in Nat
    BY DEF Offsets
  <2>2. i \in 1..(n + 1) /\ n + 1 \in 1..(n + 1) /\ i + 1 \in 1..(n + 1)
    BY <2>1
  <2> QED BY <2>1, <2>2 DEF Offsets
<1>2. s[i + 1] <= s[n + 1]
  <2>1. i + 1 \in 1..(n + 1)
    BY <1>1
  <2> QED BY <1>1, <2>1, OffsetsGrow
<1>3. x \in Nat /\ s[i] < x /\ x <= s[i + 1] /\ x \in 1..s[n + 1]
  BY <1>1, <1>2
<1>4. ASSUME NEW j \in 1..n, s[j] < x, x <= s[j + 1] PROVE j = i
  <2>1. j \in 1..(n + 1) /\ j + 1 \in 1..(n + 1) /\ i \in 1..(n + 1)
    BY <1>1
  <2>2. s[j] \in Nat /\ s[j + 1] \in Nat
    BY <2>1 DEF Offsets
  <2>3. CASE j < i
    <3>1. j + 1 \in 1..i
      BY <1>1, <2>3
    <3>2. s[j + 1] <= s[i]
      BY <2>1, <3>1, OffsetsGrow
    <3> QED BY <1>1, <1>3, <1>4, <2>2, <3>2
  <2>4. CASE j > i
    <3>1. i + 1 \in 1..j
      BY <1>1, <2>4
    <3>2. s[i + 1] <= s[j]
      BY <2>1, <3>1, OffsetsGrow
    <3> QED BY <1>1, <1>3, <1>4, <2>2, <3>2
  <2> QED BY <1>1, <2>3, <2>4
<1> HIDE DEF x
<1>5. Piece(s, n, x) = i
  BY <1>3, <1>4 DEF Piece
<1> QED BY <1>3, <1>5 DEF x

LEMMA Located ==
    ASSUME NEW n, NEW s, NEW w, Offsets(s, n, w), NEW x \in 1..s[n + 1]
    PROVE  \E i \in 1..n : \E k \in 1..w[i] : x = s[i] + k
<1> DEFINE T == {i \in 1..n : s[i] < x}
<1>1. n \in Nat /\ s[1] = 0 /\ n + 1 \in 1..(n + 1) /\ s[n + 1] \in Nat
  <2>1. n \in Nat
    BY DEF Offsets
  <2>2. n + 1 \in 1..(n + 1)
    BY <2>1
  <2> QED BY <2>1, <2>2 DEF Offsets
<1>2. n # 0 /\ 1 \in T
  <2>1. n # 0
    BY <1>1
  <2> QED BY <1>1, <2>1
<1>3. PICK i \in T : \A y \in T : y <= i
  <2>1. T \in SUBSET (1..n) /\ T # {}
    BY <1>2
  <2> HIDE DEF T
  <2> QED BY <1>1, <2>1, LargestNumber
<1>4. i \in 1..n /\ s[i] < x /\ i + 1 \in 1..(n + 1) /\ i \in 1..(n + 1)
  BY <1>1
<1>5. s[i] \in Nat /\ s[i + 1] \in Nat /\ w[i] \in Nat /\ s[i + 1] = s[i] + w[i]
  BY <1>4 DEF Offsets
<1>6. x <= s[i + 1]
  <2>1. CASE i = n
    BY <1>1, <2>1
  <2>2. CASE i # n
    <3>1. i + 1 \in 1..n /\ ~(i + 1 <= i)
      BY <1>1, <1>4, <2>2
    <3>2. i + 1 \notin T
      <4> HIDE DEF T
      <4> QED BY <1>3, <3>1
    <3>3. ~(s[i + 1] < x)
      BY <3>1, <3>2
    <3> QED BY <1>1, <1>5, <3>3
  <2> QED BY <2>1, <2>2
<1> HIDE DEF T
<1>7. x - s[i] \in 1..w[i] /\ x = s[i] + (x - s[i])
  BY <1>1, <1>4, <1>5, <1>6
<1> QED BY <1>4, <1>7

\* What the parts of the layout are, said of one item.
LEMMA LayoutIs ==
    ASSUME NEW f, NEW p, NEW q, NEW W, NEW s, NEW hd, NEW tl, Layout(f, p, q, W, s, hd, tl),
           NEW i \in 1..Len(p)
    PROVE  /\ Len(p) \in Nat /\ Len(q) \in Nat /\ Len(q) = s[Len(p) + 1]
           /\ hd[i] \in Nat /\ tl[i] \in Nat /\ s[i] \in Nat /\ s[i + 1] \in Nat
           /\ s[i + 1] = s[i] + hd[i] + 1 + tl[i]
           /\ s[1] = 0
           /\ Pos(s, hd, i) = s[i] + hd[i] + 1
           /\ Pos(s, hd, 0) = 0
           /\ Lead(s, i) = s[i] + 1
           /\ f[i] \in 0..(i - 1)
           /\ \A k \in 1..(hd[i] + 1 + tl[i]) :
                 s[i] + k \in 1..Len(q) /\ Piece(s, Len(p), s[i] + k) = i
<1> DEFINE n == Len(p)
           w == [j \in 1..n |-> hd[j] + 1 + tl[j]]
<1>1. n \in Nat /\ Offsets(s, n, w) /\ hd[i] \in Nat /\ tl[i] \in Nat /\ Len(q) = s[n + 1]
      /\ f[i] \in 0..(i - 1)
  BY DEF Layout, Tree
<1>2. w[i] = hd[i] + 1 + tl[i]
  OBVIOUS
<1>3. i \in 1..(n + 1) /\ i + 1 \in 1..(n + 1) /\ n + 1 \in 1..(n + 1) /\ i \in 1..n /\ i # 0
  BY <1>1
<1> HIDE DEF n, w
<1>4. s[i] \in Nat /\ s[i + 1] \in Nat /\ s[n + 1] \in Nat /\ s[i + 1] = s[i] + w[i] /\ s[1] = 0
  BY <1>1, <1>3 DEF Offsets
<1>5. \A k \in 1..w[i] : s[i] + k \in 1..s[n + 1] /\ Piece(s, n, s[i] + k) = i
  BY <1>1, <1>3, PieceIs
<1>6. s[i] + (hd[i] + 1 + tl[i]) = s[i] + hd[i] + 1 + tl[i]
  BY <1>1, <1>4
<1> QED BY <1>1, <1>2, <1>3, <1>4, <1>5, <1>6 DEF n, Pos, Lead

LEMMA LayoutFinds ==
    ASSUME NEW f, NEW p, NEW q, NEW W, NEW s, NEW hd, NEW tl, Layout(f, p, q, W, s, hd, tl),
           NEW x \in 1..Len(q)
    PROVE  \E i \in 1..Len(p) : \E k \in 1..(hd[i] + 1 + tl[i]) : x = s[i] + k
<1> DEFINE w == [j \in 1..Len(p) |-> hd[j] + 1 + tl[j]]
<1>1. Offsets(s, Len(p), w) /\ x \in 1..s[Len(p) + 1]
  BY DEF Layout
<1>2. \A i \in 1..Len(p) : w[i] = hd[i] + 1 + tl[i]
  OBVIOUS
<1> HIDE DEF w
<1>3. \E i \in 1..Len(p) : \E k \in 1..w[i] : x = s[i] + k
  BY <1>1, Located
<1> QED BY <1>2, <1>3

\* The kinds and the places in the new tree of all the items of one piece.
LEMMA PieceParents ==
    ASSUME NEW f, NEW p, NEW q, NEW W, NEW s, NEW hd, NEW tl, Layout(f, p, q, W, s, hd, tl),
           NEW g, g = NewParent(f, p, W, s, hd), NEW i \in 1..Len(p)
    PROVE  /\ g[Lead(s, i)] = Pos(s, hd, f[i])
           /\ i \in W =>
                 /\ q[Lead(s, i)].kind = "block"
                 /\ \A k \in 2..(hd[i] + 1) : g[s[i] + k] = Lead(s, i)
                 /\ \A k \in 2..hd[i] : Simple(q[s[i] + k])
                 /\ g[Pos(s, hd, i)] = Lead(s, i)
           /\ i \notin W => hd[i] = 0 /\ Pos(s, hd, i) = Lead(s, i) /\ g[Pos(s, hd, i)] = Pos(s, hd, f[i])
           /\ q[Pos(s, hd, i)].kind = p[i].kind
           /\ p[i].kind \in Compound \cup {"else"} =>
                 \A k \in 1..tl[i] :
                    /\ Simple(q[Pos(s, hd, i) + k])
                    /\ p[i].kind \in Compound => g[Pos(s, hd, i) + k] = Pos(s, hd, i)
                    /\ p[i].kind = "else" => g[Pos(s, hd, i) + k] = Pos(s, hd, f[i])
           /\ p[i].kind \notin Compound \cup {"else"} =>
                 /\ BlockEnds(f, p, W, i) =>
                       /\ tl[i] = 1 /\ q[Pos(s, hd, i) + 1].kind = "end"
                       /\ p[i].kind \in Closing => g[Pos(s, hd, i) + 1] = Lead(s, f[i])
                       /\ p[i].kind \notin Closing => g[Pos(s, hd, i) + 1] = Lead(s, i)
                 /\ ~BlockEnds(f, p, W, i) => tl[i] = 0
<1> DEFINE n == Len(p)
<1>1. /\ n \in Nat /\ Len(q) = s[n + 1]
      /\ hd[i] \in Nat /\ tl[i] \in Nat /\ s[i] \in Nat
      /\ Pos(s, hd, i) = s[i] + hd[i] + 1 /\ Lead(s, i) = s[i] + 1
      /\ \A k \in 1..(hd[i] + 1 + tl[i]) : s[i] + k \in 1..Len(q) /\ Piece(s, n, s[i] + k) = i
  BY LayoutIs
<1>2. ASSUME NEW k \in 1..(hd[i] + 1 + tl[i])
      PROVE  g[s[i] + k] =
                IF k <= hd[i] + 1 THEN IF k = 1 THEN Pos(s, hd, f[i]) ELSE Lead(s, i)
                ELSE IF p[i].kind \in Compound THEN Pos(s, hd, i)
                ELSE IF p[i].kind = "else" THEN Pos(s, hd, f[i])
                ELSE IF p[i].kind \in Closing THEN Lead(s, f[i])
                ELSE Lead(s, i)
  <2> DEFINE x == s[i] + k
  <2>1. x \in 1..s[n + 1] /\ Piece(s, n, x) = i /\ x - s[i] = k
    BY <1>1
  <2> HIDE DEF x, n
  <2>2. g[x] =
                IF k <= hd[i] + 1 THEN IF k = 1 THEN Pos(s, hd, f[i]) ELSE Lead(s, i)
                ELSE IF p[i].kind \in Compound THEN Pos(s, hd, i)
                ELSE IF p[i].kind = "else" THEN Pos(s, hd, f[i])
                ELSE IF p[i].kind \in Closing THEN Lead(s, f[i])
                ELSE Lead(s, i)
    BY <2>1 DEF NewParent, n
  <2> QED BY <2>2 DEF x
<1>3. /\ q[Pos(s, hd, i)].kind = p[i].kind
      /\ i \in W => /\ hd[i] >= 1 /\ q[Lead(s, i)].kind = "block"
                    /\ \A k \in 2..hd[i] : Simple(q[s[i] + k])
      /\ i \notin W => hd[i] = 0
      /\ p[i].kind \in Compound \cup {"else"} =>
             \A k \in 1..tl[i] : Simple(q[Pos(s, hd, i) + k])
      /\ p[i].kind \notin Compound \cup {"else"} =>
             IF BlockEnds(f, p, W, i) THEN tl[i] = 1 /\ q[Pos(s, hd, i) + 1].kind = "end"
             ELSE tl[i] = 0
  BY DEF Layout
<1>4. g[Lead(s, i)] = Pos(s, hd, f[i])
  <2>1. 1 \in 1..(hd[i] + 1 + tl[i]) /\ 1 <= hd[i] + 1
    BY <1>1
  <2> QED BY <1>1, <1>2, <2>1
<1>5. \A k \in 2..(hd[i] + 1) : g[s[i] + k] = Lead(s, i)
  <2> SUFFICES ASSUME NEW k \in 2..(hd[i] + 1) PROVE g[s[i] + k] = Lead(s, i)
    OBVIOUS
  <2>1. k \in 1..(hd[i] + 1 + tl[i]) /\ k <= hd[i] + 1 /\ k # 1
    BY <1>1
  <2> QED BY <1>2, <2>1
<1>6. i \in W => g[Pos(s, hd, i)] = Lead(s, i)
  <2> SUFFICES ASSUME i \in W PROVE g[Pos(s, hd, i)] = Lead(s, i)
    OBVIOUS
  <2>1. hd[i] + 1 \in 2..(hd[i] + 1) /\ s[i] + (hd[i] + 1) = s[i] + hd[i] + 1
    BY <1>1, <1>3
  <2>2. g[s[i] + (hd[i] + 1)] = Lead(s, i)
    BY <1>5, <2>1
  <2> QED BY <1>1, <2>1, <2>2
<1>7. i \notin W => Pos(s, hd, i) = Lead(s, i)
  BY <1>1, <1>3
<1>8. ASSUME NEW k \in 1..tl[i]
      PROVE  g[Pos(s, hd, i) + k] =
                IF p[i].kind \in Compound THEN Pos(s, hd, i)
                ELSE IF p[i].kind = "else" THEN Pos(s, hd, f[i])
                ELSE IF p[i].kind \in Closing THEN Lead(s, f[i])
                ELSE Lead(s, i)
  <2>0. hd[i] \in Nat /\ tl[i] \in Nat /\ s[i] \in Nat /\ k \in Nat /\ 1 <= k /\ k <= tl[i]
    BY <1>1
  <2> DEFINE m == hd[i] + 1 + k
  <2>1. m \in 1..(hd[i] + 1 + tl[i]) /\ ~(m <= hd[i] + 1) /\ m # 1
    BY <2>0
  <2>2. s[i] + m = (s[i] + hd[i] + 1) + k
    BY <2>0
  <2> HIDE DEF m
  <2> QED BY <1>1, <1>2, <2>1, <2>2
<1>9. tl[i] = 1 => 1 \in 1..tl[i]
  OBVIOUS
<1>10. Compound \cap Closing = {} /\ "else" \notin Compound \cup Closing
  BY DEF Compound, Closing
<1> HIDE DEF n
<1>11. p[i].kind \in Compound \cup {"else"} =>
          \A k \in 1..tl[i] :
             /\ Simple(q[Pos(s, hd, i) + k])
             /\ p[i].kind \in Compound => g[Pos(s, hd, i) + k] = Pos(s, hd, i)
             /\ p[i].kind = "else" => g[Pos(s, hd, i) + k] = Pos(s, hd, f[i])
  BY <1>3, <1>8, <1>10
<1>12. p[i].kind \notin Compound \cup {"else"} =>
          /\ BlockEnds(f, p, W, i) =>
                /\ tl[i] = 1 /\ q[Pos(s, hd, i) + 1].kind = "end"
                /\ p[i].kind \in Closing => g[Pos(s, hd, i) + 1] = Lead(s, f[i])
                /\ p[i].kind \notin Closing => g[Pos(s, hd, i) + 1] = Lead(s, i)
          /\ ~BlockEnds(f, p, W, i) => tl[i] = 0
  <2> SUFFICES ASSUME p[i].kind \notin Compound \cup {"else"}, BlockEnds(f, p, W, i)
               PROVE  /\ p[i].kind \in Closing => g[Pos(s, hd, i) + 1] = Lead(s, f[i])
                      /\ p[i].kind \notin Closing => g[Pos(s, hd, i) + 1] = Lead(s, i)
    BY <1>3
  <2>1. 1 \in 1..tl[i]
    BY <1>3, <1>9
  <2> QED BY <1>8, <2>1
<1> QED BY <1>3, <1>4, <1>5, <1>6, <1>7, <1>11, <1>12

\* Items keep their order, each piece ends where the next one begins.
LEMMA LayoutOrder ==
    ASSUME NEW f, NEW p, NEW q, NEW W, NEW s, NEW hd, NEW tl, Layout(f, p, q, W, s, hd, tl),
           NEW j \in 1..Len(p), NEW i \in 0..(j - 1)
    PROVE  /\ Pos(s, hd, i) \in Nat /\ Lead(s, j) \in Nat /\ Pos(s, hd, j) \in Nat
           /\ Pos(s, hd, i) < Lead(s, j) /\ Lead(s, j) <= Pos(s, hd, j)
           /\ i # 0 => /\ i \in 1..Len(p)
                       /\ Lead(s, i) \in Nat /\ Lead(s, i) < Lead(s, j)
                       /\ Pos(s, hd, i) + tl[i] < Lead(s, j)
           /\ j - 1 # 0 => Pos(s, hd, j - 1) + tl[j - 1] = Lead(s, j) - 1
           /\ j - 1 = 0 => Lead(s, j) = 1
<1> DEFINE n == Len(p)
           w == [k \in 1..n |-> hd[k] + 1 + tl[k]]
<1>1. /\ hd[j] \in Nat /\ tl[j] \in Nat /\ s[j] \in Nat
      /\ Pos(s, hd, j) = s[j] + hd[j] + 1 /\ Lead(s, j) = s[j] + 1
      /\ Pos(s, hd, 0) = 0 /\ n \in Nat /\ s[1] = 0
  BY LayoutIs
<1>2. ASSUME NEW k \in 1..(j - 1)
      PROVE  /\ k \in 1..n
             /\ hd[k] \in Nat /\ tl[k] \in Nat /\ s[k] \in Nat /\ s[k + 1] \in Nat
             /\ s[k + 1] = s[k] + hd[k] + 1 + tl[k]
             /\ Pos(s, hd, k) = s[k] + hd[k] + 1 /\ Lead(s, k) = s[k] + 1
             /\ s[k + 1] <= s[j]
  <2>1. k \in 1..n
    BY <1>1, <1>2
  <2>2. k + 1 \in 1..j /\ j \in 1..(n + 1)
    BY <1>1, <1>2
  <2>3. Offsets(s, n, w)
    BY DEF Layout
  <2> HIDE DEF n, w
  <2>4. s[k + 1] <= s[j]
    BY <2>2, <2>3, OffsetsGrow
  <2> QED BY <2>1, <2>4, LayoutIs DEF n
<1> HIDE DEF n, w
<1>3. j - 1 # 0 => Pos(s, hd, j - 1) + tl[j - 1] = Lead(s, j) - 1
  <2> SUFFICES ASSUME j - 1 # 0 PROVE Pos(s, hd, j - 1) + tl[j - 1] = Lead(s, j) - 1
    OBVIOUS
  <2> DEFINE k == j - 1
  <2>1. k \in 1..(j - 1) /\ k + 1 = j
    BY <1>1 DEF n
  <2> HIDE DEF k
  <2> QED BY <1>1, <1>2, <2>1 DEF k
<1>4. CASE i = 0
  BY <1>1, <1>3, <1>4
<1>5. CASE i # 0
  <2>1. i \in 1..(j - 1)
    BY <1>1, <1>5
  <2>2. /\ i \in 1..n
        /\ hd[i] \in Nat /\ tl[i] \in Nat /\ s[i] \in Nat
        /\ s[i + 1] = s[i] + hd[i] + 1 + tl[i]
        /\ Pos(s, hd, i) = s[i] + hd[i] + 1 /\ Lead(s, i) = s[i] + 1
        /\ s[i + 1] <= s[j]
    BY <1>2, <2>1
  <2>3. /\ Pos(s, hd, i) \in Nat /\ Pos(s, hd, i) + tl[i] = s[i + 1] /\ Lead(s, i) \in Nat
        /\ Lead(s, i) <= Pos(s, hd, i) /\ Pos(s, hd, i) <= Pos(s, hd, i) + tl[i]
    BY <2>2
  <2>4. /\ Pos(s, hd, i) + tl[i] < Lead(s, j) /\ Pos(s, hd, i) < Lead(s, j) /\ Lead(s, i) < Lead(s, j)
    <3>1. /\ s[j] \in Nat /\ Lead(s, j) = s[j] + 1
          /\ Pos(s, hd, i) + tl[i] <= s[j] /\ Pos(s, hd, i) \in Nat /\ tl[i] \in Nat
          /\ Lead(s, i) \in Nat /\ Lead(s, i) <= Pos(s, hd, i)
      BY <1>1, <2>2, <2>3
    <3> QED BY <3>1
  <2>5. Lead(s, j) \in Nat /\ Pos(s, hd, j) \in Nat /\ Lead(s, j) <= Pos(s, hd, j)
    BY <1>1
  <2>6. j - 1 # 0
    BY <1>1, <2>1 DEF n
  <2> QED BY <1>3, <1>5, <2>2, <2>3, <2>4, <2>5, <2>6 DEF n
<1> QED BY <1>4, <1>5

\* The parent of an item, in terms of where it is in its piece.
LEMMA NewParentIs ==
    ASSUME NEW f, NEW p, NEW q, NEW W, NEW s, NEW hd, NEW tl, Layout(f, p, q, W, s, hd, tl),
           NEW g, g = NewParent(f, p, W, s, hd), NEW x \in 1..Len(q)
    PROVE  \E i \in 1..Len(p) :
              \/ x = Lead(s, i)
              \/ /\ i \in W /\ hd[i] >= 1
                 /\ \E k \in 2..(hd[i] + 1) : x = s[i] + k
              \/ /\ p[i].kind \in Compound \cup {"else"}
                 /\ \E k \in 1..tl[i] : x = Pos(s, hd, i) + k
              \/ /\ p[i].kind \notin Compound \cup {"else"} /\ BlockEnds(f, p, W, i)
                 /\ tl[i] = 1 /\ x = Pos(s, hd, i) + 1
<1>0. PICK i \in 1..Len(p) : \E k \in 1..(hd[i] + 1 + tl[i]) : x = s[i] + k
  BY LayoutFinds
<1>1. PICK k \in 1..(hd[i] + 1 + tl[i]) : x = s[i] + k
  BY <1>0
<1>2. /\ hd[i] \in Nat /\ tl[i] \in Nat /\ s[i] \in Nat
      /\ Pos(s, hd, i) = s[i] + hd[i] + 1 /\ Lead(s, i) = s[i] + 1
  BY LayoutIs
<1>3. /\ i \notin W => hd[i] = 0
      /\ i \in W => hd[i] >= 1
      /\ p[i].kind \notin Compound \cup {"else"} =>
             IF BlockEnds(f, p, W, i) THEN tl[i] = 1 ELSE tl[i] = 0
  BY DEF Layout
<1>4. CASE k = 1
  BY <1>1, <1>2, <1>4
<1>5. CASE k # 1 /\ k <= hd[i] + 1
  <2>1. k \in 2..(hd[i] + 1) /\ hd[i] # 0
    BY <1>1, <1>2, <1>5
  <2> QED BY <1>1, <1>3, <2>1
<1>6. CASE ~(k <= hd[i] + 1)
  <2> DEFINE m == k - (hd[i] + 1)
  <2>0. k \in Nat /\ k <= hd[i] + 1 + tl[i] /\ k > hd[i] + 1
    BY <1>2, <1>6
  <2>4. m \in 1..tl[i]
    BY <1>2, <2>0
  <2>5. (s[i] + hd[i] + 1) + m = s[i] + k
    BY <1>2, <2>0
  <2>1. m \in 1..tl[i] /\ x = Pos(s, hd, i) + m
    BY <1>1, <1>2, <2>4, <2>5
  <2> HIDE DEF m
  <2>2. tl[i] = 1 => m = 1
    BY <2>1
  <2>3. tl[i] # 0
    BY <2>1
  <2> QED BY <1>3, <2>1, <2>2, <2>3
<1> QED BY <1>4, <1>5, <1>6

LEMMA NewParentBefore ==
    ASSUME NEW f, NEW p, NEW q, NEW W, NEW s, NEW hd, NEW tl, Layout(f, p, q, W, s, hd, tl),
           NEW g, g = NewParent(f, p, W, s, hd), NEW x \in 1..Len(q)
    PROVE  /\ g[x] \in 0..(x - 1)
           /\ g[x] # 0 => q[g[x]].kind \in Compound
           /\ q[x].kind \in Closing => g[x] # 0
<1>1. PICK i \in 1..Len(p) :
              \/ x = Lead(s, i)
              \/ /\ i \in W /\ hd[i] >= 1
                 /\ \E k \in 2..(hd[i] + 1) : x = s[i] + k
              \/ /\ p[i].kind \in Compound \cup {"else"}
                 /\ \E k \in 1..tl[i] : x = Pos(s, hd, i) + k
              \/ /\ p[i].kind \notin Compound \cup {"else"} /\ BlockEnds(f, p, W, i)
                 /\ tl[i] = 1 /\ x = Pos(s, hd, i) + 1
  BY NewParentIs
<1>2. /\ hd[i] \in Nat /\ tl[i] \in Nat /\ s[i] \in Nat
      /\ Pos(s, hd, i) = s[i] + hd[i] + 1 /\ Lead(s, i) = s[i] + 1 /\ f[i] \in 0..(i - 1)
      /\ Pos(s, hd, 0) = 0
  BY LayoutIs
<1>3. /\ Pos(s, hd, f[i]) \in Nat /\ Pos(s, hd, f[i]) < Lead(s, i)
      /\ f[i] # 0 => /\ f[i] \in 1..Len(p) /\ Lead(s, f[i]) \in Nat /\ Lead(s, f[i]) < Lead(s, i)
                     /\ Pos(s, hd, f[i]) \in Nat /\ Pos(s, hd, f[i]) > 0
  <2>1. f[i] # 0 => f[i] \in 1..Len(p)
    BY <1>2, LayoutIs
  <2>2. f[i] # 0 => Pos(s, hd, f[i]) > 0
    <3> SUFFICES ASSUME f[i] # 0 PROVE Pos(s, hd, f[i]) > 0
      OBVIOUS
    <3>1. Pos(s, hd, f[i]) = s[f[i]] + hd[f[i]] + 1 /\ s[f[i]] \in Nat /\ hd[f[i]] \in Nat
      BY <2>1, LayoutIs
    <3> QED BY <3>1
  <2> QED BY <1>2, <2>1, <2>2, LayoutOrder
<1>4. /\ f[i] # 0 => p[f[i]].kind \in Compound
      /\ p[i].kind \in Closing => f[i] # 0
  BY DEF Layout, Tree
<1>5. f[i] # 0 => q[Pos(s, hd, f[i])].kind \in Compound
  BY <1>3, <1>4, PieceParents
<1>6. "block" \in Compound /\ Compound \cap Closing = {} /\ "else" \notin Compound \cup Closing /\ "end" \in Closing
  BY DEF Compound, Closing
<1>7. Pos(s, hd, f[i]) # 0 => f[i] # 0
  BY <1>2
<1>8. CASE x = Lead(s, i)
  <2>1. g[x] = Pos(s, hd, f[i])
    BY <1>8, PieceParents
  <2>2. q[x].kind \in Closing => i \notin W /\ q[x].kind = p[i].kind
    <3>1. i \in W => q[x].kind = "block"
      BY <1>8, PieceParents
    <3>2. i \notin W => q[x].kind = p[i].kind
      BY <1>8, PieceParents
    <3> QED BY <1>6, <3>1, <3>2
  <2> QED BY <1>2, <1>3, <1>4, <1>5, <1>7, <1>8, <2>1, <2>2
<1>9. ASSUME i \in W, hd[i] >= 1, NEW k \in 2..(hd[i] + 1), x = s[i] + k
      PROVE  /\ g[x] \in 0..(x - 1)
             /\ g[x] # 0 => q[g[x]].kind \in Compound
             /\ q[x].kind \in Closing => g[x] # 0
  <2>1. g[x] = Lead(s, i) /\ q[Lead(s, i)].kind = "block"
    BY <1>9, PieceParents
  <2>2. k \in Nat /\ k >= 2
    BY <1>2
  <2>3. Lead(s, i) \in 0..((s[i] + k) - 1) /\ Lead(s, i) # 0
    <3>1. \A n, l, m \in Nat : l = n + 1 /\ m >= 2 => l \in 0..((n + m) - 1) /\ l # 0
      OBVIOUS
    <3>2. Lead(s, i) \in Nat
      BY <1>2
    <3> HIDE DEF Lead
    <3> QED BY <1>2, <2>2, <3>1, <3>2
  <2> QED BY <1>6, <1>9, <2>1, <2>3
<1>10. ASSUME p[i].kind \in Compound \cup {"else"}, NEW k \in 1..tl[i], x = Pos(s, hd, i) + k
       PROVE  /\ g[x] \in 0..(x - 1)
              /\ g[x] # 0 => q[g[x]].kind \in Compound
              /\ q[x].kind \in Closing => g[x] # 0
  <2>1. /\ Simple(q[x]) /\ q[Pos(s, hd, i)].kind = p[i].kind
        /\ p[i].kind \in Compound => g[x] = Pos(s, hd, i)
        /\ p[i].kind = "else" => g[x] = Pos(s, hd, f[i])
    BY <1>10, PieceParents
  <2>3. k \in Nat /\ k >= 1 /\ Pos(s, hd, i) \in Nat /\ Pos(s, hd, f[i]) < Pos(s, hd, i)
    BY <1>2, <1>3
  <2>2. Pos(s, hd, i) \in 0..((Pos(s, hd, i) + k) - 1) /\ Pos(s, hd, f[i]) \in 0..((Pos(s, hd, i) + k) - 1)
    BY <1>3, <2>3
  <2>4. g[x] \in 0..(x - 1)
    BY <1>10, <2>1, <2>2
  <2>5. q[x].kind \notin Closing
    BY <2>1 DEF Simple
  <2> QED BY <1>5, <1>7, <1>10, <2>1, <2>4, <2>5
<1>11. CASE /\ p[i].kind \notin Compound \cup {"else"} /\ BlockEnds(f, p, W, i)
            /\ tl[i] = 1 /\ x = Pos(s, hd, i) + 1
  <2>1. CASE p[i].kind \in Closing
    <3>1. g[x] = Lead(s, f[i]) /\ f[i] \in W /\ f[i] # 0
      BY <1>4, <1>11, <2>1, PieceParents DEF BlockEnds
    <3>2. q[Lead(s, f[i])].kind = "block" /\ Lead(s, f[i]) = s[f[i]] + 1 /\ s[f[i]] \in Nat
      BY <1>3, <3>1, PieceParents, LayoutIs
    <3>3. Lead(s, f[i]) \in Nat /\ Lead(s, f[i]) < Lead(s, i)
      BY <1>3, <3>1
    <3>4. Lead(s, f[i]) \in 0..((Pos(s, hd, i) + 1) - 1) /\ Lead(s, f[i]) # 0
      BY <1>2, <3>2, <3>3
    <3> QED BY <1>6, <1>11, <3>1, <3>2, <3>4
  <2>2. CASE p[i].kind \notin Closing
    <3>1. g[x] = Lead(s, i) /\ i \in W
      BY <1>11, <2>2, PieceParents DEF BlockEnds
    <3>2. q[Lead(s, i)].kind = "block"
      BY <3>1, PieceParents
    <3>3. Lead(s, i) \in 0..((Pos(s, hd, i) + 1) - 1) /\ Lead(s, i) # 0
      BY <1>2
    <3> QED BY <1>6, <1>11, <3>1, <3>2, <3>3
  <2> QED BY <2>1, <2>2
<1> QED BY <1>1, <1>8, <1>9, <1>10, <1>11

\* What follows the last item of a piece is in what item i + 1 is in.
LEMMA NextPieceParent ==
    ASSUME NEW f, NEW p, NEW q, NEW W, NEW s, NEW hd, NEW tl, Layout(f, p, q, W, s, hd, tl),
           NEW g, g = NewParent(f, p, W, s, hd), NEW h \in 1..Len(p), h + 1 \in 1..Len(p),
           NEW y, y = Pos(s, hd, h) + tl[h]
    PROVE  Pos(s, hd, f[h + 1]) =
              IF q[y].kind \in Compound THEN y
              ELSE IF q[y].kind \in Closing THEN g[g[y]]
              ELSE g[y]
<1> DEFINE i == h + 1
<1>1. /\ Tree(f, p) /\ h \in Nat /\ i \in 1..Len(p) /\ i # 1 /\ i - 1 = h
      /\ tl[h] \in Nat /\ Pos(s, hd, h) \in Nat
  <2>1. Tree(f, p) /\ Len(p) \in Nat
    BY DEF Layout, Tree
  <2>2. hd[h] \in Nat /\ tl[h] \in Nat /\ s[h] \in Nat /\ Pos(s, hd, h) = s[h] + hd[h] + 1
    BY LayoutIs
  <2> QED BY <2>1, <2>2
<1>2. /\ p[h].kind \in Compound => f[i] = h
      /\ p[h].kind \in Closing => f[h] \in 1..(h - 1) /\ f[i] = f[f[h]]
      /\ p[h].kind \notin Compound \cup Closing => f[i] = f[h]
  <2> HIDE DEF i
  <2>1. p[h].kind \in Closing => f[h] \in 1..(i - 2) /\ f[i] = f[f[h]]
    BY <1>1, TreeStep
  <2>2. i - 2 = h - 1
    BY <1>1 DEF i
  <2> QED BY <1>1, <2>1, <2>2, TreeStep
<1>3. Compound \cap Closing = {} /\ "else" \notin Compound \cup Closing /\ "end" \in Closing
  BY DEF Compound, Closing
<1> HIDE DEF i
<1>4. f[h] # 0 => f[h] \in 1..Len(p)
  <2>1. f[h] \in 0..(h - 1) /\ Len(p) \in Nat
    BY <1>1 DEF Tree
  <2> QED BY <1>1, <2>1
<1>5. q[Pos(s, hd, h)].kind = p[h].kind
  BY PieceParents
<1>6. CASE p[h].kind \in Compound
  <2>1. CASE tl[h] = 0
    BY <1>1, <1>2, <1>5, <1>6, <2>1 DEF i
  <2>2. CASE tl[h] # 0
    <3>1. tl[h] \in 1..tl[h]
      BY <1>1, <2>2
    <3>2. Simple(q[y]) /\ g[y] = Pos(s, hd, h)
      BY <1>6, <3>1, PieceParents
    <3> QED BY <1>2, <1>6, <3>2 DEF Simple, i
  <2> QED BY <2>1, <2>2
<1>7. CASE p[h].kind = "else"
  <2>0. h \notin W
    BY <1>7 DEF Layout
  <2>1. CASE tl[h] = 0
    <3>1. y = Pos(s, hd, h) /\ g[y] = Pos(s, hd, f[h])
      BY <1>1, <2>0, <2>1, PieceParents
    <3> QED BY <1>2, <1>3, <1>5, <1>7, <3>1 DEF i
  <2>2. CASE tl[h] # 0
    <3>1. tl[h] \in 1..tl[h]
      BY <1>1, <2>2
    <3>2. Simple(q[y]) /\ g[y] = Pos(s, hd, f[h])
      BY <1>7, <3>1, PieceParents
    <3> QED BY <1>2, <1>3, <1>7, <3>2 DEF Simple, i
  <2> QED BY <2>1, <2>2
<1>8. CASE p[h].kind \in Closing
  <2>0. h \notin W /\ p[h].kind \notin Compound \cup {"else"} /\ f[h] \in 1..Len(p)
    <3>1. h \notin W
      BY <1>8 DEF Layout
    <3>2. f[h] # 0
      BY <1>1, <1>8 DEF Tree
    <3> QED BY <1>3, <1>4, <1>8, <3>1, <3>2
  <2>1. CASE f[h] \in W
    <3>1. tl[h] = 1 /\ q[y].kind = "end" /\ g[y] = Lead(s, f[h])
      BY <1>8, <2>0, <2>1, PieceParents DEF BlockEnds
    <3>2. g[Lead(s, f[h])] = Pos(s, hd, f[f[h]])
      BY <2>0, PieceParents
    <3> QED BY <1>2, <1>3, <1>8, <3>1, <3>2 DEF i
  <2>2. CASE f[h] \notin W
    <3>1. tl[h] = 0
      BY <1>8, <2>0, <2>2, PieceParents DEF BlockEnds
    <3>2. y = Pos(s, hd, h)
      BY <1>1, <3>1
    <3>3. g[y] = Pos(s, hd, f[h]) /\ g[Pos(s, hd, f[h])] = Pos(s, hd, f[f[h]])
      BY <2>0, <2>2, <3>2, PieceParents
    <3> QED BY <1>2, <1>3, <1>5, <1>8, <3>2, <3>3 DEF i
  <2> QED BY <2>1, <2>2
<1>9. CASE p[h].kind \notin Compound \cup Closing \cup {"else"}
  <2>1. CASE h \in W
    <3>1. tl[h] = 1 /\ q[y].kind = "end" /\ g[y] = Lead(s, h)
      BY <1>9, <2>1, PieceParents DEF BlockEnds
    <3>2. g[Lead(s, h)] = Pos(s, hd, f[h])
      BY PieceParents
    <3> QED BY <1>2, <1>3, <1>9, <3>1, <3>2 DEF i
  <2>2. CASE h \notin W
    <3>1. tl[h] = 0
      BY <1>9, <2>2, PieceParents DEF BlockEnds
    <3>2. y = Pos(s, hd, h)
      BY <1>1, <3>1
    <3>3. g[y] = Pos(s, hd, f[h])
      BY <2>2, <3>2, PieceParents
    <3> QED BY <1>2, <1>5, <1>9, <3>2, <3>3 DEF i
  <2> QED BY <2>1, <2>2
<1> QED BY <1>6, <1>7, <1>8, <1>9

LEMMA LayoutTree ==
    ASSUME NEW f, NEW p, NEW q, NEW W, NEW s, NEW hd, NEW tl, Layout(f, p, q, W, s, hd, tl),
           NEW g, g = NewParent(f, p, W, s, hd)
    PROVE  Tree(g, q)
<1>1. Len(q) \in Nat /\ DOMAIN q = 1..Len(q) /\ Len(q) = s[Len(p) + 1] /\ Tree(f, p) /\ Len(p) \in Nat
  <2>1. Len(q) = s[Len(p) + 1] /\ DOMAIN q = 1..Len(q) /\ Tree(f, p) /\ Len(p) \in Nat
        /\ Offsets(s, Len(p), [i \in 1..Len(p) |-> hd[i] + 1 + tl[i]])
    BY DEF Layout, Tree
  <2>2. Len(p) + 1 \in 1..(Len(p) + 1)
    BY <2>1
  <2> QED BY <2>1, <2>2 DEF Offsets
<1>2. Compound \cap Closing = {} /\ "else" \notin Compound \cup Closing /\ "block" \in Compound
  BY DEF Compound, Closing
<1> DEFINE Rule(x) == IF x = 1 THEN 0
                      ELSE IF q[x - 1].kind \in Compound THEN x - 1
                      ELSE IF q[x - 1].kind \in Closing THEN g[g[x - 1]]
                      ELSE g[x - 1]
<1>3. ASSUME NEW x \in 1..Len(q) PROVE g[x] = Rule(x)
  <2>1. PICK i \in 1..Len(p) :
              \/ x = Lead(s, i)
              \/ /\ i \in W /\ hd[i] >= 1
                 /\ \E k \in 2..(hd[i] + 1) : x = s[i] + k
              \/ /\ p[i].kind \in Compound \cup {"else"}
                 /\ \E k \in 1..tl[i] : x = Pos(s, hd, i) + k
              \/ /\ p[i].kind \notin Compound \cup {"else"} /\ BlockEnds(f, p, W, i)
                 /\ tl[i] = 1 /\ x = Pos(s, hd, i) + 1
    BY NewParentIs
  <2>2. /\ hd[i] \in Nat /\ tl[i] \in Nat /\ s[i] \in Nat
        /\ Pos(s, hd, i) = s[i] + hd[i] + 1 /\ Lead(s, i) = s[i] + 1 /\ f[i] \in 0..(i - 1)
        /\ Pos(s, hd, 0) = 0
    BY LayoutIs
  <2>3. CASE x = Lead(s, i)
    <3>1. g[x] = Pos(s, hd, f[i])
      BY <2>3, PieceParents
    <3>2. CASE i = 1
      <4>1. x = 1 /\ f[i] = 0
        <5>1. s[1] = 0
          BY LayoutIs
        <5>2. f[i] = 0
          BY <2>2, <3>2
        <5> QED BY <2>2, <2>3, <3>2, <5>1, <5>2
      <4> QED BY <2>2, <3>1, <4>1
    <3>3. CASE i # 1
      <4> DEFINE h == i - 1
                 y == x - 1
      <4>1. h \in 1..Len(p) /\ h + 1 = i /\ h \in 0..(i - 1) /\ h # 0
        BY <1>1, <3>3
      <4>2. Pos(s, hd, h) + tl[h] = Lead(s, i) - 1
        BY <4>1, LayoutOrder
      <4>3. y = Pos(s, hd, h) + tl[h] /\ x # 1
        <5>1. Pos(s, hd, h) = s[h] + hd[h] + 1 /\ s[h] \in Nat /\ hd[h] \in Nat /\ tl[h] \in Nat
          BY <4>1, LayoutIs
        <5> QED BY <2>2, <2>3, <4>2, <5>1
      <4> HIDE DEF h, y
      <4>4. Pos(s, hd, f[h + 1]) =
                IF q[y].kind \in Compound THEN y
                ELSE IF q[y].kind \in Closing THEN g[g[y]]
                ELSE g[y]
        BY <4>1, <4>3, NextPieceParent
      <4> QED BY <3>1, <4>1, <4>3, <4>4 DEF y
    <3> QED BY <3>2, <3>3
  <2>4. ASSUME i \in W, hd[i] >= 1, NEW k \in 2..(hd[i] + 1), x = s[i] + k
        PROVE  g[x] = Rule(x)
    <3>1. g[x] = Lead(s, i) /\ q[Lead(s, i)].kind = "block"
      BY <2>4, PieceParents
    <3>0. k \in Nat /\ k >= 2 /\ s[i] \in Nat
      BY <2>2
    <3>2. x # 1 /\ x - 1 = s[i] + (k - 1)
      BY <2>4, <3>0
    <3>3. CASE k = 2
      <4>1. x - 1 = Lead(s, i)
        BY <2>2, <3>2, <3>3
      <4> QED BY <1>2, <3>1, <3>2, <4>1
    <3>4. CASE k # 2
      <4>1. k - 1 \in 2..hd[i] /\ k - 1 \in 2..(hd[i] + 1)
        BY <2>2, <2>4, <3>4
      <4>2. Simple(q[x - 1]) /\ g[x - 1] = Lead(s, i)
        BY <2>4, <3>2, <4>1, PieceParents
      <4> QED BY <3>1, <3>2, <4>2 DEF Simple
    <3> QED BY <3>3, <3>4
  <2>5. ASSUME p[i].kind \in Compound \cup {"else"}, NEW k \in 1..tl[i], x = Pos(s, hd, i) + k
        PROVE  g[x] = Rule(x)
    <3>1. /\ q[Pos(s, hd, i)].kind = p[i].kind
          /\ p[i].kind \in Compound => g[x] = Pos(s, hd, i)
          /\ p[i].kind = "else" => g[x] = Pos(s, hd, f[i])
      BY <2>5, PieceParents
    <3>2. x # 1 /\ x - 1 = Pos(s, hd, i) + (k - 1)
      BY <2>2, <2>5
    <3>3. CASE k = 1
      <4>1. x - 1 = Pos(s, hd, i)
        BY <2>2, <3>2, <3>3
      <4>2. p[i].kind = "else" => g[x - 1] = Pos(s, hd, f[i])
        <5>1. p[i].kind = "else" => i \notin W
          BY DEF Layout
        <5> QED BY <4>1, <5>1, PieceParents
      <4> QED BY <1>2, <2>5, <3>1, <3>2, <4>1, <4>2
    <3>4. CASE k # 1
      <4>1. k - 1 \in 1..tl[i]
        BY <2>2, <2>5, <3>4
      <4>2. /\ Simple(q[x - 1])
            /\ p[i].kind \in Compound => g[x - 1] = Pos(s, hd, i)
            /\ p[i].kind = "else" => g[x - 1] = Pos(s, hd, f[i])
        BY <2>5, <3>2, <4>1, PieceParents
      <4> QED BY <2>5, <3>1, <3>2, <4>2 DEF Simple
    <3> QED BY <3>3, <3>4
  <2>6. CASE /\ p[i].kind \notin Compound \cup {"else"} /\ BlockEnds(f, p, W, i)
             /\ tl[i] = 1 /\ x = Pos(s, hd, i) + 1
    <3>1. x # 1 /\ x - 1 = Pos(s, hd, i) /\ q[Pos(s, hd, i)].kind = p[i].kind
      BY <2>2, <2>6, PieceParents
    <3>2. CASE p[i].kind \in Closing
      <4>1. f[i] \in W /\ g[x] = Lead(s, f[i]) /\ i \notin W
        <5>1. i \notin W
          BY <3>2 DEF Layout
        <5> QED BY <2>6, <3>2, <5>1, PieceParents DEF BlockEnds
      <4>2. g[x - 1] = Pos(s, hd, f[i])
        BY <3>1, <4>1, PieceParents
      <4>3. g[Pos(s, hd, f[i])] = Lead(s, f[i])
        <5>1. f[i] \in 1..Len(p)
          BY <4>1 DEF Layout
        <5> QED BY <4>1, <5>1, PieceParents
      <4> QED BY <2>6, <3>1, <3>2, <4>1, <4>2, <4>3
    <3>3. CASE p[i].kind \notin Closing
      <4>1. i \in W /\ g[x] = Lead(s, i) /\ g[x - 1] = Lead(s, i)
        BY <2>6, <3>1, <3>3, PieceParents DEF BlockEnds
      <4> QED BY <2>6, <3>1, <3>3, <4>1
    <3> QED BY <3>2, <3>3
  <2> QED BY <2>1, <2>3, <2>4, <2>5, <2>6
<1>4. g = [x \in 1..Len(q) |-> g[x]]
  BY <1>1 DEF NewParent
<1>5. g = [x \in 1..Len(q) |-> Rule(x)]
  <2> HIDE DEF Rule
  <2> QED BY <1>3, <1>4
<1>6. Computes(g, q)
  BY <1>1, <1>5 DEF Computes
<1> QED BY <1>1, <1>6, NewParentBefore DEF Tree

\* A block ends right behind what it was opened in front of.
LEMMA LayoutEnding ==
    ASSUME NEW f, NEW p, NEW q, NEW W, NEW s, NEW hd, NEW tl, Layout(f, p, q, W, s, hd, tl),
           NEW g, g = NewParent(f, p, W, s, hd), NEW k \in 1..Len(p)
    PROVE  /\ LastOf(p, k) \in k..Len(p)
           /\ p[k].kind \in Compound => Ends(g, q, Pos(s, hd, k), Pos(s, hd, LastOf(p, k)))
           /\ k \in W => Ends(g, q, Lead(s, k), Pos(s, hd, LastOf(p, k)) + 1)
           /\ k \in W => tl[LastOf(p, k)] = 1
           /\ k \notin W /\ p[k].kind \in Compound => tl[LastOf(p, k)] = 0
<1> DEFINE e == LastOf(p, k)
<1>1. Tree(f, p) /\ Closed(f, p) /\ Len(p) \in Nat
  BY DEF Layout, Tree
<1>2. Compound \cap Closing = {} /\ "else" \notin Compound \cup Closing /\ "end" \in Closing
  BY DEF Compound, Closing
<1>3. /\ e \in 1..Len(p) /\ e \in k..Len(p)
      /\ p[k].kind \in Compound => p[e].kind \in Closing /\ f[e] = k
      /\ p[k].kind \notin Compound => e = k
  BY <1>1, EndIs DEF LastOf, Ends
<1> HIDE DEF e
<1>4. ASSUME NEW m \in 1..(hd[e] + 1 + tl[e]) PROVE s[e] + m \in 1..Len(q)
  BY <1>3, <1>4, LayoutIs
<1>5. /\ hd[e] \in Nat /\ tl[e] \in Nat /\ s[e] \in Nat /\ Pos(s, hd, e) = s[e] + hd[e] + 1
  BY <1>3, LayoutIs
<1>6. Pos(s, hd, e) \in 1..Len(q) /\ (tl[e] = 1 => Pos(s, hd, e) + 1 \in 1..Len(q))
  <2>1. hd[e] + 1 \in 1..(hd[e] + 1 + tl[e]) /\ s[e] + (hd[e] + 1) = Pos(s, hd, e)
    BY <1>5
  <2>2. tl[e] = 1 => hd[e] + 2 \in 1..(hd[e] + 1 + tl[e]) /\ s[e] + (hd[e] + 2) = Pos(s, hd, e) + 1
    BY <1>5
  <2>3. s[e] + (hd[e] + 1) \in 1..Len(q)
    BY <1>4, <2>1
  <2>4. tl[e] = 1 => s[e] + (hd[e] + 2) \in 1..Len(q)
    BY <1>4, <2>2
  <2> QED BY <2>1, <2>2, <2>3, <2>4
<1>7. \A i \in W : p[i].kind \notin Closing \cup {"else"}
  BY DEF Layout
<1>8. p[k].kind \in Compound => Ends(g, q, Pos(s, hd, k), Pos(s, hd, e))
  <2> SUFFICES ASSUME p[k].kind \in Compound PROVE Ends(g, q, Pos(s, hd, k), Pos(s, hd, e))
    OBVIOUS
  <2>1. p[e].kind \in Closing /\ f[e] = k /\ e \notin W
    BY <1>3, <1>7
  <2>2. q[Pos(s, hd, e)].kind = p[e].kind /\ g[Pos(s, hd, e)] = Pos(s, hd, f[e])
    BY <1>3, <2>1, PieceParents
  <2> QED BY <1>6, <2>1, <2>2 DEF Ends
<1>9. ASSUME k \in W
      PROVE  Ends(g, q, Lead(s, k), Pos(s, hd, e) + 1) /\ tl[e] = 1
  <2>1. CASE p[k].kind \in Compound
    <3>1. p[e].kind \in Closing /\ f[e] = k /\ p[e].kind \notin Compound \cup {"else"}
      BY <1>2, <1>3, <2>1
    <3>2. BlockEnds(f, p, W, e)
      BY <1>9, <3>1 DEF BlockEnds
    <3>3. tl[e] = 1 /\ q[Pos(s, hd, e) + 1].kind = "end" /\ g[Pos(s, hd, e) + 1] = Lead(s, f[e])
      BY <1>3, <3>1, <3>2, PieceParents
    <3> QED BY <1>2, <1>6, <3>1, <3>3 DEF Ends
  <2>2. CASE p[k].kind \notin Compound
    <3>1. e = k /\ p[e].kind \notin Compound \cup {"else"} /\ p[e].kind \notin Closing
      BY <1>3, <1>7, <1>9, <2>2
    <3>2. BlockEnds(f, p, W, e)
      BY <1>9, <3>1 DEF BlockEnds
    <3>3. tl[e] = 1 /\ q[Pos(s, hd, e) + 1].kind = "end" /\ g[Pos(s, hd, e) + 1] = Lead(s, e)
      BY <1>3, <3>1, <3>2, PieceParents
    <3> QED BY <1>2, <1>6, <3>1, <3>3 DEF Ends
  <2> QED BY <2>1, <2>2
<1>10. ASSUME k \notin W, p[k].kind \in Compound PROVE tl[e] = 0
  <2>1. p[e].kind \in Closing /\ f[e] = k /\ p[e].kind \notin Compound \cup {"else"}
    BY <1>2, <1>3, <1>10
  <2>2. ~BlockEnds(f, p, W, e)
    BY <1>10, <2>1 DEF BlockEnds
  <2> QED BY <1>3, <2>1, <2>2, PieceParents
<1> QED BY <1>3, <1>8, <1>9, <1>10 DEF e

LEMMA LayoutClosed ==
    ASSUME NEW f, NEW p, NEW q, NEW W, NEW s, NEW hd, NEW tl, Layout(f, p, q, W, s, hd, tl),
           NEW g, g = NewParent(f, p, W, s, hd)
    PROVE  Closed(g, q)
<1> SUFFICES ASSUME NEW x \in 1..Len(q), q[x].kind \in Compound
             PROVE  \E y : Ends(g, q, x, y)
  BY DEF Closed, Ends
<1>1. PICK i \in 1..Len(p) :
              \/ x = Lead(s, i)
              \/ /\ i \in W /\ hd[i] >= 1
                 /\ \E k \in 2..(hd[i] + 1) : x = s[i] + k
              \/ /\ p[i].kind \in Compound \cup {"else"}
                 /\ \E k \in 1..tl[i] : x = Pos(s, hd, i) + k
              \/ /\ p[i].kind \notin Compound \cup {"else"} /\ BlockEnds(f, p, W, i)
                 /\ tl[i] = 1 /\ x = Pos(s, hd, i) + 1
  BY NewParentIs
<1>2. ~Simple(q[x]) /\ "end" \notin Compound
  BY DEF Simple, Compound
<1>3. x = Lead(s, i) \/ x = Pos(s, hd, i)
  <2>1. ASSUME i \in W, NEW k \in 2..(hd[i] + 1), x = s[i] + k PROVE x = Pos(s, hd, i)
    <3>1. k \notin 2..hd[i]
      BY <1>2, <2>1, PieceParents
    <3>2. hd[i] \in Nat /\ s[i] \in Nat /\ Pos(s, hd, i) = s[i] + hd[i] + 1
      BY LayoutIs
    <3>3. k \in Nat /\ 2 <= k /\ k <= hd[i] + 1
      BY <3>2
    <3>4. k = hd[i] + 1
      BY <3>1, <3>2, <3>3
    <3>5. s[i] + (hd[i] + 1) = s[i] + hd[i] + 1
      BY <3>2
    <3> QED BY <2>1, <3>2, <3>4, <3>5
  <2>2. ~(p[i].kind \in Compound \cup {"else"} /\ \E k \in 1..tl[i] : x = Pos(s, hd, i) + k)
    BY <1>2, PieceParents
  <2>3. ~(p[i].kind \notin Compound \cup {"else"} /\ BlockEnds(f, p, W, i) /\ x = Pos(s, hd, i) + 1)
    BY <1>2, PieceParents
  <2> QED BY <1>1, <2>1, <2>2, <2>3
<1>4. q[Pos(s, hd, i)].kind = p[i].kind /\ (i \notin W => Pos(s, hd, i) = Lead(s, i))
  BY PieceParents
<1> QED BY <1>3, <1>4, LayoutEnding

LEMMA LayoutLast ==
    ASSUME NEW f, NEW p, NEW q, NEW W, NEW s, NEW hd, NEW tl, Layout(f, p, q, W, s, hd, tl),
           NEW k \in 1..Len(p)
    PROVE  /\ LastOf(q, Pos(s, hd, k)) = Pos(s, hd, LastOf(p, k))
           /\ k \in W => LastOf(q, Lead(s, k)) = Pos(s, hd, LastOf(p, k)) + 1
<1>0. PICK g : g = NewParent(f, p, W, s, hd)
  OBVIOUS
<1>1. Tree(g, q) /\ Closed(g, q)
  BY <1>0, LayoutTree, LayoutClosed
<1>2. ASSUME NEW x, NEW y, Ends(g, q, x, y), q[x].kind \in Compound PROVE LastOf(q, x) = y
  <2>1. x \in 1..Len(q)
    BY <1>1, <1>2 DEF Ends, Tree
  <2> QED BY <1>1, <1>2, <2>1, EndIs DEF LastOf
<1>3. q[Pos(s, hd, k)].kind = p[k].kind /\ (k \in W => q[Lead(s, k)].kind = "block")
  BY <1>0, PieceParents
<1>4. p[k].kind \in Compound => LastOf(q, Pos(s, hd, k)) = Pos(s, hd, LastOf(p, k))
  BY <1>2, <1>3, LayoutEnding, <1>0
<1>5. p[k].kind \notin Compound => LastOf(q, Pos(s, hd, k)) = Pos(s, hd, LastOf(p, k))
  BY <1>3 DEF LastOf
<1>6. k \in W => LastOf(q, Lead(s, k)) = Pos(s, hd, LastOf(p, k)) + 1
  <2>1. "block" \in Compound
    BY DEF Compound
  <2> QED BY <1>0, <1>2, <1>3, <2>1, LayoutEnding
<1> QED BY <1>4, <1>5, <1>6

\* The blocks apart, what was around an item still is.
LEMMA LayoutEnclosing ==
    ASSUME NEW f, NEW p, NEW q, NEW W, NEW s, NEW hd, NEW tl, Layout(f, p, q, W, s, hd, tl),
           NEW kinds, "block" \notin kinds
    PROVE  \A i \in 1..Len(p) :
              /\ Enclosing(q, Pos(s, hd, i), kinds) = Pos(s, hd, Enclosing(p, i, kinds))
              /\ Enclosing(q, Lead(s, i), kinds) = Pos(s, hd, Enclosing(p, i, kinds))
<1>0. PICK g : g = NewParent(f, p, W, s, hd)
  OBVIOUS
<1> DEFINE Same(i) == /\ Enclosing(q, Pos(s, hd, i), kinds) = Pos(s, hd, Enclosing(p, i, kinds))
                      /\ Enclosing(q, Lead(s, i), kinds) = Pos(s, hd, Enclosing(p, i, kinds))
           T == {i \in 1..Len(p) : ~Same(i)}
<1> SUFFICES ASSUME T # {} PROVE FALSE
  OBVIOUS
<1>1. Tree(f, p) /\ Len(p) \in Nat /\ Tree(g, q)
  <2>1. Tree(f, p) /\ Len(p) \in Nat
    BY DEF Layout, Tree
  <2> HIDE DEF T
  <2> QED BY <1>0, <2>1, LayoutTree
<1>2. PICK i \in T : \A y \in T : i <= y
  <2>1. \A y \in T : y \in Nat
    BY <1>1
  <2>2. T \in SUBSET Nat
    BY <2>1
  <2> HIDE DEF T
  <2> QED BY <2>2, LeastNumber
<1>3. i \in 1..Len(p) /\ ~Same(i)
  OBVIOUS
<1>4. \A j \in 1..(i - 1) : Same(j)
  <2> SUFFICES ASSUME NEW j \in 1..(i - 1) PROVE Same(j)
    OBVIOUS
  <2>1. j \in 1..Len(p) /\ ~(i <= j)
    BY <1>1, <1>3
  <2>2. j \notin T
    <3> HIDE DEF T
    <3> QED BY <1>2, <2>1
  <2> HIDE DEF Same
  <2> QED BY <2>1, <2>2
<1> HIDE DEF T
<1>5. /\ f[i] \in 0..(i - 1) /\ Pos(s, hd, 0) = 0 /\ (f[i] # 0 => Pos(s, hd, f[i]) # 0)
      /\ Lead(s, i) \in 1..Len(q) /\ Pos(s, hd, i) \in 1..Len(q) /\ Lead(s, i) # 0
  <2>1. /\ f[i] \in 0..(i - 1) /\ hd[i] \in Nat /\ tl[i] \in Nat /\ s[i] \in Nat
        /\ \A k \in 1..(hd[i] + 1 + tl[i]) : s[i] + k \in 1..Len(q)
        /\ Pos(s, hd, i) = s[i] + hd[i] + 1 /\ Lead(s, i) = s[i] + 1 /\ Pos(s, hd, 0) = 0
    BY <1>3, LayoutIs
  <2>2. f[i] # 0 => Pos(s, hd, f[i]) # 0
    <3> SUFFICES ASSUME f[i] # 0 PROVE Pos(s, hd, f[i]) # 0
      OBVIOUS
    <3>1. f[i] \in 1..Len(p)
      BY <1>1, <1>3, <2>1
    <3>2. Pos(s, hd, f[i]) = s[f[i]] + hd[f[i]] + 1 /\ s[f[i]] \in Nat /\ hd[f[i]] \in Nat
      BY <3>1, LayoutIs
    <3> QED BY <3>2
  <2>3. 1 \in 1..(hd[i] + 1 + tl[i]) /\ hd[i] + 1 \in 1..(hd[i] + 1 + tl[i])
        /\ s[i] + (hd[i] + 1) = s[i] + hd[i] + 1
    BY <2>1
  <2>4. s[i] + 1 \in 1..Len(q) /\ s[i] + (hd[i] + 1) \in 1..Len(q)
    BY <2>1, <2>3
  <2> QED BY <2>1, <2>2, <2>3, <2>4
<1>6. f[i] # 0 => f[i] \in 1..(i - 1) /\ f[i] \in 1..Len(p)
  BY <1>1, <1>3, <1>5
<1>7. Enclosing(p, i, kinds) = IF f[i] = 0 \/ p[f[i]].kind \in kinds THEN f[i]
                               ELSE Enclosing(p, f[i], kinds)
  BY <1>1, <1>3, EnclosingStep
<1>8. Enclosing(q, Lead(s, i), kinds) = Pos(s, hd, Enclosing(p, i, kinds))
  <2>1. g[Lead(s, i)] = Pos(s, hd, f[i])
    BY <1>3, <1>0, PieceParents
  <2>2. Enclosing(q, Lead(s, i), kinds) =
            IF Pos(s, hd, f[i]) = 0 \/ q[Pos(s, hd, f[i])].kind \in kinds THEN Pos(s, hd, f[i])
            ELSE Enclosing(q, Pos(s, hd, f[i]), kinds)
    BY <1>1, <1>5, <2>1, EnclosingStep
  <2>3. f[i] # 0 => q[Pos(s, hd, f[i])].kind = p[f[i]].kind
    BY <1>6, PieceParents
  <2> QED BY <1>4, <1>5, <1>6, <1>7, <2>2, <2>3
<1>9. Enclosing(q, Pos(s, hd, i), kinds) = Pos(s, hd, Enclosing(p, i, kinds))
  <2>1. CASE i \in W
    <3>1. g[Pos(s, hd, i)] = Lead(s, i) /\ q[Lead(s, i)].kind = "block"
      BY <1>3, <2>1, <1>0, PieceParents
    <3>2. Enclosing(q, Pos(s, hd, i), kinds) = Enclosing(q, Lead(s, i), kinds)
      BY <1>1, <1>5, <3>1, EnclosingStep
    <3> QED BY <1>8, <3>2
  <2>2. CASE i \notin W
    <3>1. Pos(s, hd, i) = Lead(s, i)
      BY <1>3, <2>2, PieceParents
    <3> QED BY <1>8, <3>1
  <2> QED BY <2>1, <2>2
<1> QED BY <1>3, <1>8, <1>9

\* The next piece begins with a statement if its item is one.
LEMMA LayoutStatement ==
    ASSUME NEW f, NEW p, NEW q, NEW W, NEW s, NEW hd, NEW tl, Layout(f, p, q, W, s, hd, tl),
           NEW e \in 1..Len(p)
    PROVE  /\ IsStatement(q, Pos(s, hd, e)) <=> IsStatement(p, e)
           /\ e \in W => IsStatement(p, e) /\ IsStatement(q, Lead(s, e))
           /\ IsStatement(q, Lead(s, e)) <=> IsStatement(p, e)
           /\ Pos(s, hd, e) + tl[e] + 1 = Lead(s, e + 1)
           /\ IsStatement(q, Lead(s, e + 1)) <=> IsStatement(p, e + 1)
           /\ Pos(s, hd, e) \in 1..Len(q) /\ Lead(s, e) \in 1..Len(q)
<1>1. Len(p) \in Nat /\ DOMAIN p = 1..Len(p) /\ DOMAIN q = 1..Len(q) /\ Len(q) = s[Len(p) + 1]
  BY DEF Layout, Tree
<1>2. ASSUME NEW i \in 1..Len(p)
      PROVE  /\ Pos(s, hd, i) \in 1..Len(q) /\ Lead(s, i) \in 1..Len(q)
             /\ q[Pos(s, hd, i)].kind = p[i].kind
             /\ i \in W => q[Lead(s, i)].kind = "block" /\ p[i].kind \notin Closing \cup {"else"}
             /\ i \notin W => Lead(s, i) = Pos(s, hd, i)
  <2>1. /\ hd[i] \in Nat /\ tl[i] \in Nat /\ s[i] \in Nat
        /\ \A k \in 1..(hd[i] + 1 + tl[i]) : s[i] + k \in 1..Len(q)
        /\ Pos(s, hd, i) = s[i] + hd[i] + 1 /\ Lead(s, i) = s[i] + 1
    BY LayoutIs
  <2>3. 1 \in 1..(hd[i] + 1 + tl[i]) /\ hd[i] + 1 \in 1..(hd[i] + 1 + tl[i])
        /\ s[i] + (hd[i] + 1) = s[i] + hd[i] + 1
    BY <2>1
  <2>4. s[i] + 1 \in 1..Len(q) /\ s[i] + (hd[i] + 1) \in 1..Len(q)
    BY <2>1, <2>3
  <2>5. i \in W => p[i].kind \notin Closing \cup {"else"}
    BY DEF Layout
  <2> QED BY <2>1, <2>3, <2>4, <2>5, PieceParents
<1>3. ASSUME NEW i \in 1..Len(p)
      PROVE  /\ IsStatement(q, Pos(s, hd, i)) <=> IsStatement(p, i)
             /\ i \in W => IsStatement(p, i) /\ IsStatement(q, Lead(s, i))
             /\ IsStatement(q, Lead(s, i)) <=> IsStatement(p, i)
  <2>1. "end" \in Closing
    BY DEF Closing
  <2> QED BY <1>1, <1>2, <2>1 DEF IsStatement
<1>4. /\ hd[e] \in Nat /\ tl[e] \in Nat /\ s[e] \in Nat
      /\ s[e + 1] = s[e] + hd[e] + 1 + tl[e] /\ s[e + 1] \in Nat
      /\ Pos(s, hd, e) = s[e] + hd[e] + 1
  BY LayoutIs
<1>5. Pos(s, hd, e) + tl[e] + 1 = Lead(s, e + 1)
  BY <1>4 DEF Lead
<1>6. IsStatement(q, Lead(s, e + 1)) <=> IsStatement(p, e + 1)
  <2>1. CASE e + 1 \in 1..Len(p)
    BY <1>3, <2>1
  <2>2. CASE e + 1 \notin 1..Len(p)
    <3>0. e \in Nat /\ Len(p) \in Nat /\ 1 <= e /\ e <= Len(p)
      BY <1>1
    <3>1. e = Len(p)
      BY <2>2, <3>0
    <3>2. Len(q) = s[e + 1]
      BY <1>1, <3>1
    <3>3. Lead(s, e + 1) \notin 1..Len(q)
      BY <1>4, <3>2 DEF Lead
    <3> QED BY <1>1, <2>2, <3>3 DEF IsStatement
  <2> QED BY <2>1, <2>2
<1> QED BY <1>2, <1>3, <1>5, <1>6

\* Control falls where it fell before.
LEMMA LayoutFall ==
    ASSUME NEW f, NEW p, NEW q, NEW W, NEW s, NEW hd, NEW tl, Layout(f, p, q, W, s, hd, tl)
    PROVE  \A i \in Statements(p) : p[i].kind \notin Closing =>
              /\ Fall(q)[Lead(s, i)] = Land(s, hd, i, Fall(p)[i])
              /\ Fall(q)[Pos(s, hd, i)] = Land(s, hd, i, Fall(p)[i])
<1>0. PICK g : g = NewParent(f, p, W, s, hd)
  OBVIOUS
<1> DEFINE Same(i) == /\ Fall(q)[Lead(s, i)] = Land(s, hd, i, Fall(p)[i])
                      /\ Fall(q)[Pos(s, hd, i)] = Land(s, hd, i, Fall(p)[i])
           T == {i \in Statements(p) : p[i].kind \notin Closing /\ ~Same(i)}
<1> SUFFICES ASSUME T # {} PROVE FALSE
  OBVIOUS
<1>1. Tree(f, p) /\ Closed(f, p) /\ Len(p) \in Nat /\ DOMAIN p = 1..Len(p) /\ Tree(g, q) /\ Closed(g, q)
  <2>1. Tree(f, p) /\ Closed(f, p) /\ Len(p) \in Nat /\ DOMAIN p = 1..Len(p)
    BY DEF Layout, Tree
  <2> HIDE DEF T
  <2> QED BY <1>0, <2>1, LayoutTree, LayoutClosed
<1>2. PICK i \in T : \A y \in T : i <= y
  <2>1. \A y \in T : y \in Nat
    BY <1>1 DEF Statements
  <2>2. T \in SUBSET Nat
    BY <2>1
  <2> HIDE DEF T
  <2> QED BY <2>2, LeastNumber
<1>3. i \in Statements(p) /\ i \in 1..Len(p) /\ p[i].kind \notin Closing /\ ~Same(i)
  BY <1>1 DEF Statements
<1>4. \A j \in Statements(p) : j < i /\ p[j].kind \notin Closing => Same(j)
  <2> SUFFICES ASSUME NEW j \in Statements(p), j < i, p[j].kind \notin Closing PROVE Same(j)
    OBVIOUS
  <2>1. ~(i <= j)
    BY <1>1, <1>3 DEF Statements
  <2>2. j \notin T
    <3> HIDE DEF T
    <3> QED BY <1>2, <2>1
  <2> HIDE DEF Same
  <2> QED BY <2>2
<1> HIDE DEF T
<1> DEFINE m == LastOf(p, i)
           up == f[i]
           x == IF i \in W THEN Lead(s, i) ELSE Pos(s, hd, i)
           t == Fall(p)[i]
<1>5. /\ m \in i..Len(p) /\ m \in 1..Len(p)
      /\ i \in W => tl[m] = 1
      /\ i \notin W /\ p[i].kind \in Compound => tl[m] = 0
  BY <1>1, <1>3, LayoutEnding
<1>6. i \notin W => Lead(s, i) = Pos(s, hd, i)
  BY <1>3, PieceParents
<1>7. Follower(q, x) = Lead(s, m + 1)
  <2>0. Pos(s, hd, m) + tl[m] + 1 = Lead(s, m + 1) /\ Pos(s, hd, m) \in Nat /\ tl[m] \in Nat
    <3>1. Pos(s, hd, m) = s[m] + hd[m] + 1 /\ s[m] \in Nat /\ hd[m] \in Nat /\ tl[m] \in Nat
      BY <1>5, LayoutIs
    <3>2. Pos(s, hd, m) + tl[m] + 1 = Lead(s, m + 1)
      BY <1>5, LayoutStatement
    <3> QED BY <3>1, <3>2
  <2>1. CASE i \in W
    <3>1. Follower(q, x) = (Pos(s, hd, m) + 1) + 1
      BY <1>3, <2>1, LayoutLast, FollowerIs
    <3> HIDE DEF m, x
    <3> QED BY <1>5, <2>0, <2>1, <3>1
  <2>2. CASE i \notin W
    <3>1. Follower(q, x) = Pos(s, hd, m) + 1
      BY <1>3, <2>2, LayoutLast, FollowerIs
    <3>2. tl[m] = 0
      <4>1. CASE p[i].kind \in Compound
        BY <1>5, <2>2, <4>1
      <4>2. CASE p[i].kind \notin Compound
        <5>1. m = i /\ p[i].kind \notin Compound \cup {"else"}
          BY <1>3, <4>2 DEF LastOf, Statements, IsStatement
        <5>2. ~BlockEnds(f, p, W, i)
          BY <1>3, <2>2 DEF BlockEnds
        <5> QED BY <1>3, <5>1, <5>2, PieceParents
      <4> QED BY <4>1, <4>2
    <3> HIDE DEF m, x
    <3> QED BY <2>0, <3>1, <3>2
  <2> QED BY <2>1, <2>2
<1>8. /\ x \in 1..Len(q) /\ g[x] = Pos(s, hd, up)
      /\ IsStatement(q, Lead(s, m + 1)) <=> IsStatement(p, m + 1)
      /\ Lead(s, i) \in 1..Len(q) /\ Pos(s, hd, i) \in 1..Len(q)
  <2>1. x \in 1..Len(q) /\ g[x] = Pos(s, hd, up) /\ Lead(s, i) \in 1..Len(q) /\ Pos(s, hd, i) \in 1..Len(q)
    BY <1>3, <1>0, PieceParents, LayoutStatement
  <2>2. IsStatement(q, Lead(s, m + 1)) <=> IsStatement(p, m + 1)
    <3> HIDE DEF m
    <3> QED BY <1>5, LayoutStatement
  <2> QED BY <2>1, <2>2
<1>9. Fall(q)[x] = IF IsStatement(p, m + 1) THEN Lead(s, m + 1)
                   ELSE IF Pos(s, hd, up) = 0 THEN 0
                   ELSE IF q[Pos(s, hd, up)].kind = "loop" THEN Pos(s, hd, up)
                   ELSE Fall(q)[Pos(s, hd, up)]
  <2> HIDE DEF x, m, up
  <2> QED BY <1>1, <1>7, <1>8, FallStep
<1>10. t = IF IsStatement(p, m + 1) THEN m + 1
           ELSE IF up = 0 THEN 0
           ELSE IF p[up].kind = "loop" THEN up
           ELSE Fall(p)[up]
  BY <1>1, <1>3, FallStep, FollowerIs
<1>11. /\ up = 0 => Pos(s, hd, up) = 0
       /\ up # 0 => /\ up \in 1..Len(p) /\ up < i /\ Pos(s, hd, up) # 0
                    /\ q[Pos(s, hd, up)].kind = p[up].kind
                    /\ p[up].kind \in Compound /\ up \in Statements(p) /\ p[up].kind \notin Closing
  <2>1. up \in 0..(i - 1) /\ (up # 0 => p[up].kind \in Compound)
    BY <1>1, <1>3 DEF Tree
  <2>2. Pos(s, hd, 0) = 0
    BY <1>3, LayoutIs
  <2> HIDE DEF up
  <2>3. up # 0 => up \in 1..Len(p) /\ up < i
    BY <1>1, <1>3, <2>1
  <2>4. up # 0 => Pos(s, hd, up) # 0 /\ q[Pos(s, hd, up)].kind = p[up].kind
    <3> SUFFICES ASSUME up # 0 PROVE Pos(s, hd, up) # 0 /\ q[Pos(s, hd, up)].kind = p[up].kind
      OBVIOUS
    <3>1. Pos(s, hd, up) = s[up] + hd[up] + 1 /\ s[up] \in Nat /\ hd[up] \in Nat
      BY <2>3, LayoutIs
    <3> QED BY <2>3, <3>1, PieceParents
  <2>5. up # 0 => up \in Statements(p) /\ p[up].kind \notin Closing
    BY <1>1, <2>1, <2>3 DEF Statements, IsStatement, Compound, Closing
  <2> QED BY <2>1, <2>2, <2>3, <2>4, <2>5
<1>12. Fall(q)[x] = Land(s, hd, i, t)
  <2>1. CASE IsStatement(p, m + 1)
    <3>1. m + 1 # 0 /\ ~(m + 1 < i)
      BY <1>3, <1>5
    <3> HIDE DEF m, x
    <3> QED BY <1>9, <1>10, <2>1, <3>1 DEF Land
  <2>2. CASE ~IsStatement(p, m + 1) /\ (up = 0 \/ p[up].kind = "loop")
    <3> HIDE DEF m, x, up, t
    <3> QED BY <1>9, <1>10, <1>11, <2>2 DEF Land
  <2>3. CASE ~IsStatement(p, m + 1) /\ up # 0 /\ p[up].kind # "loop"
    <3>1. t = Fall(p)[up] /\ Fall(q)[x] = Land(s, hd, up, t)
      <4> HIDE DEF m, x, up
      <4>1. t = Fall(p)[up] /\ Fall(q)[x] = Fall(q)[Pos(s, hd, up)]
        BY <1>9, <1>10, <1>11, <2>3
      <4>2. Same(up)
        <5> HIDE DEF Same
        <5> QED BY <1>4, <1>11, <2>3
      <4> QED BY <4>1, <4>2
    <3>2. t = 0 \/ (t \in Statements(p) /\ (t > LastOf(p, up) \/ t < up))
      <4> HIDE DEF m, x, up
      <4> QED BY <1>1, <1>11, <2>3, <3>1, FallIs
    <3>3. LastOf(p, up) >= i /\ LastOf(p, up) \in Nat
      <4>1. LastOf(p, up) = EndOf(p, up) /\ LastOf(p, i) <= EndOf(p, up)
        BY <1>1, <1>3, <1>11, <2>3, Nested DEF LastOf
      <4>2. EndOf(p, up) \in (up + 1)..Len(p)
        BY <1>1, <1>11, <2>3, EndIs
      <4>3. up \in Nat
        BY <1>11, <2>3
      <4> HIDE DEF up
      <4> QED BY <1>1, <1>3, <1>5, <4>1, <4>2, <4>3 DEF m
    <3>4. t # 0 => (t < i <=> t < up)
      <4>1. t # 0 => t \in 1..Len(p)
        BY <1>1, <3>2 DEF Statements
      <4> HIDE DEF up, t
      <4> QED BY <1>3, <1>11, <2>3, <3>2, <3>3, <4>1
    <3> HIDE DEF x, t, up
    <3> QED BY <3>1, <3>4 DEF Land
  <2> QED BY <2>1, <2>2, <2>3
<1>13. i \in W => Fall(q)[Pos(s, hd, i)] = Fall(q)[Lead(s, i)]
  <2> SUFFICES ASSUME i \in W PROVE Fall(q)[Pos(s, hd, i)] = Fall(q)[Lead(s, i)]
    OBVIOUS
  <2>1. Follower(q, Pos(s, hd, i)) = Pos(s, hd, m) + 1
    BY <1>3, LayoutLast, FollowerIs
  <2>2. Ends(g, q, Lead(s, i), Pos(s, hd, m) + 1)
    BY <1>3, <1>0, LayoutEnding
  <2>3. ~IsStatement(q, Pos(s, hd, m) + 1)
    <3>1. q[Pos(s, hd, m) + 1].kind = "end"
      <4>1. p[m].kind \notin Compound \cup {"else"} /\ BlockEnds(f, p, W, m)
        <5>1. CASE p[i].kind \in Compound
          <6>1. p[m].kind \in Closing /\ f[m] = i
            BY <1>1, <1>3, <5>1, EndIs DEF Ends, LastOf
          <6> HIDE DEF m
          <6> QED BY <6>1 DEF BlockEnds, Compound, Closing
        <5>2. CASE p[i].kind \notin Compound
          <6>1. m = i
            BY <5>2 DEF LastOf
          <6> HIDE DEF m
          <6> QED BY <1>3, <5>2, <6>1 DEF BlockEnds, Statements, IsStatement
        <5> QED BY <5>1, <5>2
      <4> HIDE DEF m
      <4> QED BY <1>5, <4>1, PieceParents
    <3> QED BY <3>1 DEF IsStatement
  <2>4. g[Pos(s, hd, i)] = Lead(s, i) /\ q[Lead(s, i)].kind = "block" /\ Lead(s, i) # 0
    BY <1>3, <1>8, <1>0, PieceParents
  <2> HIDE DEF m
  <2> QED BY <1>1, <1>8, <2>1, <2>3, <2>4, FallStep
<1> QED BY <1>3, <1>6, <1>12, <1>13

-----------------------------------------------------------------------------
(* Bodies rewritten *)

LEMMA PlainStep ==
    ASSUME BodyInv, PlainInv, NEW x \in Items, Write(x),
           x.kind # "goto" => x.dest = 0,
           x.kind \in Closing => Within(Compound) # 0,
           x.kind = "else" => ~HasElse(Within(Compound))
    PROVE  PlainInv'
<1> DEFINE n == Len(body)
           f == Parent(body)
           v == NextParent(f, body)
           q == Append(body, x)
           g == Parent(q)
<1>1. body \in Seq(Items) /\ Tree(f, body) /\ n \in Nat /\ DOMAIN body = 1..n
  BY DEF BodyInv, Written, Tree
<1>2. v = Within(Compound)
  <2>1. EmptyStmt \in Items /\ EmptyStmt.kind \notin Closing
    BY ItemType DEF EmptyStmt, Kinds, Closing
  <2> QED BY <2>1, WithinIs
<1>3. /\ Len(q) = n + 1 /\ q[n + 1] = x
      /\ \A i \in 1..n : q[i] = body[i]
  BY <1>1, AppendProperties
<1>4. g = Extended(f, body)
  <2>1. x.kind \in Closing => v # 0
    BY <1>2
  <2> QED BY <1>1, <2>1, AppendTree, ParentIs
<1>5. g[n + 1] = v /\ \A i \in 1..n : g[i] = f[i]
  BY <1>1, <1>4 DEF Extended
<1>6. x.kind = "else" => \A k \in 1..n : ~(body[k].kind = "else" /\ f[k] = v)
  BY <1>1, <1>2 DEF HasElse
<1>7. /\ \A i \in 1..n : body[i].kind # "goto" => body[i].dest = 0
      /\ \A i, k \in 1..n : body[i].kind = "else" /\ body[k].kind = "else" /\ f[i] = f[k] => i = k
  BY DEF PlainInv, Plain
<1> HIDE DEF n, f, v, q, g
<1>8. \A i \in 1..(n + 1) : i = n + 1 \/ i \in 1..n
  BY <1>1
<1>9. Plain(g, q)
  BY <1>3, <1>5, <1>6, <1>7, <1>8 DEF Plain
<1>10. body' = q
  BY DEF Write, q
<1> QED BY <1>9, <1>10 DEF PlainInv, g

LEMMA InitPlain == Init => PlainInv
<1> SUFFICES ASSUME Init PROVE PlainInv
  OBVIOUS
<1>1. Len(body) = 0
  BY EmptySeq DEF Init
<1> QED BY <1>1 DEF PlainInv, Plain

LEMMA NextPlain == BodyInv /\ PlainInv /\ [Next]_body => PlainInv'
<1> SUFFICES ASSUME BodyInv, PlainInv, [Next]_body PROVE PlainInv'
  OBVIOUS
<1>1. CASE Next
  <2>1. PICK x : Fits(x) /\ Write(x)
    BY <1>1, NextWrites
  <2> QED BY <2>1, PlainStep DEF Fits
<1>2. CASE UNCHANGED body
  BY <1>2 DEF PlainInv
<1> QED BY <1>1, <1>2

LEMMA MovedItem ==
    ASSUME NEW s, NEW goal, NEW i, NEW kind, NEW dest, NEW label
    PROVE  Moved(s, goal, i, Item(kind, dest, label)) =
              Item(kind, IF dest > 0 THEN s[dest] + goal[dest] ELSE IF dest < 0 THEN s[i] - dest ELSE 0,
                   label)
BY DEF Moved, Item

LEMMA NewItems ==
    ASSUME NEW s, NEW goal, NEW i, NEW x \in {EmptyStmt, DefaultStmt, BreakStmt, End}
    PROVE  /\ Moved(s, goal, i, x) = x
           /\ x.dest = 0 /\ x \in Items
           /\ x = BreakStmt => x.kind = "break"
           /\ x = End => x.kind = "end"
           /\ x \in {EmptyStmt, DefaultStmt} => x.kind = "instr"
           /\ x \in {EmptyStmt, End, BreakStmt} => x.label = "none"
<1>1. 0 \in Nat /\ ~(0 > 0) /\ ~(0 < 0)
  OBVIOUS
<1>2. \A kind, label : Moved(s, goal, i, Item(kind, 0, label)) = Item(kind, 0, label)
  BY <1>1, MovedItem
<1>3. Moved(s, goal, i, x) = x
  BY <1>2 DEF EmptyStmt, DefaultStmt, BreakStmt, End
<1>4. /\ EmptyStmt \in Items /\ EmptyStmt.kind = "instr" /\ EmptyStmt.label = "none" /\ EmptyStmt.dest = 0
      /\ DefaultStmt \in Items /\ DefaultStmt.kind = "instr" /\ DefaultStmt.dest = 0
      /\ BreakStmt \in Items /\ BreakStmt.kind = "break" /\ BreakStmt.label = "none" /\ BreakStmt.dest = 0
      /\ End \in Items /\ End.kind = "end" /\ End.label = "none" /\ End.dest = 0
  <2>1. {"instr", "break", "end"} \subseteq Kinds
    BY DEF Kinds
  <2> QED BY <1>1, <2>1, ItemType DEF EmptyStmt, DefaultStmt, BreakStmt, End
<1> QED BY <1>3, <1>4

LEMMA SpliceRewrites ==
    ASSUME NEW p, NEW f, Finished(f, p), Plain(f, p),
           NEW W, \A i \in W : i \in 1..Len(p) /\ p[i].kind \notin Closing \cup {"else"},
           NEW before, NEW after, Shaped(f, p, W, before, after),
           NEW q, q = Splice(before, p, after, InPlace(p))
    PROVE  \E s, hd, tl : Rewritten(f, p, q, W, s, hd, tl, after)
<1> DEFINE n == Len(p)
           Raw == [kind : Kinds, dest : Int, label : {"none", "case", "default"}, scale : Int]
           V == {x \in Raw : x.dest <= n}
           goal == InPlace(p)
           New == {EmptyStmt, DefaultStmt, BreakStmt, End}
           hd == [i \in 1..n |-> Len(before[i])]
           tl == [i \in 1..n |-> Len(after[i])]
<1>1. p \in Seq(Items) /\ Tree(f, p) /\ Closed(f, p) /\ n \in Nat /\ DOMAIN p = 1..n
  BY DEF Finished, Written, Tree
<1>2. goal = [i \in 1..n |-> 1]
  BY <1>1 DEF InPlace
<1>3. ASSUME NEW i \in 1..n
      PROVE  /\ p[i] \in Items
             /\ p[i].kind = "goto" => p[i].dest \in 1..n
             /\ p[i].kind # "goto" => p[i].dest = 0
  <2>1. p[i] \in Items
    BY <1>1, ElementOfSeq
  <2>2. p[i].kind = "goto" => p[i].dest \in 1..n
    BY <1>1 DEF Finished, IsStatement
  <2>3. p[i].kind # "goto" => p[i].dest = 0
    BY DEF Plain
  <2> QED BY <2>1, <2>2, <2>3
<1>4. New \subseteq V
  <2> SUFFICES ASSUME NEW x \in New PROVE x \in V
    OBVIOUS
  <2>1. x \in Items /\ x.dest = 0
    BY NewItems
  <2> HIDE DEF New, n
  <2>2. x \in Raw
    BY <2>1 DEF Items
  <2> QED BY <1>1, <2>1, <2>2
<1>5. BlockStmt \in V /\ SkipTo(-3) \in V /\ BlockStmt.dest = 0
  <2>1. "block" \in Kinds /\ "goto" \in Kinds /\ 0 <= n /\ -3 <= n
    BY <1>1 DEF Kinds
  <2> HIDE DEF n
  <2> QED BY <2>1 DEF BlockStmt, SkipTo, Item, NoSite
<1>6. /\ before = [i \in 1..n |-> IF i \in W THEN <<BlockStmt, SkipTo(-3)>> ELSE <<>>]
      /\ after \in [1..n -> Seq(New)]
      /\ \A i \in 1..n :
            IF p[i].kind \in Compound \cup {"else"}
            THEN \A k \in 1..Len(after[i]) :
                    \/ after[i][k] \in {EmptyStmt, DefaultStmt}
                    \/ after[i][k] = BreakStmt /\ p[i].kind = "switch"
            ELSE after[i] = IF BlockEnds(f, p, W, i) THEN <<End>> ELSE <<>>
  BY DEF Shaped
<1> HIDE DEF V, New, goal, n
<1>7. before \in [1..n -> Seq(V)]
  <2>1. <<BlockStmt, SkipTo(-3)>> \in Seq(V) /\ << >> \in Seq(V)
    BY <1>5
  <2> QED BY <1>6, <2>1
<1>8. after \in [1..n -> Seq(V)]
  <2>1. \A a \in Seq(New) : a \in Seq(V)
    BY <1>4
  <2> QED BY <1>6, <2>1
<1>9. p \in [1..n -> V]
  <2>1. ASSUME NEW i \in 1..n PROVE p[i] \in V
    <3>1. p[i] \in Raw
      BY <1>3 DEF Items
    <3>2. p[i].dest <= n
      BY <1>1, <1>3
    <3> QED BY <3>1, <3>2 DEF V
  <2>2. p = [i \in 1..n |-> p[i]]
    BY <1>1 DEF n
  <2> QED BY <2>1, <2>2
<1>10. PICK s : Spliced(q, s, n, before, p, after, goal)
  <2>1. \A x \in V : x.dest \in Int /\ x.dest <= n
    BY DEF V
  <2> QED BY <1>1, <1>7, <1>8, <1>9, <2>1, SpliceIs DEF goal
<1>11. ASSUME NEW i \in 1..n
       PROVE  /\ hd[i] = Len(before[i]) /\ tl[i] = Len(after[i])
              /\ hd[i] \in Nat /\ tl[i] \in Nat
              /\ i \in W => hd[i] = 2 /\ before[i] = <<BlockStmt, SkipTo(-3)>>
              /\ i \notin W => hd[i] = 0
              /\ \A k \in 1..tl[i] : after[i][k] \in New
  <2>1. before[i] \in Seq(V) /\ after[i] \in Seq(New) /\ before[i] = IF i \in W THEN <<BlockStmt, SkipTo(-3)>> ELSE <<>>
    BY <1>6, <1>7
  <2>2. Len(<<BlockStmt, SkipTo(-3)>>) = 2 /\ Len(<< >>) = 0
    OBVIOUS
  <2>3. Len(before[i]) \in Nat /\ Len(after[i]) \in Nat /\ \A k \in 1..Len(after[i]) : after[i][k] \in New
    BY <2>1
  <2> QED BY <2>1, <2>2, <2>3
<1>12. /\ Offsets(s, n, [i \in 1..n |-> Len(before[i]) + 1 + Len(after[i])])
       /\ q \in Seq({q[x] : x \in 1..Len(q)})
       /\ Len(q) = s[n + 1]
       /\ \A i \in 1..n :
             /\ \A k \in 1..Len(before[i]) : q[s[i] + k] = Moved(s, goal, i, before[i][k])
             /\ q[s[i] + Len(before[i]) + 1] = Moved(s, goal, i, p[i])
             /\ \A k \in 1..Len(after[i]) :
                    q[s[i] + Len(before[i]) + 1 + k] = Moved(s, goal, i, after[i][k])
  BY <1>10 DEF Spliced
<1>13. \A i \in 1..n : s[i] \in Nat
  <2>1. \A i \in 1..n : i \in 1..(n + 1)
    BY <1>1
  <2> QED BY <1>12, <2>1 DEF Offsets
<1>14. DOMAIN q = 1..Len(q)
  BY <1>12
<1> HIDE DEF hd, tl
<1>15. ASSUME NEW i \in 1..n
       PROVE  /\ q[Pos(s, hd, i)] =
                    [p[i] EXCEPT !.dest = IF p[i].kind = "goto" THEN Lead(s, p[i].dest) ELSE 0]
              /\ i \in W => /\ q[Lead(s, i)] = BlockStmt
                            /\ q[s[i] + 2] = SkipTo(Pos(s, hd, i))
              /\ \A k \in 1..tl[i] : q[Pos(s, hd, i) + k] = after[i][k]
  <2>0. i # 0 /\ Pos(s, hd, i) = s[i] + Len(before[i]) + 1 /\ Lead(s, i) = s[i] + 1
    BY <1>1, <1>11 DEF Pos, Lead
  <2>1. q[Pos(s, hd, i)] =
                    [p[i] EXCEPT !.dest = IF p[i].kind = "goto" THEN Lead(s, p[i].dest) ELSE 0]
    <3>1. q[Pos(s, hd, i)] = Moved(s, goal, i, p[i])
      BY <1>12, <2>0
    <3>2. CASE p[i].kind = "goto"
      <4>1. p[i].dest \in 1..n /\ p[i].dest > 0 /\ goal[p[i].dest] = 1
        BY <1>1, <1>2, <1>3, <3>2
      <4>2. Moved(s, goal, i, p[i]) = [p[i] EXCEPT !.dest = s[p[i].dest] + goal[p[i].dest]]
        BY <4>1 DEF Moved
      <4> QED BY <3>1, <3>2, <4>1, <4>2 DEF Lead
    <3>3. CASE p[i].kind # "goto"
      <4>1. p[i].dest = 0
        BY <1>3, <3>3
      <4>2. Moved(s, goal, i, p[i]) = [p[i] EXCEPT !.dest = 0]
        BY <4>1 DEF Moved
      <4> QED BY <3>1, <3>3, <4>2
    <3> QED BY <3>2, <3>3
  <2>2. ASSUME i \in W
        PROVE  q[Lead(s, i)] = BlockStmt /\ q[s[i] + 2] = SkipTo(Pos(s, hd, i))
    <3>1. /\ Len(before[i]) = 2 /\ before[i][1] = BlockStmt /\ before[i][2] = SkipTo(-3)
          /\ 1 \in 1..Len(before[i]) /\ 2 \in 1..Len(before[i])
      <4>1. before[i] = <<BlockStmt, SkipTo(-3)>>
        BY <1>11, <2>2
      <4> DEFINE b == BlockStmt
                 c == SkipTo(-3)
      <4> HIDE DEF b, c
      <4>2. Len(<<b, c>>) = 2 /\ <<b, c>>[1] = b /\ <<b, c>>[2] = c
        OBVIOUS
      <4>3. Len(before[i]) = 2 /\ before[i][1] = b /\ before[i][2] = c
        BY <4>1, <4>2 DEF b, c
      <4> QED BY <4>3 DEF b, c
    <3>2. q[s[i] + 1] = Moved(s, goal, i, BlockStmt) /\ q[s[i] + 2] = Moved(s, goal, i, SkipTo(-3))
      BY <1>12, <3>1
    <3>3. ~(0 > 0) /\ ~(0 < 0) /\ ~(-3 > 0) /\ -3 < 0 /\ s[i] - (-3) = s[i] + 2 + 1
      BY <1>13
    <3>4. Moved(s, goal, i, BlockStmt) = BlockStmt
      BY <3>3, MovedItem DEF BlockStmt
    <3>5. Moved(s, goal, i, SkipTo(-3)) = SkipTo(s[i] + 2 + 1)
      BY <3>3, MovedItem DEF SkipTo
    <3> QED BY <2>0, <3>1, <3>2, <3>4, <3>5
  <2>3. ASSUME NEW k \in 1..tl[i] PROVE q[Pos(s, hd, i) + k] = after[i][k]
    <3>1. after[i][k] \in New /\ k \in 1..Len(after[i])
      BY <1>11
    <3>2. Moved(s, goal, i, after[i][k]) = after[i][k]
      BY <3>1, NewItems DEF New
    <3> QED BY <1>12, <2>0, <3>1, <3>2
  <2> QED BY <2>1, <2>2, <2>3
<1>16. Layout(f, p, q, W, s, hd, tl)
  <2>1. ASSUME NEW i \in 1..n
        PROVE  /\ q[Pos(s, hd, i)].kind = p[i].kind
               /\ i \in W => /\ hd[i] >= 1 /\ q[Lead(s, i)].kind = "block"
                             /\ \A k \in 2..hd[i] : Simple(q[s[i] + k])
               /\ p[i].kind \in Compound \cup {"else"} =>
                      \A k \in 1..tl[i] : Simple(q[Pos(s, hd, i) + k])
               /\ p[i].kind \notin Compound \cup {"else"} =>
                      IF BlockEnds(f, p, W, i) THEN tl[i] = 1 /\ q[Pos(s, hd, i) + 1].kind = "end"
                      ELSE tl[i] = 0
    <3>1. q[Pos(s, hd, i)].kind = p[i].kind
      BY <1>3, <1>15 DEF Items
    <3>2. ASSUME i \in W
          PROVE  /\ hd[i] >= 1 /\ q[Lead(s, i)].kind = "block"
                 /\ \A k \in 2..hd[i] : Simple(q[s[i] + k])
      <4>1. hd[i] = 2 /\ q[Lead(s, i)] = BlockStmt /\ q[s[i] + 2] = SkipTo(Pos(s, hd, i))
        BY <1>11, <1>15, <3>2
      <4>2. BlockStmt.kind = "block" /\ SkipTo(Pos(s, hd, i)).kind = "goto"
        BY DEF BlockStmt, SkipTo, Item
      <4>3. \A k \in 2..hd[i] : k = 2
        BY <4>1
      <4>4. Simple(q[s[i] + 2])
        BY <4>1, <4>2 DEF Simple, Compound, Closing
      <4> QED BY <4>1, <4>2, <4>3, <4>4
    <3>3. ASSUME p[i].kind \in Compound \cup {"else"}, NEW k \in 1..tl[i]
          PROVE  Simple(q[Pos(s, hd, i) + k])
      <4>1. q[Pos(s, hd, i) + k] = after[i][k] /\ k \in 1..Len(after[i])
        BY <1>11, <1>15
      <4>2. after[i][k] \in {EmptyStmt, DefaultStmt, BreakStmt}
        BY <1>6, <3>3, <4>1
      <4>3. after[i][k].kind \in {"instr", "break"}
        BY <4>2, NewItems
      <4> QED BY <4>1, <4>3 DEF Simple, Compound, Closing
    <3>4. ASSUME p[i].kind \notin Compound \cup {"else"}
          PROVE  IF BlockEnds(f, p, W, i) THEN tl[i] = 1 /\ q[Pos(s, hd, i) + 1].kind = "end"
                 ELSE tl[i] = 0
      <4>1. after[i] = IF BlockEnds(f, p, W, i) THEN <<End>> ELSE <<>>
        BY <1>6, <3>4
      <4>2. Len(<<End>>) = 1 /\ <<End>>[1] = End /\ Len(<< >>) = 0 /\ 1 \in 1..1
        OBVIOUS
      <4>3. End.kind = "end"
        BY NewItems
      <4>4. CASE BlockEnds(f, p, W, i)
        <5>1. tl[i] = 1 /\ after[i][1] = End
          BY <1>11, <4>1, <4>2, <4>4
        <5>2. q[Pos(s, hd, i) + 1] = End
          BY <1>15, <4>2, <5>1
        <5> QED BY <4>3, <4>4, <5>1, <5>2
      <4>5. CASE ~BlockEnds(f, p, W, i)
        BY <1>11, <4>1, <4>2, <4>5
      <4> QED BY <4>4, <4>5
    <3> QED BY <3>1, <3>2, <3>3, <3>4
  <2>2. Offsets(s, n, [i \in 1..n |-> hd[i] + 1 + tl[i]])
    <3>1. [i \in 1..n |-> hd[i] + 1 + tl[i]] = [i \in 1..n |-> Len(before[i]) + 1 + Len(after[i])]
      BY <1>11
    <3> QED BY <1>12, <3>1
  <2> QED BY <1>1, <1>11, <1>12, <1>14, <2>1, <2>2 DEF Layout, n
<1>17. Rewritten(f, p, q, W, s, hd, tl, after)
  BY <1>11, <1>12, <1>15, <1>16 DEF Rewritten, n
<1> QED BY <1>17

LEMMA CameFrom ==
    ASSUME NEW p, NEW f, NEW q, NEW W, NEW s, NEW hd, NEW tl, NEW before, NEW after,
           Shaped(f, p, W, before, after), Rewritten(f, p, q, W, s, hd, tl, after),
           NEW x \in 1..Len(q)
    PROVE  \E i \in 1..Len(p) : Came(f, p, q, W, s, hd, tl, x, i)
<1>1. Layout(f, p, q, W, s, hd, tl)
  BY DEF Rewritten
<1>0. PICK g : g = NewParent(f, p, W, s, hd)
  OBVIOUS
<1>2. PICK i \in 1..Len(p) :
              \/ x = Lead(s, i)
              \/ /\ i \in W /\ hd[i] >= 1
                 /\ \E k \in 2..(hd[i] + 1) : x = s[i] + k
              \/ /\ p[i].kind \in Compound \cup {"else"}
                 /\ \E k \in 1..tl[i] : x = Pos(s, hd, i) + k
              \/ /\ p[i].kind \notin Compound \cup {"else"} /\ BlockEnds(f, p, W, i)
                 /\ tl[i] = 1 /\ x = Pos(s, hd, i) + 1
  BY <1>0, <1>1, NewParentIs
<1>3. /\ q[Pos(s, hd, i)] =
            [p[i] EXCEPT !.dest = IF p[i].kind = "goto" THEN Lead(s, p[i].dest) ELSE 0]
      /\ i \in W => hd[i] = 2 /\ q[Lead(s, i)] = BlockStmt /\ q[s[i] + 2] = SkipTo(Pos(s, hd, i))
      /\ tl[i] = Len(after[i])
      /\ \A k \in 1..tl[i] : q[Pos(s, hd, i) + k] = after[i][k]
  BY DEF Rewritten
<1>4. IF p[i].kind \in Compound \cup {"else"}
      THEN \A k \in 1..Len(after[i]) :
              \/ after[i][k] \in {EmptyStmt, DefaultStmt}
              \/ after[i][k] = BreakStmt /\ p[i].kind = "switch"
      ELSE after[i] = IF BlockEnds(f, p, W, i) THEN <<End>> ELSE <<>>
  BY DEF Shaped
<1>5. CASE x = Lead(s, i)
  <2>1. i \notin W => x = Pos(s, hd, i)
    BY <1>0, <1>1, <1>5, PieceParents
  <2> QED BY <1>3, <1>5, <2>1 DEF Came
<1>6. ASSUME i \in W, NEW k \in 2..(hd[i] + 1), x = s[i] + k PROVE Came(f, p, q, W, s, hd, tl, x, i)
  <2>1. hd[i] = 2 /\ s[i] \in Nat /\ Pos(s, hd, i) = s[i] + hd[i] + 1
    BY <1>1, <1>3, <1>6, LayoutIs
  <2>2. k = 2 \/ k = 3
    BY <2>1
  <2>3. Pos(s, hd, i) = s[i] + 3
    BY <2>1
  <2> QED BY <1>3, <1>6, <2>2, <2>3 DEF Came
<1>7. ASSUME p[i].kind \in Compound \cup {"else"}, NEW k \in 1..tl[i], x = Pos(s, hd, i) + k
      PROVE  Came(f, p, q, W, s, hd, tl, x, i)
  <2>1. \/ q[x] \in {EmptyStmt, DefaultStmt}
        \/ q[x] = BreakStmt /\ p[i].kind = "switch"
    BY <1>3, <1>4, <1>7
  <2> QED BY <1>7, <2>1 DEF Came
<1>8. ASSUME p[i].kind \notin Compound \cup {"else"}, BlockEnds(f, p, W, i),
             tl[i] = 1, x = Pos(s, hd, i) + 1
      PROVE  Came(f, p, q, W, s, hd, tl, x, i)
  <2>1. after[i] = <<End>> /\ 1 \in 1..tl[i]
    BY <1>4, <1>8
  <2>2. q[x] = End
    BY <1>3, <1>8, <2>1
  <2> QED BY <1>8, <2>2 DEF Came
<1> QED BY <1>2, <1>5, <1>6, <1>7, <1>8

\* Rewriting a body gives a body that can be given to the compiler, too.
LEMMA RewrittenFinished ==
    ASSUME NEW p, NEW f, Finished(f, p), Plain(f, p),
           NEW q, NEW W, NEW s, NEW hd, NEW tl, NEW before, NEW after,
           Shaped(f, p, W, before, after), Rewritten(f, p, q, W, s, hd, tl, after),
           NEW g, g = NewParent(f, p, W, s, hd)
    PROVE  Finished(g, q) /\ Plain(g, q)
<1>1. Layout(f, p, q, W, s, hd, tl)
  BY DEF Rewritten
<1>2. p \in Seq(Items) /\ Tree(f, p) /\ Closed(f, p) /\ Len(p) \in Nat /\ DOMAIN p = 1..Len(p)
  BY DEF Finished, Written, Tree
<1>3. Tree(g, q) /\ Closed(g, q)
  BY <1>1, LayoutTree, LayoutClosed
<1>4. Len(q) \in Nat /\ DOMAIN q = 1..Len(q)
  BY <1>3 DEF Tree
<1>5. \A x \in 1..Len(q) : \E i \in 1..Len(p) : Came(f, p, q, W, s, hd, tl, x, i)
  BY CameFrom
<1>6. \A i \in 1..Len(p) : p[i] \in Items
  BY <1>2, ElementOfSeq
<1>7. ASSUME NEW i \in 1..Len(p)
      PROVE  /\ Pos(s, hd, i) \in 1..Len(q) /\ Lead(s, i) \in 1..Len(q)
             /\ Pos(s, hd, i) \in Nat /\ Lead(s, i) \in Nat /\ Pos(s, hd, i) # 0
             /\ i \in W => Pos(s, hd, i) = s[i] + 3 /\ s[i] \in Nat
             /\ IsStatement(q, Lead(s, i)) <=> IsStatement(p, i)
             /\ i \in W => IsStatement(q, Pos(s, hd, i))
  <2>1. /\ Pos(s, hd, i) \in 1..Len(q) /\ Lead(s, i) \in 1..Len(q)
        /\ IsStatement(q, Lead(s, i)) <=> IsStatement(p, i)
        /\ i \in W => IsStatement(q, Pos(s, hd, i))
    BY <1>1, LayoutStatement
  <2>2. i \in W => Pos(s, hd, i) = s[i] + 3 /\ s[i] \in Nat
    <3> SUFFICES ASSUME i \in W PROVE Pos(s, hd, i) = s[i] + 3 /\ s[i] \in Nat
      OBVIOUS
    <3>1. hd[i] = 2
      BY DEF Rewritten
    <3>2. Pos(s, hd, i) = s[i] + hd[i] + 1 /\ s[i] \in Nat
      BY <1>1, LayoutIs
    <3> QED BY <3>1, <3>2
  <2> QED BY <1>4, <2>1, <2>2
<1>8. ASSUME NEW i \in 1..Len(p), p[i].kind = "goto"
      PROVE  /\ p[i].dest \in 1..Len(p) /\ p[i].dest # i /\ IsStatement(p, p[i].dest)
             /\ Lead(s, p[i].dest) # Pos(s, hd, i)
  <2> DEFINE d == p[i].dest
  <2>1. d \in 1..Len(p) /\ d # i /\ IsStatement(p, d)
    BY <1>2, <1>8 DEF Finished, Written, IsStatement
  <2> HIDE DEF d
  <2>2. CASE d < i
    <3>1. d \in 0..(i - 1) /\ d # 0
      BY <1>2, <2>1, <2>2
    <3>2. Lead(s, d) < Lead(s, i) /\ Lead(s, i) <= Pos(s, hd, i)
      BY <1>1, <3>1, LayoutOrder
    <3> QED BY <1>7, <2>1, <3>2 DEF d
  <2>3. CASE i < d
    <3>1. i \in 0..(d - 1)
      BY <1>2, <2>1, <2>3
    <3>2. Pos(s, hd, i) < Lead(s, d)
      BY <1>1, <2>1, <3>1, LayoutOrder
    <3> QED BY <1>7, <2>1, <3>2 DEF d
  <2>4. d < i \/ i < d
    BY <1>2, <2>1
  <2> QED BY <2>1, <2>2, <2>3, <2>4 DEF d
<1>9. ASSUME NEW i \in 1..Len(p), NEW y, y = [p[i] EXCEPT !.dest = IF p[i].kind = "goto" THEN Lead(s, p[i].dest) ELSE 0]
      PROVE  /\ y \in Items /\ y.kind = p[i].kind /\ y.label = p[i].label
             /\ y.dest = IF p[i].kind = "goto" THEN Lead(s, p[i].dest) ELSE 0
  <2>1. p[i].kind = "goto" => Lead(s, p[i].dest) \in Nat
    BY <1>7, <1>8
  <2>2. p[i] \in Items /\ 0 \in Nat
    BY <1>6
  <2> DEFINE d == IF p[i].kind = "goto" THEN Lead(s, p[i].dest) ELSE 0
  <2>3. d \in Nat
    BY <2>1
  <2> HIDE DEF d
  <2>4. y = [p[i] EXCEPT !.dest = d]
    BY <1>9 DEF d
  <2>5. y \in Items /\ y.kind = p[i].kind /\ y.label = p[i].label /\ y.dest = d
    BY <2>2, <2>3, <2>4 DEF Items
  <2> QED BY <2>5 DEF d
<1>10. /\ BlockStmt \in Items /\ BlockStmt.kind = "block" /\ BlockStmt.dest = 0
       /\ \A d \in Nat : SkipTo(d) \in Items /\ SkipTo(d).kind = "goto" /\ SkipTo(d).dest = d
  <2>1. "block" \in Kinds /\ "goto" \in Kinds /\ 0 \in Nat
    BY DEF Kinds
  <2> QED BY <2>1, ItemType DEF BlockStmt, SkipTo
<1>11. ASSUME NEW y \in {EmptyStmt, DefaultStmt, BreakStmt, End}
       PROVE  /\ y.dest = 0 /\ y \in Items
              /\ y = BreakStmt => y.kind = "break"
              /\ y = End => y.kind = "end"
              /\ y \in {EmptyStmt, DefaultStmt} => y.kind = "instr"
              /\ y \in {EmptyStmt, End, BreakStmt} => y.label = "none"
  BY NewItems
<1>12. ASSUME NEW x \in 1..Len(q)
       PROVE  /\ q[x] \in Items
              /\ q[x].kind = "goto" => q[x].dest # x /\ IsStatement(q, q[x].dest)
              /\ q[x].kind # "goto" => q[x].dest = 0
              /\ q[x].kind \in {"break", "continue", "else", "end"} =>
                    \/ \E i \in 1..Len(p) : /\ x = Pos(s, hd, i) /\ q[x].kind = p[i].kind
                                            /\ q[x].label = p[i].label
                    \/ /\ q[x].kind = "break"
                       /\ \E i \in 1..Len(p) : /\ p[i].kind = "switch"
                                               /\ \E k \in 1..tl[i] : x = Pos(s, hd, i) + k
                    \/ /\ q[x].kind = "end" /\ q[x].label = "none"
                       /\ \E i \in 1..Len(p) : /\ p[i].kind \notin Compound \cup {"else"} /\ BlockEnds(f, p, W, i)
                                               /\ tl[i] = 1 /\ x = Pos(s, hd, i) + 1
  <2>1. PICK i \in 1..Len(p) : Came(f, p, q, W, s, hd, tl, x, i)
    BY <1>5
  <2>2. CASE /\ x = Pos(s, hd, i)
             /\ q[x] = [p[i] EXCEPT !.dest = IF p[i].kind = "goto" THEN Lead(s, p[i].dest) ELSE 0]
    <3>1. /\ q[x] \in Items /\ q[x].kind = p[i].kind /\ q[x].label = p[i].label
          /\ q[x].dest = IF p[i].kind = "goto" THEN Lead(s, p[i].dest) ELSE 0
      BY <1>9, <2>2
    <3>2. p[i].kind = "goto" => q[x].dest # x /\ IsStatement(q, q[x].dest)
      BY <1>7, <1>8, <2>2, <3>1
    <3> QED BY <2>2, <3>1, <3>2
  <2>3. CASE i \in W /\ x = Lead(s, i) /\ q[x] = BlockStmt
    BY <1>10, <2>3
  <2>4. CASE i \in W /\ x = s[i] + 2 /\ q[x] = SkipTo(Pos(s, hd, i))
    <3>1. q[x] \in Items /\ q[x].kind = "goto" /\ q[x].dest = Pos(s, hd, i) /\ Pos(s, hd, i) # x
          /\ IsStatement(q, Pos(s, hd, i))
      BY <1>7, <1>10, <2>4
    <3> QED BY <3>1
  <2>5. CASE q[x] \in {EmptyStmt, DefaultStmt}
    BY <1>11, <2>5
  <2>6. CASE /\ p[i].kind = "switch" /\ \E k \in 1..tl[i] : x = Pos(s, hd, i) + k
             /\ q[x] = BreakStmt
    <3>1. q[x] \in Items /\ q[x].kind = "break" /\ q[x].dest = 0
      BY <1>11, <2>6
    <3> QED BY <2>6, <3>1
  <2>7. CASE /\ p[i].kind \notin Compound \cup {"else"} /\ BlockEnds(f, p, W, i)
             /\ tl[i] = 1 /\ x = Pos(s, hd, i) + 1 /\ q[x] = End
    <3>1. q[x] \in Items /\ q[x].kind = "end" /\ q[x].dest = 0 /\ q[x].label = "none"
      BY <1>11, <2>7
    <3> QED BY <2>7, <3>1
  <2> QED BY <2>1, <2>2, <2>3, <2>4, <2>5, <2>6, <2>7 DEF Came
<1>13. q \in Seq(Items)
  <2>1. q \in [1..Len(q) -> {q[x] : x \in 1..Len(q)}]
    BY DEF Rewritten
  <2>2. q \in [1..Len(q) -> Items]
    BY <1>12, <2>1
  <2> QED BY <1>4, <2>2, SeqDef
<1>14. ASSUME NEW i \in 1..Len(p)
       PROVE  /\ i \notin W => g[Pos(s, hd, i)] = Pos(s, hd, f[i])
              /\ q[Pos(s, hd, i)].kind = p[i].kind
              /\ p[i].kind \in Closing \cup {"else"} => i \notin W
              /\ f[i] \in 0..(i - 1)
              /\ f[i] # 0 => f[i] \in 1..Len(p) /\ q[Pos(s, hd, f[i])].kind = p[f[i]].kind
  <2>1. i \notin W => g[Pos(s, hd, i)] = Pos(s, hd, f[i])
    BY <1>1, PieceParents
  <2>2. \A j \in 1..Len(p) : q[Pos(s, hd, j)].kind = p[j].kind
    BY <1>1 DEF Layout
  <2>3. p[i].kind \in Closing \cup {"else"} => i \notin W
    BY <1>1 DEF Layout
  <2>4. f[i] \in 0..(i - 1)
    BY <1>2 DEF Tree
  <2>5. f[i] # 0 => f[i] \in 1..Len(p)
    BY <1>2, <2>4
  <2> QED BY <2>1, <2>2, <2>3, <2>4, <2>5
<1>15. \A i, j \in 0..Len(p) : Pos(s, hd, i) = Pos(s, hd, j) => i = j
  <2>1. ASSUME NEW j \in 1..Len(p), NEW i \in 0..(j - 1) PROVE Pos(s, hd, i) # Pos(s, hd, j)
    <3>1. Pos(s, hd, i) < Lead(s, j) /\ Lead(s, j) <= Pos(s, hd, j)
          /\ Pos(s, hd, i) \in Nat /\ Lead(s, j) \in Nat /\ Pos(s, hd, j) \in Nat
      BY <1>1, LayoutOrder
    <3> QED BY <3>1
  <2>2. SUFFICES ASSUME NEW i \in 0..Len(p), NEW j \in 0..Len(p), i # j
                 PROVE  Pos(s, hd, i) # Pos(s, hd, j)
    OBVIOUS
  <2>3. (i \in 1..Len(p) /\ j \in 0..(i - 1)) \/ (j \in 1..Len(p) /\ i \in 0..(j - 1))
    BY <1>2, <2>2
  <2> QED BY <2>1, <2>3
<1>16. ASSUME NEW x \in 1..Len(q), q[x].kind = "break" PROVE Enclosing(q, x, {"loop", "switch"}) # 0
  <2> DEFINE K == {"loop", "switch"}
  <2>0. "block" \notin K
    OBVIOUS
  <2> HIDE DEF K
  <2>1. CASE \E i \in 1..Len(p) : x = Pos(s, hd, i) /\ q[x].kind = p[i].kind
    <3>1. PICK i \in 1..Len(p) : x = Pos(s, hd, i) /\ p[i].kind = "break"
      BY <1>16, <2>1
    <3>2. Enclosing(p, i, K) # 0
      BY <3>1 DEF Finished, Written, K
    <3>3. Enclosing(q, x, K) = Pos(s, hd, Enclosing(p, i, K))
      BY <1>1, <2>0, <3>1, LayoutEnclosing
    <3>4. Enclosing(p, i, K) \in 1..Len(p)
      <4>1. K \subseteq Compound
        BY DEF K, Compound
      <4>2. Enclosing(p, i, K) \in 0..(i - 1)
        BY <1>2, <4>1, EnclosingIs
      <4> QED BY <1>2, <3>2, <4>2
    <3> QED BY <1>7, <3>3, <3>4 DEF K
  <2>2. CASE \E i \in 1..Len(p) : p[i].kind = "switch" /\ \E k \in 1..tl[i] : x = Pos(s, hd, i) + k
    <3>1. PICK i \in 1..Len(p) : p[i].kind = "switch" /\ \E k \in 1..tl[i] : x = Pos(s, hd, i) + k
      BY <2>2
    <3>2. PICK k \in 1..tl[i] : x = Pos(s, hd, i) + k
      BY <3>1
    <3>3. g[x] = Pos(s, hd, i) /\ q[Pos(s, hd, i)].kind = "switch"
      BY <1>1, <3>1, <3>2, PieceParents DEF Compound
    <3>4. Enclosing(q, x, K) = Pos(s, hd, i)
      <4>1. "switch" \in K
        BY DEF K
      <4> QED BY <1>3, <1>7, <3>3, <4>1, EnclosingStep
    <3> QED BY <1>7, <3>4 DEF K
  <2> QED BY <1>12, <1>16, <2>1, <2>2 DEF K
<1>17. ASSUME NEW x \in 1..Len(q), q[x].kind = "continue" PROVE Enclosing(q, x, {"loop"}) # 0
  <2> DEFINE K == {"loop"}
  <2>0. "block" \notin K
    OBVIOUS
  <2> HIDE DEF K
  <2>1. PICK i \in 1..Len(p) : x = Pos(s, hd, i) /\ p[i].kind = "continue"
    BY <1>12, <1>17
  <2>2. Enclosing(p, i, K) # 0
    BY <2>1 DEF Finished, Written, K
  <2>3. Enclosing(q, x, K) = Pos(s, hd, Enclosing(p, i, K))
    BY <1>1, <2>0, <2>1, LayoutEnclosing
  <2>4. Enclosing(p, i, K) \in 1..Len(p)
    <3>1. K \subseteq Compound
      BY DEF K, Compound
    <3>2. Enclosing(p, i, K) \in 0..(i - 1)
      BY <1>2, <3>1, EnclosingIs
    <3> QED BY <1>2, <2>2, <3>2
  <2> QED BY <1>7, <2>3, <2>4 DEF K
<1>18. ASSUME NEW x \in 1..Len(q), q[x].kind = "else"
       PROVE  /\ g[x] # 0 /\ q[g[x]].kind = "if" /\ q[x].label = "none"
              /\ \E i \in 1..Len(p) : x = Pos(s, hd, i) /\ p[i].kind = "else" /\ g[x] = Pos(s, hd, f[i])
  <2>1. PICK i \in 1..Len(p) : x = Pos(s, hd, i) /\ p[i].kind = "else" /\ q[x].label = p[i].label
    BY <1>12, <1>18
  <2>2. f[i] # 0 /\ p[f[i]].kind = "if" /\ p[i].label = "none"
    BY <2>1 DEF Finished, Written
  <2>3. g[x] = Pos(s, hd, f[i]) /\ f[i] \in 1..Len(p) /\ q[Pos(s, hd, f[i])].kind = "if"
    BY <1>14, <2>1, <2>2
  <2> QED BY <1>7, <2>1, <2>2, <2>3
<1>19. ASSUME NEW x \in 1..Len(q), q[x].kind = "end"
       PROVE  /\ q[x].label = "none"
              /\ q[g[x]].kind = "if" => \E k \in 1..Len(q) : q[k].kind = "else" /\ g[k] = g[x]
  <2>0. "end" \in Closing /\ "else" \notin Closing
    BY DEF Closing
  <2>1. CASE \E i \in 1..Len(p) : x = Pos(s, hd, i) /\ q[x].kind = p[i].kind /\ q[x].label = p[i].label
    <3>1. PICK i \in 1..Len(p) : x = Pos(s, hd, i) /\ p[i].kind = "end" /\ q[x].label = p[i].label
      BY <1>19, <2>1
    <3>2. p[i].label = "none"
      BY <3>1 DEF Finished, Written
    <3>3. f[i] # 0
      BY <1>2, <2>0, <3>1 DEF Tree
    <3>4. g[x] = Pos(s, hd, f[i]) /\ f[i] \in 1..Len(p) /\ q[Pos(s, hd, f[i])].kind = p[f[i]].kind
      BY <1>14, <2>0, <3>1, <3>3
    <3>5. ASSUME q[g[x]].kind = "if" PROVE \E k \in 1..Len(q) : q[k].kind = "else" /\ g[k] = g[x]
      <4>1. PICK k \in 1..Len(p) : p[k].kind = "else" /\ f[k] = f[i]
        BY <3>1, <3>4, <3>5 DEF Finished, Written
      <4>2. q[Pos(s, hd, k)].kind = "else" /\ g[Pos(s, hd, k)] = Pos(s, hd, f[k])
        BY <1>14, <4>1
      <4> QED BY <1>7, <3>4, <4>1, <4>2
    <3> QED BY <3>1, <3>2, <3>5
  <2>2. CASE /\ q[x].label = "none"
             /\ \E i \in 1..Len(p) : /\ p[i].kind \notin Compound \cup {"else"} /\ BlockEnds(f, p, W, i)
                                     /\ tl[i] = 1 /\ x = Pos(s, hd, i) + 1
    <3>1. PICK i \in 1..Len(p) : /\ p[i].kind \notin Compound \cup {"else"} /\ BlockEnds(f, p, W, i)
                                 /\ tl[i] = 1 /\ x = Pos(s, hd, i) + 1
      BY <2>2
    <3>2. \E j \in W : g[x] = Lead(s, j)
      <4>1. CASE p[i].kind \in Closing
        <5>1. f[i] \in W /\ g[x] = Lead(s, f[i])
          BY <1>1, <3>1, <4>1, PieceParents DEF BlockEnds
        <5> QED BY <5>1
      <4>2. CASE p[i].kind \notin Closing
        <5>1. i \in W /\ g[x] = Lead(s, i)
          BY <1>1, <3>1, <4>2, PieceParents DEF BlockEnds
        <5> QED BY <5>1
      <4> QED BY <4>1, <4>2
    <3>3. PICK j \in W : g[x] = Lead(s, j)
      BY <3>2
    <3>4. q[Lead(s, j)].kind = "block"
      BY <1>1 DEF Layout
    <3> QED BY <2>2, <3>3, <3>4
  <2> QED BY <1>12, <1>19, <2>1, <2>2
<1>20. Written(g, q)
  BY <1>3, <1>12, <1>13, <1>16, <1>17, <1>18, <1>19 DEF Written
<1>21. Finished(g, q)
  BY <1>3, <1>12, <1>20 DEF Finished
<1>22. Plain(g, q)
  <2>1. ASSUME NEW x \in 1..Len(q), NEW y \in 1..Len(q), q[x].kind = "else", q[y].kind = "else", g[x] = g[y]
        PROVE  x = y
    <3>1. PICK i \in 1..Len(p) : x = Pos(s, hd, i) /\ p[i].kind = "else" /\ g[x] = Pos(s, hd, f[i])
      BY <1>18, <2>1
    <3>2. PICK k \in 1..Len(p) : y = Pos(s, hd, k) /\ p[k].kind = "else" /\ g[y] = Pos(s, hd, f[k])
      BY <1>18, <2>1
    <3>3. f[i] \in 0..Len(p) /\ f[k] \in 0..Len(p)
      BY <1>2, <1>14
    <3>4. f[i] = f[k]
      BY <1>15, <2>1, <3>1, <3>2, <3>3
    <3>5. i = k
      BY <3>1, <3>2, <3>4 DEF Plain
    <3> QED BY <3>1, <3>2, <3>5
  <2> QED BY <1>12, <2>1 DEF Plain
<1> QED BY <1>21, <1>22

\* Every switch has a default, all else is where it was.
LEMMA DefaultsRewritten ==
    ASSUME NEW p, NEW f, Finished(f, p), Plain(f, p), NEW q, q = addDefaultCases(p)
    PROVE  \E before, after, s, hd, tl :
               /\ Shaped(f, p, {}, before, after) /\ Rewritten(f, p, q, {}, s, hd, tl, after)
               /\ \A i \in 1..Len(p) :
                     after[i] = IF p[i].kind = "switch" /\ ~HasDefault(p, i)
                                THEN <<DefaultStmt, BreakStmt>> ELSE <<>>
<1> DEFINE before == Nothing(p)
           after == [i \in DOMAIN p |->
                        IF p[i].kind = "switch" /\ ~HasDefault(p, i)
                        THEN <<Item("instr", 0, "default"), Item("break", 0, "none")>>
                        ELSE <<>>]
           New == {EmptyStmt, DefaultStmt, BreakStmt, End}
<1>1. DOMAIN p = 1..Len(p)
  BY DEF Finished, Written, Tree
<1>2. <<DefaultStmt, BreakStmt>> \in Seq(New) /\ << >> \in Seq(New)
  <2> DEFINE S == New
  <2>1. DefaultStmt \in S /\ BreakStmt \in S
    OBVIOUS
  <2> HIDE DEF S
  <2>2. <<DefaultStmt, BreakStmt>> \in Seq(S) /\ << >> \in Seq(S)
    BY <2>1
  <2> QED BY <2>2 DEF S
<1>3. \A i \in 1..Len(p) :
         after[i] = IF p[i].kind = "switch" /\ ~HasDefault(p, i) THEN <<DefaultStmt, BreakStmt>> ELSE <<>>
  BY <1>1 DEF DefaultStmt, BreakStmt
<1>4. after \in [1..Len(p) -> Seq(New)]
  <2>1. after = [i \in 1..Len(p) |-> after[i]]
    BY <1>1
  <2> HIDE DEF after, New
  <2>2. \A i \in 1..Len(p) : after[i] \in Seq(New)
    BY <1>2, <1>3
  <2> QED BY <2>1, <2>2
<1>5. \A i \in 1..Len(p) : ~BlockEnds(f, p, {}, i)
  BY DEF BlockEnds
<1>6. before = [i \in 1..Len(p) |-> IF i \in {} THEN <<BlockStmt, SkipTo(-3)>> ELSE <<>>]
  BY <1>1 DEF Nothing
<1>7. q = Splice(before, p, after, InPlace(p))
  BY DEF addDefaultCases
<1> HIDE DEF before, after
<1>8. Shaped(f, p, {}, before, after)
  <2>1. ASSUME NEW i \in 1..Len(p)
        PROVE  IF p[i].kind \in Compound \cup {"else"}
               THEN \A k \in 1..Len(after[i]) :
                       \/ after[i][k] \in {EmptyStmt, DefaultStmt}
                       \/ after[i][k] = BreakStmt /\ p[i].kind = "switch"
               ELSE after[i] = IF BlockEnds(f, p, {}, i) THEN <<End>> ELSE <<>>
    <3>1. CASE p[i].kind = "switch" /\ ~HasDefault(p, i)
      <4>1. after[i] = <<DefaultStmt, BreakStmt>>
        BY <1>3, <3>1
      <4> DEFINE b == DefaultStmt
                 c == BreakStmt
      <4> HIDE DEF b, c
      <4>2. Len(<<b, c>>) = 2 /\ <<b, c>>[1] = b /\ <<b, c>>[2] = c
        OBVIOUS
      <4>3. Len(after[i]) = 2 /\ after[i][1] = b /\ after[i][2] = c
        BY <4>1, <4>2 DEF b, c
      <4>4. \A k \in 1..Len(after[i]) : k = 1 \/ k = 2
        BY <4>3
      <4> QED BY <3>1, <4>3, <4>4 DEF Compound, b, c
    <3>2. CASE ~(p[i].kind = "switch" /\ ~HasDefault(p, i))
      <4>1. after[i] = << >> /\ Len(<< >>) = 0
        BY <1>3, <3>2
      <4> QED BY <1>5, <4>1
    <3> QED BY <3>1, <3>2
  <2> QED BY <1>4, <1>6, <2>1 DEF Shaped
<1>9. PICK s, hd, tl : Rewritten(f, p, q, {}, s, hd, tl, after)
  BY <1>7, <1>8, SpliceRewrites
<1> QED BY <1>3, <1>8, <1>9

LEMMA DefaultsFinished ==
    ASSUME NEW p, NEW f, Finished(f, p), Plain(f, p), NEW q, q = addDefaultCases(p)
    PROVE  \E g : Finished(g, q) /\ Plain(g, q)
<1>1. PICK before, after, s, hd, tl :
              Shaped(f, p, {}, before, after) /\ Rewritten(f, p, q, {}, s, hd, tl, after)
  BY DefaultsRewritten
<1>2. PICK g : g = NewParent(f, p, {}, s, hd)
  OBVIOUS
<1> QED BY <1>1, <1>2, RewrittenFinished

\* Where blocks are closed.
LEMMA ClosesIs ==
    ASSUME NEW p, NEW f, Tree(f, p), Closed(f, p), NEW W \in SUBSET (1..Len(p)), NEW i \in 1..Len(p),
           p[i].kind \notin Compound
    PROVE  Closes(p, i, W) <=> BlockEnds(f, p, W, i)
<1>1. CASE p[i].kind \in Closing
  <2>1. f[i] \in 1..Len(p) /\ p[f[i]].kind \in Compound
    <3>1. f[i] # 0 /\ f[i] \in 0..(i - 1) /\ Len(p) \in Nat
      BY <1>1 DEF Tree
    <3>2. f[i] \in 1..Len(p)
      BY <3>1
    <3> QED BY <3>1, <3>2 DEF Tree
  <2>2. EndOf(p, f[i]) = i
    <3>1. Ends(f, p, f[i], i)
      BY <1>1 DEF Ends
    <3> QED BY <2>1, <3>1, EndIs
  <2>3. ASSUME NEW j \in W, p[j].kind \in Compound, EndOf(p, j) = i, j \in 1..Len(p) PROVE f[i] = j
    BY <2>3, EndIs DEF Ends
  <2>4. ASSUME NEW j \in W, p[j].kind \in Compound, EndOf(p, j) = i PROVE f[i] \in W
    BY <2>3, <2>4
  <2> QED BY <1>1, <2>1, <2>2, <2>4 DEF Closes, BlockEnds
<1>2. CASE p[i].kind \notin Closing
  BY <1>2 DEF Closes, BlockEnds
<1> QED BY <1>1, <1>2

LEMMA SplitsPrepatched ==
    ASSUME NEW p, NEW f, Finished(f, p), Plain(f, p), NEW q, q = prepatchSplits(p)
    PROVE  \E s, hd, tl : Prepatched(f, p, q, Fallthroughs(p), s, hd, tl)
<1> DEFINE W == Fallthroughs(p)
           before == [i \in DOMAIN p |->
                         IF i \in W
                         THEN <<Item("block", 0, "none"), Item("goto", -3, "none")>> ELSE <<>>]
           after == [i \in DOMAIN p |->
                        IF p[i].kind \in {"if", "else"} THEN <<EmptyStmt>>
                        ELSE IF Closes(p, i, W) THEN <<End>> ELSE <<>>]
           New == {EmptyStmt, DefaultStmt, BreakStmt, End}
<1>1. p \in Seq(Items) /\ DOMAIN p = 1..Len(p) /\ Tree(f, p) /\ Closed(f, p)
  BY DEF Finished, Written, Tree
<1>2. q = Splice(before, p, after, InPlace(p))
  BY DEF prepatchSplits
<1>3. \A i \in W : i \in 1..Len(p) /\ p[i].kind \notin Closing \cup {"else"}
  <2> SUFFICES ASSUME NEW i \in W PROVE i \in 1..Len(p) /\ p[i].kind \notin Closing \cup {"else"}
    OBVIOUS
  <2>1. i \in 1..Len(p) /\ p[i].kind \notin {"else", "end"}
    BY <1>1 DEF Fallthroughs, Statements, IsStatement
  <2>2. p[i].kind \in Kinds
    <3>1. p[i] \in Items
      BY <1>1, <2>1, ElementOfSeq
    <3> QED BY <3>1 DEF Items
  <2> QED BY <2>1, <2>2 DEF Kinds, Closing
<1> HIDE DEF W
<1>4. before = [i \in 1..Len(p) |-> IF i \in W THEN <<BlockStmt, SkipTo(-3)>> ELSE <<>>]
  BY <1>1 DEF BlockStmt, SkipTo
<1>5. \A i \in 1..Len(p) :
         after[i] = IF p[i].kind \in {"if", "else"} THEN <<EmptyStmt>>
                    ELSE IF Closes(p, i, W) THEN <<End>> ELSE <<>>
  BY <1>1
<1>6. <<EmptyStmt>> \in Seq(New) /\ <<End>> \in Seq(New) /\ << >> \in Seq(New)
  <2> DEFINE S == New
  <2>1. EmptyStmt \in S /\ End \in S
    OBVIOUS
  <2> HIDE DEF S
  <2>2. <<EmptyStmt>> \in Seq(S) /\ <<End>> \in Seq(S) /\ << >> \in Seq(S)
    BY <2>1
  <2> QED BY <2>2 DEF S
<1>7. after \in [1..Len(p) -> Seq(New)]
  <2>1. after = [i \in 1..Len(p) |-> after[i]]
    BY <1>1
  <2> HIDE DEF after, New
  <2>2. \A i \in 1..Len(p) : after[i] \in Seq(New)
    BY <1>5, <1>6
  <2> QED BY <2>1, <2>2
<1> HIDE DEF before, after
<1>8. ASSUME NEW i \in 1..Len(p)
      PROVE  /\ p[i].kind \in {"if", "else"} => after[i] = <<EmptyStmt>>
             /\ p[i].kind \in {"switch", "loop", "block"} => after[i] = <<>>
             /\ p[i].kind \notin Compound \cup {"else"} =>
                    after[i] = IF BlockEnds(f, p, W, i) THEN <<End>> ELSE <<>>
  <2>1. p[i].kind \in {"switch", "loop", "block"} => ~Closes(p, i, W)
    BY DEF Closes, Compound, Closing
  <2>2. p[i].kind \notin Compound \cup {"else"} =>
           p[i].kind \notin {"if", "else"} /\ (Closes(p, i, W) <=> BlockEnds(f, p, W, i))
    <3>1. W \in SUBSET (1..Len(p))
      BY <1>3
    <3> QED BY <1>1, <3>1, ClosesIs DEF Compound
  <2> QED BY <1>5, <2>1, <2>2
<1>9. Shaped(f, p, W, before, after)
  <2>1. ASSUME NEW i \in 1..Len(p), p[i].kind \in Compound \cup {"else"}, NEW k \in 1..Len(after[i])
        PROVE  after[i][k] = EmptyStmt
    <3>1. p[i].kind \in {"if", "else"} \/ p[i].kind \in {"switch", "loop", "block"}
      BY <2>1 DEF Compound
    <3>2. Len(<<EmptyStmt>>) = 1 /\ Len(<< >>) = 0 /\ <<EmptyStmt>>[1] = EmptyStmt
      OBVIOUS
    <3>3. after[i] = <<EmptyStmt>> \/ after[i] = <<>>
      BY <1>8, <3>1
    <3>4. after[i] = <<EmptyStmt>> /\ k = 1
      <4> DEFINE m == Len(after[i])
      <4>1. m = 0 \/ (m = 1 /\ after[i] = <<EmptyStmt>>)
        BY <3>2, <3>3
      <4>2. k \in 1..m
        OBVIOUS
      <4> HIDE DEF m
      <4>3. m = 1 /\ k = 1
        BY <4>1, <4>2
      <4> QED BY <4>1, <4>3
    <3> QED BY <3>2, <3>4
  <2> QED BY <1>4, <1>7, <1>8, <2>1 DEF Shaped
<1>10. PICK s, hd, tl : Rewritten(f, p, q, W, s, hd, tl, after)
  BY <1>2, <1>3, <1>9, SpliceRewrites
<1>11. Prepatched(f, p, q, W, s, hd, tl)
  BY <1>8, <1>9, <1>10 DEF Prepatched
<1> QED BY <1>11 DEF W

LEMMA PrepatchedItems ==
    ASSUME NEW p, NEW f, Finished(f, p), NEW q, NEW W, NEW s, NEW hd, NEW tl,
           Prepatched(f, p, q, W, s, hd, tl)
    PROVE  /\ Layout(f, p, q, W, s, hd, tl)
           /\ \A i \in 1..Len(p) :
                 /\ q[Pos(s, hd, i)].kind = p[i].kind /\ q[Pos(s, hd, i)].label = p[i].label
                 /\ i \in W => /\ q[Lead(s, i)].label = "none"
                               /\ q[Lead(s, i) + 1].kind = "goto" /\ q[Lead(s, i) + 1].label = "none"
                               /\ Lead(s, i) + 1 \in 1..Len(q)
                 /\ p[i].kind \in {"if", "else"} =>
                       /\ tl[i] = 1 /\ Pos(s, hd, i) + 1 \in 1..Len(q)
                       /\ q[Pos(s, hd, i) + 1].kind = "instr"
                       /\ q[Pos(s, hd, i) + 1].label = "none"
                 /\ p[i].kind \in {"switch", "loop", "block"} => tl[i] = 0
           /\ \A x \in 1..Len(q) : \E i \in 1..Len(p) :
                 \/ x = Pos(s, hd, i)
                 \/ i \in W /\ x = Lead(s, i) /\ q[x].kind = "block"
                 \/ q[x].kind \in {"goto", "end"}
                 \/ p[i].kind \in {"if", "else"} /\ x = Pos(s, hd, i) + 1 /\ q[x].kind = "instr"
<1>1. PICK before, after :
        /\ Shaped(f, p, W, before, after) /\ Rewritten(f, p, q, W, s, hd, tl, after)
        /\ \A i \in 1..Len(p) :
              /\ p[i].kind \in {"if", "else"} => after[i] = <<EmptyStmt>>
              /\ p[i].kind \in {"switch", "loop", "block"} => after[i] = <<>>
  BY DEF Prepatched
<1>2. Layout(f, p, q, W, s, hd, tl)
  BY <1>1 DEF Rewritten
<1>3. /\ BlockStmt.kind = "block" /\ BlockStmt.label = "none"
      /\ \A d : SkipTo(d).kind = "goto" /\ SkipTo(d).label = "none"
  BY DEF BlockStmt, SkipTo, Item
<1>4. EmptyStmt.kind = "instr" /\ EmptyStmt.label = "none" /\ End.kind = "end"
  BY NewItems
<1>5. Len(<<EmptyStmt>>) = 1 /\ Len(<< >>) = 0 /\ <<EmptyStmt>>[1] = EmptyStmt
  OBVIOUS
<1>6. ASSUME NEW i \in 1..Len(p)
      PROVE  /\ q[Pos(s, hd, i)].kind = p[i].kind /\ q[Pos(s, hd, i)].label = p[i].label
             /\ i \in W => /\ q[Lead(s, i)].label = "none" /\ q[Lead(s, i)].kind = "block"
                           /\ q[Lead(s, i) + 1].kind = "goto" /\ q[Lead(s, i) + 1].label = "none"
                           /\ Lead(s, i) + 1 = s[i] + 2
                           /\ Lead(s, i) + 1 \in 1..Len(q)
             /\ p[i].kind \in {"if", "else"} =>
                   /\ tl[i] = 1 /\ q[Pos(s, hd, i) + 1] = EmptyStmt
                   /\ Pos(s, hd, i) + 1 \in 1..Len(q)
             /\ p[i].kind \in {"switch", "loop", "block"} => tl[i] = 0
  <2>1. /\ q[Pos(s, hd, i)] =
              [p[i] EXCEPT !.dest = IF p[i].kind = "goto" THEN Lead(s, p[i].dest) ELSE 0]
        /\ i \in W => hd[i] = 2 /\ q[Lead(s, i)] = BlockStmt /\ q[s[i] + 2] = SkipTo(Pos(s, hd, i))
        /\ tl[i] = Len(after[i])
        /\ \A k \in 1..tl[i] : q[Pos(s, hd, i) + k] = after[i][k]
    BY <1>1 DEF Rewritten
  <2>2. p[i] \in Items
    <3>1. p \in Seq(Items)
      BY DEF Finished, Written
    <3> QED BY <3>1, ElementOfSeq
  <2>3. q[Pos(s, hd, i)].kind = p[i].kind /\ q[Pos(s, hd, i)].label = p[i].label
    BY <2>1, <2>2 DEF Items
  <2>4. /\ hd[i] \in Nat /\ tl[i] \in Nat /\ s[i] \in Nat
        /\ Pos(s, hd, i) = s[i] + hd[i] + 1 /\ Lead(s, i) = s[i] + 1
        /\ \A k \in 1..(hd[i] + 1 + tl[i]) : s[i] + k \in 1..Len(q)
    BY <1>2, LayoutIs
  <2>5. i \in W => Lead(s, i) + 1 = s[i] + 2 /\ Lead(s, i) + 1 \in 1..Len(q)
    <3> SUFFICES ASSUME i \in W PROVE Lead(s, i) + 1 = s[i] + 2 /\ s[i] + 2 \in 1..Len(q)
      OBVIOUS
    <3>1. 2 \in 1..(hd[i] + 1 + tl[i])
      BY <2>1, <2>4
    <3> QED BY <2>4, <3>1
  <2>6. tl[i] = 1 => 1 \in 1..tl[i] /\ Pos(s, hd, i) + 1 \in 1..Len(q)
    <3> SUFFICES ASSUME tl[i] = 1 PROVE 1 \in 1..tl[i] /\ Pos(s, hd, i) + 1 \in 1..Len(q)
      OBVIOUS
    <3>1. hd[i] + 2 \in 1..(hd[i] + 1 + tl[i]) /\ s[i] + (hd[i] + 2) = Pos(s, hd, i) + 1
      BY <2>4
    <3> QED BY <2>4, <3>1
  <2>7. p[i].kind \in {"if", "else"} => tl[i] = 1 /\ q[Pos(s, hd, i) + 1] = EmptyStmt
    BY <1>1, <1>5, <2>1, <2>6
  <2>8. p[i].kind \in {"switch", "loop", "block"} => tl[i] = 0
    BY <1>1, <1>5, <2>1
  <2> QED BY <1>3, <2>1, <2>3, <2>5, <2>6, <2>7, <2>8
<1>7. ASSUME NEW x \in 1..Len(q)
      PROVE  \E i \in 1..Len(p) :
                 \/ x = Pos(s, hd, i)
                 \/ i \in W /\ x = Lead(s, i) /\ q[x].kind = "block"
                 \/ q[x].kind \in {"goto", "end"}
                 \/ p[i].kind \in {"if", "else"} /\ x = Pos(s, hd, i) + 1 /\ q[x].kind = "instr"
  <2>1. PICK i \in 1..Len(p) : Came(f, p, q, W, s, hd, tl, x, i)
    BY <1>1, CameFrom
  <2>2. ASSUME p[i].kind \in Compound \cup {"else"}, NEW k \in 1..tl[i], x = Pos(s, hd, i) + k
        PROVE  p[i].kind \in {"if", "else"} /\ x = Pos(s, hd, i) + 1 /\ q[x].kind = "instr"
    <3>1. p[i].kind \in {"if", "else"} \/ p[i].kind \in {"switch", "loop", "block"}
      BY <2>2 DEF Compound
    <3>2. p[i].kind \in {"if", "else"} /\ k = 1
      BY <1>6, <2>2, <3>1
    <3> QED BY <1>4, <1>6, <2>2, <3>2
  <2>3. p[i].kind = "switch" => p[i].kind \in Compound \cup {"else"}
    BY DEF Compound
  <2> QED BY <1>3, <1>4, <2>1, <2>2, <2>3 DEF Came
<1> QED BY <1>2, <1>4, <1>6, <1>7

\* Where control lands further on, a piece begins.
LEMMA Landed ==
    ASSUME NEW p, NEW f, NEW q, NEW W, NEW s, NEW hd, NEW tl, Layout(f, p, q, W, s, hd, tl),
           NEW k \in Statements(p), NEW x, x = Land(s, hd, k, Fall(p)[k]), x # 0,
           x \in Nat, x >= Lead(s, k)
    PROVE  /\ Fall(p)[k] \in Statements(p) /\ Fall(p)[k] > LastOf(p, k)
           /\ x = Lead(s, Fall(p)[k])
<1> DEFINE t == Fall(p)[k]
<1>1. Tree(f, p) /\ Closed(f, p) /\ DOMAIN p = 1..Len(p) /\ Len(p) \in Nat
  BY DEF Layout, Tree
<1>2. k \in 1..Len(p)
  BY <1>1 DEF Statements
<1>3. t = 0 \/ (t \in Statements(p) /\ (t > LastOf(p, k) \/ t < k))
  BY <1>1, <1>2, FallIs
<1> HIDE DEF t
<1>4. t # 0
  BY DEF Land, t
<1>5. t \in 1..Len(p)
  BY <1>1, <1>3, <1>4 DEF Statements
<1>6. ~(t < k)
  <2> SUFFICES ASSUME t < k PROVE FALSE
    OBVIOUS
  <2>1. t \in 0..(k - 1)
    BY <1>1, <1>2, <1>5
  <2>2. Pos(s, hd, t) < Lead(s, k) /\ Pos(s, hd, t) \in Nat /\ Lead(s, k) \in Nat
    BY <1>2, <2>1, LayoutOrder
  <2>3. x = Pos(s, hd, t)
    BY <1>4 DEF Land, t
  <2> QED BY <2>2, <2>3
<1>7. x = Lead(s, t)
  BY <1>4, <1>6 DEF Land, t
<1> QED BY <1>3, <1>4, <1>6, <1>7 DEF t

\* A case that anything but a goto or its switch led to has a block around it.
LEMMA NoCaseBehind ==
    ASSUME NEW p, NEW f, Finished(f, p), NEW q, NEW W, W = Fallthroughs(p),
           NEW s, NEW hd, NEW tl, Prepatched(f, p, q, W, s, hd, tl),
           NEW m \in Statements(p), p[m].kind # "goto",
           NEW t \in Statements(p), t \in Links(p, m), m # SwitchOf(p, t)
    PROVE  q[Lead(s, t)].label = "none"
<1>1. Len(p) \in Nat /\ DOMAIN p = 1..Len(p)
  BY DEF Finished, Written, Tree
<1>2. t \in 1..Len(p) /\ t # 0
  BY <1>1 DEF Statements
<1>3. t \in build(p)[m]
  BY <1>2 DEF build
<1>4. CASE t \in W
  BY <1>2, <1>4, PrepatchedItems
<1>5. CASE t \notin W
  <2>1. ~IsCase(p, t)
    BY <1>3, <1>5 DEF Fallthroughs
  <2>2. p[t].label = "none"
    BY <2>1 DEF IsCase, Statements
  <2>3. Pos(s, hd, t) = Lead(s, t)
    BY <1>2, <1>5, PrepatchedItems, PieceParents
  <2> QED BY <1>2, <2>2, <2>3, PrepatchedItems
<1> QED BY <1>4, <1>5

LEMMA SwitchIs ==
    ASSUME NEW p, NEW f, Finished(f, p), NEW m \in Statements(p), NEW t \in Statements(p),
           p[m].kind # "switch" \/ t > LastOf(p, m)
    PROVE  m # SwitchOf(p, t)
<1>1. Tree(f, p) /\ Closed(f, p) /\ DOMAIN p = 1..Len(p) /\ Len(p) \in Nat
  BY DEF Finished, Written, Tree
<1>2. m \in 1..Len(p) /\ t \in 1..Len(p) /\ m # 0
  BY <1>1 DEF Statements
<1>3. {"switch"} \subseteq Compound
  BY DEF Compound
<1>4. SUFFICES ASSUME m = SwitchOf(p, t) PROVE FALSE
  OBVIOUS
<1>5. p[m].kind = "switch" /\ LastOf(p, t) <= EndOf(p, m) /\ m \in 0..(t - 1)
  BY <1>1, <1>2, <1>3, <1>4, EnclosingIs DEF SwitchOf
<1>6. LastOf(p, m) = EndOf(p, m) /\ EndOf(p, m) \in 1..Len(p)
  <2>1. EndOf(p, m) \in (m + 1)..Len(p)
    BY <1>1, <1>2, <1>3, <1>5, EndIs
  <2> QED BY <1>1, <1>2, <1>3, <1>5, <2>1 DEF LastOf
<1>7. LastOf(p, t) \in t..Len(p)
  <2>1. CASE p[t].kind \in Compound
    <3>1. EndOf(p, t) \in (t + 1)..Len(p)
      BY <1>1, <1>2, <2>1, EndIs
    <3> QED BY <1>1, <1>2, <2>1, <3>1 DEF LastOf
  <2>2. CASE p[t].kind \notin Compound
    BY <1>1, <1>2, <2>2 DEF LastOf
  <2> QED BY <2>1, <2>2
<1>8. t > LastOf(p, m)
  BY <1>5
<1> QED BY <1>1, <1>2, <1>5, <1>6, <1>7, <1>8

\* Control falls from the room in a branch to where the branch is left.
LEMMA TailFall ==
    ASSUME NEW p, NEW f, Finished(f, p), Plain(f, p), NEW q, NEW W,
           NEW s, NEW hd, NEW tl, Prepatched(f, p, q, W, s, hd, tl),
           NEW k \in 1..Len(p), p[k].kind \in {"if", "else"},
           NEW m, m = IF p[k].kind = "if" THEN k ELSE f[k]
    PROVE  /\ m \in Statements(p) /\ p[m].kind = "if" /\ m <= k /\ m \in Nat
           /\ First(p, k + 1, Fall(p)[m]) \in Links(p, m)
           /\ Fall(q)[Pos(s, hd, k) + 1] =
                 IF IsStatement(p, k + 1) THEN Lead(s, k + 1) ELSE Land(s, hd, m, Fall(p)[m])
<1>0. PICK g : g = NewParent(f, p, W, s, hd)
  OBVIOUS
<1>1. Tree(f, p) /\ Closed(f, p) /\ Len(p) \in Nat /\ DOMAIN p = 1..Len(p)
  BY DEF Finished, Written, Tree
<1>2. Layout(f, p, q, W, s, hd, tl)
  BY PrepatchedItems
<1>3. Tree(g, q)
  BY <1>0, <1>2, LayoutTree
<1>4. /\ m \in 1..Len(p) /\ p[m].kind = "if" /\ m <= k
      /\ p[k].kind = "else" => f[k] = m /\ m # k
  <2>1. CASE p[k].kind = "if"
    BY <1>1, <2>1
  <2>2. CASE p[k].kind = "else"
    <3>1. f[k] # 0 /\ p[f[k]].kind = "if"
      BY <2>2 DEF Finished, Written
    <3>2. f[k] \in 0..(k - 1)
      BY <1>1 DEF Tree
    <3>3. f[k] \in 1..Len(p) /\ f[k] <= k /\ f[k] # k
      BY <1>1, <3>1, <3>2
    <3> QED BY <2>2, <3>1, <3>3
  <2> QED BY <2>1, <2>2
<1>5. m \in Statements(p) /\ m \in Nat /\ p[m].kind \notin Closing /\ p[m].kind \in Compound
  BY <1>1, <1>4 DEF Statements, IsStatement, Closing, Compound
<1>6. Links(p, m) = {First(p, m + 1, Fall(p)[m]), First(p, ElseOf(p, m) + 1, Fall(p)[m])}
  BY <1>4 DEF Links
<1>7. p[k].kind = "else" => ElseOf(p, m) = k
  <2> SUFFICES ASSUME p[k].kind = "else" PROVE ElseOf(p, m) = k
    OBVIOUS
  <2>1. /\ ElseOf(p, m) \in (m + 1)..Len(p)
        /\ p[ElseOf(p, m)].kind = "else" /\ f[ElseOf(p, m)] = m
    <3>1. PICK r : r = RemoveLoops(p)
      OBVIOUS
    <3> QED BY <1>4, <3>1, ElseIs
  <2>2. ElseOf(p, m) \in 1..Len(p)
    BY <1>1, <1>5, <2>1
  <2> QED BY <1>4, <2>1, <2>2 DEF Plain
<1>8. First(p, k + 1, Fall(p)[m]) \in Links(p, m)
  BY <1>6, <1>7
<1> DEFINE j == Pos(s, hd, k) + 1
<1>9. j \in 1..Len(q) /\ q[j].kind = "instr" /\ tl[k] = 1
  BY PrepatchedItems
<1>10. Follower(q, j) = Lead(s, k + 1)
  <2>1. Pos(s, hd, k) + tl[k] + 1 = Lead(s, k + 1)
    BY <1>2, LayoutStatement
  <2>2. Follower(q, j) = j + 1
    BY <1>9 DEF Follower, Compound
  <2> QED BY <1>9, <2>1, <2>2
<1>11. g[j] = Pos(s, hd, m)
  <2>1. 1 \in 1..tl[k]
    BY <1>9
  <2>2. p[k].kind \in Compound \cup {"else"} /\ (p[k].kind = "if" => p[k].kind \in Compound)
    BY DEF Compound
  <2>3. p[k].kind = "if" => g[Pos(s, hd, k) + 1] = Pos(s, hd, k)
    BY <1>0, <1>2, <2>1, <2>2, PieceParents
  <2>4. p[k].kind = "else" => g[Pos(s, hd, k) + 1] = Pos(s, hd, f[k])
    BY <1>0, <1>2, <2>1, <2>2, PieceParents
  <2> QED BY <1>4, <2>3, <2>4
<1>12. IsStatement(q, Lead(s, k + 1)) <=> IsStatement(p, k + 1)
  BY <1>2, LayoutStatement
<1>13. Pos(s, hd, m) # 0 /\ q[Pos(s, hd, m)].kind = "if"
  <2>1. Pos(s, hd, m) \in 1..Len(q)
    BY <1>2, <1>4, LayoutStatement
  <2>2. q[Pos(s, hd, m)].kind = "if"
    BY <1>4, PrepatchedItems
  <2> QED BY <2>1, <2>2
<1>14. Fall(q)[Pos(s, hd, m)] = Land(s, hd, m, Fall(p)[m])
  BY <1>2, <1>5, LayoutFall
<1> HIDE DEF j
<1>15. Fall(q)[j] = IF IsStatement(p, k + 1) THEN Lead(s, k + 1) ELSE Land(s, hd, m, Fall(p)[m])
  BY <1>3, <1>9, <1>10, <1>11, <1>12, <1>13, <1>14, FallStep
<1> QED BY <1>4, <1>5, <1>8, <1>15 DEF j

\* Only its switch and gotos lead to a case.
LEMMA CaseLinks ==
    ASSUME NEW p, NEW f, Finished(f, p), Plain(f, p), NEW q, NEW W, W = Fallthroughs(p),
           NEW s, NEW hd, NEW tl, Prepatched(f, p, q, W, s, hd, tl),
           NEW g, Finished(g, q),
           NEW x \in Statements(q), q[x].label # "none", NEW j \in Statements(q),
           x \in Links(q, j), x > j,
           q[j].kind \in {"instr", "call", "if", "switch", "loop", "block"}
    PROVE  j = SwitchOf(q, x)
<1>0. SUFFICES ASSUME j # SwitchOf(q, x) PROVE FALSE
  OBVIOUS
<1>1. Tree(f, p) /\ Closed(f, p) /\ Len(p) \in Nat /\ DOMAIN p = 1..Len(p)
  BY DEF Finished, Written, Tree
<1>2. Tree(g, q) /\ Closed(g, q) /\ Len(q) \in Nat /\ DOMAIN q = 1..Len(q)
  BY DEF Finished, Written, Tree
<1>3. Layout(f, p, q, W, s, hd, tl)
  BY PrepatchedItems
<1>4. x \in 1..Len(q) /\ j \in 1..Len(q) /\ x \in Nat /\ j \in Nat /\ x # 0 /\ x # j
  BY <1>2 DEF Statements
<1>5. ASSUME NEW i \in 1..Len(p)
      PROVE  /\ Pos(s, hd, i) \in Nat /\ Lead(s, i) \in Nat /\ Lead(s, i) <= Pos(s, hd, i)
             /\ i \in Statements(p) <=> p[i].kind \notin {"else", "end"}
             /\ q[Pos(s, hd, i)].kind = p[i].kind /\ q[Pos(s, hd, i)].label = p[i].label
             /\ Pos(s, hd, i) + tl[i] + 1 = Lead(s, i + 1)
             /\ IsStatement(q, Lead(s, i + 1)) <=> IsStatement(p, i + 1)
  <2>1. Pos(s, hd, i) \in Nat /\ Lead(s, i) \in Nat /\ Lead(s, i) <= Pos(s, hd, i)
    <3>1. 0 \in 0..(i - 1)
      BY <1>1
    <3> QED BY <1>3, <3>1, LayoutOrder
  <2>2. i \in Statements(p) <=> p[i].kind \notin {"else", "end"}
    BY <1>1 DEF Statements, IsStatement
  <2> QED BY <1>3, <2>1, <2>2, PrepatchedItems, LayoutStatement
\* What the links of p lead to has no label any more.
<1>6. ASSUME NEW m \in Statements(p), p[m].kind # "goto",
             NEW t \in Statements(p), t \in Links(p, m),
             p[m].kind # "switch" \/ t > LastOf(p, m)
      PROVE  x # Lead(s, t)
  <2>1. m # SwitchOf(p, t)
    BY <1>6, SwitchIs
  <2> QED BY <1>6, <2>1, NoCaseBehind
<1>7. ASSUME NEW m \in Statements(p), p[m].kind # "goto", j >= Lead(s, m),
             x = Land(s, hd, m, Fall(p)[m]), Fall(p)[m] \in Links(p, m)
      PROVE  FALSE
  <2>1. m \in 1..Len(p)
    BY <1>1 DEF Statements
  <2>2. x >= Lead(s, m)
    BY <1>4, <1>5, <1>7, <2>1
  <2>3. /\ Fall(p)[m] \in Statements(p) /\ Fall(p)[m] > LastOf(p, m)
        /\ x = Lead(s, Fall(p)[m])
    BY <1>3, <1>4, <1>7, <2>2, Landed
  <2> QED BY <1>6, <1>7, <2>3
\* An empty statement at the head of a branch is no case.
<1>8. ASSUME NEW k \in 1..Len(p), p[k].kind \in {"if", "else"}, NEW next
      PROVE  x # First(q, Pos(s, hd, k) + 1, next)
  <2>1. /\ Pos(s, hd, k) + 1 \in 1..Len(q)
        /\ q[Pos(s, hd, k) + 1].kind = "instr"
        /\ q[Pos(s, hd, k) + 1].label = "none"
    BY <1>8, PrepatchedItems
  <2>2. IsStatement(q, Pos(s, hd, k) + 1)
    BY <1>2, <2>1 DEF IsStatement
  <2> QED BY <2>1, <2>2 DEF First
<1>9. PICK k \in 1..Len(p) :
                 \/ j = Pos(s, hd, k)
                 \/ k \in W /\ j = Lead(s, k) /\ q[j].kind = "block"
                 \/ q[j].kind \in {"goto", "end"}
                 \/ p[k].kind \in {"if", "else"} /\ j = Pos(s, hd, k) + 1 /\ q[j].kind = "instr"
  BY <1>4, PrepatchedItems
<1>10. CASE p[k].kind \in {"if", "else"} /\ j = Pos(s, hd, k) + 1 /\ q[j].kind = "instr"
  <2>1. PICK m : m = IF p[k].kind = "if" THEN k ELSE f[k]
    OBVIOUS
  <2>2. /\ m \in Statements(p) /\ p[m].kind = "if" /\ m <= k /\ m \in Nat
        /\ First(p, k + 1, Fall(p)[m]) \in Links(p, m)
        /\ Fall(q)[j] =
              IF IsStatement(p, k + 1) THEN Lead(s, k + 1) ELSE Land(s, hd, m, Fall(p)[m])
    BY <1>10, <2>1, TailFall
  <2>3. x = Fall(q)[j]
    BY <1>10 DEF Links
  <2>4. CASE IsStatement(p, k + 1)
    <3>1. k + 1 \in Statements(p) /\ k + 1 \in Links(p, m) /\ x = Lead(s, k + 1)
      BY <2>2, <2>3, <2>4 DEF First, Statements, IsStatement
    <3> QED BY <1>6, <2>2, <3>1
  <2>5. CASE ~IsStatement(p, k + 1)
    <3>1. Fall(p)[m] \in Links(p, m) /\ x = Land(s, hd, m, Fall(p)[m])
      BY <2>2, <2>3, <2>5 DEF First
    <3>2. j >= Lead(s, m)
      <4>1. m \in 1..Len(p) /\ (m = k \/ m \in 0..(k - 1))
        BY <1>1, <2>2 DEF Statements
      <4>2. m # k => Lead(s, m) < Lead(s, k)
        BY <1>3, <1>1, <4>1, LayoutOrder
      <4> QED BY <1>5, <1>10, <4>1, <4>2
    <3> QED BY <1>7, <2>2, <3>1, <3>2
  <2> QED BY <2>4, <2>5
<1>11. CASE k \in W /\ j = Lead(s, k) /\ q[j].kind = "block"
  <2>1. x = First(q, j + 1, Fall(q)[j])
    BY <1>11 DEF Links
  <2>2. q[j + 1].kind = "goto" /\ q[j + 1].label = "none" /\ j + 1 \in 1..Len(q)
    BY <1>11, PrepatchedItems
  <2>3. IsStatement(q, j + 1)
    BY <1>2, <2>2 DEF IsStatement
  <2> QED BY <2>1, <2>2, <2>3 DEF First
<1>12. CASE j = Pos(s, hd, k)
  <2>1. q[j].kind = p[k].kind /\ k \in Statements(p) /\ j >= Lead(s, k) /\ p[k].kind # "goto"
        /\ p[k].kind \notin Closing
    BY <1>5, <1>12 DEF Closing
  <2>2. Fall(q)[j] = Land(s, hd, k, Fall(p)[k])
    BY <1>3, <1>12, <2>1, LayoutFall
  <2>3. CASE p[k].kind \in {"instr", "call"}
    <3>1. x = Fall(q)[j] /\ Fall(p)[k] \in Links(p, k)
      BY <2>1, <2>3 DEF Links
    <3> QED BY <1>7, <2>1, <2>2, <3>1
  <2>4. CASE p[k].kind = "if"
    <3>1. x = First(q, j + 1, Fall(q)[j]) \/ x = First(q, ElseOf(q, j) + 1, Fall(q)[j])
      BY <2>1, <2>4 DEF Links
    <3>2. ElseOf(q, j) \in 1..Len(q) /\ q[ElseOf(q, j)].kind = "else"
      <4>1. PICK r : r = RemoveLoops(q)
        OBVIOUS
      <4>2. ElseOf(q, j) \in (j + 1)..Len(q) /\ q[ElseOf(q, j)].kind = "else"
        BY <1>4, <2>1, <2>4, <4>1, ElseIs
      <4> QED BY <1>2, <1>4, <4>2
    <3>3. PICK e \in 1..Len(p) : ElseOf(q, j) = Pos(s, hd, e)
      <4>1. PICK y \in 1..Len(q) : y = ElseOf(q, j)
        BY <3>2
      <4>2. q[y].kind = "else"
        BY <3>2, <4>1
      <4>3. PICK e \in 1..Len(p) :
                 \/ y = Pos(s, hd, e)
                 \/ e \in W /\ y = Lead(s, e) /\ q[y].kind = "block"
                 \/ q[y].kind \in {"goto", "end"}
                 \/ p[e].kind \in {"if", "else"} /\ y = Pos(s, hd, e) + 1 /\ q[y].kind = "instr"
        BY PrepatchedItems
      <4>4. y = Pos(s, hd, e)
        BY <4>2, <4>3
      <4> QED BY <4>1, <4>4
    <3>4. p[e].kind = "else"
      BY <1>5, <3>2, <3>3
    <3> QED BY <1>8, <1>12, <2>4, <3>1, <3>3, <3>4
  <2>5. CASE p[k].kind = "switch"
    <3>1. x \notin Cases(q, j)
      BY <1>0 DEF Cases, SwitchOf
    <3>2. x = Fall(q)[j] /\ ~HasDefault(q, j)
      BY <2>1, <2>5, <3>1 DEF Links
    <3>3. ~HasDefault(p, k)
      <4> SUFFICES ASSUME NEW d \in Cases(p, k), p[d].label = "default" PROVE FALSE
        BY DEF HasDefault
      <4>1. d \in Statements(p) /\ Enclosing(p, d, {"switch"}) = k
        BY DEF Cases
      <4>2. d \in 1..Len(p)
        BY <1>1, <4>1 DEF Statements
      <4>3. Pos(s, hd, d) \in Statements(q) /\ q[Pos(s, hd, d)].label = "default"
        <5>1. IsStatement(q, Pos(s, hd, d)) <=> IsStatement(p, d)
          BY <1>3, <4>2, LayoutStatement
        <5> QED BY <1>5, <4>1, <4>2, <5>1 DEF Statements, IsStatement
      <4>4. Enclosing(q, Pos(s, hd, d), {"switch"}) = j
        <5> DEFINE K == {"switch"}
        <5>1. "block" \notin K
          OBVIOUS
        <5>2. Enclosing(p, d, K) = k
          BY <4>1
        <5> HIDE DEF K
        <5>3. Enclosing(q, Pos(s, hd, d), K) = Pos(s, hd, Enclosing(p, d, K))
          BY <1>3, <4>2, <5>1, LayoutEnclosing
        <5> QED BY <1>12, <5>2, <5>3 DEF K
      <4>5. Pos(s, hd, d) \in Cases(q, j)
        BY <4>3, <4>4 DEF Cases
      <4> QED BY <3>2, <4>3, <4>5 DEF HasDefault
    <3>4. Fall(p)[k] \in Links(p, k)
      BY <2>5, <3>3 DEF Links
    <3> QED BY <1>7, <2>1, <2>2, <3>2, <3>4
  <2>6. CASE p[k].kind \in {"loop", "block"}
    <3>1. tl[k] = 0
      BY <2>6, PrepatchedItems
    <3>2. j + 1 = Lead(s, k + 1)
      BY <1>5, <1>12, <3>1
    <3>3. CASE IsStatement(p, k + 1)
      <4>1. x = j + 1
        BY <1>5, <2>1, <2>6, <3>2, <3>3 DEF Links, First
      <4>2. k + 1 \in Statements(p) /\ k + 1 \in Links(p, k)
        BY <2>6, <3>3 DEF Links, First, Statements, IsStatement
      <4> QED BY <1>6, <2>1, <2>6, <3>2, <4>1, <4>2
    <3>4. CASE ~IsStatement(p, k + 1)
      <4>1. ~IsStatement(q, j + 1)
        BY <1>5, <3>2, <3>4
      <4>2. CASE p[k].kind = "loop"
        BY <1>4, <2>1, <4>1, <4>2 DEF Links, First
      <4>3. CASE p[k].kind = "block"
        <5>1. x = Fall(q)[j]
          BY <2>1, <4>1, <4>3 DEF Links, First
        <5>2. Fall(p)[k] \in Links(p, k)
          BY <3>4, <4>3 DEF Links, First
        <5> QED BY <1>7, <2>1, <2>2, <5>1, <5>2
      <4> QED BY <2>6, <4>2, <4>3
    <3> QED BY <3>3, <3>4
  <2> QED BY <2>1, <2>3, <2>4, <2>5, <2>6
<1> QED BY <1>9, <1>10, <1>11, <1>12

\* Nothing else leads to a case, whatever body prepatchSplits is given.
LEMMA CasesEntered ==
    ASSUME NEW p, NEW f, Finished(f, p), Plain(f, p), NEW q, q = prepatchSplits(p),
           NEW r, r = RemoveLoops(q),
           NEW i \in Statements(r), IsCase(r, i), NEW j \in Statements(r) \ Gotos(r), i \in build(r)[j]
    PROVE  j = SwitchOf(r, i)
<1>1. PICK W : W = Fallthroughs(p)
  OBVIOUS
<1>2. PICK s, hd, tl : Prepatched(f, p, q, W, s, hd, tl)
  BY <1>1, SplitsPrepatched
<1>3. PICK g : Finished(g, q)
  <2>1. PICK before, after : Shaped(f, p, W, before, after) /\ Rewritten(f, p, q, W, s, hd, tl, after)
    BY <1>2 DEF Prepatched
  <2>2. PICK g : g = NewParent(f, p, W, s, hd)
    OBVIOUS
  <2> QED BY <2>1, <2>2, RewrittenFinished
<1>4. DOMAIN q = 1..Len(q) /\ DOMAIN r = 1..Len(q) /\ q \in Seq(Items)
      /\ \A k \in 1..Len(q) : Replaces(g, q, k, r[k])
  <2>1. DOMAIN q = 1..Len(q) /\ q \in Seq(Items)
    BY <1>3 DEF Finished, Written, Tree
  <2>2. DOMAIN r = 1..Len(q) /\ \A k \in 1..Len(q) : Replaces(g, q, k, r[k])
    BY <1>3, JumpsReplace
  <2> QED BY <2>1, <2>2
<1>5. i \in 1..Len(q) /\ j \in 1..Len(q) /\ r[i].label # "none" /\ r[j].kind \notin {"goto", "back"}
  BY <1>4 DEF Statements, IsCase, Gotos
<1>6. i \in Statements(q) /\ j \in Statements(q) /\ q[i].label # "none" /\ r[i].kind # "back"
  <2>1. j \in Statements(q)
    BY <1>3, <1>5, StatementsKept
  <2>2. q[i].label # "none"
    BY <1>4, <1>5 DEF Replaces
  <2>3. q[i].kind # "end"
    BY <1>3, <1>5, <2>2 DEF Finished, Written
  <2>4. i \in Statements(q)
    BY <1>3, <2>3, StatementsKept
  <2> QED BY <1>3, <2>1, <2>2, <2>4, StatementsKept
<1>7. i \in Links(r, j) /\ i # 0
  BY DEF build
<1>8. i \in Links(q, j)
  <2>1. {Stands(r, t) : t \in Links(r, j)} \ {0} = Links(q, j) \ {0}
    BY <1>3, <1>6, LinksKept
  <2>2. Stands(r, i) = i
    BY <1>6, <1>7 DEF Stands
  <2>3. i \in {Stands(r, t) : t \in Links(r, j)}
    BY <1>7, <2>2
  <2> QED BY <1>7, <2>1, <2>3
<1>9. i > j
  <2>1. j \notin Backward(r)
    BY DEF Backward
  <2> QED BY <1>3, <2>1, LinksForward
<1>10. q[j].kind \in {"instr", "call", "if", "switch", "loop", "block"}
  <2>1. q[j].kind \in Kinds /\ q[j].kind \notin {"else", "end"}
    <3>1. q[j] \in Items
      BY <1>4, <1>5, ElementOfSeq
    <3> QED BY <1>6, <3>1 DEF Items, Statements, IsStatement
  <2>2. Replaces(g, q, j, r[j])
    BY <1>4, <1>5
  <2>3. r[j].kind # "return"
    BY <1>7 DEF Links
  <2>4. q[j].kind \notin {"return", "goto"}
    BY <1>5, <2>2, <2>3 DEF Replaces
  <2>5. q[j].kind \notin {"break", "continue"}
    BY <1>5, <2>2, <2>3 DEF Replaces
  <2> QED BY <2>1, <2>4, <2>5 DEF Kinds
<1>11. j = SwitchOf(q, i)
  BY <1>1, <1>2, <1>3, <1>6, <1>8, <1>9, <1>10, CaseLinks
<1>12. i \in Cases(q, j)
  BY <1>6, <1>11 DEF Cases, SwitchOf
<1>13. i \in Cases(r, j)
  BY <1>3, <1>12, CasesKept
<1> QED BY <1>13 DEF Cases, SwitchOf

\* prepatch makes a goto of everything else that leads to a case, so that patch
\* only has gotos to redirect: whatever the shape of the body.
THEOREM Redirection == Spec => []CasesAreRedirected
<1>1. BodyInv /\ PlainInv => CasesAreRedirected
  <2> SUFFICES ASSUME BodyInv, PlainInv, Complete PROVE CasesAreRedirected
    BY DEF CasesAreRedirected
  <2>1. Finished(Parent(body), body) /\ Plain(Parent(body), body)
    BY CompleteIsFinished DEF PlainInv
  <2>2. PICK p : p = addDefaultCases(body)
    OBVIOUS
  <2>3. PICK f : Finished(f, p) /\ Plain(f, p)
    BY <2>1, <2>2, DefaultsFinished
  <2>4. prepatch(body) = prepatchSplits(p)
    BY <2>2 DEF prepatch
  <2> QED BY <2>3, <2>4, CasesEntered DEF CasesAreRedirected
<1>2. Spec => []BodyInv
  BY InitBody, NextBody, PTL DEF Spec
<1> QED BY <1>1, <1>2, InitPlain, NextPlain, PTL DEF Spec

-----------------------------------------------------------------------------
(* Counterweights *)

\* There is only one way to bound u tightly along the links of g.
LEMMA BoundsAgree ==
    ASSUME NEW nodes, NEW g, NEW n, Forward(nodes, g, n),
           NEW V, NEW E, NEW u, Bounds(V, u, nodes, g), Bounds(E, u, nodes, g)
    PROVE  \A i \in nodes : V[i] = E[i]
<1>1. ASSUME NEW i \in nodes, \A s \in g.succ[i] \ g.headers : V[s] = E[s]
      PROVE  V[i] = E[i]
  <2>1. V[i] \in Nat /\ E[i] \in Nat /\ u[i] \in Nat
    BY DEF Bounds
  <2>2. V[i] <= E[i]
    <3>1. CASE V[i] = u[i]
      BY <2>1, <3>1 DEF Bounds
    <3>2. CASE V[i] # u[i]
      <4>1. PICK s \in g.succ[i] \ g.headers : V[i] = u[i] + V[s]
        BY <3>2 DEF Bounds
      <4>2. E[i] >= u[i] + E[s] /\ V[s] = E[s]
        BY <1>1 DEF Bounds
      <4> QED BY <2>1, <4>1, <4>2
    <3> QED BY <3>1, <3>2
  <2>3. E[i] <= V[i]
    <3>1. CASE E[i] = u[i]
      BY <2>1, <3>1 DEF Bounds
    <3>2. CASE E[i] # u[i]
      <4>1. PICK s \in g.succ[i] \ g.headers : E[i] = u[i] + E[s]
        BY <3>2 DEF Bounds
      <4>2. V[i] >= u[i] + V[s] /\ V[s] = E[s]
        BY <1>1 DEF Bounds
      <4> QED BY <2>1, <4>1, <4>2
    <3> QED BY <3>1, <3>2
  <2> QED BY <2>1, <2>2, <2>3
<1>2. \A i \in nodes \ g.headers : V[i] = E[i]
  <2> DEFINE Bad == {i \in nodes \ g.headers : V[i] # E[i]}
  <2> SUFFICES ASSUME Bad # {} PROVE FALSE
    OBVIOUS
  <2>1. n \in Nat /\ Bad \in SUBSET (1..n)
    BY DEF Forward
  <2>2. PICK x \in Bad : \A y \in Bad : y <= x
    BY <2>1, LargestNumber
  <2>3. ASSUME NEW t \in g.succ[x] \ g.headers PROVE V[t] = E[t]
    <3>1. t \in nodes /\ t > x /\ t \in 1..n /\ x \in 1..n
      BY <2>3 DEF Forward
    <3>2. t \notin Bad
      BY <2>2, <3>1
    <3> QED BY <2>3, <3>1, <3>2
  <2> QED BY <1>1, <2>3
<1>3. ASSUME NEW i \in nodes PROVE \A s \in g.succ[i] \ g.headers : V[s] = E[s]
  BY <1>2 DEF Forward
<1> QED BY <1>1, <1>3

LEMMA PreparedItem ==
    ASSUME NEW f, NEW p, Prepared(f, p), NEW i \in 1..Len(p)
    PROVE  /\ Len(p) \in Nat /\ DOMAIN p = 1..Len(p)
           /\ p[i].kind \in JumpKinds /\ p[i].dest \in 0..Len(p) /\ p[i].label \in {"none", "case", "default"}
           /\ i \in Statements(p) <=> p[i].kind \notin {"else", "end"}
           /\ p[i].kind # "loop"
           /\ f[i] \in 0..(i - 1)
           /\ Enclosing(p, i, Compound) = f[i]
<1>1. Tree(f, p)
  BY DEF Prepared
<1>2. Len(p) \in Nat /\ DOMAIN p = 1..Len(p) /\ f[i] \in 0..(i - 1) /\ (f[i] # 0 => p[f[i]].kind \in Compound)
  BY <1>1 DEF Tree
<1>3. p[i] \in [kind : JumpKinds, dest : 0..Len(p), label : {"none", "case", "default"}, scale : Int]
  BY DEF Prepared
<1>4. p[i].kind # "loop"
  BY <1>3 DEF JumpKinds
<1>5. i \in Statements(p) <=> p[i].kind \notin {"else", "end"}
  BY <1>2 DEF Statements, IsStatement
<1>6. Enclosing(p, i, Compound) = f[i]
  BY <1>1, <1>2, EnclosingStep
<1> QED BY <1>2, <1>3, <1>4, <1>5, <1>6

LEMMA FlowIs ==
    ASSUME NEW p
    PROVE  /\ \A i \in Statements(p) : Flow(p).succ[i] = Links(p, i) \ {0}
           /\ \A i : i \in Flow(p).headers <=>
                 /\ i \in DOMAIN p
                 /\ p[i].kind = "call" \/ (p[i].kind \in {"goto", "back"} /\ p[i].dest < i)
           /\ DOMAIN Flow(p).scale = {j \in Statements(p) : p[j].scale # NoSite}
           /\ \A i \in DOMAIN Flow(p).scale : Flow(p).scale[i] = p[i].scale
  BY DEF Flow, build, Headers, Backward, Gotos

\* A switch leads to its cases, an if to its branches.
LEMMA CaseIs ==
    ASSUME NEW f, NEW p, Prepared(f, p), NEW i \in 1..Len(p), p[i].label # "none"
    PROVE  /\ i \in Statements(p) /\ i \notin Flow(p).headers
           /\ SwitchOf(p, i) \in Statements(p) /\ p[SwitchOf(p, i)].kind = "switch"
           /\ SwitchOf(p, i) \in 1..(i - 1)
           /\ i \in Links(p, SwitchOf(p, i)) /\ i \in Cases(p, SwitchOf(p, i))
<1>1. p[i].kind \in {"instr", "return", "if", "switch", "block"} /\ SwitchOf(p, i) # 0
  BY DEF Prepared
<1>2. Tree(f, p) /\ Closed(f, p) /\ {"switch"} \subseteq Compound
  BY DEF Prepared, Compound
<1>3. SwitchOf(p, i) \in 0..(i - 1) /\ p[SwitchOf(p, i)].kind = "switch"
  BY <1>1, <1>2, EnclosingIs DEF SwitchOf
<1>4. Len(p) \in Nat /\ i \in Statements(p) /\ DOMAIN p = 1..Len(p)
  BY <1>1, PreparedItem
<1>5. SwitchOf(p, i) \in 1..(i - 1)
  BY <1>1, <1>3, <1>4
<1>6. SwitchOf(p, i) \in 1..Len(p)
  BY <1>4, <1>5
<1>7. SwitchOf(p, i) \in Statements(p)
  BY <1>3, <1>6, PreparedItem
<1>8. i \in Cases(p, SwitchOf(p, i))
  BY <1>4 DEF Cases, SwitchOf
<1>9. i \in Links(p, SwitchOf(p, i))
  BY <1>3, <1>8 DEF Links
<1>10. i \notin Flow(p).headers
  BY <1>1, FlowIs
<1> QED BY <1>3, <1>4, <1>5, <1>7, <1>8, <1>9, <1>10

LEMMA BranchIs ==
    ASSUME NEW f, NEW p, Prepared(f, p), NEW i \in 1..Len(p), p[i].kind \in {"if", "else"},
           NEW m, m = SplitOf(f, p, i)
    PROVE  /\ i + 1 \in Statements(p) /\ i + 1 \notin Flow(p).headers /\ p[i + 1].label = "none"
           /\ p[i + 1].kind = "instr"
           /\ m \in Statements(p) /\ m \in 1..i /\ p[m].kind = "if"
           /\ p[i].kind = "else" => ElseOf(p, m) = i
           /\ i + 1 \in Links(p, m)
<1>1. i + 1 \in 1..Len(p) /\ p[i + 1].kind = "instr" /\ p[i + 1].label = "none"
  BY DEF Prepared
<1>2. i + 1 \in Statements(p) /\ IsStatement(p, i + 1)
  BY <1>1, PreparedItem DEF Statements
<1>3. i + 1 \notin Flow(p).headers
  BY <1>1, FlowIs
<1>4. m \in 1..i /\ p[m].kind = "if" /\ i \in Nat /\ Len(p) \in Nat
  <2>1. i \in Nat /\ Len(p) \in Nat /\ f[i] \in 0..(i - 1)
    BY PreparedItem
  <2>2. CASE p[i].kind = "if"
    BY <2>1, <2>2 DEF SplitOf
  <2>3. CASE p[i].kind = "else"
    <3>1. f[i] # 0 /\ p[f[i]].kind = "if"
      BY <2>3 DEF Prepared
    <3> QED BY <2>1, <2>3, <3>1 DEF SplitOf
  <2> QED BY <2>2, <2>3
<1>5. m \in Statements(p) /\ m \in 1..Len(p)
  <2>1. m \in 1..Len(p)
    BY <1>4
  <2> QED BY <1>4, <2>1, PreparedItem
<1>6. p[i].kind = "else" => ElseOf(p, m) = i
  <2> SUFFICES ASSUME p[i].kind = "else" PROVE ElseOf(p, m) = i
    OBVIOUS
  <2>1. m = f[i]
    BY DEF SplitOf
  <2>2. ElseOf(p, m) \in (m + 1)..Len(p) /\ p[ElseOf(p, m)].kind = "else" /\ f[ElseOf(p, m)] = m
    BY <1>4, <1>5 DEF Prepared
  <2>3. ElseOf(p, m) \in 1..Len(p)
    BY <1>4, <2>2
  <2> QED BY <2>1, <2>2, <2>3 DEF Prepared
<1>7. Links(p, m) = {First(p, m + 1, Fall(p)[m]), First(p, ElseOf(p, m) + 1, Fall(p)[m])}
  BY <1>4 DEF Links
<1>8. First(p, i + 1, Fall(p)[m]) = i + 1
  BY <1>2 DEF First
<1>9. i + 1 \in Links(p, m)
  <2>1. CASE p[i].kind = "if"
    BY <1>7, <1>8, <2>1 DEF SplitOf
  <2>2. CASE p[i].kind = "else"
    BY <1>6, <1>7, <1>8, <2>2
  <2> QED BY <2>1, <2>2
<1> QED BY <1>1, <1>2, <1>3, <1>4, <1>5, <1>6, <1>9

\* The weights that weigh finds.
LEMMA WeightsDescend ==
    ASSUME NEW f, NEW p, Prepared(f, p), NEW weight, NEW u,
           Bounds([i \in Statements(p) |-> weight[i].threshold], u, Statements(p), Flow(p))
    PROVE  Descends(f, p, weight)
<1> DEFINE V == [i \in Statements(p) |-> weight[i].threshold]
<1>1. \A i \in Statements(p) : V[i] = weight[i].threshold
  OBVIOUS
<1>0. Bounds(V, u, Statements(p), Flow(p))
  OBVIOUS
<1>2. \A i \in Statements(p) : u[i] \in Nat /\ V[i] \in Nat
  BY DEF Bounds
<1>3. ASSUME NEW i \in Statements(p), NEW j \in Statements(p), j \in Links(p, i), j \notin Flow(p).headers
      PROVE  weight[i].threshold - weight[j].threshold \in Nat
  <2>1. j # 0
    <3>1. j \in DOMAIN p
      BY DEF Statements
    <3>2. DOMAIN p = 1..Len(p)
      BY DEF Prepared, Tree
    <3> QED BY <3>1, <3>2
  <2>2. j \in Flow(p).succ[i] \ Flow(p).headers
    BY <1>3, <2>1, FlowIs
  <2> HIDE DEF V
  <2>3. V[i] >= u[i] + V[j] /\ u[i] \in Nat /\ V[i] \in Nat /\ V[j] \in Nat
    BY <1>0, <1>2, <2>2 DEF Bounds
  <2>4. V[i] - V[j] \in Nat
    BY <2>3
  <2> QED BY <1>1, <2>4
<1>4. \A i \in Statements(p) : weight[i].threshold \in Nat
  BY <1>1, <1>2
<1> HIDE DEF V
<1>5. ASSUME NEW i \in Statements(p), p[i].label # "none"
      PROVE  Ahead(p, weight, i) \in Nat
  <2>1. i \in 1..Len(p)
    BY DEF Statements, Prepared, Tree
  <2> QED BY <1>3, <1>5, <2>1, CaseIs DEF Ahead
<1>6. ASSUME NEW i \in 1..Len(p), p[i].kind \in {"if", "else"}
      PROVE  Behind(f, p, weight, i) \in Nat
  BY <1>3, <1>6, BranchIs DEF Behind
<1> QED BY <1>4, <1>5, <1>6 DEF Descends

LEMMA DummyIs ==
    /\ Dummy = [kind |-> "instr", dest |-> 0, label |-> "none", scale |-> 1]
    /\ Dummy.kind = "instr" /\ Dummy.dest = 0 /\ Dummy.label = "none" /\ Dummy.scale = 1
  BY DEF Dummy, EmptyStmt, Item

LEMMA MovedDummy ==
    ASSUME NEW s, NEW goal, NEW i
    PROVE  Moved(s, goal, i, Dummy) = Dummy
  BY DummyIs DEF Moved

LEMMA CounterweightsAre ==
    ASSUME NEW weight, NEW a, NEW b, weight[a].threshold - weight[b].threshold \in Nat,
           NEW c, c = Counterweights(weight, a, b), NEW V, Dummy \in V
    PROVE  /\ c \in Seq(V)
           /\ Len(c) = weight[a].threshold - weight[b].threshold
           /\ \A k \in 1..Len(c) : c[k] = Dummy
<1> DEFINE d == weight[a].threshold - weight[b].threshold
<1>1. d \in Nat /\ c = [k \in 1..d |-> Dummy]
  BY DEF Counterweights
<1> HIDE DEF d
<1>2. c \in [1..d -> V]
  BY <1>1
<1>3. c \in Seq(V) /\ DOMAIN c = 1..d
  BY <1>1, <1>2, SeqDef
<1>4. Len(c) = d
  BY <1>1, <1>3, LengthIs
<1> QED BY <1>1, <1>3, <1>4 DEF d

\* The block of a case and its counterweights.
LEMMA HeadIs ==
    ASSUME NEW V, NEW x \in V, NEW c \in Seq(V), NEW b, b = <<x>> \o c
    PROVE  /\ b \in Seq(V) /\ Len(c) \in Nat /\ Len(b) = 1 + Len(c)
           /\ b[1] = x
           /\ \A k \in 2..Len(b) : b[k] = c[k - 1] /\ k - 1 \in 1..Len(c)
  OBVIOUS

LEMMA PatchParts ==
    ASSUME NEW f, NEW p, Prepared(f, p), NEW weight, Descends(f, p, weight),
           NEW V, Dummy \in V, End \in V, \A i \in 1..Len(p) : CaseBlock(p[i].label) \in V,
           NEW i \in 1..Len(p), NEW b, b = PatchHead(p, weight, i), NEW a, a = PatchTail(f, p, weight, i)
    PROVE  /\ b \in Seq(V) /\ a \in Seq(V) /\ Len(b) \in Nat /\ Len(a) \in Nat
           /\ i \notin Wrapped(p) => Len(b) = 0
           /\ i \in Wrapped(p) => /\ Len(b) = 1 + Ahead(p, weight, i) /\ Len(b) >= 1
                                  /\ b[1] = CaseBlock(p[i].label)
                                  /\ \A k \in 2..Len(b) : b[k] = Dummy
           /\ p[i].kind \in {"if", "else"} => /\ Len(a) = Behind(f, p, weight, i)
                                              /\ \A k \in 1..Len(a) : a[k] = Dummy
           /\ p[i].kind \in {"switch", "block"} => Len(a) = 0
           /\ p[i].kind \notin Compound \cup {"else"} =>
                IF BlockEnds(f, p, Wrapped(p), i) THEN Len(a) = 1 /\ a[1] = End ELSE Len(a) = 0
<1>1. << >> \in Seq(V) /\ Len(<< >>) = 0 /\ <<End>> \in Seq(V) /\ Len(<<End>>) = 1 /\ <<End>>[1] = End
  OBVIOUS
<1>2. ASSUME i \in Wrapped(p)
      PROVE  /\ b \in Seq(V) /\ Len(b) = 1 + Ahead(p, weight, i) /\ Len(b) >= 1
             /\ b[1] = CaseBlock(p[i].label)
             /\ \A k \in 2..Len(b) : b[k] = Dummy
  <2>1. PICK c : c = Counterweights(weight, SwitchOf(p, i), i)
    OBVIOUS
  <2>2. Ahead(p, weight, i) \in Nat
    BY <1>2 DEF Wrapped, Descends
  <2>3. /\ c \in Seq(V) /\ Len(c) = Ahead(p, weight, i)
        /\ \A k \in 1..Len(c) : c[k] = Dummy
    BY <2>1, <2>2, CounterweightsAre DEF Ahead
  <2>4. PICK x : x = CaseBlock(p[i].label)
    OBVIOUS
  <2>5. x \in V /\ b = <<x>> \o c
    BY <1>2, <2>1, <2>4 DEF PatchHead
  <2>6. /\ b \in Seq(V) /\ Len(c) \in Nat /\ Len(b) = 1 + Len(c)
        /\ b[1] = x
        /\ \A k \in 2..Len(b) : b[k] = c[k - 1] /\ k - 1 \in 1..Len(c)
    BY <2>3, <2>5, HeadIs
  <2>7. Len(b) >= 1
    BY <2>6
  <2> QED BY <2>3, <2>4, <2>6, <2>7
<1>3. i \notin Wrapped(p) => b = <<>>
  BY DEF PatchHead
<1>4. b \in Seq(V)
  BY <1>1, <1>2, <1>3
<1>5. ASSUME p[i].kind \in {"if", "else"}
      PROVE  /\ a \in Seq(V) /\ Len(a) = Behind(f, p, weight, i)
             /\ \A k \in 1..Len(a) : a[k] = Dummy
  <2>1. Behind(f, p, weight, i) \in Nat
    BY <1>5 DEF Descends
  <2>2. a = Counterweights(weight, SplitOf(f, p, i), i + 1)
    BY <1>5 DEF PatchTail
  <2> QED BY <2>1, <2>2, CounterweightsAre DEF Behind
<1>6. p[i].kind \notin {"if", "else"} =>
         a = IF p[i].kind \notin Compound /\ BlockEnds(f, p, Wrapped(p), i) THEN <<End>> ELSE <<>>
  BY DEF PatchTail
<1>7. a \in Seq(V)
  BY <1>1, <1>5, <1>6
<1>8. p[i].kind \in {"switch", "block"} => p[i].kind \notin {"if", "else"} /\ p[i].kind \in Compound
  BY DEF Compound
<1>9. p[i].kind \notin Compound \cup {"else"} => p[i].kind \notin {"if", "else"}
  BY DEF Compound
<1>10. Len(a) \in Nat /\ Len(b) \in Nat
  BY <1>4, <1>7
<1>11. p[i].kind \in {"switch", "block"} => a = <<>>
  BY <1>6, <1>8
<1>12. p[i].kind \notin Compound \cup {"else"} =>
          a = IF BlockEnds(f, p, Wrapped(p), i) THEN <<End>> ELSE <<>>
  BY <1>6, <1>9
<1> HIDE DEF PatchTail
<1>13. p[i].kind \notin Compound \cup {"else"} =>
          IF BlockEnds(f, p, Wrapped(p), i) THEN Len(a) = 1 /\ a[1] = End ELSE Len(a) = 0
  BY <1>1, <1>12
<1> QED BY <1>1, <1>2, <1>3, <1>4, <1>5, <1>7, <1>10, <1>11, <1>13

\* patch in these terms.
LEMMA PatchIs ==
    ASSUME NEW f, NEW p, Prepared(f, p), NEW weight,
           NEW before, before = [i \in 1..Len(p) |-> PatchHead(p, weight, i)],
           NEW after, after = [i \in 1..Len(p) |-> PatchTail(f, p, weight, i)],
           NEW item, item = [i \in 1..Len(p) |-> [p[i] EXCEPT !.label = "none"]],
           NEW goal, goal = [i \in 1..Len(p) |-> Len(before[i]) + 1]
    PROVE  patch(p, weight) = Splice(before, item, after, goal)
<1> DEFINE cases == {i \in DOMAIN p : IsCase(p, i)}
           BranchOf(i) == IF p[i].kind = "if" THEN i ELSE Enclosing(p, i, Compound)
           b == [i \in DOMAIN p |->
                    IF i \in cases
                    THEN <<Item("block", 0, p[i].label)>> \o Counterweights(weight, SwitchOf(p, i), i)
                    ELSE <<>>]
           a == [i \in DOMAIN p |->
                    IF p[i].kind \in {"if", "else"} THEN Counterweights(weight, BranchOf(i), i + 1)
                    ELSE IF Closes(p, i, cases) THEN <<End>> ELSE <<>>]
<1>1. DOMAIN p = 1..Len(p) /\ Tree(f, p) /\ Closed(f, p)
  BY DEF Prepared, Tree
<1>2. cases = Wrapped(p) /\ Wrapped(p) \subseteq 1..Len(p)
  BY <1>1 DEF Wrapped, IsCase, Statements, IsStatement
<1>3. b = before
  <2> HIDE DEF cases
  <2>1. \A i \in 1..Len(p) : b[i] = PatchHead(p, weight, i)
    BY <1>1, <1>2 DEF PatchHead, CaseBlock
  <2> QED BY <1>1, <2>1
<1>4. a = after
  <2>1. ASSUME NEW i \in 1..Len(p) PROVE a[i] = PatchTail(f, p, weight, i)
    <3>1. BranchOf(i) = SplitOf(f, p, i)
      BY PreparedItem DEF SplitOf
    <3>2. Closes(p, i, cases) <=> p[i].kind \notin Compound /\ BlockEnds(f, p, Wrapped(p), i)
      <4>1. CASE p[i].kind \in Compound
        <5>1. p[i].kind \notin Closing
          BY <4>1 DEF Compound, Closing
        <5> QED BY <4>1, <5>1 DEF Closes
      <4>2. CASE p[i].kind \notin Compound
        <5> HIDE DEF cases
        <5> QED BY <1>1, <1>2, <4>2, ClosesIs
      <4> QED BY <4>1, <4>2
    <3> HIDE DEF BranchOf, cases
    <3>3. a[i] = IF p[i].kind \in {"if", "else"} THEN Counterweights(weight, BranchOf(i), i + 1)
                 ELSE IF Closes(p, i, cases) THEN <<End>> ELSE <<>>
      BY <1>1
    <3> HIDE DEF a
    <3> QED BY <3>1, <3>2, <3>3 DEF PatchTail
  <2> HIDE DEF BranchOf, cases
  <2>2. a = [i \in 1..Len(p) |-> a[i]]
    BY <1>1
  <2> HIDE DEF a
  <2> QED BY <2>1, <2>2
<1>5. patch(p, weight) = Splice(b, [i \in DOMAIN p |-> [p[i] EXCEPT !.label = "none"]], a,
                                [i \in DOMAIN p |-> Redirected(p, i, b[i])])
  BY DEF patch
<1> HIDE DEF a, b
<1>6. [i \in DOMAIN p |-> Redirected(p, i, before[i])] = goal
  BY <1>1 DEF Redirected
<1>7. item = [i \in DOMAIN p |-> [p[i] EXCEPT !.label = "none"]]
  BY <1>1
<1> QED BY <1>3, <1>4, <1>5, <1>6, <1>7

LEMMA PatchSpliced ==
    ASSUME NEW f, NEW p, Prepared(f, p), NEW weight, Descends(f, p, weight), NEW q, q = patch(p, weight)
    PROVE  \E s, hd, tl : Patched(f, p, q, weight, s, hd, tl)
<1> DEFINE n == Len(p)
           Raw == [kind : JumpKinds, dest : Int, label : {"none", "case", "default"}, scale : Int]
           V == {x \in Raw : x.dest <= n}
           W == Wrapped(p)
           before == [i \in 1..n |-> PatchHead(p, weight, i)]
           after == [i \in 1..n |-> PatchTail(f, p, weight, i)]
           item == [i \in 1..n |-> [p[i] EXCEPT !.label = "none"]]
           goal == [i \in 1..n |-> Len(before[i]) + 1]
           hd == [i \in 1..n |-> Len(before[i])]
           tl == [i \in 1..n |-> Len(after[i])]
<1>1. /\ Tree(f, p) /\ Closed(f, p) /\ n \in Nat /\ DOMAIN p = 1..n
      /\ \A i \in 1..n :
            p[i] \in [kind : JumpKinds, dest : 0..n, label : {"none", "case", "default"}, scale : Int]
  BY DEF Prepared, Tree
<1>2. q = Splice(before, item, after, goal)
  BY PatchIs
<1>3. ASSUME NEW i \in 1..n
      PROVE  /\ item[i].kind = p[i].kind /\ item[i].dest = p[i].dest /\ item[i].label = "none"
             /\ item[i].scale = p[i].scale
             /\ item[i] = [kind |-> p[i].kind, dest |-> p[i].dest, label |-> "none", scale |-> p[i].scale]
             /\ item[i] \in V /\ p[i].dest \in 0..n
  <2>1. p[i] \in [kind : JumpKinds, dest : 0..n, label : {"none", "case", "default"}, scale : Int]
    BY <1>1
  <2>2. item[i] = [p[i] EXCEPT !.label = "none"]
    OBVIOUS
  <2> HIDE DEF item
  <2>3. item[i] = [kind |-> p[i].kind, dest |-> p[i].dest, label |-> "none", scale |-> p[i].scale]
    BY <2>1, <2>2
  <2>4. p[i].kind \in JumpKinds /\ p[i].dest \in 0..n /\ p[i].scale \in Int
    BY <2>1
  <2>5. p[i].dest \in Int /\ p[i].dest <= n
    BY <1>1, <2>4
  <2>6. item[i] \in Raw /\ item[i].dest = p[i].dest
    BY <2>3, <2>4, <2>5
  <2> QED BY <2>3, <2>4, <2>5, <2>6
<1>4. Dummy \in V /\ End \in V /\ \A i \in 1..n : CaseBlock(p[i].label) \in V
  <2>1. "instr" \in JumpKinds /\ "end" \in JumpKinds /\ "block" \in JumpKinds /\ 0 <= n /\ NoSite \in Int
    BY <1>1 DEF JumpKinds, NoSite
  <2>2. Dummy \in V
    BY <2>1, DummyIs
  <2>3. End \in V
    BY <2>1 DEF End, Item
  <2>4. ASSUME NEW i \in 1..n PROVE CaseBlock(p[i].label) \in V
    <3>1. p[i].label \in {"none", "case", "default"}
      BY PreparedItem
    <3> QED BY <2>1, <3>1 DEF CaseBlock, Item
  <2> QED BY <2>2, <2>3, <2>4
<1>5. \A x \in V : x.dest \in Int /\ x.dest <= n
  OBVIOUS
<1> HIDE DEF V
<1>6. ASSUME NEW i \in 1..n
      PROVE  /\ before[i] \in Seq(V) /\ after[i] \in Seq(V) /\ hd[i] \in Nat /\ tl[i] \in Nat
             /\ hd[i] = Len(before[i]) /\ tl[i] = Len(after[i]) /\ goal[i] = hd[i] + 1
             /\ i \notin W => hd[i] = 0
             /\ i \in W => /\ hd[i] = 1 + Ahead(p, weight, i) /\ hd[i] >= 1
                           /\ before[i][1] = CaseBlock(p[i].label)
                           /\ \A k \in 2..hd[i] : before[i][k] = Dummy
             /\ p[i].kind \in {"if", "else"} => /\ tl[i] = Behind(f, p, weight, i)
                                                /\ \A k \in 1..tl[i] : after[i][k] = Dummy
             /\ p[i].kind \in {"switch", "block"} => tl[i] = 0
             /\ p[i].kind \notin Compound \cup {"else"} =>
                  IF BlockEnds(f, p, W, i) THEN tl[i] = 1 /\ after[i][1] = End ELSE tl[i] = 0
  <2>1. before[i] = PatchHead(p, weight, i) /\ after[i] = PatchTail(f, p, weight, i)
        /\ hd[i] = Len(before[i]) /\ tl[i] = Len(after[i]) /\ goal[i] = Len(before[i]) + 1
    OBVIOUS
  <2> HIDE DEF before, after, hd, tl, goal, n
  <2>2. i \in 1..Len(p) /\ \A j \in 1..Len(p) : CaseBlock(p[j].label) \in V
    BY <1>4 DEF n
  <2> QED BY <1>4, <2>1, <2>2, PatchParts
<1>7. before \in [1..n -> Seq(V)]
  <2>1. before = [i \in 1..n |-> before[i]]
    OBVIOUS
  <2> HIDE DEF before
  <2> QED BY <1>6, <2>1
<1>8. after \in [1..n -> Seq(V)]
  <2>1. after = [i \in 1..n |-> after[i]]
    OBVIOUS
  <2> HIDE DEF after
  <2> QED BY <1>6, <2>1
<1>9. item \in [1..n -> V]
  <2>1. item = [i \in 1..n |-> item[i]]
    OBVIOUS
  <2> HIDE DEF item
  <2> QED BY <1>3, <2>1
<1>10. PICK s : Spliced(q, s, n, before, item, after, goal)
  <2> HIDE DEF before, after, item, goal, n
  <2>1. n \in Nat
    BY <1>1
  <2> QED BY <1>2, <1>5, <1>7, <1>8, <1>9, <2>1, SpliceIs
<1> HIDE DEF before, after, item, goal, hd, tl
<1>11. /\ Offsets(s, n, [i \in 1..n |-> Len(before[i]) + 1 + Len(after[i])])
       /\ q \in Seq({q[x] : x \in 1..Len(q)})
       /\ Len(q) = s[n + 1]
       /\ \A i \in 1..n :
             /\ \A k \in 1..Len(before[i]) : q[s[i] + k] = Moved(s, goal, i, before[i][k])
             /\ q[s[i] + Len(before[i]) + 1] = Moved(s, goal, i, item[i])
             /\ \A k \in 1..Len(after[i]) :
                    q[s[i] + Len(before[i]) + 1 + k] = Moved(s, goal, i, after[i][k])
  BY <1>10 DEF Spliced
<1>12. DOMAIN q = 1..Len(q)
  BY <1>11
<1>13. \A i \in 1..n : s[i] \in Nat
  <2>1. \A i \in 1..n : i \in 1..(n + 1)
    BY <1>1
  <2> QED BY <1>11, <2>1 DEF Offsets
<1>14. \A i : Moved(s, goal, i, Dummy) = Dummy /\ Moved(s, goal, i, End) = End
              /\ \A label : Moved(s, goal, i, CaseBlock(label)) = CaseBlock(label)
  <2>1. ~(0 > 0) /\ ~(0 < 0)
    OBVIOUS
  <2> QED BY <2>1, MovedDummy, MovedItem DEF End, CaseBlock
<1>15. ASSUME NEW i \in 1..n
       PROVE  /\ i # 0 /\ Pos(s, hd, i) = s[i] + hd[i] + 1 /\ Lead(s, i) = s[i] + 1
              /\ q[Pos(s, hd, i)].kind = p[i].kind /\ q[Pos(s, hd, i)].scale = p[i].scale
              /\ q[Pos(s, hd, i)].label = "none" /\ q[Pos(s, hd, i)].dest = Pos(s, hd, p[i].dest)
              /\ i \in W => q[Lead(s, i)] = CaseBlock(p[i].label) /\ \A k \in 2..hd[i] : q[s[i] + k] = Dummy
              /\ \A k \in 1..tl[i] : q[Pos(s, hd, i) + k] = Moved(s, goal, i, after[i][k])
  <2>1. i # 0 /\ Pos(s, hd, i) = s[i] + hd[i] + 1 /\ Lead(s, i) = s[i] + 1 /\ hd[i] = Len(before[i])
        /\ tl[i] = Len(after[i])
    BY <1>1, <1>6 DEF Pos, Lead
  <2>2. q[Pos(s, hd, i)] = Moved(s, goal, i, item[i])
    BY <1>11, <2>1
  <2>3. Pos(s, hd, p[i].dest) = IF p[i].dest > 0 THEN s[p[i].dest] + goal[p[i].dest]
                                ELSE IF p[i].dest < 0 THEN s[i] - p[i].dest ELSE 0
    <3>1. CASE p[i].dest = 0
      BY <3>1 DEF Pos
    <3>2. CASE p[i].dest # 0
      <4>1. p[i].dest \in 1..n /\ p[i].dest > 0
        BY <1>1, <1>3, <3>2
      <4>2. PICK d \in 1..n : d = p[i].dest
        BY <4>1
      <4>3. goal[d] = hd[d] + 1 /\ s[d] \in Nat /\ hd[d] \in Nat
        BY <1>6, <1>13
      <4>4. s[d] + hd[d] + 1 = s[d] + (hd[d] + 1)
        BY <4>3
      <4> QED BY <3>2, <4>1, <4>2, <4>3, <4>4 DEF Pos
    <3> QED BY <3>1, <3>2
  <2>4. Moved(s, goal, i, item[i]) =
            [kind |-> p[i].kind, dest |-> Pos(s, hd, p[i].dest), label |-> "none", scale |-> p[i].scale]
    <3>1. Moved(s, goal, i, item[i]) = [item[i] EXCEPT !.dest = Pos(s, hd, p[i].dest)]
      BY <1>3, <2>3 DEF Moved
    <3> QED BY <1>3, <3>1
  <2>5. ASSUME i \in W
        PROVE  q[Lead(s, i)] = CaseBlock(p[i].label) /\ \A k \in 2..hd[i] : q[s[i] + k] = Dummy
    <3>1. hd[i] >= 1 /\ hd[i] \in Nat
      BY <1>6, <2>5
    <3>2. 1 \in 1..hd[i] /\ \A k \in 2..hd[i] : k \in 1..hd[i]
      BY <3>1
    <3>3. q[s[i] + 1] = Moved(s, goal, i, before[i][1])
      BY <1>11, <2>1, <3>2
    <3>4. ASSUME NEW k \in 2..hd[i] PROVE q[s[i] + k] = Dummy
      <4>1. q[s[i] + k] = Moved(s, goal, i, before[i][k])
        BY <1>11, <2>1, <3>2
      <4> QED BY <1>6, <1>14, <2>5, <4>1
    <3> QED BY <1>6, <1>14, <2>1, <2>5, <3>3, <3>4
  <2>6. \A k \in 1..tl[i] : q[Pos(s, hd, i) + k] = Moved(s, goal, i, after[i][k])
    BY <1>11, <2>1
  <2> QED BY <2>1, <2>2, <2>4, <2>5, <2>6
<1>16. ASSUME NEW i \in 1..n
       PROVE  /\ p[i].kind \in {"if", "else"} => \A k \in 1..tl[i] : q[Pos(s, hd, i) + k] = Dummy
              /\ p[i].kind \notin Compound \cup {"else"} =>
                    IF BlockEnds(f, p, W, i) THEN tl[i] = 1 /\ q[Pos(s, hd, i) + 1] = End ELSE tl[i] = 0
  <2>1. ASSUME p[i].kind \in {"if", "else"}, NEW k \in 1..tl[i] PROVE q[Pos(s, hd, i) + k] = Dummy
    <3>1. after[i][k] = Dummy
      BY <1>6, <2>1
    <3>2. q[Pos(s, hd, i) + k] = Moved(s, goal, i, after[i][k])
      BY <1>15
    <3> QED BY <1>14, <3>1, <3>2
  <2>2. ASSUME p[i].kind \notin Compound \cup {"else"}, BlockEnds(f, p, W, i)
        PROVE  tl[i] = 1 /\ q[Pos(s, hd, i) + 1] = End
    <3>1. tl[i] = 1 /\ after[i][1] = End /\ 1 \in 1..tl[i]
      BY <1>6, <2>2
    <3> QED BY <1>14, <1>15, <3>1
  <2>3. p[i].kind \notin Compound \cup {"else"} /\ ~BlockEnds(f, p, W, i) => tl[i] = 0
    BY <1>6
  <2> QED BY <2>1, <2>2, <2>3
<1>17. Layout(f, p, q, W, s, hd, tl)
  <2>1. ASSUME NEW i \in 1..n
        PROVE  /\ i \in W => /\ hd[i] >= 1 /\ q[Lead(s, i)].kind = "block"
                             /\ \A k \in 2..hd[i] : Simple(q[s[i] + k])
               /\ p[i].kind \in Compound \cup {"else"} =>
                      \A k \in 1..tl[i] : Simple(q[Pos(s, hd, i) + k])
               /\ p[i].kind \notin Compound \cup {"else"} =>
                      IF BlockEnds(f, p, W, i) THEN tl[i] = 1 /\ q[Pos(s, hd, i) + 1].kind = "end"
                      ELSE tl[i] = 0
    <3>1. Simple(Dummy) /\ End.kind = "end" /\ \A label : CaseBlock(label).kind = "block"
      BY DummyIs DEF Simple, Compound, Closing, End, CaseBlock, Item
    <3>2. p[i].kind \in Compound \cup {"else"} => p[i].kind \in {"if", "else"} \/ p[i].kind \in {"switch", "block"}
      BY PreparedItem DEF Compound
    <3>3. p[i].kind \in {"switch", "block"} => tl[i] = 0
      BY <1>6
    <3>4. p[i].kind \in Compound \cup {"else"} => \A k \in 1..tl[i] : Simple(q[Pos(s, hd, i) + k])
      BY <1>16, <3>1, <3>2, <3>3
    <3> QED BY <1>6, <1>15, <1>16, <3>1, <3>4
  <2>2. Offsets(s, n, [i \in 1..n |-> hd[i] + 1 + tl[i]])
    <3>1. [i \in 1..n |-> hd[i] + 1 + tl[i]] = [i \in 1..n |-> Len(before[i]) + 1 + Len(after[i])]
      BY <1>6
    <3> QED BY <1>11, <3>1
  <2>3. \A i \in W : i \in 1..n /\ p[i].kind \notin Closing \cup {"else"}
    <3> SUFFICES ASSUME NEW i \in W PROVE i \in 1..n /\ p[i].kind \notin Closing \cup {"else"}
      OBVIOUS
    <3>1. i \in 1..n /\ p[i].label # "none"
      BY <1>1 DEF Wrapped, Statements
    <3>2. p[i].kind \in {"instr", "return", "if", "switch", "block"}
      BY <3>1 DEF Prepared
    <3> QED BY <3>1, <3>2 DEF Closing
  <2> HIDE DEF W
  <2> QED BY <1>1, <1>6, <1>11, <1>12, <1>15, <2>1, <2>2, <2>3 DEF Layout, n
<1>18. Patched(f, p, q, weight, s, hd, tl)
  <2> HIDE DEF n
  <2>1. \A i \in 1..n : i \in 1..Len(p)
    BY DEF n
  <2> QED BY <1>6, <1>15, <1>16, <1>17 DEF Patched, n
<1> QED BY <1>18

\* Where an item of the patched body comes from.
LEMMA PatchFound ==
    ASSUME NEW f, NEW p, Prepared(f, p), NEW weight, NEW q, NEW s, NEW hd, NEW tl,
           Patched(f, p, q, weight, s, hd, tl), NEW x \in 1..Len(q)
    PROVE  \E i \in 1..Len(p) :
               \/ x = Pos(s, hd, i)
               \/ i \in Wrapped(p) /\ x = Lead(s, i)
               \/ i \in Wrapped(p) /\ \E k \in 2..hd[i] : x = s[i] + k
               \/ p[i].kind \in {"if", "else"} /\ \E k \in 1..tl[i] : x = Pos(s, hd, i) + k
               \/ x = Pos(s, hd, i) + 1 /\ q[x] = End
<1> DEFINE From(j) == \/ x = Pos(s, hd, j)
                      \/ j \in Wrapped(p) /\ x = Lead(s, j)
                      \/ j \in Wrapped(p) /\ \E d \in 2..hd[j] : x = s[j] + d
                      \/ p[j].kind \in {"if", "else"} /\ \E d \in 1..tl[j] : x = Pos(s, hd, j) + d
                      \/ x = Pos(s, hd, j) + 1 /\ q[x] = End
<1>1. Layout(f, p, q, Wrapped(p), s, hd, tl)
  BY DEF Patched
<1>2. PICK i \in 1..Len(p) : \E k \in 1..(hd[i] + 1 + tl[i]) : x = s[i] + k
  BY <1>1, LayoutFinds
<1>3. PICK k \in 1..(hd[i] + 1 + tl[i]) : x = s[i] + k
  BY <1>2
<1>4. /\ hd[i] \in Nat /\ tl[i] \in Nat /\ s[i] \in Nat
      /\ Pos(s, hd, i) = s[i] + hd[i] + 1 /\ Lead(s, i) = s[i] + 1
  BY <1>1, LayoutIs
<1>5. i \notin Wrapped(p) => hd[i] = 0
  BY <1>1 DEF Layout
<1>6. ASSUME k <= hd[i] PROVE From(i)
  <2>1. i \in Wrapped(p)
    BY <1>3, <1>4, <1>5, <1>6
  <2>2. k = 1 \/ k \in 2..hd[i]
    BY <1>3, <1>4, <1>6
  <2>3. CASE k = 1
    <3>1. x = Lead(s, i)
      BY <1>3, <1>4, <2>3
    <3> QED BY <2>1, <3>1
  <2>4. CASE k \in 2..hd[i]
    BY <1>3, <2>1, <2>4
  <2> QED BY <2>2, <2>3, <2>4
<1>7. ASSUME k = hd[i] + 1 PROVE From(i)
  <2>1. x = Pos(s, hd, i)
    BY <1>3, <1>4, <1>7
  <2> QED BY <2>1
<1>8. ASSUME k > hd[i] + 1 PROVE From(i)
  <2>0. \A a, b, c, d \in Nat : d \in 1..(a + 1 + b) /\ d > a + 1 =>
           \E e \in 1..b : c + d = (c + a + 1) + e
    <3> SUFFICES ASSUME NEW a \in Nat, NEW b \in Nat, NEW c \in Nat, NEW d \in Nat,
                        d \in 1..(a + 1 + b), d > a + 1
                 PROVE  \E e \in 1..b : c + d = (c + a + 1) + e
      OBVIOUS
    <3>1. d - a - 1 \in 1..b /\ c + d = (c + a + 1) + (d - a - 1)
      OBVIOUS
    <3> QED BY <3>1
  <2>1. k \in Nat
    BY <1>3, <1>4
  <2>2. PICK m \in 1..tl[i] : x = Pos(s, hd, i) + m
    <3>1. PICK a, b, c : a = hd[i] /\ b = tl[i] /\ c = s[i]
      OBVIOUS
    <3>2. a \in Nat /\ b \in Nat /\ c \in Nat /\ k \in 1..(a + 1 + b) /\ k > a + 1
      BY <1>3, <1>4, <1>8, <3>1
    <3>3. \E e \in 1..b : c + k = (c + a + 1) + e
      BY <2>0, <2>1, <3>2
    <3> QED BY <1>3, <1>4, <3>1, <3>3
  <2>3. p[i].kind \in JumpKinds
    BY PreparedItem
  <2>4. p[i].kind \notin {"switch", "block"}
    <3>1. p[i].kind \in {"switch", "block"} => tl[i] = 0
      BY DEF Patched
    <3> QED BY <2>2, <3>1
  <2>5. CASE p[i].kind \in {"if", "else"}
    BY <2>2, <2>5
  <2>6. CASE p[i].kind \notin {"if", "else"}
    <3>1. p[i].kind \notin Compound \cup {"else"}
      BY <2>3, <2>4, <2>6 DEF Compound, JumpKinds
    <3>2. tl[i] = 0 \/ (tl[i] = 1 /\ q[Pos(s, hd, i) + 1] = End)
      BY <3>1 DEF Patched
    <3>3. m = 1 /\ q[Pos(s, hd, i) + 1] = End
      BY <2>2, <3>2
    <3> QED BY <2>2, <3>3
  <2> QED BY <2>5, <2>6
<1>9. From(i)
  <2>1. k <= hd[i] \/ k = hd[i] + 1 \/ k > hd[i] + 1
    BY <1>3, <1>4
  <2> QED BY <1>6, <1>7, <1>8, <2>1
<1> QED BY <1>9

\* Only a goto and its switch lead to a case, all else to where an item has gone.
LEMMA NoCase ==
    ASSUME NEW f, NEW p, Prepared(f, p), NEW weight, NEW q, NEW s, NEW hd, NEW tl,
           Patched(f, p, q, weight, s, hd, tl), NEW i \in Statements(p), NEW t \in Links(p, i), t # 0,
           p[i].kind \notin {"goto", "back", "switch"}
    PROVE  /\ t \in Statements(p) /\ t \in 1..Len(p) /\ t \notin Wrapped(p)
           /\ Lead(s, t) = Pos(s, hd, t)
<1>1. t \in Statements(p)
  <2>1. t \in Flow(p).succ[i]
    BY FlowIs
  <2> QED BY <2>1 DEF Prepared, Forward
<1>2. t \in 1..Len(p)
  BY <1>1 DEF Statements, Prepared, Tree
<1>3. t \notin Wrapped(p)
  <2> SUFFICES ASSUME t \in Wrapped(p) PROVE FALSE
    OBVIOUS
  <2>1. p[t].label # "none"
    BY DEF Wrapped
  <2>2. i = SwitchOf(p, t)
    BY <1>1, <2>1 DEF Prepared
  <2>3. p[i].kind = "switch"
    BY <1>2, <2>1, <2>2, CaseIs
  <2> QED BY <2>3
<1>4. Layout(f, p, q, Wrapped(p), s, hd, tl)
  BY DEF Patched
<1>5. PICK g : g = NewParent(f, p, Wrapped(p), s, hd)
  OBVIOUS
<1>6. Lead(s, t) = Pos(s, hd, t)
  BY <1>2, <1>3, <1>4, <1>5, PieceParents
<1> QED BY <1>1, <1>2, <1>3, <1>6

\* Control falls ahead.
LEMMA FallAhead ==
    ASSUME NEW f, NEW p, Prepared(f, p), NEW weight, NEW q, NEW s, NEW hd, NEW tl,
           Patched(f, p, q, weight, s, hd, tl), NEW i \in Statements(p), p[i].kind # "back"
    PROVE  /\ Fall(q)[Pos(s, hd, i)] = IF Fall(p)[i] = 0 THEN 0 ELSE Lead(s, Fall(p)[i])
           /\ Fall(q)[Lead(s, i)] = IF Fall(p)[i] = 0 THEN 0 ELSE Lead(s, Fall(p)[i])
           /\ i \in 1..Len(p)
<1>1. Layout(f, p, q, Wrapped(p), s, hd, tl) /\ Tree(f, p) /\ Closed(f, p)
  BY DEF Patched, Prepared
<1>2. i \in 1..Len(p)
  BY <1>1 DEF Statements, Tree
<1>3. p[i].kind \notin Closing
  <2>1. p[i].kind # "end"
    BY <1>2, PreparedItem
  <2> QED BY <2>1 DEF Closing
<1>4. \/ Fall(p)[i] = 0
      \/ /\ Fall(p)[i] \in Statements(p)
         /\ \/ Fall(p)[i] > LastOf(p, i)
            \/ Fall(p)[i] < i /\ p[Fall(p)[i]].kind = "loop"
  BY <1>1, <1>2, FallIs
<1>5. Land(s, hd, i, Fall(p)[i]) = IF Fall(p)[i] = 0 THEN 0 ELSE Lead(s, Fall(p)[i])
  <2>1. CASE Fall(p)[i] = 0
    BY <2>1 DEF Land
  <2>2. CASE Fall(p)[i] # 0
    <3>1. PICK t : t = Fall(p)[i]
      OBVIOUS
    <3>2. t \in 1..Len(p)
      BY <1>1, <1>4, <2>2, <3>1 DEF Statements, Tree
    <3>3. p[t].kind # "loop"
      BY <3>2, PreparedItem
    <3>4. LastOf(p, i) \in i..Len(p)
      <4>1. PICK g : g = NewParent(f, p, Wrapped(p), s, hd)
        OBVIOUS
      <4> QED BY <1>1, <1>2, <4>1, LayoutEnding
    <3>5. Len(p) \in Nat /\ t > LastOf(p, i)
      BY <1>1, <1>4, <2>2, <3>1, <3>3 DEF Tree
    <3>6. ~(t < i)
      <4>1. PICK e : e = LastOf(p, i)
        OBVIOUS
      <4>2. e \in i..Len(p) /\ t > e /\ t \in Nat /\ i \in Nat
        BY <1>2, <3>2, <3>4, <3>5, <4>1
      <4> QED BY <3>5, <4>2
    <3> QED BY <2>2, <3>1, <3>6 DEF Land
  <2> QED BY <2>1, <2>2
<1> QED BY <1>1, <1>2, <1>3, <1>5, LayoutFall

\* Items keep their order.
LEMMA PosOrder ==
    ASSUME NEW f, NEW p, NEW q, NEW W, NEW s, NEW hd, NEW tl, Layout(f, p, q, W, s, hd, tl),
           NEW i \in 0..Len(p), NEW j \in 0..Len(p)
    PROVE  /\ Pos(s, hd, i) \in Nat
           /\ i < j <=> Pos(s, hd, i) < Pos(s, hd, j)
           /\ i = j <=> Pos(s, hd, i) = Pos(s, hd, j)
<1>1. Len(p) \in Nat
  BY DEF Layout, Tree
<1>2. ASSUME NEW a \in 0..Len(p), NEW b \in 0..Len(p), a < b
      PROVE  /\ Pos(s, hd, a) \in Nat /\ Pos(s, hd, b) \in Nat
             /\ Pos(s, hd, a) < Pos(s, hd, b)
  <2>1. b \in 1..Len(p) /\ a \in 0..(b - 1)
    BY <1>1, <1>2
  <2>2. /\ Pos(s, hd, a) \in Nat /\ Lead(s, b) \in Nat /\ Pos(s, hd, b) \in Nat
        /\ Pos(s, hd, a) < Lead(s, b) /\ Lead(s, b) <= Pos(s, hd, b)
    BY <2>1, LayoutOrder
  <2> QED BY <2>2
<1>3. \A a \in 0..Len(p) : Pos(s, hd, a) \in Nat
  <2> SUFFICES ASSUME NEW a \in 0..Len(p) PROVE Pos(s, hd, a) \in Nat
    OBVIOUS
  <2>1. CASE a = 0
    BY <2>1 DEF Pos
  <2>2. CASE a # 0
    <3>1. 0 \in 0..Len(p) /\ 0 < a
      BY <1>1, <2>2
    <3> QED BY <1>2, <3>1
  <2> QED BY <2>1, <2>2
<1>4. i < j \/ i = j \/ j < i
  BY <1>1
<1> QED BY <1>2, <1>3, <1>4

\* A statement that only goes to one other does so still.
LEMMA KeptLinks ==
    ASSUME NEW f, NEW p, Prepared(f, p), NEW weight, NEW q, NEW s, NEW hd, NEW tl,
           Patched(f, p, q, weight, s, hd, tl), NEW i \in Statements(p), p[i].kind \notin {"if", "switch"}
    PROVE  /\ Links(q, Pos(s, hd, i)) = {Pos(s, hd, t) : t \in Links(p, i)}
           /\ \E t : Links(p, i) \subseteq {t}
<1>1. /\ Layout(f, p, q, Wrapped(p), s, hd, tl) /\ Tree(f, p) /\ Closed(f, p) /\ i \in 1..Len(p)
      /\ Len(p) \in Nat
  BY DEF Patched, Prepared, Statements, Tree
<1>2. p[i].kind \in {"instr", "call", "return", "goto", "back", "block"}
  <2>1. p[i].kind \in JumpKinds /\ p[i].kind \notin {"else", "end"}
    BY <1>1, PreparedItem
  <2> QED BY <2>1 DEF JumpKinds
<1>3. q[Pos(s, hd, i)].kind = p[i].kind /\ q[Pos(s, hd, i)].dest = Pos(s, hd, p[i].dest)
  BY <1>1 DEF Patched
<1>4. Pos(s, hd, 0) = 0
  BY DEF Pos
<1>5. ASSUME NEW x, NEW y, Links(p, i) = {x}, Links(q, Pos(s, hd, i)) = {y}, y = Pos(s, hd, x)
      PROVE  /\ Links(q, Pos(s, hd, i)) = {Pos(s, hd, t) : t \in Links(p, i)}
             /\ \E t : Links(p, i) \subseteq {t}
  BY <1>5
<1>6. CASE p[i].kind \in {"instr", "call"}
  <2>1. PICK t : t = Fall(p)[i]
    OBVIOUS
  <2>2. Links(p, i) = {t} /\ Links(q, Pos(s, hd, i)) = {Fall(q)[Pos(s, hd, i)]}
    BY <1>3, <1>6, <2>1 DEF Links
  <2>3. Fall(q)[Pos(s, hd, i)] = IF t = 0 THEN 0 ELSE Lead(s, t)
    BY <1>6, <2>1, FallAhead
  <2>4. t # 0 => Lead(s, t) = Pos(s, hd, t)
    BY <1>6, <2>2, NoCase
  <2>5. Fall(q)[Pos(s, hd, i)] = Pos(s, hd, t)
    BY <1>4, <2>3, <2>4
  <2> QED BY <1>5, <2>2, <2>5
<1>7. CASE p[i].kind = "return"
  <2>1. Links(p, i) = {} /\ Links(q, Pos(s, hd, i)) = {}
    BY <1>3, <1>7 DEF Links
  <2> QED BY <2>1
<1>8. CASE p[i].kind \in {"goto", "back"}
  <2>1. Links(p, i) = {p[i].dest} /\ Links(q, Pos(s, hd, i)) = {q[Pos(s, hd, i)].dest}
    BY <1>3, <1>8 DEF Links
  <2> QED BY <1>3, <1>5, <2>1
<1>9. CASE p[i].kind = "block"
  <2>1. PICK t : t = First(p, i + 1, Fall(p)[i])
    OBVIOUS
  <2>2. PICK y : y = First(q, Pos(s, hd, i) + 1, Fall(q)[Pos(s, hd, i)])
    OBVIOUS
  <2>3. Links(p, i) = {t} /\ Links(q, Pos(s, hd, i)) = {y}
    BY <1>3, <1>9, <2>1, <2>2 DEF Links
  <2>4. Pos(s, hd, i) + 1 = Lead(s, i + 1) /\ (IsStatement(q, Lead(s, i + 1)) <=> IsStatement(p, i + 1))
    <3>1. tl[i] = 0
      BY <1>1, <1>9 DEF Patched
    <3>2. Pos(s, hd, i) + tl[i] + 1 = Lead(s, i + 1) /\ (IsStatement(q, Lead(s, i + 1)) <=> IsStatement(p, i + 1))
      BY <1>1, LayoutStatement
    <3>3. Pos(s, hd, i) \in Nat
      <4>1. i \in 0..Len(p)
        BY <1>1
      <4> QED BY <1>1, <4>1, PosOrder
    <3> QED BY <3>1, <3>2, <3>3
  <2>5. t # 0 => Lead(s, t) = Pos(s, hd, t)
    BY <1>9, <2>3, NoCase
  <2>6. Fall(q)[Pos(s, hd, i)] = IF Fall(p)[i] = 0 THEN 0 ELSE Lead(s, Fall(p)[i])
    BY <1>9, FallAhead
  <2>7. y = IF t = 0 THEN 0 ELSE Lead(s, t)
    <3>1. CASE IsStatement(p, i + 1)
      <4>1. t = i + 1 /\ y = Lead(s, i + 1) /\ t # 0
        BY <1>1, <2>1, <2>2, <2>4, <3>1 DEF First
      <4> QED BY <4>1
    <3>2. CASE ~IsStatement(p, i + 1)
      <4>1. t = Fall(p)[i] /\ y = Fall(q)[Pos(s, hd, i)]
        BY <2>1, <2>2, <2>4, <3>2 DEF First
      <4> QED BY <2>6, <4>1
    <3> QED BY <3>1, <3>2
  <2> QED BY <1>4, <1>5, <2>3, <2>5, <2>7
<1> QED BY <1>2, <1>6, <1>7, <1>8, <1>9

\* What is in front of an item and what is behind it.
LEMMA LayoutPlaces ==
    ASSUME NEW f, NEW p, NEW q, NEW W, NEW s, NEW hd, NEW tl, Layout(f, p, q, W, s, hd, tl),
           NEW i \in 1..Len(p)
    PROVE  /\ s[i] \in Nat /\ hd[i] \in Nat /\ tl[i] \in Nat
           /\ Lead(s, i) = s[i] + 1 /\ Pos(s, hd, i) = s[i] + hd[i] + 1 /\ Pos(s, hd, i) \in Nat
           /\ s[i] + (hd[i] + 1) = Pos(s, hd, i)
           /\ \A k \in 1..hd[i] : s[i] + k \in 1..Len(q)
           /\ \A k \in 1..tl[i] : Pos(s, hd, i) + k \in 1..Len(q)
<1>1. /\ s[i] \in Nat /\ hd[i] \in Nat /\ tl[i] \in Nat
      /\ Lead(s, i) = s[i] + 1 /\ Pos(s, hd, i) = s[i] + hd[i] + 1
  BY LayoutIs
<1>2. PICK a, b, c, d : a = hd[i] /\ b = tl[i] /\ c = s[i] /\ d = Pos(s, hd, i)
  OBVIOUS
<1>3. a \in Nat /\ b \in Nat /\ c \in Nat /\ d = c + a + 1
  BY <1>1, <1>2
<1>4. \A k \in 1..(hd[i] + 1 + tl[i]) : s[i] + k \in 1..Len(q)
  BY LayoutIs
<1>5. \A k \in 1..(a + 1 + b) : c + k \in 1..Len(q)
  BY <1>2, <1>4
<1>6. \A k \in 1..a : k \in 1..(a + 1 + b)
  BY <1>3
<1>7. \A k \in 1..b : a + 1 + k \in 1..(a + 1 + b) /\ d + k = c + (a + 1 + k)
  BY <1>3
<1>8. c + (a + 1) = d /\ d \in Nat
  BY <1>3
<1> QED BY <1>1, <1>2, <1>5, <1>6, <1>7, <1>8

\* The statements in front of a case, and those in front of a branch.
LEMMA HeadStatements ==
    ASSUME NEW f, NEW p, Prepared(f, p), NEW weight, NEW q, NEW s, NEW hd, NEW tl,
           Patched(f, p, q, weight, s, hd, tl), NEW i \in Wrapped(p)
    PROVE  /\ i \in 1..Len(p) /\ i \in Statements(p) /\ p[i].label # "none"
           /\ s[i] \in Nat /\ hd[i] \in Nat /\ hd[i] >= 1
           /\ Lead(s, i) = s[i] + 1 /\ Pos(s, hd, i) = s[i] + hd[i] + 1
           /\ Lead(s, i) \in Statements(q) /\ q[Lead(s, i)] = CaseBlock(p[i].label)
           /\ \A k \in 2..(hd[i] + 1) : s[i] + k \in Statements(q)
           /\ \A k \in 2..hd[i] : q[s[i] + k] = Dummy
           /\ s[i] + (hd[i] + 1) = Pos(s, hd, i)
<1>1. Layout(f, p, q, Wrapped(p), s, hd, tl) /\ i \in 1..Len(p) /\ i \in Statements(p) /\ p[i].label # "none"
  BY DEF Patched, Wrapped, Statements, Prepared, Tree
<1>2. /\ s[i] \in Nat /\ hd[i] \in Nat
      /\ Lead(s, i) = s[i] + 1 /\ Pos(s, hd, i) = s[i] + hd[i] + 1
      /\ s[i] + (hd[i] + 1) = Pos(s, hd, i)
      /\ \A k \in 1..hd[i] : s[i] + k \in 1..Len(q)
  BY <1>1, LayoutPlaces
<1>3. hd[i] >= 1 /\ DOMAIN q = 1..Len(q)
  BY <1>1 DEF Layout
<1>4. q[Lead(s, i)] = CaseBlock(p[i].label) /\ \A k \in 2..hd[i] : q[s[i] + k] = Dummy
  BY <1>1 DEF Patched
<1>5. IsStatement(q, Pos(s, hd, i)) /\ IsStatement(q, Lead(s, i))
  BY <1>1, LayoutStatement
<1>7. ASSUME NEW k \in 2..(hd[i] + 1) PROVE s[i] + k \in Statements(q)
  <2>1. CASE k = hd[i] + 1
    BY <1>2, <1>5, <2>1 DEF Statements, IsStatement
  <2>2. CASE k # hd[i] + 1
    <3>1. k \in 2..hd[i] /\ k \in 1..hd[i]
      <4>1. PICK a : a = hd[i]
        OBVIOUS
      <4>2. a \in Nat /\ k \in 2..(a + 1) /\ k # a + 1
        BY <1>2, <2>2, <4>1
      <4>3. k \in 2..a /\ k \in 1..a
        BY <4>2
      <4> QED BY <4>1, <4>3
    <3>2. q[s[i] + k] = Dummy /\ s[i] + k \in 1..Len(q)
      BY <1>2, <1>4, <3>1
    <3> QED BY <1>3, <3>2, DummyIs DEF Statements, IsStatement
  <2> QED BY <2>1, <2>2
<1> QED BY <1>1, <1>2, <1>3, <1>4, <1>5, <1>7 DEF Statements, IsStatement

LEMMA TailStatements ==
    ASSUME NEW f, NEW p, Prepared(f, p), NEW weight, NEW q, NEW s, NEW hd, NEW tl,
           Patched(f, p, q, weight, s, hd, tl), NEW i \in 1..Len(p), p[i].kind \in {"if", "else"}
    PROVE  /\ tl[i] \in Nat /\ Pos(s, hd, i) \in Nat
           /\ \A k \in 1..(tl[i] + 1) : Pos(s, hd, i) + k \in Statements(q)
           /\ \A k \in 1..tl[i] : q[Pos(s, hd, i) + k] = Dummy
           /\ Pos(s, hd, i) + (tl[i] + 1) = Pos(s, hd, i + 1)
<1>1. Layout(f, p, q, Wrapped(p), s, hd, tl)
  BY DEF Patched
<1>2. /\ tl[i] \in Nat /\ Pos(s, hd, i) \in Nat
      /\ \A k \in 1..tl[i] : Pos(s, hd, i) + k \in 1..Len(q)
  BY <1>1, LayoutPlaces
<1>3. DOMAIN q = 1..Len(q)
  BY <1>1 DEF Layout
<1>4. \A k \in 1..tl[i] : q[Pos(s, hd, i) + k] = Dummy
  BY DEF Patched
<1>5. i + 1 \in Statements(p) /\ i + 1 \in 1..Len(p) /\ p[i + 1].label = "none"
  <2>1. i + 1 \in Statements(p) /\ p[i + 1].label = "none"
    BY BranchIs
  <2> QED BY <2>1 DEF Statements, Prepared, Tree
<1>6. /\ Pos(s, hd, i) + tl[i] + 1 = Lead(s, i + 1)
      /\ IsStatement(q, Lead(s, i + 1)) <=> IsStatement(p, i + 1)
  BY <1>1, LayoutStatement
<1>7. Lead(s, i + 1) = Pos(s, hd, i + 1)
  <2>1. i + 1 \notin Wrapped(p)
    BY <1>5 DEF Wrapped
  <2>2. PICK g : g = NewParent(f, p, Wrapped(p), s, hd)
    OBVIOUS
  <2> QED BY <1>1, <1>5, <2>1, <2>2, PieceParents
<1>8. Pos(s, hd, i) \in Nat /\ Pos(s, hd, i) + (tl[i] + 1) = Pos(s, hd, i) + tl[i] + 1
  BY <1>2
<1>9. Lead(s, i + 1) \in Statements(q)
  BY <1>5, <1>6 DEF Statements, IsStatement
<1>10. ASSUME NEW k \in 1..(tl[i] + 1) PROVE Pos(s, hd, i) + k \in Statements(q)
  <2>1. CASE k = tl[i] + 1
    BY <1>6, <1>8, <1>9, <2>1
  <2>2. CASE k # tl[i] + 1
    <3>1. k \in 1..tl[i] /\ k \in Nat
      BY <1>2, <2>2
    <3>3. Pos(s, hd, i) + k \in 1..Len(q) /\ q[Pos(s, hd, i) + k] = Dummy
      BY <1>2, <1>4, <3>1
    <3> QED BY <1>3, <3>3, DummyIs DEF Statements, IsStatement
  <2> QED BY <2>1, <2>2
<1> QED BY <1>2, <1>4, <1>6, <1>7, <1>8, <1>10

\* A counterweight leads to what follows it.
LEMMA DummyLinks ==
    ASSUME NEW g, NEW q, Tree(g, q), NEW x \in 1..Len(q), q[x] = Dummy, x + 1 \in Statements(q)
    PROVE  Links(q, x) = {x + 1}
<1>1. q[x].kind = "instr" /\ "instr" \notin Compound
  BY DummyIs DEF Compound
<1>2. Follower(q, x) = x + 1
  BY <1>1 DEF Follower
<1>3. IsStatement(q, x + 1)
  BY DEF Statements
<1>4. Fall(q)[x] = x + 1
  BY <1>2, <1>3, FallStep
<1> QED BY <1>1, <1>4 DEF Links

\* A wrapped case begins with its counterweights.
LEMMA WrapLinks ==
    ASSUME NEW f, NEW p, Prepared(f, p), NEW weight, NEW q, NEW s, NEW hd, NEW tl,
           Patched(f, p, q, weight, s, hd, tl), NEW i \in Wrapped(p)
    PROVE  Links(q, Lead(s, i)) = {s[i] + 2}
<1>1. /\ s[i] \in Nat /\ hd[i] \in Nat /\ hd[i] >= 1 /\ Lead(s, i) = s[i] + 1
      /\ q[Lead(s, i)] = CaseBlock(p[i].label)
      /\ \A k \in 2..(hd[i] + 1) : s[i] + k \in Statements(q)
  BY HeadStatements
<1>2. s[i] + 2 \in Statements(q)
  <2>1. 2 \in 2..(hd[i] + 1)
    BY <1>1
  <2> QED BY <1>1, <2>1
<1>3. q[Lead(s, i)].kind = "block" /\ Lead(s, i) + 1 = s[i] + 2
  BY <1>1 DEF CaseBlock, Item
<1>4. First(q, Lead(s, i) + 1, Fall(q)[Lead(s, i)]) = s[i] + 2
  BY <1>2, <1>3 DEF First, Statements
<1> QED BY <1>3, <1>4 DEF Links

\* The labels are now in front of the counterweights, the elses where they were.
LEMMA PatchedLabels ==
    ASSUME NEW f, NEW p, Prepared(f, p), NEW weight, NEW q, NEW s, NEW hd, NEW tl,
           Patched(f, p, q, weight, s, hd, tl), NEW x \in 1..Len(q)
    PROVE  /\ q[x].label # "none" => \E i \in Wrapped(p) : x = Lead(s, i)
           /\ q[x].kind = "else" => \E i \in 1..Len(p) : p[i].kind = "else" /\ x = Pos(s, hd, i)
           /\ q[x].kind \in {"if", "switch", "goto", "back", "call"} \/ q[x].scale # NoSite =>
                 \/ \E i \in 1..Len(p) : x = Pos(s, hd, i)
                 \/ q[x] = Dummy
<1>1. PICK i \in 1..Len(p) :
               \/ x = Pos(s, hd, i)
               \/ i \in Wrapped(p) /\ x = Lead(s, i)
               \/ i \in Wrapped(p) /\ \E k \in 2..hd[i] : x = s[i] + k
               \/ p[i].kind \in {"if", "else"} /\ \E k \in 1..tl[i] : x = Pos(s, hd, i) + k
               \/ x = Pos(s, hd, i) + 1 /\ q[x] = End
  BY PatchFound
<1>2. CASE x = Pos(s, hd, i)
  <2>1. q[x].label = "none" /\ q[x].kind = p[i].kind
    BY <1>2 DEF Patched
  <2> QED BY <1>2, <2>1
<1>3. CASE i \in Wrapped(p) /\ x = Lead(s, i)
  <2>1. q[x].kind = "block" /\ q[x].scale = NoSite
    <3>1. q[x] = CaseBlock(p[i].label)
      BY <1>3, HeadStatements
    <3> QED BY <3>1 DEF CaseBlock, Item
  <2> QED BY <1>3, <2>1
<1>4. CASE q[x] = Dummy
  BY <1>4, DummyIs
<1>5. CASE q[x] = End
  <2>1. q[x].kind = "end" /\ q[x].label = "none" /\ q[x].scale = NoSite
    BY <1>5 DEF End, Item
  <2> QED BY <2>1
<1>6. CASE i \in Wrapped(p) /\ \E k \in 2..hd[i] : x = s[i] + k
  <2>1. q[x] = Dummy
    BY <1>6, HeadStatements
  <2> QED BY <1>4, <2>1
<1>7. CASE p[i].kind \in {"if", "else"} /\ \E k \in 1..tl[i] : x = Pos(s, hd, i) + k
  <2>1. q[x] = Dummy
    BY <1>7, TailStatements
  <2> QED BY <1>4, <2>1
<1> QED BY <1>1, <1>2, <1>3, <1>5, <1>6, <1>7

\* An if leads to the counterweights of its branches.
LEMMA IfLinks ==
    ASSUME NEW f, NEW p, Prepared(f, p), NEW weight, NEW q, NEW s, NEW hd, NEW tl,
           Patched(f, p, q, weight, s, hd, tl), NEW i \in 1..Len(p), p[i].kind = "if",
           NEW e, e = ElseOf(p, i)
    PROVE  /\ e \in 1..Len(p) /\ p[e].kind = "else" /\ SplitOf(f, p, e) = i /\ SplitOf(f, p, i) = i
           /\ Links(q, Pos(s, hd, i)) = {Pos(s, hd, i) + 1, Pos(s, hd, e) + 1}
<1>1. Layout(f, p, q, Wrapped(p), s, hd, tl) /\ Len(p) \in Nat
  BY DEF Patched, Prepared, Tree
<1>2. e \in (i + 1)..Len(p) /\ p[e].kind = "else" /\ f[e] = i
  BY DEF Prepared
<1>3. e \in 1..Len(p)
  BY <1>1, <1>2
<1>4. PICK g : g = NewParent(f, p, Wrapped(p), s, hd)
  OBVIOUS
<1>5. Tree(g, q) /\ Parent(q) = g /\ DOMAIN q = 1..Len(q)
  <2>1. Tree(g, q)
    BY <1>1, <1>4, LayoutTree
  <2> QED BY <2>1, ParentIs DEF Tree
<1>6. ASSUME NEW k \in 1..Len(p), p[k].kind = "else"
      PROVE  g[Pos(s, hd, k)] = Pos(s, hd, f[k]) /\ Pos(s, hd, k) \in 1..Len(q)
             /\ q[Pos(s, hd, k)].kind = "else"
  <2>1. k \notin Wrapped(p)
    BY <1>6 DEF Wrapped, Statements, IsStatement
  <2> QED BY <1>1, <1>4, <1>6, <2>1, PieceParents, LayoutStatement
<1>7. \A j \in DOMAIN q : q[j].kind = "else" /\ Parent(q)[j] = Pos(s, hd, i) => j = Pos(s, hd, e)
  <2> SUFFICES ASSUME NEW j \in 1..Len(q), q[j].kind = "else", g[j] = Pos(s, hd, i) PROVE j = Pos(s, hd, e)
    BY <1>5
  <2>1. PICK k \in 1..Len(p) : p[k].kind = "else" /\ j = Pos(s, hd, k)
    BY PatchedLabels
  <2>2. Pos(s, hd, f[k]) = Pos(s, hd, i)
    BY <1>6, <2>1
  <2>3. f[k] \in 0..Len(p) /\ i \in 0..Len(p)
    <3>1. f[k] \in 0..(k - 1)
      BY PreparedItem
    <3> QED BY <1>1, <3>1
  <2>4. f[k] = i
    BY <1>1, <2>2, <2>3, PosOrder
  <2>5. k = e
    BY <1>2, <1>3, <2>1, <2>4 DEF Prepared
  <2> QED BY <2>1, <2>5
<1>8. ElseOf(q, Pos(s, hd, i)) = Pos(s, hd, e)
  <2>1. /\ Pos(s, hd, e) \in DOMAIN q /\ q[Pos(s, hd, e)].kind = "else"
        /\ Parent(q)[Pos(s, hd, e)] = Pos(s, hd, i)
    BY <1>2, <1>3, <1>5, <1>6
  <2> QED BY <1>7, <2>1 DEF ElseOf
<1>9. ASSUME NEW k \in 1..Len(p), p[k].kind \in {"if", "else"}, NEW inherited
      PROVE  First(q, Pos(s, hd, k) + 1, inherited) = Pos(s, hd, k) + 1
  <2>1. tl[k] \in Nat /\ \A m \in 1..(tl[k] + 1) : Pos(s, hd, k) + m \in Statements(q)
    BY <1>9, TailStatements
  <2>2. 1 \in 1..(tl[k] + 1)
    BY <2>1
  <2> QED BY <2>1, <2>2 DEF First, Statements
<1>10. q[Pos(s, hd, i)].kind = "if"
  BY DEF Patched
<1>11. Links(q, Pos(s, hd, i)) = {Pos(s, hd, i) + 1, Pos(s, hd, e) + 1}
  BY <1>2, <1>3, <1>8, <1>9, <1>10 DEF Links
<1> QED BY <1>2, <1>3, <1>11 DEF SplitOf

\* A switch leads to the blocks of its cases.
LEMMA SwitchLinks ==
    ASSUME NEW f, NEW p, Prepared(f, p), NEW weight, NEW q, NEW s, NEW hd, NEW tl,
           Patched(f, p, q, weight, s, hd, tl), NEW i \in 1..Len(p), p[i].kind = "switch"
    PROVE  /\ Links(q, Pos(s, hd, i)) = {Lead(s, t) : t \in Cases(p, i)}
           /\ Cases(p, i) # {} /\ Links(p, i) = Cases(p, i)
           /\ \A t \in Cases(p, i) : t \in Wrapped(p) /\ SwitchOf(p, t) = i
<1>1. Layout(f, p, q, Wrapped(p), s, hd, tl) /\ Len(p) \in Nat /\ DOMAIN p = 1..Len(p) /\ DOMAIN q = 1..Len(q)
  BY DEF Patched, Prepared, Tree, Layout
<1>2. \A t \in Cases(p, i) : t \in Wrapped(p) /\ SwitchOf(p, t) = i
  BY DEF Cases, Wrapped, SwitchOf
<1>3. PICK d \in Cases(p, i) : p[d].label = "default"
  BY DEF Prepared, HasDefault
<1>4. \A t \in 1..Len(p) : Enclosing(q, Lead(s, t), {"switch"}) = Pos(s, hd, SwitchOf(p, t))
  <2>1. PICK kinds : kinds = {"switch"}
    OBVIOUS
  <2>2. "block" \notin kinds
    BY <2>1
  <2>3. \A t \in 1..Len(p) : Enclosing(q, Lead(s, t), kinds) = Pos(s, hd, Enclosing(p, t, kinds))
    BY <1>1, <2>2, LayoutEnclosing
  <2> QED BY <2>1, <2>3 DEF SwitchOf
<1>5. ASSUME NEW t \in Wrapped(p)
      PROVE  /\ Lead(s, t) \in Statements(q) /\ q[Lead(s, t)].label = p[t].label /\ p[t].label # "none"
             /\ t \in Statements(p) /\ t \in 1..Len(p)
             /\ SwitchOf(p, t) \in 0..Len(p)
  <2>1. /\ Lead(s, t) \in Statements(q) /\ q[Lead(s, t)] = CaseBlock(p[t].label) /\ p[t].label # "none"
        /\ t \in Statements(p) /\ t \in 1..Len(p)
    BY HeadStatements
  <2>2. SwitchOf(p, t) \in 1..(t - 1)
    BY <2>1, CaseIs
  <2>3. SwitchOf(p, t) \in 0..Len(p)
    BY <1>1, <2>1, <2>2
  <2> QED BY <2>1, <2>3 DEF CaseBlock, Item
<1>6. Cases(q, Pos(s, hd, i)) = {Lead(s, t) : t \in Cases(p, i)}
  <2>1. ASSUME NEW x \in Cases(q, Pos(s, hd, i)) PROVE \E t \in Cases(p, i) : x = Lead(s, t)
    <3>1. x \in 1..Len(q) /\ q[x].label # "none" /\ Enclosing(q, x, {"switch"}) = Pos(s, hd, i)
      BY <1>1 DEF Cases, Statements
    <3>2. PICK t \in Wrapped(p) : x = Lead(s, t)
      BY <3>1, PatchedLabels
    <3>3. Pos(s, hd, SwitchOf(p, t)) = Pos(s, hd, i)
      BY <1>4, <1>5, <3>1, <3>2
    <3>4. SwitchOf(p, t) = i
      <4>1. i \in 0..Len(p)
        BY <1>1
      <4> QED BY <1>1, <1>5, <3>3, <4>1, PosOrder
    <3>5. t \in Cases(p, i)
      BY <1>5, <3>4 DEF Cases, SwitchOf
    <3> QED BY <3>2, <3>5
  <2>2. ASSUME NEW t \in Cases(p, i) PROVE Lead(s, t) \in Cases(q, Pos(s, hd, i))
    BY <1>2, <1>4, <1>5 DEF Cases
  <2> QED BY <2>1, <2>2
<1>7. HasDefault(q, Pos(s, hd, i))
  BY <1>2, <1>3, <1>5, <1>6 DEF HasDefault
<1>8. q[Pos(s, hd, i)].kind = "switch"
  BY DEF Patched
<1>9. Links(q, Pos(s, hd, i)) = Cases(q, Pos(s, hd, i))
  BY <1>7, <1>8 DEF Links
<1>10. Links(p, i) = Cases(p, i)
  BY <1>3 DEF Links, HasDefault
<1> QED BY <1>2, <1>3, <1>6, <1>9, <1>10

\* Whatever x leads to weighs m, and no region ends there.
LEMMA EvenStep ==
    ASSUME NEW nodes, NEW g, NEW E, NEW u, NEW x, NEW m \in Nat, g.succ[x] # {},
           \A t \in g.succ[x] : t \in nodes /\ t > x /\ t \notin g.headers /\ E[t] = m,
           u[x] \in Nat, E[x] = u[x] + m
    PROVE  Even(nodes, g, E, u, x)
<1>1. PICK t \in g.succ[x] : t \notin g.headers /\ E[t] = m
  OBVIOUS
<1>2. E[x] \in Nat /\ E[x] >= u[x] /\ E[x] >= u[x] + m
  OBVIOUS
<1> QED BY <1>1, <1>2 DEF Even

LEMMA SelfIs ==
    ASSUME NEW q, NEW x \in Statements(q)
    PROVE  Selves(q)[x] = IF q[x].scale = NoSite THEN 0 ELSE q[x].scale
<1>1. Selves(q)[x] = SelfWeight(Flow(q), x).threshold
  BY DEF Selves
<1>2. x \in DOMAIN Flow(q).scale <=> q[x].scale # NoSite
  BY FlowIs
<1>3. x \in DOMAIN Flow(q).scale => Flow(q).scale[x] = q[x].scale
  BY FlowIs
<1> QED BY <1>1, <1>2, <1>3 DEF SelfWeight, weightless

\* Regions end where they ended.
LEMMA HeadersKept ==
    ASSUME NEW f, NEW p, Prepared(f, p), NEW weight, NEW q, NEW s, NEW hd, NEW tl,
           Patched(f, p, q, weight, s, hd, tl), NEW i \in Statements(p)
    PROVE  /\ i \in 1..Len(p) /\ Pos(s, hd, i) \in Statements(q)
           /\ Pos(s, hd, i) \in Flow(q).headers <=> i \in Flow(p).headers
           /\ Selves(q)[Pos(s, hd, i)] = Selves(p)[i]
           /\ p[i].kind \in {"if", "switch"} => Selves(p)[i] = 0
<1>1. Layout(f, p, q, Wrapped(p), s, hd, tl) /\ Len(p) \in Nat /\ DOMAIN p = 1..Len(p) /\ DOMAIN q = 1..Len(q)
  BY DEF Patched, Prepared, Tree, Layout
<1>2. i \in 1..Len(p)
  BY <1>1 DEF Statements
<1>3. Pos(s, hd, i) \in Statements(q) /\ Pos(s, hd, i) \in DOMAIN q
  <2>1. IsStatement(p, i)
    BY DEF Statements
  <2>2. IsStatement(q, Pos(s, hd, i))
    BY <1>1, <1>2, <2>1, LayoutStatement
  <2> QED BY <2>2 DEF Statements, IsStatement
<1>4. /\ q[Pos(s, hd, i)].kind = p[i].kind /\ q[Pos(s, hd, i)].scale = p[i].scale
      /\ q[Pos(s, hd, i)].dest = Pos(s, hd, p[i].dest)
  BY <1>2 DEF Patched
<1>5. Pos(s, hd, p[i].dest) < Pos(s, hd, i) <=> p[i].dest < i
  <2>1. p[i].dest \in 0..Len(p)
    BY <1>2, PreparedItem
  <2>2. i \in 0..Len(p)
    BY <1>1, <1>2
  <2> QED BY <1>1, <2>1, <2>2, PosOrder
<1>6. Pos(s, hd, i) \in Flow(q).headers <=> i \in Flow(p).headers
  BY <1>1, <1>2, <1>3, <1>4, <1>5, FlowIs
<1>7. Selves(q)[Pos(s, hd, i)] = Selves(p)[i]
  BY <1>3, <1>4, SelfIs
<1>8. p[i].kind \in {"if", "switch"} => Selves(p)[i] = 0
  <2>1. p[i].scale # NoSite => p[i].kind = "instr"
    BY <1>2 DEF Prepared
  <2> QED BY <2>1, SelfIs
<1> QED BY <1>2, <1>3, <1>6, <1>7, <1>8

LEMMA PlainSelf ==
    ASSUME NEW q, NEW x \in Statements(q)
    PROVE  /\ q[x] = Dummy => Selves(q)[x] = 1 /\ x \notin Flow(q).headers
           /\ \A label : q[x] = CaseBlock(label) => Selves(q)[x] = 0 /\ x \notin Flow(q).headers
<1>1. q[x] = Dummy => Selves(q)[x] = 1 /\ x \notin Flow(q).headers
  <2> SUFFICES ASSUME q[x] = Dummy PROVE Selves(q)[x] = 1 /\ x \notin Flow(q).headers
    OBVIOUS
  <2>1. q[x].scale = 1 /\ q[x].kind = "instr" /\ 1 # NoSite
    BY DummyIs DEF NoSite
  <2> QED BY <2>1, SelfIs, FlowIs
<1>2. ASSUME NEW label, q[x] = CaseBlock(label)
      PROVE  Selves(q)[x] = 0 /\ x \notin Flow(q).headers
  <2>1. q[x].scale = NoSite /\ q[x].kind = "block"
    BY <1>2 DEF CaseBlock, Item
  <2> QED BY <2>1, SelfIs, FlowIs
<1> QED BY <1>1, <1>2

LEMMA ExpectedExists ==
    ASSUME NEW f, NEW p, Prepared(f, p), NEW weight, Descends(f, p, weight), NEW q, NEW s, NEW hd, NEW tl,
           Patched(f, p, q, weight, s, hd, tl)
    PROVE  \E E : Expected(f, p, weight, s, hd, tl, E)
<1> DEFINE Value(i, k) ==
              IF k <= hd[i]
              THEN IF k = 1 THEN weight[SwitchOf(p, i)].threshold
                   ELSE weight[i].threshold + ((hd[i] + 1) - k)
              ELSE IF k = hd[i] + 1 THEN weight[i].threshold
              ELSE weight[i + 1].threshold + ((tl[i] + 1) - (k - (hd[i] + 1)))
           Given(x) == LET i == Piece(s, Len(p), x) IN Value(i, x - s[i])
           E == [x \in 1..Len(q) |-> Given(x)]
<1>1. Layout(f, p, q, Wrapped(p), s, hd, tl)
  BY DEF Patched
<1>2. ASSUME NEW i \in 1..Len(p), NEW k \in 1..(hd[i] + 1 + tl[i])
      PROVE  E[s[i] + k] = Value(i, k)
  <2>1. s[i] + k \in 1..Len(q) /\ Piece(s, Len(p), s[i] + k) = i /\ s[i] \in Nat
    BY <1>1, <1>2, LayoutIs
  <2>2. E[s[i] + k] = Given(s[i] + k)
    BY <2>1
  <2>3. (s[i] + k) - s[i] = k
    <3>1. PICK a \in Nat : a = s[i]
      BY <2>1
    <3>2. hd[i] \in Nat /\ tl[i] \in Nat
      BY <1>1, LayoutPlaces
    <3>3. k \in Int
      BY <1>2, <3>2
    <3>4. (a + k) - a = k
      BY <3>3
    <3> QED BY <3>1, <3>4
  <2>4. Given(s[i] + k) = Value(i, (s[i] + k) - s[i])
    BY <2>1
  <2> QED BY <2>2, <2>3, <2>4
<1>3. PICK V : V = E
  OBVIOUS
<1>4. ASSUME NEW i \in 1..Len(p), NEW k \in 1..(hd[i] + 1 + tl[i])
      PROVE  V[s[i] + k] = Value(i, k)
  BY <1>2, <1>3
<1> HIDE DEF E, Given
<1>5. ASSUME NEW i \in Statements(p)
      PROVE  /\ i \in 1..Len(p) /\ weight[i].threshold \in Nat
             /\ V[Pos(s, hd, i)] = weight[i].threshold
  <2>1. i \in 1..Len(p) /\ weight[i].threshold \in Nat
    BY <1>1 DEF Descends, Statements, IsStatement, Layout, Tree
  <2>2. hd[i] \in Nat /\ tl[i] \in Nat /\ Pos(s, hd, i) = s[i] + (hd[i] + 1)
    BY <1>1, <2>1, LayoutPlaces
  <2>3. hd[i] + 1 \in 1..(hd[i] + 1 + tl[i])
    BY <2>2
  <2>4. V[s[i] + (hd[i] + 1)] = Value(i, hd[i] + 1)
    BY <1>4, <2>1, <2>3
  <2>5. Value(i, hd[i] + 1) = weight[i].threshold
    BY <2>2
  <2> QED BY <2>1, <2>2, <2>4, <2>5
<1>6. ASSUME NEW i \in Wrapped(p)
      PROVE  /\ V[Lead(s, i)] = weight[SwitchOf(p, i)].threshold
             /\ \A k \in 2..(hd[i] + 1) : V[s[i] + k] = weight[i].threshold + ((hd[i] + 1) - k)
  <2>1. /\ i \in 1..Len(p) /\ i \in Statements(p)
        /\ s[i] \in Nat /\ hd[i] \in Nat /\ hd[i] >= 1 /\ tl[i] \in Nat
        /\ Lead(s, i) = s[i] + 1
        /\ s[i] + (hd[i] + 1) = Pos(s, hd, i)
    <3>1. /\ i \in 1..Len(p) /\ i \in Statements(p)
          /\ s[i] \in Nat /\ hd[i] \in Nat /\ hd[i] >= 1
          /\ Lead(s, i) = s[i] + 1
          /\ s[i] + (hd[i] + 1) = Pos(s, hd, i)
      BY HeadStatements
    <3>2. tl[i] \in Nat
      BY <1>1, <3>1, LayoutPlaces
    <3> QED BY <3>1, <3>2
  <2>2. V[Lead(s, i)] = weight[SwitchOf(p, i)].threshold
    <3>1. 1 \in 1..(hd[i] + 1 + tl[i])
      BY <2>1
    <3>2. V[s[i] + 1] = Value(i, 1)
      BY <1>4, <2>1, <3>1
    <3>3. Value(i, 1) = weight[SwitchOf(p, i)].threshold
      BY <2>1
    <3> QED BY <2>1, <3>2, <3>3
  <2>3. ASSUME NEW k \in 2..(hd[i] + 1)
        PROVE  V[s[i] + k] = weight[i].threshold + ((hd[i] + 1) - k)
    <3>1. k \in 1..(hd[i] + 1 + tl[i]) /\ k # 1
      BY <2>1
    <3>2. V[s[i] + k] = Value(i, k)
      BY <1>4, <2>1, <3>1
    <3>3. CASE k = hd[i] + 1
      <4>1. Value(i, k) = weight[i].threshold
        BY <2>1, <3>3
      <4>2. weight[i].threshold \in Nat
        BY <1>5, <2>1
      <4>3. (hd[i] + 1) - k = 0 /\ weight[i].threshold + 0 = weight[i].threshold
        BY <2>1, <3>3, <4>2
      <4> QED BY <3>2, <4>1, <4>3
    <3>4. CASE k # hd[i] + 1
      <4>1. k <= hd[i]
        BY <2>1, <3>4
      <4>2. Value(i, k) = weight[i].threshold + ((hd[i] + 1) - k)
        BY <3>1, <4>1
      <4> QED BY <3>2, <4>2
    <3> QED BY <3>3, <3>4
  <2> QED BY <2>2, <2>3
<1>7. ASSUME NEW i \in 1..Len(p), p[i].kind \in {"if", "else"}, NEW k \in 1..(tl[i] + 1)
      PROVE  V[Pos(s, hd, i) + k] = weight[i + 1].threshold + ((tl[i] + 1) - k)
  <2>1. /\ tl[i] \in Nat /\ hd[i] \in Nat /\ s[i] \in Nat
        /\ Pos(s, hd, i) = s[i] + hd[i] + 1
        /\ Pos(s, hd, i) + (tl[i] + 1) = Pos(s, hd, i + 1)
    BY <1>1, <1>7, LayoutPlaces, TailStatements
  <2>2. i + 1 \in Statements(p)
    <3>1. PICK m : m = SplitOf(f, p, i)
      OBVIOUS
    <3> QED BY <1>7, <3>1, BranchIs
  <2>3. CASE k = tl[i] + 1
    <3>1. V[Pos(s, hd, i) + k] = weight[i + 1].threshold /\ weight[i + 1].threshold \in Nat
      BY <1>5, <2>1, <2>2, <2>3
    <3>2. (tl[i] + 1) - k = 0 /\ weight[i + 1].threshold + 0 = weight[i + 1].threshold
      BY <2>1, <2>3, <3>1
    <3> QED BY <3>1, <3>2
  <2>4. CASE k # tl[i] + 1
    <3>1. PICK a \in Nat, b \in Nat, c \in Nat : a = hd[i] /\ b = tl[i] /\ c = s[i]
      BY <2>1
    <3>2. /\ a + 1 + k \in 1..(a + 1 + b) /\ c + (a + 1 + k) = (c + a + 1) + k
          /\ ~(a + 1 + k <= a) /\ a + 1 + k # a + 1 /\ (a + 1 + k) - (a + 1) = k
      <4>1. k \in 1..(b + 1) /\ k # b + 1
        BY <1>7, <2>4, <3>1
      <4>2. k \in 1..b /\ k \in Nat
        BY <4>1
      <4>3. a + 1 + k \in 1..(a + 1 + b)
        BY <4>2
      <4>4. c + (a + 1 + k) = (c + a + 1) + k
        BY <4>2
      <4> QED BY <4>2, <4>3, <4>4
    <3>3. V[s[i] + (hd[i] + 1 + k)] = Value(i, hd[i] + 1 + k)
      BY <1>4, <3>1, <3>2
    <3>4. Value(i, hd[i] + 1 + k) = weight[i + 1].threshold + ((tl[i] + 1) - k)
      BY <3>1, <3>2
    <3>5. Pos(s, hd, i) + k = s[i] + (hd[i] + 1 + k)
      BY <2>1, <3>1, <3>2
    <3> QED BY <3>3, <3>4, <3>5
  <2> QED BY <2>3, <2>4
<1>8. Expected(f, p, weight, s, hd, tl, V)
  BY <1>5, <1>6, <1>7 DEF Expected
<1> QED BY <1>8

LEMMA WeighsIs ==
    ASSUME NEW weight, NEW p, Weighs(weight, p), NEW i \in Statements(p)
    PROVE  /\ Selves(p)[i] \in Nat /\ weight[i].threshold \in Nat /\ weight[i].threshold >= Selves(p)[i]
           /\ \A t \in Flow(p).succ[i] \ Flow(p).headers : t \in Statements(p) =>
                 weight[i].threshold >= Selves(p)[i] + weight[t].threshold
           /\ weight[i].threshold # Selves(p)[i] /\ Flow(p).succ[i] \subseteq Statements(p) =>
                 \E t \in Flow(p).succ[i] \ Flow(p).headers :
                     weight[i].threshold = Selves(p)[i] + weight[t].threshold
<1> DEFINE V == [j \in Statements(p) |-> weight[j].threshold]
<1>1. \A j \in Statements(p) : V[j] = weight[j].threshold
  OBVIOUS
<1>2. Bounds(V, Selves(p), Statements(p), Flow(p))
  BY DEF Weighs
<1> HIDE DEF V
<1> QED BY <1>1, <1>2 DEF Bounds

\* No region ends at what patch puts in, nor where a branch or a case begins.
LEMMA TailPlain ==
    ASSUME NEW f, NEW p, Prepared(f, p), NEW weight, NEW q, NEW s, NEW hd, NEW tl,
           Patched(f, p, q, weight, s, hd, tl), NEW i \in 1..Len(p), p[i].kind \in {"if", "else"},
           NEW k \in 1..(tl[i] + 1)
    PROVE  /\ Pos(s, hd, i) + k \in Statements(q) /\ Pos(s, hd, i) + k \notin Flow(q).headers
           /\ k <= tl[i] => q[Pos(s, hd, i) + k] = Dummy /\ Selves(q)[Pos(s, hd, i) + k] = 1
<1>1. /\ tl[i] \in Nat /\ Pos(s, hd, i) \in Nat
      /\ Pos(s, hd, i) + k \in Statements(q)
      /\ \A d \in 1..tl[i] : q[Pos(s, hd, i) + d] = Dummy
      /\ Pos(s, hd, i) + (tl[i] + 1) = Pos(s, hd, i + 1)
  BY TailStatements
<1>2. CASE k <= tl[i]
  <2>1. k \in 1..tl[i]
    BY <1>1, <1>2
  <2> QED BY <1>1, <2>1, PlainSelf
<1>3. CASE ~(k <= tl[i])
  <2>1. k = tl[i] + 1
    BY <1>1, <1>3
  <2>2. PICK m : m = SplitOf(f, p, i)
    OBVIOUS
  <2>3. i + 1 \in Statements(p) /\ i + 1 \notin Flow(p).headers
    BY <2>2, BranchIs
  <2>4. Pos(s, hd, i + 1) \notin Flow(q).headers
    BY <2>3, HeadersKept
  <2> QED BY <1>1, <1>3, <2>1, <2>4
<1> QED BY <1>2, <1>3

LEMMA HeadPlain ==
    ASSUME NEW f, NEW p, Prepared(f, p), NEW weight, NEW q, NEW s, NEW hd, NEW tl,
           Patched(f, p, q, weight, s, hd, tl), NEW i \in Wrapped(p)
    PROVE  /\ Lead(s, i) \in Statements(q) /\ Lead(s, i) \notin Flow(q).headers
           /\ Selves(q)[Lead(s, i)] = 0
           /\ \A k \in 2..(hd[i] + 1) :
                 /\ s[i] + k \in Statements(q) /\ s[i] + k \notin Flow(q).headers
                 /\ k <= hd[i] => q[s[i] + k] = Dummy /\ Selves(q)[s[i] + k] = 1
<1>1. /\ i \in 1..Len(p) /\ i \in Statements(p) /\ p[i].label # "none"
      /\ s[i] \in Nat /\ hd[i] \in Nat /\ hd[i] >= 1
      /\ Lead(s, i) \in Statements(q) /\ q[Lead(s, i)] = CaseBlock(p[i].label)
      /\ \A k \in 2..(hd[i] + 1) : s[i] + k \in Statements(q)
      /\ \A k \in 2..hd[i] : q[s[i] + k] = Dummy
      /\ s[i] + (hd[i] + 1) = Pos(s, hd, i)
  BY HeadStatements
<1>2. Lead(s, i) \notin Flow(q).headers /\ Selves(q)[Lead(s, i)] = 0
  BY <1>1, PlainSelf
<1>3. ASSUME NEW k \in 2..(hd[i] + 1)
      PROVE  /\ s[i] + k \in Statements(q) /\ s[i] + k \notin Flow(q).headers
             /\ k <= hd[i] => q[s[i] + k] = Dummy /\ Selves(q)[s[i] + k] = 1
  <2>1. s[i] + k \in Statements(q)
    BY <1>1
  <2>2. CASE k <= hd[i]
    <3>1. k \in 2..hd[i]
      BY <1>1, <2>2
    <3>2. q[s[i] + k] = Dummy
      BY <1>1, <3>1
    <3> QED BY <2>1, <3>2, PlainSelf
  <2>3. CASE ~(k <= hd[i])
    <3>1. k = hd[i] + 1
      BY <1>1, <2>3
    <3>2. i \notin Flow(p).headers
      BY <1>1, CaseIs
    <3>3. Pos(s, hd, i) \notin Flow(q).headers
      BY <1>1, <3>2, HeadersKept
    <3> QED BY <1>1, <2>1, <2>3, <3>1, <3>3
  <2> QED BY <2>2, <2>3
<1> QED BY <1>1, <1>2, <1>3

\* What leads to one statement only does so still.
LEMMA EvenKept ==
    ASSUME NEW f, NEW p, Prepared(f, p), NEW weight, Weighs(weight, p), NEW q, NEW s, NEW hd, NEW tl,
           Patched(f, p, q, weight, s, hd, tl), NEW E, Expected(f, p, weight, s, hd, tl, E),
           NEW i \in Statements(p), p[i].kind \notin {"if", "switch"}
    PROVE  Even(Statements(q), Flow(q), E, Selves(q), Pos(s, hd, i))
<1>1. Layout(f, p, q, Wrapped(p), s, hd, tl) /\ Forward(Statements(p), Flow(p), Len(p))
  BY DEF Patched, Prepared
<1>2. PICK x : x = Pos(s, hd, i)
  OBVIOUS
<1>3. /\ i \in 1..Len(p) /\ x \in Statements(q) /\ (x \in Flow(q).headers <=> i \in Flow(p).headers)
      /\ Selves(q)[x] = Selves(p)[i] /\ E[x] = weight[i].threshold
  BY <1>2, HeadersKept DEF Expected
<1>4. /\ Flow(q).succ[x] = {Pos(s, hd, t) : t \in Links(p, i)} \ {0}
      /\ Flow(p).succ[i] = Links(p, i) \ {0}
      /\ \E t : Links(p, i) \subseteq {t}
  <2>1. Links(q, x) = {Pos(s, hd, t) : t \in Links(p, i)} /\ \E t : Links(p, i) \subseteq {t}
    BY <1>2, KeptLinks
  <2>2. Flow(q).succ[x] = Links(q, x) \ {0}
    BY <1>3, FlowIs
  <2>3. Flow(p).succ[i] = Links(p, i) \ {0}
    BY FlowIs
  <2> QED BY <2>1, <2>2, <2>3
<1>5. ASSUME NEW t \in Flow(p).succ[i]
      PROVE  /\ t \in Statements(p) /\ Pos(s, hd, t) \in Flow(q).succ[x] /\ Pos(s, hd, t) \in Statements(q)
             /\ Pos(s, hd, t) \in Flow(q).headers <=> t \in Flow(p).headers
             /\ E[Pos(s, hd, t)] = weight[t].threshold
             /\ weight[t].threshold \in Nat
             /\ x \notin Flow(q).headers => Pos(s, hd, t) > x
  <2>1. t \in Statements(p) /\ (i \notin Flow(p).headers => t > i) /\ t # 0 /\ t \in Links(p, i)
    BY <1>1, <1>4 DEF Forward
  <2>2. /\ t \in 1..Len(p) /\ Pos(s, hd, t) \in Statements(q) /\ E[Pos(s, hd, t)] = weight[t].threshold
        /\ Pos(s, hd, t) \in Flow(q).headers <=> t \in Flow(p).headers
    BY <2>1, HeadersKept DEF Expected
  <2>3. t \in 0..Len(p) /\ i \in 0..Len(p) /\ Len(p) \in Nat /\ 0 \in 0..Len(p)
    BY <1>1, <1>3, <2>2 DEF Forward
  <2>4. Pos(s, hd, t) \in Nat /\ Pos(s, hd, i) \in Nat /\ (i < t => Pos(s, hd, i) < Pos(s, hd, t))
    BY <1>1, <2>3, PosOrder
  <2>5. Pos(s, hd, t) # 0
    <3>1. 0 < t => Pos(s, hd, 0) < Pos(s, hd, t) /\ Pos(s, hd, 0) \in Nat
      BY <1>1, <2>3, PosOrder
    <3> QED BY <2>1, <2>2, <2>4, <3>1
  <2>6. x \notin Flow(q).headers => Pos(s, hd, t) > x
    BY <1>2, <1>3, <2>1, <2>2, <2>4
  <2> QED BY <1>4, <2>1, <2>2, <2>5, <2>6, WeighsIs
<1>6. ASSUME NEW y \in Flow(q).succ[x]
      PROVE  \E t \in Flow(p).succ[i] : y = Pos(s, hd, t)
  <2>1. PICK t \in Links(p, i) : y = Pos(s, hd, t) /\ y # 0
    BY <1>4
  <2>2. t # 0
    BY <2>1 DEF Pos
  <2> QED BY <1>4, <2>1, <2>2
<1>7. Flow(q).succ[x] \subseteq Statements(q)
  BY <1>5, <1>6
<1>8. x \notin Flow(q).headers => \A y \in Flow(q).succ[x] : y > x
  BY <1>5, <1>6
<1>9. Selves(q)[x] \in Nat /\ E[x] \in Nat /\ E[x] >= Selves(q)[x]
  BY <1>3, WeighsIs
<1>10. \A y \in Flow(q).succ[x] \ Flow(q).headers : E[x] >= Selves(q)[x] + E[y]
  <2> SUFFICES ASSUME NEW y \in Flow(q).succ[x] \ Flow(q).headers PROVE E[x] >= Selves(q)[x] + E[y]
    OBVIOUS
  <2>1. PICK t \in Flow(p).succ[i] : y = Pos(s, hd, t)
    BY <1>6
  <2>2. t \in Flow(p).succ[i] \ Flow(p).headers /\ t \in Statements(p) /\ E[y] = weight[t].threshold
    BY <1>5, <2>1
  <2> QED BY <1>3, <2>2, WeighsIs
<1>11. E[x] # Selves(q)[x] => \E y \in Flow(q).succ[x] \ Flow(q).headers : E[x] = Selves(q)[x] + E[y]
  <2> SUFFICES ASSUME E[x] # Selves(q)[x]
               PROVE \E y \in Flow(q).succ[x] \ Flow(q).headers : E[x] = Selves(q)[x] + E[y]
    OBVIOUS
  <2>1. Flow(p).succ[i] \subseteq Statements(p)
    BY <1>5
  <2>2. PICK t \in Flow(p).succ[i] \ Flow(p).headers : weight[i].threshold = Selves(p)[i] + weight[t].threshold
    BY <1>3, <2>1, WeighsIs
  <2>3. Pos(s, hd, t) \in Flow(q).succ[x] \ Flow(q).headers /\ E[Pos(s, hd, t)] = weight[t].threshold
    BY <1>5, <2>2
  <2> QED BY <1>3, <2>2, <2>3
<1>12. \A y, v \in Flow(q).succ[x] : y = v
  <2>1. PICK t : Links(p, i) \subseteq {t}
    BY <1>4
  <2> QED BY <1>4, <2>1
<1> QED BY <1>2, <1>7, <1>8, <1>9, <1>10, <1>11, <1>12 DEF Even

\* What begins a branch, counterweights included, weighs what the if does.
LEMMA TailWeight ==
    ASSUME NEW f, NEW p, Prepared(f, p), NEW weight, Weighs(weight, p), NEW q, NEW s, NEW hd, NEW tl,
           Patched(f, p, q, weight, s, hd, tl), NEW E, Expected(f, p, weight, s, hd, tl, E),
           NEW i \in 1..Len(p), p[i].kind \in {"if", "else"}, NEW m, m = SplitOf(f, p, i)
    PROVE  /\ E[Pos(s, hd, i) + 1] = weight[m].threshold /\ weight[m].threshold \in Nat
           /\ Pos(s, hd, i) + 1 \in Statements(q) /\ Pos(s, hd, i) + 1 \notin Flow(q).headers
<1>1. m \in Statements(p) /\ i + 1 \in Statements(p)
  BY BranchIs
<1>2. weight[m].threshold \in Nat /\ weight[i + 1].threshold \in Nat
  BY <1>1, WeighsIs
<1>3. tl[i] = weight[m].threshold - weight[i + 1].threshold
  BY DEF Patched, Behind
<1>4. tl[i] \in Nat
  BY TailStatements
<1>5. 1 \in 1..(tl[i] + 1)
  BY <1>4
<1>6. E[Pos(s, hd, i) + 1] = weight[i + 1].threshold + ((tl[i] + 1) - 1)
  BY <1>5 DEF Expected
<1>7. weight[i + 1].threshold + ((tl[i] + 1) - 1) = weight[m].threshold
  BY <1>2, <1>3
<1> QED BY <1>2, <1>5, <1>6, <1>7, TailPlain

LEMMA EvenIf ==
    ASSUME NEW f, NEW p, Prepared(f, p), NEW weight, Weighs(weight, p), NEW q, NEW s, NEW hd, NEW tl,
           Patched(f, p, q, weight, s, hd, tl), NEW E, Expected(f, p, weight, s, hd, tl, E),
           NEW i \in Statements(p), p[i].kind = "if"
    PROVE  Even(Statements(q), Flow(q), E, Selves(q), Pos(s, hd, i))
<1>1. Layout(f, p, q, Wrapped(p), s, hd, tl)
  BY DEF Patched
<1>2. PICK x : x = Pos(s, hd, i)
  OBVIOUS
<1>3. /\ i \in 1..Len(p) /\ x \in Statements(q) /\ Selves(q)[x] = 0 /\ E[x] = weight[i].threshold
      /\ weight[i].threshold \in Nat
  BY <1>2, HeadersKept, WeighsIs DEF Expected
<1>4. PICK e : e = ElseOf(p, i)
  OBVIOUS
<1>5. /\ e \in 1..Len(p) /\ p[e].kind = "else" /\ SplitOf(f, p, e) = i /\ SplitOf(f, p, i) = i
      /\ Links(q, x) = {x + 1, Pos(s, hd, e) + 1}
  BY <1>2, <1>3, <1>4, IfLinks
<1>6. x \in Nat /\ Pos(s, hd, e) \in Nat /\ x <= Pos(s, hd, e)
  <2>1. e \in (i + 1)..Len(p) /\ Len(p) \in Nat
    BY <1>1, <1>3, <1>4 DEF Prepared, Layout, Tree
  <2>2. i \in 0..Len(p) /\ e \in 0..Len(p) /\ i < e
    BY <1>3, <2>1
  <2> QED BY <1>1, <1>2, <2>2, PosOrder
<1>7. /\ x + 1 \in Statements(q) /\ x + 1 \notin Flow(q).headers /\ E[x + 1] = weight[i].threshold
      /\ Pos(s, hd, e) + 1 \in Statements(q) /\ Pos(s, hd, e) + 1 \notin Flow(q).headers
      /\ E[Pos(s, hd, e) + 1] = weight[i].threshold
  BY <1>2, <1>3, <1>5, TailWeight
<1>8. Flow(q).succ[x] = {x + 1, Pos(s, hd, e) + 1}
  <2>1. x + 1 # 0 /\ Pos(s, hd, e) + 1 # 0
    BY <1>6
  <2>2. Flow(q).succ[x] = Links(q, x) \ {0}
    BY <1>3, FlowIs
  <2> QED BY <1>5, <2>1, <2>2
<1>9. \A t \in Flow(q).succ[x] :
         t \in Statements(q) /\ t > x /\ t \notin Flow(q).headers /\ E[t] = weight[i].threshold
  BY <1>6, <1>7, <1>8
<1>10. Flow(q).succ[x] # {} /\ E[x] = Selves(q)[x] + weight[i].threshold /\ Selves(q)[x] \in Nat
  BY <1>3, <1>8
<1> QED BY <1>2, <1>3, <1>9, <1>10, EvenStep

LEMMA EvenSwitch ==
    ASSUME NEW f, NEW p, Prepared(f, p), NEW weight, Weighs(weight, p), NEW q, NEW s, NEW hd, NEW tl,
           Patched(f, p, q, weight, s, hd, tl), NEW E, Expected(f, p, weight, s, hd, tl, E),
           NEW i \in Statements(p), p[i].kind = "switch"
    PROVE  Even(Statements(q), Flow(q), E, Selves(q), Pos(s, hd, i))
<1>1. Layout(f, p, q, Wrapped(p), s, hd, tl)
  BY DEF Patched
<1>2. PICK x : x = Pos(s, hd, i)
  OBVIOUS
<1>3. /\ i \in 1..Len(p) /\ x \in Statements(q) /\ Selves(q)[x] = 0 /\ E[x] = weight[i].threshold
      /\ weight[i].threshold \in Nat
  BY <1>2, HeadersKept, WeighsIs DEF Expected
<1>4. /\ Links(q, x) = {Lead(s, t) : t \in Cases(p, i)} /\ Cases(p, i) # {}
      /\ \A t \in Cases(p, i) : t \in Wrapped(p) /\ SwitchOf(p, t) = i
  BY <1>2, <1>3, SwitchLinks
<1>5. ASSUME NEW t \in Cases(p, i)
      PROVE  /\ Lead(s, t) \in Statements(q) /\ Lead(s, t) > x /\ Lead(s, t) \notin Flow(q).headers
             /\ E[Lead(s, t)] = weight[i].threshold /\ Lead(s, t) # 0
  <2>1. t \in Wrapped(p) /\ SwitchOf(p, t) = i
    BY <1>4
  <2>2. t \in 1..Len(p) /\ p[t].label # "none" /\ s[t] \in Nat /\ Lead(s, t) = s[t] + 1
    BY <2>1, HeadStatements
  <2>3. i \in 1..(t - 1)
    BY <2>1, <2>2, CaseIs
  <2>4. i \in 0..(t - 1)
    BY <2>2, <2>3
  <2>5. Pos(s, hd, i) < Lead(s, t) /\ Pos(s, hd, i) \in Nat
    BY <1>1, <2>2, <2>4, LayoutOrder
  <2>6. E[Lead(s, t)] = weight[i].threshold
    BY <2>1 DEF Expected
  <2>7. Lead(s, t) > x /\ Lead(s, t) # 0
    BY <1>2, <2>2, <2>5
  <2> QED BY <2>1, <2>6, <2>7, HeadPlain
<1>6. Flow(q).succ[x] = {Lead(s, t) : t \in Cases(p, i)}
  <2>1. Flow(q).succ[x] = Links(q, x) \ {0}
    BY <1>3, FlowIs
  <2> QED BY <1>4, <1>5, <2>1
<1>7. \A t \in Flow(q).succ[x] :
         t \in Statements(q) /\ t > x /\ t \notin Flow(q).headers /\ E[t] = weight[i].threshold
  BY <1>5, <1>6
<1>8. Flow(q).succ[x] # {} /\ E[x] = Selves(q)[x] + weight[i].threshold /\ Selves(q)[x] \in Nat
  BY <1>3, <1>4, <1>6
<1> QED BY <1>2, <1>3, <1>7, <1>8, EvenStep

LEMMA EvenLead ==
    ASSUME NEW f, NEW p, Prepared(f, p), NEW weight, Weighs(weight, p), NEW q, NEW s, NEW hd, NEW tl,
           Patched(f, p, q, weight, s, hd, tl), NEW E, Expected(f, p, weight, s, hd, tl, E),
           NEW i \in Wrapped(p)
    PROVE  Even(Statements(q), Flow(q), E, Selves(q), Lead(s, i))
<1>1. PICK x : x = Lead(s, i)
  OBVIOUS
<1>2. /\ i \in 1..Len(p) /\ i \in Statements(p) /\ p[i].label # "none"
      /\ s[i] \in Nat /\ hd[i] \in Nat /\ hd[i] >= 1 /\ x = s[i] + 1
  BY <1>1, HeadStatements
<1>3. SwitchOf(p, i) \in Statements(p)
  BY <1>2, CaseIs
<1>4. PICK m : m = weight[SwitchOf(p, i)].threshold
  OBVIOUS
<1>5. m \in Nat /\ weight[i].threshold \in Nat
  BY <1>2, <1>3, <1>4, WeighsIs
<1>6. hd[i] = 1 + (m - weight[i].threshold)
  BY <1>2, <1>4 DEF Patched, Ahead
<1>7. E[x] = m /\ \A k \in 2..(hd[i] + 1) : E[s[i] + k] = weight[i].threshold + ((hd[i] + 1) - k)
  BY <1>1, <1>4 DEF Expected
<1>8. 2 \in 2..(hd[i] + 1)
  BY <1>2
<1>9. E[s[i] + 2] = m
  <2>1. E[s[i] + 2] = weight[i].threshold + ((hd[i] + 1) - 2)
    BY <1>7, <1>8
  <2> QED BY <1>5, <1>6, <2>1
<1>10. /\ x \in Statements(q) /\ Selves(q)[x] = 0
       /\ s[i] + 2 \in Statements(q) /\ s[i] + 2 \notin Flow(q).headers
  BY <1>1, <1>8, HeadPlain
<1>11. Flow(q).succ[x] = {s[i] + 2}
  <2>1. Links(q, x) = {s[i] + 2}
    BY <1>1, WrapLinks
  <2>2. Flow(q).succ[x] = Links(q, x) \ {0} /\ s[i] + 2 # 0
    BY <1>2, <1>10, FlowIs
  <2> QED BY <2>1, <2>2
<1>12. \A t \in Flow(q).succ[x] : t \in Statements(q) /\ t > x /\ t \notin Flow(q).headers /\ E[t] = m
  BY <1>2, <1>9, <1>10, <1>11
<1>13. Flow(q).succ[x] # {} /\ E[x] = Selves(q)[x] + m /\ Selves(q)[x] \in Nat
  BY <1>5, <1>7, <1>10, <1>11
<1> QED BY <1>1, <1>5, <1>12, <1>13, EvenStep

\* Each counterweight has the next one behind it, or what they are there for.
LEMMA EvenDummy ==
    ASSUME NEW g, NEW q, Tree(g, q), NEW x \in Nat, x \in Statements(q), x + 1 \in Statements(q),
           q[x] = Dummy, x + 1 \notin Flow(q).headers,
           NEW E, NEW m \in Nat, E[x + 1] = m, E[x] = 1 + m
    PROVE  Even(Statements(q), Flow(q), E, Selves(q), x)
<1>1. Selves(q)[x] = 1
  BY PlainSelf
<1>2. x \in 1..Len(q)
  BY DEF Tree, Statements, IsStatement
<1>3. Links(q, x) = {x + 1}
  BY <1>2, DummyLinks
<1>4. Flow(q).succ[x] = {x + 1}
  <2>1. Flow(q).succ[x] = Links(q, x) \ {0} /\ x + 1 # 0
    BY FlowIs
  <2> QED BY <1>3, <2>1
<1>5. \A t \in Flow(q).succ[x] : t \in Statements(q) /\ t > x /\ t \notin Flow(q).headers /\ E[t] = m
  BY <1>4
<1>6. Flow(q).succ[x] # {} /\ E[x] = Selves(q)[x] + m /\ Selves(q)[x] \in Nat
  BY <1>1, <1>4
<1> QED BY <1>5, <1>6, EvenStep

LEMMA EvenHead ==
    ASSUME NEW f, NEW p, Prepared(f, p), NEW weight, Weighs(weight, p), NEW q, NEW s, NEW hd, NEW tl,
           Patched(f, p, q, weight, s, hd, tl), NEW E, Expected(f, p, weight, s, hd, tl, E),
           NEW i \in Wrapped(p), NEW k \in 2..hd[i]
    PROVE  Even(Statements(q), Flow(q), E, Selves(q), s[i] + k)
<1>1. PICK g : g = NewParent(f, p, Wrapped(p), s, hd)
  OBVIOUS
<1>2. Tree(g, q)
  BY <1>1, LayoutTree DEF Patched
<1>3. i \in Statements(p) /\ s[i] \in Nat /\ hd[i] \in Nat
  BY HeadStatements
<1>4. PICK a \in Nat, b \in Nat, c \in Nat : a = s[i] /\ b = hd[i] /\ c = weight[i].threshold
  BY <1>3, WeighsIs
<1>5. /\ k \in 2..(b + 1) /\ k + 1 \in 2..(b + 1) /\ k <= b /\ (b + 1) - (k + 1) \in Nat
      /\ a + k \in Nat /\ (a + k) + 1 = a + (k + 1)
      /\ (b + 1) - k = 1 + ((b + 1) - (k + 1))
  BY <1>4
<1>6. /\ s[i] + k \in Statements(q) /\ q[s[i] + k] = Dummy
      /\ s[i] + (k + 1) \in Statements(q) /\ s[i] + (k + 1) \notin Flow(q).headers
  BY <1>4, <1>5, HeadPlain
<1>7. /\ E[s[i] + k] = c + ((b + 1) - k)
      /\ E[s[i] + (k + 1)] = c + ((b + 1) - (k + 1))
  BY <1>4, <1>5 DEF Expected
<1>8. PICK m \in Nat : m = c + ((b + 1) - (k + 1))
  BY <1>4, <1>5
<1>9. E[(a + k) + 1] = m /\ E[a + k] = 1 + m
  <2>1. c + ((b + 1) - k) = 1 + m
    BY <1>4, <1>5, <1>8
  <2> QED BY <1>4, <1>5, <1>7, <1>8, <2>1
<1>10. /\ a + k \in Statements(q) /\ q[a + k] = Dummy
       /\ (a + k) + 1 \in Statements(q) /\ (a + k) + 1 \notin Flow(q).headers
  BY <1>4, <1>5, <1>6
<1> QED BY <1>2, <1>4, <1>5, <1>9, <1>10, EvenDummy

LEMMA EvenTail ==
    ASSUME NEW f, NEW p, Prepared(f, p), NEW weight, Weighs(weight, p), NEW q, NEW s, NEW hd, NEW tl,
           Patched(f, p, q, weight, s, hd, tl), NEW E, Expected(f, p, weight, s, hd, tl, E),
           NEW i \in 1..Len(p), p[i].kind \in {"if", "else"}, NEW k \in 1..tl[i]
    PROVE  Even(Statements(q), Flow(q), E, Selves(q), Pos(s, hd, i) + k)
<1>1. PICK g : g = NewParent(f, p, Wrapped(p), s, hd)
  OBVIOUS
<1>2. Tree(g, q)
  BY <1>1, LayoutTree DEF Patched
<1>3. i + 1 \in Statements(p) /\ Pos(s, hd, i) \in Nat /\ tl[i] \in Nat
  <2>1. PICK m : m = SplitOf(f, p, i)
    OBVIOUS
  <2> QED BY <2>1, BranchIs, TailStatements
<1>4. PICK a \in Nat, b \in Nat, c \in Nat : a = Pos(s, hd, i) /\ b = tl[i] /\ c = weight[i + 1].threshold
  BY <1>3, WeighsIs
<1>5. /\ k \in 1..(b + 1) /\ k + 1 \in 1..(b + 1) /\ k <= b /\ (b + 1) - (k + 1) \in Nat
      /\ a + k \in Nat /\ (a + k) + 1 = a + (k + 1)
      /\ (b + 1) - k = 1 + ((b + 1) - (k + 1))
  <2>1. k \in 1..b
    BY <1>4
  <2>2. k \in Nat /\ k >= 1 /\ k <= b
    BY <2>1
  <2> QED BY <2>2
<1>6. /\ Pos(s, hd, i) + k \in Statements(q) /\ q[Pos(s, hd, i) + k] = Dummy
      /\ Pos(s, hd, i) + (k + 1) \in Statements(q) /\ Pos(s, hd, i) + (k + 1) \notin Flow(q).headers
  <2>1. k \in 1..(tl[i] + 1) /\ k + 1 \in 1..(tl[i] + 1) /\ k <= tl[i]
    BY <1>4, <1>5
  <2>2. Pos(s, hd, i) + k \in Statements(q) /\ q[Pos(s, hd, i) + k] = Dummy
    BY <2>1, TailPlain
  <2>3. Pos(s, hd, i) + (k + 1) \in Statements(q) /\ Pos(s, hd, i) + (k + 1) \notin Flow(q).headers
    BY <2>1, TailPlain
  <2> QED BY <2>2, <2>3
<1>7. /\ E[Pos(s, hd, i) + k] = c + ((b + 1) - k)
      /\ E[Pos(s, hd, i) + (k + 1)] = c + ((b + 1) - (k + 1))
  BY <1>4, <1>5 DEF Expected
<1>8. PICK m \in Nat : m = c + ((b + 1) - (k + 1))
  <2>1. c + ((b + 1) - (k + 1)) \in Nat
    BY <1>5
  <2> QED BY <2>1
<1>9. E[(a + k) + 1] = m /\ E[a + k] = 1 + m
  <2>1. c + ((b + 1) - k) = 1 + m
    <3>1. PICK d \in Nat : d = (b + 1) - (k + 1)
      BY <1>5
    <3>2. (b + 1) - k = 1 + d /\ m = c + d
      BY <1>5, <1>8, <3>1
    <3>3. c + (1 + d) = 1 + (c + d)
      OBVIOUS
    <3> QED BY <3>2, <3>3
  <2> QED BY <1>4, <1>5, <1>7, <1>8, <2>1
<1>10. /\ a + k \in Statements(q) /\ q[a + k] = Dummy
       /\ (a + k) + 1 \in Statements(q) /\ (a + k) + 1 \notin Flow(q).headers
  BY <1>4, <1>5, <1>6
<1> QED BY <1>2, <1>4, <1>5, <1>9, <1>10, EvenDummy

\* No counterweight is heavier than the split that it is for.
LEMMA NoHeavier ==
    ASSUME NEW f, NEW p, Prepared(f, p), NEW weight, Weighs(weight, p), NEW q, NEW s, NEW hd, NEW tl,
           Patched(f, p, q, weight, s, hd, tl), NEW E, Expected(f, p, weight, s, hd, tl, E)
    PROVE  /\ \A i \in Wrapped(p) : \A k \in 2..hd[i] : E[s[i] + k] <= weight[SwitchOf(p, i)].threshold
           /\ \A i \in 1..Len(p) : p[i].kind \in {"if", "else"} =>
                 \A k \in 1..tl[i] : E[Pos(s, hd, i) + k] <= weight[SplitOf(f, p, i)].threshold
<1>1. ASSUME NEW i \in Wrapped(p), NEW k \in 2..hd[i]
      PROVE  E[s[i] + k] <= weight[SwitchOf(p, i)].threshold
  <2>1. i \in 1..Len(p) /\ i \in Statements(p) /\ p[i].label # "none" /\ hd[i] \in Nat
    BY HeadStatements
  <2>2. SwitchOf(p, i) \in Statements(p)
    BY <2>1, CaseIs
  <2>3. PICK m \in Nat, b \in Nat, c \in Nat :
               m = weight[SwitchOf(p, i)].threshold /\ b = hd[i] /\ c = weight[i].threshold
    BY <2>1, <2>2, WeighsIs
  <2>4. b = 1 + (m - c)
    BY <2>1, <2>3 DEF Patched, Ahead
  <2>5. k \in 2..b
    BY <2>3
  <2>6. k \in 2..(b + 1) /\ c + ((b + 1) - k) <= m
    BY <2>4, <2>5
  <2>7. E[s[i] + k] = c + ((b + 1) - k)
    BY <2>3, <2>6 DEF Expected
  <2> QED BY <2>3, <2>6, <2>7
<1>2. ASSUME NEW i \in 1..Len(p), p[i].kind \in {"if", "else"}, NEW k \in 1..tl[i]
      PROVE  E[Pos(s, hd, i) + k] <= weight[SplitOf(f, p, i)].threshold
  <2>1. SplitOf(f, p, i) \in Statements(p) /\ i + 1 \in Statements(p) /\ tl[i] \in Nat
    <3>1. PICK n : n = SplitOf(f, p, i)
      OBVIOUS
    <3> QED BY <1>2, <3>1, BranchIs, TailStatements
  <2>2. PICK m \in Nat, b \in Nat, c \in Nat :
               m = weight[SplitOf(f, p, i)].threshold /\ b = tl[i] /\ c = weight[i + 1].threshold
    BY <2>1, WeighsIs
  <2>3. b = m - c
    BY <1>2, <2>2 DEF Patched, Behind
  <2>4. k \in 1..b
    BY <2>2
  <2>5. k \in 1..(b + 1) /\ c + ((b + 1) - k) <= m
    BY <2>3, <2>4
  <2>6. E[Pos(s, hd, i) + k] = c + ((b + 1) - k)
    BY <1>2, <2>2, <2>5 DEF Expected
  <2> QED BY <2>2, <2>5, <2>6
<1> QED BY <1>1, <1>2

\* So it is with each statement.
LEMMA AllEven ==
    ASSUME NEW f, NEW p, Prepared(f, p), NEW weight, Weighs(weight, p), NEW q, NEW s, NEW hd, NEW tl,
           Patched(f, p, q, weight, s, hd, tl), NEW E, Expected(f, p, weight, s, hd, tl, E),
           NEW x \in Statements(q)
    PROVE  /\ Even(Statements(q), Flow(q), E, Selves(q), x)
           /\ \E i \in Statements(p) : E[x] <= weight[i].threshold
<1>1. Layout(f, p, q, Wrapped(p), s, hd, tl)
  BY DEF Patched
<1>2. x \in 1..Len(q) /\ q[x].kind \notin {"else", "end"}
  BY <1>1 DEF Statements, IsStatement, Layout
<1>3. PICK i \in 1..Len(p) :
               \/ x = Pos(s, hd, i)
               \/ i \in Wrapped(p) /\ x = Lead(s, i)
               \/ i \in Wrapped(p) /\ \E k \in 2..hd[i] : x = s[i] + k
               \/ p[i].kind \in {"if", "else"} /\ \E k \in 1..tl[i] : x = Pos(s, hd, i) + k
               \/ x = Pos(s, hd, i) + 1 /\ q[x] = End
  BY <1>2, PatchFound
<1>4. CASE x = Pos(s, hd, i)
  <2>1. i \in Statements(p)
    <3>1. IsStatement(q, x)
      BY DEF Statements
    <3>2. IsStatement(p, i)
      BY <1>1, <1>4, <3>1, LayoutStatement
    <3> QED BY <3>2 DEF Statements, IsStatement
  <2>2. E[x] = weight[i].threshold /\ weight[i].threshold \in Nat
    BY <1>4, <2>1, WeighsIs DEF Expected
  <2>3. E[x] <= weight[i].threshold
    BY <2>2
  <2>4. Even(Statements(q), Flow(q), E, Selves(q), x)
    BY <1>4, <2>1, EvenKept, EvenIf, EvenSwitch
  <2> QED BY <2>1, <2>3, <2>4
<1>5. CASE i \in Wrapped(p) /\ x = Lead(s, i)
  <2>1. SwitchOf(p, i) \in Statements(p)
    <3>1. p[i].label # "none"
      BY <1>5, HeadStatements
    <3> QED BY <3>1, CaseIs
  <2>2. E[x] = weight[SwitchOf(p, i)].threshold /\ weight[SwitchOf(p, i)].threshold \in Nat
    BY <1>5, <2>1, WeighsIs DEF Expected
  <2>3. E[x] <= weight[SwitchOf(p, i)].threshold
    BY <2>2
  <2> QED BY <1>5, <2>1, <2>3, EvenLead
<1>6. CASE i \in Wrapped(p) /\ \E k \in 2..hd[i] : x = s[i] + k
  <2>1. SwitchOf(p, i) \in Statements(p)
    <3>1. p[i].label # "none"
      BY <1>6, HeadStatements
    <3> QED BY <3>1, CaseIs
  <2>2. PICK k \in 2..hd[i] : x = s[i] + k
    BY <1>6
  <2>3. Even(Statements(q), Flow(q), E, Selves(q), s[i] + k)
    BY <1>6, EvenHead
  <2>4. E[s[i] + k] <= weight[SwitchOf(p, i)].threshold
    BY <1>6, NoHeavier
  <2> QED BY <2>1, <2>2, <2>3, <2>4
<1>7. CASE p[i].kind \in {"if", "else"} /\ \E k \in 1..tl[i] : x = Pos(s, hd, i) + k
  <2>1. SplitOf(f, p, i) \in Statements(p)
    <3>1. PICK m : m = SplitOf(f, p, i)
      OBVIOUS
    <3> QED BY <1>7, <3>1, BranchIs
  <2>2. PICK k \in 1..tl[i] : x = Pos(s, hd, i) + k
    BY <1>7
  <2>3. Even(Statements(q), Flow(q), E, Selves(q), Pos(s, hd, i) + k)
    BY <1>7, EvenTail
  <2>4. E[Pos(s, hd, i) + k] <= weight[SplitOf(f, p, i)].threshold
    BY <1>7, NoHeavier
  <2> QED BY <2>1, <2>2, <2>3, <2>4
<1>8. CASE x = Pos(s, hd, i) + 1 /\ q[x] = End
  BY <1>2, <1>8 DEF End, Item
<1> QED BY <1>3, <1>4, <1>5, <1>6, <1>7, <1>8

\* What is weighed again can be, and weighs what was expected.
LEMMA PatchWeighs ==
    ASSUME NEW f, NEW p, Prepared(f, p), NEW weight, Weighs(weight, p), NEW q, NEW s, NEW hd, NEW tl,
           Patched(f, p, q, weight, s, hd, tl), NEW E, Expected(f, p, weight, s, hd, tl, E),
           NEW w, w = weigh(Statements(q), Flow(q))
    PROVE  \A x \in Statements(q) : w[x].threshold = E[x]
<1>1. \A x \in Statements(q) : Even(Statements(q), Flow(q), E, Selves(q), x)
  BY AllEven
<1>2. Forward(Statements(q), Flow(q), Len(q))
  <2>1. Len(q) \in Nat /\ Statements(q) \in SUBSET (1..Len(q))
    <3>1. Layout(f, p, q, Wrapped(p), s, hd, tl)
      BY DEF Patched
    <3>2. PICK g : g = NewParent(f, p, Wrapped(p), s, hd)
      OBVIOUS
    <3>3. Tree(g, q)
      BY <3>1, <3>2, LayoutTree
    <3> QED BY <3>3 DEF Tree, Statements, IsStatement
  <2>2. \A i \in Statements(q) : Flow(q).succ[i] \in SUBSET Statements(q)
    BY <1>1 DEF Even
  <2>3. \A i \in Statements(q) \ Flow(q).headers : \A t \in Flow(q).succ[i] : t > i
    BY <1>1 DEF Even
  <2>4. DOMAIN Flow(q).scale \subseteq Statements(q)
    BY FlowIs
  <2>5. ASSUME NEW i \in DOMAIN Flow(q).scale PROVE Flow(q).scale[i] \in Nat
    <3>1. i \in Statements(q) /\ q[i].scale # NoSite /\ Flow(q).scale[i] = q[i].scale
      BY FlowIs
    <3>2. Selves(q)[i] \in Nat
      BY <1>1, <3>1 DEF Even
    <3> QED BY <3>1, <3>2, SelfIs
  <2> QED BY <2>1, <2>2, <2>3, <2>4, <2>5 DEF Forward
<1>3. Bounds(E, Selves(q), Statements(q), Flow(q))
  <2>1. \A i \in Statements(q) : Selves(q)[i] \in Nat /\ E[i] \in Nat /\ E[i] >= Selves(q)[i]
    BY <1>1 DEF Even
  <2>2. \A i \in Statements(q) : \A t \in Flow(q).succ[i] \ Flow(q).headers : E[i] >= Selves(q)[i] + E[t]
    BY <1>1 DEF Even
  <2>3. \A i \in Statements(q) : E[i] # Selves(q)[i] =>
           \E t \in Flow(q).succ[i] \ Flow(q).headers : E[i] = Selves(q)[i] + E[t]
    BY <1>1 DEF Even
  <2> QED BY <2>1, <2>2, <2>3 DEF Bounds
<1>4. PICK V : V = [i \in Statements(q) |-> w[i].threshold]
  OBVIOUS
<1>5. Bounds(V, Selves(q), Statements(q), Flow(q))
  BY <1>2, <1>4, WeighBounds DEF Selves
<1>6. \A x \in Statements(q) : V[x] = E[x]
  BY <1>2, <1>3, <1>5, BoundsAgree
<1> QED BY <1>4, <1>6

\* Two sets of weights, the larger of which has none heavier than all others.
LEMMA SameHeaviest ==
    ASSUME NEW n \in Nat, NEW v, NEW w, DOMAIN v \in SUBSET (1..n),
           \A i \in DOMAIN v : v[i].threshold \in Nat,
           \A x \in DOMAIN w : w[x].threshold \in Nat,
           \A i \in DOMAIN v : \E x \in DOMAIN w : w[x].threshold = v[i].threshold,
           \A x \in DOMAIN w : \E i \in DOMAIN v : w[x].threshold <= v[i].threshold
    PROVE  Heaviest(w) = Heaviest(v)
<1> DEFINE A == {v[i].threshold : i \in DOMAIN v}
           B == {w[x].threshold : x \in DOMAIN w}
<1>1. Heaviest(v) = Max(A) /\ Heaviest(w) = Max(B)
  BY DEF Heaviest
<1>0. PICK S, T : S = DOMAIN v /\ T = DOMAIN w /\ S \in SUBSET (1..n)
  OBVIOUS
<1>2. CASE S = {}
  <2>1. A = {} /\ B = {}
    BY <1>0, <1>2
  <2> QED BY <1>1, <2>1
<1>3. CASE S # {}
  <2>0. S \in SUBSET (1..n)
    BY <1>0
  <2>1. PICK val : val = [i \in S |-> v[i].threshold]
    OBVIOUS
  <2>2. \A i \in S : val[i] \in Nat
    BY <1>0, <2>1
  <2>3. PICK i \in S : \A t \in S : val[t] <= val[i]
    BY <1>3, <2>0, <2>2, ImageMax
  <2>4. PICK m \in Nat : m = v[i].threshold
    BY <1>0
  <2>5. \A t \in S : v[t].threshold <= m
    BY <2>1, <2>3, <2>4
  <2>6. A \in SUBSET Nat /\ m \in A /\ \A y \in A : y <= m
    BY <1>0, <2>4, <2>5
  <2>7. B \in SUBSET Nat /\ m \in B
    BY <1>0, <2>4
  <2>8. ASSUME NEW y \in B PROVE y <= m
    <3>1. PICK x \in T : y = w[x].threshold
      BY <1>0
    <3>2. PICK t \in S : w[x].threshold <= v[t].threshold
      BY <1>0
    <3>3. y \in Nat /\ v[t].threshold \in Nat /\ v[t].threshold <= m
      BY <1>0, <2>5, <3>1
    <3> QED BY <3>1, <3>2, <3>3
  <2> HIDE DEF A, B
  <2>9. Max(A) = m
    BY <2>6, MaxOf
  <2>10. Max(B) = m
    BY <2>7, <2>8, MaxOf
  <2> QED BY <1>1, <2>9, <2>10
<1> QED BY <1>2, <1>3

LEMMA WeighedIs ==
    ASSUME NEW p, NEW n, Forward(Statements(p), Flow(p), n), NEW weight, weight = Weighed(p, Flow(p)),
           NEW w, w = weigh(Statements(p), Flow(p))
    PROVE  /\ DOMAIN weight = Statements(p)
           /\ \A i \in Statements(p) : weight[i] = w[i] /\ weight[i].threshold \in Nat
           /\ Weighs(weight, p)
<1>1. weight = [i \in Statements(p) |-> w[i]]
  BY DEF Weighed
<1>2. /\ \A i \in Statements(p) : w[i] \in [threshold : Nat, count : Nat]
      /\ Bounds([i \in Statements(p) |-> w[i].threshold], Selves(p), Statements(p), Flow(p))
  BY WeighBounds DEF Selves
<1>3. [i \in Statements(p) |-> w[i].threshold] = [i \in Statements(p) |-> weight[i].threshold]
  BY <1>1
<1> QED BY <1>1, <1>2, <1>3 DEF Weighs

\* The counterweights make equal what a statement leads to, and nothing
\* weighs more than without them.
LEMMA PatchBalances ==
    ASSUME NEW f, NEW p, Prepared(f, p)
    PROVE  CanBePatched(p)
<1>1. PICK weight : weight = Weighed(p, Flow(p))
  OBVIOUS
<1>2. PICK w : w = weigh(Statements(p), Flow(p))
  OBVIOUS
<1>3. Forward(Statements(p), Flow(p), Len(p))
  BY DEF Prepared
<1>4. /\ DOMAIN weight = Statements(p) /\ Weighs(weight, p)
      /\ \A i \in Statements(p) : weight[i].threshold \in Nat
  BY <1>1, <1>2, <1>3, WeighedIs
<1>5. Descends(f, p, weight)
  BY <1>4, WeightsDescend DEF Weighs
<1>6. PICK q : q = patch(p, weight)
  OBVIOUS
<1>7. PICK s, hd, tl : Patched(f, p, q, weight, s, hd, tl)
  BY <1>5, <1>6, PatchSpliced
<1>8. PICK E : Expected(f, p, weight, s, hd, tl, E)
  BY <1>5, <1>7, ExpectedExists
<1>9. PICK again : again = Weighed(q, Flow(q))
  OBVIOUS
<1>10. PICK v : v = weigh(Statements(q), Flow(q))
  OBVIOUS
<1>11. \A x \in Statements(q) : v[x].threshold = E[x]
  BY <1>4, <1>7, <1>8, <1>10, PatchWeighs
<1>12. DOMAIN again = Statements(q) /\ \A x \in Statements(q) : again[x].threshold = E[x]
  BY <1>9, <1>10, <1>11 DEF Weighed
<1>13. ASSUME NEW x \in Statements(q)
       PROVE  /\ Even(Statements(q), Flow(q), E, Selves(q), x)
              /\ \E i \in Statements(p) : E[x] <= weight[i].threshold
  BY <1>4, <1>7, <1>8, AllEven
<1>14. Agree(Flow(q), again)
  <2> DEFINE Subweight(t) == IF t \in Flow(q).headers THEN 0 ELSE again[t].threshold
  <2> SUFFICES ASSUME NEW x \in Statements(q), NEW t \in Flow(q).succ[x], NEW y \in Flow(q).succ[x]
               PROVE  Subweight(t) = Subweight(y)
    BY <1>12 DEF Agree
  <2>1. /\ t \in Statements(q) /\ y \in Statements(q)
        /\ (IF t \in Flow(q).headers THEN 0 ELSE E[t]) = (IF y \in Flow(q).headers THEN 0 ELSE E[y])
    BY <1>13 DEF Even
  <2> QED BY <1>12, <2>1
<1>15. Heaviest(again) = Heaviest(weight)
  <2>1. Len(p) \in Nat /\ Statements(p) \in SUBSET (1..Len(p))
    BY <1>3 DEF Forward
  <2>2. \A x \in Statements(q) : again[x].threshold \in Nat
    BY <1>12, <1>13 DEF Even
  <2>3. \A i \in Statements(p) : \E x \in Statements(q) : again[x].threshold = weight[i].threshold
    <3>1. ASSUME NEW i \in Statements(p)
          PROVE  Pos(s, hd, i) \in Statements(q) /\ E[Pos(s, hd, i)] = weight[i].threshold
      BY <1>7, <1>8, HeadersKept DEF Expected
    <3> QED BY <1>12, <3>1
  <2>4. \A x \in Statements(q) : \E i \in Statements(p) : again[x].threshold <= weight[i].threshold
    BY <1>12, <1>13
  <2>5. DOMAIN weight \in SUBSET (1..Len(p))
    BY <1>4, <2>1
  <2> QED BY <1>4, <1>12, <2>1, <2>2, <2>3, <2>4, <2>5, SameHeaviest
<1>16. StaysBalanced(q, Flow(q), weight)
  BY <1>9, <1>14, <1>15 DEF StaysBalanced
<1> QED BY <1>1, <1>6, <1>16 DEF CanBePatched, CanBeBalanced, IsBalancedBy

LEMMA JumpItem ==
    ASSUME NEW p, NEW f, Finished(f, p), NEW i \in 1..Len(p), NEW x, x = RemoveLoops(p)[i]
    PROVE  /\ x = [kind |-> x.kind, dest |-> x.dest, label |-> p[i].label, scale |-> p[i].scale]
           /\ x.kind \notin {"goto", "back"} => x.dest = p[i].dest
<1> DEFINE loop == Enclosing(p, i, Compound)
<1>1. p \in Seq(Items) /\ DOMAIN p = 1..Len(p)
  BY DEF Finished, Written, Tree
<1>2. p[i] \in Items
  BY <1>1, ElementOfSeq
<1>3. x = CASE p[i].kind = "loop"     -> [p[i] EXCEPT !.kind = "block"]
            [] p[i].kind = "break"    -> WithoutBreak(p, i)
            [] p[i].kind = "continue" -> [p[i] EXCEPT !.kind = "goto",
                                                      !.dest = Enclosing(p, i, {"loop"})]
            [] p[i].kind = "end" /\ p[loop].kind = "loop" ->
                   [p[i] EXCEPT !.kind = "back", !.dest = loop]
            [] OTHER                  -> p[i]
  BY <1>1 DEF RemoveLoops
<1> HIDE DEF loop
<1>4. WithoutBreak(p, i) = [p[i] EXCEPT !.kind = "return"]
      \/ \E d : WithoutBreak(p, i) = [p[i] EXCEPT !.kind = "goto", !.dest = d]
  BY DEF WithoutBreak
<1>5. \/ x = p[i]
      \/ \E kind : x = [p[i] EXCEPT !.kind = kind]
      \/ \E kind \in {"goto", "back"} : \E d : x = [p[i] EXCEPT !.kind = kind, !.dest = d]
  <2>1. CASE p[i].kind = "loop"
    BY <1>3, <2>1
  <2>2. CASE p[i].kind = "break"
    BY <1>3, <1>4, <2>2
  <2>3. CASE p[i].kind = "continue"
    BY <1>3, <2>3
  <2>4. CASE p[i].kind = "end" /\ p[loop].kind = "loop"
    BY <1>3, <2>4
  <2>5. CASE p[i].kind \notin {"loop", "break", "continue"} /\ ~(p[i].kind = "end" /\ p[loop].kind = "loop")
    BY <1>3, <2>5
  <2> QED BY <2>1, <2>2, <2>3, <2>4, <2>5
<1>6. p[i] = [kind |-> p[i].kind, dest |-> p[i].dest, label |-> p[i].label, scale |-> p[i].scale]
  BY <1>2 DEF Items
<1>7. ASSUME NEW kind, x = [p[i] EXCEPT !.kind = kind]
      PROVE  x = [kind |-> kind, dest |-> p[i].dest, label |-> p[i].label, scale |-> p[i].scale]
  BY <1>6, <1>7
<1>8. ASSUME NEW kind, NEW d, x = [p[i] EXCEPT !.kind = kind, !.dest = d]
      PROVE  x = [kind |-> kind, dest |-> d, label |-> p[i].label, scale |-> p[i].scale]
  BY <1>6, <1>8
<1>9. CASE x = p[i]
  BY <1>6, <1>9
<1>10. CASE \E kind : x = [p[i] EXCEPT !.kind = kind]
  BY <1>7, <1>10
<1>11. CASE \E kind \in {"goto", "back"} : \E d : x = [p[i] EXCEPT !.kind = kind, !.dest = d]
  <2>1. PICK kind \in {"goto", "back"} : \E d : x = [p[i] EXCEPT !.kind = kind, !.dest = d]
    BY <1>11
  <2>2. PICK d : x = [p[i] EXCEPT !.kind = kind, !.dest = d]
    BY <2>1
  <2>3. x = [kind |-> kind, dest |-> d, label |-> p[i].label, scale |-> p[i].scale]
    BY <1>8, <2>2
  <2>4. x.kind = kind /\ x.dest = d
    BY <2>3
  <2> QED BY <2>3, <2>4
<1> QED BY <1>5, <1>9, <1>10, <1>11

-----------------------------------------------------------------------------
(* What is given to patch *)

LEMMA LabelStep ==
    ASSUME BodyInv, LabelInv, NEW x \in Items, Write(x),
           x.kind \in Closing => Within(Compound) # 0,
           x.label # "none" => x.kind # "call" /\ Within({"switch"}) # 0
    PROVE  LabelInv'
<1> DEFINE n == Len(body)
           f == Parent(body)
           v == NextParent(f, body)
           q == Append(body, x)
           g == Extended(f, body)
<1>1. body \in Seq(Items) /\ Tree(f, body) /\ n \in Nat /\ At = n + 1
  BY DEF BodyInv, Written, Tree, At
<1>2. v = Within(Compound)
  <2>1. EmptyStmt \in Items /\ EmptyStmt.kind \notin Closing
    BY ItemType DEF EmptyStmt, Kinds, Closing
  <2> QED BY <2>1, WithinIs
<1>3. /\ Len(q) = n + 1 /\ q[n + 1] = x
      /\ \A i \in 1..n : q[i] = body[i]
  BY <1>1, AppendProperties
<1>4. Tree(g, q)
  BY <1>1, <1>2, AppendTree
<1>5. \A i \in 1..n : g[i] = f[i]
  BY <1>1 DEF Extended
<1>6. SwitchOf(q, n + 1) = Within({"switch"})
  BY <1>1, <1>2, WithinIs DEF SwitchOf
<1> HIDE DEF n, f, v, q, g
<1>7. \A i \in 1..n : SwitchOf(q, i) = SwitchOf(body, i)
  <2>1. PICK kinds : kinds = {"switch"}
    OBVIOUS
  <2>2. n <= Len(body) /\ n <= Len(q)
    BY <1>1, <1>3 DEF n
  <2>3. \A i \in 1..(n - 1) : body[i].kind \in kinds <=> q[i].kind \in kinds
    <3>1. \A i \in 1..(n - 1) : i \in 1..n
      BY <1>1
    <3> QED BY <1>3, <3>1
  <2>4. \A i \in 1..n : f[i] = g[i]
    BY <1>5
  <2>5. \A i \in 1..n : Enclosing(body, i, kinds) = Enclosing(q, i, kinds)
    BY <1>1, <1>4, <2>2, <2>3, <2>4, SameEnclosing
  <2> QED BY <2>1, <2>5 DEF SwitchOf
<1>8. \A i \in 1..n : body[i].label # "none" => body[i].kind # "call" /\ SwitchOf(body, i) # 0
  BY DEF LabelInv, Labelled, n
<1>9. \A i \in 1..(n + 1) : i = n + 1 \/ i \in 1..n
  BY <1>1
<1>10. Labelled(q)
  BY <1>3, <1>6, <1>7, <1>8, <1>9 DEF Labelled
<1>11. body' = q
  BY DEF Write, q
<1> QED BY <1>10, <1>11 DEF LabelInv

LEMMA InitLabel == Init => LabelInv
<1> SUFFICES ASSUME Init PROVE LabelInv
  OBVIOUS
<1>1. Len(body) = 0
  BY EmptySeq DEF Init
<1> QED BY <1>1 DEF LabelInv, Labelled

LEMMA NextLabel == BodyInv /\ LabelInv /\ [Next]_body => LabelInv'
<1> SUFFICES ASSUME BodyInv, LabelInv, [Next]_body PROVE LabelInv'
  OBVIOUS
<1>1. CASE Next
  <2>1. PICK x : Fits(x) /\ Write(x)
    BY <1>1, NextWrites
  <2> QED BY <2>1, LabelStep DEF Fits
<1>2. CASE UNCHANGED body
  BY <1>2 DEF LabelInv
<1> QED BY <1>1, <1>2

LEMMA SitedKeeps ==
    ASSUME BodyInv, PlainInv, LabelInv, RoomInv, Complete, NEW sites \in MaybeSites,
           Size \in Nat, \A i \in 1..Size : Weights[i] \in Nat,
           NEW f, f = Parent(body), NEW p, p = Sited(sites)
    PROVE  Finished(f, p) /\ Plain(f, p) /\ Labelled(p) /\ Scaled(p)
<1>1. Finished(f, body) /\ Plain(f, body)
  BY CompleteIsFinished DEF PlainInv
<1>2. Tree(f, body) /\ Len(body) \in Nat /\ DOMAIN body = 1..Len(body)
  BY <1>1 DEF Finished, Written, Tree
<1>3. sites \in SUBSET DOMAIN body /\ \A i \in sites : Weights[i] \in Nat /\ body[i].kind = "instr"
  <2>1. \A i \in sites : Weights[i] \in Nat
    BY SitedFlow
  <2> QED BY <2>1 DEF MaybeSites
<1>4. /\ Finished(f, p) /\ DOMAIN p = 1..Len(body)
      /\ \A i \in 1..Len(body) :
            /\ p[i].kind = body[i].kind /\ p[i].dest = body[i].dest /\ p[i].label = body[i].label
            /\ p[i].scale = IF i \in sites THEN Weights[i] ELSE body[i].scale
  <2>1. \A i \in sites : Weights[i] \in Int
    BY <1>3
  <2> QED BY <1>1, <1>2, <1>3, <2>1, SitedFinished
<1>5. Tree(f, p) /\ Len(p) = Len(body)
  <2>1. Tree(f, p) /\ Len(p) \in Nat /\ p \in Seq(Items)
    BY <1>4 DEF Finished, Written, Tree
  <2> QED BY <1>2, <1>4, <2>1, LengthIs
<1>6. Plain(f, p)
  BY <1>1, <1>4, <1>5 DEF Plain
<1>7. \A i \in 1..Len(body) : SwitchOf(p, i) = SwitchOf(body, i)
  <2>1. PICK kinds : kinds = {"switch"}
    OBVIOUS
  <2>2. PICK m \in Nat : m = Len(body)
    BY <1>2
  <2>3. m <= Len(body) /\ m <= Len(p)
    BY <1>5, <2>2
  <2>4. \A i \in 1..(m - 1) : body[i].kind \in kinds <=> p[i].kind \in kinds
    <3>1. \A i \in 1..(m - 1) : i \in 1..Len(body)
      BY <2>2
    <3> QED BY <1>4, <3>1
  <2>5. \A i \in 1..m : Enclosing(body, i, kinds) = Enclosing(p, i, kinds)
    BY <1>2, <1>5, <2>3, <2>4, SameEnclosing
  <2> QED BY <2>1, <2>2, <2>5 DEF SwitchOf
<1>8. Labelled(p)
  BY <1>4, <1>5, <1>7 DEF Labelled, LabelInv
<1>9. Scaled(p)
  <2>1. \A i \in 1..Len(body) : body[i].scale = NoSite
    BY <1>2 DEF RoomInv
  <2> QED BY <1>3, <1>4, <1>5, <2>1 DEF Scaled
<1> QED BY <1>4, <1>6, <1>8, <1>9

LEMMA NewLabels ==
    /\ EmptyStmt.kind = "instr" /\ EmptyStmt.label = "none" /\ EmptyStmt.scale = NoSite
    /\ DefaultStmt.kind = "instr" /\ DefaultStmt.label = "default" /\ DefaultStmt.scale = NoSite
    /\ BreakStmt.kind = "break" /\ BreakStmt.label = "none" /\ BreakStmt.scale = NoSite
    /\ BlockStmt.kind = "block" /\ BlockStmt.label = "none" /\ BlockStmt.scale = NoSite
    /\ End.kind = "end" /\ End.label = "none" /\ End.scale = NoSite
    /\ \A dest : SkipTo(dest).kind = "goto" /\ SkipTo(dest).label = "none" /\ SkipTo(dest).scale = NoSite
BY DEF EmptyStmt, DefaultStmt, BreakStmt, BlockStmt, End, SkipTo, Item

\* Where an item goes, its switch does too.
LEMMA SwitchKept ==
    ASSUME NEW f, NEW p, NEW q, NEW W, NEW s, NEW hd, NEW tl, Layout(f, p, q, W, s, hd, tl),
           NEW i \in 1..Len(p)
    PROVE  /\ SwitchOf(q, Pos(s, hd, i)) = Pos(s, hd, SwitchOf(p, i))
           /\ SwitchOf(p, i) # 0 => SwitchOf(q, Pos(s, hd, i)) # 0
<1>1. PICK kinds : kinds = {"switch"}
  OBVIOUS
<1>2. Tree(f, p) /\ Closed(f, p) /\ "block" \notin kinds /\ kinds \subseteq Compound
  BY <1>1 DEF Layout, Compound
<1>3. Enclosing(q, Pos(s, hd, i), kinds) = Pos(s, hd, Enclosing(p, i, kinds))
  BY <1>2, LayoutEnclosing
<1>4. SwitchOf(q, Pos(s, hd, i)) = Pos(s, hd, SwitchOf(p, i))
  BY <1>1, <1>3 DEF SwitchOf
<1>5. ASSUME SwitchOf(p, i) # 0 PROVE Pos(s, hd, SwitchOf(p, i)) # 0
  <2>1. Enclosing(p, i, kinds) \in 0..(i - 1)
    BY <1>2, EnclosingIs
  <2>2. SwitchOf(p, i) \in 1..Len(p)
    <3>1. Len(p) \in Nat
      BY <1>2 DEF Tree
    <3> QED BY <1>1, <1>5, <2>1, <3>1 DEF SwitchOf
  <2>3. Pos(s, hd, SwitchOf(p, i)) \in 1..Len(q)
    BY <2>2, LayoutStatement
  <2> QED BY <2>3
<1> QED BY <1>4, <1>5

\* A default that is put behind a switch is a case of it.
LEMMA DefaultBehind ==
    ASSUME NEW f, NEW p, NEW q, NEW W, NEW s, NEW hd, NEW tl, Layout(f, p, q, W, s, hd, tl),
           NEW i \in 1..Len(p), p[i].kind = "switch", NEW k \in 1..tl[i]
    PROVE  SwitchOf(q, Pos(s, hd, i) + k) = Pos(s, hd, i) /\ Pos(s, hd, i) # 0
<1>1. PICK g : g = NewParent(f, p, W, s, hd)
  OBVIOUS
<1>2. Tree(g, q)
  BY <1>1, LayoutTree
<1>3. PICK x : x = Pos(s, hd, i) + k
  OBVIOUS
<1>4. PICK kinds : kinds = {"switch"}
  OBVIOUS
<1>5. x \in 1..Len(q) /\ Pos(s, hd, i) \in 1..Len(q) /\ Pos(s, hd, i) # 0
  <2>1. Pos(s, hd, i) \in 1..Len(q)
    BY LayoutStatement
  <2>2. x \in 1..Len(q)
    BY <1>3, LayoutPlaces
  <2> QED BY <2>1, <2>2
<1>6. g[x] = Pos(s, hd, i) /\ q[Pos(s, hd, i)].kind = "switch"
  BY <1>1, <1>3, PieceParents DEF Compound
<1>7. Enclosing(q, x, kinds) = g[x]
  BY <1>2, <1>4, <1>5, <1>6, EnclosingStep
<1> QED BY <1>3, <1>4, <1>5, <1>6, <1>7 DEF SwitchOf

LEMMA RewrittenKeeps ==
    ASSUME NEW p, NEW f, NEW q, NEW W, NEW s, NEW hd, NEW tl, NEW before, NEW after,
           p \in Seq(Items), Shaped(f, p, W, before, after), Rewritten(f, p, q, W, s, hd, tl, after),
           Behaved(p, after), Labelled(p), Scaled(p)
    PROVE  Labelled(q) /\ Scaled(q)
<1>1. Layout(f, p, q, W, s, hd, tl) /\ DOMAIN p = 1..Len(p)
  BY DEF Rewritten, Layout, Tree
<1>2. ASSUME NEW x \in 1..Len(q)
      PROVE  /\ q[x].label # "none" => q[x].kind # "call" /\ SwitchOf(q, x) # 0
             /\ q[x].scale # NoSite => q[x].kind = "instr" /\ q[x].scale \in Nat
  <2>1. PICK i \in 1..Len(p) : Came(f, p, q, W, s, hd, tl, x, i)
    BY CameFrom
  <2>2. p[i] \in Items
    BY <1>1, ElementOfSeq
  <2>3. CASE /\ x = Pos(s, hd, i)
             /\ q[x] = [p[i] EXCEPT !.dest = IF p[i].kind = "goto" THEN Lead(s, p[i].dest) ELSE 0]
    <3>1. q[x].kind = p[i].kind /\ q[x].label = p[i].label /\ q[x].scale = p[i].scale
      BY <2>2, <2>3 DEF Items
    <3>2. p[i].label # "none" => SwitchOf(q, x) # 0
      BY <1>1, <2>3, SwitchKept DEF Labelled
    <3> QED BY <3>1, <3>2 DEF Labelled, Scaled
  <2>4. CASE /\ p[i].kind \in Compound \cup {"else"} /\ \E k \in 1..tl[i] : x = Pos(s, hd, i) + k
             /\ q[x] \in {EmptyStmt, DefaultStmt}
    <3>1. PICK k \in 1..tl[i] : x = Pos(s, hd, i) + k
      BY <2>4
    <3>2. CASE q[x] = DefaultStmt
      <4>1. k \in 1..Len(after[i]) /\ after[i][k] = q[x]
        BY <3>1 DEF Rewritten
      <4>2. p[i].kind = "switch"
        BY <3>2, <4>1 DEF Behaved
      <4>3. SwitchOf(q, x) # 0
        BY <1>1, <3>1, <4>2, DefaultBehind
      <4> QED BY <3>2, <4>3, NewLabels
    <3>3. CASE q[x] = EmptyStmt
      BY <3>3, NewLabels
    <3> QED BY <2>4, <3>2, <3>3
  <2>5. CASE q[x] \in {BlockStmt, BreakStmt, End}
    BY <2>5, NewLabels
  <2>6. CASE q[x] = SkipTo(Pos(s, hd, i))
    BY <2>6, NewLabels
  <2> QED BY <2>1, <2>3, <2>4, <2>5, <2>6 DEF Came
<1> QED BY <1>2 DEF Labelled, Scaled

\* Defaults stay where they are.
LEMMA DefaultsKept ==
    ASSUME NEW p, NEW f, NEW q, NEW W, NEW s, NEW hd, NEW tl, NEW before, NEW after,
           p \in Seq(Items), Shaped(f, p, W, before, after), Rewritten(f, p, q, W, s, hd, tl, after),
           \A i \in 1..Len(p) : p[i].kind = "switch" =>
               HasDefault(p, i) \/ (1 \in 1..tl[i] /\ after[i][1] = DefaultStmt)
    PROVE  Defaulted(q)
<1>1. Layout(f, p, q, W, s, hd, tl) /\ DOMAIN p = 1..Len(p) /\ DOMAIN q = 1..Len(q)
  BY DEF Rewritten, Layout, Tree
<1>2. ASSUME NEW x \in 1..Len(q), q[x].kind = "switch"
      PROVE  HasDefault(q, x)
  <2>1. PICK i \in 1..Len(p) : Came(f, p, q, W, s, hd, tl, x, i)
    BY CameFrom
  <2>2. x = Pos(s, hd, i)
    <3>1. q[x] \notin {BlockStmt, BreakStmt, End, EmptyStmt, DefaultStmt} /\ q[x] # SkipTo(Pos(s, hd, i))
      BY <1>2, NewLabels
    <3> QED BY <2>1, <3>1 DEF Came
  <2>3. p[i].kind = "switch"
    BY <1>1, <1>2, <2>2 DEF Layout
  <2>4. CASE HasDefault(p, i)
    <3>1. PICK d \in Cases(p, i) : p[d].label = "default"
      BY <2>4 DEF HasDefault
    <3>2. d \in Statements(p) /\ SwitchOf(p, d) = i
      BY DEF Cases, SwitchOf
    <3>3. d \in 1..Len(p) /\ IsStatement(p, d)
      BY <1>1, <3>2 DEF Statements, IsStatement
    <3>4. PICK y : y = Pos(s, hd, d)
      OBVIOUS
    <3>5. y \in Statements(q)
      <4>1. IsStatement(q, y)
        BY <1>1, <3>3, <3>4, LayoutStatement
      <4> QED BY <4>1 DEF Statements, IsStatement
    <3>6. q[y].label = "default"
      <4>1. q[y] = [p[d] EXCEPT !.dest = IF p[d].kind = "goto" THEN Lead(s, p[d].dest) ELSE 0]
        BY <3>3, <3>4 DEF Rewritten
      <4>2. p[d] \in Items
        BY <3>3, ElementOfSeq
      <4> QED BY <3>1, <4>1, <4>2 DEF Items
    <3>7. SwitchOf(q, y) = x
      BY <1>1, <2>2, <3>2, <3>3, <3>4, SwitchKept
    <3>8. y \in Cases(q, x)
      BY <3>5, <3>6, <3>7 DEF Cases, SwitchOf
    <3> QED BY <3>6, <3>8 DEF HasDefault
  <2>5. CASE 1 \in 1..tl[i] /\ after[i][1] = DefaultStmt
    <3>1. PICK y : y = Pos(s, hd, i) + 1
      OBVIOUS
    <3>2. q[y] = DefaultStmt
      BY <2>5, <3>1 DEF Rewritten
    <3>3. y \in 1..Len(q)
      BY <1>1, <2>5, <3>1, LayoutPlaces
    <3>4. SwitchOf(q, y) = x
      BY <1>1, <2>2, <2>3, <2>5, <3>1, DefaultBehind
    <3>5. y \in Statements(q) /\ q[y].label = "default"
      BY <1>1, <3>2, <3>3, NewLabels DEF Statements, IsStatement
    <3>6. y \in Cases(q, x)
      BY <3>4, <3>5 DEF Cases, SwitchOf
    <3> QED BY <3>5, <3>6 DEF HasDefault
  <2> QED BY <2>3, <2>4, <2>5
<1> QED BY <1>2 DEF Defaulted

\* A body for prepatchSplits.
LEMMA DefaultsPrepared ==
    ASSUME NEW p, NEW f, Finished(f, p), Plain(f, p), Labelled(p), Scaled(p), NEW q, q = addDefaultCases(p)
    PROVE  \E g : Finished(g, q) /\ Plain(g, q) /\ Labelled(q) /\ Scaled(q) /\ Defaulted(q)
<1>1. PICK before, after, s, hd, tl :
              /\ Shaped(f, p, {}, before, after) /\ Rewritten(f, p, q, {}, s, hd, tl, after)
              /\ \A i \in 1..Len(p) :
                    after[i] = IF p[i].kind = "switch" /\ ~HasDefault(p, i)
                               THEN <<DefaultStmt, BreakStmt>> ELSE <<>>
  BY DefaultsRewritten
<1>2. PICK g : g = NewParent(f, p, {}, s, hd)
  OBVIOUS
<1>3. Finished(g, q) /\ Plain(g, q)
  BY <1>1, <1>2, RewrittenFinished
<1>4. p \in Seq(Items)
  BY DEF Finished, Written
<1>5. \A i \in 1..Len(p) : tl[i] = Len(after[i])
  BY <1>1 DEF Rewritten
<1>6. Behaved(p, after)
  <2> SUFFICES ASSUME NEW i \in 1..Len(p), NEW k \in 1..Len(after[i]), after[i][k] = DefaultStmt
               PROVE  p[i].kind = "switch"
    BY DEF Behaved
  <2>1. Len(<< >>) = 0
    OBVIOUS
  <2>2. after[i] # << >>
    BY <2>1
  <2> QED BY <1>1, <2>2
<1>7. \A i \in 1..Len(p) : p[i].kind = "switch" =>
          HasDefault(p, i) \/ (1 \in 1..tl[i] /\ after[i][1] = DefaultStmt)
  <2> SUFFICES ASSUME NEW i \in 1..Len(p), p[i].kind = "switch", ~HasDefault(p, i)
               PROVE  1 \in 1..tl[i] /\ after[i][1] = DefaultStmt
    OBVIOUS
  <2>1. after[i] = <<DefaultStmt, BreakStmt>>
    BY <1>1
  <2>2. ASSUME NEW b, NEW c PROVE Len(<<b, c>>) = 2 /\ <<b, c>>[1] = b
    OBVIOUS
  <2>3. tl[i] = 2 /\ after[i][1] = DefaultStmt
    BY <1>5, <2>1, <2>2
  <2> QED BY <2>3
<1>8. Labelled(q) /\ Scaled(q)
  BY <1>1, <1>4, <1>6, RewrittenKeeps
<1>9. Defaulted(q)
  BY <1>1, <1>4, <1>7, DefaultsKept
<1> QED BY <1>3, <1>8, <1>9

\* A body for RemoveLoops and patch.
LEMMA SplitsPrepared ==
    ASSUME NEW p, NEW f, Finished(f, p), Plain(f, p), Labelled(p), Scaled(p), Defaulted(p),
           NEW q, q = prepatchSplits(p)
    PROVE  \E g : Finished(g, q) /\ Plain(g, q) /\ Labelled(q) /\ Scaled(q) /\ Defaulted(q) /\ Roomy(q)
<1>1. PICK W : W = Fallthroughs(p)
  OBVIOUS
<1>2. PICK s, hd, tl : Prepatched(f, p, q, W, s, hd, tl)
  BY <1>1, SplitsPrepatched
<1>3. PICK before, after :
        /\ Shaped(f, p, W, before, after) /\ Rewritten(f, p, q, W, s, hd, tl, after)
        /\ \A i \in 1..Len(p) :
              /\ p[i].kind \in {"if", "else"} => after[i] = <<EmptyStmt>>
              /\ p[i].kind \in {"switch", "loop", "block"} => after[i] = <<>>
  BY <1>2 DEF Prepatched
<1>4. PICK g : g = NewParent(f, p, W, s, hd)
  OBVIOUS
<1>5. Finished(g, q) /\ Plain(g, q)
  BY <1>3, <1>4, RewrittenFinished
<1>6. p \in Seq(Items)
  BY DEF Finished, Written
<1>7. Behaved(p, after)
  <2> SUFFICES ASSUME NEW i \in 1..Len(p), NEW k \in 1..Len(after[i]) PROVE after[i][k] # DefaultStmt
    BY DEF Behaved
  <2>1. /\ Len(<< >>) = 0
        /\ \A x : Len(<<x>>) = 1 /\ <<x>>[1] = x
    OBVIOUS
  <2>2. after[i] = << >> \/ after[i] = <<EmptyStmt>> \/ after[i] = <<End>>
    <3>1. CASE p[i].kind \in Compound \cup {"else"}
      BY <1>3, <3>1 DEF Compound
    <3>2. CASE p[i].kind \notin Compound \cup {"else"}
      BY <1>3, <3>2 DEF Shaped
    <3> QED BY <3>1, <3>2
  <2>3. PICK v : v = after[i]
    OBVIOUS
  <2>7. PICK x \in {EmptyStmt, End} : v = << >> \/ v = <<x>>
    BY <2>2, <2>3
  <2>4. v = <<x>> /\ k = 1
    <3>1. k \in 1..Len(v)
      BY <2>3
    <3>2. Len(v) = 0 \/ (v = <<x>> /\ Len(v) = 1)
      BY <2>1, <2>7
    <3>3. PICK m : m = Len(v)
      OBVIOUS
    <3>4. m = 0 \/ (m = 1 /\ v = <<x>>)
      BY <3>2, <3>3
    <3>5. k \in 1..m
      BY <3>1, <3>3
    <3>6. m = 1 /\ k = 1
      BY <3>4, <3>5
    <3> QED BY <3>4, <3>6
  <2>5. v[k] = x
    BY <2>1, <2>4
  <2>6. x.label = "none"
    BY NewLabels
  <2> QED BY <2>3, <2>5, <2>6, NewLabels
<1>8. Labelled(q) /\ Scaled(q)
  BY <1>3, <1>6, <1>7, RewrittenKeeps
<1>9. Defaulted(q)
  <2>1. \A i \in 1..Len(p) : p[i].kind = "switch" =>
            HasDefault(p, i) \/ (1 \in 1..tl[i] /\ after[i][1] = DefaultStmt)
    BY DEF Defaulted
  <2> QED BY <1>3, <1>6, <2>1, DefaultsKept
<1>10. Roomy(q)
  <2> SUFFICES ASSUME NEW x \in 1..Len(q), q[x].kind \in {"if", "else"}
               PROVE  x + 1 \in 1..Len(q) /\ q[x + 1].kind = "instr" /\ q[x + 1].label = "none"
    BY DEF Roomy
  <2>1. PICK i \in 1..Len(p) : x = Pos(s, hd, i)
    <3>1. PICK i \in 1..Len(p) :
                 \/ x = Pos(s, hd, i)
                 \/ q[x].kind \in {"block", "goto", "end", "instr"}
      <4>1. \E i \in 1..Len(p) :
                 \/ x = Pos(s, hd, i)
                 \/ i \in W /\ x = Lead(s, i) /\ q[x].kind = "block"
                 \/ q[x].kind \in {"goto", "end"}
                 \/ p[i].kind \in {"if", "else"} /\ x = Pos(s, hd, i) + 1 /\ q[x].kind = "instr"
        BY <1>2, <1>5, PrepatchedItems
      <4> QED BY <4>1
    <3> QED BY <3>1
  <2>2. p[i].kind \in {"if", "else"}
    BY <1>2, <2>1, PrepatchedItems
  <2> QED BY <1>2, <2>1, <2>2, PrepatchedItems
<1> QED BY <1>5, <1>8, <1>9, <1>10

\* RemoveLoops makes of it what patch expects, unless patch gives up on it.
LEMMA JumpsPrepared ==
    ASSUME NEW p, NEW f, Finished(f, p), Plain(f, p), Labelled(p), Scaled(p), Defaulted(p), Roomy(p),
           NEW q, q = RemoveLoops(p), ~JumpsLost(q),
           \A i \in Statements(q), j \in Statements(q) \ Gotos(q) :
              IsCase(q, i) /\ i \in build(q)[j] => j = SwitchOf(q, i)
    PROVE  Prepared(f, q)
<1>1. p \in Seq(Items) /\ Tree(f, p) /\ Closed(f, p) /\ Len(p) \in Nat /\ DOMAIN p = 1..Len(p)
  BY DEF Finished, Written, Tree
<1>2. PICK n \in Nat : n = Len(p)
  BY <1>1
<1>3. /\ DOMAIN q = 1..n /\ Len(q) = n
      /\ \A i \in 1..n : Replaces(f, p, i, q[i])
  BY <1>2, JumpsReplace
<1>4. /\ Tree(f, q) /\ Closed(f, q)
      /\ \A i \in 1..n : /\ q[i].kind \in Compound <=> p[i].kind \in Compound
                         /\ q[i].kind = "else" <=> p[i].kind = "else"
                         /\ q[i].kind = "if" <=> p[i].kind = "if"
                         /\ q[i].kind = "switch" <=> p[i].kind = "switch"
                         /\ q[i].kind \in JumpKinds
  BY <1>2, JumpsTree DEF JumpKinds
<1>5. \A i \in 1..n : p[i] \in Items /\ p[i].kind \in Kinds
  <2>1. \A i \in 1..n : p[i] \in Items
    BY <1>1, <1>2, ElementOfSeq
  <2> QED BY <2>1 DEF Items
<1>6. Forward(Statements(q), Flow(q), n)
  <2>1. \A i \in DOMAIN p : p[i].scale = NoSite \/ p[i].scale \in Nat
    BY <1>1 DEF Scaled
  <2> QED BY <1>2, <2>1, FlowIsForward
<1>7. \A i \in 1..n : SwitchOf(q, i) = SwitchOf(p, i)
  <2>1. PICK kinds : kinds = {"switch"}
    OBVIOUS
  <2>2. \A i \in 1..(n - 1) : q[i].kind \in kinds <=> p[i].kind \in kinds
    <3>1. \A i \in 1..(n - 1) : i \in 1..n
      OBVIOUS
    <3> QED BY <1>4, <2>1, <3>1
  <2>3. n <= Len(q) /\ n <= Len(p)
    BY <1>2, <1>3
  <2>4. \A i \in 1..n : Enclosing(q, i, kinds) = Enclosing(p, i, kinds)
    BY <1>1, <1>4, <2>2, <2>3, SameEnclosing
  <2> QED BY <2>1, <2>4 DEF SwitchOf
<1>8. ASSUME NEW i \in 1..n, q[i].kind \in {"goto", "back"}
      PROVE  q[i].dest \in Statements(q) /\ q[i].dest \in 1..n
  <2>1. q[i].dest \in Statements(p)
    BY <1>2, <1>8, GotoIs
  <2>2. q[i].dest \in Statements(q)
    BY <2>1, StatementsKept
  <2> QED BY <1>3, <2>2 DEF Statements
<1>9. ASSUME NEW i \in 1..n
      PROVE  q[i] \in [kind : JumpKinds, dest : 0..n, label : {"none", "case", "default"}, scale : Int]
  <2>1. PICK x : x = q[i]
    OBVIOUS
  <2>2. /\ x = [kind |-> x.kind, dest |-> x.dest, label |-> p[i].label, scale |-> p[i].scale]
        /\ x.kind \notin {"goto", "back"} => x.dest = p[i].dest
    BY <1>2, <2>1, JumpItem
  <2>3. p[i].label \in {"none", "case", "default"} /\ p[i].scale \in Int
    BY <1>5 DEF Items
  <2>4. x.kind \in JumpKinds
    BY <1>4, <2>1
  <2>5. x.dest \in 0..n
    <3>1. CASE x.kind \in {"goto", "back"}
      <4>1. x.dest \in 1..n
        BY <1>8, <2>1, <3>1
      <4> QED BY <4>1
    <3>2. CASE x.kind \notin {"goto", "back"}
      <4>1. p[i].kind # "goto"
        <5>1. p[i].kind = "goto" => x = p[i]
          BY <1>3, <2>1 DEF Replaces
        <5> QED BY <3>2, <5>1
      <4>2. x.dest = 0
        BY <1>2, <2>2, <3>2, <4>1 DEF Plain
      <4> QED BY <4>2
    <3> QED BY <3>1, <3>2
  <2> QED BY <2>1, <2>2, <2>3, <2>4, <2>5
<1>10. ASSUME NEW i \in 1..n, q[i].label # "none"
       PROVE  q[i].kind \in {"instr", "return", "if", "switch", "block"} /\ SwitchOf(q, i) # 0
  <2>1. p[i].label # "none" /\ Replaces(f, p, i, q[i])
    BY <1>3, <1>10 DEF Replaces
  <2>2. p[i].kind # "call" /\ SwitchOf(p, i) # 0
    BY <1>2, <2>1 DEF Labelled
  <2>3. p[i].kind \notin {"else", "end"}
    BY <1>2, <2>1 DEF Finished, Written
  <2>4. i \in Statements(p) /\ i \in Statements(q)
    <3>1. i \in Statements(p)
      BY <1>1, <1>2, <2>3 DEF Statements, IsStatement
    <3> QED BY <3>1, StatementsKept
  <2>5. q[i].kind \notin {"goto", "back"}
    BY <1>3, <1>10, <2>4 DEF JumpsLost, Gotos, IsCase, Statements
  <2>6. q[i].kind \in {"instr", "return", "if", "switch", "block"}
    <3>1. q[i].kind \in JumpKinds /\ q[i].kind \notin {"goto", "back", "else", "end"}
      BY <1>4, <2>4, <2>5 DEF Statements, IsStatement
    <3>2. q[i].kind # "call"
      BY <1>5, <2>1, <2>2 DEF Replaces, Kinds
    <3> QED BY <3>1, <3>2 DEF JumpKinds
  <2> QED BY <1>7, <2>2, <2>6
<1>11. ASSUME NEW i \in 1..n, q[i].scale # NoSite PROVE q[i].kind = "instr"
  <2>1. p[i].scale # NoSite /\ Replaces(f, p, i, q[i])
    BY <1>3, <1>11 DEF Replaces
  <2>2. p[i].kind = "instr"
    BY <1>2, <2>1 DEF Scaled
  <2> QED BY <2>1, <2>2 DEF Replaces
<1>12. ASSUME NEW i \in 1..n, q[i].kind \in {"if", "else"}
       PROVE  i + 1 \in 1..n /\ q[i + 1].kind = "instr" /\ q[i + 1].label = "none"
  <2>1. i + 1 \in 1..n /\ p[i + 1].kind = "instr" /\ p[i + 1].label = "none"
    BY <1>2, <1>4, <1>12 DEF Roomy
  <2>2. Replaces(f, p, i + 1, q[i + 1])
    BY <1>3, <2>1
  <2> QED BY <2>1, <2>2 DEF Replaces
<1>13. ASSUME NEW i \in 1..n, q[i].kind = "if"
       PROVE  /\ ElseOf(q, i) \in (i + 1)..n
              /\ q[ElseOf(q, i)].kind = "else" /\ f[ElseOf(q, i)] = i
  <2>1. PICK e : e = ElseOf(p, i)
    OBVIOUS
  <2>2. e \in (i + 1)..n /\ p[e].kind = "else" /\ f[e] = i /\ ElseOf(q, i) = e
    BY <1>2, <1>4, <1>13, <2>1, ElseIs
  <2>3. e \in 1..n
    BY <2>2
  <2> QED BY <1>4, <2>2, <2>3
<1>14. ASSUME NEW i \in 1..n, q[i].kind = "else"
       PROVE  /\ f[i] # 0 /\ q[f[i]].kind = "if"
              /\ \A k \in 1..n : q[k].kind = "else" /\ f[k] = f[i] => k = i
  <2>1. p[i].kind = "else"
    BY <1>4, <1>14
  <2>2. f[i] # 0 /\ p[f[i]].kind = "if"
    BY <1>2, <2>1 DEF Finished, Written
  <2>3. f[i] \in 1..n
    <3>1. f[i] \in 0..(i - 1)
      BY <1>1, <1>2 DEF Tree
    <3> QED BY <2>2, <3>1
  <2>4. \A k \in 1..n : p[k].kind = "else" /\ f[k] = f[i] => k = i
    BY <1>2, <2>1 DEF Plain
  <2> QED BY <1>4, <2>2, <2>3, <2>4
<1>15. ASSUME NEW i \in 1..n, q[i].kind = "switch" PROVE HasDefault(q, i)
  <2>1. HasDefault(p, i)
    BY <1>2, <1>4, <1>15 DEF Defaulted
  <2> QED BY <2>1, CasesKept
<1>16. ASSUME NEW i \in Statements(q), NEW j \in Statements(q),
              q[i].label # "none", i \in Links(q, j), q[j].kind \notin {"goto", "back"}
       PROVE  j = SwitchOf(q, i)
  <2>1. i \in build(q)[j]
    <3>1. i # 0
      BY <1>3 DEF Statements
    <3> QED BY <1>16, <3>1 DEF build
  <2>2. IsCase(q, i) /\ j \notin Gotos(q)
    BY <1>3, <1>16 DEF IsCase, Gotos, Statements
  <2> QED BY <2>1, <2>2
<1> QED BY <1>3, <1>4, <1>6, <1>8, <1>9, <1>10, <1>11, <1>12, <1>13, <1>14, <1>15, <1>16 DEF Prepared

\* Wherever the sites are and whatever they weigh, the counterweights that patch
\* adds make the successors of every statement weigh the same, and make no
\* region heavier: the assertions of patch and of the second weighing hold for
\* every body that patch does not give up on.
THEOREM Balancing == Spec => []BalancedPathsAgree
<1> USE WeightsAssumption
<1>1. BodyInv /\ PlainInv /\ LabelInv /\ RoomInv => BalancedPathsAgree
  <2> SUFFICES ASSUME BodyInv, PlainInv, LabelInv, RoomInv, Complete, NEW sites \in MaybeSites,
                      ~JumpsLost(RemoveLoops(prepatch(Sited(sites))))
               PROVE  CanBePatched(RemoveLoops(prepatch(Sited(sites))))
    BY DEF BalancedPathsAgree, CanBePatched
  <2>1. PICK p, f : p = Sited(sites) /\ f = Parent(body)
    OBVIOUS
  <2>2. Finished(f, p) /\ Plain(f, p) /\ Labelled(p) /\ Scaled(p)
    BY <2>1, SitedKeeps DEF WeightsAssumption
  <2>3. PICK a : a = addDefaultCases(p)
    OBVIOUS
  <2>4. PICK fa : Finished(fa, a) /\ Plain(fa, a) /\ Labelled(a) /\ Scaled(a) /\ Defaulted(a)
    BY <2>2, <2>3, DefaultsPrepared
  <2>5. PICK b : b = prepatchSplits(a)
    OBVIOUS
  <2>6. PICK fb : Finished(fb, b) /\ Plain(fb, b) /\ Labelled(b) /\ Scaled(b) /\ Defaulted(b) /\ Roomy(b)
    BY <2>4, <2>5, SplitsPrepared
  <2>7. PICK q : q = RemoveLoops(b)
    OBVIOUS
  <2>8. q = RemoveLoops(prepatch(Sited(sites)))
    BY <2>1, <2>3, <2>5, <2>7 DEF prepatch
  <2>9. \A i \in Statements(q), j \in Statements(q) \ Gotos(q) :
           IsCase(q, i) /\ i \in build(q)[j] => j = SwitchOf(q, i)
    BY <2>4, <2>5, <2>7, CasesEntered
  <2>10. Prepared(fb, q)
    BY <2>6, <2>7, <2>8, <2>9, JumpsPrepared
  <2> QED BY <2>8, <2>10, PatchBalances
<1>2. Init => BodyInv /\ PlainInv /\ LabelInv /\ RoomInv
  BY InitBody, InitPlain, InitLabel, InitRoom DEF WeightsAssumption
<1>3. (BodyInv /\ PlainInv /\ LabelInv /\ RoomInv) /\ [Next]_body =>
          (BodyInv /\ PlainInv /\ LabelInv /\ RoomInv)'
  BY NextBody, NextPlain, NextLabel, NextRoom DEF WeightsAssumption
<1> QED BY <1>1, <1>2, <1>3, PTL DEF Spec
=============================================================================
