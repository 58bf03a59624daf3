-------------------------- MODULE PtHashmapProofs --------------------------
(***************************************************************************)
(* Proofs about PtHashmap, for every number of buckets and tables and      *)
(* every way in which tables collide.                                      *)
(***************************************************************************)
EXTENDS PtHashmap, NaturalsInduction, WellFoundedInduction, TLAPS

-----------------------------------------------------------------------------
(* Induction and recursion *)

\* A set of numbers that is not empty has a least one.
LEMMA LeastExists ==
  ASSUME NEW S, S \subseteq Nat, S # {}
  PROVE  \E x \in S : \A y \in S : x <= y
<1>. DEFINE R == OpToRel(<, Nat)
<1>1. \E x \in S : \A y \in S : ~(<<y, x>> \in R)
  <2>1. IsWellFoundedOn(R, Nat)
    BY NatLessThanWellFounded
  <2>. HIDE DEF R
  <2>. QED
    BY <2>1, WFMin
<1>2. PICK x \in S : \A y \in S : ~(<<y, x>> \in R)
  BY <1>1
<1>3. ASSUME NEW y \in S PROVE x <= y
  <2>1. ~(y < x)
    BY <1>2 DEF OpToRel
  <2>. QED
    BY <2>1
<1>. QED
  BY <1>3

\* A set of numbers that holds 0 and is closed under successor holds all of them.
LEMMA Induction ==
  ASSUME NEW S, 0 \in S, \A k \in Nat : k \in S => k + 1 \in S
  PROVE  \A k \in Nat : k \in S
<1>. SUFFICES ASSUME Nat \ S # {} PROVE FALSE
  OBVIOUS
<1>1. PICK x \in Nat \ S : \A y \in Nat \ S : x <= y
  BY LeastExists
<1>2. x # 0 /\ x - 1 \in Nat /\ ~(x <= x - 1)
  BY <1>1
<1>3. x - 1 \in S
  BY <1>1, <1>2
<1>4. (x - 1) + 1 = x
  BY <1>1
<1>. QED
  BY <1>1, <1>2, <1>3, <1>4

\* f is the iteration of step from a.
Iterates(f, V, step, a) ==
  f \in [Nat -> V] /\ f[0] = a /\ \A i \in Nat : f[i + 1] = step[f[i]]

\* Iterating a function from any start defines a function on the numbers.
LEMMA Recursion ==
  ASSUME NEW V, NEW step \in [V -> V], NEW a \in V
  PROVE  \E f : Iterates(f, V, step, a)
<1>. DEFINE Part(K, f) == /\ f \in [0 .. K -> V] /\ f[0] = a
                          /\ \A i \in 0 .. K : i # 0 => f[i] = step[f[i - 1]]
            E == {K \in Nat : \E f \in [0 .. K -> V] : Part(K, f)}
<1>1. 0 \in E
  <2>1. Part(0, [i \in 0 .. 0 |-> a])
    OBVIOUS
  <2>. QED
    BY <2>1
<1>2. ASSUME NEW K \in Nat, K \in E PROVE K + 1 \in E
  <2>1. PICK f \in [0 .. K -> V] : Part(K, f)
    BY <1>2
  <2>. DEFINE g == [i \in 0 .. K + 1 |-> IF i = K + 1 THEN step[f[K]] ELSE f[i]]
  <2>2. g \in [0 .. K + 1 -> V] /\ g[0] = a
    BY <2>1
  <2>3. ASSUME NEW i \in 0 .. K + 1, i # 0 PROVE g[i] = step[g[i - 1]]
    <3>1. CASE i = K + 1
      BY <3>1
    <3>2. CASE i # K + 1
      <4>1. i \in 0 .. K /\ i - 1 \in 0 .. K
        BY <2>3, <3>2
      <4>. QED
        BY <2>1, <2>3, <3>2, <4>1
    <3>. QED
      BY <3>1, <3>2
  <2>. QED
    BY <2>2, <2>3
<1>3. \A K \in Nat : \E f \in [0 .. K -> V] : Part(K, f)
  <2>. HIDE DEF Part
  <2>1. \A K \in Nat : K \in E
    <3>. HIDE DEF E
    <3>. QED
      BY <1>1, <1>2, Induction
  <2>. QED
    BY <2>1
\* Two of them agree where both are defined.
<1>4. ASSUME NEW K \in Nat, NEW L \in Nat, NEW f, NEW g, Part(K, f), Part(L, g)
      PROVE  \A i \in Nat : i <= K /\ i <= L => f[i] = g[i]
  <2>. DEFINE A == {i \in Nat : i <= K /\ i <= L => f[i] = g[i]}
  <2>1. 0 \in A
    BY <1>4
  <2>2. ASSUME NEW i \in Nat, i \in A PROVE i + 1 \in A
    <3>1. (i + 1) - 1 = i
      OBVIOUS
    <3>. QED
      BY <1>4, <2>2, <3>1
  <2>3. \A i \in Nat : i \in A
    <3>. HIDE DEF A
    <3>. QED
      BY <2>1, <2>2, Induction
  <2>. QED
    BY <2>3
<1>. DEFINE part(K) == CHOOSE f \in [0 .. K -> V] : Part(K, f)
            w == [k \in Nat |-> part(k)[k]]
<1>5. \A K \in Nat : Part(K, part(K))
  <2>. HIDE DEF Part
  <2>. QED
    BY <1>3
<1>6. ASSUME NEW i \in Nat PROVE w[i] \in V /\ w[i] = IF i = 0 THEN a ELSE step[w[i - 1]]
  <2>. HIDE DEF part
  <2>1. Part(i, part(i)) /\ w[i] = part(i)[i]
    BY <1>5
  <2>2. CASE i = 0
    BY <2>1, <2>2
  <2>3. CASE i # 0
    <3>1. i - 1 \in Nat /\ Part(i - 1, part(i - 1)) /\ w[i - 1] = part(i - 1)[i - 1]
      BY <1>5, <2>3
    <3>2. part(i - 1)[i - 1] = part(i)[i - 1]
      BY <1>4, <2>1, <3>1
    <3>. QED
      BY <2>1, <2>3, <3>1, <3>2
  <2>. QED
    BY <2>2, <2>3
<1>7. w \in [Nat -> V] /\ w[0] = a
  BY <1>6
<1>8. \A i \in Nat : w[i + 1] = step[w[i]]
  <2>. HIDE DEF w
  <2>1. \A i \in Nat : i + 1 \in Nat /\ i + 1 # 0 /\ (i + 1) - 1 = i
    OBVIOUS
  <2>. QED
    BY <1>6, <2>1
<1>9. Iterates(w, V, step, a)
  BY <1>7, <1>8 DEF Iterates
<1>. QED
  BY <1>9

-----------------------------------------------------------------------------
(* Walks *)

Links == 0 .. MaxTables

\* The recursion of a walk.
LEMMA WalkSteps ==
  ASSUME next \in [Nodes -> Links], NEW n \in Links
  PROVE  /\ At(n, 0) = n
         /\ \A k \in Nat : /\ At(n, k) \in Links
                           /\ At(n, k) = NULL => At(n, k + 1) = NULL
                           /\ At(n, k) # NULL => At(n, k + 1) = next[At(n, k)]
<1>. DEFINE step == [m \in Links |-> IF m = NULL THEN NULL ELSE next[m]]
            Is(f) == f = [i \in Nat |-> IF i = 0 THEN n
                                         ELSE IF f[i - 1] = NULL THEN NULL ELSE next[f[i - 1]]]
            walk == CHOOSE f : Is(f)
<1>1. step \in [Links -> Links]
  BY PtHashmapAssumption DEF Links, Nodes, NULL
<1>2. PICK f : f \in [Nat -> Links] /\ f[0] = n /\ \A i \in Nat : f[i + 1] = step[f[i]]
  <2>. HIDE DEF step
  <2>1. \E f : Iterates(f, Links, step, n)
    BY <1>1, Recursion
  <2>. QED
    BY <2>1 DEF Iterates
<1>3. ASSUME NEW i \in Nat, i # 0
      PROVE  f[i] = IF f[i - 1] = NULL THEN NULL ELSE next[f[i - 1]]
  <2>1. i - 1 \in Nat /\ (i - 1) + 1 = i
    BY <1>3
  <2>2. f[i] = step[f[i - 1]] /\ f[i - 1] \in Links
    BY <1>2, <2>1
  <2>. QED
    BY <2>2
<1>5. Is(f)
  <2>1. f = [i \in Nat |-> f[i]]
    BY <1>2
  <2>. QED
    BY <1>2, <1>3, <2>1
<1>6. Is(walk)
  BY <1>5
<1>7. \A k : At(n, k) = walk[k]
  BY DEF At
<1>8. walk[0] = n /\ \A k \in Nat : walk[k + 1] = IF walk[k] = NULL THEN NULL ELSE next[walk[k]]
  <2>. HIDE DEF walk
  <2>1. \A k \in Nat : k + 1 \in Nat /\ k + 1 # 0 /\ (k + 1) - 1 = k
    OBVIOUS
  <2>. QED
    BY <1>6, <2>1
<1>9. \A k \in Nat : walk[k] \in Links
  <2>. DEFINE S == {k \in Nat : walk[k] \in Links}
  <2>. HIDE DEF walk
  <2>1. 0 \in S
    BY <1>8
  <2>2. ASSUME NEW k \in Nat, k \in S PROVE k + 1 \in S
    <3>1. walk[k] # NULL => walk[k] \in Nodes
      BY <2>2, PtHashmapAssumption DEF Links, Nodes, NULL
    <3>2. NULL \in Links
      BY PtHashmapAssumption DEF Links, NULL
    <3>. QED
      BY <1>8, <3>1, <3>2
  <2>3. \A k \in Nat : k \in S
    <3>. HIDE DEF S
    <3>. QED
      BY <2>1, <2>2, Induction
  <2>. QED
    BY <2>3
<1>. QED
  <2>. HIDE DEF walk
  <2>. QED
    BY <1>7, <1>8, <1>9

\* A walk that has come to NULL stays there.
LEMMA NullStays ==
  ASSUME next \in [Nodes -> Links], NEW n \in Links, NEW k \in Nat, At(n, k) = NULL,
         NEW j \in Nat, k <= j
  PROVE  At(n, j) = NULL
<1>. DEFINE S == {d \in Nat : At(n, k + d) = NULL}
<1>1. 0 \in S
  OBVIOUS
<1>2. ASSUME NEW d \in Nat, d \in S PROVE d + 1 \in S
  <2>1. k + d \in Nat /\ k + (d + 1) = (k + d) + 1 /\ At(n, k + d) = NULL
    BY <1>2
  <2>. QED
    BY <2>1, WalkSteps
<1>3. \A d \in Nat : d \in S
  <2>. HIDE DEF S
  <2>. QED
    BY <1>1, <1>2, Induction
<1>4. j - k \in Nat /\ k + (j - k) = j
  OBVIOUS
<1>. QED
  BY <1>3, <1>4

\* A walk from the node behind n is the walk from n, one step on.
LEMMA WalkShifts ==
  ASSUME next \in [Nodes -> Links], NEW n \in Nodes
  PROVE  \A k \in Nat : At(next[n], k) = At(n, k + 1)
<1>. DEFINE S == {k \in Nat : At(next[n], k) = At(n, k + 1)}
<1>0. n \in Links /\ next[n] \in Links /\ n # NULL
  BY DEF Links, Nodes, NULL
<1>1. 0 \in S
  <2>1. At(n, 0) = n /\ At(n, 0 + 1) = next[n] /\ At(next[n], 0) = next[n]
    BY <1>0, WalkSteps
  <2>. QED
    BY <2>1
<1>2. ASSUME NEW k \in Nat, k \in S PROVE k + 1 \in S
  <2>1. k + 1 \in Nat /\ At(next[n], k) = At(n, k + 1)
    BY <1>2
  <2>2. At(next[n], k + 1) = At(n, (k + 1) + 1)
    BY <1>0, <2>1, WalkSteps
  <2>. QED
    BY <2>1, <2>2
<1>3. \A k \in Nat : k \in S
  <2>. HIDE DEF S
  <2>. QED
    BY <1>1, <1>2, Induction
<1>. QED
  BY <1>3

\* A walk that ends has a last node.
LEMMA LastExists ==
  ASSUME next \in [Nodes -> Links], NEW n \in Nodes, Ends(n)
  PROVE  \E m \in Visits(n) : next[m] = NULL
<1>. DEFINE S == {k \in Nat : At(n, k) = NULL}
<1>0. n \in Links /\ n # NULL /\ MaxTables \in Nat
  BY PtHashmapAssumption DEF Links, Nodes, NULL
<1>1. MaxTables \in S
  BY <1>0 DEF Ends
<1>2. PICK k \in S : \A j \in S : k <= j
  BY <1>1, LeastExists
<1>3. k # 0 /\ k <= MaxTables
  BY <1>0, <1>1, <1>2, WalkSteps
<1>4. k - 1 \in Nat /\ k - 1 \in 0 .. MaxTables /\ (k - 1) + 1 = k /\ ~(k <= k - 1)
  BY <1>0, <1>2, <1>3
<1>5. At(n, k - 1) # NULL
  BY <1>2, <1>4
<1>6. At(n, k) = next[At(n, k - 1)] /\ At(n, k) = NULL
  BY <1>0, <1>2, <1>4, <1>5, WalkSteps
<1>. QED
  BY <1>4, <1>5, <1>6 DEF Visits

\* The positions before n, and the node at the first of them, where the walk of
\* vmm_hashmap_remove stops.
Before(first, n) == {k \in 0 .. MaxTables : At(first, k + 1) = n}
Previous(first, n) == At(first, CHOOSE k \in Before(first, n) : \A j \in Before(first, n) : k <= j)

\* If there is one, n is behind that node.
LEMMA StopsBefore ==
  ASSUME next \in [Nodes -> Links], NEW first \in Links, NEW n \in Nodes, Before(first, n) # {}
  PROVE  /\ Previous(first, n) \in Nodes /\ next[Previous(first, n)] = n
         /\ Previous(first, n) \in Visits(first)
<1>. DEFINE before == Before(first, n)
            k == CHOOSE k \in before : \A j \in before : k <= j
            p == Previous(first, n)
<1>1. before \subseteq Nat /\ MaxTables \in Nat
  BY PtHashmapAssumption DEF Before
<1>2. k \in before
  BY <1>1, LeastExists
<1>. HIDE DEF k
<1>3. k \in Nat /\ k \in 0 .. MaxTables /\ At(first, k + 1) = n
  BY <1>1, <1>2 DEF Before
<1>4. n # NULL
  BY DEF Nodes, NULL
<1>5. At(first, k) \in Links /\ At(first, k) # NULL /\ next[At(first, k)] = n
  BY <1>3, <1>4, WalkSteps
<1>6. p = At(first, k)
  BY DEF k, Previous
<1>7. At(first, k) \in Nodes
  BY <1>1, <1>5 DEF Links, Nodes, NULL
<1>8. At(first, k) \in Visits(first)
  BY <1>3, <1>5 DEF Visits
<1>. QED
  BY <1>5, <1>6, <1>7, <1>8

-----------------------------------------------------------------------------
(* The invariant *)

Types ==
  /\ vmm_hashmap \in [Buckets -> Links] /\ next \in [Nodes -> Links]
  /\ hash_function \in [Nodes -> Buckets] /\ pt_vaddr \in [Nodes -> Nat]
  /\ tables \in Links /\ made \in Links /\ length \in Nat /\ held \subseteq Nodes

\* The nodes that are in the buckets: all but the removed one.  A node that is first in
\* its bucket stays there when its table is given back.
Linked == (1 .. made) \ {tables}

\* The nodes of bucket b made after n.
After(b, n) == {m \in Linked : hash_function[m] = b /\ m > n}

IsFirst(n, S) == IF S = {} THEN n = NULL ELSE n \in S /\ \A m \in S : n <= m

\* Until two nodes were removed, a bucket links its nodes in the order they were made,
\* nothing is behind the removed one, and the pages of the tables are all different.
ListInv ==
  /\ \A b \in Buckets : IsFirst(vmm_hashmap[b], After(b, 0))
  /\ \A n \in Nodes : n \in Linked => IsFirst(next[n], After(hash_function[n], n))
  /\ \A n \in Nodes : n \notin Linked => next[n] = NULL
  /\ held \subseteq Linked
  /\ tables # NULL => tables \in 1 .. made /\ vmm_hashmap[hash_function[tables]] # NULL

PageInv ==
  /\ \A n \in Nodes : pt_vaddr[n] <= length
  /\ \A n, m \in Nodes : n # m /\ pt_vaddr[n] # 0 => pt_vaddr[n] # pt_vaddr[m]
  /\ stop \in {"no", "panic", "frame"}
  /\ length + InitialTables = InitialLength + made

\* After the second removal the node removed first is the one handed out; it is in no
\* bucket or at the end of its own, and the others are still in the order they were made.
SecondInv ==
  LET n1 == next[tables]
  IN /\ tables # NULL /\ n1 # NULL /\ n1 # tables /\ next[n1] = NULL
     /\ vmm_hashmap[hash_function[n1]] # NULL
     /\ \A b \in Buckets : vmm_hashmap[b] # n1 /\ vmm_hashmap[b] # tables
     /\ \A n \in Nodes : n # tables /\ next[n] # NULL /\ next[n] # n1
                            => next[n] > n /\ next[n] # tables

PtInv ==
  /\ removed \in Nat
  /\ removed < 3 => Types
  /\ removed < 2 => ListInv /\ PageInv /\ (removed = 0 <=> tables = NULL)
  /\ removed = 2 => SecondInv

-----------------------------------------------------------------------------
(* Buckets before the second removal *)

\* The walk of a bucket meets its nodes only, each later than the one before.
LEMMA BucketWalk ==
  ASSUME Types, ListInv, NEW b \in Buckets
  PROVE  \A k \in Nat : LET m == At(vmm_hashmap[b], k)
                        IN m = NULL \/ (m \in After(b, 0) /\ m >= k + 1)
<1>. DEFINE first == vmm_hashmap[b]
            S == {k \in Nat : At(first, k) = NULL \/ (At(first, k) \in After(b, 0) /\ At(first, k) >= k + 1)}
<1>0. next \in [Nodes -> Links] /\ first \in Links /\ made \in 0 .. MaxTables /\ MaxTables \in Nat
  BY PtHashmapAssumption DEF Types, Links
<1>1. \A m \in After(b, 0) : m \in Nodes /\ m \in Linked /\ hash_function[m] = b /\ m \in Nat /\ m > 0
  BY <1>0 DEF After, Linked, Nodes
<1>. HIDE DEF first
<1>2. 0 \in S
  <2>1. first = NULL \/ first \in After(b, 0)
    BY DEF ListInv, IsFirst, first
  <2>2. At(first, 0) = first
    BY <1>0, WalkSteps
  <2>. QED
    BY <1>1, <2>1, <2>2
<1>3. ASSUME NEW k \in Nat, k \in S PROVE k + 1 \in S
  <2>. DEFINE m == At(first, k)
  <2>1. CASE m = NULL
    BY <1>0, <2>1, WalkSteps
  <2>2. CASE m # NULL
    <3>1. m \in After(b, 0) /\ m >= k + 1 /\ At(first, k + 1) = next[m]
      BY <1>0, <1>3, <2>2, WalkSteps
    <3>. HIDE DEF m
    <3>2. m \in Nodes /\ m \in Linked /\ hash_function[m] = b /\ m \in Nat
      BY <1>1, <3>1
    <3>3. next[m] = NULL \/ next[m] \in After(b, m)
      BY <3>2 DEF ListInv, IsFirst
    <3>4. next[m] \in After(b, m) => next[m] \in After(b, 0) /\ next[m] > m /\ next[m] \in Nat
      BY <1>0, <3>2 DEF After, Linked
    <3>. QED
      BY <3>1, <3>2, <3>3, <3>4
  <2>. QED
    BY <2>1, <2>2
<1>4. \A k \in Nat : k \in S
  <2>. HIDE DEF S
  <2>. QED
    BY <1>2, <1>3, Induction
<1>. QED
  BY <1>4 DEF first

\* So it ends.
LEMMA BucketEnds ==
  ASSUME Types, ListInv, NEW b \in Buckets
  PROVE  Ends(vmm_hashmap[b])
<1>1. MaxTables \in Nat /\ made \in 0 .. MaxTables
  BY PtHashmapAssumption DEF Types, Links
<1>2. \A m \in After(b, 0) : m <= MaxTables /\ m \in Nat
  BY <1>1 DEF After, Linked
<1>. QED
  BY <1>1, <1>2, BucketWalk DEF Ends

\* It misses none of the bucket's nodes.
LEMMA BucketVisits ==
  ASSUME Types, ListInv, NEW b \in Buckets
  PROVE  Visits(vmm_hashmap[b]) = After(b, 0)
<1>. DEFINE first == vmm_hashmap[b]
<1>0. next \in [Nodes -> Links] /\ first \in Links /\ made \in 0 .. MaxTables /\ MaxTables \in Nat
  BY PtHashmapAssumption DEF Types, Links
<1>1. \A k \in Nat : At(first, k) = NULL \/ (At(first, k) \in After(b, 0) /\ At(first, k) >= k + 1)
  BY BucketWalk
<1>2. Visits(first) \subseteq After(b, 0)
  BY <1>0, <1>1 DEF Visits
<1>3. ASSUME NEW n \in After(b, 0) PROVE n \in Visits(first)
  <2>0. n \in Nodes /\ n \in Linked /\ hash_function[n] = b /\ n \in 1 .. MaxTables
    BY <1>0 DEF After, Linked, Nodes
  <2>. DEFINE S == {k \in Nat : At(first, k) = NULL \/ At(first, k) >= n}
  <2>. HIDE DEF first
  <2>1. n \in S
    <3>1. \A m \in After(b, 0) : m \in Nat
      BY <1>0 DEF After, Linked
    <3>2. At(first, n) = NULL \/ (At(first, n) \in After(b, 0) /\ At(first, n) >= n + 1)
      BY <1>1, <2>0
    <3>. QED
      <4>1. n \in Nat
        BY <1>0, <2>0
      <4>2. ASSUME NEW m \in Nat, m >= n + 1 PROVE m >= n
        BY <4>1, <4>2
      <4>3. At(first, n) = NULL \/ At(first, n) >= n
        BY <3>1, <3>2, <4>2
      <4>. QED
        BY <4>1, <4>3
  <2>2. PICK k \in S : \A j \in S : k <= j
    BY <2>1, LeastExists
  <2>3. k \in 0 .. MaxTables /\ k \in Nat
    BY <1>0, <2>0, <2>1, <2>2
  <2>4. CASE k = 0
    <3>1. At(first, 0) = first
      BY <1>0, WalkSteps
    <3>2. IsFirst(first, After(b, 0))
      BY DEF ListInv, first
    <3>3. first \in After(b, 0) /\ first <= n
      BY <3>2 DEF IsFirst
    <3>4. first # NULL /\ first \in Nat
      BY <1>0, <3>3 DEF After, Linked, NULL
    <3>5. first >= n
      BY <2>2, <2>4, <3>1, <3>4
    <3>6. first = n
      BY <2>0, <3>3, <3>4, <3>5
    <3>. QED
      BY <2>3, <2>4, <3>1, <3>4, <3>6 DEF Visits
  <2>5. CASE k # 0
    <3>. DEFINE m == At(first, k - 1)
    <3>1. k - 1 \in Nat /\ (k - 1) + 1 = k /\ ~(k <= k - 1)
      BY <2>2, <2>5
    <3>2. m # NULL /\ ~(m >= n)
      BY <2>2, <3>1
    <3>3. m \in After(b, 0) /\ At(first, k) = next[m]
      BY <1>0, <1>1, <3>1, <3>2, WalkSteps
    <3>. HIDE DEF m
    <3>4. m \in Nodes /\ m \in Linked /\ hash_function[m] = b /\ m \in Nat
      BY <1>0, <3>3 DEF After, Linked, Nodes
    <3>5. n \in After(b, m)
      BY <2>0, <3>2, <3>4 DEF After
    <3>6. next[m] \in After(b, m) /\ next[m] <= n
      BY <3>4, <3>5 DEF ListInv, IsFirst
    <3>7. next[m] # NULL /\ next[m] \in Nat
      BY <1>0, <3>6 DEF After, Linked, NULL
    <3>8. next[m] >= n
      BY <2>2, <3>3, <3>7
    <3>9. next[m] = n
      BY <2>0, <3>6, <3>7, <3>8
    <3>. QED
      BY <2>3, <3>3, <3>7, <3>9 DEF Visits
  <2>. QED
    BY <2>4, <2>5
<1>. QED
  BY <1>2, <1>3

\* Every table in use is found.
LEMMA HeldFound ==
  ASSUME Types, ListInv
  PROVE  \A n \in held : Found(n)
<1>1. ASSUME NEW n \in held PROVE n \in Nodes /\ n \in After(hash_function[n], 0) /\ hash_function[n] \in Buckets
  BY DEF Types, ListInv, After, Linked, Nodes
<1>. QED
  BY <1>1, BucketVisits DEF Found

\* Nothing can be handed out again before the second removal.
LEMMA NothingFreed ==
  ASSUME Types, ListInv
  PROVE  get_freed_pg_tbl = NULL
<1>1. tables # NULL => tables \in Nodes /\ tables \notin Linked
  BY PtHashmapAssumption DEF Types, Links, Nodes, NULL, Linked
<1>. QED
  BY <1>1 DEF ListInv, get_freed_pg_tbl

\* pg_tbl_insert puts a fresh node behind the last one of its bucket.
LEMMA InsertFresh ==
  ASSUME Types, ListInv, made < MaxTables, made' = made + 1, UNCHANGED <<hash_function, tables>>,
         NEW n, n = made + 1, pg_tbl_insert(n)
  PROVE  ListInv' /\ stop' = "no"
<1>b. PICK b : b = hash_function[n]
  OBVIOUS
<1>. DEFINE first == vmm_hashmap[b]
<1>0. /\ n \in Nodes /\ n \in Nat /\ made \in Nat /\ made <= MaxTables /\ MaxTables \in Nat
      /\ b \in Buckets /\ first \in Links /\ next \in [Nodes -> Links]
      /\ vmm_hashmap \in [Buckets -> Links] /\ tables \in Nat /\ hash_function \in [Nodes -> Buckets]
  BY <1>b, PtHashmapAssumption DEF Types, Links, Nodes
<1>1. n \notin Linked /\ next[n] = NULL /\ n # NULL /\ tables # n
  BY <1>0 DEF Linked, ListInv, NULL
<1>2. Linked' = Linked \cup {n}
  BY <1>0, <1>1 DEF Linked
<1>3. ASSUME NEW c \in Buckets, NEW m \in Nat
      PROVE  After(c, m)' = IF c = b /\ m < n THEN After(c, m) \cup {n} ELSE After(c, m)
  BY <1>b, <1>0, <1>2 DEF After
<1>4. \A c, m : \A k \in After(c, m) : k \in Nat /\ k < n /\ k \in Linked /\ k \in Nodes /\ k # NULL
  BY <1>0 DEF After, Linked, Nodes, NULL
<1>. HIDE DEF first
<1>6. CASE first = NULL
  <2>1. /\ vmm_hashmap' = [vmm_hashmap EXCEPT ![b] = n] /\ next' = next /\ stop' = "no"
        /\ held' = held \cup {n}
    BY <1>b, <1>6 DEF pg_tbl_insert, first
  <2>2. After(b, 0) = {}
    BY <1>0, <1>4, <1>6 DEF ListInv, IsFirst, first
  <2>3. \A c \in Buckets : IsFirst(vmm_hashmap'[c], After(c, 0)')
    <3>1. ASSUME NEW c \in Buckets, c # b PROVE IsFirst(vmm_hashmap'[c], After(c, 0)')
      BY <1>0, <1>3, <2>1, <3>1 DEF ListInv
    <3>2. IsFirst(vmm_hashmap'[b], After(b, 0)')
      <4>1. vmm_hashmap'[b] = n /\ After(b, 0)' = {n}
        BY <1>0, <1>3, <2>1, <2>2
      <4>. QED
        BY <1>0, <4>1 DEF IsFirst
    <3>. QED
      BY <3>1, <3>2
  <2>4. ASSUME NEW m \in Nodes, m \in Linked' PROVE IsFirst(next'[m], After(hash_function[m], m)')
    <3>0. m \in Nat /\ hash_function[m] \in Buckets
      BY <1>0 DEF Nodes
    <3>1. CASE m = n
      <4>1. After(hash_function[m], m) = {} /\ After(hash_function[m], m)' = After(hash_function[m], m)
        BY <1>0, <1>3, <1>4, <3>0, <3>1 DEF After
      <4>. QED
        BY <1>1, <2>1, <3>1, <4>1 DEF IsFirst
    <3>2. CASE m # n
      <4>1. m \in Linked /\ m > 0
        BY <1>2, <2>4, <3>2 DEF Nodes
      <4>2. hash_function[m] # b
        BY <2>2, <3>0, <4>1 DEF After
      <4>. QED
        BY <1>3, <2>1, <3>0, <4>1, <4>2 DEF ListInv
    <3>. QED
      BY <3>1, <3>2
  <2>5. \A m \in Nodes : m \notin Linked' => next'[m] = NULL
    BY <1>2, <2>1 DEF ListInv
  <2>6. held' \subseteq Linked'
    BY <1>2, <2>1 DEF ListInv
  <2>7. tables # NULL => tables \in 1 .. made' /\ vmm_hashmap'[hash_function[tables]] # NULL
    BY <1>0, <1>1, <2>1 DEF ListInv, Nodes
  <2>. QED
    BY <2>1, <2>3, <2>4, <2>5, <2>6, <2>7 DEF ListInv
<1>7. CASE first # NULL
  <2>l. PICK last : last = CHOOSE m \in Visits(first) : next[m] = NULL
    OBVIOUS
  <2>0. first \in Nodes /\ Ends(first) /\ Visits(first) = After(b, 0)
    BY <1>0, <1>7, BucketEnds, BucketVisits DEF Nodes, Links, NULL, first
  <2>1. last \in After(b, 0) /\ next[last] = NULL
    BY <1>0, <2>l, <2>0, LastExists
  <2>2. n \notin Visits(next[first])
    <3>1. ASSUME NEW k \in 0 .. MaxTables PROVE At(next[first], k) # n
      <4>1. k \in Nat /\ k + 1 \in Nat
        OBVIOUS
      <4>2. At(next[first], k) = At(first, k + 1)
        BY <1>0, <2>0, <4>1, WalkShifts
      <4>3. At(first, k + 1) = NULL \/ At(first, k + 1) \in After(b, 0)
        BY <1>0, <4>1, BucketWalk DEF first
      <4>. QED
        BY <1>1, <1>4, <4>2, <4>3
    <3>. QED
      BY <3>1 DEF Visits
  <2>3. /\ vmm_hashmap' = vmm_hashmap /\ next' = [next EXCEPT ![last] = n] /\ stop' = "no"
        /\ held' = held \cup {n}
    BY <1>b, <1>7, <2>l, <2>0, <2>2 DEF pg_tbl_insert, first
  <2>4. last \in Nodes /\ last \in Linked /\ hash_function[last] = b /\ last \in Nat /\ last < n
    BY <1>4, <2>1 DEF After
  <2>5. After(b, last) = {}
    <3>1. IsFirst(next[last], After(b, last))
      BY <2>4 DEF ListInv
    <3>. QED
      BY <1>4, <2>1, <3>1 DEF IsFirst
  <2>6. \A c \in Buckets : IsFirst(vmm_hashmap'[c], After(c, 0)')
    <3>1. ASSUME NEW c \in Buckets, c # b PROVE IsFirst(vmm_hashmap'[c], After(c, 0)')
      BY <1>0, <1>3, <2>3, <3>1 DEF ListInv
    <3>2. IsFirst(vmm_hashmap'[b], After(b, 0)')
      <4>1. After(b, 0)' = After(b, 0) \cup {n} /\ After(b, 0) # {}
        BY <1>0, <1>3, <2>1
      <4>2. first \in After(b, 0) /\ \A m \in After(b, 0) : first <= m
        BY <1>0, <4>1 DEF ListInv, IsFirst, first
      <4>3. first <= n
        BY <1>0, <1>4, <4>2
      <4>. QED
        BY <2>3, <4>1, <4>2, <4>3 DEF IsFirst, first
    <3>. QED
      BY <3>1, <3>2
  <2>7. ASSUME NEW m \in Nodes, m \in Linked' PROVE IsFirst(next'[m], After(hash_function[m], m)')
    <3>0. m \in Nat /\ hash_function[m] \in Buckets
      BY <1>0 DEF Nodes
    <3>1. CASE m = n
      <4>1. After(hash_function[m], m) = {} /\ After(hash_function[m], m)' = After(hash_function[m], m)
        BY <1>0, <1>3, <1>4, <3>0, <3>1 DEF After
      <4>2. next'[m] = NULL
        BY <1>0, <1>1, <2>3, <2>4, <3>1
      <4>. QED
        BY <4>1, <4>2 DEF IsFirst
    <3>2. CASE m = last
      <4>1. After(b, last)' = {n} /\ next'[last] = n
        BY <1>0, <1>3, <2>3, <2>4, <2>5
      <4>. QED
        BY <1>0, <2>4, <3>2, <4>1 DEF IsFirst
    <3>3. CASE m # n /\ m # last
      <4>1. m \in Linked /\ m > 0 /\ m < n /\ next'[m] = next[m]
        BY <1>0, <1>2, <2>3, <2>7, <3>3 DEF Nodes, Linked
      <4>2. IsFirst(next[m], After(hash_function[m], m))
        BY <4>1 DEF ListInv
      <4>3. CASE hash_function[m] # b
        BY <1>3, <3>0, <4>1, <4>2, <4>3
      <4>4. CASE hash_function[m] = b
        <5>1. m < last
          <6>1. ~(m > last)
            BY <2>5, <3>0, <4>1, <4>4 DEF After
          <6>. QED
            BY <2>4, <3>0, <3>3, <6>1
        <5>2. last \in After(b, m)
          BY <2>4, <5>1 DEF After
        <5>3. next[m] \in After(b, m) /\ \A k \in After(b, m) : next[m] <= k
          BY <4>2, <4>4, <5>2 DEF IsFirst
        <5>4. After(b, m)' = After(b, m) \cup {n} /\ next[m] <= n
          BY <1>0, <1>3, <1>4, <3>0, <4>1, <5>3
        <5>. QED
          BY <4>1, <4>4, <5>3, <5>4 DEF IsFirst
      <4>. QED
        BY <4>3, <4>4
    <3>. QED
      BY <3>1, <3>2, <3>3
  <2>8. \A m \in Nodes : m \notin Linked' => next'[m] = NULL
    BY <1>0, <1>2, <2>3, <2>4 DEF ListInv
  <2>9. held' \subseteq Linked'
    BY <1>2, <2>3 DEF ListInv
  <2>10. tables # NULL => tables \in 1 .. made' /\ vmm_hashmap'[hash_function[tables]] # NULL
    BY <1>0, <2>3 DEF ListInv
  <2>. QED
    BY <2>3, <2>6, <2>7, <2>8, <2>9, <2>10 DEF ListInv
<1>. QED
  BY <1>6, <1>7

\* vmm_hashmap_remove finds the one node before n, which is not first in its bucket.
LEMMA RemoveFacts ==
  ASSUME Types, ListInv, NEW n \in held,
         NEW p \in Nodes, next[p] = n, p \in Visits(vmm_hashmap[hash_function[n]])
  PROVE  /\ n \in Nodes /\ n \in Linked /\ p \in Linked /\ hash_function[p] = hash_function[n] /\ p < n
         /\ \A m \in Nodes : next[m] = n => m = p
         /\ \A b \in Buckets : vmm_hashmap[b] # n
         /\ vmm_hashmap[hash_function[n]] # NULL
         /\ After(hash_function[n], p) \ {n} = After(hash_function[n], n)
<1>. DEFINE b == hash_function[n]
<1>0. /\ made \in Nat /\ made <= MaxTables /\ MaxTables \in Nat /\ n \in Nodes /\ n \in Linked
      /\ b \in Buckets /\ n \in Nat /\ n # NULL
  BY PtHashmapAssumption DEF Types, Links, Nodes, ListInv, NULL
<1>1. p \in After(b, 0)
  BY <1>0, BucketVisits
<1>2. \A c, m : \A k \in After(c, m) : k \in Nat /\ k > m /\ k \in Linked /\ hash_function[k] = c /\ k # NULL
  BY <1>0 DEF After, Linked, NULL
<1>3. ASSUME NEW m \in Nodes, next[m] = n
      PROVE  /\ m \in Nat /\ m \in Linked /\ hash_function[m] = b /\ n > m
             /\ \A k \in After(b, m) : n <= k
  <2>1. m \in Linked
    BY <1>0, <1>3 DEF ListInv
  <2>2. n \in After(hash_function[m], m) /\ \A k \in After(hash_function[m], m) : n <= k
    BY <1>0, <1>3, <2>1 DEF ListInv, IsFirst
  <2>. QED
    BY <1>2, <2>1, <2>2 DEF Nodes
<1>4. p \in Nat /\ p \in Linked /\ hash_function[p] = b /\ n > p /\ \A k \in After(b, p) : n <= k
  BY <1>3
<1>. HIDE DEF b
<1>5. ASSUME NEW m \in Nodes, next[m] = n PROVE m = p
  <2>1. m \in Nat /\ m \in Linked /\ hash_function[m] = b /\ n > m /\ \A k \in After(b, m) : n <= k
    BY <1>3, <1>5
  <2>2. ~(m < p)
    <3>1. m < p => p \in After(b, m)
      BY <1>4, <2>1 DEF After
    <3>. QED
      BY <1>0, <1>4, <2>1, <3>1
  <2>3. ~(p < m)
    <3>1. p < m => m \in After(b, p)
      BY <1>4, <2>1 DEF After
    <3>. QED
      BY <1>0, <1>4, <2>1, <3>1
  <2>. QED
    BY <1>4, <2>1, <2>2, <2>3
<1>6. vmm_hashmap[b] # NULL /\ vmm_hashmap[b] # n
  <2>1. vmm_hashmap[b] \in After(b, 0) /\ vmm_hashmap[b] <= p
    BY <1>0, <1>1 DEF ListInv, IsFirst
  <2>. QED
    BY <1>0, <1>2, <1>4, <2>1
<1>7. ASSUME NEW c \in Buckets, c # b PROVE vmm_hashmap[c] # n
  <2>1. vmm_hashmap[c] = NULL \/ vmm_hashmap[c] \in After(c, 0)
    BY DEF ListInv, IsFirst
  <2>. QED
    BY <1>0, <1>2, <1>7, <2>1 DEF b
<1>8. After(b, p) \ {n} = After(b, n)
  <2>1. \A k \in After(b, p) \ {n} : k > n
    BY <1>0, <1>2, <1>4
  <2>2. \A k \in After(b, n) : k > p /\ k # n
    BY <1>0, <1>2, <1>4
  <2>. QED
    BY <1>2, <2>1, <2>2 DEF After
<1>. QED
  BY <1>0, <1>4, <1>5, <1>6, <1>7, <1>8 DEF b

\* The first removal keeps the order of the buckets.
LEMMA FirstRemoval ==
  ASSUME Types, ListInv, tables = NULL, NEW n \in held,
         NEW p \in Nodes, next[p] = n, p \in Visits(vmm_hashmap[hash_function[n]]),
         next' = [next EXCEPT ![p] = next[n], ![n] = tables],
         tables' = n, held' = held \ {n}, UNCHANGED <<vmm_hashmap, hash_function, made>>
  PROVE  ListInv'
<1>0. /\ n \in Nodes /\ n \in Linked /\ p \in Linked /\ hash_function[p] = hash_function[n] /\ p < n
      /\ \A m \in Nodes : next[m] = n => m = p
      /\ \A b \in Buckets : vmm_hashmap[b] # n
      /\ vmm_hashmap[hash_function[n]] # NULL
      /\ After(hash_function[n], p) \ {n} = After(hash_function[n], n)
  BY RemoveFacts
<1>1. /\ next \in [Nodes -> Links] /\ made \in Nat /\ MaxTables \in Nat /\ made <= MaxTables
      /\ hash_function \in [Nodes -> Buckets] /\ n \in Nat /\ p # n /\ p \in Nat
  BY <1>0, PtHashmapAssumption DEF Types, Links, Nodes
<1>2. Linked' = Linked \ {n}
  BY <1>1 DEF Linked, NULL
<1>3. \A c, m : After(c, m)' = After(c, m) \ {n}
  BY <1>2 DEF After
<1>4. next'[n] = NULL /\ next'[p] = next[n] /\ \A m \in Nodes : m # n /\ m # p => next'[m] = next[m]
  BY <1>0, <1>1
<1>5. \A x, S : IsFirst(x, S) /\ x # n => IsFirst(x, S \ {n})
  BY DEF IsFirst
<1>6. \A b \in Buckets : IsFirst(vmm_hashmap'[b], After(b, 0)')
  BY <1>0, <1>3, <1>5 DEF ListInv
<1>7. ASSUME NEW m \in Nodes, m \in Linked' PROVE IsFirst(next'[m], After(hash_function[m], m)')
  <2>0. m \in Linked /\ m # n /\ IsFirst(next[m], After(hash_function[m], m))
    BY <1>2, <1>7 DEF ListInv
  <2>1. CASE m # p
    <3>1. next[m] # n /\ next'[m] = next[m]
      BY <1>0, <1>4, <2>0, <2>1
    <3>. QED
      BY <1>3, <1>5, <2>0, <3>1
  <2>2. CASE m = p
    <3>1. After(hash_function[m], m)' = After(hash_function[n], n) /\ next'[m] = next[n]
      BY <1>0, <1>3, <1>4, <2>2
    <3>. QED
      BY <1>0, <3>1 DEF ListInv
  <2>. QED
    BY <2>1, <2>2
<1>8. \A m \in Nodes : m \notin Linked' => next'[m] = NULL
  BY <1>0, <1>2, <1>4 DEF ListInv
<1>9. held' \subseteq Linked'
  BY <1>2 DEF ListInv
<1>10. n \in 1 .. made
  BY <1>0 DEF Linked
<1>. QED
  BY <1>0, <1>6, <1>7, <1>8, <1>9, <1>10 DEF ListInv

\* The second removal puts the node before the one that was removed first.
LEMMA SecondRemoval ==
  ASSUME Types, ListInv, tables # NULL, NEW n \in held,
         NEW p \in Nodes, next[p] = n, p \in Visits(vmm_hashmap[hash_function[n]]),
         next' = [next EXCEPT ![p] = next[n], ![n] = tables],
         tables' = n, UNCHANGED <<vmm_hashmap, hash_function>>
  PROVE  SecondInv'
<1>0. /\ n \in Nodes /\ n \in Linked /\ p \in Linked /\ p < n
      /\ \A m \in Nodes : next[m] = n => m = p
      /\ \A b \in Buckets : vmm_hashmap[b] # n
  BY RemoveFacts
<1>1. /\ next \in [Nodes -> Links] /\ made \in Nat /\ MaxTables \in Nat /\ made <= MaxTables
      /\ hash_function \in [Nodes -> Buckets] /\ n \in Nat /\ p # n /\ p \in Nat /\ n # NULL
  BY <1>0, PtHashmapAssumption DEF Types, Links, Nodes, NULL
<1>n. PICK n1 : n1 = tables
  OBVIOUS
<1>2. /\ n1 \in Nodes /\ n1 \notin Linked /\ next[n1] = NULL /\ n1 # n /\ n1 # NULL
      /\ vmm_hashmap[hash_function[n1]] # NULL
  BY <1>0, <1>1, <1>n DEF ListInv, Linked, Nodes
<1>3. next'[n] = n1 /\ next'[p] = next[n] /\ \A m \in Nodes : m # n /\ m # p => next'[m] = next[m]
  BY <1>0, <1>1, <1>n
<1>4. next'[n1] = NULL
  BY <1>1, <1>2, <1>3
<1>5. \A c, m : \A k \in After(c, m) : k \in Nat /\ k > m /\ k \in Linked
  BY <1>1 DEF After, Linked
<1>6. ASSUME NEW m \in Nodes, next[m] # NULL PROVE next[m] > m /\ next[m] \in Linked /\ next[m] \in Nat /\ m \in Nat
  <2>1. m \in Linked
    BY <1>6 DEF ListInv
  <2>2. next[m] \in After(hash_function[m], m)
    BY <1>6, <2>1 DEF ListInv, IsFirst
  <2>. QED
    BY <1>5, <2>2 DEF Nodes
<1>7. \A b \in Buckets : vmm_hashmap[b] # n1 /\ vmm_hashmap[b] # n
  BY <1>0, <1>2, <1>5 DEF ListInv, IsFirst
<1>8. ASSUME NEW m \in Nodes, m # n, next'[m] # NULL, next'[m] # n1
      PROVE  next'[m] > m /\ next'[m] # n
  <2>1. CASE m = p
    <3>1. next[n] # NULL /\ next'[m] = next[n]
      BY <1>3, <1>8, <2>1
    <3>. QED
      BY <1>0, <1>1, <1>6, <2>1, <3>1
  <2>2. CASE m # p
    BY <1>0, <1>3, <1>6, <1>8, <2>2
  <2>. QED
    BY <2>1, <2>2
<1>. QED
  BY <1>1, <1>2, <1>3, <1>4, <1>7, <1>8 DEF SecondInv

-----------------------------------------------------------------------------
(* Between the second removal and the third *)

\* The walk of a bucket goes up until it meets the node that was removed first, and
\* behind the one that was removed last it is one step short of the node's number.
LEMMA SecondWalk ==
  ASSUME Types, SecondInv, NEW b \in Buckets
  PROVE  \A k \in Nat : LET m == At(vmm_hashmap[b], k)
                        IN \/ m = NULL \/ m = next[tables]
                           \/ m # tables /\ m >= k + 1 /\ (m > tables => m >= k + 2)
<1>. DEFINE first == vmm_hashmap[b]
            Low(m, k) == m # tables /\ m >= k + 1 /\ (m > tables => m >= k + 2)
            S == {k \in Nat : \/ At(first, k) = NULL \/ At(first, k) = next[tables]
                              \/ Low(At(first, k), k)}
<1>0. /\ next \in [Nodes -> Links] /\ first \in Links /\ tables \in Nat /\ tables # NULL
      /\ MaxTables \in Nat /\ \A m \in Links : m \in Nat /\ (m # NULL => m \in Nodes /\ m >= 1)
      /\ \A m \in Nodes : m # NULL
  BY PtHashmapAssumption DEF Types, Links, Nodes, NULL, SecondInv
<1>1. 0 \in S
  <2>1. At(first, 0) = first /\ first # tables
    BY <1>0, WalkSteps DEF SecondInv
  <2>2. ASSUME first # NULL PROVE Low(first, 0)
    <3>1. first \in Nat /\ first >= 1 /\ tables >= 1
      BY <1>0, <2>2 DEF NULL
    <3>. HIDE DEF first
    <3>. QED
      BY <1>0, <2>1, <3>1
  <2>. QED
    BY <2>1, <2>2
<1>. HIDE DEF first
<1>2. ASSUME NEW k \in Nat, k \in S PROVE k + 1 \in S
  <2>m. PICK m : m = At(first, k)
    OBVIOUS
  <2>1. m \in Links /\ (m = NULL => At(first, k + 1) = NULL) /\ (m # NULL => At(first, k + 1) = next[m])
    BY <1>0, <2>m, WalkSteps
  <2>2. CASE m = NULL \/ m = next[tables]
    <3>1. At(first, k + 1) = NULL
      BY <2>1, <2>2 DEF SecondInv
    <3>. QED
      BY <3>1
  <2>3. CASE m # NULL /\ m # next[tables]
    <3>1. m # tables /\ m >= k + 1 /\ (m > tables => m >= k + 2) /\ m \in Nodes /\ m \in Nat
      BY <1>0, <1>2, <2>m, <2>1, <2>3
    <3>2. next[m] \in Nat /\ At(first, k + 1) = next[m]
      BY <1>0, <2>1, <2>3, <3>1
    <3>3. next[m] = NULL \/ next[m] = next[tables] \/ (next[m] > m /\ next[m] # tables)
      BY <3>1 DEF SecondInv
    <3>4. next[m] > m /\ next[m] # tables => Low(next[m], k + 1)
      BY <1>0, <3>1, <3>2
    <3>. QED
      BY <3>2, <3>3, <3>4
  <2>. QED
    BY <2>2, <2>3
<1>3. \A k \in Nat : k \in S
  <2>. HIDE DEF S
  <2>. QED
    BY <1>1, <1>2, Induction
<1>. QED
  BY <1>3 DEF first

\* The walks still end.
LEMMA SecondEnds ==
  ASSUME Types, SecondInv
  PROVE  Ends(tables) /\ \A b \in Buckets : Ends(vmm_hashmap[b])
<1>0. /\ next \in [Nodes -> Links] /\ tables \in Nodes /\ tables \in Links /\ MaxTables \in Nat
      /\ next[tables] \in Nodes /\ next[tables] # tables /\ next[next[tables]] = NULL
      /\ \A m \in Nodes : m # NULL /\ m \in Nat /\ m >= 1 /\ m <= MaxTables
  BY PtHashmapAssumption DEF Types, Links, Nodes, NULL, SecondInv
<1>1. MaxTables >= 2
  BY <1>0
<1>2. Ends(tables)
  <2>1. At(tables, 0) = tables /\ At(tables, 0 + 1) = next[tables]
    BY <1>0, WalkSteps
  <2>2. At(tables, 1) = next[tables]
    BY <2>1
  <2>3. At(tables, 1 + 1) = NULL
    BY <1>0, <2>2, WalkSteps
  <2>4. At(tables, 2) = NULL
    BY <2>3
  <2>. QED
    BY <1>0, <1>1, <2>4, NullStays DEF Ends
<1>3. ASSUME NEW b \in Buckets PROVE Ends(vmm_hashmap[b])
  <2>. DEFINE k == MaxTables - 1
  <2>m. PICK m : m = At(vmm_hashmap[b], k)
    OBVIOUS
  <2>1. k \in Nat /\ k + 1 = MaxTables /\ vmm_hashmap[b] \in Links
    BY <1>0, <1>1 DEF Types
  <2>2. m = NULL \/ m = next[tables] \/ (m # tables /\ m >= k + 1 /\ (m > tables => m >= k + 2))
    BY <2>m, <2>1, SecondWalk
  <2>3. /\ m \in Links /\ (m = NULL => At(vmm_hashmap[b], k + 1) = NULL)
        /\ (m # NULL => At(vmm_hashmap[b], k + 1) = next[m])
    <3>0. next \in [Nodes -> Links] /\ k \in Nat /\ vmm_hashmap[b] \in Links
      BY <1>0, <2>1
    <3>. HIDE DEF k
    <3>1. /\ At(vmm_hashmap[b], k) \in Links
          /\ At(vmm_hashmap[b], k) = NULL => At(vmm_hashmap[b], k + 1) = NULL
          /\ At(vmm_hashmap[b], k) # NULL => At(vmm_hashmap[b], k + 1) = next[At(vmm_hashmap[b], k)]
      BY <3>0, WalkSteps, Zenon
    <3>. QED
      BY <2>m, <3>1, Zenon
  <2>4. m = NULL \/ m = next[tables]
    <3>1. m \in Nat /\ m <= MaxTables
      BY <2>3, <1>0 DEF Links
    <3>. QED
      BY <1>0, <2>1, <2>2, <3>1
  <2>5. At(vmm_hashmap[b], k + 1) = NULL
    BY <1>0, <2>3, <2>4
  <2>. QED
    BY <2>1, <2>5 DEF Ends
<1>. QED
  BY <1>2, <1>3

\* The node that was removed first is put at the end of its bucket again, once.
LEMMA InsertFreed ==
  ASSUME Types, SecondInv, pg_tbl_insert(get_freed_pg_tbl), UNCHANGED <<hash_function, tables>>
  PROVE  SecondInv' /\ next' \in [Nodes -> Links] /\ vmm_hashmap' = vmm_hashmap /\ held' \subseteq Nodes
<1>n. PICK n : n = next[tables]
  OBVIOUS
<1>b. PICK first : first = vmm_hashmap[hash_function[n]]
  OBVIOUS
<1>0. /\ next \in [Nodes -> Links] /\ tables \in Nodes /\ tables # NULL /\ MaxTables \in Nat
      /\ n \in Nodes /\ n # NULL /\ n # tables /\ next[n] = NULL /\ hash_function[n] \in Buckets
      /\ first \in Nodes /\ first # NULL /\ first # n /\ first # tables /\ held \subseteq Nodes
      /\ first \in Links
  <2>1. \A m \in Links : m # NULL => m \in Nodes
    BY PtHashmapAssumption DEF Links, Nodes, NULL
  <2>2. tables \in Nodes /\ tables # NULL /\ next \in [Nodes -> Links] /\ held \subseteq Nodes
    BY <2>1 DEF Types, SecondInv
  <2>3. n \in Nodes /\ n # NULL /\ n # tables /\ next[n] = NULL
    BY <1>n, <2>1, <2>2 DEF SecondInv
  <2>4. hash_function[n] \in Buckets
    BY <2>3 DEF Types
  <2>5. first \in Links /\ first # NULL /\ first # n /\ first # tables
    BY <1>n, <1>b, <2>4 DEF Types, SecondInv
  <2>. QED
    BY <2>1, <2>2, <2>3, <2>4, <2>5, PtHashmapAssumption
<1>1. n = get_freed_pg_tbl
  BY <1>n, <1>0 DEF get_freed_pg_tbl
<1>2. Ends(first)
  BY <1>b, <1>0, SecondEnds
<1>3. CASE n \in Visits(next[first])
  <2>1. vmm_hashmap' = vmm_hashmap /\ next' = next /\ held' = held
    BY <1>b, <1>0, <1>1, <1>3 DEF pg_tbl_insert
  <2>. QED
    BY <1>0, <2>1 DEF SecondInv
<1>4. CASE n \notin Visits(next[first])
  <2>l. PICK last : last = CHOOSE m \in Visits(first) : next[m] = NULL
    OBVIOUS
  <2>1. last \in Visits(first) /\ next[last] = NULL
    BY <2>l, <1>0, <1>2, LastExists
  <2>2. PICK k \in 0 .. MaxTables : last = At(first, k) /\ last # NULL
    BY <2>1 DEF Visits
  <2>3. last \in Nodes /\ last # tables
    <3>1. At(first, k) \in Links
      BY <1>0, WalkSteps
    <3>. QED
      BY <1>n, <1>0, <2>1, <2>2, <3>1 DEF Links, Nodes, NULL
  <2>4. last # n
    <3>. SUFFICES ASSUME last = n PROVE FALSE
      OBVIOUS
    <3>1. k # 0
      <4>1. At(first, 0) = first
        BY <1>0, WalkSteps DEF Links, Nodes
      <4>. QED
        BY <1>0, <2>2, <4>1
    <3>2. k - 1 \in Nat /\ k - 1 \in 0 .. MaxTables /\ (k - 1) + 1 = k
      BY <1>0, <3>1
    <3>3. At(next[first], k - 1) = n
      BY <1>0, <2>2, <3>2, WalkShifts
    <3>. QED
      BY <1>0, <1>4, <3>2, <3>3 DEF Visits
  <2>5. vmm_hashmap' = vmm_hashmap /\ next' = [next EXCEPT ![last] = n] /\ held' = held \cup {n}
    BY <1>b, <1>0, <1>1, <1>2, <1>4, <2>l DEF pg_tbl_insert
  <2>6. next'[last] = n /\ \A m \in Nodes : m # last => next'[m] = next[m]
    BY <1>0, <2>3, <2>5
  <2>7. next' \in [Nodes -> Links]
    BY <1>0, <2>3, <2>5 DEF Links, Nodes
  <2>8. next'[tables] = n /\ next'[n] = NULL
    BY <1>n, <1>0, <2>3, <2>4, <2>6
  <2>9. SecondInv'
    <3>1. \A b \in Buckets : vmm_hashmap[b] # n /\ vmm_hashmap[b] # tables
      BY <1>n DEF SecondInv
    <3>2. \A m \in Nodes : m # tables /\ next'[m] # NULL /\ next'[m] # n => next'[m] > m /\ next'[m] # tables
      BY <1>n, <2>6 DEF SecondInv
    <3>. QED
      BY <1>b, <1>0, <2>5, <2>8, <3>1, <3>2 DEF SecondInv
  <2>. QED
    BY <1>0, <2>5, <2>7, <2>9
<1>. QED
  BY <1>3, <1>4

-----------------------------------------------------------------------------
(* Every step *)

\* vmm_init links the initial tables in their order.
LEMMA InitPtInv == Init => PtInv
<1>. SUFFICES ASSUME Init PROVE PtInv
  OBVIOUS
<1>. DEFINE In(b) == {n \in 1 .. InitialTables : hash_function[n] = b}
            Successor(n) == {m \in In(hash_function[n]) : m > n}
            Least(S) == IF S = {} THEN NULL ELSE CHOOSE m \in S : \A k \in S : m <= k
<1>0. InitialTables \in Nat /\ MaxTables \in Nat /\ InitialTables <= MaxTables
  BY PtHashmapAssumption
<1>1. /\ hash_function \in [Nodes -> Buckets]
      /\ vmm_hashmap = [b \in Buckets |-> Least(In(b))]
      /\ next = [n \in Nodes |-> IF n <= InitialTables THEN Least(Successor(n)) ELSE NULL]
      /\ pt_vaddr = [n \in Nodes |-> 0] /\ tables = NULL /\ made = InitialTables
      /\ length = InitialLength /\ held = 1 .. InitialTables /\ removed = 0 /\ stop = "no"
  BY DEF Init
<1>2. ASSUME NEW S, S \subseteq 1 .. InitialTables PROVE IsFirst(Least(S), S) /\ Least(S) \in Links
  <2>1. CASE S = {}
    BY <1>0, <2>1 DEF IsFirst, Links, NULL
  <2>2. CASE S # {}
    <3>1. S \subseteq Nat
      BY <1>0, <1>2
    <3>2. \E m \in S : \A k \in S : m <= k
      BY <2>2, <3>1, LeastExists
    <3>3. Least(S) \in S /\ \A k \in S : Least(S) <= k
      BY <2>2, <3>2
    <3>. HIDE DEF Least
    <3>4. \A x \in 1 .. InitialTables : x \in Links
      BY <1>0 DEF Links
    <3>. QED
      BY <1>2, <2>2, <3>3, <3>4 DEF IsFirst
  <2>. QED
    BY <2>1, <2>2
<1>3. Linked = 1 .. InitialTables
  BY <1>0, <1>1 DEF Linked, NULL
<1>4. \A b \in Buckets : After(b, 0) = In(b) /\ In(b) \subseteq 1 .. InitialTables
  BY <1>0, <1>3 DEF After
<1>5. \A n \in Nodes : After(hash_function[n], n) = Successor(n) /\ Successor(n) \subseteq 1 .. InitialTables
  BY <1>3 DEF After
<1>. HIDE DEF In, Successor, Least
<1>6. \A b \in Buckets : vmm_hashmap[b] \in Links /\ IsFirst(vmm_hashmap[b], After(b, 0))
  BY <1>1, <1>2, <1>4
<1>7. ASSUME NEW n \in Nodes PROVE /\ next[n] \in Links
                                   /\ n \in Linked => IsFirst(next[n], After(hash_function[n], n))
                                   /\ n \notin Linked => next[n] = NULL
  <2>1. CASE n <= InitialTables
    <3>1. next[n] = Least(Successor(n)) /\ n \in Linked
      BY <1>0, <1>1, <1>3, <2>1 DEF Nodes
    <3>. QED
      BY <1>2, <1>5, <3>1
  <2>2. CASE ~(n <= InitialTables)
    BY <1>0, <1>1, <1>3, <2>2 DEF Links, NULL
  <2>. QED
    BY <2>1, <2>2
<1>8. Types
  BY <1>0, <1>1, <1>6, <1>7, PtHashmapAssumption DEF Types, Links, Nodes, NULL
<1>9. ListInv
  BY <1>1, <1>3, <1>6, <1>7 DEF ListInv
<1>10. PageInv
  BY <1>0, <1>1, PtHashmapAssumption DEF PageInv
<1>. QED
  BY <1>1, <1>8, <1>9, <1>10 DEF PtInv

\* A new table keeps the invariant.
LEMMA NewTablePtInv ==
  ASSUME PtInv, alloc_new_table
  PROVE  PtInv'
<1>0. removed \in Nat /\ removed' = removed
  BY DEF PtInv, alloc_new_table
<1>1. CASE removed < 2
  <2>0. Types /\ ListInv /\ PageInv /\ (removed = 0 <=> tables = NULL)
    BY <1>0, <1>1 DEF PtInv
  <2>1. length \in Nat /\ UNCHANGED <<hash_function, tables>>
    BY <2>0 DEF alloc_new_table, Types
  <2>2. CASE stop' \in {"panic", "frame"} /\ UNCHANGED <<vmm_hashmap, next, pt_vaddr, made, length, held>>
    <3>1. Types'
      BY <2>0, <2>1, <2>2 DEF Types
    <3>2. ListInv'
      BY <2>0, <2>1, <2>2 DEF ListInv, After, Linked
    <3>3. PageInv'
      BY <2>0, <2>2 DEF PageInv
    <3>. QED
      BY <1>0, <1>1, <2>0, <2>1, <3>1, <3>2, <3>3 DEF PtInv
  <2>n. PICK n : n = made + 1
    OBVIOUS
  <2>3. CASE /\ made < MaxTables /\ made' = made + 1 /\ length' = length + 1
             /\ pt_vaddr' = [pt_vaddr EXCEPT ![n] = length + 1] /\ pg_tbl_insert(n)
    <3>1. /\ made < MaxTables /\ made' = made + 1 /\ length' = length + 1
          /\ pt_vaddr' = [pt_vaddr EXCEPT ![n] = length + 1] /\ pg_tbl_insert(n)
      BY <2>3
    <3>2. ListInv' /\ stop' = "no"
      BY <2>0, <2>1, <2>n, <3>1, InsertFresh
    <3>3. /\ made \in Nat /\ MaxTables \in Nat /\ n \in Nodes /\ n \in Links /\ made' \in Links
      BY <2>0, <2>n, <3>1, PtHashmapAssumption DEF Types, Links, Nodes
    <3>4. pt_vaddr' \in [Nodes -> Nat]
      <4>1. length + 1 \in Nat /\ pt_vaddr \in [Nodes -> Nat]
        BY <2>0, <2>1 DEF Types
      <4>. QED
        BY <3>1, <4>1
    <3>5. vmm_hashmap' \in [Buckets -> Links]
      BY <2>0, <3>1, <3>3 DEF Types, pg_tbl_insert
    <3>6. next' \in [Nodes -> Links]
      BY <2>0, <3>1, <3>3 DEF Types, pg_tbl_insert
    <3>7. held' \subseteq Nodes
      BY <2>0, <3>1, <3>3 DEF Types, pg_tbl_insert
    <3>8. Types'
      BY <2>0, <2>1, <3>1, <3>3, <3>4, <3>5, <3>6, <3>7 DEF Types
    <3>9. PageInv'
      <4>1. \A m \in Nodes : pt_vaddr[m] <= length /\ pt_vaddr[m] \in Nat
        BY <2>0 DEF PageInv, Types
      <4>2. pt_vaddr'[n] = length + 1 /\ \A m \in Nodes : m # n => pt_vaddr'[m] = pt_vaddr[m]
        BY <2>0, <3>1, <3>3 DEF Types
      <4>3. \A m \in Nodes : pt_vaddr'[m] <= length'
        BY <2>1, <3>1, <4>1, <4>2
      <4>4. ASSUME NEW m \in Nodes, NEW k \in Nodes, m # k, pt_vaddr'[m] # 0
            PROVE  pt_vaddr'[m] # pt_vaddr'[k]
        <5>1. CASE m = n
          BY <2>1, <4>1, <4>2, <4>4, <5>1
        <5>2. CASE k = n
          BY <2>1, <4>1, <4>2, <4>4, <5>2
        <5>3. CASE m # n /\ k # n
          BY <2>0, <4>2, <4>4, <5>3 DEF PageInv
        <5>. QED
          BY <5>1, <5>2, <5>3
      <4>5. length' + InitialTables = InitialLength + made'
        <5>1. length + InitialTables = InitialLength + made
          BY <2>0 DEF PageInv
        <5>. QED
          BY <2>1, <3>1, <3>3, <5>1, PtHashmapAssumption
      <4>. QED
        BY <3>2, <4>3, <4>4, <4>5 DEF PageInv
    <3>. QED
      BY <1>0, <1>1, <2>0, <2>1, <3>2, <3>8, <3>9 DEF PtInv
  <2>. QED
    BY <2>n, <2>2, <2>3 DEF alloc_new_table
<1>2. CASE removed = 2
  <2>1. SecondInv
    BY <1>2 DEF PtInv
  <2>2. get_freed_pg_tbl # NULL
    BY <2>1 DEF SecondInv, get_freed_pg_tbl
  <2>. QED
    BY <2>2 DEF alloc_new_table
<1>3. CASE removed > 2
  BY <1>0, <1>3 DEF PtInv
<1>. QED
  BY <1>0, <1>1, <1>2, <1>3

\* Handing a removed node out again keeps the invariant.
LEMMA FreedTablePtInv ==
  ASSUME PtInv, alloc_freed_table
  PROVE  PtInv'
<1>0. removed \in Nat /\ removed' = removed
  BY DEF PtInv, alloc_freed_table
<1>1. CASE removed < 2
  <2>1. Types /\ ListInv
    BY <1>0, <1>1 DEF PtInv
  <2>. QED
    BY <2>1, NothingFreed DEF alloc_freed_table
<1>2. CASE removed = 2
  <2>1. Types /\ SecondInv
    BY <1>2 DEF PtInv
  <2>2. pg_tbl_insert(get_freed_pg_tbl) /\ UNCHANGED <<hash_function, pt_vaddr, tables, made, length>>
    BY DEF alloc_freed_table
  <2>3. SecondInv' /\ next' \in [Nodes -> Links] /\ vmm_hashmap' = vmm_hashmap /\ held' \subseteq Nodes
    BY <2>1, <2>2, InsertFreed
  <2>4. Types'
    BY <2>1, <2>2, <2>3 DEF Types
  <2>. QED
    BY <1>0, <1>2, <2>3, <2>4 DEF PtInv
<1>3. CASE removed > 2
  BY <1>0, <1>3 DEF PtInv
<1>. QED
  BY <1>0, <1>1, <1>2, <1>3

\* Every walk ends until the third removal.
LEMMA AllEnd ==
  ASSUME PtInv, removed < 3
  PROVE  Ends(tables) /\ \A b \in Buckets : Ends(vmm_hashmap[b])
<1>0. Types /\ removed \in Nat
  BY DEF PtInv
<1>1. CASE removed < 2
  <2>1. ListInv
    BY <1>1 DEF PtInv
  <2>2. next \in [Nodes -> Links] /\ tables \in Links /\ MaxTables \in Nat
    BY <1>0, PtHashmapAssumption DEF Types
  <2>3. CASE tables = NULL
    <3>1. At(tables, 0) = NULL
      BY <2>2, <2>3, WalkSteps
    <3>2. At(tables, MaxTables) = NULL
      BY <2>2, <3>1, NullStays
    <3>. QED
      BY <1>0, <2>1, <3>2, BucketEnds DEF Ends
  <2>4. CASE tables # NULL
    <3>1. tables \in Nodes /\ tables \notin Linked
      BY <2>2, <2>4 DEF Links, Nodes, NULL, Linked
    <3>2. next[tables] = NULL
      BY <2>1, <3>1 DEF ListInv
    <3>3. At(tables, 0) = tables /\ At(tables, 0 + 1) = NULL
      BY <2>2, <2>4, <3>2, WalkSteps
    <3>4. At(tables, 1) = NULL /\ 1 <= MaxTables
      BY <2>2, <3>1, <3>3 DEF Nodes
    <3>5. At(tables, MaxTables) = NULL
      BY <2>2, <3>4, NullStays
    <3>. QED
      BY <1>0, <2>1, <3>5, BucketEnds DEF Ends
  <2>. QED
    BY <2>3, <2>4
<1>2. CASE removed = 2
  BY <1>0, <1>2, SecondEnds DEF PtInv
<1>. QED
  BY <1>0, <1>1, <1>2

\* A removal keeps the invariant.
LEMMA RemovePtInv ==
  ASSUME PtInv, NEW n \in Nodes, vmm_hashmap_remove(n)
  PROVE  PtInv'
<1>f. PICK first : first = vmm_hashmap[hash_function[n]]
  OBVIOUS
<1>b. PICK before : before = Before(first, n)
  OBVIOUS
<1>p. PICK p : p = Previous(first, n)
  OBVIOUS
<1>1. /\ n \in held /\ held' = held \ {n} /\ stop = "no"
      /\ UNCHANGED <<vmm_hashmap, hash_function, pt_vaddr, made, length>>
      /\ before = {} => stop' = (IF Ends(first) THEN "no" ELSE "loop") /\ UNCHANGED <<next, tables, removed>>
      /\ before # {} => /\ next' = [next EXCEPT ![p] = next[n], ![n] = tables]
                        /\ tables' = n /\ removed' = removed + 1 /\ UNCHANGED stop
  BY <1>f, <1>b, <1>p DEF vmm_hashmap_remove, Before, Previous
<1>2. removed \in Nat
  BY DEF PtInv
<1>3. CASE removed >= 3
  BY <1>1, <1>2, <1>3 DEF PtInv
<1>4. CASE removed < 3 /\ before = {}
  <2>1. Types /\ UNCHANGED <<next, tables, removed>>
    BY <1>1, <1>4 DEF PtInv
  <2>2. first = vmm_hashmap[hash_function[n]] /\ hash_function[n] \in Buckets
    BY <1>f, <2>1 DEF Types
  <2>3. stop' = stop
    BY <1>1, <1>4, <2>2, AllEnd
  <2>4. Types'
    BY <1>1, <2>1 DEF Types
  <2>5. removed < 2 => ListInv' /\ PageInv' /\ (removed = 0 <=> tables = NULL)
    <3>1. ListInv => ListInv'
      BY <1>1, <2>1 DEF ListInv, After, Linked
    <3>2. PageInv => PageInv'
      BY <1>1, <2>3 DEF PageInv
    <3>. QED
      BY <3>1, <3>2 DEF PtInv
  <2>6. removed = 2 => SecondInv'
    BY <1>1, <2>1 DEF PtInv, SecondInv
  <2>. QED
    BY <1>2, <2>1, <2>4, <2>5, <2>6 DEF PtInv
<1>5. CASE removed < 3 /\ before # {}
  <2>1. /\ Types /\ next \in [Nodes -> Links] /\ first \in Links
        /\ next' = [next EXCEPT ![p] = next[n], ![n] = tables]
        /\ tables' = n /\ removed' = removed + 1 /\ UNCHANGED stop
    BY <1>f, <1>1, <1>5 DEF PtInv, Types
  <2>2. p \in Nodes /\ next[p] = n /\ p \in Visits(first)
    BY <1>b, <1>p, <1>5, <2>1, StopsBefore
  <2>3. Types'
    <3>1. next' \in [Nodes -> Links] /\ n \in Links
      BY <2>1, <2>2 DEF Types, Links, Nodes
    <3>. QED
      BY <1>1, <2>1, <3>1 DEF Types
  <2>4. CASE removed = 0
    <3>1. ListInv /\ PageInv /\ tables = NULL
      BY <2>4 DEF PtInv
    <3>2. ListInv'
      BY <1>f, <1>1, <2>1, <2>2, <3>1, FirstRemoval
    <3>3. PageInv'
      BY <1>1, <2>1, <3>1 DEF PageInv
    <3>4. tables' # NULL
      BY <2>1 DEF Nodes, NULL
    <3>. QED
      BY <2>1, <2>3, <2>4, <3>2, <3>3, <3>4 DEF PtInv
  <2>5. CASE removed = 1
    <3>1. ListInv /\ tables # NULL
      BY <2>5 DEF PtInv
    <3>2. SecondInv'
      BY <1>f, <1>1, <2>1, <2>2, <3>1, SecondRemoval
    <3>. QED
      BY <2>1, <2>3, <2>5, <3>2 DEF PtInv
  <2>6. CASE removed = 2
    BY <2>1, <2>6 DEF PtInv
  <2>. QED
    BY <1>2, <1>5, <2>4, <2>5, <2>6
<1>. QED
  BY <1>2, <1>3, <1>4, <1>5

\* PtInv is inductive.
LEMMA PtInvariant == Spec => []PtInv
<1>1. PtInv /\ [Next]_vars => PtInv'
  <2>. SUFFICES ASSUME PtInv, [Next]_vars PROVE PtInv'
    OBVIOUS
  <2>1. CASE alloc_pg_table
    BY <2>1, NewTablePtInv, FreedTablePtInv DEF alloc_pg_table
  <2>2. CASE \E n \in Nodes : vmm_hashmap_remove(n)
    BY <2>2, RemovePtInv
  <2>3. CASE UNCHANGED vars
    BY <2>3 DEF vars, PtInv, Types, ListInv, PageInv, SecondInv, After, Linked
  <2>. QED
    BY <2>1, <2>2, <2>3 DEF Next, Done
<1>. QED
  BY <1>1, InitPtInv, PTL DEF Spec

\* For any number of buckets, however the frames collide, get_ptbl_vaddr finds every
\* table in use until the second removal.
THEOREM TablesStayFound == Spec => []TablesInUseAreFound
<1>1. PtInv => TablesInUseAreFound
  BY HeldFound DEF PtInv, TablesInUseAreFound
<1>. QED
  BY <1>1, PtInvariant, PTL

\* Until the second removal alloc_pg_table fails only when kmalloc or pmm_alloc_page
\* does, the heap is full before a new table's page needs a table of its own, and two
\* tables in use never have a page in common.
THEOREM TablesStayApart == Spec => []TablesAreApart
<1>1. ASSUME PtInv, removed < 2
      PROVE  /\ stop \notin {"null", "loop"} /\ length < AreaPages
             /\ \A n, m \in held : n # m /\ pt_vaddr[n] # 0 => pt_vaddr[n] # pt_vaddr[m]
  <2>0. removed \in Nat /\ Types /\ PageInv
    BY <1>1 DEF PtInv
  <2>1. stop \notin {"null", "loop"}
    BY <2>0 DEF PageInv
  <2>2. length < AreaPages
    <3>1. made \in 0 .. MaxTables /\ length \in Nat /\ length + InitialTables = InitialLength + made
      BY <2>0 DEF PageInv, Types, Links
    <3>. QED
      BY <3>1, PtHashmapAssumption
  <2>3. \A n, m \in held : n # m /\ pt_vaddr[n] # 0 => pt_vaddr[n] # pt_vaddr[m]
    BY <2>0 DEF PageInv, Types
  <2>. QED
    BY <2>1, <2>2, <2>3
<1>2. PtInv => TablesAreApart
  BY <1>1 DEF TablesAreApart
<1>. QED
  BY <1>2, PtInvariant, PTL

\* No walk over the map or the list of removed tables is endless before the third
\* removal.
THEOREM WalksAlwaysEnd == Spec => []WalksEnd
<1>1. PtInv => WalksEnd
  BY AllEnd DEF WalksEnd
<1>. QED
  BY <1>1, PtInvariant, PTL
=============================================================================
