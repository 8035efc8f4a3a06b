---------------------------- MODULE TecMapProofs -----------------------------
(***************************************************************************)
(* Proofs about TecMap for any keys, values, addresses, capacity and hash. *)
(*                                                                         *)
(* BucketShape speaks of walks through the buckets.  The inductive         *)
(* invariant speaks of neighbours only: what a node's two links and the    *)
(* root of its bucket say of each other, and that going back along a       *)
(* bucket leads downwards in some order, so that there are no rings.       *)
(* IterComplete follows from what a loop has seen of its current bucket: a *)
(* set of nodes that only its current node leads out of.                   *)
(***************************************************************************)
EXTENDS TecMap, TLAPS, FiniteSetTheorems, WellFoundedInduction

(* The bucket a node belongs to.                                           *)
Bucket(n) == hash[nd[n].key]

(* A root has no node in front of it.                                      *)
RootLinks(b) ==
    root[b] # NULL => /\ root[b] \in alloc
                      /\ Bucket(root[b]) = b
                      /\ nd[root[b]].prev = NULL

(* The backward link of a node, or the root of its bucket, leads to it.    *)
Back(n) ==
    IF nd[n].prev = NULL
    THEN root[Bucket(n)] = n
    ELSE /\ nd[n].prev \in alloc
         /\ nd[nd[n].prev].next = n
         /\ Bucket(nd[n].prev) = Bucket(n)

(* The node behind it leads back to it.                                    *)
Forth(n) ==
    nd[n].next # NULL => /\ nd[n].next \in alloc
                         /\ nd[nd[n].next].prev = n
                         /\ Bucket(nd[n].next) = Bucket(n)

(* No other node has its key.                                              *)
Keyed(n) == /\ nd[n].key \in Keys
            /\ \A m \in alloc : nd[m].key = nd[n].key => m = n

(* What neighbours say of each other.                                      *)
Links == /\ \A b \in Buckets : RootLinks(b)
         /\ \A n \in alloc : Back(n) /\ Forth(n) /\ Keyed(n)

(* There are no rings.                                                     *)
Ranked == \E r \in [Nodes -> Nat] :
             \A n \in alloc : nd[n].prev # NULL => r[nd[n].prev] < r[n]

(* The current node of a loop is in the bucket the iterator is in.         *)
Current == it = "on" => capacity > 0 /\ cur \in alloc /\ Bucket(cur) = pos

(* The inductive invariant of the table.                                   *)
MapInv == TypeOK /\ Links /\ Ranked /\ Current /\ (capacity = 0 => alloc = {})

-------------------------------------------------------------------------------

(* Every set of numbers that is not empty has a least one.                 *)
LEMMA HasLeast ==
    ASSUME NEW T \in SUBSET Nat, T # {}
    PROVE  Least(T) \in T /\ \A n \in T : Least(T) <= n
<1> DEFINE R == OpToRel(<, Nat)
<1>1. IsWellFoundedOn(R, Nat)
  BY NatLessThanWellFounded
<1>2. \A m, n \in Nat : m < n => <<m, n>> \in R
  BY DEF OpToRel
<1> HIDE DEF R
<1>3. PICK m \in T : \A n \in T : <<n, m>> \notin R
  BY <1>1, WFMin
<1>4. ASSUME NEW n \in T PROVE m <= n
  <2>1. n \in Nat /\ m \in Nat /\ <<n, m>> \notin R
    BY <1>3
  <2>2. ~(n < m)
    BY <1>2, <2>1, Zenon
  <2> QED
    BY <2>1, <2>2
<1> QED
  BY <1>4 DEF Least

(* The node behind n.                                                      *)
After(n) == IF n = NULL THEN NULL ELSE nd[n].next

(* The length of the walks.                                                *)
N == Cardinality(Nodes)

(* There are finitely many addresses.                                      *)
LEMMA NIsNat == N \in Nat
BY NodesAssumption, FS_CardinalityType DEF N

(* The walk through a bucket begins with its root and follows the links.   *)
(* The recursive definition defines it: a first length that no walk has    *)
(* would be that of a shorter walk and one step.                           *)
LEMMA Walk ==
    ASSUME TypeOK, NEW b \in Buckets
    PROVE  /\ At(b) \in [0 .. N -> Nodes \cup {NULL}]
           /\ At(b)[0] = root[b]
           /\ \A i \in 1 .. N : At(b)[i] = After(At(b)[i - 1])
<1> DEFINE M == Nodes \cup {NULL}
           IsWalk(g, k) == g[0] = root[b] /\ \A i \in 1 .. k : g[i] = After(g[i - 1])
           Short == {k \in 0 .. N : ~ \E g \in [0 .. k -> M] : IsWalk(g, k)}
<1>1. N \in Nat
  BY NIsNat
<1>2. root[b] \in M /\ \A n \in M : After(n) \in M
  BY DEF TypeOK, After
<1>3. Short = {}
  <2> SUFFICES ASSUME Short # {} PROVE FALSE
    OBVIOUS
  <2> DEFINE k == Least(Short)
  <2>1. k \in Short /\ \A j \in Short : k <= j
    <3>1. Short \in SUBSET Nat
      BY <1>1
    <3> HIDE DEF Short
    <3> QED
      BY <3>1, HasLeast
  <2> HIDE DEF k
  <2>2. k \in 0 .. N /\ ~ \E g \in [0 .. k -> M] : IsWalk(g, k)
    BY <2>1
  <2>3. CASE k = 0
    <3> DEFINE g == [i \in 0 .. 0 |-> root[b]]
    <3>1. g \in [0 .. 0 -> M] /\ IsWalk(g, 0)
      BY <1>2
    <3> QED
      BY <2>2, <2>3, <3>1
  <2>4. CASE k # 0
    <3>1. k - 1 \in 0 .. N /\ k \in Nat /\ k - 1 \in Nat /\ ~(k <= k - 1)
      BY <1>1, <2>2, <2>4
    <3>2. k - 1 \notin Short
      BY <2>1, <3>1
    <3>3. PICK h \in [0 .. k - 1 -> M] : IsWalk(h, k - 1)
      BY <3>1, <3>2
    <3> DEFINE g == [i \in 0 .. k |-> IF i = k THEN After(h[k - 1]) ELSE h[i]]
    <3>4. h[k - 1] \in M /\ After(h[k - 1]) \in M
      BY <1>2, <3>1, <3>3
    <3>5. \A i \in 0 .. k : i # k => i \in 0 .. k - 1
      BY <3>1
    <3>6. g \in [0 .. k -> M]
      BY <3>3, <3>4, <3>5
    <3>7. g[0] = root[b]
      BY <3>1, <3>3
    <3>8. ASSUME NEW i \in 1 .. k PROVE g[i] = After(g[i - 1])
      <4>1. i \in 0 .. k /\ i - 1 \in 0 .. k /\ i - 1 # k
        BY <3>1
      <4>2. g[i - 1] = h[i - 1]
        BY <4>1
      <4>3. CASE i = k
        BY <4>1, <4>2, <4>3
      <4>4. CASE i # k
        <5>1. i \in 1 .. k - 1
          BY <3>1, <4>4
        <5>2. g[i] = h[i] /\ h[i] = After(h[i - 1])
          BY <3>3, <4>1, <4>4, <5>1
        <5> QED
          BY <4>2, <5>2
      <4> QED
        BY <4>3, <4>4
    <3> HIDE DEF g
    <3> QED
      BY <2>2, <3>6, <3>7, <3>8
  <2> QED
    BY <2>3, <2>4
<1>4. PICK g \in [0 .. N -> M] : IsWalk(g, N)
  <2>1. N \in 0 .. N
    BY <1>1
  <2>2. N \notin Short
    BY <1>3, Zenon
  <2> QED
    BY <2>1, <2>2
<1> DEFINE E(p) == [i \in 0 .. N |->
                       IF i = 0 THEN root[b]
                       ELSE IF p[i - 1] = NULL THEN NULL ELSE nd[p[i - 1]].next]
<1>5. At(b) = CHOOSE p : p = E(p)
  BY DEF At, N
<1>6. g = E(g)
  <2>1. \A i \in 0 .. N : i # 0 => i \in 1 .. N
    BY <1>1
  <2>2. \A i \in 0 .. N : g[i] = E(g)[i]
    BY <1>4, <2>1 DEF After
  <2> QED
    BY <2>2
<1>7. At(b) = E(At(b))
  <2> HIDE DEF E
  <2> QED
    BY <1>5, <1>6
<1>8. \A i \in 0 .. N : At(b)[i] = IF i = 0 THEN root[b] ELSE After(At(b)[i - 1])
  BY <1>7 DEF After
<1>9. 0 \in 0 .. N /\ \A i \in 1 .. N : i \in 0 .. N /\ i # 0
  BY <1>1
<1> HIDE DEF Short
<1> DEFINE T == {i \in 0 .. N : At(b)[i] \notin M}
<1>10. T = {}
  <2> SUFFICES ASSUME T # {} PROVE FALSE
    OBVIOUS
  <2> DEFINE k == Least(T)
  <2>1. k \in T /\ \A j \in T : k <= j
    <3>1. T \in SUBSET Nat
      BY <1>1
    <3> HIDE DEF T
    <3> QED
      BY <3>1, HasLeast
  <2> HIDE DEF k
  <2>2. k \in 0 .. N /\ At(b)[k] \notin M
    BY <2>1
  <2>3. k # 0 /\ At(b)[k] = After(At(b)[k - 1])
    BY <1>2, <1>8, <2>2
  <2>4. k - 1 \in 0 .. N /\ ~(k <= k - 1)
    BY <1>1, <2>2, <2>3
  <2>5. At(b)[k - 1] \in M
    BY <2>1, <2>4
  <2> QED
    BY <1>2, <2>2, <2>3, <2>5
<1>11. At(b) \in [0 .. N -> M]
  <2>1. \A i \in 0 .. N : At(b)[i] \in M
    BY <1>10
  <2> HIDE DEF M
  <2> QED
    BY <1>7, <2>1
<1> QED
  BY <1>8, <1>9, <1>11

-------------------------------------------------------------------------------

(* A walk meets nodes of its own bucket, each with the one before it as    *)
(* its predecessor, in rising order.                                       *)
LEMMA WalkMeets ==
    ASSUME MapInv, NEW b \in Buckets
    PROVE  \A i \in 0 .. N : At(b)[i] # NULL =>
              /\ At(b)[i] \in alloc /\ Bucket(At(b)[i]) = b
              /\ nd[At(b)[i]].prev = IF i = 0 THEN NULL ELSE At(b)[i - 1]
              /\ i # 0 => At(b)[i - 1] \in alloc
<1> DEFINE p == At(b)
           Good(i) == p[i] # NULL => p[i] \in alloc /\ Bucket(p[i]) = b
           T == {i \in 0 .. N : ~Good(i)}
<1>1. N \in Nat /\ NULL \notin Nodes /\ alloc \in SUBSET Nodes
  BY NIsNat, NullAssumption DEF MapInv, TypeOK
<1>2. /\ p \in [0 .. N -> Nodes \cup {NULL}] /\ p[0] = root[b]
      /\ \A i \in 1 .. N : p[i] = After(p[i - 1])
  BY Walk DEF MapInv
<1> HIDE DEF p
<1>3. ASSUME NEW i \in 1 .. N, p[i] # NULL
      PROVE  p[i - 1] # NULL /\ nd[p[i - 1]].next = p[i]
  BY <1>2, <1>3 DEF After
<1>4. T = {}
  <2> SUFFICES ASSUME T # {} PROVE FALSE
    OBVIOUS
  <2> DEFINE k == Least(T)
  <2>1. k \in T /\ \A j \in T : k <= j
    <3>1. T \in SUBSET Nat
      BY <1>1
    <3> HIDE DEF T
    <3> QED
      BY <3>1, HasLeast
  <2> HIDE DEF k
  <2>2. k \in 0 .. N /\ p[k] # NULL /\ ~Good(k)
    BY <2>1
  <2>3. CASE k = 0
    BY <1>2, <2>2, <2>3 DEF MapInv, Links, RootLinks
  <2>4. CASE k # 0
    <3>1. k - 1 \in 0 .. N /\ ~(k <= k - 1) /\ k \in 1 .. N
      BY <1>1, <2>2, <2>4
    <3>2. Good(k - 1) /\ p[k - 1] # NULL /\ nd[p[k - 1]].next = p[k]
      BY <1>3, <2>1, <2>2, <3>1
    <3> QED
      BY <2>2, <3>2 DEF MapInv, Links, Forth
  <2> QED
    BY <2>3, <2>4
<1>5. \A i \in 0 .. N : Good(i)
  BY <1>4
<1>6. ASSUME NEW i \in 0 .. N, p[i] # NULL
      PROVE  /\ nd[p[i]].prev = IF i = 0 THEN NULL ELSE p[i - 1]
             /\ i # 0 => p[i - 1] \in alloc
  <2>1. CASE i = 0
    BY <1>2, <1>6, <2>1 DEF MapInv, Links, RootLinks
  <2>2. CASE i # 0
    <3>1. i - 1 \in 0 .. N /\ i \in 1 .. N
      BY <1>1, <2>2
    <3>2. p[i - 1] # NULL /\ nd[p[i - 1]].next = p[i]
      BY <1>3, <1>6, <3>1
    <3>3. p[i - 1] \in alloc
      BY <1>5, <3>1, <3>2
    <3> QED
      BY <1>6, <2>2, <3>2, <3>3 DEF MapInv, Links, Forth
  <2> QED
    BY <2>1, <2>2
<1> QED
  BY <1>5, <1>6 DEF p

(* No node is met twice.                                                   *)
LEMMA WalkDistinct ==
    ASSUME MapInv, NEW b \in Buckets, NEW i \in 0 .. N, NEW j \in 0 .. N,
           i < j, At(b)[j] # NULL
    PROVE  At(b)[i] # NULL /\ At(b)[i] # At(b)[j]
<1> DEFINE p == At(b)
<1>1. N \in Nat /\ NULL \notin Nodes /\ alloc \in SUBSET Nodes
  BY NIsNat, NullAssumption DEF MapInv, TypeOK
<1>2. PICK r \in [Nodes -> Nat] :
         \A n \in alloc : nd[n].prev # NULL => r[nd[n].prev] < r[n]
  BY DEF MapInv, Ranked
<1>3. \A k \in 0 .. N : p[k] # NULL =>
         /\ p[k] \in alloc
         /\ nd[p[k]].prev = IF k = 0 THEN NULL ELSE p[k - 1]
         /\ k # 0 => p[k - 1] \in alloc
  BY WalkMeets
<1> HIDE DEF p
<1> DEFINE Below(k) == p[k] # NULL => p[i] # NULL /\ r[p[i]] < r[p[k]]
           B == {k \in 0 .. N : i < k /\ ~Below(k)}
<1>4. B = {}
  <2> SUFFICES ASSUME B # {} PROVE FALSE
    OBVIOUS
  <2> DEFINE k == Least(B)
  <2>1. k \in B /\ \A l \in B : k <= l
    <3>1. B \in SUBSET Nat
      BY <1>1
    <3> HIDE DEF B
    <3> QED
      BY <3>1, HasLeast
  <2> HIDE DEF k
  <2>2. k \in 0 .. N /\ i < k /\ ~Below(k) /\ p[k] # NULL
    BY <2>1
  <2>3. k \in Nat /\ k # 0 /\ k - 1 \in 0 .. N /\ ~(k <= k - 1) /\ (i = k - 1 \/ i < k - 1)
    BY <1>1, <2>2
  <2>4. /\ p[k - 1] \in alloc /\ p[k - 1] # NULL /\ p[k] \in alloc
        /\ nd[p[k]].prev = p[k - 1]
    BY <1>1, <1>3, <2>2, <2>3
  <2>5. r[p[k - 1]] < r[p[k]] /\ r[p[k - 1]] \in Nat /\ r[p[k]] \in Nat
    BY <1>1, <1>2, <2>4
  <2>6. CASE i = k - 1
    BY <2>2, <2>4, <2>5, <2>6
  <2>7. CASE i < k - 1
    <3>1. Below(k - 1)
      BY <2>1, <2>3, <2>7
    <3>2. p[i] # NULL /\ r[p[i]] < r[p[k - 1]]
      BY <2>4, <3>1
    <3>3. p[i] \in Nodes
      BY <1>1, <1>3, <3>2
    <3>4. r[p[i]] \in Nat
      BY <1>2, <3>3
    <3> QED
      BY <2>2, <2>5, <3>2, <3>4
  <2> QED
    BY <2>3, <2>6, <2>7
<1>5. Below(j)
  BY <1>4
<1>6. p[i] # NULL /\ r[p[i]] < r[p[j]]
  BY <1>5 DEF p
<1>7. p[i] \in Nodes
  BY <1>1, <1>3, <1>6
<1>8. r[p[i]] \in Nat
  BY <1>2, <1>7
<1> QED
  BY <1>6, <1>8 DEF p

(* A walk ends within as many links as there are addresses.                *)
LEMMA WalkEnds ==
    ASSUME MapInv, NEW b \in Buckets
    PROVE  At(b)[N] = NULL
<1> SUFFICES ASSUME At(b)[N] # NULL PROVE FALSE
  OBVIOUS
<1> DEFINE p == At(b)
<1>1. N \in Nat /\ N \in 0 .. N /\ p \in [0 .. N -> Nodes \cup {NULL}]
  BY NIsNat, Walk DEF MapInv
<1>2. ASSUME NEW i \in 0 .. N, NEW j \in 0 .. N, i < j, p[j] # NULL
      PROVE  p[i] # NULL /\ p[i] # p[j]
  BY <1>2, WalkDistinct
<1>3. p[N] # NULL
  OBVIOUS
<1> HIDE DEF p
<1>4. \A i \in 0 .. N : i = N \/ i < N
  BY <1>1
<1>5. \A i \in 0 .. N : p[i] # NULL
  BY <1>1, <1>2, <1>3, <1>4
<1>6. \A i, j \in 0 .. N : i = j \/ i < j \/ j < i
  BY <1>1
<1>7. \A i, j \in 0 .. N : p[i] = p[j] => i = j
  BY <1>2, <1>5, <1>6
<1>8. p \in Injection(0 .. N, Nodes)
  <2>1. p \in [0 .. N -> Nodes]
    BY <1>1, <1>5
  <2> QED
    BY <1>7, <2>1 DEF Injection, IsInjective
<1>9. Cardinality(0 .. N) <= N
  BY <1>8, NodesAssumption, FS_Injection DEF N
<1>10. Cardinality(0 .. N) = N + 1
  <2>1. 0 \in Int /\ N \in Int /\ ~(0 > N) /\ N - 0 + 1 = N + 1
    BY <1>1
  <2> QED
    BY <2>1, FS_Interval
<1> QED
  BY <1>1, <1>9, <1>10

(* Every node is met: a lowest one that is not would be the root of its    *)
(* bucket, or the successor of one that is.                                *)
LEMMA WalkReaches ==
    ASSUME MapInv, NEW n \in alloc
    PROVE  \E i \in 0 .. N : At(Bucket(n))[i] = n
<1> DEFINE U == {m \in alloc : ~ \E i \in 0 .. N : At(Bucket(m))[i] = m}
<1> SUFFICES ASSUME U # {} PROVE FALSE
  OBVIOUS
<1>1. PICK r \in [Nodes -> Nat] :
         \A m \in alloc : nd[m].prev # NULL => r[nd[m].prev] < r[m]
  BY DEF MapInv, Ranked
<1>2. N \in Nat /\ NULL \notin Nodes /\ alloc \in SUBSET Nodes
  BY NIsNat, NullAssumption DEF MapInv, TypeOK
<1> DEFINE T == {r[m] : m \in U}
<1>3. PICK m \in U : \A l \in U : r[m] <= r[l]
  <2>1. T \in SUBSET Nat /\ T # {}
    BY <1>1, <1>2
  <2>2. Least(T) \in T /\ \A l \in T : Least(T) <= l
    <3> HIDE DEF T
    <3> QED
      BY <2>1, HasLeast
  <2> QED
    BY <2>2
<1>4. m \in alloc /\ ~ \E i \in 0 .. N : At(Bucket(m))[i] = m
  BY <1>3
<1> DEFINE b == Bucket(m)
           q == nd[m].prev
<1>5. b \in Buckets
  BY <1>4 DEF MapInv, Links, Keyed, Bucket, TypeOK
<1>6. /\ At(b)[0] = root[b]
      /\ \A i \in 1 .. N : At(b)[i] = After(At(b)[i - 1])
  BY <1>5, Walk DEF MapInv
<1>7. CASE q = NULL
  <2>1. root[b] = m
    BY <1>4, <1>7 DEF MapInv, Links, Back
  <2>2. 0 \in 0 .. N
    BY <1>2
  <2> QED
    BY <1>4, <1>6, <2>1, <2>2
<1>8. CASE q # NULL
  <2>1. q \in alloc /\ nd[q].next = m /\ Bucket(q) = b
    BY <1>4, <1>8 DEF MapInv, Links, Back
  <2>2. r[q] < r[m] /\ r[q] \in Nat /\ r[m] \in Nat
    BY <1>1, <1>2, <1>4, <1>8, <2>1
  <2>3. q \notin U
    <3>1. ~(r[m] <= r[q])
      BY <2>2
    <3> HIDE DEF U
    <3> QED
      BY <1>3, <3>1
  <2>4. PICK i \in 0 .. N : At(b)[i] = q
    BY <2>1, <2>3
  <2>5. i # N
    BY <1>5, <1>8, <2>4, WalkEnds
  <2>6. i + 1 \in 1 .. N /\ i + 1 \in 0 .. N /\ (i + 1) - 1 = i
    BY <1>2, <2>4, <2>5
  <2>7. At(b)[i + 1] = m
    BY <1>6, <1>8, <2>1, <2>4, <2>6 DEF After
  <2> QED
    BY <1>4, <2>6, <2>7
<1> QED
  BY <1>7, <1>8

-------------------------------------------------------------------------------

(* find_node returns the node of the key, if there is one.                 *)
LEMMA FindsNode ==
    ASSUME MapInv, NEW k \in Keys
    PROVE  /\ \A n \in alloc : nd[n].key = k => Found(k) = n
           /\ Found(k) # NULL => Found(k) \in alloc /\ nd[Found(k)].key = k
           /\ (\A n \in alloc : nd[n].key # k) => Found(k) = NULL
<1> DEFINE p == At(hash[k])
           hits == {i \in DOMAIN p : p[i] # NULL /\ nd[p[i]].key = k}
<1>1. Found(k) = IF hits = {} THEN NULL ELSE p[Least(hits)]
  BY DEF Found
<1>2. hash[k] \in Buckets /\ N \in Nat /\ NULL \notin Nodes /\ alloc \in SUBSET Nodes
  BY NIsNat, NullAssumption DEF MapInv, TypeOK
<1>3. p \in [0 .. N -> Nodes \cup {NULL}]
  BY <1>2, Walk DEF MapInv
<1>4. \A i \in 0 .. N : p[i] # NULL => p[i] \in alloc
  BY <1>2, WalkMeets
<1>5. ASSUME NEW n \in alloc, nd[n].key = k PROVE \E i \in 0 .. N : p[i] = n
  BY <1>5, WalkReaches DEF Bucket
<1> HIDE DEF p
<1>6. hits \in SUBSET Nat /\ \A i \in hits : i \in 0 .. N /\ p[i] \in alloc /\ nd[p[i]].key = k
  BY <1>2, <1>3, <1>4
<1>7. ASSUME NEW n \in alloc, nd[n].key = k PROVE hits # {}
  BY <1>2, <1>3, <1>5, <1>7
<1> HIDE DEF hits
<1>8. hits # {} => Found(k) \in alloc /\ nd[Found(k)].key = k
  BY <1>1, <1>6, HasLeast
<1>9. \A m, n \in alloc : nd[m].key = k /\ nd[n].key = k => m = n
  BY DEF MapInv, Links, Keyed
<1> QED
  BY <1>1, <1>7, <1>8, <1>9

(* TecMap_clear frees all nodes.                                           *)
LEMMA ReachesAll ==
    ASSUME MapInv
    PROVE  Reached = alloc
<1>1. alloc \in SUBSET Nodes /\ NULL \notin Nodes
  BY NullAssumption DEF MapInv, TypeOK
<1>2. ASSUME NEW b \in Buckets PROVE DOMAIN At(b) = 0 .. N
  BY Walk DEF MapInv
<1>3. Reached \subseteq alloc
  <2> SUFFICES ASSUME NEW n \in Nodes, NEW b \in Buckets, NEW i \in 0 .. N, At(b)[i] = n
               PROVE  n \in alloc
    BY <1>2 DEF Reached
  <2> QED
    BY <1>1, WalkMeets
<1>4. ASSUME NEW n \in alloc PROVE n \in Reached
  <2>1. Bucket(n) \in Buckets
    BY DEF MapInv, Links, Keyed, Bucket, TypeOK
  <2> QED
    BY <1>1, <1>2, <2>1, WalkReaches DEF Reached
<1> QED
  BY <1>3, <1>4

(* The bucket an iterator goes to, all before it being empty.              *)
LEMMA NextBucketFinds ==
    ASSUME TypeOK, NEW b \in Nat, b <= capacity
    PROVE  /\ NextBucket(b) # capacity =>
                 /\ NextBucket(b) \in b .. capacity - 1
                 /\ NextBucket(b) \in Buckets
                 /\ root[NextBucket(b)] \in Nodes
           /\ \A c \in Buckets : b <= c /\ c < capacity /\ root[c] # NULL
                 => NextBucket(b) <= c /\ NextBucket(b) # capacity
<1> DEFINE S == {c \in b .. capacity - 1 : root[c] # NULL} \cup {capacity}
<1>1. capacity \in Nat /\ (capacity = 0 \/ capacity = Capacity) /\ Capacity \in Nat
  BY CapacityAssumption DEF TypeOK
<1>2. S \in SUBSET Nat /\ S # {}
  BY <1>1
<1>3. NextBucket(b) = Least(S)
  BY DEF NextBucket
<1>4. \A c \in b .. capacity - 1 : c \in Buckets
  BY <1>1 DEF Buckets
<1>5. \A c \in Buckets : root[c] \in Nodes \cup {NULL} /\ c \in Nat
  BY <1>1 DEF TypeOK, Buckets
<1>6. Least(S) \in S /\ \A c \in S : Least(S) <= c
  <2> HIDE DEF S
  <2> QED
    BY <1>2, HasLeast
<1>7. \A c \in Buckets : b <= c /\ c < capacity /\ root[c] # NULL => c \in S
  BY <1>1, <1>5
<1>8. Least(S) \in Nat
  BY <1>2, <1>6
<1>9. ASSUME NEW c \in Buckets, b <= c, c < capacity, root[c] # NULL
      PROVE  Least(S) <= c /\ Least(S) # capacity
  <2>1. Least(S) <= c
    BY <1>6, <1>7, <1>9
  <2> HIDE DEF S
  <2> QED
    BY <1>1, <1>5, <1>8, <1>9, <2>1
<1>10. Least(S) # capacity => /\ Least(S) \in b .. capacity - 1
                              /\ root[Least(S)] # NULL
  BY <1>6
<1> HIDE DEF S
<1> QED
  BY <1>3, <1>4, <1>5, <1>9, <1>10

-------------------------------------------------------------------------------

(* A step that changes values only.                                        *)
LEMMA LinksKept ==
    ASSUME MapInv, UNCHANGED <<hash, root, alloc>>,
           \A n \in alloc : /\ nd'[n].key = nd[n].key
                            /\ nd'[n].prev = nd[n].prev
                            /\ nd'[n].next = nd[n].next
    PROVE  Links' /\ Ranked' /\ \A n \in alloc : Bucket(n)' = Bucket(n)
<1>1. \A n \in alloc : Bucket(n)' = Bucket(n)
  BY DEF Bucket
<1>2. \A b \in Buckets : RootLinks(b)'
  BY <1>1 DEF MapInv, Links, RootLinks
<1>3. ASSUME NEW n \in alloc PROVE Back(n)' /\ Forth(n)' /\ Keyed(n)'
  BY <1>1 DEF MapInv, Links, Back, Forth, Keyed
<1>4. Ranked'
  BY DEF MapInv, Ranked
<1> QED
  BY <1>1, <1>2, <1>3, <1>4 DEF Links

(* What a push in front of a bucket does to the links and keys.            *)
PushStep(n, k) ==
    /\ \A m \in alloc : /\ Bucket(m)' = Bucket(m)
                        /\ nd'[m].key = nd[m].key /\ nd'[m].next = nd[m].next
                        /\ nd'[m].prev = IF m = root[hash[k]] THEN n
                                         ELSE nd[m].prev
                        /\ nd[m].key # k
    /\ nd'[n].key = k /\ nd'[n].prev = NULL /\ nd'[n].next = root[hash[k]]
    /\ Bucket(n)' = hash[k]

(* new_node puts a node in front of its bucket.                            *)
LEMMA PushKeeps ==
    ASSUME MapInv, NEW k \in Keys, NEW v \in Values, NEW n \in Nodes \ alloc,
           Found(k) = NULL, UNCHANGED hash,
           alloc' = alloc \cup {n}, nd' = Pushed(n, k, v),
           root' = [root EXCEPT ![hash[k]] = n]
    PROVE  Links' /\ Ranked' /\ PushStep(n, k)
<1> DEFINE h == hash[k]
           o == root[h]
<1>1. h \in Buckets /\ NULL \notin Nodes /\ alloc \in SUBSET Nodes
      /\ root \in [Buckets -> Nodes \cup {NULL}]
  BY NullAssumption DEF MapInv, TypeOK
<1>2. /\ nd'[n].key = k /\ nd'[n].prev = NULL /\ nd'[n].next = o
  BY DEF Pushed
<1>3. ASSUME NEW m \in alloc
      PROVE  /\ nd'[m].key = nd[m].key /\ nd'[m].next = nd[m].next
             /\ nd'[m].prev = IF m = o THEN n ELSE nd[m].prev
             /\ m # n
  <2>1. m \in Nodes /\ m # n
    BY <1>1
  <2>2. nd[m] \in [key : Keys \cup {NULL}, value : Values \cup {NULL},
                   prev : Nodes \cup {NULL}, next : Nodes \cup {NULL}]
    BY <2>1 DEF MapInv, TypeOK
  <2>3. nd'[m] = IF m = o THEN [nd[m] EXCEPT !.prev = n] ELSE nd[m]
    BY <2>1 DEF Pushed
  <2> QED
    BY <2>1, <2>2, <2>3
<1>4. (\A m \in alloc : Bucket(m)' = Bucket(m)) /\ Bucket(n)' = h
  BY <1>2, <1>3 DEF Bucket
<1>5. o # NULL => o \in alloc /\ Bucket(o) = h /\ nd[o].prev = NULL
  BY <1>1 DEF MapInv, Links, RootLinks
<1>6. \A m \in alloc : nd[m].key # k
  BY <1>1, FindsNode
<1>7. root'[h] = n /\ \A b \in Buckets : b # h => root'[b] = root[b]
  BY <1>1
<1> HIDE DEF o, h
<1>8. ASSUME NEW b \in Buckets PROVE RootLinks(b)'
  <2>1. CASE b = h
    BY <1>2, <1>4, <1>7, <2>1 DEF RootLinks
  <2>2. CASE b # h
    <3>1. root[b] # NULL => root[b] \in alloc /\ Bucket(root[b]) = b /\ nd[root[b]].prev = NULL
      BY DEF MapInv, Links, RootLinks
    <3>2. root[b] # NULL => root[b] # o
      BY <1>5, <2>2, <3>1
    <3> QED
      BY <1>3, <1>4, <1>7, <2>2, <3>1, <3>2 DEF RootLinks
  <2> QED
    BY <2>1, <2>2
<1>9. ASSUME NEW m \in alloc PROVE Back(m)'
  <2>1. Bucket(m) \in Buckets /\ Back(m)
    BY DEF MapInv, Links, Keyed, Bucket, TypeOK
  <2>2. CASE m = o
    BY <1>1, <1>2, <1>3, <1>4, <1>5, <2>2 DEF Back
  <2>3. CASE m # o
    <3>1. CASE nd[m].prev = NULL
      <4>1. Bucket(m) # h
        BY <2>1, <2>3, <3>1 DEF Back, o
      <4> QED
        BY <1>3, <1>4, <1>7, <2>1, <2>3, <3>1, <4>1 DEF Back
    <3>2. CASE nd[m].prev # NULL
      BY <1>3, <1>4, <2>1, <2>3, <3>2 DEF Back
    <3> QED
      BY <3>1, <3>2
  <2> QED
    BY <2>2, <2>3
<1>10. ASSUME NEW m \in alloc PROVE Forth(m)'
  <2>1. Forth(m)
    BY DEF MapInv, Links
  <2>2. nd[m].next # NULL => nd[m].next # o
    BY <1>1, <1>5, <2>1 DEF Forth
  <2> QED
    BY <1>3, <1>4, <2>1, <2>2 DEF Forth
<1>11. Back(n)' /\ Forth(n)'
  BY <1>2, <1>3, <1>4, <1>5, <1>7 DEF Back, Forth
<1>12. ASSUME NEW m \in alloc \cup {n} PROVE Keyed(m)'
  <2>1. \A l \in alloc : Keyed(l)
    BY DEF MapInv, Links
  <2> QED
    BY <1>2, <1>3, <1>6, <2>1 DEF Keyed
<1>13. Ranked'
  <2>1. PICK r \in [Nodes -> Nat] :
           \A m \in alloc : nd[m].prev # NULL => r[nd[m].prev] < r[m]
    BY DEF MapInv, Ranked
  <2> DEFINE q == [m \in Nodes |-> IF m = n THEN 0 ELSE r[m] + 1]
  <2>2. q \in [Nodes -> Nat]
    BY <2>1
  <2>3. ASSUME NEW m \in alloc', nd'[m].prev # NULL PROVE q[nd'[m].prev] < q[m]
    <3>1. m \in alloc /\ m \in Nodes /\ m # n
      BY <1>1, <1>2, <2>3
    <3>2. q[m] = r[m] + 1 /\ r[m] \in Nat /\ q[n] = 0
      BY <2>1, <3>1
    <3>3. CASE m = o
      BY <1>3, <3>1, <3>2, <3>3
    <3>4. CASE m # o
      <4>1. nd'[m].prev = nd[m].prev /\ nd[m].prev \in alloc
        BY <1>3, <2>3, <3>1, <3>4 DEF MapInv, Links, Back
      <4>2. nd[m].prev \in Nodes /\ nd[m].prev # n
        BY <1>1, <4>1
      <4>3. q[nd[m].prev] = r[nd[m].prev] + 1 /\ r[nd[m].prev] \in Nat
        BY <2>1, <4>2
      <4>4. r[nd[m].prev] < r[m]
        BY <2>1, <2>3, <3>1, <4>1
      <4> QED
        BY <3>2, <4>1, <4>3, <4>4
    <3> QED
      BY <3>3, <3>4
  <2> HIDE DEF q
  <2> QED
    BY <2>2, <2>3 DEF Ranked
<1> QED
  BY <1>2, <1>3, <1>4, <1>6, <1>8, <1>9, <1>10, <1>11, <1>12, <1>13
     DEF Links, PushStep, o, h

(* TecMap_remove takes a node out of its bucket, wherever it is.           *)
LEMMA UnlinkKeeps ==
    ASSUME MapInv, NEW n \in alloc, UNCHANGED hash,
           alloc' = alloc \ {n}, nd' = Unlinked(n),
           root' = IF nd[n].prev = NULL
                   THEN [root EXCEPT ![Bucket(n)] = nd[n].next] ELSE root
    PROVE  /\ Links' /\ Ranked'
           /\ \A m \in alloc' : /\ Bucket(m)' = Bucket(m)
                                /\ nd'[m].key = nd[m].key /\ nd'[m].value = nd[m].value
                                /\ nd'[m].next = IF m = nd[n].prev THEN nd[n].next
                                                 ELSE nd[m].next
                                /\ nd'[m].prev = IF m = nd[n].next THEN nd[n].prev
                                                 ELSE nd[m].prev
           /\ nd[n].prev # n /\ nd[n].next # n
<1> DEFINE h == Bucket(n)
           p == nd[n].prev
           x == nd[n].next
<1>1. h \in Buckets /\ NULL \notin Nodes /\ alloc \in SUBSET Nodes
      /\ root \in [Buckets -> Nodes \cup {NULL}]
  BY NullAssumption DEF MapInv, TypeOK, Links, Keyed, Bucket
<1>2. PICK r \in [Nodes -> Nat] :
         \A m \in alloc : nd[m].prev # NULL => r[nd[m].prev] < r[m]
  BY DEF MapInv, Ranked
<1>3. Back(n) /\ Forth(n)
  BY DEF MapInv, Links
<1>4. p # n
  <2>1. r[n] \in Nat /\ ~(r[n] < r[n])
    BY <1>1, <1>2
  <2> QED
    BY <1>1, <1>2, <2>1
<1>5. x # n
  BY <1>1, <1>3, <1>4 DEF Forth
<1>6. ASSUME NEW m \in alloc \ {n}
      PROVE  /\ nd'[m].key = nd[m].key /\ nd'[m].value = nd[m].value
             /\ nd'[m].next = IF m = p THEN x ELSE nd[m].next
             /\ nd'[m].prev = IF m = x THEN p ELSE nd[m].prev
  <2>1. m \in Nodes /\ m # n
    BY <1>1
  <2>2. nd[m] \in [key : Keys \cup {NULL}, value : Values \cup {NULL},
                   prev : Nodes \cup {NULL}, next : Nodes \cup {NULL}]
    BY <2>1 DEF MapInv, TypeOK
  <2>3. nd'[m] = [nd[m] EXCEPT !.next = IF m = p THEN x ELSE @,
                               !.prev = IF m = x THEN p ELSE @]
    BY <2>1 DEF Unlinked
  <2> QED
    BY <2>2, <2>3
<1>7. \A m \in alloc \ {n} : Bucket(m)' = Bucket(m)
  BY <1>6 DEF Bucket
<1>8. /\ p = NULL => root'[h] = x /\ root[h] = n
      /\ \A b \in Buckets : b # h \/ p # NULL => root'[b] = root[b]
  BY <1>1, <1>3 DEF Back
<1>9. p # NULL => p \in alloc /\ nd[p].next = n /\ Bucket(p) = h
  BY <1>3 DEF Back
<1>10. x # NULL => x \in alloc /\ nd[x].prev = n /\ Bucket(x) = h
  BY <1>3 DEF Forth
<1> HIDE DEF p, x, h
<1>11. ASSUME NEW b \in Buckets PROVE RootLinks(b)'
  <2>1. CASE b = h /\ p = NULL
    BY <1>5, <1>6, <1>7, <1>8, <1>10, <2>1 DEF RootLinks
  <2>2. CASE b # h \/ p # NULL
    <3>1. RootLinks(b) /\ root'[b] = root[b]
      BY <1>8, <2>2 DEF MapInv, Links
    <3>2. root[b] # n
      BY <1>1, <2>2, <3>1 DEF RootLinks, p, h
    <3>3. root[b] # NULL => root[b] # x
      BY <1>1, <1>10, <3>1 DEF RootLinks
    <3> QED
      BY <1>6, <1>7, <3>1, <3>2, <3>3 DEF RootLinks
  <2> QED
    BY <2>1, <2>2
<1>12. ASSUME NEW m \in alloc \ {n} PROVE Back(m)'
  <2>1. Bucket(m) \in Buckets /\ Back(m)
    BY DEF MapInv, Links, Keyed, Bucket, TypeOK
  <2>2. CASE m = x
    <3>1. CASE p = NULL
      BY <1>1, <1>6, <1>7, <1>8, <1>10, <2>2, <3>1 DEF Back
    <3>2. CASE p # NULL
      BY <1>1, <1>4, <1>6, <1>7, <1>9, <1>10, <2>2, <3>2 DEF Back
    <3> QED
      BY <3>1, <3>2
  <2>3. CASE m # x
    <3>1. CASE nd[m].prev = NULL
      <4>1. root[Bucket(m)] = m
        BY <2>1, <3>1 DEF Back
      <4>2. root'[Bucket(m)] = m
        BY <1>8, <2>1, <4>1
      <4> QED
        BY <1>6, <1>7, <2>3, <3>1, <4>2 DEF Back
    <3>2. CASE nd[m].prev # NULL
      <4> DEFINE l == nd[m].prev
      <4>1. l \in alloc /\ nd[l].next = m /\ Bucket(l) = Bucket(m)
        BY <2>1, <3>2 DEF Back
      <4>2. l # n
        BY <2>3, <4>1 DEF x
      <4>3. l # p
        BY <1>9, <3>2, <4>1
      <4>4. nd'[m].prev = l /\ nd'[l].next = m
        BY <1>6, <2>3, <4>1, <4>2, <4>3
      <4> QED
        BY <1>7, <3>2, <4>1, <4>2, <4>4 DEF Back
    <3> QED
      BY <3>1, <3>2
  <2> QED
    BY <2>2, <2>3
<1>13. ASSUME NEW m \in alloc \ {n} PROVE Forth(m)'
  <2>1. Forth(m)
    BY DEF MapInv, Links
  <2>2. CASE m = p
    BY <1>1, <1>5, <1>6, <1>7, <1>9, <1>10, <2>2 DEF Forth
  <2>3. CASE m # p
    <3> DEFINE l == nd[m].next
    <3> SUFFICES ASSUME l # NULL PROVE Forth(m)'
      BY <1>6, <2>3 DEF Forth
    <3>1. l \in alloc /\ nd[l].prev = m /\ Bucket(l) = Bucket(m)
      BY <2>1 DEF Forth
    <3>2. l # n
      BY <2>3, <3>1 DEF p
    <3>3. l # x
      BY <1>10, <3>1
    <3>4. nd'[m].next = l /\ nd'[l].prev = m
      BY <1>6, <2>3, <3>1, <3>2, <3>3
    <3> QED
      BY <1>7, <3>1, <3>2, <3>4 DEF Forth
  <2> QED
    BY <2>2, <2>3
<1>14. ASSUME NEW m \in alloc \ {n} PROVE Keyed(m)'
  <2>1. \A l \in alloc : Keyed(l)
    BY DEF MapInv, Links
  <2> QED
    BY <1>6, <2>1 DEF Keyed
<1>15. Ranked'
  <2>1. ASSUME NEW m \in alloc \ {n}, nd'[m].prev # NULL
        PROVE  r[nd'[m].prev] < r[m]
    <3>1. CASE m = x
      <4>1. nd'[m].prev = p /\ p # NULL /\ p \in alloc
        BY <1>6, <1>9, <2>1, <3>1
      <4>2. r[p] < r[n]
        BY <1>2, <4>1 DEF p
      <4>3. r[n] < r[m]
        BY <1>1, <1>2, <1>10, <3>1
      <4>4. r[p] \in Nat /\ r[n] \in Nat /\ r[m] \in Nat
        BY <1>1, <1>2, <4>1
      <4> QED
        BY <4>1, <4>2, <4>3, <4>4
    <3>2. CASE m # x
      BY <1>2, <1>6, <2>1, <3>2
    <3> QED
      BY <3>1, <3>2
  <2> QED
    BY <1>2, <2>1 DEF Ranked
<1> QED
  BY <1>4, <1>5, <1>6, <1>7, <1>11, <1>12, <1>13, <1>14, <1>15 DEF Links, p, x

-------------------------------------------------------------------------------

(* The types of what the iterator sees.                                    *)
LEMMA SeeTyped ==
    ASSUME MapInv, NEW n \in alloc, visited' = [visited EXCEPT ![nd[n].key] = @ + 1]
    PROVE  visited' \in [Keys -> Nat] /\ nd[n].key \in Keys
BY DEF MapInv, TypeOK, Links, Keyed

(* Every operation of the table and the iterator keeps the invariant.      *)
LEMMA MapInvHolds == Spec => []MapInv
<1>1. Init => MapInv
  <2> SUFFICES ASSUME Init PROVE MapInv
    OBVIOUS
  <2>1. TypeOK
    <3>1. 0 \in Buckets
      BY CapacityAssumption DEF Buckets
    <3> QED
      BY <3>1, FS_EmptySet DEF Init, TypeOK, Blank
  <2>2. Links
    BY DEF Init, Links, RootLinks
  <2>3. Ranked
    <3>1. [n \in Nodes |-> 0] \in [Nodes -> Nat]
      OBVIOUS
    <3> QED
      BY <3>1 DEF Init, Ranked
  <2> QED
    BY <2>1, <2>2, <2>3 DEF Init, MapInv, Current
<1>2. MapInv /\ [Next]_vars => MapInv'
  <2> SUFFICES ASSUME MapInv, [Next]_vars PROVE MapInv'
    OBVIOUS
  <2>0. /\ TypeOK /\ Links /\ Ranked /\ Current /\ (capacity = 0 => alloc = {})
        /\ NULL \notin Nodes /\ Capacity \in Nat \ {0} /\ IsFiniteSet(alloc)
        /\ alloc \in SUBSET Nodes
    BY NullAssumption, CapacityAssumption, NodesAssumption, FS_Subset
       DEF MapInv, TypeOK
  <2>1. CASE MapInit
    <3>1. /\ alloc = {} /\ alloc' = {} /\ size' = 0 /\ capacity' = Capacity
          /\ root' = [b \in Buckets |-> NULL] /\ it # "on"
          /\ UNCHANGED <<hash, nd, ret, it, pos, cur, visited, stay>>
      BY <2>0, <2>1 DEF MapInit, iterVars, histVars, Current
    <3>2. TypeOK'
      BY <2>0, <3>1, FS_EmptySet DEF TypeOK
    <3>3. Links'
      BY <3>1 DEF Links, RootLinks
    <3>4. Ranked'
      BY <2>0, <3>1 DEF Ranked
    <3> QED
      BY <2>0, <3>1, <3>2, <3>3, <3>4 DEF MapInv, Current
  <2>2. ASSUME Clear \/ MapDone PROVE MapInv'
    <3>1. /\ alloc' = {} /\ size' = 0 /\ root' = [b \in Buckets |-> NULL] /\ it # "on"
          /\ nd' = [n \in Nodes |-> IF n \in Reached THEN Blank ELSE nd[n]]
          /\ capacity' \in {0, capacity}
          /\ UNCHANGED <<hash, ret, it, pos, cur, visited, stay>>
      BY <2>2, ReachesAll DEF Clear, MapDone, Emptied, iterVars, histVars
    <3>2. TypeOK'
      <4>1. \A n \in Nodes : nd'[n] \in [key : Keys \cup {NULL}, value : Values \cup {NULL},
                                         prev : Nodes \cup {NULL}, next : Nodes \cup {NULL}]
        BY <2>0, <3>1 DEF TypeOK, Blank
      <4>2. nd' \in [Nodes -> [key : Keys \cup {NULL}, value : Values \cup {NULL},
                               prev : Nodes \cup {NULL}, next : Nodes \cup {NULL}]]
        BY <3>1, <4>1
      <4> QED
        BY <2>0, <3>1, <4>2, FS_EmptySet DEF TypeOK
    <3>3. Links'
      BY <3>1 DEF Links, RootLinks
    <3>4. Ranked'
      BY <2>0, <3>1 DEF Ranked
    <3> QED
      BY <3>1, <3>2, <3>3, <3>4 DEF MapInv, Current
  <2>3. ASSUME NEW k \in Keys, NEW v \in Values, SetOld(k, v) PROVE MapInv'
    <3> DEFINE f == Found(k)
    <3>1. f \in alloc /\ f \in Nodes /\ f # NULL
      BY <2>0, <2>3, FindsNode DEF SetOld
    <3>2. /\ nd' = [nd EXCEPT ![f].value = v] /\ ret' = nd[f].value
          /\ UNCHANGED <<hash, capacity, size, root, alloc, it, pos, cur, visited, stay>>
      BY <2>3, <3>1 DEF SetOld, iterVars, histVars, ValueOf
    <3> HIDE DEF f
    <3>3. TypeOK'
      BY <2>0, <3>1, <3>2 DEF TypeOK
    <3>4. \A n \in alloc : /\ nd'[n].key = nd[n].key
                           /\ nd'[n].prev = nd[n].prev
                           /\ nd'[n].next = nd[n].next
      BY <2>0, <3>1, <3>2 DEF TypeOK
    <3>5. Links' /\ Ranked' /\ \A n \in alloc : Bucket(n)' = Bucket(n)
      BY <3>2, <3>4, LinksKept
    <3> QED
      BY <2>0, <3>2, <3>3, <3>5 DEF MapInv, Current
  <2>4. ASSUME NEW k \in Keys, NEW v \in Values, SetNew(k, v) PROVE MapInv'
    <3>1. PICK n \in Nodes \ alloc : /\ alloc' = alloc \cup {n}
                                     /\ nd' = Pushed(n, k, v)
                                     /\ root' = [root EXCEPT ![hash[k]] = n]
      BY <2>4 DEF SetNew
    <3>2. /\ capacity > 0 /\ Found(k) = NULL /\ size' = size + 1 /\ ret' = NULL
          /\ UNCHANGED <<hash, capacity, it, pos, cur, visited, stay>>
      BY <2>4 DEF SetNew, iterVars, histVars
    <3>3. /\ Links' /\ Ranked' /\ \A m \in alloc : Bucket(m)' = Bucket(m)
      BY <3>1, <3>2, PushKeeps DEF PushStep
    <3>4. TypeOK'
      <4>1. Cardinality(alloc') = size + 1
        BY <2>0, <3>1, FS_AddElement DEF TypeOK
      <4>2. hash[k] \in Buckets /\ root[hash[k]] \in Nodes \cup {NULL}
        BY <2>0 DEF TypeOK
      <4>3. nd' \in [Nodes -> [key : Keys \cup {NULL}, value : Values \cup {NULL},
                               prev : Nodes \cup {NULL}, next : Nodes \cup {NULL}]]
        BY <2>0, <3>1, <4>2 DEF TypeOK, Pushed
      <4> QED
        BY <2>0, <3>1, <3>2, <4>1, <4>2, <4>3 DEF TypeOK
    <3> QED
      BY <2>0, <3>1, <3>2, <3>3, <3>4 DEF MapInv, Current
  <2>5. ASSUME NEW k \in Keys, Get(k) \/ RemoveAbsent(k) PROVE MapInv'
    <3>1. UNCHANGED <<mapVars, it, pos, cur, visited, stay>> /\ ret' \in {ValueOf(k), NULL}
      BY <2>5 DEF Get, RemoveAbsent, iterVars, histVars
    <3>2. ValueOf(k) \in Values \cup {NULL}
      <4>1. Found(k) # NULL => Found(k) \in Nodes
        BY <2>0, FindsNode
      <4> QED
        BY <2>0, <4>1 DEF ValueOf, TypeOK
    <3>3. TypeOK'
      BY <2>0, <3>1, <3>2 DEF TypeOK, mapVars
    <3>4. Links' /\ Ranked' /\ \A n \in alloc : Bucket(n)' = Bucket(n)
      BY <3>1, LinksKept DEF mapVars
    <3> QED
      BY <2>0, <3>1, <3>3, <3>4 DEF MapInv, Current, mapVars
  <2>6. ASSUME NEW k \in Keys, Remove(k) PROVE MapInv'
    <3> DEFINE n == Found(k)
    <3>1. n \in alloc /\ nd[n].key = k /\ Bucket(n) = hash[k]
      BY <2>6, FindsNode DEF Remove, Bucket
    <3>2. /\ capacity > 0 /\ ~(it = "on" /\ cur = n) /\ ret' = nd[n].value
          /\ root' = IF nd[n].prev = NULL
                     THEN [root EXCEPT ![hash[k]] = nd[n].next] ELSE root
          /\ nd' = Unlinked(n) /\ alloc' = alloc \ {n} /\ size' = size - 1
          /\ stay' = stay \ {k}
          /\ UNCHANGED <<hash, capacity, it, pos, cur, visited>>
      BY <2>6 DEF Remove, iterVars
    <3> HIDE DEF n
    <3>3. /\ Links' /\ Ranked' /\ \A m \in alloc' : Bucket(m)' = Bucket(m)
      BY <3>1, <3>2, UnlinkKeeps
    <3>4. TypeOK'
      <4>1. Cardinality(alloc') = size - 1
        BY <2>0, <3>1, <3>2, FS_RemoveElement DEF TypeOK
      <4>2. hash[k] \in Buckets /\ n \in Nodes
        BY <2>0, <3>1 DEF TypeOK
      <4>3. nd' \in [Nodes -> [key : Keys \cup {NULL}, value : Values \cup {NULL},
                               prev : Nodes \cup {NULL}, next : Nodes \cup {NULL}]]
        <5> DEFINE R == [key : Keys \cup {NULL}, value : Values \cup {NULL},
                         prev : Nodes \cup {NULL}, next : Nodes \cup {NULL}]
        <5>1. nd[n].prev \in Nodes \cup {NULL} /\ nd[n].next \in Nodes \cup {NULL}
          BY <2>0, <4>2 DEF TypeOK
        <5>2. ASSUME NEW m \in Nodes, m # n PROVE nd'[m] \in R
          <6>1. nd[m] \in R
            BY <2>0 DEF TypeOK
          <6>2. nd'[m] = [nd[m] EXCEPT
                   !.next = IF m = nd[n].prev THEN nd[n].next ELSE @,
                   !.prev = IF m = nd[n].next THEN nd[n].prev ELSE @]
            BY <3>2, <5>2 DEF Unlinked
          <6> QED
            BY <5>1, <6>1, <6>2
        <5>3. nd'[n] \in R
          BY <3>2, <4>2 DEF Unlinked, Blank
        <5> HIDE DEF R
        <5>4. \A m \in Nodes : nd'[m] \in R
          BY <5>2, <5>3
        <5>5. nd' = [m \in Nodes |-> nd'[m]]
          BY <3>2 DEF Unlinked
        <5> QED
          BY <5>4, <5>5 DEF R
      <4>4. root' \in [Buckets -> Nodes \cup {NULL}]
        BY <2>0, <3>2, <4>2 DEF TypeOK
      <4> QED
        BY <2>0, <3>2, <4>1, <4>2, <4>3, <4>4 DEF TypeOK
    <3> QED
      BY <2>0, <3>1, <3>2, <3>3, <3>4 DEF MapInv, Current
  <2>7. ASSUME UNCHANGED <<mapVars, ret>>,
               it' \in {"on", "end"}, stay' \in SUBSET Keys,
               visited' \in [Keys -> Nat],
               it' = "on" => capacity > 0 /\ cur' \in alloc /\ Bucket(cur') = pos',
               pos' \in Buckets, cur' \in Nodes \cup {NULL}
        PROVE  MapInv'
    <3>1. TypeOK'
      BY <2>0, <2>7 DEF TypeOK, mapVars
    <3>2. Links' /\ Ranked' /\ \A n \in alloc : Bucket(n)' = Bucket(n)
      BY <2>7, LinksKept DEF mapVars
    <3>3. Current'
      BY <2>7, <3>2 DEF Current, mapVars, Bucket
    <3> QED
      BY <2>0, <2>7, <3>1, <3>2, <3>3 DEF MapInv, mapVars
  <2>8. ASSUME NEW b \in Buckets, root[b] # NULL
        PROVE  root[b] \in alloc /\ Bucket(root[b]) = b
    BY <2>0, <2>8 DEF Links, RootLinks
  <2>9. CASE IterFromStart
    <3> DEFINE b == NextBucket(0)
    <3>1. b # capacity => b \in Buckets /\ root[b] \in Nodes /\ b \in 0 .. capacity - 1
      <4>1. 0 \in Nat /\ 0 <= capacity
        BY <2>0 DEF TypeOK
      <4> QED
        BY <2>0, <4>1, NextBucketFinds
    <3>2. UNCHANGED <<mapVars, ret>> /\ stay' = Present /\ Present \in SUBSET Keys
      BY <2>9 DEF IterFromStart, Present
    <3>3. visited' \in [Keys -> Nat]
      BY <2>9 DEF IterFromStart
    <3>4. CASE b = capacity
      <4>1. it' = "end" /\ pos' = 0 /\ cur' = NULL /\ 0 \in Buckets
        BY <2>0, <2>9, <3>4 DEF IterFromStart, Buckets
      <4> QED
        BY <2>7, <3>2, <3>3, <4>1
    <3>5. CASE b # capacity
      <4>1. it' = "on" /\ pos' = b /\ cur' = root[b]
        BY <2>9, <3>5 DEF IterFromStart
      <4>2. root[b] # NULL /\ capacity > 0
        BY <2>0, <3>1, <3>5 DEF TypeOK
      <4> HIDE DEF b
      <4> QED
        BY <2>0, <2>7, <2>8, <3>1, <3>2, <3>3, <3>5, <4>1, <4>2
    <3> QED
      BY <3>4, <3>5
  <2>10. CASE IterNextInBucket
    <3>1. /\ it = "on" /\ nd[cur].next # NULL /\ cur' = nd[cur].next
          /\ visited' = [visited EXCEPT ![nd[cur'].key] = @ + 1]
          /\ UNCHANGED <<mapVars, ret, it, pos, stay>>
      BY <2>10 DEF IterNextInBucket, See
    <3>2. cur \in alloc /\ Bucket(cur) = pos /\ capacity > 0
      BY <2>0, <3>1 DEF Current
    <3>3. cur' \in alloc /\ Bucket(cur') = pos
      BY <2>0, <3>1, <3>2 DEF Links, Forth
    <3>4. visited' \in [Keys -> Nat]
      BY <3>1, <3>3, SeeTyped
    <3> QED
      BY <2>0, <2>7, <3>1, <3>2, <3>3, <3>4 DEF TypeOK
  <2>11. CASE IterNextBucket
    <3> DEFINE b == NextBucket(pos + 1)
    <3>1. /\ it = "on" /\ UNCHANGED <<mapVars, ret, stay>>
          /\ IF b = capacity
             THEN it' = "end" /\ UNCHANGED <<pos, cur, visited>>
             ELSE /\ pos' = b /\ cur' = root[b] /\ UNCHANGED it
                  /\ visited' = [visited EXCEPT ![nd[cur'].key] = @ + 1]
      BY <2>11 DEF IterNextBucket, See
    <3>2. cur \in alloc /\ pos \in Buckets /\ capacity > 0 /\ capacity = Capacity
      BY <2>0, <3>1 DEF Current, TypeOK
    <3>3. pos + 1 \in Nat /\ pos + 1 <= capacity
      BY <2>0, <3>2 DEF Buckets
    <3>4. b # capacity => b \in Buckets /\ root[b] \in Nodes
      BY <2>0, <3>3, NextBucketFinds
    <3> HIDE DEF b
    <3>5. CASE b = capacity
      BY <2>0, <2>7, <3>1, <3>5 DEF TypeOK
    <3>6. CASE b # capacity
      <4>1. root[b] \in alloc /\ Bucket(root[b]) = b
        BY <2>0, <2>8, <3>4, <3>6
      <4>2. visited' \in [Keys -> Nat]
        BY <3>1, <3>6, <4>1, SeeTyped
      <4> QED
        BY <2>0, <2>7, <3>1, <3>2, <3>4, <3>6, <4>1, <4>2 DEF TypeOK
    <3> QED
      BY <3>5, <3>6
  <2>12. CASE UNCHANGED vars
    <3>1. Links' /\ Ranked' /\ \A n \in alloc : Bucket(n)' = Bucket(n)
      BY <2>12, LinksKept DEF vars, mapVars
    <3>2. TypeOK'
      BY <2>0, <2>12 DEF TypeOK, vars, mapVars, iterVars, histVars
    <3> QED
      BY <2>0, <2>12, <3>1, <3>2 DEF MapInv, Current, vars, mapVars, iterVars
  <2> QED
    BY <2>1, <2>2, <2>3, <2>4, <2>5, <2>6, <2>9, <2>10, <2>11, <2>12
       DEF Next, IterBegin, IterRewind
<1> QED
  BY <1>1, <1>2, PTL DEF Spec

(* Whatever sequence of sets, removals and clears: every allocated node is *)
(* in its bucket once, the lists end, the backward links mirror the        *)
(* forward ones and no key is there twice.                                 *)
THEOREM BucketsCorrect == Spec => []BucketShape
<1>1. MapInv => BucketShape
  <2> SUFFICES ASSUME MapInv PROVE BucketShape
    OBVIOUS
  <2>1. TypeOK /\ alloc = Reached /\ N \in Nat
    BY ReachesAll, NIsNat DEF MapInv
  <2>2. ASSUME NEW b \in Buckets, NEW i \in 0 .. N, At(b)[i] # NULL
        PROVE  /\ At(b)[i] \in alloc
               /\ hash[nd[At(b)[i]].key] = b
               /\ nd[At(b)[i]].prev = IF i = 0 THEN NULL ELSE At(b)[i - 1]
    BY <2>2, WalkMeets DEF Bucket
  <2>3. ASSUME NEW b \in Buckets, NEW i \in 0 .. N, NEW j \in 0 .. N,
               At(b)[i] # NULL, At(b)[j] # NULL, i # j
        PROVE  At(b)[i] # At(b)[j] /\ nd[At(b)[i]].key # nd[At(b)[j]].key
    <3>1. i < j \/ j < i
      BY <2>1, <2>3
    <3>2. At(b)[i] # At(b)[j]
      BY <2>3, <3>1, WalkDistinct
    <3>3. At(b)[i] \in alloc /\ At(b)[j] \in alloc
      BY <2>2, <2>3
    <3> QED
      BY <3>2, <3>3 DEF MapInv, Links, Keyed
  <2>4. \A b \in Buckets : DOMAIN At(b) = 0 .. N
    BY <2>1, Walk
  <2> QED
    BY <2>1, <2>2, <2>3, <2>4 DEF BucketShape
<1> QED
  BY <1>1, MapInvHolds, PTL

-------------------------------------------------------------------------------

(* S are the nodes of the current bucket up to the current one: whoever    *)
(* pushes a node puts it into S, and only the current node leads out of S. *)
Seen(S) ==
    /\ S \in SUBSET {n \in alloc : Bucket(n) = pos}
    /\ cur \in S
    /\ root[pos] # NULL => root[pos] \in S
    /\ \A n \in S : /\ nd[n].prev # NULL => nd[n].prev \in S
                    /\ n # cur /\ nd[n].next # NULL => nd[n].next \in S
                    /\ nd[n].key \in stay => visited[nd[n].key] = 1
    /\ nd[cur].next \notin S
    /\ \A n \in alloc : Bucket(n) = pos /\ n \notin S => visited[nd[n].key] = 0

(* Keys of earlier buckets have been seen, those of later ones have not.   *)
Midway ==
    /\ \A k \in stay : \E n \in alloc : nd[n].key = k
    /\ \A k \in Keys : hash[k] > pos => visited[k] = 0
    /\ \A n \in alloc : Bucket(n) < pos /\ nd[n].key \in stay
                           => visited[nd[n].key] = 1
    /\ \E S \in SUBSET alloc : Seen(S)

(* The inductive invariant of the loop.                                    *)
LoopInv ==
    /\ \A k \in Keys : visited[k] \in {0, 1}
    /\ it = "end" => \A k \in stay : visited[k] = 1
    /\ it = "on" => Midway

(* A bucket with a node has a root.                                        *)
LEMMA RootThere ==
    ASSUME MapInv, NEW n \in alloc
    PROVE  Bucket(n) \in Buckets /\ root[Bucket(n)] # NULL /\ nd[n].key \in Keys
<1> DEFINE b == Bucket(n)
<1>1. b \in Buckets /\ nd[n].key \in Keys
  BY DEF MapInv, Links, Keyed, Bucket, TypeOK
<1>2. N \in Nat /\ n # NULL /\ At(b)[0] = root[b]
  BY <1>1, NIsNat, NullAssumption, Walk DEF MapInv, TypeOK
<1>3. PICK i \in 0 .. N : At(b)[i] = n
  BY WalkReaches
<1>4. CASE i = 0
  BY <1>1, <1>2, <1>3, <1>4
<1>5. CASE i # 0
  <2>1. 0 \in 0 .. N /\ 0 < i
    BY <1>2, <1>5
  <2> QED
    BY <1>1, <1>2, <1>3, <2>1, WalkDistinct
<1> QED
  BY <1>4, <1>5

(* At the last node of a bucket all its nodes have been seen: a lowest one *)
(* that has not would follow one that has.                                 *)
LEMMA SeenAll ==
    ASSUME MapInv, NEW S, Seen(S), nd[cur].next = NULL
    PROVE  \A n \in alloc : Bucket(n) = pos => n \in S
<1> DEFINE U == {n \in alloc : Bucket(n) = pos /\ n \notin S}
<1> SUFFICES ASSUME U # {} PROVE FALSE
  OBVIOUS
<1>1. PICK r \in [Nodes -> Nat] :
         \A m \in alloc : nd[m].prev # NULL => r[nd[m].prev] < r[m]
  BY DEF MapInv, Ranked
<1>2. NULL \notin Nodes /\ alloc \in SUBSET Nodes
  BY NullAssumption DEF MapInv, TypeOK
<1> DEFINE T == {r[m] : m \in U}
<1>3. PICK m \in U : \A l \in U : r[m] <= r[l]
  <2>1. T \in SUBSET Nat /\ T # {}
    BY <1>1, <1>2
  <2>2. Least(T) \in T /\ \A l \in T : Least(T) <= l
    <3> HIDE DEF T
    <3> QED
      BY <2>1, HasLeast
  <2> QED
    BY <2>2
<1>4. m \in alloc /\ Bucket(m) = pos /\ m \notin S /\ m # NULL /\ Back(m)
  BY <1>2, <1>3 DEF MapInv, Links
<1> DEFINE q == nd[m].prev
<1>5. CASE q = NULL
  BY <1>4, <1>5 DEF Back, Seen
<1>6. CASE q # NULL
  <2>1. q \in alloc /\ nd[q].next = m /\ Bucket(q) = pos
    BY <1>4, <1>6 DEF Back
  <2>2. r[q] < r[m] /\ r[q] \in Nat /\ r[m] \in Nat
    BY <1>1, <1>2, <1>4, <1>6, <2>1
  <2>3. q \in S
    <3>1. ~(r[m] <= r[q])
      BY <2>2
    <3> QED
      BY <1>3, <2>1, <3>1
  <2> QED
    BY <1>4, <2>1, <2>3 DEF Seen
<1> QED
  BY <1>5, <1>6

(* The loop enters a bucket of which it has seen nothing.                  *)
LEMMA EnterKeeps ==
    ASSUME MapInv, NEW b \in Buckets, root[b] # NULL,
           UNCHANGED <<hash, root, nd, alloc>>, pos' = b, cur' = root[b],
           visited'[nd[root[b]].key] = 1,
           \A n \in alloc : Bucket(n) = b /\ n # root[b] => visited'[nd[n].key] = 0
    PROVE  \E S \in SUBSET alloc' : Seen(S)'
<1> PICK o : o = root[b]
  OBVIOUS
<1>1. o \in alloc /\ Bucket(o) = b /\ nd[o].prev = NULL /\ Forth(o) /\ o # NULL
  BY DEF MapInv, Links, RootLinks
<1>2. nd[o].next # o
  BY <1>1 DEF Forth
<1>3. \A n \in alloc : Bucket(n)' = Bucket(n)
  BY DEF Bucket
<1>4. Seen({o})'
  BY <1>1, <1>2, <1>3 DEF Seen
<1>5. {o} \in SUBSET alloc'
  BY <1>1
<1> QED
  BY <1>4, <1>5

(* A node pushed in front of the current bucket counts as seen.            *)
LEMMA PushSeen ==
    ASSUME MapInv, NEW k \in Keys, NEW v \in Values, NEW n \in Nodes \ alloc,
           Found(k) = NULL, UNCHANGED <<hash, pos, cur, visited, stay>>,
           alloc' = alloc \cup {n}, nd' = Pushed(n, k, v),
           root' = [root EXCEPT ![hash[k]] = n],
           NEW S, Seen(S), cur \in alloc, k \notin stay, pos \in Buckets
    PROVE  \E X \in SUBSET alloc' : Seen(X)'
<1> DEFINE h == hash[k]
           o == root[h]
<1>1. h \in Buckets /\ NULL \notin Nodes /\ alloc \in SUBSET Nodes
      /\ root \in [Buckets -> Nodes \cup {NULL}] /\ n \notin alloc /\ n # NULL
  BY NullAssumption DEF MapInv, TypeOK
<1>2. /\ \A m \in alloc : /\ Bucket(m)' = Bucket(m)
                          /\ nd'[m].key = nd[m].key /\ nd'[m].next = nd[m].next
                          /\ nd'[m].prev = IF m = o THEN n ELSE nd[m].prev
      /\ nd'[n].key = k /\ nd'[n].prev = NULL /\ nd'[n].next = o
      /\ Bucket(n)' = h
  <2> HIDE DEF o, h
  <2>1. UNCHANGED hash
    OBVIOUS
  <2>2. PushStep(n, k)
    BY <2>1, PushKeeps
  <2> QED
    BY <2>2 DEF PushStep, o, h
<1>3. root'[h] = n /\ \A b \in Buckets : b # h => root'[b] = root[b]
  BY <1>1
<1>4. o # NULL => o \in alloc /\ Bucket(o) = h
  BY <1>1 DEF MapInv, Links, RootLinks
<1>5. nd[cur].next # n
  BY <1>1 DEF MapInv, Links, Forth
<1>6. S \in SUBSET alloc /\ (\A m \in S : Bucket(m) = pos) /\ cur \in S
  BY DEF Seen
<1>7. CASE h = pos
  <2>1. o # NULL => o \in S
    BY <1>7 DEF Seen
  <2> DEFINE X == S \cup {n}
  <2> HIDE DEF o, h
  <2>2. X \in SUBSET alloc' /\ \A m \in X : Bucket(m)' = pos
    BY <1>2, <1>6, <1>7
  <2>3. root'[pos] \in X /\ cur \in X /\ nd'[cur].next \notin X
    BY <1>2, <1>3, <1>5, <1>6, <1>7 DEF Seen
  <2>4. ASSUME NEW m \in S
        PROVE  /\ nd'[m].prev # NULL => nd'[m].prev \in X
               /\ m # cur /\ nd'[m].next # NULL => nd'[m].next \in X
               /\ nd'[m].key \in stay => visited[nd'[m].key] = 1
    BY <1>2, <1>6 DEF Seen
  <2>5. /\ nd'[n].prev = NULL /\ nd'[n].key \notin stay
        /\ nd'[n].next # NULL => nd'[n].next \in X
    BY <1>2, <2>1
  <2>6. \A m \in alloc' : Bucket(m)' = pos /\ m \notin X => visited[nd'[m].key] = 0
    BY <1>2 DEF Seen
  <2>7. Seen(X)'
    BY <2>2, <2>3, <2>4, <2>5, <2>6 DEF Seen
  <2> QED
    BY <2>2, <2>7
<1>8. CASE h # pos
  <2> HIDE DEF o, h
  <2>1. \A m \in S : m # o
    BY <1>1, <1>4, <1>6, <1>8
  <2>2. root'[pos] = root[pos]
    BY <1>3, <1>8
  <2>3. \A m \in S : nd'[m].prev = nd[m].prev /\ nd'[m].next = nd[m].next
                     /\ nd'[m].key = nd[m].key /\ Bucket(m)' = Bucket(m)
    BY <1>2, <1>6, <2>1
  <2>4. \A m \in alloc' : Bucket(m)' = pos /\ m \notin S => visited[nd'[m].key] = 0
    BY <1>2, <1>8 DEF Seen
  <2>5. S \in SUBSET {m \in alloc' : Bucket(m)' = pos}
    BY <1>6, <2>3
  <2>6. Seen(S)'
    BY <1>6, <2>2, <2>3, <2>4, <2>5 DEF Seen
  <2> QED
    BY <1>6, <2>6
<1> QED
  BY <1>7, <1>8

(* A node removed, seen or not, leaves the others where they were.         *)
LEMMA UnlinkSeen ==
    ASSUME MapInv, NEW n \in alloc, UNCHANGED <<hash, pos, cur, visited>>,
           alloc' = alloc \ {n}, nd' = Unlinked(n), n # cur,
           root' = IF nd[n].prev = NULL
                   THEN [root EXCEPT ![Bucket(n)] = nd[n].next] ELSE root,
           stay' \in SUBSET stay, NEW S, Seen(S), pos \in Buckets
    PROVE  \E X \in SUBSET alloc' : Seen(X)'
<1> DEFINE p == nd[n].prev
           x == nd[n].next
           X == S \ {n}
<1>1. Bucket(n) \in Buckets /\ NULL \notin Nodes /\ alloc \in SUBSET Nodes
      /\ root \in [Buckets -> Nodes \cup {NULL}]
  BY NullAssumption DEF MapInv, TypeOK, Links, Keyed, Bucket
<1>2. \A m \in alloc \ {n} : /\ Bucket(m)' = Bucket(m) /\ nd'[m].key = nd[m].key
                             /\ nd'[m].next = IF m = p THEN x ELSE nd[m].next
                             /\ nd'[m].prev = IF m = x THEN p ELSE nd[m].prev
  BY UnlinkKeeps
<1>3. p # n /\ x # n /\ Back(n) /\ Forth(n)
  BY UnlinkKeeps DEF MapInv, Links
<1>4. S \in SUBSET alloc /\ (\A m \in S : Bucket(m) = pos) /\ cur \in S
  BY DEF Seen
<1>5. p # NULL => p \in alloc /\ nd[p].next = n
  BY <1>3 DEF Back
<1>6. x # NULL => x \in alloc /\ nd[x].prev = n
  BY <1>3 DEF Forth
<1>7. n \in S => (p # NULL => p \in S) /\ (x # NULL => x \in S)
  BY DEF Seen
<1>8. root'[pos] # NULL => root'[pos] \in X
  <2>1. CASE p = NULL /\ Bucket(n) = pos
    <3>1. root'[pos] = x /\ root[pos] = n
      BY <1>1, <1>3, <2>1 DEF Back
    <3>2. n \in S
      BY <1>1, <3>1 DEF Seen
    <3> QED
      BY <1>3, <1>7, <3>1, <3>2
  <2>2. CASE ~(p = NULL /\ Bucket(n) = pos)
    <3>1. root'[pos] = root[pos]
      BY <1>1, <2>2
    <3>2. root[pos] # n
      BY <1>1, <2>2 DEF MapInv, Links, RootLinks
    <3> QED
      BY <3>1, <3>2 DEF Seen
  <2> QED
    BY <2>1, <2>2
<1> HIDE DEF p, x
<1>9. X \in SUBSET {m \in alloc' : Bucket(m)' = pos} /\ cur \in X
  BY <1>2, <1>4
<1>10. ASSUME NEW m \in X, nd'[m].prev # NULL PROVE nd'[m].prev \in X
  <2>1. m \in S /\ m \in alloc \ {n}
    BY <1>4
  <2>2. CASE m = x
    <3>1. n \in S /\ nd'[m].prev = p
      BY <1>1, <1>2, <1>6, <2>1, <2>2 DEF Seen
    <3> QED
      BY <1>3, <1>7, <1>10, <3>1
  <2>3. CASE m # x
    <3>1. nd'[m].prev = nd[m].prev /\ nd[m].prev \in S
      BY <1>2, <1>10, <2>1, <2>3 DEF Seen
    <3>2. nd[m].prev # n
      <4>1. Back(m) /\ m # NULL
        BY <1>1, <2>1 DEF MapInv, Links
      <4> QED
        BY <1>1, <2>3, <4>1 DEF Back, x
    <3> QED
      BY <3>1, <3>2
  <2> QED
    BY <2>2, <2>3
<1>11. ASSUME NEW m \in X, m # cur, nd'[m].next # NULL PROVE nd'[m].next \in X
  <2>1. m \in S /\ m \in alloc \ {n}
    BY <1>4
  <2>2. CASE m = p
    <3>1. n \in S /\ nd'[m].next = x
      BY <1>1, <1>2, <1>5, <1>11, <2>1, <2>2 DEF Seen
    <3> QED
      BY <1>3, <1>7, <1>11, <3>1
  <2>3. CASE m # p
    <3>1. nd'[m].next = nd[m].next /\ nd[m].next \in S
      BY <1>2, <1>11, <2>1, <2>3 DEF Seen
    <3>2. nd[m].next # n
      <4>1. Forth(m) /\ n # NULL
        BY <1>1, <2>1 DEF MapInv, Links
      <4> QED
        BY <2>3, <4>1 DEF Forth, p
    <3> QED
      BY <3>1, <3>2
  <2> QED
    BY <2>2, <2>3
<1>12. nd'[cur].next \notin X
  <2>1. cur \in alloc \ {n} /\ nd[cur].next \notin S
    BY <1>4 DEF Seen
  <2>2. CASE cur = p
    <3>1. nd[cur].next = n /\ nd'[cur].next = x /\ n \notin S
      BY <1>1, <1>2, <1>5, <2>1, <2>2
    <3>2. x \notin S
      BY <1>1, <1>4, <1>6, <3>1 DEF Seen
    <3> QED
      BY <3>1, <3>2
  <2>3. CASE cur # p
    BY <1>2, <2>1, <2>3
  <2> QED
    BY <2>2, <2>3
<1>13. \A m \in X : nd'[m].key \in stay' => visited[nd'[m].key] = 1
  BY <1>2, <1>4 DEF Seen
<1>14. \A m \in alloc' : Bucket(m)' = pos /\ m \notin X => visited[nd'[m].key] = 0
  BY <1>2 DEF Seen
<1> HIDE DEF X
<1>15. Seen(X)'
  BY <1>8, <1>9, <1>10, <1>11, <1>12, <1>13, <1>14 DEF Seen
<1> QED
  BY <1>9, <1>15

(* A step that leaves the links and keys, and the iterator, as they are.   *)
LEMMA LoopKept ==
    ASSUME LoopInv, UNCHANGED <<hash, root, alloc, it, pos, cur, visited, stay>>,
           \A n \in alloc : /\ nd'[n].key = nd[n].key
                            /\ nd'[n].prev = nd[n].prev
                            /\ nd'[n].next = nd[n].next
    PROVE  LoopInv'
<1>1. \A n \in alloc : Bucket(n)' = Bucket(n)
  BY DEF Bucket
<1>2. ASSUME NEW S \in SUBSET alloc, Seen(S) PROVE Seen(S)'
  <2>1. cur \in alloc
    BY <1>2 DEF Seen
  <2> QED
    BY <1>1, <1>2, <2>1 DEF Seen
<1> QED
  BY <1>1, <1>2 DEF LoopInv, Midway

(* No node lies in a bucket that the iterator skips.                       *)
LEMMA SkippedEmpty ==
    ASSUME MapInv, NEW b \in Nat, b <= capacity, NEW n \in alloc,
           b <= Bucket(n), Bucket(n) < NextBucket(b) \/ NextBucket(b) = capacity
    PROVE  FALSE
<1>1. Bucket(n) \in Buckets /\ root[Bucket(n)] # NULL /\ capacity = Capacity
  BY RootThere DEF MapInv, TypeOK
<1>2. Bucket(n) < capacity /\ Bucket(n) \in Nat
  BY <1>1, CapacityAssumption DEF Buckets
<1>3. NextBucket(b) <= Bucket(n) /\ NextBucket(b) # capacity
  BY <1>1, <1>2, NextBucketFinds DEF MapInv
<1>4. NextBucket(b) \in Nat
  BY <1>3, NextBucketFinds DEF MapInv, Buckets
<1> QED
  BY <1>2, <1>3, <1>4

(* A loop begins having seen the root of the first bucket that has one.    *)
LEMMA StartKeeps ==
    ASSUME MapInv, IterFromStart
    PROVE  LoopInv'
<1> DEFINE b == NextBucket(0)
<1>1. /\ TypeOK /\ 0 \in Nat /\ 0 <= capacity /\ capacity \in Nat
      /\ alloc \in SUBSET Nodes /\ NULL \notin Nodes
  BY CapacityAssumption, NullAssumption DEF MapInv, TypeOK
<1>2. UNCHANGED <<hash, root, nd, alloc>> /\ stay' = Present
  BY DEF IterFromStart, mapVars
<1>3. \A k \in Present : \E n \in alloc : nd[n].key = k
  BY FindsNode DEF Present
<1>4. \A n \in alloc : /\ Bucket(n) \in Buckets /\ nd[n].key \in Keys
                       /\ Bucket(n) \in Nat /\ 0 <= Bucket(n)
                       /\ Bucket(n)' = Bucket(n)
  BY <1>2, RootThere DEF Buckets, Bucket
<1>5. \A n \in alloc : ~(Bucket(n) < b \/ b = capacity)
  BY <1>1, <1>4, SkippedEmpty
<1>6. CASE b = capacity
  <2>1. it' = "end" /\ visited' = [k \in Keys |-> 0]
    BY <1>6 DEF IterFromStart
  <2>2. stay' = {}
    BY <1>2, <1>3, <1>5, <1>6
  <2> QED
    BY <2>1, <2>2 DEF LoopInv
<1>7. CASE b # capacity
  <2> DEFINE o == root[b]
  <2>1. b \in Buckets /\ o \in Nodes /\ o # NULL
    BY <1>1, <1>7, NextBucketFinds
  <2>2. /\ it' = "on" /\ pos' = b /\ cur' = o
        /\ visited' = [k \in Keys |-> IF nd[o].key = k THEN 1 ELSE 0]
    BY <1>7 DEF IterFromStart
  <2>3. o \in alloc /\ Bucket(o) = b
    BY <2>1 DEF MapInv, Links, RootLinks
  <2> HIDE DEF b
  <2>4. \A n \in alloc : n # o => nd[n].key # nd[o].key
    BY <2>3 DEF MapInv, Links, Keyed
  <2>5. visited'[nd[o].key] = 1
        /\ \A n \in alloc : n # o => visited'[nd[n].key] = 0
    BY <1>4, <2>2, <2>3, <2>4
  <2>6. \E S \in SUBSET alloc' : Seen(S)'
    BY <1>2, <2>1, <2>2, <2>5, EnterKeeps
  <2>7. \A k \in stay' : \E n \in alloc' : nd'[n].key = k
    BY <1>2, <1>3
  <2>8. ASSUME NEW k \in Keys, hash'[k] > pos' PROVE visited'[k] = 0
    <3>1. k # nd[o].key
      <4>1. ~(b > b)
        BY <2>1 DEF Buckets
      <4> QED
        BY <1>2, <2>2, <2>3, <2>8, <4>1 DEF Bucket
    <3> QED
      BY <2>2, <3>1
  <2>9. \A n \in alloc' : ~(Bucket(n)' < pos')
    BY <1>2, <1>4, <1>5, <2>2
  <2>10. \A k \in Keys : visited'[k] \in {0, 1}
    BY <2>2
  <2> QED
    BY <2>2, <2>6, <2>7, <2>8, <2>9, <2>10 DEF LoopInv, Midway
<1> QED
  BY <1>6, <1>7

(* The loop goes on to the next node of its bucket.                        *)
LEMMA NextKeeps ==
    ASSUME MapInv, LoopInv, IterNextInBucket
    PROVE  LoopInv'
<1> PICK x : x = nd[cur].next
  OBVIOUS
<1>1. /\ it = "on" /\ x # NULL /\ cur' = x /\ it' = "on"
      /\ visited' = [visited EXCEPT ![nd[x].key] = @ + 1]
      /\ UNCHANGED <<hash, root, nd, alloc, pos, stay>>
  BY DEF IterNextInBucket, See, mapVars
<1>2. Midway /\ cur \in alloc /\ Bucket(cur) = pos
  BY <1>1 DEF LoopInv, MapInv, Current
<1>3. PICK S \in SUBSET alloc : Seen(S)
  BY <1>2 DEF Midway
<1>4. /\ x \in alloc /\ nd[x].prev = cur /\ Bucket(x) = pos /\ x \notin S
      /\ nd[x].key \in Keys /\ \A m \in alloc : nd[m].key = nd[x].key => m = x
  BY <1>1, <1>2, <1>3 DEF MapInv, Links, Forth, Keyed, Seen
<1>5. visited[nd[x].key] = 0 /\ visited \in [Keys -> Nat]
  BY <1>3, <1>4 DEF Seen, MapInv, TypeOK
<1>6. /\ visited'[nd[x].key] = 1
      /\ \A k \in Keys : k # nd[x].key => visited'[k] = visited[k]
  BY <1>1, <1>4, <1>5
<1>7. cur \in S /\ cur # x
  BY <1>3, <1>4 DEF Seen
<1>8. nd[x].next # x /\ nd[x].next \notin S
  <2>1. nd[x].next = NULL \/ nd[nd[x].next].prev = x
    BY <1>4 DEF MapInv, Links, Forth
  <2>2. ASSUME nd[x].next \in S PROVE FALSE
    BY <1>3, <1>4, <2>1, <2>2, NullAssumption DEF Seen, MapInv, TypeOK
  <2>3. ASSUME nd[x].next = x PROVE FALSE
    BY <1>1, <1>4, <1>7, <2>1, <2>3
  <2> QED
    BY <2>2, <2>3
<1>9. \A n \in alloc : Bucket(n)' = Bucket(n) /\ nd[n].key \in Keys
  BY <1>1 DEF Bucket, MapInv, Links, Keyed
<1> DEFINE X == S \cup {x}
<1>10. Seen(X)'
  <2>1. X \in SUBSET {n \in alloc' : Bucket(n)' = pos'} /\ cur' \in X
    BY <1>1, <1>3, <1>4, <1>9 DEF Seen
  <2>2. root'[pos'] # NULL => root'[pos'] \in X
    BY <1>1, <1>3 DEF Seen
  <2>3. \A n \in X : /\ nd'[n].prev # NULL => nd'[n].prev \in X
                     /\ n # cur' /\ nd'[n].next # NULL => nd'[n].next \in X
    BY <1>1, <1>3, <1>4, <1>7 DEF Seen
  <2>4. \A n \in X : nd'[n].key \in stay' => visited'[nd'[n].key] = 1
    BY <1>1, <1>3, <1>4, <1>6, <1>9 DEF Seen
  <2>5. nd'[cur'].next \notin X
    BY <1>1, <1>8
  <2>6. \A n \in alloc' : Bucket(n)' = pos' /\ n \notin X => visited'[nd'[n].key] = 0
    BY <1>1, <1>3, <1>4, <1>6, <1>9 DEF Seen
  <2> HIDE DEF X
  <2> QED
    BY <2>1, <2>2, <2>3, <2>4, <2>5, <2>6 DEF Seen
<1>11. X \in SUBSET alloc'
  BY <1>1, <1>4
<1>12. \A k \in Keys : visited'[k] \in {0, 1}
  BY <1>6 DEF LoopInv
<1>13. ASSUME NEW k \in Keys, hash'[k] > pos' PROVE visited'[k] = 0
  <2>1. k # nd[x].key
    <3>1. ~(pos > pos)
      BY DEF MapInv, TypeOK, Buckets
    <3> QED
      BY <1>1, <1>4, <1>13, <3>1 DEF Bucket
  <2> QED
    BY <1>1, <1>2, <1>6, <1>13, <2>1 DEF Midway
<1>14. ASSUME NEW n \in alloc, Bucket(n) < pos, nd[n].key \in stay
       PROVE  visited'[nd[n].key] = 1
  <2>1. visited[nd[n].key] = 1
    BY <1>2, <1>14 DEF Midway
  <2>2. nd[n].key # nd[x].key
    BY <1>5, <2>1
  <2> QED
    BY <1>6, <1>9, <2>1, <2>2
<1>15. Midway'
  BY <1>1, <1>2, <1>9, <1>10, <1>11, <1>13, <1>14 DEF Midway
<1> QED
  BY <1>1, <1>12, <1>15 DEF LoopInv

(* The loop leaves a bucket, all of it seen, for the next that is not      *)
(* empty, or ends.                                                         *)
LEMMA LeaveKeeps ==
    ASSUME MapInv, LoopInv, IterNextBucket
    PROVE  LoopInv'
<1> DEFINE b == NextBucket(pos + 1)
<1>1. /\ it = "on" /\ nd[cur].next = NULL
      /\ UNCHANGED <<hash, root, nd, alloc, stay>>
      /\ IF b = capacity
         THEN it' = "end" /\ UNCHANGED <<pos, cur, visited>>
         ELSE /\ pos' = b /\ cur' = root[b] /\ UNCHANGED it
              /\ visited' = [visited EXCEPT ![nd[cur'].key] = @ + 1]
  BY DEF IterNextBucket, See, mapVars
<1>2. Midway /\ TypeOK /\ capacity = Capacity /\ pos \in Buckets
  BY <1>1 DEF LoopInv, MapInv, Current, TypeOK
<1>3. /\ pos \in Nat /\ pos + 1 \in Nat /\ pos + 1 <= capacity
      /\ capacity \in Nat
  BY <1>2, CapacityAssumption DEF Buckets
<1>4. PICK S \in SUBSET alloc : Seen(S)
  BY <1>2 DEF Midway
<1>5. \A n \in alloc : /\ Bucket(n) \in Buckets /\ nd[n].key \in Keys
                       /\ Bucket(n) \in Nat /\ Bucket(n)' = Bucket(n)
  BY <1>1, RootThere DEF Buckets, Bucket
<1>6. ASSUME NEW n \in alloc, Bucket(n) <= pos, nd[n].key \in stay
      PROVE  visited[nd[n].key] = 1
  <2>1. Bucket(n) < pos \/ Bucket(n) = pos
    BY <1>3, <1>5, <1>6
  <2>2. Bucket(n) = pos => n \in S
    BY <1>1, <1>4, SeenAll
  <2> QED
    BY <1>2, <1>4, <1>6, <2>1, <2>2 DEF Midway, Seen
<1>7. ASSUME NEW n \in alloc, Bucket(n) < b \/ b = capacity
      PROVE  Bucket(n) <= pos
  <2>1. ~(pos + 1 <= Bucket(n))
    BY <1>3, <1>7, SkippedEmpty
  <2> QED
    BY <1>3, <1>5, <2>1
<1>8. CASE b = capacity
  <2>1. \A k \in stay : visited[k] = 1
    BY <1>2, <1>6, <1>7, <1>8 DEF Midway
  <2> QED
    BY <1>1, <1>8, <2>1 DEF LoopInv
<1>9. CASE b # capacity
  <2> DEFINE o == root[b]
  <2>1. b \in Buckets /\ o \in Nodes /\ b \in pos + 1 .. capacity - 1
    BY <1>2, <1>3, <1>9, NextBucketFinds
  <2>2. o # NULL /\ o \in alloc /\ Bucket(o) = b
    BY <2>1, NullAssumption DEF MapInv, Links, RootLinks
  <2>3. /\ pos' = b /\ cur' = o /\ it' = "on"
        /\ visited' = [visited EXCEPT ![nd[o].key] = @ + 1]
    BY <1>1, <1>9
  <2> HIDE DEF b
  <2>4. b > pos /\ b \in Nat
    BY <1>3, <2>1
  <2>5. /\ nd[o].key \in Keys /\ hash[nd[o].key] = b /\ visited[nd[o].key] = 0
        /\ visited \in [Keys -> Nat]
    BY <1>2, <1>5, <2>2, <2>4 DEF Midway, Bucket, TypeOK
  <2>6. /\ visited'[nd[o].key] = 1
        /\ \A k \in Keys : k # nd[o].key => visited'[k] = visited[k]
    BY <2>3, <2>5
  <2>7. \A n \in alloc : n # o => nd[n].key # nd[o].key
    BY <2>2 DEF MapInv, Links, Keyed
  <2>8. \A n \in alloc : Bucket(n) = b /\ n # o => visited'[nd[n].key] = 0
    <3>1. \A n \in alloc : Bucket(n) = b => visited[nd[n].key] = 0
      BY <1>2, <1>5, <2>4 DEF Midway, Bucket
    <3> QED
      BY <1>5, <2>6, <2>7, <3>1
  <2>9. \E X \in SUBSET alloc' : Seen(X)'
    BY <1>1, <2>1, <2>2, <2>3, <2>6, <2>8, EnterKeeps
  <2>10. \A k \in Keys : visited'[k] \in {0, 1}
    BY <2>6 DEF LoopInv
  <2>11. ASSUME NEW k \in Keys, hash[k] > b PROVE visited'[k] = 0
    <3>1. hash[k] \in Nat /\ hash[k] > pos /\ hash[k] # b
      BY <1>2, <1>3, <2>4, <2>11 DEF TypeOK, Buckets
    <3> QED
      BY <1>2, <2>5, <2>6, <3>1 DEF Midway
  <2>12. ASSUME NEW n \in alloc, Bucket(n) < b, nd[n].key \in stay
         PROVE  visited'[nd[n].key] = 1
    <3>1. visited[nd[n].key] = 1
      BY <1>6, <1>7, <2>12
    <3> QED
      BY <1>5, <2>5, <2>6, <3>1
  <2>13. Midway'
    BY <1>1, <1>2, <1>5, <2>3, <2>9, <2>11, <2>12 DEF Midway
  <2> QED
    BY <2>3, <2>10, <2>13 DEF LoopInv
<1> QED
  BY <1>8, <1>9

(* Every step of the table and of the loop keeps what the loop has seen.   *)
LEMMA LoopStep ==
    ASSUME MapInv, LoopInv, [Next]_vars
    PROVE  LoopInv'
<1>1. TypeOK /\ alloc \in SUBSET Nodes /\ NULL \notin Nodes
  BY NullAssumption DEF MapInv, TypeOK
<1>2. CASE MapInit \/ Clear \/ MapDone
  <2>1. it # "on" /\ UNCHANGED <<it, visited, stay>>
    BY <1>1, <1>2, CapacityAssumption
       DEF MapInit, Clear, MapDone, Emptied, MapInv, Current, iterVars, histVars
  <2> QED
    BY <2>1 DEF LoopInv
<1>3. ASSUME NEW k \in Keys, NEW v \in Values, SetOld(k, v) PROVE LoopInv'
  <2> DEFINE f == Found(k)
  <2>1. /\ nd' = [nd EXCEPT ![f].value = v]
        /\ UNCHANGED <<hash, root, alloc, it, pos, cur, visited, stay>>
    BY <1>3 DEF SetOld, iterVars, histVars
  <2> HIDE DEF f
  <2>2. \A n \in alloc : /\ nd'[n].key = nd[n].key
                         /\ nd'[n].prev = nd[n].prev
                         /\ nd'[n].next = nd[n].next
    BY <1>1, <2>1 DEF TypeOK
  <2> QED
    BY <2>1, <2>2, LoopKept
<1>4. ASSUME NEW k \in Keys, NEW v \in Values, SetNew(k, v) PROVE LoopInv'
  <2>1. PICK n \in Nodes \ alloc : /\ alloc' = alloc \cup {n}
                                   /\ nd' = Pushed(n, k, v)
                                   /\ root' = [root EXCEPT ![hash[k]] = n]
    BY <1>4 DEF SetNew
  <2>2. Found(k) = NULL /\ UNCHANGED <<hash, it, pos, cur, visited, stay>>
    BY <1>4 DEF SetNew, iterVars, histVars
  <2>3. PushStep(n, k)
    BY <2>1, <2>2, PushKeeps
  <2>4. CASE it # "on"
    BY <2>2, <2>4 DEF LoopInv
  <2>5. CASE it = "on"
    <3>1. Midway /\ cur \in alloc /\ Bucket(cur) = pos
      BY <2>5 DEF LoopInv, MapInv, Current
    <3>2. PICK S \in SUBSET alloc : Seen(S)
      BY <3>1 DEF Midway
    <3>3. k \notin stay
      BY <2>3, <3>1 DEF Midway, PushStep
    <3>4. pos \in Buckets /\ UNCHANGED <<hash, pos, cur, visited, stay>>
      BY <1>1, <2>2 DEF TypeOK
    <3>5. \E X \in SUBSET alloc' : Seen(X)'
      BY <2>1, <2>2, <3>1, <3>2, <3>3, <3>4, PushSeen
    <3>6. Midway'
      BY <2>1, <2>2, <2>3, <3>1, <3>3, <3>5 DEF Midway, PushStep
    <3> QED
      BY <2>2, <2>5, <3>6 DEF LoopInv
  <2> QED
    BY <2>4, <2>5
<1>5. ASSUME NEW k \in Keys, Get(k) \/ RemoveAbsent(k) PROVE LoopInv'
  BY <1>5, LoopKept DEF Get, RemoveAbsent, mapVars, iterVars, histVars
<1>6. ASSUME NEW k \in Keys, Remove(k) PROVE LoopInv'
  <2> DEFINE n == Found(k)
  <2>1. n \in alloc /\ nd[n].key = k /\ Bucket(n) = hash[k]
    BY <1>6, FindsNode DEF Remove, Bucket
  <2>2. /\ ~(it = "on" /\ cur = n)
        /\ root' = IF nd[n].prev = NULL
                   THEN [root EXCEPT ![hash[k]] = nd[n].next] ELSE root
        /\ nd' = Unlinked(n) /\ alloc' = alloc \ {n} /\ stay' = stay \ {k}
        /\ UNCHANGED <<hash, it, pos, cur, visited>>
    BY <1>6 DEF Remove, iterVars
  <2> HIDE DEF n
  <2>3. \A m \in alloc' : Bucket(m)' = Bucket(m) /\ nd'[m].key = nd[m].key
    BY <2>1, <2>2, UnlinkKeeps
  <2>4. CASE it # "on"
    BY <2>2, <2>4 DEF LoopInv
  <2>5. CASE it = "on"
    <3>1. Midway /\ pos \in Buckets
      BY <1>1, <2>5 DEF LoopInv, TypeOK
    <3>2. PICK S \in SUBSET alloc : Seen(S)
      BY <3>1 DEF Midway
    <3>3. \E X \in SUBSET alloc' : Seen(X)'
      BY <2>1, <2>2, <2>5, <3>1, <3>2, UnlinkSeen
    <3>4. \A j \in stay' : \E m \in alloc' : nd'[m].key = j
      BY <2>1, <2>2, <2>3, <3>1 DEF Midway
    <3>5. Midway'
      BY <2>2, <2>3, <3>1, <3>3, <3>4 DEF Midway
    <3> QED
      BY <2>2, <2>5, <3>5 DEF LoopInv
  <2> QED
    BY <2>4, <2>5
<1>7. CASE UNCHANGED vars
  BY <1>7, LoopKept DEF vars, mapVars, iterVars, histVars
<1> QED
  BY <1>2, <1>3, <1>4, <1>5, <1>6, <1>7, StartKeeps, NextKeeps, LeaveKeeps
     DEF Next, IterBegin, IterRewind

(* A loop over the map that ends has seen every key that was there all the *)
(* time, no key twice, and never stands on a freed node, whatever keys are *)
(* set and removed meanwhile.                                              *)
THEOREM LoopComplete == Spec => []IterComplete
<1>1. Init => LoopInv
  BY DEF Init, LoopInv
<1>2. MapInv /\ LoopInv => IterComplete
  <2> SUFFICES ASSUME MapInv, LoopInv PROVE IterComplete
    OBVIOUS
  <2>1. \A k \in Keys : visited[k] <= 1
    BY DEF LoopInv
  <2> QED
    BY <2>1 DEF LoopInv, MapInv, Current, IterComplete
<1>3. MapInv /\ LoopInv /\ [Next]_vars => LoopInv'
  BY LoopStep
<1> QED
  BY <1>1, <1>2, <1>3, MapInvHolds, PTL DEF Spec

-------------------------------------------------------------------------------

(* What a lookup finds, as a property of states.                           *)
Finds ==
    \A k \in Keys :
        /\ \A n \in alloc : nd[n].key = k => ValueOf(k) = nd[n].value
        /\ (\A n \in alloc : nd[n].key # k) => ValueOf(k) = NULL

(* A lookup goes by the key alone, not by the shape of the buckets.        *)
LEMMA FindsHolds == MapInv => Finds
<1> SUFFICES ASSUME MapInv, NEW k \in Keys
             PROVE  /\ \A n \in alloc : nd[n].key = k => ValueOf(k) = nd[n].value
                    /\ (\A n \in alloc : nd[n].key # k) => ValueOf(k) = NULL
  BY DEF Finds
<1>1. alloc \in SUBSET Nodes /\ NULL \notin Nodes
  BY NullAssumption DEF MapInv, TypeOK
<1> QED
  BY <1>1, FindsNode DEF ValueOf

(* The table as a dictionary.                                              *)
dict == [k \in Keys |-> ValueOf(k)]

(* Every step of the table is a step of the dictionary.                    *)
LEMMA DictionaryStep ==
    MapInv /\ Finds /\ Finds' /\ [Next]_vars => [D!Next]_D!vars
<1> SUFFICES ASSUME MapInv, Finds, Finds', [Next]_vars PROVE [D!Next]_D!vars
  OBVIOUS
<1>0. /\ TypeOK /\ alloc \in SUBSET Nodes /\ NULL \notin Nodes
      /\ (capacity = 0 => alloc = {})
  BY NullAssumption DEF MapInv, TypeOK
<1>1. ASSUME UNCHANGED <<nd, alloc>> PROVE dict' = dict
  <2>1. ASSUME NEW k \in Keys PROVE ValueOf(k)' = ValueOf(k)
    <3>1. CASE \E n \in alloc : nd[n].key = k
      BY <1>1, <3>1 DEF Finds
    <3>2. CASE \A n \in alloc : nd[n].key # k
      BY <1>1, <3>2 DEF Finds
    <3> QED
      BY <3>1, <3>2
  <2> QED
    BY <2>1 DEF dict
<1>2. ASSUME alloc' = {} PROVE dict' = D!Empty
  <2>1. ASSUME NEW k \in Keys PROVE ValueOf(k)' = NULL
    BY <1>2 DEF Finds
  <2> QED
    BY <2>1 DEF dict, D!Empty
<1>3. ASSUME NEW k \in Keys, NEW v,
             ValueOf(k)' = v, \A j \in Keys \ {k} : ValueOf(j)' = ValueOf(j)
      PROVE  dict' = [dict EXCEPT ![k] = v]
  BY <1>3 DEF dict
<1>4. CASE MapInit
  BY <1>1, <1>4 DEF MapInit, D!vars, dict
<1>5. ASSUME Clear \/ MapDone PROVE D!Next
  <2>1. alloc' = {} /\ ret' = ret
    BY <1>5, ReachesAll DEF Clear, MapDone, Emptied
  <2> QED
    BY <1>2, <2>1 DEF D!Next, D!Wipe, dict
<1>6. ASSUME NEW k \in Keys, NEW v \in Values, SetOld(k, v) PROVE D!Next
  <2> DEFINE f == Found(k)
  <2>1. f \in alloc /\ nd[f].key = k /\ f \in Nodes
    BY <1>0, <1>6, FindsNode DEF SetOld
  <2>2. nd' = [nd EXCEPT ![f].value = v] /\ alloc' = alloc /\ ret' = ValueOf(k)
    BY <1>6 DEF SetOld
  <2> HIDE DEF f
  <2>3. \A n \in alloc : /\ nd'[n].key = nd[n].key
                         /\ nd'[n].value = IF n = f THEN v ELSE nd[n].value
    BY <1>0, <2>1, <2>2 DEF TypeOK
  <2>4. ValueOf(k)' = v
    BY <2>1, <2>2, <2>3 DEF Finds
  <2>5. ASSUME NEW j \in Keys \ {k} PROVE ValueOf(j)' = ValueOf(j)
    <3>1. CASE \E n \in alloc : nd[n].key = j
      BY <2>1, <2>2, <2>3, <3>1 DEF Finds
    <3>2. CASE \A n \in alloc : nd[n].key # j
      BY <2>2, <2>3, <3>2 DEF Finds
    <3> QED
      BY <3>1, <3>2
  <2> QED
    BY <1>3, <2>2, <2>4, <2>5 DEF D!Next, D!Put, dict
<1>7. ASSUME NEW k \in Keys, NEW v \in Values, SetNew(k, v) PROVE D!Next
  <2>1. PICK n \in Nodes \ alloc : alloc' = alloc \cup {n} /\ nd' = Pushed(n, k, v)
    BY <1>7 DEF SetNew
  <2>2. Found(k) = NULL /\ ret' = NULL /\ \A m \in alloc : nd[m].key # k
    BY <1>0, <1>7, FindsNode DEF SetNew
  <2>3. nd'[n].key = k /\ nd'[n].value = v
    BY <2>1 DEF Pushed
  <2>4. \A m \in alloc : nd'[m].key = nd[m].key /\ nd'[m].value = nd[m].value
    BY <1>0, <2>1 DEF Pushed, TypeOK
  <2>5. ValueOf(k)' = v /\ ValueOf(k) = NULL
    BY <2>1, <2>2, <2>3 DEF Finds
  <2>6. ASSUME NEW j \in Keys \ {k} PROVE ValueOf(j)' = ValueOf(j)
    <3>1. CASE \E m \in alloc : nd[m].key = j
      BY <2>1, <2>4, <3>1 DEF Finds
    <3>2. CASE \A m \in alloc : nd[m].key # j
      <4>1. \A m \in alloc' : nd'[m].key # j
        BY <2>1, <2>3, <2>4, <3>2
      <4> QED
        BY <3>2, <4>1 DEF Finds
    <3> QED
      BY <3>1, <3>2
  <2> QED
    BY <1>3, <2>2, <2>5, <2>6 DEF D!Next, D!Put, dict
<1>8. ASSUME NEW k \in Keys, Get(k) PROVE D!Next
  BY <1>1, <1>8 DEF Get, D!Next, D!Look, dict, mapVars
<1>9. ASSUME NEW k \in Keys, RemoveAbsent(k) PROVE D!Next
  <2>1. ValueOf(k) = NULL /\ ret' = NULL /\ UNCHANGED <<nd, alloc>>
    BY <1>9 DEF RemoveAbsent, mapVars, ValueOf
  <2> QED
    BY <1>1, <2>1 DEF D!Next, D!Look, dict
<1>10. ASSUME NEW k \in Keys, Remove(k) PROVE D!Next
  <2> DEFINE n == Found(k)
  <2>1. n \in alloc /\ nd[n].key = k /\ Bucket(n) = hash[k] /\ n \in Nodes
    BY <1>0, <1>10, FindsNode DEF Remove, Bucket
  <2>2. /\ ret' = nd[n].value /\ nd' = Unlinked(n) /\ alloc' = alloc \ {n}
    BY <1>10 DEF Remove
  <2> HIDE DEF n
  <2>3. ASSUME NEW m \in alloc \ {n}
        PROVE  nd'[m].key = nd[m].key /\ nd'[m].value = nd[m].value
    <3>1. m \in Nodes /\ m # n
      BY <1>0
    <3>2. nd[m] \in [key : Keys \cup {NULL}, value : Values \cup {NULL},
                     prev : Nodes \cup {NULL}, next : Nodes \cup {NULL}]
      BY <1>0, <3>1 DEF TypeOK
    <3>3. nd'[m] = [nd[m] EXCEPT
             !.next = IF m = nd[n].prev THEN nd[n].next ELSE @,
             !.prev = IF m = nd[n].next THEN nd[n].prev ELSE @]
      BY <2>2, <3>1 DEF Unlinked
    <3> QED
      BY <3>2, <3>3
  <2>4. \A m \in alloc \ {n} : nd[m].key # k
    BY <2>1 DEF MapInv, Links, Keyed
  <2>5. ValueOf(k)' = NULL /\ ret' = ValueOf(k)
    BY <2>1, <2>2, <2>3, <2>4 DEF Finds
  <2>6. ASSUME NEW j \in Keys \ {k} PROVE ValueOf(j)' = ValueOf(j)
    <3>1. CASE \E m \in alloc : nd[m].key = j
      BY <2>1, <2>2, <2>3, <3>1 DEF Finds
    <3>2. CASE \A m \in alloc : nd[m].key # j
      BY <2>2, <2>3, <3>2 DEF Finds
    <3> QED
      BY <3>1, <3>2
  <2>7. dict' = [dict EXCEPT ![k] = NULL]
    BY <1>3, <2>5, <2>6
  <2> QED
    BY <2>5, <2>7 DEF D!Next, D!Drop, D!Put, dict
<1>11. ASSUME IterBegin \/ IterRewind \/ IterNextInBucket \/ IterNextBucket
       PROVE  UNCHANGED D!vars
  BY <1>1, <1>11 DEF IterBegin, IterRewind, IterFromStart, IterNextInBucket,
                     IterNextBucket, mapVars, D!vars, dict
<1>12. CASE UNCHANGED vars
  BY <1>1, <1>12 DEF vars, mapVars, D!vars, dict
<1> QED
  BY <1>4, <1>5, <1>6, <1>7, <1>8, <1>9, <1>10, <1>11, <1>12 DEF Next

(* The hash table implements the dictionary, whatever keys collide.        *)
THEOREM Refinement == Spec => IsDictionary
<1>1. MapInv /\ Init => D!Init
  <2> SUFFICES ASSUME MapInv, Init PROVE D!Init
    OBVIOUS
  <2>1. alloc = {} /\ ret = NULL
    BY DEF Init
  <2> QED
    BY <2>1, FindsHolds DEF Finds, D!Init, D!Empty
<1> QED
  BY <1>1, MapInvHolds, FindsHolds, DictionaryStep, PTL
     DEF Spec, IsDictionary, D!Spec
===============================================================================
