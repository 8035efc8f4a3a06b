---------------------------- MODULE TecQueueProofs ----------------------------
(***************************************************************************)
(* Proofs about TecQueue for any producers, consumers and addresses.       *)
(***************************************************************************)
EXTENDS TecQueue, TLAPS, SequenceTheorems, WellFoundedInduction

(* What the local variables of a call hold, and who makes which call. *)
Locals ==
    /\ \A t \in Threads :
          /\ pc[t] # "idle" => up
          /\ pc[t] = "link" => t \in Producers
          /\ pc[t] \in {"check", "asleep", "free"} => t \in Consumers
          /\ pc[t] = "link" => /\ node[t] \in Nodes
                               /\ next[node[t]] = NULL
                               /\ obj[node[t]] \in Objs
          /\ pc[t] = "free" => node[t] \in Nodes
    /\ ~up => order = <<>>
    /\ \A i \in 1 .. Len(order) : obj[order[i]] \in Objs

QueueInv == ListShape /\ NodeOwnership /\ Locals

-------------------------------------------------------------------------------

(* Every set of numbers that is not empty has a least one. *)
LEMMA Least ==
    ASSUME NEW T \in SUBSET Nat, T # {}
    PROVE  \E m \in T : \A n \in T : m <= n
<1> DEFINE R == OpToRel(<, Nat)
<1>1. IsWellFoundedOn(R, Nat)
  BY NatLessThanWellFounded
<1>2. \A m, n \in Nat : m < n => <<m, n>> \in R
  BY DEF OpToRel
<1> HIDE DEF R
<1>3. PICK m \in T : \A n \in T : <<n, m>> \notin R
  BY <1>1, WFMin
<1>4. ASSUME NEW n \in T PROVE m <= n
  <2>1. n \in Nat /\ m \in Nat /\ <<n, m>> \notin R
    BY <1>3
  <2>2. ~(n < m)
    BY <1>2, <2>1, Zenon
  <2> QED
    BY <2>1, <2>2
<1> QED
  BY <1>4

(* The loop of TecQueue_done visits the linked nodes and no others.  A     *)
(* first linked node it missed would be the head, or the successor of one  *)
(* it visited.                                                             *)
LEMMA ChainIsLinked ==
    ASSUME ListShape, up
    PROVE  Chain = Linked
<1> USE NullAssumption DEF ListShape, TypeOK
<1>1. order \in Seq(Nodes) /\ Len(order) \in Nat
      /\ \A i \in 1 .. Len(order) : order[i] \in Nodes
  BY ElementOfSeq, LenProperties
<1>2. Chain \subseteq Linked
  <2>1. Linked \in SUBSET Nodes
    BY <1>1 DEF Linked
  <2>2. head # NULL => head \in Linked
    BY <1>1, EmptySeq DEF Linked
  <2>3. \A m \in Linked : next[m] # NULL => next[m] \in Linked
    BY <1>1 DEF Linked
  <2> QED
    BY <2>1, <2>2, <2>3 DEF Chain
<1>3. Linked \subseteq Chain
  <2> SUFFICES ASSUME NEW S \in SUBSET Nodes,
                      head # NULL => head \in S,
                      \A m \in S : next[m] # NULL => next[m] \in S
               PROVE  Linked \subseteq S
    BY <1>1 DEF Chain, Linked
  <2> DEFINE T == {i \in 1 .. Len(order) : order[i] \notin S}
  <2>1. SUFFICES T = {}
    BY <2>1 DEF Linked
  <2>2. SUFFICES ASSUME T # {} PROVE FALSE
    OBVIOUS
  <2>3. PICK i \in T : \A j \in T : i <= j
    <3>1. T \in SUBSET Nat
      BY <1>1
    <3> HIDE DEF T
    <3> QED
      BY <2>2, <3>1, Least
  <2>4. CASE i = 1
    BY <1>1, <2>3, <2>4, EmptySeq
  <2>5. CASE i # 1
    <3>1. i - 1 \in 1 .. Len(order) /\ i - 1 \notin T /\ i - 1 # Len(order)
      BY <1>1, <2>3, <2>5
    <3>2. order[i - 1] \in S /\ next[order[i - 1]] = order[i] /\ order[i] # NULL
      BY <1>1, <2>3, <3>1
    <3> QED
      BY <2>3, <3>2
  <2> QED
    BY <2>4, <2>5
<1> QED
  BY <1>2, <1>3

-------------------------------------------------------------------------------

(* Steps that only move threads outside of the nodes' private ends. *)
LEMMA QuietStep ==
    ASSUME QueueInv,
           UNCHANGED <<up, head, tail, next, obj, alloc, node, val, pushes, order>>,
           NEW t \in Consumers, NEW l \in {"check", "asleep"},
           pc[t] \in {"idle", "check", "asleep"}, up, Goto(t, l)
    PROVE  QueueInv'
<1> USE DEF QueueInv, ListShape, TypeOK, Threads
<1>1. /\ pc' \in [Threads -> {"idle", "link", "check", "asleep", "free"}]
      /\ pc'[t] = l
      /\ \A u \in Threads : u # t => pc'[u] = pc[u]
  BY DEF Goto
<1>2. Private' = Private
  BY <1>1 DEF Private
<1>3. ListShape'
  BY <1>1
<1>4. NodeOwnership'
  BY <1>2 DEF NodeOwnership, Linked
<1>5. Locals'
  BY <1>1 DEF Locals
<1> QED
  BY <1>3, <1>4, <1>5

(* push makes a node of its own, which is in no list.                      *)
LEMMA AllocStep ==
    ASSUME QueueInv, NEW p \in Producers, PushAlloc(p)
    PROVE  QueueInv'
<1> USE NullAssumption, ThreadAssumption DEF QueueInv, ListShape, TypeOK, Threads
<1>1. PICK n \in Nodes \ alloc, o \in Objs :
         /\ alloc' = alloc \cup {n}
         /\ obj' = [obj EXCEPT ![n] = o]
         /\ next' = [next EXCEPT ![n] = NULL]
         /\ node' = [node EXCEPT ![p] = n]
  BY DEF PushAlloc
<1>2. /\ up /\ pc[p] = "idle" /\ pushes < MaxPushes /\ pushes' = pushes + 1
      /\ pc' = [pc EXCEPT ![p] = "link"]
      /\ UNCHANGED <<up, head, tail, val, order>>
  BY DEF PushAlloc, Goto
<1>3. /\ Len(order) \in Nat
      /\ \A i \in 1 .. Len(order) : order[i] \in Nodes /\ order[i] \in Linked
  BY ElementOfSeq, LenProperties DEF Linked
<1>4. n \notin Linked /\ \A t \in Private : node[t] # n
  BY <1>1 DEF NodeOwnership
<1>5. TypeOK'
  BY <1>1, <1>2, PushAssumption
<1>6. \A i \in 1 .. Len(order) : /\ next'[order[i]] = next[order[i]]
                                 /\ obj'[order[i]] = obj[order[i]]
  BY <1>1, <1>3, <1>4
<1>7. ListShape'
  BY <1>2, <1>3, <1>5, <1>6
<1>8. Private' = Private \cup {p} /\ Linked' = Linked
  BY <1>2 DEF Private, Linked
<1>9. \A t \in Private : t # p /\ node'[t] = node[t]
  BY <1>1, <1>2 DEF Private
<1>10. node'[p] = n /\ p \in Threads
  BY <1>1
<1>11. NodeOwnership'
  BY <1>1, <1>4, <1>8, <1>9, <1>10 DEF NodeOwnership
<1>12. Locals'
  <2>1. ASSUME NEW t \in Threads, t # p
        PROVE  /\ pc'[t] = pc[t] /\ node'[t] = node[t]
               /\ pc[t] = "link" => /\ next'[node[t]] = next[node[t]]
                                    /\ obj'[node[t]] = obj[node[t]]
    BY <1>1, <1>2, <1>4, <2>1 DEF Locals, Private
  <2>2. pc'[p] = "link" /\ next'[n] = NULL /\ obj'[n] = o
    BY <1>1, <1>2
  <2>3. \A t \in Threads :
          /\ pc'[t] # "idle" => up'
          /\ pc'[t] = "link" => t \in Producers
          /\ pc'[t] \in {"check", "asleep", "free"} => t \in Consumers
          /\ pc'[t] = "link" => /\ node'[t] \in Nodes
                                /\ next'[node'[t]] = NULL
                                /\ obj'[node'[t]] \in Objs
          /\ pc'[t] = "free" => node'[t] \in Nodes
    BY <1>1, <1>2, <1>10, <2>1, <2>2 DEF Locals
  <2> QED
    BY <1>2, <1>3, <1>6, <2>3 DEF Locals
<1> QED
  BY <1>7, <1>11, <1>12

(* A push ends its own call, and at most moves a sleeper to its test. *)
LEMMA SignalMoves ==
    ASSUME TypeOK, NEW p \in Producers, pc[p] = "link", SignalAndGoto(p, "idle")
    PROVE  /\ pc' \in [Threads -> {"idle", "link", "check", "asleep", "free"}]
           /\ pc'[p] = "idle"
           /\ \A t \in Threads : t # p => \/ pc'[t] = pc[t]
                                          \/ pc[t] = "asleep" /\ pc'[t] = "check"
<1> USE DEF TypeOK, Threads, Goto
<1>1. CASE Asleep = {}
  BY <1>1 DEF SignalAndGoto
<1>2. CASE Asleep # {}
  <2>1. PICK c \in Asleep : pc' = [pc EXCEPT ![p] = "idle", ![c] = "check"]
    BY <1>2 DEF SignalAndGoto
  <2>2. c \in Threads /\ pc[c] = "asleep" /\ c # p
    BY DEF Asleep
  <2> QED
    BY <2>1, <2>2
<1> QED
  BY <1>1, <1>2

(* push appends its node to the list, which becomes its tail.              *)
LEMMA LinkStep ==
    ASSUME QueueInv, NEW p \in Producers, PushLink(p)
    PROVE  QueueInv'
<1> USE NullAssumption, ThreadAssumption DEF QueueInv, ListShape, TypeOK, Threads
<1> DEFINE n == node[p]
           k == Len(order)
<1>1. /\ pc[p] = "link" /\ tail' = n /\ order' = Append(order, n)
      /\ node' = [node EXCEPT ![p] = NULL]
      /\ tail # NULL => next' = [next EXCEPT ![tail] = n] /\ UNCHANGED head
      /\ tail = NULL => head' = n /\ UNCHANGED next
      /\ UNCHANGED <<up, obj, alloc, val, pushes>>
  BY DEF PushLink
<1>2. /\ pc' \in [Threads -> {"idle", "link", "check", "asleep", "free"}]
      /\ pc'[p] = "idle"
      /\ \A t \in Threads : t # p => \/ pc'[t] = pc[t]
                                     \/ pc[t] = "asleep" /\ pc'[t] = "check"
  BY SignalMoves DEF PushLink
<1>3. up /\ n \in Nodes /\ next[n] = NULL /\ obj[n] \in Objs /\ p \in Private
  BY <1>1 DEF Locals, Private
<1>4. n \notin Linked /\ n \in alloc
  BY <1>3 DEF NodeOwnership
<1>5. k \in Nat /\ \A i \in 1 .. k : order[i] \in Nodes /\ order[i] \in Linked
  BY ElementOfSeq, LenProperties DEF Linked
<1>6. /\ order' \in Seq(Nodes)
      /\ Len(order') = k + 1
      /\ \A i \in 1 .. k : order'[i] = order[i]
      /\ order'[k + 1] = n
  BY <1>1, <1>3, <1>5
<1>7. order = <<>> <=> k = 0
  BY EmptySeq
<1>8. order' # <<>>
  BY <1>5, <1>6, EmptySeq
<1>9. TypeOK'
  BY <1>1, <1>2, <1>3, <1>6
<1>10. Linked' = Linked \cup {n}
  <2>1. \A i \in 1 .. k + 1 : i \in 1 .. k \/ i = k + 1
    BY <1>5
  <2>2. k + 1 \in 1 .. k + 1 /\ \A i \in 1 .. k : i \in 1 .. k + 1
    BY <1>5
  <2>3. Linked' \subseteq Linked \cup {n}
    BY <1>6, <2>1 DEF Linked
  <2>4. Linked \cup {n} \subseteq Linked'
    BY <1>6, <2>2 DEF Linked
  <2> QED
    BY <2>3, <2>4
<1>11. Private' = Private \ {p}
  BY <1>1, <1>2 DEF Private
<1>12. \A t \in Private : t # p => node'[t] = node[t]
  BY <1>1 DEF Private
<1>13. NodeOwnership'
  <2>1. alloc = Linked \cup {n} \cup {node[t] : t \in Private \ {p}}
    BY <1>3 DEF NodeOwnership
  <2>2. \A t \in Private \ {p} : node[t] # n
    BY <1>3 DEF NodeOwnership
  <2> QED
    BY <1>1, <1>10, <1>11, <1>12, <2>1, <2>2 DEF NodeOwnership
<1>14. CASE tail = NULL
  <2>1. k = 0
    BY <1>3, <1>5, <1>7, <1>14
  <2>2. /\ Len(order') = 1 /\ order'[1] = n
        /\ head' = n /\ tail' = n /\ next'[n] = NULL
    BY <1>1, <1>3, <1>6, <1>14, <2>1
  <2>3. ListShape'
    BY <1>8, <1>9, <2>2
  <2>4. Locals'
    BY <1>1, <1>2, <1>3, <1>5, <1>6, <1>14 DEF Locals
  <2> QED
    BY <1>13, <2>3, <2>4
<1>15. CASE tail # NULL
  <2>1. k # 0 /\ tail = order[k] /\ tail \in Nodes /\ tail \in Linked
    BY <1>3, <1>5, <1>7, <1>15
  <2>2. /\ \A m \in Nodes : m # tail => next'[m] = next[m]
        /\ next'[tail] = n
    BY <1>1, <1>15, <2>1
  <2>3. /\ head' = order'[1]
        /\ tail' = order'[Len(order')]
    BY <1>1, <1>3, <1>5, <1>6, <1>7, <1>15, <2>1
  <2>4. \A i \in 1 .. k + 1 :
           next'[order'[i]] = IF i = k + 1 THEN NULL ELSE order'[i + 1]
    <3> SUFFICES ASSUME NEW i \in 1 .. k + 1
                 PROVE  next'[order'[i]] = IF i = k + 1 THEN NULL ELSE order'[i + 1]
      OBVIOUS
    <3>1. CASE i = k + 1
      BY <1>3, <1>4, <1>6, <2>1, <2>2, <3>1
    <3>2. CASE i = k
      BY <1>5, <1>6, <2>1, <2>2, <3>2
    <3>3. CASE i < k
      <4>1. i \in 1 .. k /\ i + 1 \in 1 .. k /\ i # k /\ k \in 1 .. k
        BY <1>5, <3>3
      <4>2. order[i] # tail /\ order[i] \in Nodes
        BY <1>3, <1>5, <2>1, <4>1
      <4> QED
        BY <1>3, <1>5, <1>6, <2>2, <4>1, <4>2
    <3> QED
      BY <1>5, <3>1, <3>2, <3>3
  <2>5. \A i, j \in 1 .. k + 1 : i # j => order'[i] # order'[j]
    <3>1. \A i \in 1 .. k + 1 : i \in 1 .. k \/ i = k + 1
      BY <1>5
    <3>2. \A i \in 1 .. k : order'[i] # n
      BY <1>4, <1>5, <1>6
    <3>3. \A i, j \in 1 .. k : i # j => order'[i] # order'[j]
      BY <1>3, <1>6
    <3> QED
      BY <1>6, <3>1, <3>2, <3>3
  <2>6. ListShape'
    BY <1>6, <1>8, <1>9, <2>3, <2>4, <2>5
  <2>7. \A t \in Threads : pc[t] = "link" => node[t] # tail /\ node[t] \in Nodes
    BY <2>1 DEF NodeOwnership, Private, Locals
  <2>8. Locals'
    BY <1>1, <1>2, <1>3, <1>5, <1>6, <2>2, <2>7 DEF Locals
  <2> QED
    BY <1>13, <2>6, <2>8
<1> QED
  BY <1>14, <1>15

(* pop takes the head, which is its own from then on.                      *)
LEMMA TakeStep ==
    ASSUME QueueInv, NEW c \in Consumers, PopTake(c)
    PROVE  QueueInv'
<1> USE NullAssumption, ThreadAssumption DEF QueueInv, ListShape, TypeOK, Threads
<1> DEFINE k == Len(order)
<1>1. /\ pc[c] = "check" /\ head # NULL
      /\ node' = [node EXCEPT ![c] = head]
      /\ val' = [val EXCEPT ![c] = obj[head]]
      /\ head' = next[head]
      /\ tail' = IF head' = NULL THEN NULL ELSE tail
      /\ order' = Tail(order)
      /\ pc' = [pc EXCEPT ![c] = "free"]
      /\ UNCHANGED <<up, next, obj, alloc, pushes>>
  BY DEF PopTake, Goto
<1>2. up /\ order # <<>> /\ head = order[1]
  BY <1>1 DEF Locals
<1>3. /\ k \in Nat \ {0}
      /\ \A i \in 1 .. k : order[i] \in Nodes /\ order[i] \in Linked
  BY <1>2, ElementOfSeq, LenProperties, EmptySeq DEF Linked
<1>4. head \in Nodes /\ head \in Linked /\ obj[head] \in Objs
  BY <1>2, <1>3 DEF Locals
<1>5. /\ order' \in Seq(Nodes)
      /\ Len(order') = k - 1
      /\ \A i \in 1 .. k - 1 : order'[i] = order[i + 1]
  BY <1>1, <1>2, HeadTailProperties
<1>6. order' = <<>> <=> k = 1
  <2>1. order' = <<>> <=> Len(order') = 0
    BY <1>5, EmptySeq
  <2> QED
    BY <1>3, <1>5, <2>1
<1>7. TypeOK'
  BY <1>1, <1>4, <1>5
<1>8. head' = IF order' = <<>> THEN NULL ELSE order'[1]
  <2>1. next[order[1]] = IF 1 = k THEN NULL ELSE order[2]
    <3>1. 1 \in 1 .. Len(order)
      BY <1>3
    <3>2. \A i \in 1 .. Len(order) :
             next[order[i]] = IF i = Len(order) THEN NULL ELSE order[i + 1]
      BY <1>2
    <3>3. next[order[1]] = IF 1 = Len(order) THEN NULL ELSE order[1 + 1]
      BY <3>1, <3>2, Zenon
    <3> QED
      BY <3>3
  <2>2. k # 1 => 1 \in 1 .. k - 1 /\ order'[1] = order[2]
    BY <1>3, <1>5
  <2> QED
    BY <1>1, <1>2, <1>6, <2>1, <2>2
<1>9. order' # <<>> => order'[1] # NULL /\ order'[k - 1] = order[k]
  BY <1>3, <1>5, <1>6
<1>10. tail' = IF order' = <<>> THEN NULL ELSE order'[Len(order')]
  BY <1>1, <1>2, <1>3, <1>5, <1>8, <1>9
<1>11. \A i \in 1 .. k - 1 :
          next'[order'[i]] = IF i = k - 1 THEN NULL ELSE order'[i + 1]
  <2> SUFFICES ASSUME NEW i \in 1 .. k - 1
               PROVE  next'[order'[i]] = IF i = k - 1 THEN NULL ELSE order'[i + 1]
    OBVIOUS
  <2>1. i + 1 \in 1 .. k /\ (i + 1 = k <=> i = k - 1)
    BY <1>3
  <2>2. next[order[i + 1]] = IF i + 1 = k THEN NULL ELSE order[i + 2]
    BY <1>2, <2>1
  <2>3. i # k - 1 => i + 1 \in 1 .. k - 1 /\ order'[i + 1] = order[i + 2]
    BY <1>3, <1>5
  <2> QED
    BY <1>1, <1>5, <2>1, <2>2, <2>3
<1>12. \A i, j \in 1 .. k - 1 : i # j => order'[i] # order'[j]
  <2> SUFFICES ASSUME NEW i \in 1 .. k - 1, NEW j \in 1 .. k - 1, i # j
               PROVE  order[i + 1] # order[j + 1]
    BY <1>5
  <2>1. i + 1 \in 1 .. k /\ j + 1 \in 1 .. k /\ i + 1 # j + 1
    BY <1>3
  <2> QED
    BY <1>2, <2>1
<1>13. ListShape'
  BY <1>5, <1>7, <1>8, <1>10, <1>11, <1>12
<1>14. Linked' = Linked \ {head}
  <2>1. \A i \in 1 .. k - 1 : i + 1 \in 1 .. k /\ i + 1 # 1 /\ 1 \in 1 .. k
    BY <1>3
  <2>2. \A i \in 1 .. k : i # 1 => i - 1 \in 1 .. k - 1 /\ (i - 1) + 1 = i
    BY <1>3
  <2>3. Linked' \subseteq Linked \ {head}
    BY <1>2, <1>5, <2>1 DEF Linked
  <2>4. Linked \ {head} \subseteq Linked'
    <3> SUFFICES ASSUME NEW i \in 1 .. k, order[i] # head
                 PROVE  order[i] \in Linked'
      BY DEF Linked
    <3>1. i - 1 \in 1 .. k - 1 /\ order'[i - 1] = order[i]
      BY <1>2, <1>5, <2>2
    <3> QED
      BY <1>5, <3>1 DEF Linked
  <2> QED
    BY <2>3, <2>4
<1>15. Private' = Private \cup {c} /\ c \notin Private
  BY <1>1 DEF Private
<1>16. node'[c] = head /\ \A t \in Private : node'[t] = node[t]
  BY <1>1, <1>15 DEF Private
<1>17. NodeOwnership'
  BY <1>1, <1>4, <1>14, <1>15, <1>16 DEF NodeOwnership
<1>18. Locals'
  <2>1. \A t \in Threads : t # c => pc'[t] = pc[t] /\ node'[t] = node[t]
    BY <1>1
  <2>2. \A i \in 1 .. k - 1 : i + 1 \in 1 .. k
    BY <1>3
  <2>3. \A i \in 1 .. Len(order') : obj'[order'[i]] \in Objs
    <3> SUFFICES ASSUME NEW i \in 1 .. k - 1 PROVE obj[order[i + 1]] \in Objs
      BY <1>1, <1>5
    <3> QED
      BY <2>2 DEF Locals
  <2>4. pc'[c] = "free" /\ node'[c] \in Nodes
    BY <1>1, <1>4
  <2> QED
    BY <1>1, <1>2, <2>1, <2>3, <2>4 DEF Locals
<1> QED
  BY <1>13, <1>17, <1>18

(* pop frees the node it has taken, which nothing points to any more.      *)
LEMMA FreeStep ==
    ASSUME QueueInv, NEW c \in Consumers, PopFree(c)
    PROVE  QueueInv'
<1> USE NullAssumption, ThreadAssumption DEF QueueInv, ListShape, TypeOK, Threads
<1>1. /\ pc[c] = "free" /\ alloc' = alloc \ {node[c]}
      /\ node' = [node EXCEPT ![c] = NULL]
      /\ val' = [val EXCEPT ![c] = NULL]
      /\ pc' = [pc EXCEPT ![c] = "idle"]
      /\ UNCHANGED <<up, head, tail, next, obj, pushes, order>>
  BY DEF PopFree, Goto
<1>2. ListShape'
  BY <1>1
<1>3. Private' = Private \ {c} /\ c \in Private /\ Linked' = Linked
  BY <1>1 DEF Private, Linked
<1>4. \A t \in Private : t # c => node'[t] = node[t] /\ node[t] # node[c]
  BY <1>1, <1>3 DEF NodeOwnership, Private
<1>5. NodeOwnership'
  BY <1>1, <1>3, <1>4 DEF NodeOwnership
<1>6. Locals'
  BY <1>1 DEF Locals
<1> QED
  BY <1>2, <1>5, <1>6

(* The owner's calls: nothing is in progress, so that only linked nodes    *)
(* are left, and done frees all of them.                                   *)
LEMMA OwnerStep ==
    ASSUME QueueInv, QueueInit \/ QueueDone
    PROVE  QueueInv'
<1> USE NullAssumption DEF QueueInv, ListShape, TypeOK
<1>1. \A t \in Threads : pc[t] = "idle"
  BY DEF QueueInit, QueueDone, Locals
<1>2. Private = {} /\ alloc = Linked
  <2>1. Private = {}
    BY <1>1 DEF Private
  <2> QED
    BY <2>1 DEF NodeOwnership
<1>3. /\ order' = <<>> /\ UNCHANGED <<next, obj, pc, node, val, pushes>>
      /\ up' \in BOOLEAN /\ (up' => head' = NULL /\ tail' = NULL)
      /\ head' \in Nodes \cup {NULL} /\ tail' \in Nodes \cup {NULL}
  BY DEF QueueInit, QueueDone
<1>4. alloc' = {}
  <2>1. CASE QueueInit
    BY <1>2, <2>1 DEF QueueInit, Locals, Linked
  <2>2. CASE QueueDone
    BY <1>2, <2>2, ChainIsLinked DEF QueueDone
  <2> QED
    BY <2>1, <2>2
<1>5. Linked' = {} /\ Private' = {}
  BY <1>2, <1>3 DEF Linked, Private
<1>6. ListShape'
  BY <1>3, <1>4
<1>7. NodeOwnership'
  BY <1>4, <1>5 DEF NodeOwnership
<1>8. Locals'
  BY <1>1, <1>3 DEF Locals
<1> QED
  BY <1>6, <1>7, <1>8

(* The shape of the list, the ownership of the nodes and the local         *)
(* variables are one inductive invariant: a push keeps the shape because   *)
(* its node is nobody else's, and the ownership because the shape says     *)
(* which nodes can be reached.                                             *)
THEOREM Invariance == Spec => []QueueInv
<1>1. Init => QueueInv
  <2> SUFFICES ASSUME Init PROVE QueueInv
    OBVIOUS
  <2>1. TypeOK
    <3>1. up \in BOOLEAN
      BY Zenon DEF Init
    <3>2. 0 \in 0 .. MaxPushes
      BY PushAssumption
    <3> QED
      BY <3>1, <3>2, EmptySeq DEF Init, TypeOK
  <2>2. Linked = {} /\ Private = {}
    BY DEF Init, Linked, Private
  <2>3. NodeOwnership
    BY <2>2 DEF Init, NodeOwnership
  <2> QED
    BY <2>1, <2>3 DEF Init, QueueInv, ListShape, Locals
<1>2. QueueInv /\ [Next]_vars => QueueInv'
  <2> SUFFICES ASSUME QueueInv, [Next]_vars PROVE QueueInv'
    OBVIOUS
  <2>1. ASSUME NEW c \in Consumers, PopCall(c) \/ SpuriousWake(c) \/ PopSleep(c)
        PROVE  QueueInv'
    <3>1. up
      BY <2>1 DEF PopCall, SpuriousWake, PopSleep, QueueInv, Locals, Threads
    <3> QED
      BY <2>1, <3>1, QuietStep DEF PopCall, SpuriousWake, PopSleep
  <2>2. CASE UNCHANGED vars
    BY <2>2
       DEF vars, QueueInv, ListShape, TypeOK, NodeOwnership, Locals, Linked,
       Private
  <2> QED
    BY <2>1, <2>2, AllocStep, LinkStep, TakeStep, FreeStep, OwnerStep
       DEF Next, Pop
<1> QED
  BY <1>1, <1>2, PTL DEF Spec

(* Head, tail and links describe the list of what was pushed and not yet   *)
(* popped, in its order, whenever the queue is between init and done.      *)
THEOREM ListCorrect == Spec => []ListShape
<1>1. QueueInv => ListShape
  BY DEF QueueInv
<1> QED
  BY <1>1, Invariance, PTL

(* No node is freed twice, freed while it can be reached, or leaked.       *)
THEOREM OwnershipCorrect == Spec => []NodeOwnership
<1>1. QueueInv => NodeOwnership
  BY DEF QueueInv
<1> QED
  BY <1>1, Invariance, PTL

-------------------------------------------------------------------------------

(* The state of the FIFO the queue stands for. *)
Content == [i \in 1 .. Len(order) |-> obj[order[i]]]

Taking == [c \in Consumers |-> IF pc[c] = "free" THEN <<val[c]>> ELSE <<>>]

(* A function on an initial part of the numbers is a sequence. *)
LEMMA FunctionIsSeq ==
    ASSUME NEW S, NEW n \in Nat, NEW f \in [1 .. n -> S]
    PROVE  f \in Seq(S) /\ Len(f) = n
<1>1. f \in Seq(S)
  BY SeqDef
<1>2. 1 .. Len(f) = 1 .. n /\ Len(f) \in Nat
  BY <1>1, LenProperties
<1> QED
  BY <1>1, <1>2

(* The objects of the linked nodes are a sequence. *)
ContentOK == /\ Content \in Seq(Objs)
             /\ Len(Content) = Len(order) /\ Len(order) \in Nat
             /\ \A i \in 1 .. Len(order) : Content[i] = obj[order[i]]
             /\ Content = <<>> <=> order = <<>>

(* The linked nodes hold a sequence of objects.                            *)
LEMMA ContentIsSeq == QueueInv => ContentOK
<1> SUFFICES ASSUME QueueInv PROVE ContentOK
  OBVIOUS
<1>1. order \in Seq(Nodes) /\ Len(order) \in Nat
  BY LenProperties DEF QueueInv, ListShape, TypeOK
<1>2. Content \in [1 .. Len(order) -> Objs]
  BY DEF Content, QueueInv, Locals
<1>3. Content \in Seq(Objs) /\ Len(Content) = Len(order)
  BY <1>1, <1>2, FunctionIsSeq
<1> QED
  BY <1>1, <1>3, EmptySeq DEF Content, ContentOK

(* A link puts the object of the node, which nobody has changed since it   *)
(* was filled, behind the content.                                         *)
LEMMA LinkPuts ==
    ASSUME QueueInv, ContentOK, ContentOK', NEW p \in Producers, PushLink(p)
    PROVE  \E o \in Objs : Content' = Append(Content, o) /\ Taking' = Taking
<1> USE DEF QueueInv
<1> DEFINE o == obj[node[p]]
<1>1. o \in Objs /\ node[p] \in Nodes /\ pc[p] = "link"
  BY DEF PushLink, Locals, Threads
<1>2. order' = Append(order, node[p]) /\ obj' = obj /\ val' = val
  BY DEF PushLink
<1>3. order \in Seq(Nodes) /\ Len(order) \in Nat
  BY LenProperties DEF ListShape, TypeOK
<1>4. /\ Len(order') = Len(order) + 1
      /\ order'[Len(order) + 1] = node[p]
      /\ \A i \in 1 .. Len(order) : order'[i] = order[i]
  BY <1>1, <1>2, <1>3
<1>5. /\ Content' \in Seq(Objs) /\ Len(Content') = Len(order')
      /\ \A i \in 1 .. Len(order') : Content'[i] = obj'[order'[i]]
  BY DEF ContentOK
<1>6. /\ Append(Content, o) \in Seq(Objs)
      /\ Len(Append(Content, o)) = Len(order) + 1
      /\ Append(Content, o)[Len(order) + 1] = o
      /\ \A i \in 1 .. Len(order) : Append(Content, o)[i] = obj[order[i]]
  BY <1>1 DEF ContentOK
<1>7. \A i \in 1 .. Len(order) + 1 : Content'[i] = Append(Content, o)[i]
  <2>1. \A i \in 1 .. Len(order) + 1 : i \in 1 .. Len(order) \/ i = Len(order) + 1
    BY <1>3
  <2> QED
    BY <1>2, <1>4, <1>5, <1>6, <2>1
<1>8. Content' = Append(Content, o)
  BY <1>4, <1>5, <1>6, <1>7, SeqEqual
<1>9. \A c \in Consumers : pc'[c] = "free" <=> pc[c] = "free"
  BY <1>1, SignalMoves, ThreadAssumption
     DEF PushLink, ListShape, TypeOK, Threads
<1>10. Taking' = Taking
  BY <1>2, <1>9 DEF Taking
<1> QED
  BY <1>1, <1>8, <1>10

(* A take hands out the first object. *)
LEMMA TakeTakes ==
    ASSUME QueueInv, ContentOK, ContentOK', NEW c \in Consumers, PopTake(c)
    PROVE  F!Take(c)
<1> USE DEF QueueInv
<1>1. /\ pc[c] = "check" /\ head # NULL /\ order' = Tail(order)
      /\ val' = [val EXCEPT ![c] = obj[head]]
      /\ pc' = [pc EXCEPT ![c] = "free"] /\ obj' = obj
  BY DEF PopTake, Goto
<1>2. up /\ order # <<>> /\ head = order[1]
  BY <1>1 DEF Locals, ListShape, Threads
<1>3. /\ Len(order) \in Nat \ {0} /\ Len(order') = Len(order) - 1
      /\ \A i \in 1 .. Len(order) - 1 : order'[i] = order[i + 1]
  BY <1>1, <1>2, HeadTailProperties, EmptySeq DEF ListShape, TypeOK
<1>4. /\ Content # <<>>
      /\ Tail(Content) \in Seq(Objs)
      /\ Len(Tail(Content)) = Len(order) - 1
      /\ \A i \in 1 .. Len(order) - 1 : Tail(Content)[i] = Content[i + 1]
  BY <1>2, HeadTailProperties DEF ContentOK
<1>5. \A i \in 1 .. Len(order) - 1 : Content'[i] = Tail(Content)[i]
  <2> SUFFICES ASSUME NEW i \in 1 .. Len(order) - 1
               PROVE  Content'[i] = Tail(Content)[i]
    OBVIOUS
  <2>1. i + 1 \in 1 .. Len(order)
    BY <1>3
  <2>2. Content[i + 1] = obj[order[i + 1]]
    BY <2>1 DEF ContentOK
  <2>3. Content'[i] = obj[order[i + 1]]
    BY <1>1, <1>3 DEF ContentOK
  <2> QED
    BY <1>4, <2>2, <2>3
<1>6. Content' = Tail(Content)
  <2>1. Content' \in Seq(Objs) /\ Len(Content') = Len(order) - 1
    BY <1>3 DEF ContentOK
  <2> QED
    BY <1>4, <1>5, <2>1, SeqEqual
<1>7. Head(Content) = obj[head]
  <2>1. 1 \in 1 .. Len(order)
    BY <1>3
  <2>2. Content[1] = obj[head]
    BY <1>2, <2>1 DEF ContentOK
  <2> QED
    BY <1>4, <2>2
<1>8. Taking[c] = <<>> /\ Taking' = [Taking EXCEPT ![c] = <<obj[head]>>]
  BY <1>1 DEF Taking, ListShape, TypeOK, Threads
<1> QED
  BY <1>4, <1>6, <1>7, <1>8 DEF F!Take, Content, Taking

(* The queue implements the FIFO: objects leave in the order in which they *)
(* were linked, each once and to one consumer, for any number of threads.  *)
THEOREM Refinement == Spec => IsFifo
<1>1. Init => F!Init
  <2> SUFFICES ASSUME Init
               PROVE  Content = <<>> /\ Taking = [c \in Consumers |-> <<>>]
    BY DEF F!Init, Content, Taking
  <2>1. Len(order) = 0 /\ \A c \in Consumers : pc[c] # "free"
    BY DEF Init, Threads
  <2>2. Content \in [1 .. 0 -> Objs]
    BY <2>1 DEF Content
  <2>3. Content \in Seq(Objs) /\ Len(Content) = 0
    BY <2>2, FunctionIsSeq
  <2> QED
    BY <2>1, <2>3, EmptySeq DEF Taking
<1>2. QueueInv /\ ContentOK /\ ContentOK' /\ [Next]_vars => [F!Next]_F!vars
  <2> SUFFICES ASSUME QueueInv, ContentOK, ContentOK', [Next]_vars
               PROVE  F!Next \/ UNCHANGED F!vars
    OBVIOUS
  <2>1. ASSUME Content' = Content, Taking' = Taking PROVE UNCHANGED F!vars
    BY <2>1 DEF F!vars, Content, Taking
  <2>2. ASSUME NEW p \in Producers, PushAlloc(p) PROVE UNCHANGED F!vars
    <3>1. /\ pc[p] = "idle" /\ pc' = [pc EXCEPT ![p] = "link"]
          /\ UNCHANGED <<order, val>>
      BY <2>2 DEF PushAlloc, Goto
    <3>2. \A i \in 1 .. Len(order) : obj'[order[i]] = obj[order[i]]
      <4>1. PICK n \in Nodes \ alloc, o \in Objs : obj' = [obj EXCEPT ![n] = o]
        BY <2>2 DEF PushAlloc
      <4>2. \A i \in 1 .. Len(order) : order[i] \in Nodes /\ order[i] # n
        BY <4>1, ElementOfSeq
           DEF QueueInv, NodeOwnership, Linked, ListShape, TypeOK
      <4> QED
        BY <4>1, <4>2 DEF QueueInv, ListShape, TypeOK
    <3>3. \A c \in Consumers : pc'[c] = "free" <=> pc[c] = "free"
      BY <3>1 DEF QueueInv, ListShape, TypeOK, Threads
    <3> QED
      BY <2>1, <3>1, <3>2, <3>3 DEF Content, Taking
  <2>3. ASSUME NEW p \in Producers, PushLink(p) PROVE F!Next
    BY <2>3, LinkPuts DEF F!Next, F!Put, Content, Taking
  <2>4. ASSUME NEW c \in Consumers, PopTake(c) PROVE F!Next
    BY <2>4, TakeTakes DEF F!Next
  <2>5. ASSUME NEW c \in Consumers, PopFree(c) PROVE F!Next
    <3>1. /\ pc' = [pc EXCEPT ![c] = "idle"]
          /\ val' = [val EXCEPT ![c] = NULL]
          /\ UNCHANGED <<order, obj>>
      BY <2>5 DEF PopFree, Goto
    <3>2. Content' = Content /\ Taking' = [Taking EXCEPT ![c] = <<>>]
      BY <3>1 DEF Content, Taking, QueueInv, ListShape, TypeOK, Threads
    <3> QED
      BY <3>2 DEF F!Next, F!Return, Content, Taking
  <2>6. ASSUME NEW c \in Consumers, PopCall(c) \/ SpuriousWake(c) \/ PopSleep(c)
        PROVE  UNCHANGED F!vars
    <3>1. /\ \A d \in Consumers : pc'[d] = "free" <=> pc[d] = "free"
          /\ UNCHANGED <<order, obj, val>>
      BY <2>6
         DEF PopCall, SpuriousWake, PopSleep, Goto, QueueInv, ListShape, TypeOK,
         Threads
    <3> QED
      BY <2>1, <3>1 DEF Content, Taking
  <2>7. CASE QueueInit
    <3>1. order = <<>> /\ order' = <<>> /\ UNCHANGED <<obj, pc, val>>
      BY <2>7 DEF QueueInit, QueueInv, Locals
    <3> QED
      BY <2>1, <3>1 DEF Content, Taking
  <2>8. CASE QueueDone
    <3>1. /\ order' = <<>> /\ UNCHANGED <<pc, val>>
          /\ \A c \in Consumers : pc[c] # "free"
      BY <2>8 DEF QueueDone, Threads
    <3>2. Content' = <<>> /\ Taking' = Taking /\ \A c \in Consumers : Taking[c] = <<>>
      BY <3>1 DEF ContentOK, Taking
    <3> QED
      BY <3>2 DEF F!Next, F!Drop, Content, Taking
  <2>9. CASE UNCHANGED vars
    BY <2>1, <2>9 DEF vars, Content, Taking
  <2> QED
    BY <2>2, <2>3, <2>4, <2>5, <2>6, <2>7, <2>8, <2>9 DEF Next, Pop
<1> QED
  BY <1>1, <1>2, Invariance, ContentIsSeq, PTL DEF Spec, IsFifo, F!Spec
===============================================================================
