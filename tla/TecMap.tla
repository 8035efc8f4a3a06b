-------------------------------- MODULE TecMap --------------------------------
(***************************************************************************)
(* tecc_map.c: a hash table whose buckets are doubly linked lists of       *)
(* nodes, and an iterator that keeps a pointer to its current node.        *)
(*                                                                         *)
(* The map has no lock; its calls are made one at a time.  The FNV-1a hash *)
(* modulo the capacity is an arbitrary function of the key, malloc returns *)
(* any address not in use, and what a freed node held is forgotten.  While *)
(* a loop over an iterator runs its caller may set and get and may remove  *)
(* keys, but not the current one, and does not clear the map.              *)
(***************************************************************************)
EXTENDS Naturals, FiniteSets

CONSTANTS Keys, Values,
          Nodes,      \* addresses malloc may return
          Capacity,   \* length of the bucket array
          NULL

ASSUME CapacityAssumption == Capacity \in Nat \ {0}

ASSUME NodesAssumption == IsFiniteSet(Nodes)

ASSUME NullAssumption == NULL \notin Nodes \cup Keys \cup Values

Buckets == 0 .. Capacity - 1

Blank == [key |-> NULL, value |-> NULL, prev |-> NULL, next |-> NULL]

VARIABLES
    hash,            \* hash_str(key) % capacity
    capacity, size,
    root,            \* map->nodes
    nd,              \* the fields of the nodes
    alloc,           \* nodes malloc has returned and free has not taken back
    ret,             \* what the last set, get or remove has returned
    it, pos, cur,    \* the iterator: "on" while its loop runs
    visited,         \* history: how often the loop has seen each key
    stay             \* history: keys that were there throughout the loop

mapVars == <<hash, capacity, size, root, nd, alloc>>
iterVars == <<it, pos, cur>>
histVars == <<visited, stay>>

vars == <<mapVars, ret, iterVars, histVars>>

-------------------------------------------------------------------------------

Init == /\ hash \in [Keys -> Buckets]
        /\ capacity = 0
        /\ size = 0
        /\ root = [b \in Buckets |-> NULL]
        /\ nd = [n \in Nodes |-> Blank]
        /\ alloc = {}
        /\ ret = NULL
        /\ it = "off"
        /\ pos = 0
        /\ cur = NULL
        /\ visited = [k \in Keys |-> 0]
        /\ stay = {}

(* The node after i links of a bucket. *)
At(b) == LET p[i \in 0 .. Cardinality(Nodes)] ==
               IF i = 0 THEN root[b]
               ELSE LET n == p[i - 1]
                    IN  IF n = NULL THEN NULL ELSE nd[n].next
         IN  p

Least(S) == CHOOSE i \in S : \A j \in S : i <= j

(* find_node: the first node of the key's bucket that has the key. *)
Found(k) ==
    LET p == At(hash[k])
        hits == {i \in DOMAIN p : p[i] # NULL /\ nd[p[i]].key = k}
    IN  IF hits = {} THEN NULL ELSE p[Least(hits)]

Present == {k \in Keys : Found(k) # NULL}

ValueOf(k) == IF Found(k) = NULL THEN NULL ELSE nd[Found(k)].value

MapInit ==
    /\ capacity = 0
    /\ capacity' = Capacity
    /\ size' = 0
    /\ root' = [b \in Buckets |-> NULL]
    /\ UNCHANGED <<hash, nd, alloc, ret, iterVars, histVars>>

(* TecMap_set of a key that is there... *)
SetOld(k, v) ==
    /\ capacity > 0
    /\ Found(k) # NULL
    /\ nd' = [nd EXCEPT ![Found(k)].value = v]
    /\ ret' = ValueOf(k)
    /\ UNCHANGED <<hash, capacity, size, root, alloc, iterVars, histVars>>

(* Faulty: the old root is not told of the node in front of it. *)
Pushed_NoBackLink(n, k, v) ==
    [nd EXCEPT ![n] = [key |-> k, value |-> v, prev |-> NULL,
                       next |-> root[hash[k]]]]

(* The fields after new_node has put n in front of the bucket of k. *)
Pushed(n, k, v) ==
    [m \in Nodes |->
        IF m = n THEN [key |-> k, value |-> v, prev |-> NULL,
                       next |-> root[hash[k]]]
        ELSE IF m = root[hash[k]] THEN [nd[m] EXCEPT !.prev = n]
        ELSE nd[m]]

(* ... and of one that is not: a new root of its bucket. *)
SetNew(k, v) ==
    /\ capacity > 0
    /\ Found(k) = NULL
    /\ \E n \in Nodes \ alloc :
          /\ alloc' = alloc \cup {n}
          /\ nd' = Pushed(n, k, v)
          /\ root' = [root EXCEPT ![hash[k]] = n]
    /\ size' = size + 1
    /\ ret' = NULL
    /\ UNCHANGED <<hash, capacity, iterVars, histVars>>

Get(k) ==
    /\ capacity > 0
    /\ ret' = ValueOf(k)
    /\ UNCHANGED <<mapVars, iterVars, histVars>>

RemoveAbsent(k) ==
    /\ capacity > 0
    /\ Found(k) = NULL
    /\ ret' = NULL
    /\ UNCHANGED <<mapVars, iterVars, histVars>>

(* The fields after n has been unlinked and freed. *)
Unlinked(n) ==
    [m \in Nodes |->
        IF m = n THEN Blank
        ELSE [nd[m] EXCEPT
                 !.next = IF m = nd[n].prev THEN nd[n].next ELSE @,
                 !.prev = IF m = nd[n].next THEN nd[n].prev ELSE @]]

(* Faulty: the bucket still begins with the node that is gone. *)
Remove_KeepRoot(k) ==
    LET n == Found(k)
    IN  /\ capacity > 0
        /\ n # NULL
        /\ ~(it = "on" /\ cur = n)
        /\ ret' = nd[n].value
        /\ UNCHANGED root
        /\ nd' = Unlinked(n)
        /\ alloc' = alloc \ {n}
        /\ size' = size - 1
        /\ stay' = stay \ {k}
        /\ UNCHANGED <<hash, capacity, iterVars, visited>>

(* A node without a predecessor is taken for the root of its bucket. *)
Remove(k) ==
    LET n == Found(k)
    IN  /\ capacity > 0
        /\ n # NULL
        /\ ~(it = "on" /\ cur = n)
        /\ ret' = nd[n].value
        /\ root' = IF nd[n].prev = NULL
                   THEN [root EXCEPT ![hash[k]] = nd[n].next] ELSE root
        /\ nd' = Unlinked(n)
        /\ alloc' = alloc \ {n}
        /\ size' = size - 1
        /\ stay' = stay \ {k}
        /\ UNCHANGED <<hash, capacity, iterVars, visited>>

(* The nodes TecMap_clear walks to and frees. *)
Reached == {n \in Nodes : \E b \in Buckets : \E i \in DOMAIN At(b) : At(b)[i] = n}

Emptied == /\ it # "on"
           /\ alloc' = alloc \ Reached
           /\ nd' = [n \in Nodes |-> IF n \in Reached THEN Blank ELSE nd[n]]
           /\ root' = [b \in Buckets |-> NULL]
           /\ size' = 0

Clear ==
    /\ capacity > 0
    /\ Emptied
    /\ UNCHANGED <<hash, capacity, ret, iterVars, histVars>>

MapDone ==
    /\ capacity > 0
    /\ Emptied
    /\ capacity' = 0
    /\ UNCHANGED <<hash, ret, iterVars, histVars>>

-------------------------------------------------------------------------------

(* The first bucket from b on that is not empty, capacity if there is none. *)
NextBucket(b) ==
    Least({c \in b .. capacity - 1 : root[c] # NULL} \cup {capacity})

See(n) == visited' = [visited EXCEPT ![nd[n].key] = @ + 1]

(* TecMapIter_begin, also on a map after done (examples/misc/map.c), and   *)
(* TecMapIter_rewind in the middle of a loop.                              *)
IterFromStart ==
    LET b == NextBucket(0)
    IN  /\ IF b = capacity
           THEN /\ it' = "end" /\ pos' = 0 /\ cur' = NULL
                /\ visited' = [k \in Keys |-> 0]
           ELSE /\ it' = "on" /\ pos' = b /\ cur' = root[b]
                /\ visited' = [k \in Keys |-> IF nd[root[b]].key = k THEN 1 ELSE 0]
        /\ stay' = Present
        /\ UNCHANGED <<mapVars, ret>>

IterBegin == it # "on" /\ IterFromStart

IterRewind == it = "on" /\ IterFromStart

IterNextInBucket ==
    /\ it = "on"
    /\ nd[cur].next # NULL
    /\ cur' = nd[cur].next
    /\ See(cur')
    /\ UNCHANGED <<mapVars, ret, it, pos, stay>>

(* Faulty: the search for the next bucket begins with the current one.     *)
IterNextBucket_SameAgain ==
    LET b == NextBucket(pos)
    IN  /\ it = "on"
        /\ nd[cur].next = NULL
        /\ IF b = capacity
           THEN it' = "end" /\ UNCHANGED <<pos, cur, visited>>
           ELSE pos' = b /\ cur' = root[b] /\ See(cur') /\ UNCHANGED it
        /\ UNCHANGED <<mapVars, ret, stay>>

(* At the end of the last bucket the iterator keeps its node. *)
IterNextBucket ==
    LET b == NextBucket(pos + 1)
    IN  /\ it = "on"
        /\ nd[cur].next = NULL
        /\ IF b = capacity
           THEN it' = "end" /\ UNCHANGED <<pos, cur, visited>>
           ELSE pos' = b /\ cur' = root[b] /\ See(cur') /\ UNCHANGED it
        /\ UNCHANGED <<mapVars, ret, stay>>

-------------------------------------------------------------------------------

Next == \/ MapInit \/ Clear \/ MapDone
        \/ \E k \in Keys : \/ \E v \in Values : SetOld(k, v) \/ SetNew(k, v)
                           \/ Get(k) \/ RemoveAbsent(k) \/ Remove(k)
        \/ IterBegin \/ IterRewind \/ IterNextInBucket \/ IterNextBucket

Spec == Init /\ [][Next]_vars

-------------------------------------------------------------------------------

(* Types; the size is the number of nodes. *)
TypeOK ==
    /\ hash \in [Keys -> Buckets]
    /\ capacity \in {0, Capacity}
    /\ size = Cardinality(alloc)
    /\ root \in [Buckets -> Nodes \cup {NULL}]
    /\ nd \in [Nodes -> [key : Keys \cup {NULL}, value : Values \cup {NULL},
                         prev : Nodes \cup {NULL}, next : Nodes \cup {NULL}]]
    /\ alloc \in SUBSET Nodes
    /\ ret \in Values \cup {NULL}
    /\ it \in {"off", "on", "end"}
    /\ pos \in Buckets
    /\ cur \in Nodes \cup {NULL}
    /\ visited \in [Keys -> Nat]
    /\ stay \in SUBSET Keys

(* Whatever sequence of sets, removals and clears: every allocated node is *)
(* in exactly one bucket, that of its key, the lists end, their backward   *)
(* links mirror the forward ones, and no key is there twice.  A lost       *)
(* backward link makes a later remove take an inner node for the root.     *)
BucketShape ==
    /\ TypeOK
    /\ alloc = Reached
    /\ \A b \in Buckets :
          LET p == At(b)
              L == {i \in DOMAIN p : p[i] # NULL}
          IN  \A i \in L :
                /\ p[i] \in alloc
                /\ hash[nd[p[i]].key] = b
                /\ nd[p[i]].prev = IF i = 0 THEN NULL ELSE p[i - 1]
                /\ \A j \in L : i # j => /\ p[i] # p[j]
                                         /\ nd[p[i]].key # nd[p[j]].key

(* A loop over the map that ends has seen every key that was there all the *)
(* time, and no key twice, although others were set and removed meanwhile; *)
(* its current node is never a freed one.                                  *)
IterComplete ==
    /\ it = "on" => cur \in alloc
    /\ it = "end" => \A k \in stay : visited[k] = 1
    /\ \A k \in Keys : visited[k] <= 1

D == INSTANCE Dictionary WITH dict <- [k \in Keys |-> ValueOf(k)]

(* The table is a dictionary, whatever keys collide: "Returns the old      *)
(* value if present otherwise NULL" (tecc_map.h:75, 81).                   *)
IsDictionary == D!Spec
===============================================================================
