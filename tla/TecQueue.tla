------------------------------- MODULE TecQueue -------------------------------
(***************************************************************************)
(* tecc_queue.c: a linked list with a head and a tail pointer, a mutex and *)
(* a condition variable.                                                   *)
(*                                                                         *)
(* The list is touched only with the mutex held, and nothing blocks        *)
(* between a lock and the unlock or the sleep that ends it, so a critical  *)
(* section is one step.  What the code does outside of the mutex is a step *)
(* of its own: the malloc and the filling of a node before it is linked,   *)
(* the free of a node after it has been unlinked.                          *)
(***************************************************************************)
EXTENDS Integers, Sequences, FiniteSets

CONSTANTS Producers, Consumers, Objs,
          Nodes,      \* addresses malloc may return
          NULL,
          MaxPushes   \* bound on the number of pushes

Threads == Producers \cup Consumers

ASSUME ThreadAssumption == Producers \cap Consumers = {}

ASSUME NullAssumption == NULL \notin Nodes

ASSUME PushAssumption == MaxPushes \in Nat

VARIABLES
    up,        \* between init and done
    head, tail,
    next, obj, \* the two fields of a node
    alloc,     \* nodes malloc has returned and free has not taken back
    pc,
    node,      \* local variable of push (node) and pop (head), NULL outside
    val,       \* local variable of pop (obj), NULL outside
    pushes,    \* pushes begun
    order      \* history: the nodes in the order in which they were linked

vars == <<up, head, tail, next, obj, alloc, pc, node, val, pushes, order>>

-------------------------------------------------------------------------------

Init == /\ up = FALSE
        /\ head = NULL
        /\ tail = NULL
        /\ next = [n \in Nodes |-> NULL]
        /\ obj = [n \in Nodes |-> NULL]
        /\ alloc = {}
        /\ pc = [t \in Threads |-> "idle"]
        /\ node = [t \in Threads |-> NULL]
        /\ val = [c \in Consumers |-> NULL]
        /\ pushes = 0
        /\ order = <<>>

Goto(t, l) == pc' = [pc EXCEPT ![t] = l]

QueueInit ==
    /\ ~up
    /\ up' = TRUE
    /\ head' = NULL
    /\ tail' = NULL
    /\ order' = <<>>
    /\ UNCHANGED <<next, obj, alloc, pc, node, val, pushes>>

(* A faulty done that frees the first node only. *)
Chain_HeadOnly == {head} \cap Nodes

(* The nodes the loop of TecQueue_done visits: those in every set of nodes *)
(* that holds the head and, with a node, its successor.                    *)
Chain == {n \in Nodes :
             \A S \in SUBSET Nodes :
                (/\ head # NULL => head \in S
                 /\ \A m \in S : next[m] # NULL => next[m] \in S) => n \in S}

(* TecQueue_done, called when no thread is in a call any more.  It leaves  *)
(* head and tail as they are.                                              *)
QueueDone ==
    /\ up
    /\ \A t \in Threads : pc[t] = "idle"
    /\ up' = FALSE
    /\ alloc' = alloc \ Chain
    /\ order' = <<>>
    /\ UNCHANGED <<head, tail, next, obj, pc, node, val, pushes>>

(* TecQueue_push, before the lock. *)
PushAlloc(p) ==
    /\ up
    /\ pc[p] = "idle"
    /\ pushes < MaxPushes
    /\ \E n \in Nodes \ alloc, o \in Objs :
          /\ alloc' = alloc \cup {n}
          /\ obj' = [obj EXCEPT ![n] = o]
          /\ next' = [next EXCEPT ![n] = NULL]
          /\ node' = [node EXCEPT ![p] = n]
    /\ pushes' = pushes + 1
    /\ Goto(p, "link")
    /\ UNCHANGED <<up, head, tail, val, order>>

Asleep == {c \in Consumers : pc[c] = "asleep"}

(* A faulty push that wakes nobody. *)
SignalAndGoto_Never(p, l) == Goto(p, l)

(* A signal wakes one sleeper, if there is one; p goes on to l. *)
SignalAndGoto(p, l) ==
    IF Asleep = {} THEN Goto(p, l)
    ELSE \E c \in Asleep : pc' = [pc EXCEPT ![p] = l, ![c] = "check"]

(* A faulty push that puts the node in front of the list. *)
PushLink_InFront(p) ==
    /\ pc[p] = "link"
    /\ LET n == node[p]
       IN  /\ next' = [next EXCEPT ![n] = head]
           /\ head' = n
           /\ tail' = IF tail = NULL THEN n ELSE tail
           /\ order' = Append(order, n)
    /\ SignalAndGoto(p, "idle")
    /\ node' = [node EXCEPT ![p] = NULL]
    /\ UNCHANGED <<up, obj, alloc, val, pushes>>

(* Link the node and signal. *)
PushLink(p) ==
    /\ pc[p] = "link"
    /\ LET n == node[p]
       IN  /\ IF tail # NULL
              THEN next' = [next EXCEPT ![tail] = n] /\ UNCHANGED head
              ELSE head' = n /\ UNCHANGED next
           /\ tail' = n
           /\ order' = Append(order, n)
    /\ SignalAndGoto(p, "idle")
    /\ node' = [node EXCEPT ![p] = NULL]
    /\ UNCHANGED <<up, obj, alloc, val, pushes>>

-------------------------------------------------------------------------------

PopCall(c) ==
    /\ up
    /\ pc[c] = "idle"
    /\ Goto(c, "check")
    /\ UNCHANGED <<up, head, tail, next, obj, alloc, node, val, pushes, order>>

(* Nothing there: sleep. *)
PopSleep(c) ==
    /\ pc[c] = "check"
    /\ head = NULL
    /\ Goto(c, "asleep")
    /\ UNCHANGED <<up, head, tail, next, obj, alloc, node, val, pushes, order>>

SpuriousWake(c) ==
    /\ pc[c] = "asleep"
    /\ Goto(c, "check")
    /\ UNCHANGED <<up, head, tail, next, obj, alloc, node, val, pushes, order>>

(* A faulty pop that leaves the tail on the node it has unlinked. *)
PopTake_KeepTail(c) ==
    /\ pc[c] = "check"
    /\ head # NULL
    /\ node' = [node EXCEPT ![c] = head]
    /\ val' = [val EXCEPT ![c] = obj[head]]
    /\ head' = next[head]
    /\ order' = Tail(order)
    /\ Goto(c, "free")
    /\ UNCHANGED <<up, tail, next, obj, alloc, pushes>>

(* Unlink the first node. *)
PopTake(c) ==
    /\ pc[c] = "check"
    /\ head # NULL
    /\ node' = [node EXCEPT ![c] = head]
    /\ val' = [val EXCEPT ![c] = obj[head]]
    /\ head' = next[head]
    /\ tail' = IF head' = NULL THEN NULL ELSE tail
    /\ order' = Tail(order)
    /\ Goto(c, "free")
    /\ UNCHANGED <<up, next, obj, alloc, pushes>>

(* After the unlock. *)
PopFree(c) ==
    /\ pc[c] = "free"
    /\ alloc' = alloc \ {node[c]}
    /\ node' = [node EXCEPT ![c] = NULL]
    /\ val' = [val EXCEPT ![c] = NULL]
    /\ Goto(c, "idle")
    /\ UNCHANGED <<up, head, tail, next, obj, pushes, order>>

Pop(c) == PopSleep(c) \/ PopTake(c) \/ PopFree(c)

Next == \/ QueueInit
        \/ QueueDone
        \/ \E p \in Producers : PushAlloc(p) \/ PushLink(p)
        \/ \E c \in Consumers : PopCall(c) \/ SpuriousWake(c) \/ Pop(c)

Spec == Init /\ [][Next]_vars

(* Every thread that can run does, the mutex starves nobody, and consumers *)
(* call pop again and again, as the threads of workers and pools do.       *)
FairSpec == /\ Spec
            /\ \A p \in Producers : WF_vars(PushLink(p))
            /\ \A c \in Consumers : WF_vars(Pop(c)) /\ WF_vars(PopCall(c))

-------------------------------------------------------------------------------

(* Types. *)
TypeOK ==
    /\ up \in BOOLEAN
    /\ head \in Nodes \cup {NULL}
    /\ tail \in Nodes \cup {NULL}
    /\ next \in [Nodes -> Nodes \cup {NULL}]
    /\ obj \in [Nodes -> Objs \cup {NULL}]
    /\ alloc \in SUBSET Nodes
    /\ pc \in [Threads -> {"idle", "link", "check", "asleep", "free"}]
    /\ node \in [Threads -> Nodes \cup {NULL}]
    /\ val \in [Consumers -> Objs \cup {NULL}]
    /\ pushes \in 0 .. MaxPushes
    /\ order \in Seq(Nodes)

(* The list is the history of what was linked and not yet unlinked: head   *)
(* is its first node, tail its last, and both are null when it is empty,   *)
(* so that a push after the queue ran empty never links to a freed node.   *)
ListShape ==
    /\ TypeOK
    /\ up =>
          /\ head = IF order = <<>> THEN NULL ELSE order[1]
          /\ tail = IF order = <<>> THEN NULL ELSE order[Len(order)]
          /\ \A i \in 1 .. Len(order) :
                next[order[i]] = IF i = Len(order) THEN NULL ELSE order[i + 1]
          /\ \A i, j \in 1 .. Len(order) : i # j => order[i] # order[j]

(* Nodes that only one thread can reach: not yet linked, or unlinked. *)
Private == {t \in Threads : pc[t] \in {"link", "free"}}

Linked == {order[i] : i \in 1 .. Len(order)}

(* A node is freed once and only when nobody can reach it: the allocated   *)
(* nodes are the linked ones and those private to one thread, all of them  *)
(* different.  There is nothing else, so no node is leaked either.         *)
NodeOwnership ==
    /\ alloc = Linked \cup {node[t] : t \in Private}
    /\ \A t \in Private : node[t] \notin Linked
    /\ \A t, u \in Private : t # u => node[t] # node[u]

(* One push wakes one consumer, and another may be quicker and take the    *)
(* object: still, with consumers that keep calling pop, no object is       *)
(* stranded while all of them sleep.                                       *)
Delivered == order # <<>> ~> order = <<>>

F == INSTANCE Fifo
        WITH q <- [i \in 1 .. Len(order) |-> obj[order[i]]],
             taking <- [c \in Consumers |->
                           IF pc[c] = "free" THEN <<val[c]>> ELSE <<>>]

(* Objects leave in the order in which push linked them, each one once. *)
IsFifo == F!Spec
===============================================================================
