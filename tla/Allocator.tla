------------------------------ MODULE Allocator ------------------------------
(***************************************************************************)
(* What an arena promises its clients, with no list, counter or flag:      *)
(* tecc_arena.h:24-26, "objects of fixed size from a preallocated block    *)
(* and automatically switches to heap allocation when the arena is full".  *)
(* An element handed out belongs to nobody else until it is released.      *)
(***************************************************************************)
EXTENDS Integers

CONSTANTS Clients, Slots, Heap

VARIABLES open, block, held

vars == <<open, block, held>>

(* The elements that are handed out. *)
InUse == UNION {held[c] : c \in Clients}

Init == /\ open = FALSE
        /\ block = {}
        /\ held = [c \in Clients |-> {}]

(* The block may be any part of the slots: empty when there is no memory. *)
Open == /\ ~open
        /\ open' = TRUE
        /\ block' \in SUBSET Slots
        /\ UNCHANGED held

Give(c, e) == /\ e \notin InUse
              /\ held' = [held EXCEPT ![c] = @ \cup {e}]

(* A slot as long as one is free, a heap object only when none is. *)
Acquire(c) == /\ open
              /\ \/ \E s \in block : Give(c, s)
                 \/ block \subseteq InUse /\ \E h \in Heap : Give(c, h)
              /\ UNCHANGED <<open, block>>

Release(c) == /\ open
              /\ \E e \in held[c] : held' = [held EXCEPT ![c] = @ \ {e}]
              /\ UNCHANGED <<open, block>>

Close == /\ open
         /\ open' = FALSE
         /\ block' = {}
         /\ held' = [c \in Clients |-> {}]

Next == \/ Open
        \/ Close
        \/ \E c \in Clients : Acquire(c) \/ Release(c)

Spec == Init /\ [][Next]_vars
==============================================================================
