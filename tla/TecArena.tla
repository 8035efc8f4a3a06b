------------------------------- MODULE TecArena -------------------------------
(***************************************************************************)
(* tecc_arena.c: fixed-size elements from a preallocated block, the heap   *)
(* when the block is used up.  Every operation runs under the arena's      *)
(* lock, so each one is a single step here.                                *)
(*                                                                         *)
(* An element is a slot of the block (its index) or a heap object.  Its    *)
(* first word holds the flags while it is handed out and the free-list     *)
(* link once it is released: "cell" is that word.  The bits of a zero flag *)
(* word and of a null link are the same, NULL stands for both; a link is   *)
(* aligned, so its bits never contain the ALLOCATED flag.                  *)
(***************************************************************************)
EXTENDS Integers, Sequences, FiniteSets

CONSTANTS
    Clients,      \* whoever holds elements: callers of enqueue, task threads
    MaxCapacity,  \* init is called with nelems in 0..MaxCapacity
    Heap,         \* heap objects calloc may return
    NULL,         \* zero flags, the null pointer
    ALLOCATED     \* TECC_ARENA_ALLOCATED

ASSUME CapacityAssumption == MaxCapacity \in Nat

Slots == 0 .. MaxCapacity - 1

Elems == Slots \cup Heap

ASSUME ElemAssumption ==
    /\ Slots \cap Heap = {}
    /\ NULL \notin Elems
    /\ ALLOCATED \notin Elems \cup {NULL}

VARIABLES
    up,         \* init has returned true and done has not been called
    buf,        \* the block: FALSE is the null pointer
    capacity,
    allocated,
    free_list,
    cell,       \* first word of every element
    heap,       \* heap objects in existence
    held,       \* elements each client has obtained and not given back
    freed       \* history: the released slots in order of release

vars == <<up, buf, capacity, allocated, free_list, cell, heap, held, freed>>

(* The slots handed out. *)
Live == {s \in Slots : \E c \in Clients : s \in held[c]}

Released == {freed[i] : i \in 1 .. Len(freed)}

(* The slots used since init or since the last time all were free. *)
Used == Live \cup Released

Mark == allocated + Len(freed)

-------------------------------------------------------------------------------

Init == /\ up = FALSE
        /\ buf = FALSE
        /\ capacity = 0
        /\ allocated = 0
        /\ free_list = NULL
        /\ cell = [e \in Elems |-> NULL]
        /\ heap = {}
        /\ held = [c \in Clients |-> {}]
        /\ freed = <<>>

(* TecArena_init.  The mutex may fail, and so may the calloc of the block, *)
(* which init does not report.                                             *)
ArenaInit(n) ==
    /\ ~up
    /\ up' \in BOOLEAN
    /\ buf' \in IF up' /\ n > 0 THEN BOOLEAN ELSE {FALSE}
    /\ capacity' = n
    /\ allocated' = 0
    /\ free_list' = NULL
    /\ cell' = [e \in Elems |-> IF e \in Slots /\ buf' THEN NULL ELSE cell[e]]
    /\ freed' = <<>>
    /\ UNCHANGED <<heap, held>>

Hold(c, e) == held' = [held EXCEPT ![c] = @ \cup {e}]

(* Faulty variants of the three tests and updates below, each with one     *)
(* plausible mistake, and of the release further down.  The properties     *)
(* tell each of them from the code.                                        *)
MarkTaken_NoFlag(e) == /\ allocated' = allocated + 1
                       /\ cell' = cell

NoneReleased_Unchecked == TRUE

CanBump_OffByOne == buf /\ allocated + 1 < capacity

(* The part of allocate common to both ways of getting a slot. *)
MarkTaken(e) == /\ allocated' = allocated + 1
                /\ cell' = [cell EXCEPT ![e] = ALLOCATED]

(* Allocate looks at the block only when the free list is empty. *)
NoneReleased == free_list = NULL

(* The count of live elements serves as the index of the next fresh slot. *)
CanBump == buf /\ allocated < capacity

(* Pop the free list. *)
AllocateFree(c) ==
    /\ up
    /\ free_list # NULL
    /\ free_list' = cell[free_list]
    /\ MarkTaken(free_list)
    /\ Hold(c, free_list)
    /\ freed' = SubSeq(freed, 1, Len(freed) - 1)
    /\ UNCHANGED <<up, buf, capacity, heap>>

AllocateFresh(c) ==
    /\ up
    /\ NoneReleased
    /\ CanBump
    /\ MarkTaken(allocated)
    /\ Hold(c, allocated)
    /\ UNCHANGED <<up, buf, capacity, free_list, heap, freed>>

(* No slot: one zeroed heap object.  When calloc fails the caller gets     *)
(* NULL and nothing changes.  A null block has no slots: NULL + 0 is NULL. *)
AllocateHeap(c) ==
    /\ up
    /\ NoneReleased
    /\ ~CanBump
    /\ \E h \in Heap \ heap :
          /\ heap' = heap \cup {h}
          /\ cell' = [cell EXCEPT ![h] = NULL]
          /\ Hold(c, h)
    /\ UNCHANGED <<up, buf, capacity, allocated, free_list, freed>>

(* TecArena_release tells slots from heap objects by the flag alone. *)
ReleaseSlot_NoLink(c, e) ==
    /\ up
    /\ e \in held[c]
    /\ cell[e] = ALLOCATED
    /\ cell' = [cell EXCEPT ![e] = NULL]
    /\ allocated' = allocated - 1
    /\ free_list' = IF allocated' = 0 THEN NULL ELSE e
    /\ freed' = IF allocated' = 0 THEN <<>> ELSE Append(freed, e)
    /\ held' = [held EXCEPT ![c] = @ \ {e}]
    /\ UNCHANGED <<up, buf, capacity, heap>>

ReleaseSlot(c, e) ==
    /\ up
    /\ e \in held[c]
    /\ cell[e] = ALLOCATED
    /\ cell' = [cell EXCEPT ![e] = free_list]
    /\ allocated' = allocated - 1
    /\ free_list' = IF allocated' = 0 THEN NULL ELSE e
    /\ freed' = IF allocated' = 0 THEN <<>> ELSE Append(freed, e)
    /\ held' = [held EXCEPT ![c] = @ \ {e}]
    /\ UNCHANGED <<up, buf, capacity, heap>>

ReleaseHeap(c, e) ==
    /\ up
    /\ e \in held[c]
    /\ cell[e] # ALLOCATED
    /\ heap' = heap \ {e}
    /\ held' = [held EXCEPT ![c] = @ \ {e}]
    /\ UNCHANGED <<up, buf, capacity, allocated, free_list, cell, freed>>

(* TecArena_done frees the block whoever still holds a slot: the pool does *)
(* that to tasks of a thread that never ran.  Heap objects leak.  The      *)
(* count and the free list keep their values until the next init.          *)
ArenaDone ==
    /\ up
    /\ up' = FALSE
    /\ buf' = FALSE
    /\ held' = [c \in Clients |-> {}]
    /\ UNCHANGED <<capacity, allocated, free_list, cell, heap, freed>>

Next ==
    \/ \E n \in 0 .. MaxCapacity : ArenaInit(n)
    \/ \E c \in Clients :
          \/ AllocateFree(c)
          \/ AllocateFresh(c)
          \/ AllocateHeap(c)
          \/ \E e \in Elems : ReleaseSlot(c, e) \/ ReleaseHeap(c, e)
    \/ ArenaDone

Spec == Init /\ [][Next]_vars

-------------------------------------------------------------------------------

(* Types: the free list holds slots, the first word of an element is a     *)
(* link, the flag or zero.                                                 *)
TypeOK ==
    /\ up \in BOOLEAN
    /\ buf \in BOOLEAN
    /\ capacity \in 0 .. MaxCapacity
    /\ allocated \in 0 .. MaxCapacity
    /\ free_list \in Slots \cup {NULL}
    /\ cell \in [Elems -> Slots \cup {NULL, ALLOCATED}]
    /\ heap \in SUBSET Heap
    /\ held \in [Clients -> SUBSET Elems]
    /\ freed \in Seq(Slots)

(* TecArena_allocate and TecArena_release keep no mark of the slots ever   *)
(* used.  The index they bump is right all the same: the slots handed out  *)
(* and the released ones are together an initial part of the block, each   *)
(* counted once, and "allocated" is the exact number of the former, so     *)
(* that with an empty free list slot "allocated" is one nobody has.        *)
CountIsMark ==
    up => /\ allocated = Cardinality(Live)
          /\ Live \cap Released = {}
          /\ Used = 0 .. Mark - 1
          /\ Mark <= IF buf THEN capacity ELSE 0

(* The free list, a chain of links laid over the flags of released slots,  *)
(* runs through exactly the released slots, the last one first, and ends.  *)
FreeListShape ==
    up => /\ \A i, j \in 1 .. Len(freed) : i # j => freed[i] # freed[j]
          /\ free_list = IF freed = <<>> THEN NULL ELSE freed[Len(freed)]
          /\ \A i \in 1 .. Len(freed) :
                cell[freed[i]] = IF i = 1 THEN NULL ELSE freed[i - 1]

(* The flag release tests is right: every element handed out is a slot     *)
(* with the flag set or an existing heap object without it, and it was     *)
(* handed out once.                                                        *)
FlagTellsOrigin ==
    up => /\ \A c \in Clients : \A e \in held[c] :
                \/ e \in Slots /\ cell[e] = ALLOCATED
                \/ e \in heap /\ cell[e] # ALLOCATED
          /\ \A c, d \in Clients : c # d => held[c] \cap held[d] = {}

A == INSTANCE Allocator
        WITH open <- up,
             block <- IF buf THEN 0 .. capacity - 1 ELSE {},
             held <- held

(* The arena implements the allocator of tecc_arena.h:24-26: it never      *)
(* gives an element to two clients, and uses the heap only when the block  *)
(* is full or missing.                                                     *)
IsAllocator == A!Spec
===============================================================================
