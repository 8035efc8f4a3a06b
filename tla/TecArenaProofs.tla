---------------------------- MODULE TecArenaProofs ----------------------------
(***************************************************************************)
(* Proofs about TecArena for every number of clients, every block size and *)
(* every heap.  The four invariants of the module hold each other up: the  *)
(* count is a mark only as long as the free list has the right shape, and  *)
(* release reads the right flag only as long as no element is held twice.  *)
(* Their conjunction is inductive.                                         *)
(***************************************************************************)
EXTENDS TecArena, FiniteSetTheorems, SequenceTheorems, TLAPS

(* While the arena is down it has no block and nothing is held. *)
DownIsEmpty == ~up => ~buf /\ \A c \in Clients : held[c] = {}

Inv == /\ TypeOK
       /\ CountIsMark
       /\ FreeListShape
       /\ FlagTellsOrigin
       /\ DownIsEmpty

-------------------------------------------------------------------------------

(* A prefix of a sequence. *)
LEMMA Prefix ==
    ASSUME NEW S, NEW s \in Seq(S), NEW n \in 0 .. Len(s)
    PROVE  /\ SubSeq(s, 1, n) \in Seq(S)
           /\ Len(SubSeq(s, 1, n)) = n
           /\ \A i \in 1 .. n : SubSeq(s, 1, n)[i] = s[i]
<1>1. Len(s) \in Nat
  BY LenProperties
<1>2. \A i \in 1 .. n : s[i] \in S
  BY <1>1, ElementOfSeq
<1>3. 1 \in Int /\ n \in Int
  BY <1>1
<1>4. /\ SubSeq(s, 1, n) \in Seq(S)
      /\ Len(SubSeq(s, 1, n)) = IF 1 <= n THEN n - 1 + 1 ELSE 0
      /\ \A i \in 1 .. n - 1 + 1 : SubSeq(s, 1, n)[i] = s[1 + i - 1]
  BY ONLY <1>2, <1>3, SubSeqProperties
<1> QED
  BY <1>1, <1>4

(* The live slots are finitely many. *)
LEMMA LiveFinite == IsFiniteSet(Live) /\ Cardinality(Live) \in Nat
<1>1. IsFiniteSet(Slots)
  BY CapacityAssumption, FS_Interval DEF Slots
<1> QED
  BY <1>1, FS_Subset, FS_CardinalityType DEF Live

(* With every client's elements unchanged but one's, who gains slot s, the *)
(* live slots gain s.                                                      *)
LEMMA LiveGain ==
    ASSUME TypeOK, NEW c \in Clients, NEW s \in Elems, Hold(c, s)
    PROVE  /\ Live' = IF s \in Slots THEN Live \cup {s} ELSE Live
           /\ held' \in [Clients -> SUBSET Elems]
           /\ \A d \in Clients : held'[d] = IF d = c THEN held[c] \cup {s}
                                                     ELSE held[d]
BY DEF TypeOK, Live, Hold

(* A client gives back an element that only it holds. *)
LEMMA LiveLoss ==
    ASSUME TypeOK, NEW c \in Clients, NEW e \in held[c],
           \A b, d \in Clients : b # d => held[b] \cap held[d] = {},
           held' = [held EXCEPT ![c] = @ \ {e}]
    PROVE  /\ Live' = Live \ {e}
           /\ held' \in [Clients -> SUBSET Elems]
           /\ \A d \in Clients : held'[d] = IF d = c THEN held[c] \ {e}
                                                     ELSE held[d]
           /\ \A d \in Clients : e \notin held'[d]
BY DEF TypeOK, Live

(* The length of the history of released slots, and its entries. *)
LEMMA FreedFacts ==
    ASSUME TypeOK
    PROVE  /\ Len(freed) \in Nat
           /\ (freed = <<>>) <=> (Len(freed) = 0)
           /\ \A i \in 1 .. Len(freed) : freed[i] \in Slots
<1>1. freed \in Seq(Slots)
  BY DEF TypeOK
<1> QED
  BY <1>1, EmptySeq, LenProperties, ElementOfSeq

-------------------------------------------------------------------------------

(* Marking a slot that nobody holds and giving it to one client keeps the  *)
(* flags right.                                                            *)
LEMMA TakenKeepsFlags ==
    ASSUME TypeOK, up, FlagTellsOrigin,
           NEW c \in Clients, NEW s \in Slots, s \notin Live,
           cell' = [cell EXCEPT ![s] = ALLOCATED],
           \A d \in Clients : held'[d] = IF d = c THEN held[c] \cup {s}
                                                 ELSE held[d],
           UNCHANGED <<up, heap>>
    PROVE  FlagTellsOrigin'
<1>1. s \in Elems /\ \A d \in Clients : s \notin held[d]
  BY DEF Live, Elems
<1>2. cell'[s] = ALLOCATED /\ \A e \in Elems \ {s} : cell'[e] = cell[e]
  BY <1>1 DEF TypeOK
<1>3. ASSUME NEW d \in Clients, NEW e \in held'[d]
      PROVE  (e \in Slots /\ cell'[e] = ALLOCATED)
                \/ (e \in heap /\ cell'[e] # ALLOCATED)
  <2>1. CASE e = s
    BY <1>2, <2>1
  <2>2. CASE e # s
    <3>1. e \in held[d] /\ e \in Elems
      BY <1>3, <2>2 DEF TypeOK
    <3> QED
      BY <1>2, <2>2, <3>1 DEF FlagTellsOrigin
  <2> QED
    BY <2>1, <2>2
<1>4. \A b, d \in Clients : b # d => held'[b] \cap held'[d] = {}
  BY <1>1 DEF FlagTellsOrigin
<1> QED
  BY <1>3, <1>4 DEF FlagTellsOrigin

(* Init forgets all slots: the block starts with every slot fresh. *)
LEMMA ArenaInitStep ==
    ASSUME Inv, NEW n \in 0 .. MaxCapacity, ArenaInit(n)
    PROVE  Inv'
<1> USE CapacityAssumption, ElemAssumption DEF Inv, ArenaInit
<1>1. freed' = <<>> /\ Len(freed') = 0 /\ freed' \in Seq(Slots)
  BY EmptySeq
<1>2. TypeOK'
  <2>1. cell' \in [Elems -> Slots \cup {NULL, ALLOCATED}]
    BY DEF TypeOK
  <2>2. up' \in BOOLEAN /\ buf' \in BOOLEAN
    OBVIOUS
  <2>3. 0 \in 0 .. MaxCapacity
    OBVIOUS
  <2> QED
    BY <1>1, <2>1, <2>2, <2>3 DEF TypeOK
<1>3. Live' = {}
  BY DEF DownIsEmpty, Live
<1>4. CountIsMark'
  <2>1. Released' = {}
    BY <1>1 DEF Released
  <2>2. 0 .. 0 + 0 - 1 = {}
    OBVIOUS
  <2>3. Cardinality({}) = 0
    BY FS_EmptySet
  <2>4. capacity' \in Nat
    BY DEF TypeOK
  <2>5. Used' = 0 .. Mark' - 1 /\ Mark' = 0
    BY <1>1, <1>3, <2>1, <2>2 DEF Used, Mark
  <2> QED
    BY <1>1, <1>3, <2>1, <2>3, <2>4, <2>5 DEF CountIsMark
<1>5. FreeListShape'
  BY <1>1 DEF FreeListShape
<1>6. FlagTellsOrigin' /\ DownIsEmpty'
  BY DEF FlagTellsOrigin, DownIsEmpty
<1> QED
  BY <1>2, <1>4, <1>5, <1>6

(* Popping the free list: one released slot becomes live. *)
LEMMA AllocateFreeStep ==
    ASSUME Inv, NEW c \in Clients, AllocateFree(c)
    PROVE  Inv'
<1> DEFINE s == free_list
<1> USE CapacityAssumption, ElemAssumption DEF Inv
<1>1. /\ up /\ free_list # NULL /\ free_list' = cell[s]
      /\ allocated' = allocated + 1
      /\ cell' = [cell EXCEPT ![s] = ALLOCATED]
      /\ Hold(c, s)
      /\ freed' = SubSeq(freed, 1, Len(freed) - 1)
      /\ UNCHANGED <<up, buf, capacity, heap>>
  BY DEF AllocateFree, MarkTaken
<1>2. Len(freed) \in Nat \ {0} /\ s = freed[Len(freed)] /\ s \in Slots
  BY <1>1, FreedFacts DEF FreeListShape
<1>3. /\ freed' \in Seq(Slots)
      /\ Len(freed') = Len(freed) - 1
      /\ \A i \in 1 .. Len(freed) - 1 : freed'[i] = freed[i]
  <2>1. freed \in Seq(Slots) /\ Len(freed) - 1 \in 0 .. Len(freed)
    BY <1>2 DEF TypeOK
  <2> QED
    BY <1>1, <2>1, Prefix
<1>4. /\ Live' = Live \cup {s}
      /\ held' \in [Clients -> SUBSET Elems]
      /\ \A d \in Clients : held'[d] = IF d = c THEN held[c] \cup {s}
                                                ELSE held[d]
  <2>1. s \in Elems
    BY <1>2 DEF Elems
  <2>2. TypeOK /\ Hold(c, s) /\ c \in Clients /\ s \in Slots
    BY <1>1, <1>2
  <2> QED
    BY ONLY <2>1, <2>2, LiveGain
<1>5. Released' = Released \ {s} /\ s \in Released
  <2>1. s \in Released
    BY <1>2 DEF Released
  <2>2. \A i \in 1 .. Len(freed) : freed[i] = s <=> i = Len(freed)
    BY <1>1, <1>2 DEF FreeListShape
  <2>3. ASSUME NEW x \in Released \ {s}  PROVE x \in Released'
    <3>1. PICK i \in 1 .. Len(freed) : x = freed[i]
      BY DEF Released
    <3>2. i \in 1 .. Len(freed) - 1
      BY <1>2, <2>3, <3>1
    <3> QED
      BY <1>3, <3>1, <3>2 DEF Released
  <2>4. ASSUME NEW x \in Released'  PROVE x \in Released \ {s}
    <3>1. PICK i \in 1 .. Len(freed) - 1 : x = freed[i]
      BY <1>3 DEF Released
    <3>2. i \in 1 .. Len(freed) /\ i # Len(freed)
      BY <1>2
    <3> QED
      BY <2>2, <3>1, <3>2 DEF Released
  <2> QED
    BY <2>1, <2>3, <2>4
<1>6. s \notin Live
  BY <1>1, <1>5 DEF CountIsMark
<1>7. allocated' = Cardinality(Live') /\ allocated' \in Nat
  <2>1. Cardinality(Live \cup {s}) = Cardinality(Live) + 1
    BY <1>6, LiveFinite, FS_AddElement
  <2> QED
    BY <1>1, <1>4, <2>1, LiveFinite DEF CountIsMark
<1>8. CountIsMark'
  <2>1. Used' = Used /\ Live' \cap Released' = {}
    BY <1>1, <1>4, <1>5 DEF CountIsMark, Used
  <2>2. Mark' = Mark
    <3>1. allocated \in Nat /\ allocated' = allocated + 1
      BY <1>1 DEF TypeOK
    <3> QED
      BY ONLY <1>2, <1>3, <3>1 DEF Mark
  <2>3. up' /\ buf' = buf /\ capacity' = capacity
    BY <1>1
  <2> QED
    BY <1>1, <1>7, <2>1, <2>2, <2>3 DEF CountIsMark
<1>9. cell[s] \in Slots \cup {NULL}
  BY <1>1, <1>2, FreedFacts DEF FreeListShape
<1>10. TypeOK'
  BY <1>1, <1>2, <1>3, <1>4, <1>7, <1>8, <1>9
     DEF TypeOK, CountIsMark, Mark, Elems
<1>11. FreeListShape'
  <2>1. \A i, j \in 1 .. Len(freed') : i # j => freed'[i] # freed'[j]
    BY <1>1, <1>2, <1>3 DEF FreeListShape
  <2>2. free_list' = IF Len(freed') = 0 THEN NULL ELSE freed'[Len(freed')]
    BY <1>1, <1>2, <1>3 DEF FreeListShape
  <2>3. (freed' = <<>>) <=> (Len(freed') = 0)
    BY <1>3, EmptySeq
  <2>4. \A i \in 1 .. Len(freed') :
           cell'[freed'[i]] = IF i = 1 THEN NULL ELSE freed'[i - 1]
    <3>1. TAKE i \in 1 .. Len(freed')
    <3>2. i \in 1 .. Len(freed) - 1 /\ i # Len(freed) /\ i \in 1 .. Len(freed)
      BY <1>2, <1>3
    <3>3. freed'[i] = freed[i] /\ freed[i] # s /\ freed[i] \in Elems
      BY <1>1, <1>2, <1>3, <3>2, FreedFacts DEF FreeListShape, Elems
    <3>4. cell'[freed'[i]] = cell[freed[i]]
      BY <1>1, <3>3 DEF TypeOK
    <3>5. cell[freed[i]] = IF i = 1 THEN NULL ELSE freed[i - 1]
      BY <1>1, <3>2 DEF FreeListShape
    <3>6. i # 1 => freed'[i - 1] = freed[i - 1]
      BY <1>2, <1>3, <3>2
    <3> QED
      BY <3>4, <3>5, <3>6
  <2> QED
    BY <2>1, <2>2, <2>3, <2>4 DEF FreeListShape
<1>12. FlagTellsOrigin'
  BY <1>1, <1>2, <1>4, <1>6, TakenKeepsFlags
<1>13. DownIsEmpty'
  BY <1>1 DEF DownIsEmpty
<1> QED
  BY <1>8, <1>10, <1>11, <1>12, <1>13

(* The bump index: with an empty free list the used slots are the live     *)
(* ones, so the count is the index of a slot nobody has.                   *)
LEMMA AllocateFreshStep ==
    ASSUME Inv, NEW c \in Clients, AllocateFresh(c)
    PROVE  Inv'
<1> DEFINE s == allocated
<1> USE CapacityAssumption, ElemAssumption DEF Inv
<1>1. /\ up /\ free_list = NULL /\ buf /\ allocated < capacity
      /\ allocated' = allocated + 1
      /\ cell' = [cell EXCEPT ![s] = ALLOCATED]
      /\ Hold(c, s)
      /\ UNCHANGED <<up, buf, capacity, free_list, heap, freed>>
  BY DEF AllocateFresh, NoneReleased, CanBump, MarkTaken
<1>2. s \in Slots /\ s \in Elems /\ s \in Nat /\ s + 1 \in 0 .. MaxCapacity
  BY <1>1 DEF TypeOK, Slots, Elems
<1>3. Len(freed) = 0 /\ freed = <<>>
  BY <1>1, FreedFacts DEF FreeListShape, Elems
<1>4. /\ Live' = Live \cup {s}
      /\ held' \in [Clients -> SUBSET Elems]
      /\ \A d \in Clients : held'[d] = IF d = c THEN held[c] \cup {s}
                                                ELSE held[d]
  <2>1. TypeOK /\ Hold(c, s)
    BY <1>1
  <2> QED
    BY ONLY <1>2, <2>1, c \in Clients, LiveGain
<1>5. Released = {} /\ Released' = {}
  BY <1>1, <1>3 DEF Released
<1>6. Live = 0 .. s - 1 /\ s \notin Live
  <2>1. Mark = s
    BY <1>2, <1>3 DEF Mark
  <2>2. Live = 0 .. s - 1
    BY <1>1, <1>5, <2>1 DEF CountIsMark, Used
  <2> QED
    BY <1>2, <2>2
<1>7. CountIsMark'
  <2>1. Cardinality(Live \cup {s}) = Cardinality(Live) + 1
    BY <1>6, LiveFinite, FS_AddElement
  <2>2. allocated' = Cardinality(Live')
    BY <1>1, <1>4, <2>1 DEF CountIsMark
  <2>3. Used' = 0 .. s
    BY <1>2, <1>4, <1>5, <1>6 DEF Used
  <2>4. Mark' = s + 1
    BY <1>1, <1>2, <1>3 DEF Mark
  <2>5. Used' = 0 .. Mark' - 1 /\ Mark' <= capacity
    BY <1>1, <1>2, <2>3, <2>4 DEF TypeOK
  <2> QED
    BY <1>1, <1>5, <2>2, <2>5 DEF CountIsMark
<1>8. TypeOK'
  BY <1>1, <1>2, <1>4 DEF TypeOK
<1>9. FreeListShape'
  BY <1>1, <1>3 DEF FreeListShape
<1>10. FlagTellsOrigin'
  BY <1>1, <1>2, <1>4, <1>6, TakenKeepsFlags
<1>11. DownIsEmpty'
  BY <1>1 DEF DownIsEmpty
<1> QED
  BY <1>7, <1>8, <1>9, <1>10, <1>11

(* A heap object leaves the slots alone. *)
LEMMA AllocateHeapStep ==
    ASSUME Inv, NEW c \in Clients, AllocateHeap(c)
    PROVE  Inv'
<1> USE CapacityAssumption, ElemAssumption DEF Inv
<1>1. PICK h \in Heap \ heap :
         /\ up
         /\ heap' = heap \cup {h}
         /\ cell' = [cell EXCEPT ![h] = NULL]
         /\ Hold(c, h)
         /\ UNCHANGED <<up, buf, capacity, allocated, free_list, freed>>
  BY DEF AllocateHeap
<1>2. h \in Elems /\ h \notin Slots
  BY DEF Elems
<1>3. /\ Live' = Live
      /\ held' \in [Clients -> SUBSET Elems]
      /\ \A d \in Clients : held'[d] = IF d = c THEN held[c] \cup {h}
                                                ELSE held[d]
  <2>1. TypeOK /\ Hold(c, h)
    BY <1>1
  <2> QED
    BY ONLY <1>2, <2>1, c \in Clients, LiveGain
<1>4. TypeOK'
  BY <1>1, <1>2, <1>3 DEF TypeOK
<1>5. CountIsMark'
  BY <1>1, <1>3 DEF CountIsMark, Used, Released, Mark
<1>6. \A e \in Elems \ {h} : cell'[e] = cell[e]
  BY <1>1 DEF TypeOK
<1>7. FreeListShape'
  <2>1. \A i \in 1 .. Len(freed) : cell'[freed[i]] = cell[freed[i]]
    BY <1>2, <1>6, FreedFacts DEF Elems
  <2> QED
    BY <1>1, <2>1 DEF FreeListShape
<1>8. FlagTellsOrigin'
  <2>1. cell'[h] # ALLOCATED
    BY <1>1, <1>2 DEF TypeOK
  <2>2. \A d \in Clients : h \notin held[d]
    BY <1>1, <1>2 DEF FlagTellsOrigin
  <2>3. ASSUME NEW d \in Clients, NEW e \in held'[d]
        PROVE  (e \in Slots /\ cell'[e] = ALLOCATED)
                  \/ (e \in heap' /\ cell'[e] # ALLOCATED)
    <3>1. CASE e = h
      BY <1>1, <2>1, <3>1
    <3>2. CASE e # h
      <4>1. e \in held[d] /\ e \in Elems
        BY <1>3, <2>3, <3>2 DEF TypeOK
      <4> QED
        BY <1>1, <1>6, <3>2, <4>1 DEF FlagTellsOrigin
    <3> QED
      BY <3>1, <3>2
  <2>4. \A b, d \in Clients : b # d => held'[b] \cap held'[d] = {}
    BY <1>1, <1>3, <2>2 DEF FlagTellsOrigin
  <2> QED
    BY <2>3, <2>4 DEF FlagTellsOrigin
<1>9. DownIsEmpty'
  BY <1>1 DEF DownIsEmpty
<1> QED
  BY <1>4, <1>5, <1>7, <1>8, <1>9

(* Giving back one element keeps the others' flags right, whatever happens *)
(* to its own first word.                                                  *)
LEMMA GivenBackKeepsFlags ==
    ASSUME TypeOK, up, FlagTellsOrigin, up',
           NEW c \in Clients, NEW e \in held[c],
           held' = [held EXCEPT ![c] = @ \ {e}],
           \A x \in Elems \ {e} : cell'[x] = cell[x],
           heap \ {e} \subseteq heap'
    PROVE  FlagTellsOrigin'
<1>1. \A b, d \in Clients : b # d => held[b] \cap held[d] = {}
  BY DEF FlagTellsOrigin
<1>2. /\ \A d \in Clients : held'[d] = IF d = c THEN held[c] \ {e}
                                               ELSE held[d]
      /\ \A d \in Clients : e \notin held'[d]
  BY <1>1, LiveLoss
<1>3. ASSUME NEW d \in Clients, NEW x \in held'[d]
      PROVE  (x \in Slots /\ cell'[x] = ALLOCATED)
                \/ (x \in heap' /\ cell'[x] # ALLOCATED)
  <2>1. x \in held[d] /\ x # e /\ x \in Elems
    BY <1>2, <1>3 DEF TypeOK
  <2> QED
    BY <2>1 DEF FlagTellsOrigin
<1>4. \A b, d \in Clients : b # d => held'[b] \cap held'[d] = {}
  BY <1>1, <1>2
<1> QED
  BY <1>3, <1>4 DEF FlagTellsOrigin

(* Releasing a slot: the count goes down and the free list grows by one,   *)
(* or, with the last live slot, both start again from nothing.             *)
LEMMA ReleaseSlotStep ==
    ASSUME Inv, NEW c \in Clients, NEW e \in Elems, ReleaseSlot(c, e)
    PROVE  Inv'
<1> USE CapacityAssumption, ElemAssumption DEF Inv
<1>1. /\ up /\ e \in held[c] /\ cell[e] = ALLOCATED
      /\ cell' = [cell EXCEPT ![e] = free_list]
      /\ allocated' = allocated - 1
      /\ free_list' = IF allocated' = 0 THEN NULL ELSE e
      /\ freed' = IF allocated' = 0 THEN <<>> ELSE Append(freed, e)
      /\ held' = [held EXCEPT ![c] = @ \ {e}]
      /\ UNCHANGED <<up, buf, capacity, heap>>
  BY DEF ReleaseSlot
<1>2. e \in Slots /\ e \in Live /\ e \in Elems
  BY <1>1 DEF FlagTellsOrigin, Live
<1>3. /\ Live' = Live \ {e}
      /\ held' \in [Clients -> SUBSET Elems]
  BY <1>1, LiveLoss DEF FlagTellsOrigin
<1>4. /\ allocated = Cardinality(Live) /\ allocated \in Nat \ {0}
      /\ allocated' = Cardinality(Live') /\ allocated' \in 0 .. MaxCapacity
      /\ (allocated' = 0) <=> (Live' = {})
  <2>1. Cardinality(Live \ {e}) = Cardinality(Live) - 1
    BY <1>2, LiveFinite, FS_RemoveElement
  <2>2. IsFiniteSet(Live \ {e})
    BY LiveFinite, FS_RemoveElement
  <2>3. Cardinality(Live \ {e}) \in Nat
    BY <2>2, FS_CardinalityType
  <2>4. allocated = Cardinality(Live) /\ allocated \in 0 .. MaxCapacity
    BY <1>1 DEF CountIsMark, TypeOK
  <2>5. (Cardinality(Live \ {e}) = 0) <=> (Live \ {e} = {})
    BY <2>2, FS_EmptySet
  <2> QED
    BY <1>1, <1>3, <2>1, <2>3, <2>4, <2>5
<1>5. \A x \in Elems \ {e} : cell'[x] = cell[x]
  BY <1>1 DEF TypeOK
<1>6. FlagTellsOrigin'
  BY <1>1, <1>5, GivenBackKeepsFlags
<1>7. DownIsEmpty'
  BY <1>1 DEF DownIsEmpty
<1>8. CASE allocated' = 0
  <2>1. freed' = <<>> /\ Len(freed') = 0 /\ freed' \in Seq(Slots)
    BY <1>1, <1>8, EmptySeq
  <2>2. TypeOK'
    BY <1>1, <1>2, <1>3, <1>4, <1>8, <2>1 DEF TypeOK
  <2>3. FreeListShape'
    BY <1>1, <1>8, <2>1 DEF FreeListShape
  <2>4. CountIsMark'
    <3>1. Released' = {} /\ Live' = {}
      BY <1>4, <1>8, <2>1 DEF Released
    <3>2. Mark' = 0 /\ Used' = 0 .. Mark' - 1
      BY <1>8, <2>1, <3>1 DEF Mark, Used
    <3> QED
      BY <1>1, <1>4, <3>1, <3>2 DEF CountIsMark, TypeOK
  <2> QED
    BY <1>6, <1>7, <2>2, <2>3, <2>4
<1>9. CASE allocated' # 0
  <2>1. Len(freed) \in Nat /\ \A i \in 1 .. Len(freed) : freed[i] \in Slots
    BY FreedFacts
  <2>2. /\ freed' \in Seq(Slots)
        /\ Len(freed') = Len(freed) + 1
        /\ freed'[Len(freed) + 1] = e
        /\ \A i \in 1 .. Len(freed) : freed'[i] = freed[i]
    BY <1>1, <1>2, <1>9 DEF TypeOK
  <2>3. TypeOK'
    BY <1>1, <1>2, <1>3, <1>4, <1>9, <2>2 DEF TypeOK
  <2>4. Released' = Released \cup {e} /\ e \notin Released
    <3>1. e \notin Released
      BY <1>1, <1>2 DEF CountIsMark
    <3>2. 1 .. Len(freed') = (1 .. Len(freed)) \cup {Len(freed) + 1}
      BY <2>1, <2>2
    <3> QED
      BY <2>2, <3>1, <3>2 DEF Released
  <2>5. CountIsMark'
    <3>1. Used' = Used /\ Live' \cap Released' = {}
      BY <1>1, <1>2, <1>3, <2>4 DEF CountIsMark, Used
    <3>2. allocated \in Nat /\ allocated' = allocated - 1
      BY <1>1, <1>4
    <3>3. Mark' = Mark
      BY ONLY <2>1, <2>2, <3>2 DEF Mark
    <3>4. up' /\ buf' = buf /\ capacity' = capacity
      BY <1>1
    <3> QED
      BY <1>1, <1>4, <3>1, <3>3, <3>4 DEF CountIsMark
  <2>6. FreeListShape'
    <3>1. \A i \in 1 .. Len(freed) : freed[i] # e /\ freed[i] \in Elems
      BY <2>1, <2>4 DEF Released, Elems
    <3>2. \A i, j \in 1 .. Len(freed') : i # j => freed'[i] # freed'[j]
      BY <1>1, <2>1, <2>2, <3>1 DEF FreeListShape
    <3>3. free_list' = freed'[Len(freed')] /\ freed' # <<>>
      BY <1>1, <1>9, <2>1, <2>2, EmptySeq
    <3>4. \A i \in 1 .. Len(freed) : cell'[freed[i]] = cell[freed[i]]
      BY <1>5, <3>1
    <3>5. cell'[e] = IF Len(freed) = 0 THEN NULL ELSE freed[Len(freed)]
      BY <1>1, <1>2, FreedFacts DEF TypeOK, FreeListShape
    <3>6. \A i \in 1 .. Len(freed') :
             cell'[freed'[i]] = IF i = 1 THEN NULL ELSE freed'[i - 1]
      <4>1. TAKE i \in 1 .. Len(freed')
      <4>2. CASE i = Len(freed) + 1
        BY <2>1, <2>2, <3>5, <4>2
      <4>3. CASE i # Len(freed) + 1
        <5>1. i \in 1 .. Len(freed) /\ freed'[i] = freed[i]
          BY <2>1, <2>2, <4>3
        <5>2. i # 1 => freed'[i - 1] = freed[i - 1]
          BY <2>1, <2>2, <5>1
        <5> QED
          BY <1>1, <3>4, <5>1, <5>2 DEF FreeListShape
      <4> QED
        BY <4>2, <4>3
    <3> QED
      BY <3>2, <3>3, <3>6 DEF FreeListShape
  <2> QED
    BY <1>6, <1>7, <2>3, <2>5, <2>6
<1> QED
  BY <1>8, <1>9

(* Releasing a heap object touches no slot. *)
LEMMA ReleaseHeapStep ==
    ASSUME Inv, NEW c \in Clients, NEW e \in Elems, ReleaseHeap(c, e)
    PROVE  Inv'
<1> USE CapacityAssumption, ElemAssumption DEF Inv
<1>1. /\ up /\ e \in held[c] /\ cell[e] # ALLOCATED
      /\ heap' = heap \ {e}
      /\ held' = [held EXCEPT ![c] = @ \ {e}]
      /\ UNCHANGED <<up, buf, capacity, allocated, free_list, cell, freed>>
  BY DEF ReleaseHeap
<1>2. e \notin Slots
  BY <1>1 DEF FlagTellsOrigin, TypeOK
<1>3. Live' = Live /\ held' \in [Clients -> SUBSET Elems]
  <2>1. Live' = Live \ {e} /\ held' \in [Clients -> SUBSET Elems]
    BY <1>1, LiveLoss DEF FlagTellsOrigin
  <2>2. e \notin Live
    BY <1>2 DEF Live
  <2> QED
    BY <2>1, <2>2
<1>4. TypeOK'
  BY <1>1, <1>3 DEF TypeOK
<1>5. CountIsMark'
  BY <1>1, <1>3 DEF CountIsMark, Used, Released, Mark
<1>6. FreeListShape'
  BY <1>1 DEF FreeListShape
<1>7. FlagTellsOrigin'
  BY <1>1, GivenBackKeepsFlags
<1>8. DownIsEmpty'
  BY <1>1 DEF DownIsEmpty
<1> QED
  BY <1>4, <1>5, <1>6, <1>7, <1>8

(* After done there is nothing left to be right about but types. *)
LEMMA ArenaDoneStep ==
    ASSUME Inv, ArenaDone
    PROVE  Inv'
<1> USE DEF Inv, ArenaDone
<1>1. TypeOK'
  BY DEF TypeOK
<1> QED
  BY <1>1 DEF CountIsMark, FreeListShape, FlagTellsOrigin, DownIsEmpty

-------------------------------------------------------------------------------

(* The conjunction of the arena's invariants holds in every reachable      *)
(* state: tecc_arena.c keeps count, list and flags consistent whatever the *)
(* order in which any number of threads allocate and release.              *)
THEOREM Invariance == Spec => []Inv
<1>1. Init => Inv
  <2> SUFFICES ASSUME Init PROVE Inv
    OBVIOUS
  <2> USE CapacityAssumption, ElemAssumption DEF Init
  <2>1. <<>> \in Seq(Slots)
    BY EmptySeq
  <2>2. cell \in [Elems -> Slots \cup {NULL, ALLOCATED}]
    OBVIOUS
  <2>3. held \in [Clients -> SUBSET Elems] /\ heap \in SUBSET Heap
    OBVIOUS
  <2>4. TypeOK
    <3>1. 0 \in 0 .. MaxCapacity
      OBVIOUS
    <3>2. up \in BOOLEAN /\ buf \in BOOLEAN
      BY Zenon
    <3> QED
      BY <2>1, <2>2, <2>3, <3>1, <3>2 DEF TypeOK
  <2> QED
    BY <2>4 DEF Inv, CountIsMark, FreeListShape, FlagTellsOrigin, DownIsEmpty
<1>2. Inv /\ [Next]_vars => Inv'
  <2> SUFFICES ASSUME Inv, [Next]_vars PROVE Inv'
    OBVIOUS
  <2>1. ASSUME NEW n \in 0 .. MaxCapacity, ArenaInit(n) PROVE Inv'
    BY <2>1, ArenaInitStep
  <2>2. ASSUME NEW c \in Clients, AllocateFree(c) PROVE Inv'
    BY <2>2, AllocateFreeStep
  <2>3. ASSUME NEW c \in Clients, AllocateFresh(c) PROVE Inv'
    BY <2>3, AllocateFreshStep
  <2>4. ASSUME NEW c \in Clients, AllocateHeap(c) PROVE Inv'
    BY <2>4, AllocateHeapStep
  <2>5. ASSUME NEW c \in Clients, NEW e \in Elems, ReleaseSlot(c, e)
        PROVE  Inv'
    BY <2>5, ReleaseSlotStep
  <2>6. ASSUME NEW c \in Clients, NEW e \in Elems, ReleaseHeap(c, e)
        PROVE  Inv'
    BY <2>6, ReleaseHeapStep
  <2>7. CASE ArenaDone
    BY <2>7, ArenaDoneStep
  <2>8. CASE UNCHANGED vars
    <3> USE <2>8 DEF vars, Inv
    <3>1. TypeOK'
      BY DEF TypeOK
    <3>2. Live' = Live /\ Released' = Released
      BY DEF Live, Released
    <3>3. CountIsMark'
      BY <3>2 DEF CountIsMark, Used, Mark
    <3>4. FreeListShape' /\ FlagTellsOrigin' /\ DownIsEmpty'
      BY DEF FreeListShape, FlagTellsOrigin, DownIsEmpty
    <3> QED
      BY <3>1, <3>3, <3>4
  <2> QED
    BY <2>1, <2>2, <2>3, <2>4, <2>5, <2>6, <2>7, <2>8 DEF Next
<1> QED
  BY <1>1, <1>2, PTL DEF Spec

(* The types of all variables: in particular the count never underflows    *)
(* and never passes the capacity.                                          *)
THEOREM Typing == Spec => []TypeOK
BY Invariance, PTL DEF Inv

(* The count of live elements is a correct bump index. *)
THEOREM CountCorrect == Spec => []CountIsMark
BY Invariance, PTL DEF Inv

(* The free list is well formed. *)
THEOREM FreeListCorrect == Spec => []FreeListShape
BY Invariance, PTL DEF Inv

(* Release always tells slots from heap objects, and no element has two    *)
(* holders.                                                                *)
THEOREM FlagsCorrect == Spec => []FlagTellsOrigin
BY Invariance, PTL DEF Inv

-------------------------------------------------------------------------------

(* The slots of the block, as the allocator sees them. *)
LEMMA FreshAllocation ==
    ASSUME Inv, NEW c \in Clients, NEW s \in Slots, s \notin Live,
           s < capacity, up, buf, Hold(c, s), UNCHANGED <<up, buf, capacity>>
    PROVE  A!Next
<1>1. s \in 0 .. capacity - 1
  BY CapacityAssumption DEF Inv, TypeOK, Slots
<1>2. s \notin A!InUse
  BY DEF A!InUse, Live
<1>3. A!Give(c, s)
  BY <1>2 DEF A!Give, Hold
<1>4. A!Acquire(c)
  BY <1>1, <1>3 DEF A!Acquire
<1> QED
  BY <1>4 DEF A!Next

(* The arena refines the allocator: an element handed out is one nobody    *)
(* holds, and a heap object is handed out only when the block has no free  *)
(* slot (tecc_arena.h:24-26).                                              *)
THEOREM Refinement == Spec => IsAllocator
<1>1. Init => A!Init
  BY DEF Init, A!Init
<1>2. Inv /\ [Next]_vars => [A!Next]_A!vars
  <2> SUFFICES ASSUME Inv, [Next]_vars PROVE [A!Next]_A!vars
    OBVIOUS
  <2> USE CapacityAssumption, ElemAssumption
  <2>1. ASSUME NEW n \in 0 .. MaxCapacity, ArenaInit(n)
        PROVE  A!Next \/ UNCHANGED A!vars
    <3>1. CASE up'
      <4>1. capacity' = n /\ up' = TRUE /\ ~up /\ held' = held
        BY <2>1, <3>1 DEF ArenaInit
      <4>2. 0 .. n - 1 \subseteq 0 .. MaxCapacity - 1
        OBVIOUS
      <4>3. A!Open
        BY <4>1, <4>2 DEF A!Open, Slots
      <4> QED
        BY <4>3 DEF A!Next
    <3>2. CASE ~up'
      BY <2>1, <3>2 DEF ArenaInit, A!vars, Inv, DownIsEmpty, TypeOK
    <3> QED
      BY <3>1, <3>2
  <2>2. ASSUME NEW c \in Clients, AllocateFree(c) PROVE A!Next
    <3>1. Len(freed) \in Nat \ {0} /\ free_list = freed[Len(freed)]
      BY <2>2, FreedFacts DEF Inv, AllocateFree, FreeListShape
    <3>2. free_list \in Slots /\ free_list \in Released /\ up
      BY <2>2, <3>1, FreedFacts DEF Inv, AllocateFree, Released
    <3>3. free_list \notin Live /\ free_list \in 0 .. Mark - 1
             /\ Mark <= IF buf THEN capacity ELSE 0
      BY <3>2 DEF Inv, CountIsMark, Used
    <3>4. Mark \in Int /\ capacity \in Nat
      BY <3>1 DEF Mark, Inv, TypeOK
    <3>5. buf /\ free_list < capacity
      BY <3>2, <3>3, <3>4 DEF Slots
    <3> QED
      BY <2>2, <3>2, <3>3, <3>5, FreshAllocation DEF AllocateFree
  <2>3. ASSUME NEW c \in Clients, AllocateFresh(c) PROVE A!Next
    <3>1. up /\ buf /\ allocated < capacity /\ Len(freed) = 0
      BY <2>3, FreedFacts
         DEF Inv, AllocateFresh, NoneReleased, CanBump, FreeListShape, Elems
    <3>2. allocated \in Slots
      BY <3>1 DEF Inv, TypeOK, Slots
    <3>3. allocated \notin Live
      <4>1. Used = 0 .. Mark - 1 /\ Mark = allocated
        BY <3>1, <3>2 DEF Inv, CountIsMark, Mark, Slots
      <4> QED
        BY <3>2, <4>1 DEF Used, Slots
    <3> QED
      BY <2>3, <3>1, <3>2, <3>3, FreshAllocation DEF AllocateFresh
  <2>4. ASSUME NEW c \in Clients, AllocateHeap(c) PROVE A!Next
    <3>1. PICK h \in Heap \ heap : Hold(c, h)
      BY <2>4 DEF AllocateHeap
    <3>2. h \notin A!InUse
      BY <2>4 DEF Inv, FlagTellsOrigin, AllocateHeap, A!InUse, Elems
    <3>3. up /\ Len(freed) = 0 /\ ~CanBump
      BY <2>4, FreedFacts
         DEF Inv, AllocateHeap, NoneReleased, FreeListShape, Elems
    <3>4. buf => 0 .. capacity - 1 \subseteq A!InUse
      <4> SUFFICES ASSUME buf PROVE 0 .. capacity - 1 \subseteq A!InUse
        OBVIOUS
      <4>1. Released = {}
        BY <3>3 DEF Released
      <4>2. Mark = allocated /\ Mark = capacity
        BY <3>3 DEF Inv, CountIsMark, TypeOK, CanBump, Mark
      <4>3. Live = 0 .. capacity - 1
        BY <3>3, <4>1, <4>2 DEF Inv, CountIsMark, Used
      <4> QED
        BY <4>3 DEF Live, A!InUse
    <3>5. A!Give(c, h)
      BY <3>1, <3>2 DEF A!Give, Hold
    <3>6. A!Acquire(c)
      BY <2>4, <3>3, <3>4, <3>5 DEF A!Acquire, AllocateHeap
    <3> QED
      BY <3>6 DEF A!Next
  <2>5. ASSUME NEW c \in Clients, NEW e \in Elems,
               ReleaseSlot(c, e) \/ ReleaseHeap(c, e)
        PROVE  A!Next
    BY <2>5 DEF ReleaseSlot, ReleaseHeap, A!Release, A!Next
  <2>6. ASSUME ArenaDone PROVE A!Next
    BY <2>6 DEF ArenaDone, A!Close, A!Next
  <2>7. CASE UNCHANGED vars
    BY <2>7 DEF vars, A!vars
  <2> QED
    BY <2>1, <2>2, <2>3, <2>4, <2>5, <2>6, <2>7 DEF Next
<1> QED
  BY <1>1, <1>2, Invariance, PTL DEF Spec, IsAllocator, A!Spec
===============================================================================
