--------------------------- MODULE TecThrPoolProofs ---------------------------
(***************************************************************************)
(* Proofs about TecThrPool for any callers, number of threads, widths of   *)
(* the integers and number of tasks.                                       *)
(***************************************************************************)
EXTENDS TecThrPool, TLAPS, SequenceTheorems, FiniteSetTheorems

(* What is in a queue. *)
Elems(s) == {s[i] : i \in 1 .. Len(s)}

(* Nothing is in a queue twice. *)
Distinct(s) == \A i, j \in 1 .. Len(s) : s[i] = s[j] => i = j

(* Only the last entry may tell the thread to end. *)
StopLast(s) == \A i \in 1 .. Len(s) - 1 : s[i] # STOP

(* The types, except that nothing is said of how often a task runs, and    *)
(* what the local variables hold.                                          *)
Types ==
    /\ mpc \in {"run", "serve", "stop", "wait", "join", "free", "over"}
    /\ mnode \in 0 .. NThreads
    /\ next_thread_index \in -(2 ^ (IntWidth - 1)) .. 2 ^ (IntWidth - 1) - 1
    /\ thr \in [Nodes -> BOOLEAN]
    /\ q \in [Nodes -> Seq(Tasks \cup {STOP})]
    /\ live \in [Nodes -> SUBSET Tasks]
    /\ payload \in [Nodes -> Tasks \cup {NONE}]
    /\ sig_terminated \in [Nodes -> BOOLEAN]
    /\ freed \in SUBSET Nodes
    /\ tpc \in [Nodes -> {"none", "pop", "execute", "release", "leave",
                          "signal", "ended"}]
    /\ task \in [Nodes -> Tasks \cup {NONE}]
    /\ cpc \in [Callers -> {"idle", "fill", "push"}]
    /\ ndx \in [Callers -> Nodes]
    /\ made \in [Callers -> Tasks \cup {NONE}]
    /\ nodeOf \in [Tasks -> Nodes \cup {NONE}]
    /\ given \in SUBSET Tasks
    /\ misread \in SUBSET Tasks
    /\ runs \in [Tasks -> Nat]

(* The local variables, as far as their program counters have come. *)
Locals ==
    /\ mpc \in {"wait", "join", "free"} => mnode < NThreads
    /\ mpc = "run" => \A n \in Nodes : n >= mnode => tpc[n] = "none"
    /\ \A c \in Callers : cpc[c] = "idle" <=> made[c] = NONE
    /\ \A n \in Nodes : tpc[n] \in {"execute", "release"} <=> task[n] # NONE

Typed == Types /\ Locals

(* Done has not come to node n. *)
Ahead(n) == \/ mpc \in {"run", "serve"}
            \/ n > mnode
            \/ mpc = "stop" /\ n = mnode

(* What the thread of node n may do, as far as the owner has come. *)
NodeLife(n) ==
    /\ Ahead(n) => /\ tpc[n] \in {"none", "pop", "execute", "release"}
                   /\ STOP \notin Elems(q[n])
                   /\ thr[n] <=> tpc[n] # "none"
    /\ mpc \notin {"run", "serve"} /\ n < mnode => tpc[n] \in {"none", "ended"}
    /\ mpc = "free" /\ n = mnode => tpc[n] \in {"none", "ended"}
    /\ tpc[n] \in {"leave", "signal", "ended"} => q[n] = <<>>
    /\ StopLast(q[n])

Life ==
    /\ mpc # "serve" => \A c \in Callers : cpc[c] = "idle"
    /\ mpc \in {"run", "serve"} => freed = {}
    /\ mpc = "serve" => mnode = 0
    /\ \A n \in freed : n < mnode
    /\ \A n \in Nodes : NodeLife(n)

(* A task is in one place: with the caller c... *)
CallPlace(c) ==
    made[c] # NONE =>
        /\ nodeOf[made[c]] = ndx[c] /\ runs[made[c]] = 0
        /\ \A d \in Callers : made[c] = made[d] => c = d

(* ... in the queue of node n or with its thread. *)
NodePlace(n) ==
    /\ Distinct(q[n])
    /\ \A t \in Elems(q[n]) \ {STOP} :
          /\ nodeOf[t] = n /\ runs[t] = 0 /\ task[n] # t
          /\ \A c \in Callers : made[c] # t
    /\ task[n] # NONE =>
          /\ nodeOf[task[n]] = n
          /\ \A c \in Callers : made[c] # task[n]
          /\ runs[task[n]] = IF tpc[n] = "execute" THEN 0 ELSE 1

(* A task runs at most once, and not before it has a node. *)
Places ==
    /\ \A t \in Tasks : runs[t] \in {0, 1} /\ (nodeOf[t] = NONE => runs[t] = 0)
    /\ \A c \in Callers : CallPlace(c)
    /\ \A n \in Nodes : NodePlace(n)

(* The task t of node n has not been dealt with. *)
Held(t, n) == \/ \E c \in Callers : made[c] = t
              \/ t \in Elems(q[n])
              \/ task[n] = t

(* No task is lost, and none stays in the arena when it has been run. *)
NodeComplete(n) ==
    /\ \A t \in Tasks : nodeOf[t] = n => runs[t] = 1 \/ Held(t, n)
    /\ \A t \in live[n] : nodeOf[t] = n /\ Held(t, n)

Complete == \A n \in Nodes : NodeComplete(n)

(* The counter is the number of tasks, up to its wrapping around; the      *)
(* tasks made are the first ones.                                          *)
Counted ==
    \E k \in 0 .. MaxTasks :
        /\ Made = 0 .. k - 1
        /\ \E w \in 0 .. k : next_thread_index = k - w * 2 ^ IntWidth

-------------------------------------------------------------------------------

(* What TecQueue_push adds. *)
LEMMA Queued ==
  ASSUME NEW S, NEW s \in Seq(S), NEW x \in S
  PROVE  /\ Append(s, x) \in Seq(S)
         /\ Elems(Append(s, x)) = Elems(s) \cup {x}
         /\ STOP \notin Elems(s) => StopLast(Append(s, x))
         /\ Distinct(s) /\ x \notin Elems(s) => Distinct(Append(s, x))
<1> DEFINE a == Append(s, x)
<1>1. Len(s) \in Nat
  BY LenProperties
<1>2. /\ a \in Seq(S) /\ Len(a) = Len(s) + 1 /\ a[Len(s) + 1] = x
      /\ \A i \in 1 .. Len(s) : a[i] = s[i]
  BY AppendProperties
<1> HIDE DEF a
<1>3. \A i \in 1 .. Len(a) : i \in 1 .. Len(s) \/ i = Len(s) + 1
  BY <1>1, <1>2
<1>4. Elems(a) = Elems(s) \cup {x}
  <2>1. Elems(a) \subseteq Elems(s) \cup {x}
    BY <1>2, <1>3 DEF Elems
  <2>2. x \in Elems(a) /\ Elems(s) \subseteq Elems(a)
    BY <1>1, <1>2 DEF Elems
  <2> QED
    BY <2>1, <2>2
<1>5. STOP \notin Elems(s) => StopLast(a)
  BY <1>1, <1>2 DEF Elems, StopLast
<1>6. Distinct(s) /\ x \notin Elems(s) => Distinct(a)
  BY <1>1, <1>2, <1>3 DEF Elems, Distinct
<1> QED
  BY <1>2, <1>4, <1>5, <1>6 DEF a

(* What TecQueue_pop takes and what it leaves. *)
LEMMA Dequeued ==
  ASSUME NEW S, NEW s \in Seq(S), s # <<>>
  PROVE  /\ Head(s) \in S /\ Tail(s) \in Seq(S)
         /\ Head(s) \in Elems(s)
         /\ Elems(s) = Elems(Tail(s)) \cup {Head(s)}
         /\ StopLast(s) => /\ StopLast(Tail(s))
                           /\ Head(s) = STOP => Tail(s) = <<>>
         /\ Distinct(s) => Distinct(Tail(s)) /\ Head(s) \notin Elems(Tail(s))
<1> DEFINE h == Head(s)
           a == Tail(s)
<1>1. Len(s) \in Nat /\ Len(s) >= 1
  BY LenProperties, EmptySeq
<1>2. /\ h \in S /\ a \in Seq(S) /\ h = s[1] /\ Len(a) = Len(s) - 1
      /\ \A i \in 1 .. Len(a) : a[i] = s[i + 1]
  BY HeadTailProperties
<1> HIDE DEF h, a
<1>3. \A i \in 1 .. Len(s) : i = 1 \/ (i - 1 \in 1 .. Len(a) /\ a[i - 1] = s[i])
  BY <1>1, <1>2
<1>4. \A i \in 1 .. Len(a) : i + 1 \in 1 .. Len(s) /\ i + 1 # 1
  BY <1>1, <1>2
<1>5. h \in Elems(s)
  BY <1>1, <1>2 DEF Elems
<1>6. Elems(s) = Elems(a) \cup {h}
  <2>1. ASSUME NEW i \in 1 .. Len(s) PROVE s[i] \in Elems(a) \cup {h}
    <3>1. CASE i = 1
      BY <1>2, <3>1
    <3>2. CASE i - 1 \in 1 .. Len(a) /\ a[i - 1] = s[i]
      BY <3>2 DEF Elems
    <3> QED
      BY <1>3, <3>1, <3>2
  <2>3. Elems(s) \subseteq Elems(a) \cup {h}
    BY <2>1 DEF Elems
  <2>2. Elems(a) \subseteq Elems(s)
    BY <1>2, <1>4 DEF Elems
  <2> QED
    BY <1>5, <2>2, <2>3
<1>7. ASSUME StopLast(s) PROVE StopLast(a) /\ (h = STOP => a = <<>>)
  <2>1. ASSUME NEW i \in 1 .. Len(a) - 1 PROVE a[i] # STOP
    <3>1. i + 1 \in 1 .. Len(s) - 1 /\ i \in 1 .. Len(a)
      BY <1>1, <1>2
    <3> QED
      BY <1>2, <1>7, <3>1 DEF StopLast
  <2>2. ASSUME h = STOP PROVE Len(a) = 0
    <3>1. ~(1 \in 1 .. Len(s) - 1)
      BY <1>2, <1>7, <2>2 DEF StopLast
    <3> QED
      BY <1>1, <1>2, <3>1
  <2> QED
    BY <1>2, <2>1, <2>2, EmptySeq DEF StopLast
<1>8. Distinct(s) => Distinct(a) /\ h \notin Elems(a)
  <2>1. Distinct(s) => Distinct(a)
    BY <1>1, <1>2, <1>4 DEF Distinct
  <2>2. Distinct(s) => h \notin Elems(a)
    BY <1>1, <1>2, <1>4 DEF Distinct, Elems
  <2> QED
    BY <2>1, <2>2
<1> QED
  BY <1>2, <1>5, <1>6, <1>7, <1>8 DEF h, a

(* An empty sequence has no elements to be about.                          *)
LEMMA Empty ==
  /\ Elems(<<>>) = {} /\ Distinct(<<>>) /\ StopLast(<<>>)
  /\ \A S : <<>> \in Seq(S)
BY EmptySeq DEF Elems, Distinct, StopLast

(* The remainder does not see whole multiples of the divisor. *)
LEMMA Remainder ==
  ASSUME NEW d \in Nat \ {0}, NEW a \in Nat, NEW k \in Int, NEW r \in 0 .. d - 1,
         a = k * d + r
  PROVE  a % d = r
<1>1. a % d \in 0 .. d - 1 /\ a \div d \in Nat
  BY SMT
<1>2. a = (a \div d) * d + (a % d)
  BY SMT
<1>3. PICK y \in Nat, s \in 0 .. d - 1 : y = a \div d /\ s = a % d /\ a = y * d + s
  BY <1>1, <1>2
<1>4. ASSUME NEW u \in Int, NEW v \in Int, u > v PROVE u * d >= v * d + d
  BY <1>4, SMT
<1>5. y * d \in Int /\ k * d \in Int
  BY SMT
<1>6. k = y
  <2>1. ~(k > y)
    BY <1>3, <1>4, <1>5
  <2>2. ~(y > k)
    BY <1>3, <1>4, <1>5
  <2> QED
    BY <2>1, <2>2
<1> QED
  BY <1>3, <1>5, <1>6

(* Numbers that differ by whole multiples have the same remainder. *)
LEMMA Shifted ==
  ASSUME NEW d \in Nat \ {0}, NEW a \in Nat, NEW b \in Nat, NEW k \in Int,
         a = b + k * d
  PROVE  a % d = b % d
<1>1. b % d \in 0 .. d - 1 /\ b \div d \in Nat
  BY SMT
<1>2. b = (b \div d) * d + (b % d)
  BY SMT
<1>3. PICK y \in Nat, r \in 0 .. d - 1 : y = b \div d /\ r = b % d /\ b = y * d + r
  BY <1>1, <1>2
<1>4. (y + k) \in Int /\ (y + k) * d = y * d + k * d /\ y * d \in Int /\ k * d \in Int
  BY SMT
<1>5. a = (y + k) * d + r
  BY <1>3, <1>4
<1>6. a % d = r
  BY <1>4, <1>5, Remainder
<1> QED
  BY <1>3, <1>6

(* The index of a node, for every value of the counter. *)
LEMMA IndexIsNode ==
  ASSUME NEW k \in -(2 ^ (IntWidth - 1)) .. 2 ^ (IntWidth - 1) - 1
  PROVE  /\ Index(k) \in Nodes
         /\ Wrap(k) \in -(2 ^ (IntWidth - 1)) .. 2 ^ (IntWidth - 1) - 1
         /\ IF k >= 0 THEN k \in Nat ELSE 2 ^ SizeWidth + k \in Nat
<1> DEFINE h == 2 ^ (IntWidth - 1)
           z == 2 ^ SizeWidth
<1>1. h \in Nat \ {0} /\ z \in Nat /\ z >= 2 * h
  <2>1. PICK m \in 1 .. z : z = m * (2 * h)
    BY PowerAssumption
  <2>2. h \in Nat \ {0}
    BY PowerAssumption
  <2>3. ASSUME NEW x \in Nat \ {0}, NEW y \in Nat
        PROVE  x * y \in Nat /\ x * y >= y
    BY SMT
  <2> HIDE DEF h, z
  <2>4. m \in Nat \ {0} /\ 2 * h \in Nat
    BY <2>1, <2>2, SMT
  <2> QED
    BY <2>1, <2>2, <2>3, <2>4
<1>2. k \in -h .. h - 1
  OBVIOUS
<1>3. Wrap(k) = IF k = h - 1 THEN -h ELSE k + 1
  BY DEF Wrap
<1>4. Index(k) = (IF k >= 0 THEN k ELSE z + k) % NThreads
  BY DEF Index
<1> HIDE DEF h, z
<1>5. (IF k >= 0 THEN k ELSE z + k) \in Nat
  BY <1>1, <1>2
<1>6. \A a \in Nat, d \in Nat \ {0} : a % d \in 0 .. d - 1
  BY SMT
<1>7. Index(k) \in Nodes
  BY <1>4, <1>5, <1>6, PoolAssumption DEF Nodes
<1>8. Wrap(k) \in -h .. h - 1
  BY <1>1, <1>2, <1>3
<1> QED
  BY <1>5, <1>7, <1>8 DEF h, z

-------------------------------------------------------------------------------

(* The number of the next task. *)
LEMMA NextTask ==
  ASSUME Cardinality(Made) < MaxTasks
  PROVE  Cardinality(Made) \in Tasks
<1>1. IsFiniteSet(Tasks)
  BY PoolAssumption, FS_Interval DEF Tasks
<1>2. IsFiniteSet(Made)
  BY <1>1, FS_Subset DEF Made
<1>3. Cardinality(Made) \in Nat
  BY <1>2, FS_CardinalityType
<1> QED
  BY <1>3, PoolAssumption DEF Tasks

(* Types and local variables. *)
LEMMA TypedHolds == Spec => []Typed
<1>1. Init => Typed
  <2> SUFFICES ASSUME Init PROVE Typed
    OBVIOUS
  <2>1. 0 \in Nodes /\ 0 \in 0 .. NThreads
    BY PoolAssumption DEF Nodes
  <2>2. 0 \in -(2 ^ (IntWidth - 1)) .. 2 ^ (IntWidth - 1) - 1
    BY PowerAssumption
  <2>3. thr \in [Nodes -> BOOLEAN] /\ sig_terminated \in [Nodes -> BOOLEAN]
    BY Zenon DEF Init
  <2>4. q \in [Nodes -> Seq(Tasks \cup {STOP})]
    BY Empty DEF Init
  <2> QED
    BY <2>1, <2>2, <2>3, <2>4 DEF Init, Typed, Types, Locals
<1>2. Typed /\ [Next]_vars => Typed'
  <2> SUFFICES ASSUME Typed, [Next]_vars
               PROVE  Typed'
    OBVIOUS
  <2> USE MarkAssumption
      DEF Typed, Types, Locals, poolVars, nodeVars, threadVars, callVars, histVars
  <2>1. ASSUME RunNode PROVE Typed'
    <3>1. mnode \in Nodes /\ mnode + 1 \in 0 .. NThreads
      BY <2>1, PoolAssumption DEF RunNode, Nodes
    <3>2. \A n \in Nodes : n >= mnode + 1 => n >= mnode /\ n # mnode
      BY PoolAssumption DEF Nodes
    <3>3. Types'
      BY <2>1, <3>1 DEF RunNode
    <3>4. /\ mpc' = "run" /\ UNCHANGED <<made, cpc, task>>
          /\ \A n \in Nodes : n # mnode => tpc'[n] = tpc[n]
          /\ mnode' = mnode + 1 /\ tpc'[mnode] = "pop" /\ tpc[mnode] = "none"
      BY <2>1, <3>1 DEF RunNode
    <3>5. \A n \in Nodes : n >= mnode + 1 => tpc'[n] = "none"
      BY <2>1, <3>2, <3>4 DEF RunNode
    <3>6. task[mnode] = NONE
      BY <3>1, <3>4
    <3>7. \A n \in Nodes : tpc'[n] \in {"execute", "release"} <=> task[n] # NONE
      BY <3>4, <3>6
    <3>8. Locals'
      BY <3>4, <3>5, <3>7
    <3> QED
      BY <3>3, <3>8
  <2>2. ASSUME RunReturns PROVE Typed'
    BY <2>2, PoolAssumption DEF RunReturns
  <2>3. ASSUME NEW c \in Callers, EnqueueIndex(c) PROVE Typed'
    <3>1. Cardinality(Made) \in Tasks
      BY <2>3, NextTask DEF EnqueueIndex
    <3>2. /\ Index(next_thread_index) \in Nodes
          /\ Wrap(next_thread_index) \in -(2 ^ (IntWidth - 1)) .. 2 ^ (IntWidth - 1) - 1
      BY IndexIsNode
    <3> QED
      BY <2>3, <3>1, <3>2 DEF EnqueueIndex
  <2>4. ASSUME NEW c \in Callers, EnqueueFill(c) PROVE Typed'
    <3>1. ndx[c] \in Nodes /\ made[c] # NONE /\ made[c] \in Tasks
      BY <2>4 DEF EnqueueFill
    <3>2. /\ cpc' = [cpc EXCEPT ![c] = "push"] /\ cpc[c] = "fill"
          /\ live' = [live EXCEPT ![ndx[c]] = @ \cup {made[c]}]
          /\ \/ /\ payload' = [payload EXCEPT ![ndx[c]] = made[c]]
                /\ given' = given \cup {made[c]}
             \/ UNCHANGED <<payload, given>>
          /\ UNCHANGED <<poolVars, q, sig_terminated, threadVars,
                         next_thread_index, ndx, made, nodeOf, misread, runs>>
      BY <2>4 DEF EnqueueFill
    <3>3. Types'
      BY <3>1, <3>2
    <3>4. Locals'
      BY <3>1, <3>2
    <3> QED
      BY <3>3, <3>4
  <2>5. ASSUME NEW c \in Callers, EnqueuePush(c) PROVE Typed'
    <3>1. Append(q[ndx[c]], made[c]) \in Seq(Tasks \cup {STOP})
      BY <2>5, Queued DEF EnqueuePush
    <3>2. 0 \in Nodes
      BY PoolAssumption DEF Nodes
    <3> QED
      BY <2>5, <3>1, <3>2 DEF EnqueuePush
  <2>6. ASSUME NEW n \in Nodes, Pop(n) PROVE Typed'
    <3>1. Head(q[n]) \in Tasks \cup {STOP} /\ Tail(q[n]) \in Seq(Tasks \cup {STOP})
      BY <2>6, Dequeued DEF Pop
    <3> QED
      BY <2>6, <3>1 DEF Pop
  <2>7. ASSUME NEW n \in Nodes, Execute(n) PROVE Typed'
    BY <2>7 DEF Execute
  <2>8. ASSUME NEW n \in Nodes, Release(n) PROVE Typed'
    BY <2>8 DEF Release
  <2>9. ASSUME NEW n \in Nodes, SignalStore(n) PROVE Typed'
    BY <2>9 DEF SignalStore
  <2>10. ASSUME NEW n \in Nodes, SignalBroadcast(n) PROVE Typed'
    BY <2>10 DEF SignalBroadcast
  <2>11. ASSUME Done PROVE Typed'
    BY <2>11 DEF Done
  <2>12. ASSUME DoneSkip PROVE Typed'
    BY <2>12, PoolAssumption DEF DoneSkip
  <2>13. ASSUME DonePush PROVE Typed'
    <3>1. mnode \in Nodes
      BY <2>13, PoolAssumption DEF DonePush, Nodes
    <3>2. Append(q[mnode], STOP) \in Seq(Tasks \cup {STOP})
      BY <3>1, Queued
    <3> QED
      BY <2>13, <3>1, <3>2 DEF DonePush
  <2>14. ASSUME DoneWait PROVE Typed'
    BY <2>14 DEF DoneWait
  <2>15. ASSUME DoneJoin PROVE Typed'
    BY <2>15 DEF DoneJoin
  <2>16. ASSUME DoneFree PROVE Typed'
    <3>1. mnode \in Nodes /\ mnode + 1 \in 0 .. NThreads
      BY <2>16, PoolAssumption DEF DoneFree, Nodes
    <3> QED
      BY <2>16, <3>1 DEF DoneFree
  <2>17. ASSUME DoneReturns PROVE Typed'
    BY <2>17 DEF DoneReturns
  <2>18. ASSUME Over PROVE Typed'
    BY <2>18 DEF Over, vars
  <2>19. CASE UNCHANGED vars
    BY <2>19 DEF vars
  <2> QED
    BY <2>1, <2>2, <2>3, <2>4, <2>5, <2>6, <2>7, <2>8, <2>9, <2>10,
       <2>11, <2>12, <2>13, <2>14, <2>15, <2>16, <2>17, <2>18, <2>19
       DEF Next, Owner, Caller, Thread
<1> QED
  BY <1>1, <1>2, PTL DEF Spec

(* Done comes to one node after the other. *)
LEMMA LifeHolds == Spec => []Life
<1>1. Init => Life
  BY Empty DEF Init, Life, NodeLife, Ahead
<1>2. Typed /\ Life /\ [Next]_vars => Life'
  <2> SUFFICES ASSUME Typed, Life, [Next]_vars
               PROVE  Life'
    OBVIOUS
  <2> USE PoolAssumption, MarkAssumption
      DEF Typed, Locals, Life, NodeLife, Ahead, poolVars, nodeVars, threadVars, callVars, histVars, Types
  <2>1. ASSUME RunNode PROVE Life'
    BY <2>1 DEF RunNode
  <2>2. ASSUME RunReturns PROVE Life'
    BY <2>2 DEF RunReturns
  <2>3. ASSUME NEW c \in Callers, EnqueueIndex(c) PROVE Life'
    BY <2>3 DEF EnqueueIndex
  <2>4. ASSUME NEW c \in Callers, EnqueueFill(c) PROVE Life'
    BY <2>4 DEF EnqueueFill
  <2>5. ASSUME NEW c \in Callers, EnqueuePush(c) PROVE Life'
    <3> DEFINE n == ndx[c]
               a == Append(q[n], made[c])
    <3>1. /\ n \in Nodes /\ Ahead(n) /\ STOP \notin Elems(q[n])
          /\ made[c] \in Tasks /\ made[c] # STOP
      BY <2>5 DEF EnqueuePush
    <3>2. StopLast(a) /\ STOP \notin Elems(a)
      BY <3>1, Queued
    <3>3. /\ q'[n] = a /\ \A m \in Nodes : m # n => q'[m] = q[m]
          /\ UNCHANGED <<mpc, mnode, thr, freed, tpc>>
      BY <2>5, <3>1 DEF EnqueuePush
    <3>4. mpc = "serve"
      BY <2>5 DEF EnqueuePush
    <3> HIDE DEF n, a
    <3> QED
      BY <3>1, <3>2, <3>3, <3>4
  <2>6. ASSUME NEW n \in Nodes, Pop(n) PROVE Life'
    <3> DEFINE h == Head(q[n])
               a == Tail(q[n])
    <3>1. /\ Elems(q[n]) = Elems(a) \cup {h} /\ StopLast(a)
          /\ h = STOP => a = <<>>
      BY <2>6, Dequeued DEF Pop
    <3>2. /\ q'[n] = a /\ \A m \in Nodes : m # n => q'[m] = q[m]
          /\ tpc[n] = "pop" /\ tpc'[n] = IF h = STOP THEN "leave" ELSE "execute"
          /\ \A m \in Nodes : m # n => tpc'[m] = tpc[m]
          /\ UNCHANGED <<mpc, mnode, thr, freed, cpc>>
      BY <2>6 DEF Pop
    <3> HIDE DEF h, a
    <3>3. ASSUME NEW m \in Nodes PROVE NodeLife(m)'
      <4>1. CASE m = n
        BY <3>1, <3>2, <4>1
      <4>2. CASE m # n
        BY <3>2, <4>2
      <4> QED
        BY <4>1, <4>2
    <3> QED
      BY <3>2, <3>3
  <2>7. ASSUME NEW n \in Nodes, Execute(n) PROVE Life'
    BY <2>7 DEF Execute
  <2>8. ASSUME NEW n \in Nodes, Release(n) PROVE Life'
    BY <2>8 DEF Release
  <2>9. ASSUME NEW n \in Nodes, SignalStore(n) PROVE Life'
    BY <2>9 DEF SignalStore
  <2>10. ASSUME NEW n \in Nodes, SignalBroadcast(n) PROVE Life'
    BY <2>10 DEF SignalBroadcast
  <2>11. ASSUME Done PROVE Life'
    <3>1. \A n \in Nodes : (n > mnode \/ n = mnode) /\ ~(n < mnode)
      BY <2>11 DEF Done, Nodes
    <3> QED
      BY <2>11, <3>1 DEF Done
  <2>12. ASSUME DoneSkip PROVE Life'
    BY <2>12 DEF DoneSkip
  <2>13. ASSUME DonePush PROVE Life'
    <3>1. mnode \in Nodes /\ Ahead(mnode) /\ STOP \notin Elems(q[mnode])
      BY <2>13, PoolAssumption DEF DonePush, Nodes
    <3>2. StopLast(Append(q[mnode], STOP))
      BY <3>1, Queued
    <3>3. \A n \in Nodes : ~(n > n)
      BY DEF Nodes
    <3>4. /\ q'[mnode] = Append(q[mnode], STOP)
          /\ \A n \in Nodes : n # mnode => q'[n] = q[n]
      BY <2>13, <3>1 DEF DonePush
    <3> QED
      BY <2>13, <3>1, <3>2, <3>3, <3>4 DEF DonePush
  <2>14. ASSUME DoneWait PROVE Life'
    BY <2>14 DEF DoneWait
  <2>15. ASSUME DoneJoin PROVE Life'
    BY <2>15 DEF DoneJoin
  <2>16. ASSUME DoneFree PROVE Life'
    <3>1. /\ mpc = "free" /\ mpc' = "stop" /\ mnode' = mnode + 1
          /\ freed' = freed \cup {mnode} /\ UNCHANGED <<thr, tpc, q, cpc>>
      BY <2>16 DEF DoneFree
    <3>2. ASSUME NEW n \in Nodes
          PROVE  /\ (n > mnode + 1 \/ n = mnode + 1) => n > mnode
                 /\ n < mnode + 1 <=> (n < mnode \/ n = mnode)
      BY DEF Nodes
    <3>3. ASSUME NEW n \in Nodes PROVE NodeLife(n)'
      BY <3>1, <3>2
    <3>4. \A n \in freed' : n < mnode'
      BY <3>1 DEF Nodes
    <3> QED
      BY <3>1, <3>3, <3>4
  <2>17. ASSUME DoneReturns PROVE Life'
    BY <2>17 DEF DoneReturns
  <2>18. ASSUME Over PROVE Life'
    BY <2>18 DEF Over, vars
  <2>19. CASE UNCHANGED vars
    BY <2>19 DEF vars
  <2> QED
    BY <2>1, <2>2, <2>3, <2>4, <2>5, <2>6, <2>7, <2>8, <2>9, <2>10,
       <2>11, <2>12, <2>13, <2>14, <2>15, <2>16, <2>17, <2>18, <2>19
       DEF Next, Owner, Caller, Thread
<1> QED
  BY <1>1, <1>2, TypedHolds, PTL DEF Spec

-------------------------------------------------------------------------------

(* The number of the next task is new. *)
LEMMA Fresh ==
  ASSUME Typed, NEW k \in 0 .. MaxTasks, Made = 0 .. k - 1
  PROVE  /\ Cardinality(Made) = k
         /\ k < MaxTasks => k \in Tasks /\ nodeOf[k] = NONE
<1>1. Cardinality(0 .. k - 1) = k
  <2>1. 0 \in Int /\ k - 1 \in Int /\ (0 > k - 1 <=> k = 0) /\ k - 1 - 0 + 1 = k
    BY PoolAssumption
  <2> QED
    BY <2>1, FS_Interval
<1>2. k < MaxTasks => k \in Tasks /\ k \notin Made
  BY PoolAssumption DEF Tasks
<1> QED
  BY <1>1, <1>2 DEF Made

(* The counter after one more call. *)
LEMMA CountedOn ==
  ASSUME NEW k \in Nat, NEW w \in 0 .. k, NEW i \in Int, i = k - w * 2 ^ IntWidth
  PROVE  \E v \in 0 .. k + 1 : Wrap(i) = (k + 1) - v * 2 ^ IntWidth
<1> DEFINE h == 2 ^ (IntWidth - 1)
           z == 2 ^ IntWidth
<1>1. h \in Nat /\ z = 2 * h
  BY PowerAssumption
<1>2. Wrap(i) = IF i = h - 1 THEN -h ELSE i + 1
  BY DEF Wrap
<1>3. i = k - w * z
  OBVIOUS
<1> HIDE DEF h, z
<1>4. PICK p \in Int : p = w * z
  BY <1>1
<1>5. (w + 1) * z = p + z
  BY <1>1, <1>4
<1>6. CASE i = h - 1
  <2>1. Wrap(i) = (k + 1) - (w + 1) * z
    BY <1>1, <1>2, <1>3, <1>4, <1>5, <1>6
  <2> QED
    BY <2>1 DEF z
<1>7. CASE i # h - 1
  <2>1. Wrap(i) = (k + 1) - w * z
    BY <1>1, <1>2, <1>3, <1>4, <1>7
  <2> QED
    BY <2>1 DEF z
<1> QED
  BY <1>6, <1>7

(* The counter counts the calls of enqueue. *)
LEMMA CountedHolds == Spec => []Counted
<1>1. Init => Counted
  <2> SUFFICES ASSUME Init PROVE Counted
    OBVIOUS
  <2>1. Made = 0 .. 0 - 1 /\ 0 \in 0 .. MaxTasks
    BY PoolAssumption DEF Init, Made
  <2>2. next_thread_index = 0 - 0 * 2 ^ IntWidth
    <3>1. 2 ^ IntWidth \in Nat
      BY PowerAssumption
    <3> QED
      BY <3>1 DEF Init
  <2> QED
    BY <2>1, <2>2 DEF Counted
<1>2. Typed /\ Counted /\ [Next]_vars => Counted'
  <2> SUFFICES ASSUME Typed, Counted, [Next]_vars
               PROVE  Counted'
    OBVIOUS
  <2> USE
      DEF poolVars, nodeVars, threadVars, callVars, histVars
  <2>1. ASSUME RunNode PROVE Counted'
    BY <2>1 DEF RunNode, Counted, Made
  <2>2. ASSUME RunReturns PROVE Counted'
    BY <2>2 DEF RunReturns, Counted, Made
  <2>3. ASSUME NEW c \in Callers, EnqueueIndex(c) PROVE Counted'
    <3>1. PICK k \in 0 .. MaxTasks : Made = 0 .. k - 1 /\
             \E w \in 0 .. k : next_thread_index = k - w * 2 ^ IntWidth
      BY DEF Counted
    <3>2. /\ Cardinality(Made) = k /\ k < MaxTasks /\ k \in Tasks
          /\ Index(next_thread_index) # NONE
      <4>1. Index(next_thread_index) \in Nodes
        BY IndexIsNode DEF Typed, Types
      <4> QED
        BY <2>3, <3>1, <4>1, Fresh, MarkAssumption DEF EnqueueIndex
    <3>3. nodeOf' = [nodeOf EXCEPT ![k] = Index(next_thread_index)]
      BY <2>3, <3>2 DEF EnqueueIndex
    <3>4. Made' = Made \cup {k}
      BY <3>2, <3>3 DEF Made, Typed, Types
    <3>5. Made' = 0 .. (k + 1) - 1 /\ k + 1 \in 0 .. MaxTasks
      BY <3>1, <3>2, <3>4, PoolAssumption
    <3>6. next_thread_index \in Int /\ k \in Nat
      BY PowerAssumption, PoolAssumption DEF Typed, Types
    <3>7. \E v \in 0 .. k + 1 : next_thread_index' = (k + 1) - v * 2 ^ IntWidth
      BY <2>3, <3>1, <3>6, CountedOn DEF EnqueueIndex
    <3> QED
      BY <3>5, <3>7 DEF Counted
  <2>4. ASSUME NEW c \in Callers, EnqueueFill(c) PROVE Counted'
    BY <2>4 DEF EnqueueFill, Counted, Made
  <2>5. ASSUME NEW c \in Callers, EnqueuePush(c) PROVE Counted'
    BY <2>5 DEF EnqueuePush, Counted, Made
  <2>6. ASSUME NEW n \in Nodes, Pop(n) PROVE Counted'
    BY <2>6 DEF Pop, Counted, Made
  <2>7. ASSUME NEW n \in Nodes, Execute(n) PROVE Counted'
    BY <2>7 DEF Execute, Counted, Made
  <2>8. ASSUME NEW n \in Nodes, Release(n) PROVE Counted'
    BY <2>8 DEF Release, Counted, Made
  <2>9. ASSUME NEW n \in Nodes, SignalStore(n) PROVE Counted'
    BY <2>9 DEF SignalStore, Counted, Made
  <2>10. ASSUME NEW n \in Nodes, SignalBroadcast(n) PROVE Counted'
    BY <2>10 DEF SignalBroadcast, Counted, Made
  <2>11. ASSUME Done PROVE Counted'
    BY <2>11 DEF Done, Counted, Made
  <2>12. ASSUME DoneSkip PROVE Counted'
    BY <2>12 DEF DoneSkip, Counted, Made
  <2>13. ASSUME DonePush PROVE Counted'
    BY <2>13 DEF DonePush, Counted, Made
  <2>14. ASSUME DoneWait PROVE Counted'
    BY <2>14 DEF DoneWait, Counted, Made
  <2>15. ASSUME DoneJoin PROVE Counted'
    BY <2>15 DEF DoneJoin, Counted, Made
  <2>16. ASSUME DoneFree PROVE Counted'
    BY <2>16 DEF DoneFree, Counted, Made
  <2>17. ASSUME DoneReturns PROVE Counted'
    BY <2>17 DEF DoneReturns, Counted, Made
  <2>18. ASSUME Over PROVE Counted'
    BY <2>18
       DEF Over, vars, Counted, Made, poolVars, nodeVars, threadVars, callVars,
           histVars
  <2>19. CASE UNCHANGED vars
    BY <2>19 DEF vars, Counted, Made
  <2> QED
    BY <2>1, <2>2, <2>3, <2>4, <2>5, <2>6, <2>7, <2>8, <2>9, <2>10,
       <2>11, <2>12, <2>13, <2>14, <2>15, <2>16, <2>17, <2>18, <2>19
       DEF Next, Owner, Caller, Thread
<1> QED
  BY <1>1, <1>2, TypedHolds, PTL DEF Spec

-------------------------------------------------------------------------------

(* Apart from the stop entry a queue holds tasks. *)
LEMMA InTasks ==
  ASSUME Typed, NEW n \in Nodes, NEW t \in Elems(q[n]) \ {STOP}
  PROVE  t \in Tasks
<1>1. q[n] \in Seq(Tasks \cup {STOP})
  BY DEF Typed, Types
<1> QED
  BY <1>1, ElementOfSeq DEF Elems

(* Every task is in one place and runs once. *)
LEMMA PlacesHold == Spec => []Places
<1>1. Init => Places
  BY Empty DEF Init, Places, CallPlace, NodePlace
<1>2. Typed /\ Life /\ Counted /\ Places /\ [Next]_vars => Places'
  <2> SUFFICES ASSUME Typed, Life, Counted, Places, [Next]_vars
               PROVE  Places'
    OBVIOUS
  <2> USE
      DEF Places, CallPlace, NodePlace, poolVars, nodeVars, threadVars, callVars, histVars
  <2>1. ASSUME RunNode PROVE Places'
    <3>1. UNCHANGED <<q, task, made, ndx, nodeOf, runs>>
      BY <2>1 DEF RunNode
    <3>3. mnode \in Nodes /\ mnode >= mnode
      BY <2>1, PoolAssumption DEF RunNode, Nodes, Typed, Types
    <3>2. \A m \in Nodes : task[m] # NONE => tpc'[m] = tpc[m]
      BY <2>1, <3>3, MarkAssumption DEF RunNode, Typed, Types, Locals
    <3> QED
      BY <3>1, <3>2
  <2>2. ASSUME RunReturns PROVE Places'
    <3>1. UNCHANGED <<q, task, made, ndx, nodeOf, runs>>
      BY <2>2 DEF RunReturns
    <3>2. \A m \in Nodes : task[m] # NONE => tpc'[m] = tpc[m]
      BY <2>2 DEF RunReturns, Typed, Types, Locals
    <3> QED
      BY <3>1, <3>2
  <2>3. ASSUME NEW c \in Callers, EnqueueIndex(c) PROVE Places'
    <3>1. PICK k \in Tasks : k = Cardinality(Made) /\ nodeOf[k] = NONE
      BY <2>3, Fresh DEF EnqueueIndex, Counted
    <3>2. Index(next_thread_index) \in Nodes
      BY IndexIsNode DEF Typed, Types
    <3>3. /\ made[c] = NONE /\ made'[c] = k /\ ndx'[c] = Index(next_thread_index)
          /\ nodeOf'[k] = Index(next_thread_index)
          /\ \A d \in Callers : d # c => made'[d] = made[d] /\ ndx'[d] = ndx[d]
          /\ \A t \in Tasks : t # k => nodeOf'[t] = nodeOf[t]
          /\ UNCHANGED <<q, task, tpc, runs>>
      BY <2>3, <3>1 DEF EnqueueIndex, Typed, Types, Locals
    <3>4. /\ runs[k] = 0 /\ \A d \in Callers : made[d] # k
          /\ \A n \in Nodes : k \notin Elems(q[n]) /\ task[n] # k
      <4>1. \A d \in Callers : ndx[d] # NONE
        BY MarkAssumption DEF Typed, Types
      <4>2. \A n \in Nodes : n # NONE
        BY MarkAssumption
      <4>3. k # NONE /\ k # STOP
        BY MarkAssumption
      <4> QED
        BY <3>1, <4>1, <4>2, <4>3
    <3>5. ASSUME NEW d \in Callers PROVE CallPlace(d)'
      <4>1. CASE d = c
        BY <3>3, <3>4, <4>1
      <4>2. CASE d # c
        <5>1. made[d] # NONE => made[d] \in Tasks
          BY DEF Typed, Types
        <5> QED
          BY <3>3, <3>4, <4>2, <5>1
      <4> QED
        BY <4>1, <4>2
    <3>6. ASSUME NEW n \in Nodes PROVE NodePlace(n)'
      <4>1. task[n] # NONE => task[n] \in Tasks
        BY DEF Typed, Types
      <4>2. \A t \in Elems(q[n]) \ {STOP} : t \in Tasks
        BY InTasks
      <4>3. \A d \in Callers : made'[d] = made[d] \/ made'[d] = k
        BY <3>3
      <4> QED
        BY <3>3, <3>4, <4>1, <4>2, <4>3
    <3>7. \A t \in Tasks : nodeOf'[t] = NONE => nodeOf[t] = NONE
      BY <3>2, <3>3, MarkAssumption
    <3> QED
      BY <3>3, <3>5, <3>6, <3>7
  <2>4. ASSUME NEW c \in Callers, EnqueueFill(c) PROVE Places'
    <3>1. UNCHANGED <<q, task, made, ndx, nodeOf, runs>>
      BY <2>4 DEF EnqueueFill
    <3>2. \A m \in Nodes : task[m] # NONE => tpc'[m] = tpc[m]
      BY <2>4 DEF EnqueueFill, Typed, Types, Locals
    <3> QED
      BY <3>1, <3>2
  <2>5. ASSUME NEW c \in Callers, EnqueuePush(c) PROVE Places'
    <3> DEFINE n == ndx[c]
               t == made[c]
    <3>1. n \in Nodes /\ t \in Tasks /\ t # NONE /\ t # STOP
      BY <2>5, MarkAssumption DEF EnqueuePush, Typed, Types, Locals
    <3>2. /\ nodeOf[t] = n /\ runs[t] = 0
          /\ \A d \in Callers : d # c => made[d] # t
          /\ \A m \in Nodes : t \notin Elems(q[m]) /\ task[m] # t
      BY <3>1
    <3>3. /\ Elems(q'[n]) = Elems(q[n]) \cup {t} /\ Distinct(q'[n])
          /\ \A m \in Nodes : m # n => q'[m] = q[m]
      <4>1. /\ q'[n] = Append(q[n], t) /\ q[n] \in Seq(Tasks \cup {STOP})
            /\ \A m \in Nodes : m # n => q'[m] = q[m]
        BY <2>5, <3>1 DEF EnqueuePush, Typed, Types
      <4>2. Distinct(q[n])
        BY <3>1
      <4> QED
        BY <3>1, <3>2, <4>1, <4>2, Queued
    <3>4. /\ made'[c] = NONE
          /\ \A d \in Callers : d # c => made'[d] = made[d] /\ ndx'[d] = ndx[d]
          /\ UNCHANGED <<task, tpc, nodeOf, runs>>
      BY <2>5 DEF EnqueuePush, Typed, Types
    <3> HIDE DEF n, t
    <3>5. ASSUME NEW d \in Callers PROVE CallPlace(d)'
      BY <3>4
    <3>6. ASSUME NEW m \in Nodes PROVE NodePlace(m)'
      <4>1. \A d \in Callers : made'[d] = NONE \/ (made'[d] = made[d] /\ d # c)
        BY <3>4
      <4>2. \A u \in Elems(q[m]) \ {STOP} : u # NONE
        BY InTasks, MarkAssumption
      <4>3. CASE m = n
        BY <3>1, <3>2, <3>3, <3>4, <4>1, <4>2, <4>3
      <4>4. CASE m # n
        BY <3>3, <3>4, <4>1, <4>2, <4>4
      <4> QED
        BY <4>3, <4>4
    <3> QED
      BY <3>4, <3>5, <3>6
  <2>6. ASSUME NEW n \in Nodes, Pop(n) PROVE Places'
    <3> DEFINE h == Head(q[n])
    <3>1. /\ Elems(q[n]) = Elems(q'[n]) \cup {h} /\ Distinct(q'[n])
          /\ h \notin Elems(q'[n]) /\ h \in Tasks \cup {STOP}
      <4>1. q[n] # <<>> /\ q'[n] = Tail(q[n]) /\ q[n] \in Seq(Tasks \cup {STOP})
        BY <2>6 DEF Pop, Typed, Types
      <4> QED
        BY <4>1, Dequeued
    <3>2. /\ task'[n] = IF h = STOP THEN NONE ELSE h
          /\ tpc'[n] = IF h = STOP THEN "leave" ELSE "execute"
          /\ \A m \in Nodes : m # n => /\ q'[m] = q[m] /\ tpc'[m] = tpc[m]
                                      /\ task'[m] = task[m]
          /\ UNCHANGED <<made, ndx, nodeOf, runs>>
      BY <2>6 DEF Pop, Typed, Types
    <3> HIDE DEF h
    <3>3. ASSUME NEW m \in Nodes PROVE NodePlace(m)'
      <4>1. CASE m = n
        <5>1. \A u \in Elems(q[n]) \ {STOP} : u # NONE
          BY InTasks, MarkAssumption
        <5> QED
          BY <3>1, <3>2, <4>1, <5>1
      <4>2. CASE m # n
        BY <3>2, <4>2
      <4> QED
        BY <4>1, <4>2
    <3> QED
      BY <3>2, <3>3
  <2>7. ASSUME NEW n \in Nodes, Execute(n) PROVE Places'
    <3> DEFINE u == task[n]
    <3>0. /\ u \in Tasks /\ u # NONE
          /\ runs' = [runs EXCEPT ![u] = runs[u] + 1]
      BY <2>7, MarkAssumption DEF Execute, Typed, Types, Locals
    <3>1. /\ tpc[n] = "execute" /\ tpc'[n] = "release"
          /\ \A m \in Nodes : m # n => tpc'[m] = tpc[m]
          /\ UNCHANGED <<q, task, made, ndx, nodeOf>>
      BY <2>7, MarkAssumption DEF Execute, Typed, Types, Locals
    <3>2. nodeOf[u] = n /\ runs[u] = 0 /\ \A c \in Callers : made[c] # u
      BY <3>0, <3>1
    <3>3. runs'[u] = 1 /\ \A t \in Tasks : t # u => runs'[t] = runs[t]
      BY <3>0, <3>2 DEF Typed, Types
    <3> HIDE DEF u
    <3>4. ASSUME NEW c \in Callers PROVE CallPlace(c)'
      <4>1. made[c] # NONE => made[c] \in Tasks
        BY DEF Typed, Types
      <4> QED
        BY <3>1, <3>2, <3>3, <4>1
    <3>5. ASSUME NEW m \in Nodes PROVE NodePlace(m)'
      <4>1. \A t \in Elems(q[m]) \ {STOP} : t \in Tasks
        BY InTasks
      <4>2. task[m] # NONE => task[m] \in Tasks
        BY DEF Typed, Types
      <4>3. CASE m = n
        BY <3>0, <3>1, <3>2, <3>3, <4>1, <4>2, <4>3 DEF u
      <4>4. CASE m # n
        BY <3>1, <3>2, <3>3, <4>1, <4>2, <4>4
      <4> QED
        BY <4>3, <4>4
    <3>6. \A t \in Tasks : runs'[t] \in {0, 1} /\ (nodeOf[t] = NONE => runs'[t] = 0)
      BY <3>2, <3>3, MarkAssumption
    <3> QED
      BY <3>1, <3>4, <3>5, <3>6
  <2>8. ASSUME NEW n \in Nodes, Release(n) PROVE Places'
    <3>1. /\ task'[n] = NONE
          /\ \A m \in Nodes : m # n => task'[m] = task[m] /\ tpc'[m] = tpc[m]
          /\ UNCHANGED <<q, made, ndx, nodeOf, runs>>
      BY <2>8 DEF Release, Typed, Types
    <3>2. ASSUME NEW m \in Nodes PROVE NodePlace(m)'
      <4>1. \A t \in Elems(q[m]) \ {STOP} : t # NONE
        BY InTasks, MarkAssumption
      <4> QED
        BY <3>1, <4>1
    <3> QED
      BY <3>1, <3>2
  <2>9. ASSUME NEW n \in Nodes, SignalStore(n) PROVE Places'
    <3>1. UNCHANGED <<q, task, made, ndx, nodeOf, runs>>
      BY <2>9 DEF SignalStore
    <3>2. tpc[n] = "leave" /\ tpc' = [tpc EXCEPT ![n] = "signal"]
      BY <2>9 DEF SignalStore
    <3>3. task[n] = NONE
      BY <3>2 DEF Typed, Locals
    <3>4. \A m \in Nodes : task[m] # NONE => tpc'[m] = tpc[m]
      BY <3>2, <3>3 DEF Typed, Types
    <3> QED
      BY <3>1, <3>4
  <2>10. ASSUME NEW n \in Nodes, SignalBroadcast(n) PROVE Places'
    <3>1. UNCHANGED <<q, task, made, ndx, nodeOf, runs>>
      BY <2>10 DEF SignalBroadcast
    <3>2. tpc[n] = "signal" /\ tpc' = [tpc EXCEPT ![n] = "ended"]
      BY <2>10 DEF SignalBroadcast
    <3>3. task[n] = NONE
      BY <3>2 DEF Typed, Locals
    <3>4. \A m \in Nodes : task[m] # NONE => tpc'[m] = tpc[m]
      BY <3>2, <3>3 DEF Typed, Types
    <3> QED
      BY <3>1, <3>4
  <2>11. ASSUME Done PROVE Places'
    <3>1. UNCHANGED <<q, task, made, ndx, nodeOf, runs>>
      BY <2>11 DEF Done
    <3>2. \A m \in Nodes : task[m] # NONE => tpc'[m] = tpc[m]
      BY <2>11 DEF Done, Typed, Types, Locals
    <3> QED
      BY <3>1, <3>2
  <2>12. ASSUME DoneSkip PROVE Places'
    <3>1. UNCHANGED <<q, task, made, ndx, nodeOf, runs>>
      BY <2>12 DEF DoneSkip
    <3>2. \A m \in Nodes : task[m] # NONE => tpc'[m] = tpc[m]
      BY <2>12 DEF DoneSkip, Typed, Types, Locals
    <3> QED
      BY <3>1, <3>2
  <2>13. ASSUME DonePush PROVE Places'
    <3>1. mnode \in Nodes
      BY <2>13, PoolAssumption DEF DonePush, Nodes, Typed, Types
    <3>2. STOP \notin Elems(q[mnode]) /\ Distinct(q[mnode])
      BY <2>13, <3>1 DEF DonePush, Life, NodeLife, Ahead
    <3>3. /\ q'[mnode] = Append(q[mnode], STOP) /\ q[mnode] \in Seq(Tasks \cup {STOP})
          /\ \A m \in Nodes : m # mnode => q'[m] = q[m]
          /\ UNCHANGED <<task, tpc, made, ndx, nodeOf, runs>>
      BY <2>13, <3>1 DEF DonePush, Typed, Types
    <3>4. Distinct(q'[mnode]) /\ Elems(q'[mnode]) = Elems(q[mnode]) \cup {STOP}
      BY <3>2, <3>3, Queued
    <3>5. ASSUME NEW m \in Nodes PROVE NodePlace(m)'
      <4>1. CASE m = mnode
        <5>1. Distinct(q'[m]) /\ Elems(q'[m]) \ {STOP} = Elems(q[m]) \ {STOP}
          BY <3>4, <4>1
        <5>2. NodePlace(m) /\ UNCHANGED <<task, tpc, made, nodeOf, runs>>
          BY <3>3
        <5> QED
          BY <5>1, <5>2
      <4>2. CASE m # mnode
        BY <3>3, <4>2
      <4> QED
        BY <4>1, <4>2
    <3> QED
      BY <3>3, <3>5
  <2>14. ASSUME DoneWait PROVE Places'
    <3>1. UNCHANGED <<q, task, made, ndx, nodeOf, runs>>
      BY <2>14 DEF DoneWait
    <3>2. \A m \in Nodes : task[m] # NONE => tpc'[m] = tpc[m]
      BY <2>14 DEF DoneWait, Typed, Types, Locals
    <3> QED
      BY <3>1, <3>2
  <2>15. ASSUME DoneJoin PROVE Places'
    <3>1. UNCHANGED <<q, task, made, ndx, nodeOf, runs>>
      BY <2>15 DEF DoneJoin
    <3>2. \A m \in Nodes : task[m] # NONE => tpc'[m] = tpc[m]
      BY <2>15 DEF DoneJoin, Typed, Types, Locals
    <3> QED
      BY <3>1, <3>2
  <2>16. ASSUME DoneFree PROVE Places'
    <3>1. UNCHANGED <<q, task, made, ndx, nodeOf, runs>>
      BY <2>16 DEF DoneFree
    <3>2. \A m \in Nodes : task[m] # NONE => tpc'[m] = tpc[m]
      BY <2>16 DEF DoneFree, Typed, Types, Locals
    <3> QED
      BY <3>1, <3>2
  <2>17. ASSUME DoneReturns PROVE Places'
    <3>1. UNCHANGED <<q, task, made, ndx, nodeOf, runs>>
      BY <2>17 DEF DoneReturns
    <3>2. \A m \in Nodes : task[m] # NONE => tpc'[m] = tpc[m]
      BY <2>17 DEF DoneReturns, Typed, Types, Locals
    <3> QED
      BY <3>1, <3>2
  <2>18. ASSUME Over PROVE Places'
    BY <2>18 DEF Over, vars
  <2>19. CASE UNCHANGED vars
    BY <2>19 DEF vars
  <2> QED
    BY <2>1, <2>2, <2>3, <2>4, <2>5, <2>6, <2>7, <2>8, <2>9, <2>10,
       <2>11, <2>12, <2>13, <2>14, <2>15, <2>16, <2>17, <2>18, <2>19
       DEF Next, Owner, Caller, Thread
<1> QED
  BY <1>1, <1>2, TypedHolds, LifeHolds, CountedHolds, PTL DEF Spec

(* No task is lost. *)
LEMMA CompleteHolds == Spec => []Complete
<1>1. Init => Complete
  BY MarkAssumption DEF Init, Complete, NodeComplete
<1>2. Typed /\ Counted /\ Places /\ Complete /\ [Next]_vars => Complete'
  <2> SUFFICES ASSUME Typed, Counted, Places, Complete, [Next]_vars
               PROVE  Complete'
    OBVIOUS
  <2> USE
      DEF Complete, NodeComplete, Held, poolVars, nodeVars, threadVars, callVars, histVars
  <2>1. ASSUME RunNode PROVE Complete'
    <3>1. UNCHANGED <<q, task, made, nodeOf, runs, live>>
      BY <2>1 DEF RunNode
    <3> QED
      BY <3>1
  <2>2. ASSUME RunReturns PROVE Complete'
    <3>1. UNCHANGED <<q, task, made, nodeOf, runs, live>>
      BY <2>2 DEF RunReturns
    <3> QED
      BY <3>1
  <2>3. ASSUME NEW c \in Callers, EnqueueIndex(c) PROVE Complete'
    <3>1. PICK k \in Tasks : k = Cardinality(Made) /\ nodeOf[k] = NONE
      BY <2>3, Fresh DEF EnqueueIndex, Counted
    <3>2. /\ made[c] = NONE /\ made'[c] = k
          /\ \A d \in Callers : d # c => made'[d] = made[d]
          /\ \A t \in Tasks : t # k => nodeOf'[t] = nodeOf[t]
          /\ UNCHANGED <<q, task, runs, live>>
      BY <2>3, <3>1 DEF EnqueueIndex, Typed, Types, Locals
    <3>3. \A t \in Tasks, n \in Nodes : Held(t, n) => Held(t, n)'
      BY <3>2, MarkAssumption
    <3>4. \A n \in Nodes : Held(k, n)'
      BY <3>2
    <3>5. ASSUME NEW n \in Nodes PROVE NodeComplete(n)'
      <4>1. n # NONE /\ live[n] \subseteq Tasks
        BY MarkAssumption DEF Typed, Types
      <4> HIDE DEF Held
      <4> QED
        BY <3>1, <3>2, <3>3, <3>4, <4>1
    <3> QED
      BY <3>5
  <2>4. ASSUME NEW c \in Callers, EnqueueFill(c) PROVE Complete'
    <3>1. /\ ndx[c] \in Nodes /\ made[c] \in Tasks /\ made[c] # NONE
          /\ live'[ndx[c]] = live[ndx[c]] \cup {made[c]}
          /\ \A n \in Nodes : n # ndx[c] => live'[n] = live[n]
          /\ UNCHANGED <<q, task, made, nodeOf, runs>>
      BY <2>4, MarkAssumption DEF EnqueueFill, Typed, Types, Locals
    <3>2. nodeOf[made[c]] = ndx[c]
      BY <3>1 DEF Places, CallPlace
    <3> QED
      BY <3>1, <3>2
  <2>5. ASSUME NEW c \in Callers, EnqueuePush(c) PROVE Complete'
    <3>1. /\ ndx[c] \in Nodes /\ made[c] \in Tasks
          /\ q'[ndx[c]] = Append(q[ndx[c]], made[c])
          /\ q[ndx[c]] \in Seq(Tasks \cup {STOP})
          /\ \A n \in Nodes : n # ndx[c] => q'[n] = q[n]
          /\ made'[c] = NONE /\ \A d \in Callers : d # c => made'[d] = made[d]
          /\ UNCHANGED <<task, nodeOf, runs, live>>
      BY <2>5 DEF EnqueuePush, Typed, Types, Locals
    <3>2. Elems(q'[ndx[c]]) = Elems(q[ndx[c]]) \cup {made[c]}
      BY <3>1, Queued
    <3>3. nodeOf[made[c]] = ndx[c]
      BY <3>1, MarkAssumption DEF Places, CallPlace
    <3>4. ASSUME NEW n \in Nodes, NEW t \in Tasks, nodeOf[t] = n, Held(t, n)
          PROVE  Held(t, n)'
      <4>1. CASE t = made[c]
        BY <3>2, <3>3, <3>4, <4>1
      <4>2. CASE t \in Elems(q[n])
        <5>1. t \in Elems(q'[n])
          BY <3>1, <3>2, <4>2
        <5> QED
          BY <5>1
      <4>3. CASE task[n] = t
        BY <3>1, <4>3
      <4>4. ASSUME NEW d \in Callers, made[d] = t, d # c PROVE Held(t, n)'
        BY <3>1, <4>4
      <4> QED
        BY <3>4, <4>1, <4>2, <4>3, <4>4
    <3>5. \A n \in Nodes : live[n] \subseteq Tasks
      BY DEF Typed, Types
    <3> HIDE DEF Held
    <3> QED
      BY <3>1, <3>4, <3>5
  <2>6. ASSUME NEW n \in Nodes, Pop(n) PROVE Complete'
    <3>1. /\ q[n] # <<>> /\ q'[n] = Tail(q[n]) /\ q[n] \in Seq(Tasks \cup {STOP})
          /\ task'[n] = IF Head(q[n]) = STOP THEN NONE ELSE Head(q[n])
          /\ \A m \in Nodes : m # n => q'[m] = q[m] /\ task'[m] = task[m]
          /\ UNCHANGED <<made, nodeOf, runs, live>>
      BY <2>6 DEF Pop, Typed, Types
    <3>0. task[n] = NONE
      BY <2>6 DEF Pop, Typed, Locals
    <3>2. Elems(q[n]) = Elems(q'[n]) \cup {Head(q[n])}
      BY <3>1, Dequeued
    <3>3. ASSUME NEW m \in Nodes, NEW t \in Tasks, Held(t, m) PROVE Held(t, m)'
      BY <3>0, <3>1, <3>2, <3>3, MarkAssumption
    <3>4. \A m \in Nodes : live[m] \subseteq Tasks
      BY DEF Typed, Types
    <3> HIDE DEF Held
    <3> QED
      BY <3>1, <3>3, <3>4
  <2>7. ASSUME NEW n \in Nodes, Execute(n) PROVE Complete'
    <3>1. /\ task[n] \in Tasks /\ runs' = [runs EXCEPT ![task[n]] = runs[task[n]] + 1]
          /\ UNCHANGED <<q, task, made, nodeOf, live>>
      BY <2>7 DEF Execute, Typed, Types, Locals
    <3>2. \A t \in Tasks : runs[t] = 1 => runs'[t] = 1
      <4>1. tpc[n] = "execute" /\ task[n] # NONE
        BY <2>7 DEF Execute, Typed, Locals
      <4>2. runs[task[n]] = 0
        BY <4>1 DEF Places, NodePlace
      <4> QED
        BY <3>1, <4>2 DEF Typed, Types
    <3>3. \A t, m : Held(t, m)' <=> Held(t, m)
      BY <3>1
    <3> HIDE DEF Held
    <3> QED
      BY <3>1, <3>2, <3>3
  <2>8. ASSUME NEW n \in Nodes, Release(n) PROVE Complete'
    <3>1. /\ task[n] \in Tasks /\ task[n] # NONE /\ tpc[n] = "release"
          /\ task'[n] = NONE /\ live'[n] = live[n] \ {task[n]}
          /\ \A m \in Nodes : m # n => task'[m] = task[m] /\ live'[m] = live[m]
          /\ UNCHANGED <<q, made, nodeOf, runs>>
      BY <2>8 DEF Release, Typed, Types, Locals
    <3>2. runs[task[n]] = 1
      BY <3>1 DEF Places, NodePlace
    <3>3. ASSUME NEW m \in Nodes, NEW t \in Tasks, Held(t, m), m # n \/ t # task[n]
          PROVE  Held(t, m)'
      BY <3>1, <3>3
    <3>4. \A m \in Nodes : live[m] \subseteq Tasks
      BY DEF Typed, Types
    <3> HIDE DEF Held
    <3> QED
      BY <3>1, <3>2, <3>3, <3>4
  <2>9. ASSUME NEW n \in Nodes, SignalStore(n) PROVE Complete'
    <3>1. UNCHANGED <<q, task, made, nodeOf, runs, live>>
      BY <2>9 DEF SignalStore
    <3> QED
      BY <3>1
  <2>10. ASSUME NEW n \in Nodes, SignalBroadcast(n) PROVE Complete'
    <3>1. UNCHANGED <<q, task, made, nodeOf, runs, live>>
      BY <2>10 DEF SignalBroadcast
    <3> QED
      BY <3>1
  <2>11. ASSUME Done PROVE Complete'
    <3>1. UNCHANGED <<q, task, made, nodeOf, runs, live>>
      BY <2>11 DEF Done
    <3> QED
      BY <3>1
  <2>12. ASSUME DoneSkip PROVE Complete'
    <3>1. UNCHANGED <<q, task, made, nodeOf, runs, live>>
      BY <2>12 DEF DoneSkip
    <3> QED
      BY <3>1
  <2>13. ASSUME DonePush PROVE Complete'
    <3>1. mnode \in Nodes
      BY <2>13, PoolAssumption DEF DonePush, Nodes, Typed, Types
    <3>2. /\ q'[mnode] = Append(q[mnode], STOP) /\ q[mnode] \in Seq(Tasks \cup {STOP})
          /\ \A m \in Nodes : m # mnode => q'[m] = q[m]
          /\ UNCHANGED <<task, made, nodeOf, runs, live>>
      BY <2>13, <3>1 DEF DonePush, Typed, Types
    <3>3. \A m \in Nodes : Elems(q[m]) \subseteq Elems(q'[m])
      <4>1. Elems(q'[mnode]) = Elems(q[mnode]) \cup {STOP}
        BY <3>2, Queued
      <4> QED
        BY <3>2, <4>1
    <3>4. \A t, m : m \in Nodes /\ Held(t, m) => Held(t, m)'
      BY <3>2, <3>3
    <3> HIDE DEF Held
    <3> QED
      BY <3>2, <3>4
  <2>14. ASSUME DoneWait PROVE Complete'
    <3>1. UNCHANGED <<q, task, made, nodeOf, runs, live>>
      BY <2>14 DEF DoneWait
    <3> QED
      BY <3>1
  <2>15. ASSUME DoneJoin PROVE Complete'
    <3>1. UNCHANGED <<q, task, made, nodeOf, runs, live>>
      BY <2>15 DEF DoneJoin
    <3> QED
      BY <3>1
  <2>16. ASSUME DoneFree PROVE Complete'
    <3>1. UNCHANGED <<q, task, made, nodeOf, runs, live>>
      BY <2>16 DEF DoneFree
    <3> QED
      BY <3>1
  <2>17. ASSUME DoneReturns PROVE Complete'
    <3>1. UNCHANGED <<q, task, made, nodeOf, runs, live>>
      BY <2>17 DEF DoneReturns
    <3> QED
      BY <3>1
  <2>18. ASSUME Over PROVE Complete'
    BY <2>18 DEF Over, vars
  <2>19. CASE UNCHANGED vars
    BY <2>19 DEF vars
  <2> QED
    BY <2>1, <2>2, <2>3, <2>4, <2>5, <2>6, <2>7, <2>8, <2>9, <2>10,
       <2>11, <2>12, <2>13, <2>14, <2>15, <2>16, <2>17, <2>18, <2>19
       DEF Next, Owner, Caller, Thread
<1> QED
  BY <1>1, <1>2, TypedHolds, CountedHolds, PlacesHold, PTL DEF Spec

-------------------------------------------------------------------------------

(* The types, no task is run twice, and TecThrPool_done destroys a node    *)
(* only when its thread has ended and no enqueue is under way.             *)
THEOREM Outlives == Spec => []NodeOutlivesUsers
<1>1. Typed /\ Life /\ Places => NodeOutlivesUsers
  <2> SUFFICES ASSUME Typed, Life, Places PROVE NodeOutlivesUsers
    OBVIOUS
  <2>1. runs \in [Tasks -> {0, 1}]
    BY DEF Typed, Types, Places
  <2>2. TypeOK
    BY <2>1 DEF Typed, Types, TypeOK
  <2>3. ASSUME NEW n \in freed
        PROVE  /\ tpc[n] \in {"none", "ended"}
               /\ \A c \in Callers : cpc[c] = "idle"
    <3>1. n \in Nodes /\ n < mnode /\ mpc \notin {"run", "serve"}
      BY DEF Typed, Types, Life
    <3> QED
      BY <3>1 DEF Life, NodeLife
  <2> QED
    BY <2>2, <2>3 DEF NodeOutlivesUsers
<1> QED
  BY <1>1, TypedHolds, LifeHolds, PlacesHold, PTL

(* A thread that leaves, because TecThrPool_done has told it to end, has   *)
(* run every task of its node once and released them all.                  *)
THEOREM Drained == Spec => []DrainedBeforeExit
<1>1. Typed /\ Life /\ Complete => DrainedBeforeExit
  <2> SUFFICES ASSUME Typed, Life, Complete,
                      NEW n \in Nodes, tpc[n] \in {"leave", "signal", "ended"}
               PROVE  /\ q[n] = <<>> /\ live[n] = {}
                      /\ \A t \in Tasks : nodeOf[t] = n => runs[t] = 1
    BY DEF DrainedBeforeExit
  <2>1. q[n] = <<>> /\ Elems(q[n]) = {} /\ task[n] = NONE
    BY Empty DEF Life, NodeLife, Typed, Types, Locals
  <2>2. ~Ahead(n)
    BY DEF Life, NodeLife
  <2>3. \A c \in Callers : made[c] = NONE
    BY <2>2 DEF Ahead, Life, Typed, Locals
  <2>4. \A t \in Tasks : ~Held(t, n)
    BY <2>1, <2>3, MarkAssumption DEF Held
  <2>5. live[n] \subseteq Tasks
    BY DEF Typed, Types
  <2> QED
    BY <2>1, <2>4, <2>5 DEF Complete, NodeComplete
<1> QED
  BY <1>1, TypedHolds, LifeHolds, CompleteHolds, PTL

(* A number without a remainder is a multiple. *)
LEMMA Divided ==
  ASSUME NEW d \in Nat \ {0}, NEW a \in Nat, a % d = 0
  PROVE  \E e \in Nat : a = e * d
<1>1. a \div d \in Nat
  BY SMT
<1>2. a = (a \div d) * d + (a % d)
  BY SMT
<1>3. (a \div d) * d \in Nat
  BY <1>1, SMT
<1> QED
  BY <1>1, <1>2, <1>3

(* The index of the task number k, if the threads divide the values of an  *)
(* int: all that the counter and the conversion add are whole multiples.   *)
LEMMA IndexInTurn ==
  ASSUME 2 ^ IntWidth % NThreads = 0, NEW k \in Nat, NEW w \in Nat,
         NEW i \in -(2 ^ (IntWidth - 1)) .. 2 ^ (IntWidth - 1) - 1,
         i = k - w * 2 ^ IntWidth
  PROVE  Index(i) = k % NThreads
<1> DEFINE z == 2 ^ IntWidth
           y == 2 ^ SizeWidth
           a == IF i >= 0 THEN i ELSE y + i
<1>1. NThreads \in Nat \ {0} /\ z \in Nat
  BY PoolAssumption, PowerAssumption
<1>2. PICK u \in 1 .. y : y = u * z
  BY PowerAssumption
<1>3. Index(i) = a % NThreads /\ a \in Nat
  BY IndexIsNode DEF Index
<1>4. z % NThreads = 0 /\ i = k - w * z
  OBVIOUS
<1> HIDE DEF z, y
<1>5. i \in Int
  BY <1>1, <1>4
<1>6. PICK e \in Nat : z = e * NThreads
  BY <1>1, <1>4, Divided
<1>7. u \in Int
  OBVIOUS
<1>8. PICK v \in Int : a = k + v * z
  <2>1. w * z \in Int /\ u * z \in Int /\ (u - w) * z = u * z - w * z /\ (0 - w) * z = -(w * z)
    BY <1>1, <1>7, SMT
  <2>2. CASE i >= 0
    <3>1. a = k + (0 - w) * z
      BY <1>4, <1>5, <2>1, <2>2
    <3> QED
      BY <3>1
  <2>3. CASE ~(i >= 0)
    <3>1. a = k + (u - w) * z
      BY <1>2, <1>4, <1>5, <2>1, <2>3
    <3> QED
      BY <1>7, <3>1
  <2> QED
    BY <2>2, <2>3
<1>9. v * z = (v * e) * NThreads /\ v * e \in Int
  BY <1>1, <1>6, SMT
<1>10. a = k + (v * e) * NThreads
  BY <1>8, <1>9
<1> HIDE DEF a
<1> QED
  BY <1>1, <1>3, <1>9, <1>10, Shifted

(* Every task is given the node whose turn it is, also after the counter   *)
(* of TecThrPool_enqueue has wrapped to the smallest int: the conversion   *)
(* to size_t keeps the turns if the threads divide the values of an int.   *)
THEOREM InTurn == Spec => []RoundRobin
<1>1. Init => RoundRobin
  BY DEF Init, RoundRobin
<1>2. Typed /\ Counted /\ RoundRobin /\ [Next]_vars => RoundRobin'
  <2> SUFFICES ASSUME Typed, Counted, RoundRobin, [Next]_vars,
                      2 ^ IntWidth % NThreads = 0,
                      NEW t \in Tasks, nodeOf'[t] # NONE
               PROVE  nodeOf'[t] = t % NThreads
    BY DEF RoundRobin
  <2>1. nodeOf[t] # NONE => nodeOf[t] = t % NThreads
    BY DEF RoundRobin
  <2>2. CASE UNCHANGED nodeOf
    BY <2>1, <2>2
  <2>3. ASSUME NEW c \in Callers, EnqueueIndex(c)
        PROVE  nodeOf'[t] = t % NThreads
    <3>1. PICK k \in 0 .. MaxTasks : Made = 0 .. k - 1 /\
             \E w \in 0 .. k : next_thread_index = k - w * 2 ^ IntWidth
      BY DEF Counted
    <3>2. Cardinality(Made) = k /\ k \in Tasks /\ k \in Nat
      BY <2>3, <3>1, Fresh, PoolAssumption DEF EnqueueIndex
    <3>3. Index(next_thread_index) = k % NThreads
      BY <3>1, <3>2, IndexInTurn DEF Typed, Types
    <3>4. nodeOf' = [nodeOf EXCEPT ![k] = k % NThreads]
      BY <2>3, <3>2, <3>3 DEF EnqueueIndex
    <3> QED
      BY <2>1, <3>2, <3>4 DEF Typed, Types
  <2>4. UNCHANGED nodeOf \/ \E c \in Callers : EnqueueIndex(c)
    BY DEF Next, Owner, Caller, Thread, vars, poolVars, nodeVars, threadVars,
           callVars, histVars, RunNode, RunReturns, EnqueueFill, EnqueuePush,
           Pop, Execute, Release, SignalStore, SignalBroadcast, Done, DoneSkip,
           DonePush, DoneWait, DoneJoin, DoneFree, DoneReturns, Over
  <2> QED
    BY <2>2, <2>3, <2>4
<1> QED
  BY <1>1, <1>2, TypedHolds, CountedHolds, PTL DEF Spec
===============================================================================
