---------------------------- MODULE TecSignalProofs ----------------------------
(***************************************************************************)
(* Proofs about TecSignal for any set of threads and any number of calls,  *)
(* about TecTime for every length of a second, and about the timed wait    *)
(* that joins them for any timeouts and bounds.                            *)
(***************************************************************************)
EXTENDS TecTimedWait, TLAPS

(* What a thread inside a call remembers: the kind of the call, and no     *)
(* success before it returns.                                              *)
CallState ==
    \A t \in Threads :
        /\ pc[t] \in SetPC => kind[t] = "set"
        /\ pc[t] \in WaitPC => kind[t] \in {"wait", "wait_for"} /\ res[t] # "ok"

(* A waiter leaves the loop with an error or because the value is set. *)
LeavesWhenSet ==
    \A t \in Threads : pc[t] = "wait_unlock" /\ res[t] # "err" => value = 1

-------------------------------------------------------------------------------

(* The types of all variables. *)
THEOREM Typing == Spec => []TypeOK
<1>1. Init => TypeOK
  <2> SUFFICES ASSUME Init PROVE TypeOK
    OBVIOUS
  <2>1. 0 \in 0 .. MaxCalls
    BY CallAssumption
  <2>2. lockFault \in BOOLEAN
    BY Zenon DEF Init
  <2> QED
    BY <2>1, <2>2 DEF Init, TypeOK
<1>2. TypeOK /\ [Next]_vars => TypeOK'
  <2> SUFFICES ASSUME TypeOK, [Next]_vars PROVE TypeOK'
    OBVIOUS
  <2> USE CallAssumption DEF TypeOK, SetPC, WaitPC, Goto, Result, Lock, Call
  <2>1. ASSUME NEW t \in Threads, SetStore(t) PROVE TypeOK'
    BY <2>1 DEF SetStore
  <2>2. ASSUME NEW t \in Threads, SetLock(t) \/ SetLockFails(t) PROVE TypeOK'
    BY <2>2 DEF SetLock, SetLockFails
  <2>3. ASSUME NEW t \in Threads, SetBroadcast(t) PROVE TypeOK'
    BY <2>3 DEF SetBroadcast, Awake
  <2>4. ASSUME NEW t \in Threads, SetUnlock(t) PROVE TypeOK'
    BY <2>4 DEF SetUnlock
  <2>5. ASSUME NEW t \in Threads, WaitFast(t) PROVE TypeOK'
    BY <2>5 DEF WaitFast
  <2>6. ASSUME NEW t \in Threads, WaitSlow(t) PROVE TypeOK'
    BY <2>6 DEF WaitSlow
  <2>7. ASSUME NEW t \in Threads, WaitNoClock(t) PROVE TypeOK'
    BY <2>7 DEF WaitNoClock
  <2>8. ASSUME NEW t \in Threads, WaitLock(t) \/ WaitLockFails(t) PROVE TypeOK'
    BY <2>8 DEF WaitLock, WaitLockFails
  <2>9. ASSUME NEW t \in Threads, WaitTest(t) \/ WaitSleep(t) PROVE TypeOK'
    BY <2>9 DEF WaitTest, WaitSleep
  <2>10. ASSUME NEW t \in Threads,
                WaitSleepFails(t) \/ SpuriousWake(t) \/ Timeout(t)
         PROVE  TypeOK'
    BY <2>10 DEF WaitSleepFails, SpuriousWake, Timeout
  <2>11. ASSUME NEW t \in Threads, WaitRelock(t) \/ WaitUnlock(t) PROVE TypeOK'
    BY <2>11 DEF WaitRelock, WaitUnlock
  <2>12. CASE UNCHANGED vars
    BY <2>12 DEF vars
  <2> QED
    BY <2>1, <2>2, <2>3, <2>4, <2>5, <2>6, <2>7, <2>8, <2>9, <2>10, <2>11,
       <2>12 DEF Next, Run, Chance
<1> QED
  BY <1>1, <1>2, PTL DEF Spec

(* The mutex is owned exactly by the thread between a lock and its unlock, *)
(* unless a lock has failed: every path of the three functions, errors and *)
(* timeouts included, releases it once.                                    *)
THEOREM Discipline == Spec => []MutexDiscipline
<1>1. Init => MutexDiscipline
  <2> SUFFICES ASSUME Init, NEW t \in Threads
               PROVE  /\ mtx # t /\ pc[t] \notin LockedPC
                      /\ pc[t] # "set_unlocked_broadcast"
    BY DEF MutexDiscipline
  <2> QED
    BY ThreadAssumption DEF Init, LockedPC
<1>2. TypeOK /\ MutexDiscipline /\ [Next]_vars => MutexDiscipline'
  <2> SUFFICES ASSUME TypeOK, MutexDiscipline, [Next]_vars
               PROVE  MutexDiscipline'
    OBVIOUS
  <2> USE ThreadAssumption
      DEF TypeOK, MutexDiscipline, LockedPC, SetPC, WaitPC, Goto, Lock, Call
  <2>1. ASSUME NEW t \in Threads, SetStore(t) PROVE MutexDiscipline'
    BY <2>1 DEF SetStore
  <2>2. ASSUME NEW t \in Threads, SetLock(t) PROVE MutexDiscipline'
    BY <2>2 DEF SetLock
  <2>3. ASSUME NEW t \in Threads, SetBroadcast(t) PROVE MutexDiscipline'
    <3>1. SUFFICES ASSUME ~lockFault, NEW u \in Threads
                   PROVE  /\ mtx = u <=> pc'[u] \in LockedPC
                          /\ pc'[u] # "set_unlocked_broadcast"
      BY <2>3 DEF SetBroadcast
    <3>2. CASE u = t
      BY <2>3, <3>1, <3>2 DEF SetBroadcast
    <3>3. CASE u # t
      BY <2>3, <3>1, <3>3 DEF SetBroadcast, Awake
    <3> QED
      BY <3>2, <3>3
  <2>4. ASSUME NEW t \in Threads, SetUnlock(t) PROVE MutexDiscipline'
    BY <2>4 DEF SetUnlock
  <2>5. ASSUME NEW t \in Threads, WaitFast(t) \/ WaitNoClock(t)
        PROVE  MutexDiscipline'
    BY <2>5 DEF WaitFast, WaitNoClock
  <2>6. ASSUME NEW t \in Threads, WaitSlow(t) PROVE MutexDiscipline'
    BY <2>6 DEF WaitSlow
  <2>7. ASSUME NEW t \in Threads, SetLockFails(t) \/ WaitLockFails(t)
        PROVE  MutexDiscipline'
    BY <2>7 DEF SetLockFails, WaitLockFails
  <2>8. ASSUME NEW t \in Threads, WaitLock(t) PROVE MutexDiscipline'
    BY <2>8 DEF WaitLock
  <2>9. ASSUME NEW t \in Threads, WaitTest(t) PROVE MutexDiscipline'
    BY <2>9 DEF WaitTest
  <2>10. ASSUME NEW t \in Threads, WaitSleep(t) PROVE MutexDiscipline'
    BY <2>10 DEF WaitSleep
  <2>11. ASSUME NEW t \in Threads,
                WaitSleepFails(t) \/ SpuriousWake(t) \/ Timeout(t)
         PROVE  MutexDiscipline'
    BY <2>11 DEF WaitSleepFails, SpuriousWake, Timeout
  <2>12. ASSUME NEW t \in Threads, WaitRelock(t) PROVE MutexDiscipline'
    BY <2>12 DEF WaitRelock
  <2>13. ASSUME NEW t \in Threads, WaitUnlock(t) PROVE MutexDiscipline'
    BY <2>13 DEF WaitUnlock
  <2>14. CASE UNCHANGED vars
    BY <2>14 DEF vars
  <2> QED
    BY <2>1, <2>2, <2>3, <2>4, <2>5, <2>6, <2>7, <2>8, <2>9, <2>10, <2>11,
       <2>12, <2>13, <2>14 DEF Next, Run, Chance
<1> QED
  BY <1>1, <1>2, Typing, PTL DEF Spec

-------------------------------------------------------------------------------

(* No waiter is forgotten although the value is stored outside the mutex.  *)
(* The mutex discipline is what makes it so: a setter that holds the mutex *)
(* to broadcast finds nobody between the test and the sleep.               *)
THEOREM NoWakeupIsLost == Spec => []NoLostWakeup
<1>1. Init => NoLostWakeup
  BY DEF Init, NoLostWakeup
<1>2. /\ TypeOK /\ MutexDiscipline /\ MutexDiscipline' /\ NoLostWakeup
      /\ [Next]_vars
      => NoLostWakeup'
  <2> SUFFICES ASSUME TypeOK, MutexDiscipline, MutexDiscipline', NoLostWakeup,
                      [Next]_vars, ~lockFault', value' = 1,
                      NEW t \in Threads, pc'[t] \in {"wait_sleep", "asleep"}
               PROVE  WakerComing(t)'
    BY DEF NoLostWakeup
  <2> USE ThreadAssumption
      DEF TypeOK, MutexDiscipline, LockedPC, SetPC, WaitPC, Goto, Lock, Call
  <2>1. ASSUME NEW u \in Threads, SetStore(u)
        PROVE  WakerComing(t)'
    BY <2>1 DEF SetStore, WakerComing
  <2>2. ASSUME NEW u \in Threads, SetLock(u)
        PROVE  WakerComing(t)'
    <3>1. pc'[u] = "set_broadcast" /\ mtx' = u /\ u # t
      BY <2>2 DEF SetLock
    <3> QED
      BY <3>1 DEF WakerComing
  <2>3. ASSUME NEW u \in Threads, SetBroadcast(u)
        PROVE  FALSE
    <3>1. pc[u] = "set_broadcast"
      BY <2>3 DEF SetBroadcast
    <3>2. pc'[t] = "wait_sleep" /\ pc[t] = "wait_sleep" /\ u # t
      BY <2>3 DEF SetBroadcast, Awake
    <3> QED
      BY <2>3, <3>1, <3>2 DEF SetBroadcast
  <2>4. ASSUME value = 1, ~lockFault,
               \A s \in Threads : pc[s] \in {"set_lock", "set_broadcast"}
                                    => pc'[s] = pc[s],
               pc[t] \in {"wait_sleep", "asleep"},
               pc[t] = "asleep" => pc'[t] = "asleep"
        PROVE  WakerComing(t)'
    <3>1. WakerComing(t)
      BY <2>4 DEF NoLostWakeup
    <3> QED
      BY <2>4, <3>1 DEF WakerComing
  <2>5. ASSUME NEW u \in Threads, SetUnlock(u)
        PROVE  WakerComing(t)'
    BY <2>4, <2>5 DEF SetUnlock
  <2>6. ASSUME NEW u \in Threads, WaitFast(u) \/ WaitSlow(u) \/ WaitNoClock(u)
        PROVE  WakerComing(t)'
    BY <2>4, <2>6 DEF WaitFast, WaitSlow, WaitNoClock
  <2>7. ASSUME NEW u \in Threads, SetLockFails(u) \/ WaitLockFails(u)
        PROVE  FALSE
    BY <2>7 DEF SetLockFails, WaitLockFails
  <2>8. ASSUME NEW u \in Threads, WaitLock(u) \/ WaitRelock(u) \/ WaitUnlock(u)
        PROVE  WakerComing(t)'
    BY <2>4, <2>8 DEF WaitLock, WaitRelock, WaitUnlock
  <2>9. ASSUME NEW u \in Threads, WaitTest(u)
        PROVE  WakerComing(t)'
    BY <2>4, <2>9 DEF WaitTest
  <2>10. ASSUME NEW u \in Threads, WaitSleep(u)
         PROVE  WakerComing(t)'
    BY <2>4, <2>10 DEF WaitSleep
  <2>11. ASSUME NEW u \in Threads,
                WaitSleepFails(u) \/ SpuriousWake(u) \/ Timeout(u)
         PROVE  WakerComing(t)'
    BY <2>4, <2>11 DEF WaitSleepFails, SpuriousWake, Timeout
  <2>12. CASE UNCHANGED vars
    BY <2>4, <2>12 DEF vars
  <2> QED
    BY <2>1, <2>2, <2>3, <2>5, <2>6, <2>7, <2>8, <2>9, <2>10, <2>11, <2>12
       DEF Next, Run, Chance
<1> QED
  BY <1>1, <1>2, Typing, Discipline, PTL DEF Spec

-------------------------------------------------------------------------------

(* The two invariants a result rests on. *)
LEMMA Results == Spec => [](CallState /\ LeavesWhenSet)
<1> USE DEF CallState, LeavesWhenSet, SetPC, WaitPC
<1>1. Init => CallState /\ LeavesWhenSet
  BY DEF Init
<1>2. TypeOK /\ CallState /\ LeavesWhenSet /\ [Next]_vars
         => CallState' /\ LeavesWhenSet'
  <2> SUFFICES ASSUME TypeOK, CallState, LeavesWhenSet, [Next]_vars
               PROVE  CallState' /\ LeavesWhenSet'
    OBVIOUS
  <2> USE DEF TypeOK, Goto, Result, Call
  <2>1. ASSUME NEW t \in Threads, SetStore(t)
        PROVE  CallState' /\ LeavesWhenSet'
    BY <2>1 DEF SetStore
  <2>2. ASSUME NEW t \in Threads, SetLock(t) \/ SetLockFails(t) \/ SetUnlock(t)
        PROVE  CallState' /\ LeavesWhenSet'
    BY <2>2 DEF SetLock, SetLockFails, SetUnlock
  <2>3. ASSUME NEW t \in Threads, SetBroadcast(t)
        PROVE  CallState' /\ LeavesWhenSet'
    <3>1. ASSUME NEW u \in Threads
          PROVE  /\ pc'[u] \in SetPC => pc[u] \in SetPC
                 /\ pc'[u] \in WaitPC => pc[u] \in WaitPC /\ u # t
                 /\ pc'[u] = "wait_unlock" => pc[u] = "wait_unlock"
      BY <2>3 DEF SetBroadcast, Awake
    <3>2. /\ UNCHANGED <<value, kind>>
          /\ \A u \in Threads : u # t => res'[u] = res[u]
      BY <2>3 DEF SetBroadcast
    <3> QED
      BY <3>1, <3>2
  <2>4. ASSUME NEW t \in Threads, WaitFast(t) \/ WaitSlow(t) \/ WaitNoClock(t)
        PROVE  CallState' /\ LeavesWhenSet'
    BY <2>4 DEF WaitFast, WaitSlow, WaitNoClock
  <2>5. ASSUME NEW t \in Threads, WaitLock(t) \/ WaitLockFails(t)
        PROVE  CallState' /\ LeavesWhenSet'
    BY <2>5 DEF WaitLock, WaitLockFails
  <2>6. ASSUME NEW t \in Threads, WaitTest(t) \/ WaitSleep(t)
        PROVE  CallState' /\ LeavesWhenSet'
    BY <2>6 DEF WaitTest, WaitSleep
  <2>7. ASSUME NEW t \in Threads,
               WaitSleepFails(t) \/ SpuriousWake(t) \/ Timeout(t)
        PROVE  CallState' /\ LeavesWhenSet'
    BY <2>7 DEF WaitSleepFails, SpuriousWake, Timeout
  <2>8. ASSUME NEW t \in Threads, WaitRelock(t) \/ WaitUnlock(t)
        PROVE  CallState' /\ LeavesWhenSet'
    BY <2>8 DEF WaitRelock, WaitUnlock
  <2>9. CASE UNCHANGED vars
    BY <2>9 DEF vars
  <2> QED
    BY <2>1, <2>2, <2>3, <2>4, <2>5, <2>6, <2>7, <2>8, <2>9
       DEF Next, Run, Chance
<1> QED
  BY <1>1, <1>2, Typing, PTL DEF Spec

(* The signal implements the one-shot latch: a wait that returns 0 returns *)
(* after a set, on the fast path as after any number of wake-ups.          *)
THEOREM Refinement == Spec => IsLatch
<1>1. Init => L!Init
  BY DEF Init, L!Init, WaitPC
<1>2. TypeOK /\ CallState /\ LeavesWhenSet /\ [Next]_vars => [L!Next]_L!vars
  <2> SUFFICES ASSUME TypeOK, CallState, LeavesWhenSet, [Next]_vars
               PROVE  L!Next \/ UNCHANGED L!vars
    OBVIOUS
  <2> USE DEF TypeOK, CallState, SetPC, WaitPC, Goto, Result, Call
  <2>1. ASSUME NEW t \in Threads, SetStore(t) PROVE L!Set(t)
    BY <2>1 DEF SetStore, L!Set
  <2>2. ASSUME NEW t \in Threads, SetLock(t) \/ SetLockFails(t) \/ SetUnlock(t)
        PROVE  UNCHANGED L!vars
    BY <2>2 DEF SetLock, SetLockFails, SetUnlock, L!vars
  <2>3. ASSUME NEW t \in Threads, SetBroadcast(t) PROVE UNCHANGED L!vars
    BY <2>3 DEF SetBroadcast, Awake, L!vars
  <2>4. ASSUME NEW t \in Threads, WaitFast(t) PROVE L!Pass(t)
    BY <2>4 DEF WaitFast, L!Pass
  <2>5. ASSUME NEW t \in Threads, WaitSlow(t) PROVE L!Enter(t)
    BY <2>5 DEF WaitSlow, L!Enter
  <2>6. ASSUME NEW t \in Threads, WaitNoClock(t) \/ WaitLockFails(t)
        PROVE  L!Fail(t)
    BY <2>6 DEF WaitNoClock, WaitLockFails, L!Fail
  <2>7. ASSUME NEW t \in Threads, WaitLock(t) \/ WaitTest(t) \/ WaitSleep(t)
        PROVE  UNCHANGED L!vars
    BY <2>7 DEF WaitLock, WaitTest, WaitSleep, L!vars
  <2>8. ASSUME NEW t \in Threads,
               WaitSleepFails(t) \/ SpuriousWake(t) \/ Timeout(t)
        PROVE  UNCHANGED L!vars
    BY <2>8 DEF WaitSleepFails, SpuriousWake, Timeout, L!vars
  <2>9. ASSUME NEW t \in Threads, WaitRelock(t) PROVE UNCHANGED L!vars
    BY <2>9 DEF WaitRelock, L!vars
  <2>10. ASSUME NEW t \in Threads, WaitUnlock(t), res[t] = "err"
         PROVE  L!Fail(t)
    BY <2>10 DEF WaitUnlock, L!Fail
  <2>11. ASSUME NEW t \in Threads, WaitUnlock(t), res[t] # "err"
         PROVE  L!Pass(t)
    BY <2>11 DEF WaitUnlock, LeavesWhenSet, L!Pass
  <2>12. CASE UNCHANGED vars
    BY <2>12 DEF vars, L!vars
  <2> QED
    BY <2>1, <2>2, <2>3, <2>4, <2>5, <2>6, <2>7, <2>8, <2>9, <2>10, <2>11,
       <2>12 DEF Next, Run, Chance, L!Next
<1> QED
  BY <1>1, <1>2, Typing, Results, PTL DEF Spec, IsLatch, L!Spec

-------------------------------------------------------------------------------

(* The division of a time by a second leaves a part of a second. *)
LEMMA Division ==
    ASSUME NEW n \in Nat
    PROVE  /\ n \div NS \in Nat
           /\ n % NS \in 0 .. NS - 1
           /\ (n \div NS) * NS + (n % NS) = n
BY SecondAssumption

(* The quotient of a time point, negative or not, is a whole number.       *)
LEMMA QuotientIsInt ==
    ASSUME NEW n \in Int PROVE Quotient(n, NS) \in Int
<1>1. CASE n >= 0
  BY <1>1, SecondAssumption DEF Quotient
<1>2. CASE ~(n >= 0)
  <2>1. -n \in Nat
    BY <1>2
  <2>2. (-n) \div NS \in Nat
    BY <2>1, Division
  <2> QED
    BY <1>2, <2>2 DEF Quotient
<1> QED
  BY <1>1, <1>2

(* tec_ts_to_tp undoes tec_tp_to_ts on every time point, the negative ones *)
(* included, which the division rounds up.                                 *)
THEOREM RoundTrip ==
    ASSUME NEW n \in Int
    PROVE  /\ tp_to_ts(n) \in [sec : Int, nsec : Int]
           /\ ts_to_tp(tp_to_ts(n)) = n
<1>1. Quotient(n, NS) \in Int /\ NS \in Int
  BY QuotientIsInt, SecondAssumption
<1>2. PICK z \in Int : z = Quotient(n, NS) * NS
  BY <1>1
<1>3. /\ tp_to_ts(n).sec = Quotient(n, NS)
      /\ tp_to_ts(n).nsec = n - z
      /\ tp_to_ts(n) \in [sec : Int, nsec : Int]
  BY <1>1, <1>2 DEF tp_to_ts
<1>4. ts_to_tp(tp_to_ts(n)) = z + (n - z)
  BY <1>2, <1>3 DEF ts_to_tp
<1> QED
  BY <1>3, <1>4

(* The nanoseconds of a time point that is not negative are less than a    *)
(* second: the condition variable accepts the deadline.                    *)
THEOREM ConversionIsValid ==
    ASSUME NEW n \in Nat PROVE Valid(tp_to_ts(n))
<1>1. tp_to_ts(n).nsec = n - (n \div NS) * NS
  BY DEF tp_to_ts, Quotient
<1>2. PICK z \in Int : z = (n \div NS) * NS
  BY Division, SecondAssumption
<1>3. n - z = n % NS
  BY <1>2, Division, SecondAssumption
<1> QED
  BY <1>1, <1>2, <1>3, Division DEF Valid

(* tec_tp_now is the time the clock shows. *)
LEMMA ClockRead ==
    ASSUME NEW n \in Nat PROVE tp_now(n) = n
BY Division DEF tp_now, ts_to_tp, timespec_get

-------------------------------------------------------------------------------

(* The wait with a clock is a wait of the signal, so that the mutex        *)
(* discipline, the wakeups and the latch hold of it too.                   *)
THEOREM TimedImplements == TimedSpec => Spec
<1>1. TimedInit => Init
  BY DEF TimedInit
<1>2. [TimedNext]_timedVars => [Next]_vars
  <2> SUFFICES ASSUME [TimedNext]_timedVars PROVE [Next]_vars
    OBVIOUS
  <2>1. ASSUME NEW t \in Threads, TimedRun(t) PROVE Run(t) \/ Chance(t)
    BY <2>1 DEF TimedRun, Run, Chance, Sleeps, TimesOut
  <2>2. ASSUME NEW t \in Threads, TimedChance(t) PROVE Chance(t)
    BY <2>2 DEF TimedChance, Chance, NoClock, WaitBegins, WaitForBegins, Wakes
  <2>3. CASE Tick
    BY <2>3 DEF Tick
  <2>4. CASE UNCHANGED timedVars
    BY <2>4 DEF timedVars
  <2> QED
    BY <2>1, <2>2, <2>3, <2>4 DEF TimedNext, Next
<1> QED
  BY <1>1, <1>2, PTL DEF TimedSpec, Spec

(* With a clock too the mutex is released on every path, no waiter is      *)
(* forgotten, and the signal is a latch.                                   *)
COROLLARY TimedSafety == TimedSpec => []MutexDiscipline /\ []NoLostWakeup /\ IsLatch
BY TimedImplements, Discipline, NoWakeupIsLost, Refinement, PTL

(* Types of the clock and of the deadlines. *)
TimedTypeOK == /\ now \in Nat
               /\ ts \in [Threads -> [sec : Int, nsec : Int]]
               /\ due \in [Threads -> Nat]

(* The deadline of a thread in a timed wait is the time it was asked for,  *)
(* as a timespec the condition variable accepts, through every sleep; and  *)
(* a thread that may still sleep has no error.                             *)
Armed ==
    \A t \in Threads :
        /\ pc[t] \in WaitPC /\ kind[t] = "wait_for"
              => ts_to_tp(ts[t]) = due[t] /\ Valid(ts[t])
        /\ pc[t] \in {"wait_lock", "wait_test", "wait_sleep", "asleep"} => res[t] = "none"

(* Both hold of every reachable state. *)
LEMMA ArmedThroughout == TimedSpec => [](TypeOK /\ TimedTypeOK /\ Armed)
<1>1. TimedInit => TimedTypeOK /\ Armed
  <2> SUFFICES ASSUME TimedInit PROVE TimedTypeOK /\ Armed
    OBVIOUS
  <2>1. timespec_get(0) \in [sec : Int, nsec : Int]
    BY Division, 0 \in Nat, SecondAssumption DEF timespec_get
  <2> QED
    BY <2>1 DEF TimedInit, Init, TimedTypeOK, Armed, WaitPC
<1>2. TypeOK /\ CallState /\ TimedTypeOK /\ Armed /\ [TimedNext]_timedVars
         => TimedTypeOK' /\ Armed'
  <2> SUFFICES ASSUME TypeOK, CallState, TimedTypeOK, Armed, [TimedNext]_timedVars
               PROVE  TimedTypeOK' /\ Armed'
    OBVIOUS
  <2> USE DEF TypeOK, WaitPC, SetPC, Goto, Result, Call
  <2>1. ASSUME NEW t \in Threads, WaitForBegins(t), UNCHANGED now
        PROVE  TimedTypeOK' /\ Armed'
    <3>1. PICK d \in Timeouts : Arm(t, d) /\ due' = [due EXCEPT ![t] = now + d]
      BY <2>1 DEF WaitForBegins
    <3>2. now + d \in Nat /\ tp_now(now) + d = now + d
      BY ClockRead, ClockAssumption DEF TimedTypeOK
    <3>3. /\ tp_to_ts(now + d) \in [sec : Int, nsec : Int]
          /\ ts_to_tp(tp_to_ts(now + d)) = now + d
          /\ Valid(tp_to_ts(now + d))
      BY <3>2, RoundTrip, ConversionIsValid
    <3>4. ts' = [ts EXCEPT ![t] = tp_to_ts(now + d)]
      BY <3>1, <3>2 DEF Arm
    <3>5. TimedTypeOK'
      BY <2>1, <3>1, <3>2, <3>3, <3>4 DEF TimedTypeOK
    <3>6. Armed'
      <4> SUFFICES ASSUME NEW u \in Threads
                   PROVE  /\ pc'[u] \in WaitPC /\ kind'[u] = "wait_for"
                               => ts_to_tp(ts'[u]) = due'[u] /\ Valid(ts'[u])
                          /\ pc'[u] \in {"wait_lock", "wait_test", "wait_sleep", "asleep"}
                               => res'[u] = "none"
        BY DEF Armed, ts_to_tp, Valid
      <4>1. CASE u = t
        BY <2>1, <3>1, <3>3, <3>4, <4>1 DEF TimedTypeOK, WaitForBegins, WaitSlow
      <4>2. CASE u # t
        <5>1. /\ ts'[u] = ts[u] /\ due'[u] = due[u] /\ pc'[u] = pc[u]
              /\ kind'[u] = kind[u] /\ res'[u] = res[u]
          BY <2>1, <3>1, <3>4, <4>2 DEF TimedTypeOK, WaitForBegins, WaitSlow
        <5> QED
          BY <5>1 DEF Armed
      <4> QED
        BY <4>1, <4>2
    <3> QED
      BY <3>5, <3>6
  <2>2. ASSUME UNCHANGED <<ts, due>>, now' \in Nat,
               \A u \in Threads :
                  /\ pc'[u] \in WaitPC /\ kind'[u] = "wait_for"
                       => pc[u] \in WaitPC /\ kind[u] = "wait_for"
                  /\ pc'[u] \in {"wait_lock", "wait_test", "wait_sleep", "asleep"}
                       => res'[u] = "none"
        PROVE  TimedTypeOK' /\ Armed'
    BY <2>2 DEF TimedTypeOK, Armed, ts_to_tp, Valid
  <2>3. ASSUME NEW t \in Threads, WaitBegins(t), UNCHANGED now
        PROVE  TimedTypeOK' /\ Armed'
    BY <2>2, <2>3 DEF WaitBegins, WaitSlow, Armed, TimedTypeOK, timers
  <2>4. ASSUME NEW t \in Threads, UNCHANGED <<ts, due, now>>,
               \/ SetStore(t) \/ SetLock(t) \/ SetUnlock(t) \/ SetLockFails(t)
               \/ WaitFast(t) \/ WaitNoClock(t)
        PROVE  TimedTypeOK' /\ Armed'
    BY <2>2, <2>4 DEF SetStore, SetLock, SetUnlock, SetLockFails, WaitFast,
       WaitNoClock, Armed, TimedTypeOK
  <2>5. ASSUME NEW t \in Threads, UNCHANGED <<ts, due, now>>, SetBroadcast(t)
        PROVE  TimedTypeOK' /\ Armed'
    <3>1. ASSUME NEW u \in Threads
          PROVE  /\ pc'[u] \in WaitPC => pc[u] \in WaitPC
                 /\ pc'[u] \in {"wait_lock", "wait_test", "wait_sleep", "asleep"}
                      => pc'[u] = pc[u] /\ u # t
      BY <2>5 DEF SetBroadcast, Awake
    <3>2. kind' = kind /\ \A u \in Threads : u # t => res'[u] = res[u]
      BY <2>5 DEF SetBroadcast
    <3> QED
      BY <2>2, <2>5, <3>1, <3>2 DEF Armed, TimedTypeOK
  <2>6. ASSUME NEW t \in Threads, UNCHANGED <<ts, due, now>>,
               \/ WaitLock(t) \/ WaitTest(t) \/ WaitSleep(t) \/ WaitUnlock(t)
               \/ WaitLockFails(t) \/ WaitSleepFails(t)
               \/ SpuriousWake(t) \/ Timeout(t)
        PROVE  TimedTypeOK' /\ Armed'
    BY <2>2, <2>6 DEF WaitLock, WaitTest, WaitSleep, WaitUnlock,
       WaitLockFails, WaitSleepFails, SpuriousWake, Timeout, Armed, TimedTypeOK
  <2>7. ASSUME NEW t \in Threads, UNCHANGED <<ts, due, now>>, WaitRelock(t)
         PROVE  TimedTypeOK' /\ Armed'
    <3>1. res[t] # "err" => res[t] = "none"
      BY <2>7 DEF WaitRelock, CallState
    <3> QED
      BY <2>2, <2>7, <3>1 DEF WaitRelock, Armed, TimedTypeOK
  <2>8. CASE Tick
    BY <2>2, <2>8 DEF Tick, vars, timers, TimedTypeOK, Armed
  <2>9. CASE UNCHANGED timedVars
    BY <2>2, <2>9 DEF timedVars, vars, timers, TimedTypeOK, Armed
  <2>10. ASSUME NEW t \in Threads, TimedRun(t), UNCHANGED now
        PROVE  TimedTypeOK' /\ Armed'
    BY <2>4, <2>5, <2>6, <2>7, <2>10 DEF TimedRun, Sleeps, TimesOut, timers
  <2>11. ASSUME NEW t \in Threads, TimedChance(t), UNCHANGED now
         PROVE  TimedTypeOK' /\ Armed'
    BY <2>1, <2>3, <2>4, <2>6, <2>11 DEF TimedChance, NoClock, Wakes, timers
  <2> QED
    BY <2>8, <2>9, <2>10, <2>11 DEF TimedNext
<1> QED
  BY <1>1, <1>2, TimedImplements, Typing, Results, PTL DEF TimedSpec

(* The condition variable never refuses a deadline as invalid: a timed     *)
(* wait that does not find the value set goes to sleep.                    *)
THEOREM DeadlineAccepted ==
    TimedSpec => [](\A t \in Threads : pc[t] \in WaitPC /\ Timed(t) => Valid(ts[t]))
<1>1. Armed => \A t \in Threads : pc[t] \in WaitPC /\ Timed(t) => Valid(ts[t])
  BY DEF Armed, Timed
<1> QED
  BY <1>1, ArmedThroughout, PTL

(* A timed wait never times out before the time it was asked to wait has   *)
(* passed: whatever the timeout, across every second and every wakeup.     *)
THEOREM NeverEarly == TimedSpec => NoEarlyTimeout
<1>1. TypeOK /\ TimedTypeOK /\ Armed /\ [TimedNext]_timedVars
         => [\A t \in Threads : Timeout(t) => now >= due[t]]_timedVars
  <2> SUFFICES ASSUME TypeOK, TimedTypeOK, Armed, TimedNext,
                      NEW t \in Threads, Timeout(t)
               PROVE  now >= due[t]
    OBVIOUS
  <2> USE DEF TypeOK, Goto, Result, Call
  <2>1. /\ pc[t] = "asleep" /\ pc'[t] = "wait_relock" /\ kind[t] = "wait_for"
        /\ res[t] = "none" /\ res'[t] = "err" /\ ts_to_tp(ts[t]) = due[t]
    BY DEF Timeout, Armed, WaitPC
  <2>2. ASSUME NEW u \in Threads, u # t, TimedRun(u) \/ TimedChance(u)
        PROVE  FALSE
    <3>1. res'[t] = res[t]
      BY <2>2 DEF TimedRun, TimedChance, SetLock, SetBroadcast, SetUnlock,
         WaitLock, WaitTest, WaitRelock, WaitUnlock, Sleeps, WaitSleep, TimesOut,
         Timeout, SetStore, WaitFast, SetLockFails, WaitLockFails,
         WaitSleepFails, NoClock, WaitNoClock, WaitBegins, WaitForBegins,
         WaitSlow, Wakes, SpuriousWake
    <3> QED
      BY <2>1, <3>1
  <2>3. ASSUME TimedRun(t) PROVE now >= due[t]
    <3>1. TimesOut(t)
      BY <2>1, <2>3 DEF TimedRun, SetLock, SetBroadcast, SetUnlock,
         WaitLock, WaitTest, WaitRelock, WaitUnlock, Sleeps, WaitSleep
    <3> QED
      BY <2>1, <3>1 DEF TimesOut, Expired
  <2>4. ASSUME TimedChance(t) PROVE FALSE
    BY <2>1, <2>4 DEF TimedChance, SetStore, WaitFast, SetLockFails,
       WaitLockFails, WaitSleepFails, NoClock, WaitNoClock, WaitBegins,
       WaitForBegins, WaitSlow, Wakes, SpuriousWake
  <2>5. ~Tick
    BY <2>1 DEF Tick, vars
  <2> QED
    BY <2>2, <2>3, <2>4, <2>5 DEF TimedNext
<1> QED
  BY <1>1, ArmedThroughout, PTL DEF TimedSpec, NoEarlyTimeout
===============================================================================
