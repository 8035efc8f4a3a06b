------------------------------- MODULE TecSignal -------------------------------
(***************************************************************************)
(* tecc_signal.c: a one-shot signal made of an atomic value, a mutex and a *)
(* condition variable.  Any thread may set it and any may wait, with or    *)
(* without a timeout.  The value is stored before the mutex is taken and   *)
(* read without it, so every access to it is a step of its own; between    *)
(* two accesses the other threads may run.                                 *)
(*                                                                         *)
(* The condition variable is its set of sleepers: a wait releases the      *)
(* mutex and falls asleep in one step, a sleeper may wake for no reason,   *)
(* and one that wakes must take the mutex again before it returns.         *)
(***************************************************************************)
EXTENDS Naturals

CONSTANTS Threads,
          NONE,      \* nobody owns the mutex
          MaxCalls   \* calls each thread makes

ASSUME ThreadAssumption == NONE \notin Threads

ASSUME CallAssumption == MaxCalls \in Nat

VARIABLES
    value,      \* the atomic value, 0 or 1
    mtx,        \* owner of the mutex
    pc,         \* where each thread is
    kind,       \* the call it is in, or its last one
    res,        \* result of that call
    calls,      \* calls it has made
    lockFault   \* some mutex lock has failed

vars == <<value, mtx, pc, kind, res, calls, lockFault>>

SetPC == {"set_lock", "set_broadcast", "set_unlock", "set_unlocked_broadcast"}

WaitPC == {"wait_lock", "wait_test", "wait_sleep", "asleep", "wait_relock",
           "wait_unlock"}

(* Where a thread owns the mutex. *)
LockedPC == {"set_broadcast", "set_unlock", "wait_test", "wait_sleep",
             "wait_unlock"}

-------------------------------------------------------------------------------

Init == /\ value = 0
        /\ mtx = NONE
        /\ pc = [t \in Threads |-> "idle"]
        /\ kind = [t \in Threads |-> "none"]
        /\ res = [t \in Threads |-> "none"]
        /\ calls = [t \in Threads |-> 0]
        /\ lockFault = FALSE

Goto(t, l) == pc' = [pc EXCEPT ![t] = l]

Result(t, r) == res' = [res EXCEPT ![t] = r]

Lock(t) == mtx = NONE /\ mtx' = t

Call(t, k) == /\ pc[t] = "idle"
              /\ calls[t] < MaxCalls
              /\ calls' = [calls EXCEPT ![t] = @ + 1]
              /\ kind' = [kind EXCEPT ![t] = k]

(* Faulty variants of four steps: one waiter woken instead of all, a sleep *)
(* without a test under the mutex, a return without unlocking, a woken     *)
(* waiter that does not test again.  The properties tell each from the     *)
(* code.                                                                   *)
SetBroadcast_WakeOne(t) ==
    /\ pc[t] \in {"set_broadcast", "set_unlocked_broadcast"}
    /\ LET next == IF pc[t] = "set_broadcast" THEN "set_unlock" ELSE "idle"
           asleep == {u \in Threads : pc[u] = "asleep"}
       IN  IF asleep = {} THEN Goto(t, next)
           ELSE \E u \in asleep :
                   pc' = [pc EXCEPT ![t] = next, ![u] = "wait_relock"]
    /\ Result(t, "ok")
    /\ UNCHANGED <<value, mtx, kind, calls, lockFault>>

WaitLock_NoTest(t) ==
    /\ pc[t] = "wait_lock"
    /\ Lock(t)
    /\ Goto(t, "wait_sleep")
    /\ UNCHANGED <<value, kind, res, calls, lockFault>>

WaitSleepFails_NoUnlock(t) ==
    /\ pc[t] = "wait_sleep"
    /\ Goto(t, "idle")
    /\ Result(t, "err")
    /\ UNCHANGED <<value, mtx, kind, calls, lockFault>>

WaitRelock_NoTest(t) ==
    /\ pc[t] = "wait_relock"
    /\ Lock(t)
    /\ Goto(t, "wait_unlock")
    /\ UNCHANGED <<value, kind, res, calls, lockFault>>

(* TecSignal_set: store, lock, broadcast, unlock. *)
SetStore(t) ==
    /\ Call(t, "set")
    /\ value' = 1
    /\ Goto(t, "set_lock")
    /\ Result(t, "none")
    /\ UNCHANGED <<mtx, lockFault>>

SetLock(t) ==
    /\ pc[t] = "set_lock"
    /\ Lock(t)
    /\ Goto(t, "set_broadcast")
    /\ UNCHANGED <<value, kind, res, calls, lockFault>>

(* The lock failed: broadcast without it. *)
SetLockFails(t) ==
    /\ pc[t] = "set_lock"
    /\ Goto(t, "set_unlocked_broadcast")
    /\ lockFault' = TRUE
    /\ UNCHANGED <<value, mtx, kind, res, calls>>

Awake(p) == IF p = "asleep" THEN "wait_relock" ELSE p

SetBroadcast(t) ==
    /\ pc[t] \in {"set_broadcast", "set_unlocked_broadcast"}
    /\ pc' = [u \in Threads |->
                 IF u # t THEN Awake(pc[u])
                 ELSE IF pc[t] = "set_broadcast" THEN "set_unlock" ELSE "idle"]
    /\ Result(t, "ok")
    /\ UNCHANGED <<value, mtx, kind, calls, lockFault>>

SetUnlock(t) ==
    /\ pc[t] = "set_unlock"
    /\ mtx' = NONE
    /\ Goto(t, "idle")
    /\ UNCHANGED <<value, kind, res, calls, lockFault>>

-------------------------------------------------------------------------------

(* TecSignal_wait and TecSignal_wait_for begin with a look at the value    *)
(* outside the mutex. *)
WaitFast(t) ==
    /\ \E k \in {"wait", "wait_for"} : Call(t, k)
    /\ value = 1
    /\ Result(t, "ok")
    /\ UNCHANGED <<value, mtx, pc, lockFault>>

WaitSlow(t) ==
    /\ \E k \in {"wait", "wait_for"} : Call(t, k)
    /\ value # 1
    /\ Goto(t, "wait_lock")
    /\ Result(t, "none")
    /\ UNCHANGED <<value, mtx, lockFault>>

(* tec_tp_now fails: EINVAL. *)
WaitNoClock(t) ==
    /\ Call(t, "wait_for")
    /\ value # 1
    /\ Result(t, "err")
    /\ UNCHANGED <<value, mtx, pc, lockFault>>

WaitLock(t) ==
    /\ pc[t] = "wait_lock"
    /\ Lock(t)
    /\ Goto(t, "wait_test")
    /\ UNCHANGED <<value, kind, res, calls, lockFault>>

(* The lock failed.  The timed wait unlocks the mutex all the same; an     *)
(* error-checking mutex refuses, a plain one is released whoever owns it.  *)
WaitLockFails(t) ==
    /\ pc[t] = "wait_lock"
    /\ mtx' \in IF kind[t] = "wait_for" THEN {mtx, NONE} ELSE {mtx}
    /\ Goto(t, "idle")
    /\ Result(t, "err")
    /\ lockFault' = TRUE
    /\ UNCHANGED <<value, kind, calls>>

WaitTest(t) ==
    /\ pc[t] = "wait_test"
    /\ Goto(t, IF value # 1 THEN "wait_sleep" ELSE "wait_unlock")
    /\ UNCHANGED <<value, mtx, kind, res, calls, lockFault>>

WaitSleep(t) ==
    /\ pc[t] = "wait_sleep"
    /\ mtx' = NONE
    /\ Goto(t, "asleep")
    /\ UNCHANGED <<value, kind, res, calls, lockFault>>

(* The condition variable refuses: an error without sleeping. *)
WaitSleepFails(t) ==
    /\ pc[t] = "wait_sleep"
    /\ Goto(t, "wait_unlock")
    /\ Result(t, "err")
    /\ UNCHANGED <<value, mtx, kind, calls, lockFault>>

SpuriousWake(t) ==
    /\ pc[t] = "asleep"
    /\ Goto(t, "wait_relock")
    /\ UNCHANGED <<value, mtx, kind, res, calls, lockFault>>

Timeout(t) ==
    /\ pc[t] = "asleep"
    /\ kind[t] = "wait_for"
    /\ Goto(t, "wait_relock")
    /\ Result(t, "err")
    /\ UNCHANGED <<value, mtx, kind, calls, lockFault>>

(* A sleeper returns from the condition variable with the mutex: to test   *)
(* again, or to leave the loop with its error.                             *)
WaitRelock(t) ==
    /\ pc[t] = "wait_relock"
    /\ Lock(t)
    /\ Goto(t, IF res[t] = "err" THEN "wait_unlock" ELSE "wait_test")
    /\ UNCHANGED <<value, kind, res, calls, lockFault>>

WaitUnlock(t) ==
    /\ pc[t] = "wait_unlock"
    /\ mtx' = NONE
    /\ Goto(t, "idle")
    /\ Result(t, IF res[t] = "err" THEN "err" ELSE "ok")
    /\ UNCHANGED <<value, kind, calls, lockFault>>

-------------------------------------------------------------------------------

(* What a thread inside a call does as long as it is scheduled. *)
Run(t) == \/ SetLock(t) \/ SetBroadcast(t) \/ SetUnlock(t)
          \/ WaitLock(t) \/ WaitTest(t) \/ WaitSleep(t)
          \/ WaitRelock(t) \/ WaitUnlock(t)

(* What may happen to it and need not. *)
Chance(t) == \/ SetStore(t) \/ WaitFast(t) \/ WaitSlow(t) \/ WaitNoClock(t)
             \/ SetLockFails(t) \/ WaitLockFails(t) \/ WaitSleepFails(t)
             \/ SpuriousWake(t) \/ Timeout(t)

Next == \E t \in Threads : Run(t) \/ Chance(t)

Spec == Init /\ [][Next]_vars

(* The scheduler runs every thread that can run. *)
FairSpec == Spec /\ \A t \in Threads : WF_vars(Run(t))

-------------------------------------------------------------------------------

(* Types. *)
TypeOK ==
    /\ value \in {0, 1}
    /\ mtx \in Threads \cup {NONE}
    /\ pc \in [Threads -> {"idle"} \cup SetPC \cup WaitPC]
    /\ kind \in [Threads -> {"none", "set", "wait", "wait_for"}]
    /\ res \in [Threads -> {"none", "ok", "err"}]
    /\ calls \in [Threads -> 0 .. MaxCalls]
    /\ lockFault \in BOOLEAN

(* Every path through set, wait and wait_for releases the mutex it took,   *)
(* and a thread that returns from the condition variable owns it: unless   *)
(* a lock has failed, the owner is exactly the thread between a lock and   *)
(* the matching unlock, and nobody broadcasts without it.                  *)
MutexDiscipline ==
    ~lockFault => \A t \in Threads : /\ mtx = t <=> pc[t] \in LockedPC
                                     /\ pc[t] # "set_unlocked_broadcast"

(* A setter that has yet to broadcast, and will find t asleep. *)
WakerComing(t) ==
    \E s \in Threads : \/ pc[s] = "set_lock"
                       \/ pc[s] = "set_broadcast" /\ pc[t] = "asleep"

(* TecSignal_set stores the value before it takes the mutex.  A waiter     *)
(* that has tested the value, or sleeps already, when the value is set is  *)
(* not forgotten: some setter still has its broadcast to make, and cannot  *)
(* make it until the waiter sleeps.                                        *)
NoLostWakeup ==
    (~lockFault /\ value = 1) =>
        \A t \in Threads :
            pc[t] \in {"wait_sleep", "asleep"} => WakerComing(t)

(* "Sets the atomic value to 1 and notifies all waiters" (tecc_signal.h:   *)
(* 54): once the value is set, every call in progress returns, waits and   *)
(* sets alike, unless a lock has failed.                                   *)
WaitersReleased ==
    \A t \in Threads :
        (value = 1 /\ pc[t] # "idle") ~> (pc[t] = "idle" \/ lockFault)

L == INSTANCE Latch
        WITH on <- value = 1,
             waiting <- {t \in Threads : pc[t] \in WaitPC},
             passed <- {t \in Threads : /\ kind[t] \in {"wait", "wait_for"}
                                        /\ res[t] = "ok"}

(* The signal is a latch: a wait returns 0 only if the signal was set.     *)
IsLatch == L!Spec
===============================================================================
