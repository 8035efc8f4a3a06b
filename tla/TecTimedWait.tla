------------------------------ MODULE TecTimedWait ------------------------------
(***************************************************************************)
(* TecSignal_wait_for with its clock: TecSignal, in which a timed wait may *)
(* end at any time, joined with TecTime.  The deadline is computed once,   *)
(* from the clock and the timeout, converted to a timespec, and given to   *)
(* the condition variable whenever the thread goes to sleep, also after a  *)
(* wakeup for no reason.                                                   *)
(***************************************************************************)
EXTENDS TecSignal, TecTime

CONSTANTS Timeouts,   \* what callers ask for, in nanoseconds
          MaxClock,   \* bound on the clock
          MaxWakes    \* bound on the wakeups for no reason

ASSUME ClockAssumption == Timeouts \subseteq Nat /\ {MaxClock, MaxWakes} \subseteq Nat

VARIABLES now,   \* the clock, in nanoseconds
          ts,    \* the deadline of a thread's timed wait, as a timespec
          due,   \* history: the earliest time at which it may time out
          wakes  \* wakeups for no reason so far

timers == <<ts, due, wakes>>

timedVars == <<vars, now, timers>>

TimedInit == /\ Init
             /\ now = 1
             /\ wakes = 0
             /\ ts = [t \in Threads |-> timespec_get(0)]
             /\ due = [t \in Threads |-> 0]

Tick == now < MaxClock /\ now' = now + 1 /\ UNCHANGED <<vars, timers>>

(* tec_tp_now has failed, or the clock shows zero. *)
NoClock(t) == WaitNoClock(t) /\ UNCHANGED timers

WaitBegins(t) == WaitSlow(t) /\ kind'[t] = "wait" /\ UNCHANGED timers

Arm(t, d) == ts' = [ts EXCEPT ![t] = tp_to_ts(tp_now(now) + d)]

WaitForBegins(t) == /\ WaitSlow(t)
                    /\ kind'[t] = "wait_for"
                    /\ tp_now(now) # 0
                    /\ \E d \in Timeouts : Arm(t, d) /\ due' = [due EXCEPT ![t] = now + d]
                    /\ UNCHANGED wakes

Timed(t) == kind[t] = "wait_for"

Expired(t) == Timed(t) /\ now >= ts_to_tp(ts[t])

(* Faulty: every sleep gets the timeout anew. *)
Sleeps_Rearmed(t) ==
    /\ WaitSleep(t)
    /\ Timed(t) => Valid(ts[t])
    /\ \E d \in Timeouts : Arm(t, d)
    /\ UNCHANGED <<due, wakes>>

Sleeps(t) == WaitSleep(t) /\ (Timed(t) => Valid(ts[t])) /\ UNCHANGED timers

(* A wakeup after the deadline is a timeout. *)
Wakes(t) == /\ SpuriousWake(t)
            /\ ~Expired(t)
            /\ wakes < MaxWakes
            /\ wakes' = wakes + 1
            /\ UNCHANGED <<ts, due>>

TimesOut(t) == Timeout(t) /\ Expired(t) /\ UNCHANGED timers

TimedRun(t) == \/ /\ \/ SetLock(t) \/ SetBroadcast(t) \/ SetUnlock(t)
                     \/ WaitLock(t) \/ WaitTest(t) \/ WaitRelock(t) \/ WaitUnlock(t)
                  /\ UNCHANGED timers
               \/ Sleeps(t) \/ TimesOut(t)

TimedChance(t) == \/ /\ \/ SetStore(t) \/ WaitFast(t) \/ SetLockFails(t)
                        \/ WaitLockFails(t) \/ WaitSleepFails(t)
                     /\ UNCHANGED timers
                  \/ NoClock(t) \/ WaitBegins(t) \/ WaitForBegins(t) \/ Wakes(t)

TimedNext == \/ Tick
             \/ \E t \in Threads : (TimedRun(t) \/ TimedChance(t)) /\ UNCHANGED now

TimedSpec == TimedInit /\ [][TimedNext]_timedVars

(* As in TecSignal, with a clock that goes on. *)
TimedFairSpec ==
    /\ TimedSpec
    /\ WF_timedVars(Tick)
    /\ \A t \in Threads : WF_timedVars(TimedRun(t) /\ UNCHANGED now)

-------------------------------------------------------------------------------

(* "Waits until the signal is set to 1 or the timeout (in nanoseconds) has *)
(* elapsed" (tecc_signal.h:60): a timed wait that times out has waited as  *)
(* long as it was asked to, over all wakeups in between and across the     *)
(* seconds of its deadline.                                                *)
NoEarlyTimeout ==
    [][\A t \in Threads : Timeout(t) => now >= due[t]]_timedVars

(* A timed wait ends although nobody sets the signal and it is woken for  *)
(* no reason, unless a lock has failed or the deadline lies behind the     *)
(* bound on the clock.                                                     *)
TimedWaitEnds ==
    \A t \in Threads :
        pc[t] \in WaitPC /\ Timed(t) ~> pc[t] = "idle" \/ lockFault \/ due[t] > MaxClock
===============================================================================
