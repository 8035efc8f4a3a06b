-------------------------------- MODULE Latch --------------------------------
(***************************************************************************)
(* What a one-shot signal promises (tecc_signal.h:48-60), with no mutex    *)
(* and no condition variable: once set it stays set, and a wait succeeds   *)
(* only when it is set.  A wait may also fail: an untimed one on an error  *)
(* of the system, a timed one on its timeout as well.                      *)
(***************************************************************************)
CONSTANT Threads

VARIABLES on,       \* the signal is set
          waiting,  \* threads inside a wait
          passed    \* threads whose last call was a wait that succeeded

vars == <<on, waiting, passed>>

Init == on = FALSE /\ waiting = {} /\ passed = {}

Set(t) == /\ t \notin waiting
          /\ on' = TRUE
          /\ passed' = passed \ {t}
          /\ UNCHANGED waiting

Enter(t) == /\ t \notin waiting
            /\ waiting' = waiting \cup {t}
            /\ passed' = passed \ {t}
            /\ UNCHANGED on

(* Success: at once or after waiting. *)
Pass(t) == /\ on
           /\ waiting' = waiting \ {t}
           /\ passed' = passed \cup {t}
           /\ UNCHANGED on

Fail(t) == /\ waiting' = waiting \ {t}
           /\ passed' = passed \ {t}
           /\ UNCHANGED on

Next == \E t \in Threads : Set(t) \/ Enter(t) \/ Pass(t) \/ Fail(t)

Spec == Init /\ [][Next]_vars
==============================================================================
