-------------------------------- MODULE TecTime --------------------------------
(***************************************************************************)
(* tecc_time.c: a TecTimePoint is a signed number of nanoseconds, a        *)
(* timespec a number of seconds and one of nanoseconds.  A second has NS   *)
(* nanoseconds, so that small numbers meet the same carries and borrows.   *)
(***************************************************************************)
EXTENDS Integers

CONSTANT NS

ASSUME SecondAssumption == NS \in Nat \ {0}

(* The division of C, which rounds towards zero. *)
Quotient(a, b) == IF a >= 0 THEN a \div b ELSE -((-a) \div b)

(* Faulty: the nanoseconds are left out. *)
tp_to_ts_Seconds(tp) == [sec |-> Quotient(tp, NS), nsec |-> 0]

tp_to_ts(tp) == [sec |-> Quotient(tp, NS), nsec |-> tp - (Quotient(tp, NS) * NS)]

ts_to_tp(ts) == (ts.sec * NS) + ts.nsec

(* timespec_get, of a clock that shows n nanoseconds. *)
timespec_get(n) == [sec |-> n \div NS, nsec |-> n % NS]

tp_now(n) == ts_to_tp(timespec_get(n))

(* What the system's calls accept as a timespec, EINVAL otherwise. *)
Valid(ts) == ts.nsec \in 0 .. NS - 1
===============================================================================
