------------------------------ MODULE Dictionary ------------------------------
(***************************************************************************)
(* What a table of values by key promises: every operation returns the     *)
(* value the key had before it, NULL for none.                             *)
(***************************************************************************)
CONSTANTS Keys, Values, NULL

VARIABLES dict, ret

vars == <<dict, ret>>

Empty == [k \in Keys |-> NULL]

Init == dict = Empty /\ ret = NULL

Put(k, v) == dict' = [dict EXCEPT ![k] = v] /\ ret' = dict[k]

Look(k) == UNCHANGED dict /\ ret' = dict[k]

Drop(k) == Put(k, NULL)

Wipe == dict' = Empty /\ UNCHANGED ret

Next == \/ \E k \in Keys : \/ \E v \in Values : Put(k, v)
                           \/ Look(k) \/ Drop(k)
        \/ Wipe

Spec == Init /\ [][Next]_vars
===============================================================================
