--------------------------------- MODULE Fifo ---------------------------------
(***************************************************************************)
(* What a queue promises (tecc_queue.h:52-60): objects leave it in the     *)
(* order in which they came, each one once, and each to one consumer.      *)
(***************************************************************************)
EXTENDS Sequences

CONSTANTS Consumers, Objs

VARIABLES q,      \* the objects waiting
          taking  \* for each consumer, the object a pop in progress returns

vars == <<q, taking>>

Init == /\ q = <<>>
        /\ taking = [c \in Consumers |-> <<>>]

Put(o) == /\ q' = Append(q, o)
          /\ UNCHANGED taking

Take(c) == /\ q # <<>>
           /\ taking[c] = <<>>
           /\ taking' = [taking EXCEPT ![c] = <<Head(q)>>]
           /\ q' = Tail(q)

Return(c) == /\ taking' = [taking EXCEPT ![c] = <<>>]
             /\ UNCHANGED q

(* The owner destroys the queue: what is left in it is forgotten. *)
Drop == /\ q' = <<>>
        /\ \A c \in Consumers : taking[c] = <<>>
        /\ UNCHANGED taking

Next == \/ \E o \in Objs : Put(o)
        \/ \E c \in Consumers : Take(c) \/ Return(c)
        \/ Drop

Spec == Init /\ [][Next]_vars
===============================================================================
