---------------------------- MODULE TecWorkerProofs ----------------------------
(***************************************************************************)
(* Proofs about TecWorker for any callers, types and numbers of calls.     *)
(***************************************************************************)
EXTENDS TecWorker, TLAPS, SequenceTheorems

(* The thread has a message in hand that it has not dealt with. *)
Pre == {"dispatch", "call", "call_register"}

Hand == Pre \cup {"answer", "answer_broadcast"}

(* What the local variables of a call and of the thread hold. *)
Locals == /\ \A t \in Callers : pc[t] = "register" => my[t] \in Types
          /\ wpc \in Hand => msg \in Message

Typed == TypeOK /\ Locals

(* The types of all variables, with those of the local ones. *)
THEOREM Typing == Spec => []Typed
<1>1. Init => Typed
  <2> SUFFICES ASSUME Init PROVE Typed
    OBVIOUS
  <2>1. 0 \in 0 .. MaxCalls
    BY WorkerAssumption
  <2>2. {thr, sig_running, sig_terminated} \subseteq BOOLEAN
    BY Zenon DEF Init
  <2>3. ready \in [Callers -> BOOLEAN]
    BY Zenon DEF Init
  <2>4. queue \in Seq(Message \cup {STOP})
    BY EmptySeq DEF Init
  <2> QED
    BY <2>1, <2>2, <2>3, <2>4 DEF Init, Typed, TypeOK, Locals, Hand, Pre
<1>2. Typed /\ [Next]_vars => Typed'
  <2> SUFFICES ASSUME Typed, [Next]_vars PROVE Typed'
    OBVIOUS
  <2> USE WorkerAssumption
      DEF Typed, TypeOK, Locals, Hand, Pre, callVars, rpcVars, threadVars,
          signalVars, histVars, Goto, Call
  <2>1. ASSUME NEW t \in Callers, NEW type \in Types, RegisterCall(t, type)
        PROVE  Typed'
    BY <2>1 DEF RegisterCall
  <2>2. ASSUME NEW t \in Callers, Register(t) PROVE Typed'
    BY <2>2 DEF Register
  <2>3. ASSUME NEW t \in Callers, NEW type \in Types, NEW rpc \in BOOLEAN
        PROVE  NewMessage(t, rpc, type) \in Message
    BY <2>3 DEF NewMessage, Message
  <2>4. ASSUME NEW t \in Callers, NEW type \in Types, Send(t, type) PROVE Typed'
    <3>1. queue' \in Seq(Message \cup {STOP})
      BY <2>3, <2>4, AppendProperties DEF Send
    <3>2. /\ Call(t, "idle") /\ posted' = posted + 1
          /\ UNCHANGED <<phase, ret, my, rpcVars, threadVars, thr, error,
                         signalVars, callbacks, lock, handled, stopAt>>
      BY <2>4, Zenon DEF Send
    <3> QED
      BY <3>1, <3>2
  <2>5. ASSUME NEW t \in Callers, NEW type \in Types, RpcPush(t, type)
        PROVE  Typed'
    <3>1. /\ NewMessage(t, TRUE, type) \in Message
          /\ queue' \in Seq(Message \cup {STOP})
      BY <2>3, <2>5, AppendProperties DEF RpcPush
    <3>2. /\ Call(t, "rpc_wait") /\ posted' = posted + 1
          /\ \E m \in Message : my' = [my EXCEPT ![t] = m]
          /\ rpcError' = [rpcError EXCEPT ![t] = "ok"]
          /\ UNCHANGED <<phase, ret, threadVars, thr, error, signalVars,
                         callbacks, lock, handled, stopAt>>
      BY <2>5, <3>1, Zenon DEF RpcPush
    <3>3. ready' \in [Callers -> BOOLEAN]
      BY <2>5 DEF RpcPush
    <3>4. PICK m \in Message : my' = [my EXCEPT ![t] = m]
      BY <3>2
    <3>5. /\ my' \in [Callers -> Message \cup Types \cup {NONE}]
          /\ \A u \in Callers : u # t => my'[u] = my[u]
      BY <3>4
    <3>6. /\ pc' \in [Callers -> {"idle", "register", "rpc_wait", "run_lock",
                           "run_create", "run_wait", "run_join", "run_unlock",
                           "run_return", "term_lock", "term_wait"}]
          /\ pc'[t] = "rpc_wait" /\ \A u \in Callers : u # t => pc'[u] = pc[u]
          /\ calls' \in [Callers -> 0 .. MaxCalls]
      BY <3>2
    <3>7. Locals'
      BY <3>2, <3>5, <3>6
    <3>8. TypeOK'
      BY <3>1, <3>2, <3>3, <3>5, <3>6
    <3> QED
      BY <3>7, <3>8
  <2>6. ASSUME NEW t \in Callers, RpcReturn(t) PROVE Typed'
    BY <2>6 DEF RpcReturn
  <2>7. ASSUME RunCall PROVE Typed'
    BY <2>7 DEF RunCall
  <2>8. ASSUME RunLock PROVE Typed'
    BY <2>8 DEF RunLock
  <2>9. ASSUME RunSystemError PROVE Typed'
    BY <2>9 DEF RunSystemError
  <2>10. ASSUME RunCreate PROVE Typed'
    BY <2>10 DEF RunCreate
  <2>11. ASSUME RunWait PROVE Typed'
    BY <2>11 DEF RunWait
  <2>12. ASSUME RunJoin PROVE Typed'
    <3>1. thr' \in BOOLEAN
      BY <2>12, Zenon DEF RunJoin
    <3> QED
      BY <2>12, <3>1 DEF RunJoin, Joined
  <2>13. ASSUME RunUnlock PROVE Typed'
    BY <2>13 DEF RunUnlock
  <2>14. ASSUME RunReturn PROVE Typed'
    BY <2>14 DEF RunReturn
  <2>15. ASSUME NEW t \in Callers, TerminateCall(t) PROVE Typed'
    BY <2>15 DEF TerminateCall
  <2>16. ASSUME NEW t \in Callers, TerminatePush(t) PROVE Typed'
    BY <2>16 DEF TerminatePush
  <2>17. ASSUME NEW t \in Callers, TerminateReturn(t) PROVE Typed'
    <3>1. thr' \in BOOLEAN
      BY <2>17, Zenon DEF TerminateReturn
    <3> QED
      BY <2>17, <3>1 DEF TerminateReturn, Joined
  <2>18. ASSUME Done PROVE Typed'
    <3>1. thr' \in BOOLEAN
      BY <2>18, Zenon DEF Done
    <3> QED
      BY <2>18, <3>1 DEF Done, Joined
  <2>19. ASSUME OnInit PROVE Typed'
    BY <2>19 DEF OnInit
  <2>20. ASSUME SetRunning PROVE Typed'
    BY <2>20 DEF SetRunning
  <2>21. ASSUME Pop PROVE Typed'
    <3>1. Head(queue) \in Message \cup {STOP} /\ Tail(queue) \in Seq(Message \cup {STOP})
      BY <2>21, HeadTailProperties DEF Pop
    <3> QED
      BY <2>21, <3>1 DEF Pop
  <2>22. ASSUME Dispatch PROVE Typed'
    BY <2>22 DEF Dispatch, Handled, Message
  <2>23. ASSUME Callback PROVE Typed'
    BY <2>23 DEF Callback, Handled, Message
  <2>24. ASSUME ThreadRegister PROVE Typed'
    BY <2>24 DEF ThreadRegister, Handled, Message
  <2>25. ASSUME AnswerStore PROVE Typed'
    BY <2>25 DEF AnswerStore, Message
  <2>26. ASSUME AnswerBroadcast PROVE Typed'
    BY <2>26 DEF AnswerBroadcast, Message
  <2>27. ASSUME OnExit PROVE Typed'
    BY <2>27 DEF OnExit
  <2>28. ASSUME SetTerminated PROVE Typed'
    BY <2>28 DEF SetTerminated
  <2>29. ASSUME LastBroadcast PROVE Typed'
    BY <2>29 DEF LastBroadcast
  <2>30. CASE UNCHANGED vars
    BY <2>30 DEF vars
  <2> QED
    BY <2>1, <2>2, <2>4, <2>5, <2>6, <2>7, <2>8, <2>9, <2>10, <2>11, <2>12,
       <2>13, <2>14, <2>15, <2>16, <2>17, <2>18, <2>19, <2>20, <2>21,
       <2>22, <2>23, <2>24, <2>25, <2>26, <2>27, <2>28, <2>29, <2>30
       DEF Next, Run, Thread, NewCall, Inside
<1> QED
  BY <1>1, <1>2, PTL DEF Spec

-------------------------------------------------------------------------------

RunPC == {"run_lock", "run_create", "run_wait", "run_join", "run_unlock",
          "run_return"}

Early == {"none", "init", "init_register", "running"}

(* How the owner, the thread and its handle go together. *)
LifeCycle ==
    /\ ~thr => wpc \in {"none", "ended"}
    /\ \A t \in Callers : pc[t] \in RunPC => t = Owner
    /\ phase = "run" <=> pc[Owner] \in RunPC
    /\ phase = "new" \/ pc[Owner] \in {"run_lock", "run_create"} => wpc = "none"
    /\ pc[Owner] \in {"run_wait", "run_join", "run_unlock", "run_return"} => wpc # "none"
    /\ pc[Owner] \in {"run_join", "run_unlock", "run_return"} => sig_running
    /\ sig_running => wpc \notin Early
    /\ phase = "over" => ~thr
    /\ phase \in {"new", "run"} => ret = "ok"
    /\ phase \in {"up", "over"} => (ret = "system" <=> wpc = "none")
    /\ phase \in {"up", "over"} /\ ret # "system" => sig_running

(* The thread is joined, and its handle reset, only when it has ended. *)
LEMMA LifeCycleHolds == Spec => []LifeCycle
<1>1. Init => LifeCycle
  BY WorkerAssumption DEF Init, LifeCycle, RunPC, Early
<1>2. Typed /\ LifeCycle /\ [Next]_vars => LifeCycle'
  <2> SUFFICES ASSUME Typed, LifeCycle, [Next]_vars PROVE LifeCycle'
    OBVIOUS
  <2> USE WorkerAssumption
      DEF LifeCycle, RunPC, Early, Typed, TypeOK, callVars, rpcVars, threadVars,
          signalVars, histVars, Goto, Call
  <2>1. ASSUME NEW t \in Callers, NEW type \in Types, RegisterCall(t, type)
        PROVE  LifeCycle'
    BY <2>1 DEF RegisterCall
  <2>2. ASSUME NEW t \in Callers, NEW type \in Types, Send(t, type)
        PROVE  LifeCycle'
    BY <2>2 DEF Send
  <2>3. ASSUME NEW t \in Callers, NEW type \in Types, RpcPush(t, type)
        PROVE  LifeCycle'
    BY <2>3 DEF RpcPush
  <2>4. ASSUME NEW t \in Callers, Register(t) PROVE LifeCycle'
    BY <2>4 DEF Register
  <2>5. ASSUME NEW t \in Callers, RpcReturn(t) PROVE LifeCycle'
    BY <2>5 DEF RpcReturn
  <2>6. ASSUME NEW t \in Callers, TerminateCall(t) PROVE LifeCycle'
    BY <2>6 DEF TerminateCall
  <2>7. ASSUME NEW t \in Callers, TerminatePush(t) PROVE LifeCycle'
    BY <2>7 DEF TerminatePush
  <2>8. ASSUME NEW t \in Callers, TerminateReturn(t) PROVE LifeCycle'
    BY <2>8 DEF TerminateReturn, Joined
  <2>9. ASSUME RunCall PROVE LifeCycle'
    BY <2>9 DEF RunCall
  <2>10. ASSUME RunLock PROVE LifeCycle'
    BY <2>10 DEF RunLock
  <2>11. ASSUME RunSystemError PROVE LifeCycle'
    BY <2>11 DEF RunSystemError
  <2>12. ASSUME RunCreate PROVE LifeCycle'
    BY <2>12 DEF RunCreate
  <2>13. ASSUME RunWait PROVE LifeCycle'
    BY <2>13 DEF RunWait
  <2>14. ASSUME RunJoin PROVE LifeCycle'
    BY <2>14 DEF RunJoin, Joined
  <2>15. ASSUME RunUnlock PROVE LifeCycle'
    BY <2>15 DEF RunUnlock
  <2>16. ASSUME RunReturn PROVE LifeCycle'
    BY <2>16 DEF RunReturn
  <2>17. ASSUME Done PROVE LifeCycle'
    BY <2>17 DEF Done, Joined
  <2>18. ASSUME OnInit PROVE LifeCycle'
    BY <2>18 DEF OnInit
  <2>19. ASSUME SetRunning PROVE LifeCycle'
    BY <2>19 DEF SetRunning
  <2>20. ASSUME Pop PROVE LifeCycle'
    BY <2>20 DEF Pop
  <2>21. ASSUME Dispatch PROVE LifeCycle'
    BY <2>21 DEF Dispatch, Handled
  <2>22. ASSUME Callback PROVE LifeCycle'
    BY <2>22 DEF Callback, Handled
  <2>23. ASSUME ThreadRegister PROVE LifeCycle'
    BY <2>23 DEF ThreadRegister, Handled
  <2>24. ASSUME AnswerStore PROVE LifeCycle'
    BY <2>24 DEF AnswerStore
  <2>25. ASSUME AnswerBroadcast PROVE LifeCycle'
    BY <2>25 DEF AnswerBroadcast
  <2>26. ASSUME OnExit PROVE LifeCycle'
    BY <2>26 DEF OnExit
  <2>27. ASSUME SetTerminated PROVE LifeCycle'
    BY <2>27 DEF SetTerminated
  <2>28. ASSUME LastBroadcast PROVE LifeCycle'
    BY <2>28 DEF LastBroadcast
  <2>29. CASE UNCHANGED vars
    BY <2>29 DEF vars
  <2> QED
    BY <2>1, <2>2, <2>3, <2>4, <2>5, <2>6, <2>7, <2>8, <2>9, <2>10, <2>11,
       <2>12, <2>13, <2>14, <2>15, <2>16, <2>17, <2>18, <2>19, <2>20, <2>21,
       <2>22, <2>23, <2>24, <2>25, <2>26, <2>27, <2>28, <2>29
       DEF Next, Run, Thread, NewCall, Inside
<1> QED
  BY <1>1, <1>2, Typing, PTL DEF Spec

(* done destroys the worker when its thread has ended. *)
THEOREM Outlives == Spec => []WorkerOutlivesThread
<1>1. Typed /\ LifeCycle => WorkerOutlivesThread
  BY DEF Typed, LifeCycle, WorkerOutlivesThread
<1> QED
  BY <1>1, Typing, LifeCycleHolds, PTL

-------------------------------------------------------------------------------

(* What the thread has taken from the queue without a STOP. *)
Taken == handled + (IF wpc \in Pre THEN 1 ELSE 0)

(* The message number n of the queue comes i places behind the thread. *)
InOrder(i) == queue[i] # STOP /\ queue[i].n = Taken + i

(* The numbers of the queued messages up to the first STOP. *)
QueueOrder ==
    /\ stopAt = NONE => /\ \A i \in 1 .. Len(queue) : InOrder(i)
                       /\ posted = Taken + Len(queue)
    /\ stopAt # NONE /\ ~Leaving =>
           \E k \in 1 .. Len(queue) : /\ queue[k] = STOP
                                     /\ stopAt = Taken + k - 1
                                     /\ \A i \in 1 .. k - 1 : InOrder(i)

(* The thread takes the messages in this order and leaves at the STOP. *)
Order ==
    /\ wpc \in Pre => msg.n = handled + 1
    /\ wpc \in Early => handled = 0
    /\ error = "init" => handled = 0
    /\ QueueOrder
    /\ Leaving /\ error # "init" => stopAt = handled
    /\ ret = "exit" => stopAt # NONE

(* The errors of the thread and of run. *)
Errors ==
    /\ error = "init" => wpc \in {"running", "terminated", "last_broadcast", "ended"}
    /\ error = "exit" => wpc \in {"terminated", "last_broadcast", "ended"}
    /\ phase \in {"up", "over"} /\ ret # "system" => (ret = "init" <=> error = "init")

(* The numbers of the messages tell them apart. *)
Numbers ==
    /\ \A i \in 1 .. Len(queue) : queue[i] # STOP =>
           /\ queue[i].n <= posted
           /\ wpc \in Hand => msg.n < queue[i].n
    /\ \A i, j \in 1 .. Len(queue) :
           i < j /\ queue[i] # STOP /\ queue[j] # STOP => queue[i].n < queue[j].n
    /\ wpc \in Hand => msg.n <= posted
    /\ wpc \in Hand \ Pre => msg.n <= handled

(* The caller of request m waits for the answer. *)
Waiting(m) == m.rpc => pc[m.from] = "rpc_wait" /\ my[m.from] = m /\ ~ready[m.from]

(* Every request that is queued or in hand is that of a waiting caller. *)
Requests ==
    /\ \A i \in 1 .. Len(queue) : queue[i] # STOP => Waiting(queue[i])
    /\ wpc \in Pre \cup {"answer"} => Waiting(msg)
    /\ wpc \in Hand \ Pre => msg.rpc
    /\ \A t \in Callers : pc[t] = "rpc_wait" =>
           /\ my[t] \in Message
           /\ my[t].known => my[t].type \in callbacks
           /\ rpcError[t] = "not_found" => ~my[t].known
           /\ ready[t] => my[t].n <= handled

(* Append and Tail by their elements. *)
LEMMA Appended ==
  ASSUME NEW S, NEW q \in Seq(S), NEW x \in S
  PROVE  /\ Len(Append(q, x)) = Len(q) + 1
         /\ Append(q, x)[Len(q) + 1] = x
         /\ \A i \in 1 .. Len(q) : Append(q, x)[i] = q[i]
BY AppendProperties

(* What is left of a queue when its first message is taken.                *)
LEMMA Popped ==
  ASSUME NEW S, NEW q \in Seq(S), q # <<>>
  PROVE  /\ Len(q) >= 1 /\ Head(q) = q[1]
         /\ Len(Tail(q)) = Len(q) - 1
         /\ \A i \in 1 .. Len(q) - 1 : Tail(q)[i] = q[i + 1]
BY HeadTailProperties

(* on_init fails before the worker is running, on_exit after it has served. *)
LEMMA ErrorsHold == Spec => []Errors
<1>1. Init => Errors
  BY DEF Init, Errors
<1>2. Typed /\ LifeCycle /\ Errors /\ [Next]_vars => Errors'
  <2> SUFFICES ASSUME Typed, LifeCycle, Errors, [Next]_vars PROVE Errors'
    OBVIOUS
  <2> USE WorkerAssumption
      DEF Typed, TypeOK, LifeCycle, Errors, RunPC, Early, callVars, rpcVars, threadVars, signalVars,
          histVars, Goto, Call
  <2>1. ASSUME NEW t \in Callers, NEW type \in Types, RegisterCall(t, type)
        PROVE  Errors'
    BY <2>1 DEF RegisterCall
  <2>2. ASSUME NEW t \in Callers, NEW type \in Types, Send(t, type)
        PROVE  Errors'
    BY <2>2 DEF Send
  <2>3. ASSUME NEW t \in Callers, NEW type \in Types, RpcPush(t, type)
        PROVE  Errors'
    BY <2>3 DEF RpcPush
  <2>4. ASSUME NEW t \in Callers, Register(t) PROVE Errors'
    BY <2>4 DEF Register
  <2>5. ASSUME NEW t \in Callers, RpcReturn(t) PROVE Errors'
    BY <2>5 DEF RpcReturn
  <2>6. ASSUME NEW t \in Callers, TerminateCall(t) PROVE Errors'
    BY <2>6 DEF TerminateCall
  <2>7. ASSUME NEW t \in Callers, TerminatePush(t) PROVE Errors'
    BY <2>7 DEF TerminatePush
  <2>8. ASSUME NEW t \in Callers, TerminateReturn(t) PROVE Errors'
    BY <2>8 DEF TerminateReturn, Joined
  <2>9. ASSUME RunCall PROVE Errors'
    BY <2>9 DEF RunCall
  <2>10. ASSUME RunLock PROVE Errors'
    BY <2>10 DEF RunLock
  <2>11. ASSUME RunSystemError PROVE Errors'
    BY <2>11 DEF RunSystemError
  <2>12. ASSUME RunCreate PROVE Errors'
    BY <2>12 DEF RunCreate
  <2>13. ASSUME RunWait PROVE Errors'
    BY <2>13 DEF RunWait
  <2>14. ASSUME RunJoin PROVE Errors'
    BY <2>14 DEF RunJoin, Joined
  <2>15. ASSUME RunUnlock PROVE Errors'
    BY <2>15 DEF RunUnlock
  <2>16. ASSUME RunReturn PROVE Errors'
    BY <2>16 DEF RunReturn
  <2>17. ASSUME Done PROVE Errors'
    BY <2>17 DEF Done, Joined
  <2>18. ASSUME OnInit PROVE Errors'
    BY <2>18 DEF OnInit
  <2>19. ASSUME SetRunning PROVE Errors'
    BY <2>19 DEF SetRunning
  <2>20. ASSUME Pop PROVE Errors'
    BY <2>20 DEF Pop
  <2>21. ASSUME Dispatch PROVE Errors'
    BY <2>21 DEF Dispatch, Handled
  <2>22. ASSUME Callback PROVE Errors'
    BY <2>22 DEF Callback, Handled
  <2>23. ASSUME ThreadRegister PROVE Errors'
    BY <2>23 DEF ThreadRegister, Handled
  <2>24. ASSUME AnswerStore PROVE Errors'
    BY <2>24 DEF AnswerStore
  <2>25. ASSUME AnswerBroadcast PROVE Errors'
    BY <2>25 DEF AnswerBroadcast
  <2>26. ASSUME OnExit PROVE Errors'
    BY <2>26 DEF OnExit
  <2>27. ASSUME SetTerminated PROVE Errors'
    BY <2>27 DEF SetTerminated
  <2>28. ASSUME LastBroadcast PROVE Errors'
    BY <2>28 DEF LastBroadcast
  <2>29. CASE UNCHANGED vars
    BY <2>29 DEF vars
  <2> QED
    BY <2>1, <2>2, <2>3, <2>4, <2>5, <2>6, <2>7, <2>8, <2>9, <2>10, <2>11,
       <2>12, <2>13, <2>14, <2>15, <2>16, <2>17, <2>18, <2>19, <2>20, <2>21, <2>22,
       <2>23, <2>24, <2>25, <2>26, <2>27, <2>28, <2>29
       DEF Next, Run, Thread, NewCall, Inside
<1> QED
  BY <1>1, <1>2, Typing, LifeCycleHolds, PTL DEF Spec

-------------------------------------------------------------------------------

(* A step that leaves the queue alone, at most deals with the message in   *)
(* hand and does not bring the thread back.                                *)
LEMMA QueueKept ==
  ASSUME QueueOrder, Taken' = Taken, UNCHANGED <<queue, stopAt, posted>>,
         Leaving => Leaving'
  PROVE  QueueOrder'
BY DEF QueueOrder, InOrder

(* A new message goes behind all others. *)
LEMMA QueueSent ==
  ASSUME Typed, QueueOrder, NEW m \in Message, m.n = posted + 1,
         queue' = Append(queue, m), posted' = posted + 1,
         UNCHANGED <<wpc, handled, stopAt>>
  PROVE  QueueOrder'
<1> DEFINE S == Message \cup {STOP}
<1>1. queue \in Seq(S) /\ m \in S /\ m # STOP /\ Len(queue) \in Nat
  BY MarkAssumption, LenProperties DEF Typed, TypeOK
<1>2. /\ Len(queue') = Len(queue) + 1 /\ queue'[Len(queue) + 1] = m
      /\ \A i \in 1 .. Len(queue) : queue'[i] = queue[i]
  BY <1>1, Appended
<1>3. Taken' = Taken /\ Leaving' = Leaving /\ Taken \in Nat
  BY DEF Taken, Leaving, Typed, TypeOK
<1>4. \A i \in 1 .. Len(queue) : InOrder(i) => InOrder(i)'
  BY <1>2, <1>3 DEF InOrder
<1>6. CASE stopAt = NONE
  <2>1. /\ \A i \in 1 .. Len(queue) : InOrder(i)'
        /\ posted = Taken + Len(queue) /\ stopAt' = NONE
    BY <1>4, <1>6 DEF QueueOrder
  <2>2. ASSUME NEW i \in 1 .. Len(queue') PROVE InOrder(i)'
    <3>1. CASE i = Len(queue) + 1
      BY <1>1, <1>2, <1>3, <2>1, <3>1 DEF InOrder
    <3> QED
      BY <1>1, <1>2, <2>1, <3>1
  <2>3. posted' = Taken' + Len(queue')
    BY <1>1, <1>2, <1>3, <2>1
  <2> QED
    BY <2>1, <2>2, <2>3 DEF QueueOrder
<1>7. CASE stopAt # NONE
  <2> SUFFICES ASSUME ~Leaving
               PROVE  \E k \in 1 .. Len(queue') :
                         /\ queue'[k] = STOP /\ stopAt = Taken + k - 1
                         /\ \A i \in 1 .. k - 1 : InOrder(i)'
    BY <1>3, <1>7 DEF QueueOrder
  <2>1. PICK k \in 1 .. Len(queue) : /\ queue[k] = STOP /\ stopAt = Taken + k - 1
                                    /\ \A i \in 1 .. k - 1 : InOrder(i)
    BY <1>7 DEF QueueOrder
  <2>2. k \in 1 .. Len(queue') /\ queue'[k] = STOP
    BY <1>1, <1>2, <2>1
  <2>3. \A i \in 1 .. k - 1 : InOrder(i)'
    BY <1>1, <1>4, <2>1
  <2> QED
    BY <2>1, <2>2, <2>3
<1> QED
  BY <1>6, <1>7

(* The first STOP behind all messages is the one that counts. *)
LEMMA QueueStopped ==
  ASSUME Typed, QueueOrder, queue' = Append(queue, STOP),
         stopAt' = IF stopAt = NONE THEN posted ELSE stopAt,
         UNCHANGED <<wpc, handled, posted>>
  PROVE  QueueOrder'
<1> DEFINE S == Message \cup {STOP}
<1>1. queue \in Seq(S) /\ STOP \in S /\ Len(queue) \in Nat
  BY LenProperties DEF Typed, TypeOK
<1>2. /\ Len(queue') = Len(queue) + 1 /\ queue'[Len(queue) + 1] = STOP
      /\ \A i \in 1 .. Len(queue) : queue'[i] = queue[i]
  BY <1>1, Appended
<1>3. Taken' = Taken /\ Leaving' = Leaving /\ Taken \in Nat
  BY DEF Taken, Leaving, Typed, TypeOK
<1>4. \A i \in 1 .. Len(queue) : InOrder(i) => InOrder(i)'
  BY <1>2, <1>3 DEF InOrder
<1>5. stopAt' # NONE
  BY MarkAssumption DEF Typed, TypeOK
<1> SUFFICES ASSUME ~Leaving
             PROVE  \E k \in 1 .. Len(queue') :
                       /\ queue'[k] = STOP /\ stopAt' = Taken + k - 1
                       /\ \A i \in 1 .. k - 1 : InOrder(i)'
  BY <1>3, <1>5 DEF QueueOrder
<1>6. CASE stopAt = NONE
  <2>1. /\ \A i \in 1 .. Len(queue) : InOrder(i)'
        /\ posted = Taken + Len(queue)
    BY <1>4, <1>6 DEF QueueOrder
  <2>2. PICK k : k = Len(queue) + 1
    OBVIOUS
  <2>3. k \in 1 .. Len(queue') /\ queue'[k] = STOP /\ 1 .. k - 1 = 1 .. Len(queue)
    BY <1>1, <1>2, <2>2
  <2>4. stopAt' = Taken + k - 1
    BY <1>1, <1>3, <1>6, <2>1, <2>2
  <2> QED
    BY <2>1, <2>3, <2>4
<1>7. CASE stopAt # NONE
  <2>1. PICK k \in 1 .. Len(queue) : /\ queue[k] = STOP /\ stopAt = Taken + k - 1
                                    /\ \A i \in 1 .. k - 1 : InOrder(i)
    BY <1>7 DEF QueueOrder
  <2>2. k \in 1 .. Len(queue') /\ queue'[k] = STOP
    BY <1>1, <1>2, <2>1
  <2>3. \A i \in 1 .. k - 1 : InOrder(i)'
    BY <1>1, <1>4, <2>1
  <2> QED
    BY <1>7, <2>1, <2>2, <2>3
<1> QED
  BY <1>6, <1>7

(* Taking the first element moves every message one place on. *)
LEMMA QueueTaken ==
  ASSUME Typed, QueueOrder, wpc = "pop", queue # <<>>, queue' = Tail(queue),
         wpc' = IF Head(queue) = STOP THEN "exit" ELSE "dispatch",
         UNCHANGED <<handled, posted, stopAt>>
  PROVE  /\ QueueOrder'
         /\ Head(queue) = STOP => stopAt = handled
         /\ Head(queue) # STOP => Head(queue).n = handled + 1
<1> DEFINE S == Message \cup {STOP}
<1>1. queue \in Seq(S) /\ Len(queue) \in Nat
  BY LenProperties DEF Typed, TypeOK
<1>2. /\ Len(queue) >= 1 /\ Head(queue) = queue[1]
      /\ Len(queue') = Len(queue) - 1
      /\ \A i \in 1 .. Len(queue) - 1 : queue'[i] = queue[i + 1]
  BY <1>1, Popped
<1>3. /\ Taken = handled /\ handled \in Nat /\ ~Leaving
      /\ Head(queue) = STOP => Leaving'
      /\ Head(queue) # STOP => Taken' = handled + 1
  BY DEF Taken, Leaving, Typed, TypeOK, Pre
<1>4. stopAt # NONE =>
         \E k \in 1 .. Len(queue) : /\ queue[k] = STOP /\ stopAt = handled + k - 1
                                   /\ \A i \in 1 .. k - 1 : InOrder(i)
  BY <1>3 DEF QueueOrder
<1>5. stopAt = NONE => /\ \A i \in 1 .. Len(queue) : InOrder(i)
                       /\ posted = handled + Len(queue)
  BY <1>3 DEF QueueOrder
<1>6. CASE Head(queue) = STOP
  <2>1. ~InOrder(1)
    BY <1>2, <1>6 DEF InOrder
  <2>2. stopAt # NONE
    BY <1>1, <1>2, <1>5, <2>1
  <2>3. PICK k \in 1 .. Len(queue) : /\ stopAt = handled + k - 1
                                    /\ \A i \in 1 .. k - 1 : InOrder(i)
    BY <1>4, <2>2
  <2>4. k = 1
    BY <1>1, <2>1, <2>3
  <2>5. QueueOrder'
    BY <1>3, <1>6, <2>2 DEF QueueOrder
  <2> QED
    BY <1>3, <1>6, <2>3, <2>4, <2>5
<1>7. CASE Head(queue) # STOP
  <2>1. ASSUME NEW i \in 1 .. Len(queue) - 1, InOrder(i + 1) PROVE InOrder(i)'
    BY <1>1, <1>2, <1>3, <1>7, <2>1 DEF InOrder
  <2>2. CASE stopAt = NONE
    <3>1. InOrder(1) /\ \A i \in 1 .. Len(queue) - 1 : InOrder(i)'
      BY <1>1, <1>2, <1>5, <2>1, <2>2
    <3>2. posted' = Taken' + Len(queue')
      BY <1>1, <1>2, <1>3, <1>5, <1>7, <2>2
    <3>3. QueueOrder'
      BY <1>2, <2>2, <3>1, <3>2 DEF QueueOrder
    <3> QED
      BY <1>2, <1>3, <1>7, <3>1, <3>3 DEF InOrder
  <2>3. CASE stopAt # NONE
    <3>1. PICK k \in 1 .. Len(queue) : /\ queue[k] = STOP /\ stopAt = handled + k - 1
                                      /\ \A i \in 1 .. k - 1 : InOrder(i)
      BY <1>4, <2>3
    <3>2. k # 1 /\ k - 1 \in 1 .. Len(queue')
      BY <1>1, <1>2, <1>7, <3>1
    <3>3. queue'[k - 1] = STOP /\ stopAt = Taken' + (k - 1) - 1
      BY <1>1, <1>2, <1>3, <1>7, <3>1, <3>2
    <3>4. \A i \in 1 .. (k - 1) - 1 : InOrder(i)'
      BY <1>1, <2>1, <3>1
    <3>5. QueueOrder'
      BY <2>3, <3>2, <3>3, <3>4 DEF QueueOrder
    <3>6. InOrder(1)
      BY <1>1, <3>1, <3>2
    <3> QED
      BY <1>2, <1>3, <1>7, <3>5, <3>6 DEF InOrder
  <2> QED
    BY <2>2, <2>3
<1> QED
  BY <1>6, <1>7

(* Nothing overtakes in the queue. *)
LEMMA OrderHolds == Spec => []Order
<1>1. Init => Order
  BY MarkAssumption
     DEF Init, Order, QueueOrder, Taken, InOrder, Leaving, Pre, Early
<1>2. Typed /\ LifeCycle /\ Errors /\ Order /\ [Next]_vars => Order'
  <2> SUFFICES ASSUME Typed, LifeCycle, Errors, Order, [Next]_vars PROVE Order'
    OBVIOUS
  <2> USE WorkerAssumption, MarkAssumption
      DEF Typed, TypeOK, Locals, LifeCycle, Errors, Order, Hand, Pre, Early,
          RunPC, callVars, rpcVars, threadVars, signalVars,
          histVars, Goto, Call
  <2>1. ASSUME NEW t \in Callers, NEW type \in Types, RegisterCall(t, type)
        PROVE  Order'
    BY <2>1, QueueKept DEF RegisterCall, Taken, Leaving
  <2>2. ASSUME NEW t \in Callers, NEW type \in Types, Send(t, type) PROVE Order'
    <3>1. NewMessage(t, FALSE, type) \in Message /\ NewMessage(t, FALSE, type).n = posted + 1
      BY DEF NewMessage, Message
    <3>2. /\ queue' = Append(queue, NewMessage(t, FALSE, type))
          /\ posted' = posted + 1
          /\ UNCHANGED <<wpc, msg, handled, error, ret, stopAt>>
      BY <2>2, Zenon DEF Send, threadVars, callVars
    <3>3. QueueOrder'
      BY <3>1, <3>2, QueueSent
    <3> QED
      BY <3>2, <3>3 DEF Leaving
  <2>3. ASSUME NEW t \in Callers, NEW type \in Types, RpcPush(t, type)
        PROVE  Order'
    <3>1. NewMessage(t, TRUE, type) \in Message /\ NewMessage(t, TRUE, type).n = posted + 1
      BY DEF NewMessage, Message
    <3>2. /\ queue' = Append(queue, NewMessage(t, TRUE, type))
          /\ posted' = posted + 1
          /\ UNCHANGED <<wpc, msg, handled, error, ret, stopAt>>
      BY <2>3, Zenon DEF RpcPush, threadVars, callVars
    <3>3. QueueOrder'
      BY <3>1, <3>2, QueueSent
    <3> QED
      BY <3>2, <3>3 DEF Leaving
  <2>4. ASSUME NEW t \in Callers, Register(t) PROVE Order'
    BY <2>4, QueueKept DEF Register, Taken, Leaving
  <2>5. ASSUME NEW t \in Callers, RpcReturn(t) PROVE Order'
    BY <2>5, QueueKept DEF RpcReturn, Taken, Leaving
  <2>6. ASSUME NEW t \in Callers, TerminateCall(t) PROVE Order'
    BY <2>6, QueueKept DEF TerminateCall, Taken, Leaving
  <2>7. ASSUME NEW t \in Callers, TerminatePush(t) PROVE Order'
    <3>1. /\ queue' = Append(queue, STOP)
          /\ stopAt' = IF stopAt = NONE THEN posted ELSE stopAt
          /\ UNCHANGED <<wpc, msg, handled, error, ret, posted>>
      BY <2>7 DEF TerminatePush
    <3>2. QueueOrder'
      BY <3>1, QueueStopped
    <3>3. Leaving /\ error # "init" => stopAt # NONE
      OBVIOUS
    <3> QED
      BY <3>1, <3>2, <3>3 DEF Leaving
  <2>8. ASSUME NEW t \in Callers, TerminateReturn(t) PROVE Order'
    BY <2>8, QueueKept DEF TerminateReturn, Joined, Taken, Leaving
  <2>9. ASSUME RunCall PROVE Order'
    BY <2>9, QueueKept DEF RunCall, Taken, Leaving
  <2>10. ASSUME RunLock PROVE Order'
    BY <2>10, QueueKept DEF RunLock, Taken, Leaving
  <2>11. ASSUME RunSystemError PROVE Order'
    BY <2>11, QueueKept DEF RunSystemError, Taken, Leaving
  <2>12. ASSUME RunCreate PROVE Order'
    BY <2>12, QueueKept DEF RunCreate, Taken, Leaving
  <2>13. ASSUME RunWait PROVE Order'
    BY <2>13, QueueKept DEF RunWait, Taken, Leaving
  <2>14. ASSUME RunJoin PROVE Order'
    BY <2>14, QueueKept DEF RunJoin, Joined, Taken, Leaving
  <2>15. ASSUME RunUnlock PROVE Order'
    BY <2>15, QueueKept DEF RunUnlock, Taken, Leaving
  <2>16. ASSUME RunReturn PROVE Order'
    BY <2>16, QueueKept DEF RunReturn, Taken, Leaving
  <2>17. ASSUME Done PROVE Order'
    BY <2>17, QueueKept DEF Done, Joined, Taken, Leaving
  <2>18. ASSUME OnInit PROVE Order'
    BY <2>18, QueueKept DEF OnInit, Taken, Leaving
  <2>19. ASSUME SetRunning PROVE Order'
    BY <2>19, QueueKept DEF SetRunning, Taken, Leaving
  <2>20. ASSUME Pop PROVE Order'
    <3>1. /\ wpc = "pop" /\ queue # <<>> /\ queue' = Tail(queue)
          /\ IF Head(queue) = STOP THEN wpc' = "exit" /\ msg' = msg
             ELSE wpc' = "dispatch" /\ msg' = Head(queue)
          /\ UNCHANGED <<handled, error, ret, posted, stopAt>>
      BY <2>20 DEF Pop
    <3>2. /\ QueueOrder'
          /\ Head(queue) = STOP => stopAt = handled
          /\ Head(queue) # STOP => Head(queue).n = handled + 1
      BY <3>1, QueueTaken
    <3>3. error # "init"
      BY <3>1
    <3> QED
      BY <3>1, <3>2, <3>3 DEF Leaving
  <2>21. ASSUME Dispatch PROVE Order'
    BY <2>21, QueueKept DEF Dispatch, Handled, Taken, Leaving
  <2>22. ASSUME Callback PROVE Order'
    BY <2>22, QueueKept DEF Callback, Handled, Taken, Leaving
  <2>23. ASSUME ThreadRegister PROVE Order'
    BY <2>23, QueueKept DEF ThreadRegister, Handled, Taken, Leaving
  <2>24. ASSUME AnswerStore PROVE Order'
    BY <2>24, QueueKept DEF AnswerStore, Taken, Leaving
  <2>25. ASSUME AnswerBroadcast PROVE Order'
    BY <2>25, QueueKept DEF AnswerBroadcast, Taken, Leaving
  <2>26. ASSUME OnExit PROVE Order'
    BY <2>26, QueueKept DEF OnExit, Taken, Leaving
  <2>27. ASSUME SetTerminated PROVE Order'
    BY <2>27, QueueKept DEF SetTerminated, Taken, Leaving
  <2>28. ASSUME LastBroadcast PROVE Order'
    BY <2>28, QueueKept DEF LastBroadcast, Taken, Leaving
  <2>29. CASE UNCHANGED vars
    BY <2>29, QueueKept DEF vars, Taken, Leaving
  <2> QED
    BY <2>1, <2>2, <2>3, <2>4, <2>5, <2>6, <2>7, <2>8, <2>9, <2>10, <2>11,
       <2>12, <2>13, <2>14, <2>15, <2>16, <2>17, <2>18, <2>19, <2>20, <2>21, <2>22,
       <2>23, <2>24, <2>25, <2>26, <2>27, <2>28, <2>29
       DEF Next, Run, Thread, NewCall, Inside
<1> QED
  BY <1>1, <1>2, Typing, LifeCycleHolds, ErrorsHold, PTL DEF Spec

(* The thread deals with the messages sent before the first call of        *)
(* terminate, in their order and all of them, and leaves.                  *)
THEOREM Drained == Spec => []DrainedBeforeExit
<1>1. Order => DrainedBeforeExit
  BY DEF Order, DrainedBeforeExit, Pre
<1> QED
  BY <1>1, OrderHolds, PTL

(* run reports the failure of on_init, and no error that has not happened. *)
THEOREM Result == Spec => []RunResult
<1>1. Typed /\ LifeCycle /\ Errors /\ Order => RunResult
  <2> SUFFICES ASSUME Typed, LifeCycle, Errors, Order, phase \in {"up", "over"}
               PROVE  /\ ret = "init" <=> error = "init"
                      /\ ret = "system" <=> wpc = "none"
                      /\ ret = "exit" => stopAt # NONE
    BY DEF RunResult
  <2> QED
    BY DEF LifeCycle, Errors, Order
<1> QED
  BY <1>1, Typing, LifeCycleHolds, ErrorsHold, OrderHolds, PTL

-------------------------------------------------------------------------------

(* A message gets a number greater than all before it... *)
LEMMA NumbersSent ==
  ASSUME Typed, Numbers, NEW m \in Message, m.n = posted + 1,
         queue' = Append(queue, m), posted' = posted + 1,
         UNCHANGED <<wpc, msg, handled>>
  PROVE  Numbers'
<1> DEFINE S == Message \cup {STOP}
<1>1. queue \in Seq(S) /\ m \in S /\ Len(queue) \in Nat /\ posted \in Nat
  BY LenProperties DEF Typed, TypeOK
<1>2. /\ Len(queue') = Len(queue) + 1 /\ queue'[Len(queue) + 1] = m
      /\ \A i \in 1 .. Len(queue) : queue'[i] = queue[i]
  BY <1>1, Appended
<1>3. \A i \in 1 .. Len(queue) : queue[i] # STOP => queue[i].n \in Nat
  BY <1>1, ElementOfSeq DEF Message
<1>4. wpc \in Hand => msg.n \in Nat
  BY DEF Typed, Locals, Message
<1>5. ASSUME NEW i \in 1 .. Len(queue'), queue'[i] # STOP
      PROVE  queue'[i].n <= posted' /\ (wpc' \in Hand => msg'.n < queue'[i].n)
  <2>1. CASE i = Len(queue) + 1
    BY <1>1, <1>2, <1>4, <2>1 DEF Numbers
  <2>2. CASE i \in 1 .. Len(queue)
    BY <1>1, <1>2, <1>3, <1>4, <1>5, <2>2 DEF Numbers
  <2> QED
    BY <1>1, <1>2, <2>1, <2>2
<1>6. ASSUME NEW i \in 1 .. Len(queue'), NEW j \in 1 .. Len(queue'), i < j,
             queue'[i] # STOP, queue'[j] # STOP
      PROVE  queue'[i].n < queue'[j].n
  <2>1. i \in 1 .. Len(queue) /\ queue'[i] = queue[i]
    BY <1>1, <1>2, <1>6
  <2>2. CASE j = Len(queue) + 1
    BY <1>1, <1>2, <1>3, <1>6, <2>1, <2>2 DEF Numbers
  <2>3. CASE j \in 1 .. Len(queue)
    BY <1>2, <1>6, <2>1, <2>3 DEF Numbers
  <2> QED
    BY <1>1, <1>2, <2>2, <2>3
<1>7. /\ wpc' \in Hand => msg'.n <= posted'
      /\ wpc' \in Hand \ Pre => msg'.n <= handled'
  BY <1>1, <1>4 DEF Numbers
<1> QED
  BY <1>5, <1>6, <1>7 DEF Numbers

(* ... STOP has none... *)
LEMMA NumbersStopped ==
  ASSUME Typed, Numbers, queue' = Append(queue, STOP),
         UNCHANGED <<wpc, msg, handled, posted>>
  PROVE  Numbers'
<1>1. queue \in Seq(Message \cup {STOP}) /\ Len(queue) \in Nat
  BY LenProperties DEF Typed, TypeOK
<1>2. /\ Len(queue') = Len(queue) + 1 /\ queue'[Len(queue) + 1] = STOP
      /\ \A i \in 1 .. Len(queue) : queue'[i] = queue[i]
  BY <1>1, Appended
<1>3. \A i \in 1 .. Len(queue') :
         queue'[i] # STOP => i \in 1 .. Len(queue) /\ queue'[i] = queue[i]
  BY <1>1, <1>2
<1> QED
  BY <1>3 DEF Numbers

(* ... and the message taken has the smallest. *)
LEMMA NumbersTaken ==
  ASSUME Typed, Numbers, queue # <<>>, queue' = Tail(queue),
         IF Head(queue) = STOP THEN wpc' = "exit"
         ELSE wpc' = "dispatch" /\ msg' = Head(queue),
         UNCHANGED <<handled, posted>>
  PROVE  Numbers'
<1>1. queue \in Seq(Message \cup {STOP}) /\ Len(queue) \in Nat
  BY LenProperties DEF Typed, TypeOK
<1>2. /\ Len(queue) >= 1 /\ Head(queue) = queue[1]
      /\ Len(queue') = Len(queue) - 1
      /\ \A i \in 1 .. Len(queue) - 1 : queue'[i] = queue[i + 1]
  BY <1>1, Popped
<1>3. \A i \in 1 .. Len(queue') : i + 1 \in 1 .. Len(queue) /\ queue'[i] = queue[i + 1]
  BY <1>1, <1>2
<1>4. wpc' \in Hand => wpc' \in Pre /\ msg' = queue[1] /\ queue[1] # STOP
  BY <1>2 DEF Hand, Pre
<1>5. ASSUME NEW i \in 1 .. Len(queue'), queue'[i] # STOP
      PROVE  queue'[i].n <= posted' /\ (wpc' \in Hand => msg'.n < queue'[i].n)
  <2>1. 1 \in 1 .. Len(queue) /\ 1 < i + 1
    BY <1>1, <1>2
  <2> QED
    BY <1>3, <1>4, <1>5, <2>1 DEF Numbers
<1>6. ASSUME NEW i \in 1 .. Len(queue'), NEW j \in 1 .. Len(queue'), i < j,
             queue'[i] # STOP, queue'[j] # STOP
      PROVE  queue'[i].n < queue'[j].n
  <2>1. i + 1 < j + 1
    BY <1>1, <1>2, <1>6
  <2> QED
    BY <1>3, <1>6, <2>1 DEF Numbers
<1>7. /\ wpc' \in Hand => msg'.n <= posted'
      /\ ~(wpc' \in Hand \ Pre)
  BY <1>1, <1>2, <1>4 DEF Numbers
<1> QED
  BY <1>5, <1>6, <1>7 DEF Numbers

(* The numbers of the messages grow along the queue. *)
LEMMA NumbersHold == Spec => []Numbers
<1>1. Init => Numbers
  BY DEF Init, Numbers, Hand, Pre
<1>2. Typed /\ Order /\ Numbers /\ [Next]_vars => Numbers'
  <2> SUFFICES ASSUME Typed, Order, Numbers, [Next]_vars PROVE Numbers'
    OBVIOUS
  <2> USE WorkerAssumption
      DEF Typed, TypeOK, Locals, Order, Hand, Pre, callVars, rpcVars, threadVars, signalVars,
          histVars, Goto, Call
  <2>1. ASSUME NEW t \in Callers, NEW type \in Types, RegisterCall(t, type)
        PROVE  Numbers'
    BY <2>1 DEF RegisterCall, Numbers
  <2>2. ASSUME NEW t \in Callers, NEW type \in Types, Send(t, type)
        PROVE  Numbers'
    <3>1. NewMessage(t, FALSE, type) \in Message /\ NewMessage(t, FALSE, type).n = posted + 1
      BY DEF NewMessage, Message
    <3>2. /\ queue' = Append(queue, NewMessage(t, FALSE, type))
          /\ posted' = posted + 1
          /\ UNCHANGED <<wpc, msg, handled>>
      BY <2>2, Zenon DEF Send, threadVars, callVars
    <3> QED
      BY <3>1, <3>2, NumbersSent
  <2>3. ASSUME NEW t \in Callers, NEW type \in Types, RpcPush(t, type)
        PROVE  Numbers'
    <3>1. NewMessage(t, TRUE, type) \in Message /\ NewMessage(t, TRUE, type).n = posted + 1
      BY DEF NewMessage, Message
    <3>2. /\ queue' = Append(queue, NewMessage(t, TRUE, type))
          /\ posted' = posted + 1
          /\ UNCHANGED <<wpc, msg, handled>>
      BY <2>3, Zenon DEF RpcPush, threadVars, callVars
    <3> QED
      BY <3>1, <3>2, NumbersSent
  <2>4. ASSUME NEW t \in Callers, Register(t) PROVE Numbers'
    BY <2>4 DEF Register, Numbers
  <2>5. ASSUME NEW t \in Callers, RpcReturn(t) PROVE Numbers'
    BY <2>5 DEF RpcReturn, Numbers
  <2>6. ASSUME NEW t \in Callers, TerminateCall(t) PROVE Numbers'
    BY <2>6 DEF TerminateCall, Numbers
  <2>7. ASSUME NEW t \in Callers, TerminatePush(t) PROVE Numbers'
    <3>1. queue' = Append(queue, STOP) /\ UNCHANGED <<wpc, msg, handled, posted>>
      BY <2>7 DEF TerminatePush
    <3> QED
      BY <3>1, NumbersStopped
  <2>8. ASSUME NEW t \in Callers, TerminateReturn(t) PROVE Numbers'
    BY <2>8 DEF TerminateReturn, Joined, Numbers
  <2>9. ASSUME RunCall PROVE Numbers'
    BY <2>9 DEF RunCall, Numbers
  <2>10. ASSUME RunLock PROVE Numbers'
    BY <2>10 DEF RunLock, Numbers
  <2>11. ASSUME RunSystemError PROVE Numbers'
    BY <2>11 DEF RunSystemError, Numbers
  <2>12. ASSUME RunCreate PROVE Numbers'
    BY <2>12 DEF RunCreate, Numbers, Message
  <2>13. ASSUME RunWait PROVE Numbers'
    BY <2>13 DEF RunWait, Numbers
  <2>14. ASSUME RunJoin PROVE Numbers'
    BY <2>14 DEF RunJoin, Joined, Numbers
  <2>15. ASSUME RunUnlock PROVE Numbers'
    BY <2>15 DEF RunUnlock, Numbers
  <2>16. ASSUME RunReturn PROVE Numbers'
    BY <2>16 DEF RunReturn, Numbers
  <2>17. ASSUME Done PROVE Numbers'
    BY <2>17 DEF Done, Joined, Numbers
  <2>18. ASSUME OnInit PROVE Numbers'
    BY <2>18 DEF OnInit, Numbers, Message
  <2>19. ASSUME SetRunning PROVE Numbers'
    BY <2>19 DEF SetRunning, Numbers, Message
  <2>20. ASSUME Pop PROVE Numbers'
    <3>1. /\ wpc = "pop" /\ queue # <<>> /\ queue' = Tail(queue)
          /\ IF Head(queue) = STOP THEN wpc' = "exit" /\ msg' = msg
             ELSE wpc' = "dispatch" /\ msg' = Head(queue)
          /\ UNCHANGED <<handled, posted>>
      BY <2>20 DEF Pop
    <3> QED
      BY <3>1, NumbersTaken
  <2>21. ASSUME Dispatch PROVE Numbers'
    BY <2>21 DEF Dispatch, Handled, Numbers, Message
  <2>22. ASSUME Callback PROVE Numbers'
    BY <2>22 DEF Callback, Handled, Numbers, Message
  <2>23. ASSUME ThreadRegister PROVE Numbers'
    BY <2>23 DEF ThreadRegister, Handled, Numbers, Message
  <2>24. ASSUME AnswerStore PROVE Numbers'
    BY <2>24 DEF AnswerStore, Numbers, Message
  <2>25. ASSUME AnswerBroadcast PROVE Numbers'
    BY <2>25 DEF AnswerBroadcast, Numbers, Message
  <2>26. ASSUME OnExit PROVE Numbers'
    BY <2>26 DEF OnExit, Numbers, Message
  <2>27. ASSUME SetTerminated PROVE Numbers'
    BY <2>27 DEF SetTerminated, Numbers, Message
  <2>28. ASSUME LastBroadcast PROVE Numbers'
    BY <2>28 DEF LastBroadcast, Numbers, Message
  <2>29. CASE UNCHANGED vars
    BY <2>29 DEF vars, Numbers
  <2> QED
    BY <2>1, <2>2, <2>3, <2>4, <2>5, <2>6, <2>7, <2>8, <2>9, <2>10, <2>11,
       <2>12, <2>13, <2>14, <2>15, <2>16, <2>17, <2>18, <2>19, <2>20, <2>21, <2>22,
       <2>23, <2>24, <2>25, <2>26, <2>27, <2>28, <2>29
       DEF Next, Run, Thread, NewCall, Inside
<1> QED
  BY <1>1, <1>2, Typing, OrderHolds, PTL DEF Spec

-------------------------------------------------------------------------------

(* No request comes up, is answered or changes. *)
Undisturbed ==
    \A u \in Callers :
        /\ pc'[u] = "rpc_wait" => pc[u] = "rpc_wait"
        /\ pc[u] = "rpc_wait" /\ ~ready[u] => pc'[u] = "rpc_wait"
        /\ pc'[u] = "rpc_wait" => UNCHANGED <<my[u], rpcError[u], ready[u]>>

(* Waiting, in the next state. *)
Expected(m) ==
    m.rpc => pc'[m.from] = "rpc_wait" /\ my'[m.from] = m /\ ~ready'[m.from]

(* Such a step leaves a waiting caller waiting... *)
LEMMA WaitingKept ==
  ASSUME Undisturbed, NEW m \in Message, Waiting(m)
  PROVE  Expected(m)
BY DEF Undisturbed, Waiting, Expected, Message

(* ... and what each caller may rely on... *)
LEMMA CallersKept ==
  ASSUME Typed, Requests, Undisturbed, callbacks \subseteq callbacks',
         handled <= handled', handled' \in Nat, NEW u \in Callers, pc'[u] = "rpc_wait"
  PROVE  /\ my'[u] \in Message
         /\ my'[u].known => my'[u].type \in callbacks'
         /\ rpcError'[u] = "not_found" => ~my'[u].known
         /\ ready'[u] => my'[u].n <= handled'
<1>1. pc[u] = "rpc_wait" /\ my'[u] = my[u] /\ rpcError'[u] = rpcError[u] /\ ready'[u] = ready[u]
  BY DEF Undisturbed
<1>2. /\ my[u] \in Message /\ (my[u].known => my[u].type \in callbacks)
      /\ rpcError[u] = "not_found" => ~my[u].known
      /\ ready[u] => my[u].n <= handled
  BY <1>1 DEF Requests
<1>3. handled \in Nat /\ my[u].n \in Nat
  BY <1>2 DEF Typed, TypeOK, Message
<1> QED
  BY <1>1, <1>2, <1>3

(* ... whether the queue stays as it is... *)
LEMMA RequestsKept ==
  ASSUME Typed, Requests, Undisturbed, UNCHANGED queue,
         callbacks \subseteq callbacks', handled <= handled', handled' \in Nat,
         wpc' \in Pre \cup {"answer"} => wpc \in Pre \cup {"answer"} /\ msg' = msg,
         wpc' \in Hand \ Pre => msg'.rpc
  PROVE  Requests'
<1>1. \A i \in 1 .. Len(queue') : queue'[i] # STOP => Expected(queue'[i])
  <2> SUFFICES ASSUME NEW i \in 1 .. Len(queue), queue[i] # STOP
               PROVE  Expected(queue[i])
    OBVIOUS
  <2>1. queue[i] \in Message /\ Waiting(queue[i])
    BY ElementOfSeq DEF Typed, TypeOK, Requests
  <2> QED
    BY <2>1, WaitingKept
<1>2. wpc' \in Pre \cup {"answer"} => Expected(msg')
  <2> SUFFICES ASSUME wpc' \in Pre \cup {"answer"} PROVE Expected(msg')
    OBVIOUS
  <2>1. msg \in Message /\ Waiting(msg) /\ msg' = msg
    BY DEF Typed, Locals, Hand, Requests
  <2> QED
    BY <2>1, WaitingKept
<1> QED
  BY <1>1, <1>2, CallersKept DEF Requests, Waiting, Expected

(* ... or gets one more element. *)
LEMMA RequestsQueued ==
  ASSUME Typed, Requests, Undisturbed, NEW m \in Message \cup {STOP},
         m # STOP => Expected(m), queue' = Append(queue, m),
         UNCHANGED <<wpc, msg, handled, callbacks>>
  PROVE  Requests'
<1>1. /\ queue \in Seq(Message \cup {STOP}) /\ Len(queue) \in Nat
      /\ handled \in Nat
  BY LenProperties DEF Typed, TypeOK
<1>2. /\ Len(queue') = Len(queue) + 1 /\ queue'[Len(queue) + 1] = m
      /\ \A i \in 1 .. Len(queue) : queue'[i] = queue[i]
  BY <1>1, Appended
<1>3. ASSUME NEW i \in 1 .. Len(queue'), queue'[i] # STOP
      PROVE  Expected(queue'[i])
  <2>1. CASE i = Len(queue) + 1
    BY <1>2, <1>3, <2>1
  <2>2. CASE i \in 1 .. Len(queue)
    <3>1. queue[i] \in Message /\ Waiting(queue[i]) /\ queue'[i] = queue[i]
      BY <1>1, <1>2, <1>3, <2>2, ElementOfSeq DEF Requests
    <3> QED
      BY <3>1, WaitingKept
  <2> QED
    BY <1>1, <1>2, <2>1, <2>2
<1>4. wpc' \in Pre \cup {"answer"} => Expected(msg')
  <2> SUFFICES ASSUME wpc \in Pre \cup {"answer"} PROVE Expected(msg')
    OBVIOUS
  <2>1. msg \in Message /\ Waiting(msg)
    BY DEF Typed, Locals, Hand, Requests
  <2> QED
    BY <2>1, WaitingKept
<1>5. wpc' \in Hand \ Pre => msg'.rpc
  BY DEF Requests
<1>6. ASSUME NEW u \in Callers, pc'[u] = "rpc_wait"
      PROVE  /\ my'[u] \in Message
             /\ my'[u].known => my'[u].type \in callbacks'
             /\ rpcError'[u] = "not_found" => ~my'[u].known
             /\ ready'[u] => my'[u].n <= handled'
  BY <1>1, <1>6, CallersKept
<1> QED
  BY <1>3, <1>4, <1>5, <1>6 DEF Requests, Waiting, Expected

(* A request waits for its own answer, and gets it once. *)
LEMMA RequestsHold == Spec => []Requests
<1>1. Init => Requests
  BY DEF Init, Requests, Waiting, Hand, Pre
<1>2. Typed /\ Numbers /\ Requests /\ [Next]_vars => Requests'
  <2> SUFFICES ASSUME Typed, Numbers, Requests, [Next]_vars PROVE Requests'
    OBVIOUS
  <2> USE WorkerAssumption
      DEF Typed, TypeOK, Locals, Hand, Pre, callVars, rpcVars, threadVars, signalVars,
          histVars, Goto, Call
  <2>1. ASSUME NEW t \in Callers, NEW type \in Types, RegisterCall(t, type)
        PROVE  Requests'
    BY <2>1, RequestsKept DEF RegisterCall, Requests, Undisturbed
  <2>2. ASSUME NEW t \in Callers, NEW type \in Types, Send(t, type)
        PROVE  Requests'
    <3>1. NewMessage(t, FALSE, type) \in Message /\ ~NewMessage(t, FALSE, type).rpc
      BY DEF NewMessage, Message
    <3>2. /\ Call(t, "idle") /\ queue' = Append(queue, NewMessage(t, FALSE, type))
          /\ UNCHANGED <<wpc, msg, handled, my, rpcError, ready, callbacks>>
      BY <2>2, Zenon DEF Send, threadVars, rpcVars
    <3>3. Undisturbed
      BY <3>2 DEF Undisturbed
    <3> QED
      BY <3>1, <3>2, <3>3, RequestsQueued DEF Waiting, Expected
  <2>3. ASSUME NEW t \in Callers, NEW type \in Types, RpcPush(t, type)
        PROVE  Requests'
    <3>0. NewMessage(t, TRUE, type) \in Message
      BY DEF NewMessage, Message
    <3>1. PICK m \in Message : m = NewMessage(t, TRUE, type)
      BY <3>0
    <3>2. m.from = t /\ m.type = type /\ (m.known => type \in callbacks)
      BY <3>1 DEF NewMessage
    <3>3. /\ Call(t, "rpc_wait") /\ queue' = Append(queue, m)
          /\ my' = [my EXCEPT ![t] = m]
          /\ rpcError' = [rpcError EXCEPT ![t] = "ok"]
          /\ ready' = [ready EXCEPT ![t] = FALSE]
          /\ UNCHANGED <<wpc, msg, handled, callbacks>>
      BY <2>3, <3>1, Zenon DEF RpcPush, threadVars
    <3>4. /\ pc[t] = "idle" /\ pc'[t] = "rpc_wait" /\ my'[t] = m
          /\ rpcError'[t] = "ok" /\ ~ready'[t]
      BY <3>3
    <3>5. \A u \in Callers : u # t => /\ pc'[u] = pc[u] /\ my'[u] = my[u]
                                     /\ rpcError'[u] = rpcError[u] /\ ready'[u] = ready[u]
      BY <3>3
    <3>6. ASSUME NEW p \in Message, Waiting(p) PROVE Expected(p)
      BY <3>4, <3>5, <3>6 DEF Waiting, Expected, Message
    <3>7. Expected(m)
      BY <3>2, <3>4 DEF Waiting, Expected
    <3>8. \A i \in 1 .. Len(queue') : queue'[i] # STOP => Expected(queue'[i])
      <4>1. /\ queue \in Seq(Message \cup {STOP}) /\ Len(queue) \in Nat
            /\ \A i \in 1 .. Len(queue) : queue[i] \in Message \cup {STOP}
        BY LenProperties, ElementOfSeq
      <4>2. /\ Len(queue') = Len(queue) + 1 /\ queue'[Len(queue) + 1] = m
            /\ \A i \in 1 .. Len(queue) : queue'[i] = queue[i]
        BY <3>3, <4>1, Appended
      <4>3. \A i \in 1 .. Len(queue) : queue[i] # STOP => Waiting(queue[i])
        BY DEF Requests
      <4>4. TAKE i \in 1 .. Len(queue')
      <4>5. HAVE queue'[i] # STOP
      <4>6. CASE i = Len(queue) + 1
        BY <3>7, <4>2, <4>6
      <4>7. CASE i \in 1 .. Len(queue)
        BY <3>6, <4>1, <4>2, <4>3, <4>5, <4>7
      <4> QED
        BY <4>1, <4>2, <4>6, <4>7
    <3>9. wpc' \in Pre \cup {"answer"} => Expected(msg')
      BY <3>3, <3>6 DEF Requests, Waiting, Expected
    <3>10. ASSUME NEW u \in Callers, pc'[u] = "rpc_wait"
           PROVE  /\ my'[u] \in Message
                  /\ my'[u].known => my'[u].type \in callbacks'
                  /\ rpcError'[u] = "not_found" => ~my'[u].known
                  /\ ready'[u] => my'[u].n <= handled'
      <4>1. CASE u = t
        BY <3>2, <3>3, <3>4, <4>1
      <4>2. CASE u # t
        BY <3>3, <3>5, <3>10, <4>2 DEF Requests
      <4> QED
        BY <4>1, <4>2
    <3>11. wpc' \in Hand \ Pre => msg'.rpc
      BY <3>3 DEF Requests
    <3> QED
      BY <3>8, <3>9, <3>10, <3>11 DEF Requests, Waiting, Expected
  <2>4. ASSUME NEW t \in Callers, Register(t) PROVE Requests'
    BY <2>4, RequestsKept DEF Register, Requests, Undisturbed
  <2>5. ASSUME NEW t \in Callers, RpcReturn(t) PROVE Requests'
    BY <2>5, RequestsKept DEF RpcReturn, Requests, Undisturbed
  <2>6. ASSUME NEW t \in Callers, TerminateCall(t) PROVE Requests'
    BY <2>6, RequestsKept DEF TerminateCall, Requests, Undisturbed
  <2>7. ASSUME NEW t \in Callers, TerminatePush(t) PROVE Requests'
    <3>1. /\ queue' = Append(queue, STOP)
          /\ UNCHANGED <<wpc, msg, handled, callbacks>>
      BY <2>7 DEF TerminatePush
    <3>2. Undisturbed
      BY <2>7 DEF TerminatePush, Undisturbed
    <3> QED
      BY <3>1, <3>2, RequestsQueued
  <2>8. ASSUME NEW t \in Callers, TerminateReturn(t) PROVE Requests'
    BY <2>8, RequestsKept DEF TerminateReturn, Joined, Requests, Undisturbed
  <2>9. ASSUME RunCall PROVE Requests'
    BY <2>9, RequestsKept DEF RunCall, Requests, Undisturbed
  <2>10. ASSUME RunLock PROVE Requests'
    BY <2>10, RequestsKept DEF RunLock, Requests, Undisturbed
  <2>11. ASSUME RunSystemError PROVE Requests'
    BY <2>11, RequestsKept DEF RunSystemError, Requests, Undisturbed
  <2>12. ASSUME RunCreate PROVE Requests'
    BY <2>12, RequestsKept DEF RunCreate, Requests, Undisturbed
  <2>13. ASSUME RunWait PROVE Requests'
    BY <2>13, RequestsKept DEF RunWait, Requests, Undisturbed
  <2>14. ASSUME RunJoin PROVE Requests'
    BY <2>14, RequestsKept DEF RunJoin, Joined, Requests, Undisturbed
  <2>15. ASSUME RunUnlock PROVE Requests'
    BY <2>15, RequestsKept DEF RunUnlock, Requests, Undisturbed
  <2>16. ASSUME RunReturn PROVE Requests'
    BY <2>16, RequestsKept DEF RunReturn, Requests, Undisturbed
  <2>17. ASSUME Done PROVE Requests'
    BY <2>17, RequestsKept DEF Done, Joined, Requests, Undisturbed
  <2>18. ASSUME OnInit PROVE Requests'
    BY <2>18, RequestsKept DEF OnInit, Requests, Undisturbed
  <2>19. ASSUME SetRunning PROVE Requests'
    BY <2>19, RequestsKept DEF SetRunning, Requests, Undisturbed
  <2>20. ASSUME Pop PROVE Requests'
    <3>1. /\ wpc = "pop" /\ queue # <<>> /\ queue' = Tail(queue)
          /\ IF Head(queue) = STOP THEN wpc' = "exit" /\ msg' = msg
             ELSE wpc' = "dispatch" /\ msg' = Head(queue)
          /\ UNCHANGED <<pc, my, rpcError, ready, callbacks, handled>>
      BY <2>20 DEF Pop
    <3>2. /\ queue \in Seq(Message \cup {STOP}) /\ Len(queue) \in Nat
      BY LenProperties
    <3>3. /\ Len(queue) >= 1 /\ Head(queue) = queue[1]
          /\ Len(queue') = Len(queue) - 1
          /\ \A i \in 1 .. Len(queue) - 1 : queue'[i] = queue[i + 1]
      BY <3>1, <3>2, Popped
    <3>4. \A i \in 1 .. Len(queue') : i + 1 \in 1 .. Len(queue) /\ queue'[i] = queue[i + 1]
      BY <3>2, <3>3
    <3>5. \A i \in 1 .. Len(queue) : queue[i] # STOP => Waiting(queue[i])
      BY DEF Requests
    <3>6. \A i \in 1 .. Len(queue') : queue'[i] # STOP => Expected(queue'[i])
      BY <3>1, <3>4, <3>5 DEF Waiting, Expected
    <3>7. wpc' \in Pre \cup {"answer"} => Expected(msg')
      BY <3>1, <3>2, <3>3, <3>5 DEF Waiting, Expected
    <3> QED
      BY <3>1, <3>6, <3>7 DEF Requests, Waiting, Expected
  <2>21. ASSUME Dispatch PROVE Requests'
    <3>1. /\ UNCHANGED <<pc, my, ready, callbacks, queue>> /\ msg \in Message
          /\ wpc \in Pre /\ handled <= handled' /\ handled' \in Nat
          /\ Waiting(msg)
      BY <2>21 DEF Dispatch, Handled, Requests
    <3>2. /\ wpc' \in Hand => msg' = msg
          /\ wpc' \in Hand \ Pre => msg'.rpc
      BY <2>21 DEF Dispatch, Handled
    <3>3. \A i \in 1 .. Len(queue') : queue'[i] # STOP => Expected(queue'[i])
      BY <3>1 DEF Waiting, Expected, Requests
    <3>4. wpc' \in Pre \cup {"answer"} => Expected(msg')
      BY <3>1, <3>2 DEF Waiting, Expected
    <3>5. ASSUME NEW u \in Callers, pc[u] = "rpc_wait"
          PROVE  rpcError'[u] = "not_found" => ~my[u].known
      <4>1. CASE msg.rpc /\ msg.from = u
        BY <2>21, <3>1, <3>5, <4>1 DEF Dispatch, Waiting, Expected, Requests
      <4>2. CASE ~(msg.rpc /\ msg.from = u)
        <5>1. rpcError'[u] = rpcError[u]
          BY <2>21, <3>1, <4>2 DEF Dispatch, Message
        <5> QED
          BY <3>5, <5>1 DEF Requests
      <4> QED
        BY <4>1, <4>2
    <3>6. \A u \in Callers : pc[u] = "rpc_wait" =>
             /\ my[u] \in Message /\ (my[u].known => my[u].type \in callbacks)
             /\ ready[u] => my[u].n <= handled'
      <4>1. TAKE u \in Callers
      <4>2. HAVE pc[u] = "rpc_wait"
      <4>3. /\ my[u] \in Message /\ (my[u].known => my[u].type \in callbacks)
            /\ ready[u] => my[u].n <= handled
        BY <4>2 DEF Requests
      <4>4. my[u].n \in Nat
        BY <4>3 DEF Message
      <4> QED
        BY <3>1, <4>3, <4>4
    <3> QED
      BY <3>1, <3>2, <3>3, <3>4, <3>5, <3>6 DEF Requests, Waiting, Expected
  <2>22. ASSUME Callback PROVE Requests'
    BY <2>22, RequestsKept DEF Callback, Handled, Requests, Undisturbed
  <2>23. ASSUME ThreadRegister PROVE Requests'
    BY <2>23, RequestsKept DEF ThreadRegister, Handled, Requests, Undisturbed
  <2>24. ASSUME AnswerStore PROVE Requests'
    <3>1. /\ wpc = "answer" /\ wpc' = "answer_broadcast" /\ msg \in Message
          /\ ready' = [ready EXCEPT ![msg.from] = TRUE]
          /\ UNCHANGED <<pc, my, rpcError, msg, queue, callbacks, handled>>
      BY <2>24 DEF AnswerStore
    <3>2. /\ msg.rpc /\ msg.from \in Callers /\ my[msg.from] = msg
          /\ msg.n <= handled
      BY <3>1 DEF Requests, Waiting, Message, Numbers
    <3>3. ASSUME NEW i \in 1 .. Len(queue), queue[i] # STOP
          PROVE  Expected(queue[i])
      <4>1. Waiting(queue[i]) /\ msg.n < queue[i].n /\ queue[i].n \in Nat /\ msg.n \in Nat
        BY <3>1, <3>3, ElementOfSeq DEF Requests, Numbers, Message
      <4>2. queue[i].rpc => queue[i].from # msg.from
        BY <3>2, <4>1 DEF Waiting, Expected
      <4>3. queue[i].from \in Callers
        BY <3>3, ElementOfSeq DEF Message
      <4> QED
        BY <3>1, <4>1, <4>2, <4>3 DEF Waiting, Expected
    <3>4. \A u \in Callers : ready'[u] => ready[u] \/ u = msg.from
      BY <3>1
    <3>5. \A u \in Callers : pc'[u] = "rpc_wait" =>
             /\ my'[u] \in Message
             /\ my'[u].known => my'[u].type \in callbacks'
             /\ rpcError'[u] = "not_found" => ~my'[u].known
             /\ ready'[u] => my'[u].n <= handled'
      BY <3>1, <3>2, <3>4 DEF Requests
    <3> QED
      BY <3>1, <3>2, <3>3, <3>5 DEF Requests, Waiting, Expected
  <2>25. ASSUME AnswerBroadcast PROVE Requests'
    BY <2>25, RequestsKept DEF AnswerBroadcast, Requests, Undisturbed
  <2>26. ASSUME OnExit PROVE Requests'
    BY <2>26, RequestsKept DEF OnExit, Requests, Undisturbed
  <2>27. ASSUME SetTerminated PROVE Requests'
    BY <2>27, RequestsKept DEF SetTerminated, Requests, Undisturbed
  <2>28. ASSUME LastBroadcast PROVE Requests'
    BY <2>28, RequestsKept DEF LastBroadcast, Requests, Undisturbed
  <2>29. CASE UNCHANGED vars
    BY <2>29, RequestsKept DEF vars, Requests, Undisturbed
  <2> QED
    BY <2>1, <2>2, <2>3, <2>4, <2>5, <2>6, <2>7, <2>8, <2>9, <2>10, <2>11,
       <2>12, <2>13, <2>14, <2>15, <2>16, <2>17, <2>18, <2>19, <2>20, <2>21, <2>22,
       <2>23, <2>24, <2>25, <2>26, <2>27, <2>28, <2>29
       DEF Next, Run, Thread, NewCall, Inside
<1> QED
  BY <1>1, <1>2, Typing, NumbersHold, PTL DEF Spec

(* A caller that sees its sig_ready finds its own request dealt with, with *)
(* the callback that was registered before.                                *)
THEOREM Answered == Spec => []AnswerIsOwn
<1>1. Requests => AnswerIsOwn
  BY DEF Requests, AnswerIsOwn
<1> QED
  BY <1>1, RequestsHold, PTL

===============================================================================
