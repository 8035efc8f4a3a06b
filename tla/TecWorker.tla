------------------------------- MODULE TecWorker -------------------------------
(***************************************************************************)
(* tecc_worker.c: a daemon whose thread takes messages and requests (RPC)  *)
(* from a queue and hands them to the callbacks registered for their       *)
(* types, from its start by TecWorker_run_ to its end by                   *)
(* TecWorker_terminate_ and TecWorker_done_.                               *)
(*                                                                         *)
(* The queue is a sequence whose ends change in single steps (TecQueue     *)
(* implements Fifo), a signal a latch (TecSignal implements Latch), the    *)
(* handler table the set of types that have a callback.  That              *)
(* TecSignal_set still works on its mutex after the value can be seen is   *)
(* kept where the signal may be destroyed by then.                         *)
(*                                                                         *)
(* Callers register, send and request at any time between init and done,   *)
(* and terminate a worker they have seen running.  One of them, the owner, *)
(* also calls run once and done last.  on_init and the callbacks may       *)
(* register types of their own; they do not send, request or terminate.    *)
(***************************************************************************)
EXTENDS Naturals, Sequences

CONSTANTS Callers,
          Owner,
          Types,      \* message types
          MaxCalls,   \* bound on the calls of one caller
          NONE,
          STOP        \* the NULL message

ASSUME WorkerAssumption == Owner \in Callers /\ MaxCalls \in Nat

VARIABLES
    phase, ret,      \* what the owner has done with the worker; run's result
    pc, calls,       \* the callers; how many calls each has made
    my, rpcError,    \* request and result of the TecRPC on a caller's stack
    ready,           \* the value of its sig_ready
    wpc, msg,        \* the worker thread and the message it has in hand
    thr,             \* TecThread_ok of worker_thread
    error, sig_running, sig_terminated, queue, callbacks, lock,
    posted,          \* history: how many messages have been queued ...
    handled,         \* ... and dealt with
    stopAt           \* history: the value of posted at the first STOP

callVars == <<pc, calls, my>>
rpcVars == <<rpcError, ready>>
threadVars == <<wpc, msg>>
signalVars == <<sig_running, sig_terminated>>
histVars == <<posted, handled, stopAt>>

vars == <<phase, ret, callVars, rpcVars, threadVars, thr, error, signalVars,
          queue, callbacks, lock, histVars>>

Message == [n : Nat \ {0}, from : Callers, rpc : BOOLEAN, type : Types,
            known : BOOLEAN]

ASSUME MarkAssumption == NONE \notin Callers /\ NONE \notin Nat /\ STOP \notin Message

-------------------------------------------------------------------------------

(* TecWorker_init. *)
Init == /\ phase = "new"
        /\ ret = "ok"
        /\ pc = [t \in Callers |-> "idle"]
        /\ calls = [t \in Callers |-> 0]
        /\ my = [t \in Callers |-> NONE]
        /\ rpcError = [t \in Callers |-> "ok"]
        /\ ready = [t \in Callers |-> FALSE]
        /\ wpc = "none"
        /\ msg = NONE
        /\ thr = FALSE
        /\ error = "ok"
        /\ sig_running = FALSE
        /\ sig_terminated = FALSE
        /\ queue = <<>>
        /\ callbacks = {}
        /\ lock = NONE
        /\ posted = 0
        /\ handled = 0
        /\ stopAt = NONE

Goto(t, where) == pc' = [pc EXCEPT ![t] = where]

(* TecThread_join returns at once when the handle does not hold a thread. *)
Joined_Always == TRUE

Joined == thr => wpc = "ended"

(* A new call, by a caller that is in none. *)
Call(t, where) == /\ phase # "over"
                  /\ pc[t] = "idle"
                  /\ calls[t] < MaxCalls
                  /\ calls' = [calls EXCEPT ![t] = @ + 1]
                  /\ Goto(t, where)

NewMessage(t, rpc, type) ==
    [n |-> posted + 1, from |-> t, rpc |-> rpc, type |-> type,
     known |-> type \in callbacks]

-------------------------------------------------------------------------------

(* TecWorker_register_: one step under the lock. *)
RegisterCall(t, type) ==
    /\ Call(t, "register")
    /\ my' = [my EXCEPT ![t] = type]
    /\ UNCHANGED <<phase, ret, rpcVars, threadVars, thr, error, signalVars,
                   queue, callbacks, lock, histVars>>

Register(t) ==
    /\ pc[t] = "register"
    /\ lock = NONE
    /\ callbacks' = callbacks \cup {my[t]}
    /\ my' = [my EXCEPT ![t] = NONE]
    /\ Goto(t, "idle")
    /\ UNCHANGED <<phase, ret, calls, rpcVars, threadVars, thr, error,
                   signalVars, queue, lock, histVars>>

(* TecWorker_send_. *)
Send(t, type) ==
    /\ Call(t, "idle")
    /\ queue' = Append(queue, NewMessage(t, FALSE, type))
    /\ posted' = posted + 1
    /\ UNCHANGED <<phase, ret, my, rpcVars, threadVars, thr, error,
                   signalVars, callbacks, lock, handled, stopAt>>

(* TecWorker_rpc_: initialise the TecRPC and its signal and queue them... *)
RpcPush(t, type) ==
    /\ Call(t, "rpc_wait")
    /\ my' = [my EXCEPT ![t] = NewMessage(t, TRUE, type)]
    /\ rpcError' = [rpcError EXCEPT ![t] = "ok"]
    /\ ready' = [ready EXCEPT ![t] = FALSE]
    /\ queue' = Append(queue, NewMessage(t, TRUE, type))
    /\ posted' = posted + 1
    /\ UNCHANGED <<phase, ret, threadVars, thr, error, signalVars,
                   callbacks, lock, handled, stopAt>>

(* ... and, when the value of the signal is seen, destroy it and return. *)
RpcReturn(t) ==
    /\ pc[t] = "rpc_wait"
    /\ ready[t]
    /\ my' = [my EXCEPT ![t] = NONE]
    /\ Goto(t, "idle")
    /\ UNCHANGED <<phase, ret, calls, rpcVars, threadVars, thr, error,
                   signalVars, queue, callbacks, lock, histVars>>

-------------------------------------------------------------------------------

(* TecWorker_run_, called once. *)
RunCall ==
    /\ phase = "new"
    /\ pc[Owner] = "idle"
    /\ phase' = "run"
    /\ Goto(Owner, "run_lock")
    /\ UNCHANGED <<ret, calls, my, rpcVars, threadVars, thr, error,
                   signalVars, queue, callbacks, lock, histVars>>

RunLock ==
    /\ pc[Owner] = "run_lock"
    /\ lock = NONE
    /\ lock' = Owner
    /\ Goto(Owner, "run_create")
    /\ UNCHANGED <<phase, ret, calls, my, rpcVars, threadVars, thr, error,
                   signalVars, queue, callbacks, histVars>>

(* On both system errors run unlocks and returns the error.  Before there  *)
(* is a thread nobody but a registration, taken whole, holds the lock.     *)
RunSystemError ==
    /\ pc[Owner] \in {"run_lock", "run_create"}
    /\ lock' = NONE
    /\ ret' = "system"
    /\ phase' = "up"
    /\ Goto(Owner, "idle")
    /\ UNCHANGED <<calls, my, rpcVars, threadVars, thr, error, signalVars,
                   queue, callbacks, histVars>>

RunCreate ==
    /\ pc[Owner] = "run_create"
    /\ thr' = TRUE
    /\ wpc' = "init"
    /\ Goto(Owner, "run_wait")
    /\ UNCHANGED <<phase, ret, calls, my, rpcVars, msg, error, signalVars,
                   queue, callbacks, lock, histVars>>

(* Faulty: run does not wait for the thread to initialise. *)
RunWait_NotForInit ==
    /\ pc[Owner] = "run_wait"
    /\ Goto(Owner, IF error = "ok" THEN "run_unlock" ELSE "run_join")
    /\ UNCHANGED <<phase, ret, calls, my, rpcVars, threadVars, thr, error,
                   signalVars, queue, callbacks, lock, histVars>>

RunWait ==
    /\ pc[Owner] = "run_wait"
    /\ sig_running
    /\ Goto(Owner, IF error = "ok" THEN "run_unlock" ELSE "run_join")
    /\ UNCHANGED <<phase, ret, calls, my, rpcVars, threadVars, thr, error,
                   signalVars, queue, callbacks, lock, histVars>>

RunJoin ==
    /\ pc[Owner] = "run_join"
    /\ Joined
    /\ thr' = FALSE
    /\ Goto(Owner, "run_unlock")
    /\ UNCHANGED <<phase, ret, calls, my, rpcVars, threadVars, error,
                   signalVars, queue, callbacks, lock, histVars>>

RunUnlock ==
    /\ pc[Owner] = "run_unlock"
    /\ lock' = NONE
    /\ Goto(Owner, "run_return")
    /\ UNCHANGED <<phase, ret, calls, my, rpcVars, threadVars, thr, error,
                   signalVars, queue, callbacks, histVars>>

(* The error is read again, without the lock. *)
RunReturn ==
    /\ pc[Owner] = "run_return"
    /\ ret' = error
    /\ phase' = "up"
    /\ Goto(Owner, "idle")
    /\ UNCHANGED <<calls, my, rpcVars, threadVars, thr, error, signalVars,
                   queue, callbacks, lock, histVars>>

-------------------------------------------------------------------------------

(* TecWorker_terminate_: by the owner once run has returned, even with an  *)
(* error (examples/worker/request.c), by others after                      *)
(* TecDaemon_wait_until_running. *)
TerminateCall(t) ==
    /\ IF t = Owner THEN phase = "up" ELSE sig_running
    /\ Call(t, "term_lock")
    /\ UNCHANGED <<phase, ret, my, rpcVars, threadVars, thr, error,
                   signalVars, queue, callbacks, lock, histVars>>

(* Faulty: the stop message overtakes what is queued. *)
TerminatePush_InFront(t) ==
    /\ pc[t] = "term_lock"
    /\ lock = NONE
    /\ lock' = t
    /\ queue' = <<STOP>> \o queue
    /\ stopAt' = IF stopAt = NONE THEN posted ELSE stopAt
    /\ Goto(t, "term_wait")
    /\ UNCHANGED <<phase, ret, calls, my, rpcVars, threadVars, thr, error,
                   signalVars, callbacks, posted, handled>>

TerminatePush(t) ==
    /\ pc[t] = "term_lock"
    /\ lock = NONE
    /\ lock' = t
    /\ queue' = Append(queue, STOP)
    /\ stopAt' = IF stopAt = NONE THEN posted ELSE stopAt
    /\ Goto(t, "term_wait")
    /\ UNCHANGED <<phase, ret, calls, my, rpcVars, threadVars, thr, error,
                   signalVars, callbacks, posted, handled>>

(* Wait for sig_terminated, join the thread, unlock. *)
TerminateReturn(t) ==
    /\ pc[t] = "term_wait"
    /\ sig_terminated
    /\ Joined
    /\ thr' = FALSE
    /\ lock' = NONE
    /\ Goto(t, "idle")
    /\ UNCHANGED <<phase, ret, calls, my, rpcVars, threadVars, error,
                   signalVars, queue, callbacks, histVars>>

(* TecWorker_done_: after a run that failed (examples/worker/worker.c) or  *)
(* a termination, when nobody is inside a call.  A caller whose request    *)
(* was never answered only looks at its own signal.                        *)
Done ==
    /\ phase = "up"
    /\ ret # "ok" \/ sig_terminated
    /\ pc[Owner] = "idle"
    /\ \A t \in Callers : pc[t] \in {"idle", "rpc_wait"}
    /\ Joined
    /\ thr' = FALSE
    /\ phase' = "over"
    /\ UNCHANGED <<ret, callVars, rpcVars, threadVars, error, signalVars,
                   queue, callbacks, lock, histVars>>

-------------------------------------------------------------------------------

(* worker_func: on_init succeeds, fails, or calls TecWorker_register. *)
OnInit ==
    /\ wpc = "init"
    /\ \/ wpc' = "running" /\ error' \in {"ok", "init"}
       \/ wpc' = "init_register" /\ UNCHANGED error
    /\ UNCHANGED <<phase, ret, callVars, rpcVars, msg, thr, signalVars, queue,
                   callbacks, lock, histVars>>

SetRunning ==
    /\ wpc = "running"
    /\ sig_running' = TRUE
    /\ wpc' = IF error = "ok" THEN "pop" ELSE "terminated"
    /\ UNCHANGED <<phase, ret, callVars, rpcVars, msg, thr, error,
                   sig_terminated, queue, callbacks, lock, histVars>>

Pop ==
    /\ wpc = "pop"
    /\ queue # <<>>
    /\ queue' = Tail(queue)
    /\ IF Head(queue) = STOP
       THEN wpc' = "exit" /\ UNCHANGED msg
       ELSE wpc' = "dispatch" /\ msg' = Head(queue)
    /\ UNCHANGED <<phase, ret, callVars, rpcVars, thr, error, signalVars,
                   callbacks, lock, histVars>>

(* A message is dealt with: a request has to be answered. *)
Handled == /\ handled' = handled + 1
           /\ wpc' = IF msg.rpc THEN "answer" ELSE "pop"
           /\ msg' = IF msg.rpc THEN msg ELSE NONE

(* Faulty variants: an answer before the callback has run, and none when   *)
(* there is no callback.                                                   *)
Dispatch_AnswerFirst ==
    /\ wpc = "dispatch"
    /\ rpcError' = IF msg.rpc THEN [rpcError EXCEPT ![msg.from] = "ok"] ELSE rpcError
    /\ wpc' = IF msg.rpc THEN "answer" ELSE "call"
    /\ UNCHANGED <<phase, ret, callVars, ready, msg, thr, error, signalVars,
                   queue, callbacks, lock, histVars>>

Dispatch_NotFoundUnanswered ==
    /\ wpc = "dispatch"
    /\ rpcError' = IF msg.rpc THEN [rpcError EXCEPT ![msg.from] = "ok"] ELSE rpcError
    /\ IF msg.type \in callbacks
       THEN wpc' = "call" /\ UNCHANGED <<msg, handled>>
       ELSE wpc' = "pop" /\ msg' = NONE /\ handled' = handled + 1
    /\ UNCHANGED <<phase, ret, callVars, ready, thr, error, signalVars,
                   queue, callbacks, lock, posted, stopAt>>

(* dispatch, on_msg and on_rpc: look the callback up, without the lock. *)
Dispatch ==
    /\ wpc = "dispatch"
    /\ rpcError' = IF msg.rpc
                   THEN [rpcError EXCEPT ![msg.from] =
                            IF msg.type \in callbacks THEN "ok" ELSE "not_found"]
                   ELSE rpcError
    /\ IF msg.type \in callbacks
       THEN wpc' = "call" /\ UNCHANGED <<msg, handled>>
       ELSE Handled
    /\ UNCHANGED <<phase, ret, callVars, ready, thr, error, signalVars,
                   queue, callbacks, lock, posted, stopAt>>

(* The callback runs, and may call TecWorker_register. *)
Callback ==
    /\ wpc = "call"
    /\ \/ Handled
       \/ wpc' = "call_register" /\ UNCHANGED <<msg, handled>>
    /\ UNCHANGED <<phase, ret, callVars, rpcVars, thr, error, signalVars,
                   queue, callbacks, lock, posted, stopAt>>

(* TecWorker_register_ called by on_init or by a callback. *)
ThreadRegister ==
    /\ wpc \in {"init_register", "call_register"}
    /\ lock = NONE
    /\ \E type \in Types : callbacks' = callbacks \cup {type}
    /\ IF wpc = "init_register"
       THEN wpc' = "running" /\ UNCHANGED <<msg, handled>>
       ELSE Handled
    /\ UNCHANGED <<phase, ret, callVars, rpcVars, thr, error, signalVars,
                   queue, lock, posted, stopAt>>

(* TecSignal_set on the caller's sig_ready: the value first... *)
AnswerStore ==
    /\ wpc = "answer"
    /\ ready' = [ready EXCEPT ![msg.from] = TRUE]
    /\ wpc' = "answer_broadcast"
    /\ UNCHANGED <<phase, ret, callVars, rpcError, msg, thr, error, signalVars,
                   queue, callbacks, lock, histVars>>

(* ... then its mutex and condition variable. *)
AnswerBroadcast ==
    /\ wpc = "answer_broadcast"
    /\ wpc' = "pop"
    /\ msg' = NONE
    /\ UNCHANGED <<phase, ret, callVars, rpcVars, thr, error, signalVars,
                   queue, callbacks, lock, histVars>>

(* on_exit, after a loop that ended: none, or one that may fail. *)
OnExit ==
    /\ wpc = "exit"
    /\ error' \in {"ok", "exit"}
    /\ wpc' = "terminated"
    /\ UNCHANGED <<phase, ret, callVars, rpcVars, msg, thr, signalVars,
                   queue, callbacks, lock, histVars>>

(* Faulty: a thread that did not serve leaves without a word. *)
SetTerminated_IfServed ==
    /\ wpc = "terminated"
    /\ sig_terminated' = (error # "init")
    /\ wpc' = "last_broadcast"
    /\ UNCHANGED <<phase, ret, callVars, rpcVars, msg, thr, error, sig_running,
                   queue, callbacks, lock, histVars>>

SetTerminated ==
    /\ wpc = "terminated"
    /\ sig_terminated' = TRUE
    /\ wpc' = "last_broadcast"
    /\ UNCHANGED <<phase, ret, callVars, rpcVars, msg, thr, error, sig_running,
                   queue, callbacks, lock, histVars>>

LastBroadcast ==
    /\ wpc = "last_broadcast"
    /\ wpc' = "ended"
    /\ UNCHANGED <<phase, ret, callVars, rpcVars, msg, thr, error, signalVars,
                   queue, callbacks, lock, histVars>>

-------------------------------------------------------------------------------

Run == \/ RunLock \/ RunSystemError \/ RunCreate \/ RunWait
       \/ RunJoin \/ RunUnlock \/ RunReturn

Inside(t) == Register(t) \/ RpcReturn(t) \/ TerminatePush(t) \/ TerminateReturn(t)

NewCall(t) == \/ \E type \in Types : \/ RegisterCall(t, type)
                                     \/ Send(t, type)
                                     \/ RpcPush(t, type)
              \/ TerminateCall(t)

Thread == \/ OnInit \/ ThreadRegister \/ SetRunning
          \/ Pop \/ Dispatch \/ Callback
          \/ AnswerStore \/ AnswerBroadcast
          \/ OnExit \/ SetTerminated \/ LastBroadcast

Next == \/ RunCall \/ Run \/ Done \/ Thread
        \/ \E t \in Callers : NewCall(t) \/ Inside(t)

Spec == Init /\ [][Next]_vars

(* Every thread runs when it can; no caller has to make a call. *)
FairSpec == /\ Spec
            /\ WF_vars(Run)
            /\ \A t \in Callers : WF_vars(Inside(t))
            /\ WF_vars(Thread)

-------------------------------------------------------------------------------

(* Types; the thread never takes the stop message for a message. *)
TypeOK ==
    /\ phase \in {"new", "run", "up", "over"}
    /\ ret \in {"ok", "system", "init", "exit"}
    /\ pc \in [Callers -> {"idle", "register", "rpc_wait", "run_lock",
                           "run_create", "run_wait", "run_join", "run_unlock",
                           "run_return", "term_lock", "term_wait"}]
    /\ calls \in [Callers -> 0 .. MaxCalls]
    /\ my \in [Callers -> Message \cup Types \cup {NONE}]
    /\ rpcError \in [Callers -> {"ok", "not_found"}]
    /\ ready \in [Callers -> BOOLEAN]
    /\ wpc \in {"none", "init", "init_register", "running", "pop", "dispatch",
                "call", "call_register", "answer", "answer_broadcast", "exit",
                "terminated", "last_broadcast", "ended"}
    /\ msg \in Message \cup {NONE}
    /\ thr \in BOOLEAN
    /\ error \in {"ok", "init", "exit"}
    /\ sig_running \in BOOLEAN
    /\ sig_terminated \in BOOLEAN
    /\ queue \in Seq(Message \cup {STOP})
    /\ callbacks \in SUBSET Types
    /\ lock \in Callers \cup {NONE}
    /\ posted \in Nat
    /\ handled \in Nat
    /\ stopAt \in Nat \cup {NONE}

Leaving == wpc \in {"exit", "terminated", "last_broadcast", "ended"}

(* Messages are dispatched in the order they were sent, all of those sent  *)
(* before the first call of terminate (tecc_worker.c:139, "Enqueues a      *)
(* termination message") and no other, before the worker reports that it   *)
(* has terminated; none if on_init failed.                                 *)
DrainedBeforeExit ==
    /\ wpc \in {"dispatch", "call", "call_register"} => msg.n = handled + 1
    /\ Leaving => handled = IF error = "init" THEN 0 ELSE stopAt

(* A caller whose sig_ready is set finds its own request dealt with, and   *)
(* never the answer that there is no handler if the type was registered    *)
(* before the request, whoever registers or requests meanwhile.            *)
AnswerIsOwn ==
    \A t \in Callers :
        (pc[t] = "rpc_wait" /\ ready[t]) =>
            /\ my[t].n <= handled
            /\ rpcError[t] = "not_found" => ~my[t].known

(* run returns the error of on_init exactly when on_init has failed, and   *)
(* one of on_exit only if somebody has terminated the worker meanwhile.    *)
RunResult ==
    phase \in {"up", "over"} =>
        /\ ret = "init" <=> error = "init"
        /\ ret = "system" <=> wpc = "none"
        /\ ret = "exit" => stopAt # NONE

(* done destroys signals and queue when the thread, which works on         *)
(* sig_terminated after terminate could see its value, has ended.          *)
WorkerOutlivesThread == TypeOK /\ (phase = "over" => wpc \in {"none", "ended"})

(* The thread waits for the lock of a caller that waits for the thread. *)
SelfLocked == \/ wpc = "init_register" /\ lock # NONE
              \/ wpc = "call_register" /\ lock # NONE /\ pc[lock] = "term_wait"

NeverRuns == phase \in {"up", "over"} /\ wpc = "none"

TerminatesNobody(t) == pc[t] = "term_wait" /\ NeverRuns

(* Run and terminate return, unless on_init or a callback registers a      *)
(* type at the wrong moment or terminate is called without a thread: then  *)
(* thread and caller, or the caller, wait for ever.                        *)
LifeCycleCallsReturn ==
    /\ \A t \in Callers :
          pc[t] \notin {"idle", "register", "rpc_wait"} ~>
              pc[t] = "idle" \/ SelfLocked \/ NeverRuns
    /\ [](SelfLocked => []SelfLocked)
    /\ \A t \in Callers : [](TerminatesNobody(t) => []TerminatesNobody(t))

Serving == /\ wpc \notin {"none", "init", "init_register"}
           /\ error # "init"

BehindStop(t) == stopAt # NONE /\ my[t].n > stopAt

WaitsForNobody(t) == /\ pc[t] = "rpc_wait"
                     /\ BehindStop(t) \/ NeverRuns \/ error = "init"

(* "RPC-style query to a service (blocks until reply)" (tecc_daemon.h:55): *)
(* a request queued before the first stop message at a worker that has     *)
(* been initialised is answered; one behind it, or to a worker without     *)
(* thread or whose on_init has failed, blocks for ever.                    *)
RequestsAnswered ==
    \A t \in Callers :
        /\ (pc[t] = "rpc_wait" /\ Serving /\ ~BehindStop(t)) ~>
               (pc[t] = "idle" \/ SelfLocked)
        /\ [](WaitsForNobody(t) => []WaitsForNobody(t))

(* "Destructor. Behavior undefined if threads are still waiting."          *)
(* (tecc_signal.h:51): the signal of a request is not destroyed while the  *)
(* thread that sets it is inside TecSignal_set.                            *)
SignalOutlivesSetter ==
    wpc = "answer_broadcast" => my[msg.from] = msg
===============================================================================
