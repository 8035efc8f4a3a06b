------------------------------ MODULE TecThrPool ------------------------------
(***************************************************************************)
(* tecc_thread_pool.c: a fixed number of nodes, each a thread with its own *)
(* queue, arena, payload slot and termination signal.  Callers hand tasks  *)
(* to the nodes in turn.                                                   *)
(*                                                                         *)
(* A node's queue is a sequence whose ends change in single steps          *)
(* (TecQueue implements Fifo), its arena the set of tasks allocated and    *)
(* not released (TecArena implements Allocator), its signal a latch        *)
(* (TecSignal implements Latch); that TecSignal_set still works on its     *)
(* mutex after the value can be seen is kept.                              *)
(*                                                                         *)
(* A task is named by the number of its enqueue.  A task function reads    *)
(* the payload it was given and returns; tasks do not enqueue tasks.       *)
(***************************************************************************)
EXTENDS Integers, Sequences, FiniteSets

CONSTANTS Callers,
          NThreads,   \* nthreads
          IntWidth,   \* bits of an int
          SizeWidth,  \* bits of a size_t
          MaxTasks,   \* bound on the number of enqueues
          NONE,
          STOP        \* the NULL message that ends a thread

Nodes == 0 .. NThreads - 1

Tasks == 0 .. MaxTasks - 1

ASSUME PoolAssumption == /\ NThreads \in Nat \ {0}
                         /\ MaxTasks \in Nat
                         /\ IntWidth \in Nat \ {0}
                         /\ SizeWidth \in Nat
                         /\ SizeWidth > IntWidth

(* What powers of two are, which the provers do not know. *)
ASSUME PowerAssumption == /\ 2 ^ (IntWidth - 1) \in Nat \ {0}
                          /\ 2 ^ IntWidth = 2 * 2 ^ (IntWidth - 1)
                          /\ \E k \in 1 .. 2 ^ SizeWidth : 2 ^ SizeWidth = k * 2 ^ IntWidth

ASSUME MarkAssumption == NONE \notin Tasks \cup Nodes /\ STOP \notin Tasks /\ NONE # STOP

VARIABLES
    mpc, mnode,      \* the thread that owns the pool, and its loop variable
    next_thread_index,
    thr,             \* TecThread_ok of each node
    q, live, payload, sig_terminated,
    freed,           \* nodes whose queue, arena and signal are destroyed
    tpc, task,       \* the thread of each node and the task it has in hand
    cpc, ndx, made,  \* each caller of enqueue and its local variables
    nodeOf,          \* history: the node each task was handed to
    given,           \* history: tasks with a payload that have not read it
    misread,         \* history: those that have read another one
    runs             \* history: how often each task has run

poolVars == <<mpc, mnode, thr, freed>>
nodeVars == <<q, live, payload, sig_terminated>>
threadVars == <<tpc, task>>
callVars == <<next_thread_index, cpc, ndx, made>>
histVars == <<nodeOf, given, misread, runs>>

vars == <<poolVars, nodeVars, threadVars, callVars, histVars>>

(* The tasks made so far. *)
Made == {t \in Tasks : nodeOf[t] # NONE}

-------------------------------------------------------------------------------

(* TecThrPool_init. *)
Init == /\ mpc = "run"
        /\ mnode = 0
        /\ next_thread_index = 0
        /\ thr = [n \in Nodes |-> FALSE]
        /\ q = [n \in Nodes |-> <<>>]
        /\ live = [n \in Nodes |-> {}]
        /\ payload = [n \in Nodes |-> NONE]
        /\ sig_terminated = [n \in Nodes |-> FALSE]
        /\ freed = {}
        /\ tpc = [n \in Nodes |-> "none"]
        /\ task = [n \in Nodes |-> NONE]
        /\ cpc = [c \in Callers |-> "idle"]
        /\ ndx = [c \in Callers |-> 0]
        /\ made = [c \in Callers |-> NONE]
        /\ nodeOf = [t \in Tasks |-> NONE]
        /\ given = {}
        /\ misread = {}
        /\ runs = [t \in Tasks |-> 0]

(* TecThrPool_run creates the threads one by one... *)
RunNode ==
    /\ mpc = "run"
    /\ mnode < NThreads
    /\ thr' = [thr EXCEPT ![mnode] = TRUE]
    /\ tpc' = [tpc EXCEPT ![mnode] = "pop"]
    /\ mnode' = mnode + 1
    /\ UNCHANGED <<mpc, freed, nodeVars, task, callVars, histVars>>

(* ... and stops at the first that cannot be created. *)
RunReturns ==
    /\ mpc = "run"
    /\ mpc' = "serve"
    /\ mnode' = 0
    /\ UNCHANGED <<thr, freed, nodeVars, threadVars, callVars, histVars>>

-------------------------------------------------------------------------------

(* A faulty index: the remainder of the signed counter itself, which C     *)
(* rounds towards zero.                                                    *)
Index_Signed(k) == IF k >= 0 THEN k % NThreads ELSE -((-k) % NThreads)

(* atomic_fetch_add on the int wraps; its old value is converted to size_t *)
(* before the remainder is taken. *)
Index(k) == (IF k >= 0 THEN k ELSE 2 ^ SizeWidth + k) % NThreads

Wrap(k) == IF k = 2 ^ (IntWidth - 1) - 1 THEN -(2 ^ (IntWidth - 1)) ELSE k + 1

(* TecThrPool_enqueue, the choice of a node.  Callers come after run, even *)
(* if it failed (examples/worker/thrpool.c ignores its result).            *)
EnqueueIndex(c) ==
    /\ mpc = "serve"
    /\ cpc[c] = "idle"
    /\ Cardinality(Made) < MaxTasks
    /\ ndx' = [ndx EXCEPT ![c] = Index(next_thread_index)]
    /\ next_thread_index' = Wrap(next_thread_index)
    /\ made' = [made EXCEPT ![c] = Cardinality(Made)]
    /\ nodeOf' = [nodeOf EXCEPT ![Cardinality(Made)] = Index(next_thread_index)]
    /\ cpc' = [cpc EXCEPT ![c] = "fill"]
    /\ UNCHANGED <<poolVars, nodeVars, threadVars, given, misread, runs>>

(* Allocate the task and copy the payload, if there is one, to the slot of *)
(* the node.  The copy races the task that is reading that slot: it is     *)
(* taken to come wholly before or after.                                   *)
EnqueueFill(c) ==
    LET n == ndx[c]
        t == made[c]
    IN  /\ cpc[c] = "fill"
        /\ live' = [live EXCEPT ![n] = @ \cup {t}]
        /\ \/ payload' = [payload EXCEPT ![n] = t] /\ given' = given \cup {t}
           \/ UNCHANGED <<payload, given>>
        /\ cpc' = [cpc EXCEPT ![c] = "push"]
        /\ UNCHANGED <<poolVars, q, sig_terminated, threadVars,
                       next_thread_index, ndx, made, nodeOf, misread, runs>>

EnqueuePush(c) ==
    /\ cpc[c] = "push"
    /\ q' = [q EXCEPT ![ndx[c]] = Append(@, made[c])]
    /\ cpc' = [cpc EXCEPT ![c] = "idle"]
    /\ ndx' = [ndx EXCEPT ![c] = 0]
    /\ made' = [made EXCEPT ![c] = NONE]
    /\ UNCHANGED <<poolVars, live, payload, sig_terminated, threadVars,
                   next_thread_index, histVars>>

-------------------------------------------------------------------------------

(* Faulty variants of the thread: an exit that nobody is told of, a pop    *)
(* that drops what is behind the first task.                               *)
SignalStore_Never(n) ==
    /\ tpc[n] = "leave"
    /\ tpc' = [tpc EXCEPT ![n] = "ended"]
    /\ UNCHANGED <<poolVars, nodeVars, task, callVars, histVars>>

(* task_func: the loop of a node's thread. *)
Pop_OneTask(n) ==
    /\ tpc[n] = "pop"
    /\ q[n] # <<>>
    /\ q' = [q EXCEPT ![n] = <<>>]
    /\ task' = [task EXCEPT ![n] = IF Head(q[n]) = STOP THEN NONE ELSE Head(q[n])]
    /\ tpc' = [tpc EXCEPT ![n] = IF Head(q[n]) = STOP THEN "leave" ELSE "execute"]
    /\ UNCHANGED <<poolVars, live, payload, sig_terminated, callVars, histVars>>

Pop(n) ==
    /\ tpc[n] = "pop"
    /\ q[n] # <<>>
    /\ q' = [q EXCEPT ![n] = Tail(@)]
    /\ task' = [task EXCEPT ![n] = IF Head(q[n]) = STOP THEN NONE ELSE Head(q[n])]
    /\ tpc' = [tpc EXCEPT ![n] = IF Head(q[n]) = STOP THEN "leave" ELSE "execute"]
    /\ UNCHANGED <<poolVars, live, payload, sig_terminated, callVars, histVars>>

Execute(n) ==
    /\ tpc[n] = "execute"
    /\ misread' = IF task[n] \in given /\ payload[n] # task[n]
                  THEN misread \cup {task[n]} ELSE misread
    /\ given' = given \ {task[n]}
    /\ runs' = [runs EXCEPT ![task[n]] = @ + 1]
    /\ tpc' = [tpc EXCEPT ![n] = "release"]
    /\ UNCHANGED <<poolVars, nodeVars, task, callVars, nodeOf>>

Release(n) ==
    /\ tpc[n] = "release"
    /\ live' = [live EXCEPT ![n] = @ \ {task[n]}]
    /\ task' = [task EXCEPT ![n] = NONE]
    /\ tpc' = [tpc EXCEPT ![n] = "pop"]
    /\ UNCHANGED <<poolVars, q, payload, sig_terminated, callVars, histVars>>

(* TecSignal_set: the value first, then the mutex and the broadcast. *)
SignalStore(n) ==
    /\ tpc[n] = "leave"
    /\ sig_terminated' = [sig_terminated EXCEPT ![n] = TRUE]
    /\ tpc' = [tpc EXCEPT ![n] = "signal"]
    /\ UNCHANGED <<poolVars, q, live, payload, task, callVars, histVars>>

SignalBroadcast(n) ==
    /\ tpc[n] = "signal"
    /\ tpc' = [tpc EXCEPT ![n] = "ended"]
    /\ UNCHANGED <<poolVars, nodeVars, task, callVars, histVars>>

-------------------------------------------------------------------------------

(* TecThrPool_done, called when every caller of enqueue has returned. *)
Done ==
    /\ mpc = "serve"
    /\ \A c \in Callers : cpc[c] = "idle"
    /\ mpc' = "stop"
    /\ UNCHANGED <<mnode, thr, freed, nodeVars, threadVars, callVars, histVars>>

DoneSkip ==
    /\ mpc = "stop"
    /\ mnode < NThreads
    /\ ~thr[mnode]
    /\ mpc' = "free"
    /\ UNCHANGED <<mnode, thr, freed, nodeVars, threadVars, callVars, histVars>>

(* Faulty variants of done: the stop message put in front of the queue, no *)
(* wait for the thread to end.                                             *)
DonePush_InFront ==
    /\ mpc = "stop"
    /\ mnode < NThreads
    /\ thr[mnode]
    /\ q' = [q EXCEPT ![mnode] = <<STOP>> \o @]
    /\ mpc' = "wait"
    /\ UNCHANGED <<mnode, thr, freed, live, payload, sig_terminated,
                   threadVars, callVars, histVars>>

DoneJoin_NoWait ==
    /\ mpc = "join"
    /\ thr' = [thr EXCEPT ![mnode] = FALSE]
    /\ mpc' = "free"
    /\ UNCHANGED <<mnode, freed, nodeVars, threadVars, callVars, histVars>>

DonePush ==
    /\ mpc = "stop"
    /\ mnode < NThreads
    /\ thr[mnode]
    /\ q' = [q EXCEPT ![mnode] = Append(@, STOP)]
    /\ mpc' = "wait"
    /\ UNCHANGED <<mnode, thr, freed, live, payload, sig_terminated,
                   threadVars, callVars, histVars>>

DoneWait ==
    /\ mpc = "wait"
    /\ sig_terminated[mnode]
    /\ mpc' = "join"
    /\ UNCHANGED <<mnode, thr, freed, nodeVars, threadVars, callVars, histVars>>

DoneJoin ==
    /\ mpc = "join"
    /\ tpc[mnode] = "ended"
    /\ thr' = [thr EXCEPT ![mnode] = FALSE]
    /\ mpc' = "free"
    /\ UNCHANGED <<mnode, freed, nodeVars, threadVars, callVars, histVars>>

(* The node's queue, arena and signal are destroyed, with whatever tasks   *)
(* are left in them.                                                       *)
DoneFree ==
    /\ mpc = "free"
    /\ freed' = freed \cup {mnode}
    /\ mnode' = mnode + 1
    /\ mpc' = "stop"
    /\ UNCHANGED <<thr, nodeVars, threadVars, callVars, histVars>>

DoneReturns ==
    /\ mpc = "stop"
    /\ mnode = NThreads
    /\ mpc' = "over"
    /\ UNCHANGED <<mnode, thr, freed, nodeVars, threadVars, callVars, histVars>>

Over == mpc = "over" /\ UNCHANGED vars

-------------------------------------------------------------------------------

Owner == \/ RunNode \/ RunReturns
         \/ DoneSkip \/ DonePush \/ DoneWait \/ DoneJoin \/ DoneFree \/ DoneReturns

Caller(c) == EnqueueFill(c) \/ EnqueuePush(c)

Thread(n) == \/ Pop(n) \/ Execute(n) \/ Release(n)
             \/ SignalStore(n) \/ SignalBroadcast(n)

Next == \/ Owner \/ Done
        \/ \E c \in Callers : EnqueueIndex(c) \/ Caller(c)
        \/ \E n \in Nodes : Thread(n)
        \/ Over

Spec == Init /\ [][Next]_vars

(* Every thread runs when it can; nobody has to call enqueue or done. *)
FairSpec == /\ Spec
            /\ WF_vars(Owner)
            /\ \A c \in Callers : WF_vars(Caller(c))
            /\ \A n \in Nodes : WF_vars(Thread(n))

-------------------------------------------------------------------------------

(* Types; the index is always that of a node, and no task runs twice. *)
TypeOK ==
    /\ mpc \in {"run", "serve", "stop", "wait", "join", "free", "over"}
    /\ mnode \in 0 .. NThreads
    /\ next_thread_index \in -(2 ^ (IntWidth - 1)) .. 2 ^ (IntWidth - 1) - 1
    /\ thr \in [Nodes -> BOOLEAN]
    /\ q \in [Nodes -> Seq(Tasks \cup {STOP})]
    /\ live \in [Nodes -> SUBSET Tasks]
    /\ payload \in [Nodes -> Tasks \cup {NONE}]
    /\ sig_terminated \in [Nodes -> BOOLEAN]
    /\ freed \in SUBSET Nodes
    /\ tpc \in [Nodes -> {"none", "pop", "execute", "release", "leave",
                          "signal", "ended"}]
    /\ task \in [Nodes -> Tasks \cup {NONE}]
    /\ cpc \in [Callers -> {"idle", "fill", "push"}]
    /\ ndx \in [Callers -> Nodes]
    /\ made \in [Callers -> Tasks \cup {NONE}]
    /\ nodeOf \in [Tasks -> Nodes \cup {NONE}]
    /\ given \in SUBSET Tasks
    /\ misread \in SUBSET Tasks
    /\ runs \in [Tasks -> {0, 1}]

(* The nodes are served in turn (tecc_thread_pool.h:24, "a simple round-   *)
(* robin thread pool"), also when the int counter wraps to its least value *)
(* and again when it passes from -1 to 0, provided the number of threads   *)
(* divides the number of values of an int.                                 *)
RoundRobin ==
    2 ^ IntWidth % NThreads = 0 =>
        \A t \in Tasks : nodeOf[t] # NONE => nodeOf[t] = t % NThreads

(* TecTaskNode_done queues its stop message behind the tasks: a thread     *)
(* that leaves its loop has run and released every task ever handed to its *)
(* node.                                                                   *)
DrainedBeforeExit ==
    \A n \in Nodes :
        tpc[n] \in {"leave", "signal", "ended"} =>
            /\ q[n] = <<>>
            /\ live[n] = {}
            /\ \A t \in Tasks : nodeOf[t] = n => runs[t] = 1

(* A node's queue, arena and signal outlive its thread, which still works  *)
(* on the signal after done could see the value, and every enqueue.        *)
NodeOutlivesUsers ==
    /\ TypeOK
    /\ \A n \in freed :
          /\ tpc[n] \in {"none", "ended"}
          /\ \A c \in Callers : cpc[c] # "idle" => ndx[c] # n

(* Done returns, whichever thread creation failed, whatever is queued. *)
DoneEnds == mpc = "stop" ~> mpc = "over"

(* "Creates a task and enqueues it to the pool for execution"              *)
(* (tecc_thread_pool.h:88): a task handed to a node with a thread is run.  *)
(* One handed to a node whose thread run could not or did not create never *)
(* is, although enqueue has accepted it.                                   *)
EveryTaskRuns ==
    \A t \in Tasks, n \in Nodes :
        /\ (nodeOf[t] = n /\ tpc[n] # "none") ~> runs[t] = 1
        /\ [](nodeOf[t] = n /\ tpc[n] = "none" => [](runs[t] = 0))

(* "Tasks consist of a function, payload, and buffer, all allocated from   *)
(* the pool's internal arena", "Size of payload per task"                  *)
(* (tecc_thread_pool.h:24-25, 54): a task is given the payload of its own  *)
(* enqueue.                                                                *)
TaskSeesOwnPayload == misread = {}
===============================================================================
