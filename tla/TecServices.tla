------------------------------ MODULE TecServices ------------------------------
(***************************************************************************)
(* What a service worker may run: the default service of tecc_service.c,   *)
(* which does nothing; the TCP server by itself, as in                     *)
(* examples/socket/server.c; and the TCP server with a thread pool, as in  *)
(* examples/socket/mt_server.c.  Service worker and server are those of    *)
(* TecTCPServer.                                                           *)
(*                                                                         *)
(* The pool is what TecThrPool shows of it to one caller: the service      *)
(* thread hands every connection to the next node, whose queue is drained  *)
(* in order.  The payload of a task is the accepted socket, copied to the  *)
(* one slot of the node: the task reads, closes and resets the socket that *)
(* is in the slot then.                                                    *)
(***************************************************************************)
EXTENDS TecTCPServer

CONSTANT MaxThreads   \* bound on the number of the pool's threads

ASSUME ThreadsAssumption == MaxThreads \in Nat \ {0}

VARIABLES kind,    \* "default", "tcp" or "pooled"
          nthreads,
          next,    \* next_thread_index
          slot,    \* the socket in a node's payload; NONE: its fd is -1
          tasks,   \* the tasks of a node, the running one included
          ppc,     \* its thread
          conn,    \* the connection it is reading
          overrun  \* history: a task was given to a node that had one

poolVars == <<next, slot, tasks, ppc, conn, overrun>>

config == <<kind, nthreads>>

allVars == <<vars, config, poolVars>>

NodeIds == 0 .. nthreads - 1

(* TecThrPool_run stops at the first thread it cannot create, and main     *)
(* does not ask.                                                           *)
PoolRun == \E k \in 0 .. nthreads : ppc = [n \in NodeIds |-> IF n < k THEN "pop" ELSE "none"]

ServicesInit == /\ Init
                /\ kind \in {"default", "tcp", "pooled"}
                /\ nthreads \in IF kind = "pooled" THEN 1 .. MaxThreads ELSE {0}
                /\ next = 0
                /\ slot = [n \in NodeIds |-> NONE]
                /\ tasks = [n \in NodeIds |-> 0]
                /\ PoolRun
                /\ conn = [n \in NodeIds |-> NONE]
                /\ overrun = FALSE

-------------------------------------------------------------------------------

(* start and shutdown of the default service: one signal each. *)
DefaultStart ==
    /\ spc = "start"
    /\ error' = "ok"
    /\ Set("started")
    /\ spc' = "last"
    /\ UNCHANGED <<mpc, workerVars, sthr, xpc, running, sockVars, connVars>>

DefaultShutdown ==
    /\ xpc = "stop"
    /\ Set("stopped")
    /\ xpc' = "last"
    /\ UNCHANGED <<mpc, workerVars, serviceVars, running, sockVars, connVars>>

-------------------------------------------------------------------------------

(* Of poll_, in place of Dispatch: TecThrPool_enqueue of the socket. *)
Enqueue ==
    /\ spc = "serve"
    /\ spc' = "poll"
    /\ LET n == next % nthreads
       IN  /\ slot' = [slot EXCEPT ![n] = cli]
           /\ tasks' = [tasks EXCEPT ![n] = @ + 1]
           /\ overrun' = (overrun \/ tasks[n] > 0)
    /\ next' = next + 1
    /\ UNCHANGED <<mpc, workerVars, sthr, error, xpc, sigs, running, sockVars,
                   connVars, ppc, conn>>

(* The node's thread in dispatch_client_: the handler begins to read...    *)
PoolPop(n) ==
    /\ ppc[n] = "pop"
    /\ tasks[n] > 0
    /\ ppc' = [ppc EXCEPT ![n] = "read"]
    /\ conn' = [conn EXCEPT ![n] = slot[n]]
    /\ UNCHANGED <<vars, next, slot, tasks, overrun>>

(* ... each time from the socket in the slot, which may be another now...  *)
PoolReadOn(n) ==
    /\ ppc[n] = "read"
    /\ conn[n] \notin {slot[n], NONE}
    /\ conn' = [conn EXCEPT ![n] = slot[n]]
    /\ UNCHANGED <<vars, next, slot, tasks, ppc, overrun>>

(* ... until the peer has closed, or at once if the descriptor is -1...    *)
PoolReadEnds(n) ==
    /\ ppc[n] = "read"
    /\ conn[n] \in ended \cup {NONE}
    /\ ppc' = [ppc EXCEPT ![n] = "close"]
    /\ UNCHANGED <<vars, next, slot, tasks, conn, overrun>>

(* Faulty: the connection is left open. *)
PoolClose_NoClose(n) ==
    /\ ppc[n] = "close"
    /\ ppc' = [ppc EXCEPT ![n] = "reset"]
    /\ UNCHANGED <<vars, next, slot, tasks, conn, overrun>>

(* ... TecSocket_done closes the descriptor...                             *)
PoolClose(n) ==
    /\ ppc[n] = "close"
    /\ closed' = closed \cup ({slot[n]} \ {NONE})
    /\ ppc' = [ppc EXCEPT ![n] = "reset"]
    /\ UNCHANGED <<mpc, workerVars, serviceVars, xpc, sigs, running, sockVars,
                   backlog, cli, accepted, ended, next, slot, tasks, conn, overrun>>

(* ... and resets it, and the task is released.                            *)
PoolReset(n) ==
    /\ ppc[n] = "reset"
    /\ slot' = [slot EXCEPT ![n] = NONE]
    /\ tasks' = [tasks EXCEPT ![n] = @ - 1]
    /\ ppc' = [ppc EXCEPT ![n] = "pop"]
    /\ UNCHANGED <<vars, next, conn, overrun>>

(* Faulty: the thread is told to end in front of its tasks. *)
PoolStop_InFront(n) ==
    /\ mpc = "daemon_done"
    /\ ppc[n] = "pop"
    /\ \A i \in 0 .. n - 1 : ppc[i] \in {"none", "ended"}
    /\ ppc' = [ppc EXCEPT ![n] = "ended"]
    /\ UNCHANGED <<vars, next, slot, tasks, conn, overrun>>

(* TecThrPool_done, after TecTCPServer_done: node by node, the tasks of    *)
(* the node first.                                                         *)
PoolStop(n) ==
    /\ mpc = "daemon_done"
    /\ ppc[n] = "pop"
    /\ tasks[n] = 0
    /\ \A i \in 0 .. n - 1 : ppc[i] \in {"none", "ended"}
    /\ ppc' = [ppc EXCEPT ![n] = "ended"]
    /\ UNCHANGED <<vars, next, slot, tasks, conn, overrun>>

Pool(n) == PoolPop(n) \/ PoolReadEnds(n) \/ PoolClose(n) \/ PoolReset(n) \/ PoolStop(n)

-------------------------------------------------------------------------------

AnyMain == /\ Main
           /\ mpc = "daemon_done" => \A n \in NodeIds : ppc[n] \in {"none", "ended"}
           /\ UNCHANGED poolVars

AnyService == \/ kind = "default" /\ (DefaultStart \/ ServiceEnds) /\ UNCHANGED poolVars
              \/ kind = "tcp" /\ Service /\ UNCHANGED poolVars
              \/ kind = "pooled" /\ spc # "serve" /\ Service /\ UNCHANGED poolVars
              \/ kind = "pooled" /\ Enqueue

AnyExit == /\ IF kind = "default" THEN DefaultShutdown \/ ExitEnds ELSE Exit
           /\ UNCHANGED poolVars

AnyWorker == Worker /\ UNCHANGED poolVars

ServicesNext ==
    /\ \/ AnyMain \/ AnyWorker \/ AnyService \/ AnyExit
       \/ (Terminate \/ AcceptInterrupted) /\ UNCHANGED poolVars
       \/ \E c \in Clients : (Connect(c) \/ PeerCloses(c)) /\ UNCHANGED poolVars
       \/ \E n \in NodeIds : Pool(n) \/ PoolReadOn(n)
    /\ UNCHANGED config

ServicesSpec == ServicesInit /\ [][ServicesNext]_allVars

(* As in TecTCPServer, with the pool's threads. *)
ServicesFairSpec ==
    /\ ServicesSpec
    /\ WF_allVars(AnyMain /\ UNCHANGED config)
    /\ WF_allVars(AnyWorker /\ UNCHANGED config)
    /\ WF_allVars(AnyService /\ UNCHANGED config)
    /\ WF_allVars(AnyExit /\ UNCHANGED config)
    /\ \A n \in 0 .. MaxThreads - 1 : WF_allVars(n \in NodeIds /\ Pool(n) /\ UNCHANGED config)

-------------------------------------------------------------------------------

(* "Starts the daemon. Returns 0 on success." (tecc_daemon.h:48), through  *)
(* three threads: when run has returned 0 the server listens until it is   *)
(* told to terminate, and when run fails nothing listens.                  *)
StartReported ==
    /\ mpc = "up" => error = "ok" /\ (kind # "default" => listener = "listening" /\ running)
    /\ mpc = "join" => listener # "listening"

(* The pool could not give a connection a thread or a payload of its own:  *)
(* a thread is missing, or its node was given a second task and the first  *)
(* has lost its socket.                                                    *)
PoolFault == kind = "pooled" /\ (overrun \/ \E n \in NodeIds : ppc[n] = "none")

(* A connection was handed to a node without a thread, or to one that had  *)
(* not finished with another.                                              *)
ConnectionLost == overrun \/ \E n \in NodeIds : ppc[n] = "none" /\ tasks[n] > 0

(* "Attaches a thread pool that handles incoming connections concurrently" *)
(* (tecc_tcp_server.h:97): after the destructors every connection that was *)
(* accepted has been closed, also those still in the pool's queues when    *)
(* the server was destroyed, and no pool thread is left.  Not so if one    *)
(* was handed to a node without a thread or to one still busy, and then it *)
(* never is: in whatever order copying, reading, closing and resetting of  *)
(* the one slot fall, some connection stays open for ever.                 *)
NoConnectionLeft ==
    mpc = "over" => /\ \A n \in NodeIds : ppc[n] \in {"none", "ended"}
                    /\ accepted = closed <=> ~ConnectionLost

(* A connection whose peer has closed is closed, whatever the other        *)
(* connections and the shutdown do.                                        *)
ConnectionsServed ==
    \A c \in Clients : c \in accepted \cap ended ~> c \in closed \/ PoolFault
===============================================================================
