--------------------------- MODULE TecServicesProofs ---------------------------
(***************************************************************************)
(* Proofs about TecTCPServer and TecServices, for any set of connections   *)
(* and any number of pool threads, of the specification that TLC checks:   *)
(* a service worker with the default service, with the TCP server, and     *)
(* with the server and a pool.                                             *)
(***************************************************************************)
EXTENDS TecServices, TLAPS, SequenceTheorems

(* The types of what TecServices adds, and a thread that works has a task. *)
PoolTypes ==
    /\ kind \in {"default", "tcp", "pooled"}
    /\ nthreads \in 0 .. MaxThreads
    /\ kind = "pooled" <=> nthreads > 0
    /\ next \in Nat
    /\ slot \in [NodeIds -> accepted \cup {NONE}]
    /\ tasks \in [NodeIds -> Nat]
    /\ ppc \in [NodeIds -> {"none", "pop", "read", "close", "reset", "ended"}]
    /\ conn \in [NodeIds -> Clients \cup {NONE}]
    /\ overrun \in BOOLEAN
    /\ \A n \in NodeIds : ppc[n] \in {"read", "close", "reset"} => tasks[n] > 0

(* A connection waits in the backlog once, is accepted once, and is with   *)
(* the service thread or in a slot.                                        *)
Connections ==
    /\ \A i, j \in 1 .. Len(backlog) : backlog[i] = backlog[j] => i = j
    /\ \A i \in 1 .. Len(backlog) : backlog[i] \notin accepted
    /\ spc = "serve" => \A n \in NodeIds : slot[n] # cli

Typed == TypeOK /\ PoolTypes /\ Connections

(* The positions of the worker's thread: on_init has failed or on_exit is  *)
(* over; the worker runs; it has set sig_running.                          *)
Ending == {"terminated", "last", "ended"}

Serving == {"pop", "exit", "exit_join", "wait_stopped"}

(* Where main is, the worker's thread has come so far. *)
MainStage ==
    /\ mpc = "run" => wpc = "none"
    /\ mpc \in {"wait", "join", "up", "terminate"} => wthr
    /\ mpc = "wait" => \/ wpc \in {"init", "wait_started", "join_failed",
                                   "running", "pop"}
                       \/ wpc \in Ending /\ werr # "ok"
    /\ mpc = "up" => wpc = "pop"
    /\ mpc = "join" => wpc \in Ending /\ werr # "ok"
    /\ mpc = "terminate" => wpc \in Serving \cup Ending
    /\ mpc \in {"server_done", "daemon_done", "over"} => wpc \in {"none", "ended"}
    /\ "running" \in sigs => wpc \in Serving \cup Ending

(* Where the worker's thread is, the service thread has come so far. *)
ServiceStage ==
    /\ wpc \in {"none", "init"} => spc = "none" /\ werr = "ok"
    /\ wpc = "wait_started" => spc # "none" /\ sthr /\ werr = "ok"
    /\ wpc = "join_failed" => error = "start"
    /\ wpc = "running" => \/ werr = "ok" /\ sthr /\ "started" \in sigs /\ error = "ok"
                          \/ werr # "ok" /\ spc \in {"none", "ended"}
    /\ wpc \in Serving => werr = "ok" /\ sthr /\ "started" \in sigs /\ error = "ok"
    /\ wpc \in Ending => spc \in {"none", "ended"}
    /\ werr # "ok" => spc = "none" \/ error = "start"
    /\ "started" \in sigs => spc \notin {"none", "start", "started", "failed",
                                         "failed_started"}

(* Where the worker's thread is, the exit thread has come so far. *)
ExitStage ==
    /\ xpc # "none" => wpc \in {"exit_join", "wait_stopped"} \cup Ending
    /\ xpc \notin {"none", "ended"} => wpc = "exit_join"
    /\ xpc \in {"none", "stop"} => running

(* The start of the service has failed, or it has not; the listening       *)
(* socket is what start_ has made of it, until it is shut down.            *)
SocketStage ==
    /\ spc \in {"none", "start"} => error = "ok"
    /\ error = "start" => spc \in {"failed", "failed_started", "last", "ended"}
    /\ kind = "default" => spc \in {"none", "start", "last", "ended"}
    /\ listener = "listening" => spc \notin {"none", "start"} /\ error = "ok"
    /\ /\ kind # "default" /\ xpc \in {"none", "stop"} /\ error = "ok"
       /\ spc \notin {"none", "start"}
       /\ mpc \in {"wait", "up", "terminate"}
       => listener = "listening"
    /\ mpc \in {"daemon_done", "over"} => ~desc

Stages == MainStage /\ ServiceStage /\ ExitStage /\ SocketStage

(* The thread of node n ends under the destructors and without a task. *)
NodeStage(n) ==
    /\ ppc[n] = "ended" => tasks[n] = 0 /\ mpc \in {"daemon_done", "over"}
    /\ mpc = "over" => ppc[n] \in {"none", "ended"}

(* Unless a node was given a second task, the slot holds the connection of *)
(* its one task, which is closed before the slot is reset.                 *)
NodeKeeps(n) ==
    ~overrun => /\ tasks[n] = 0 <=> slot[n] = NONE
                /\ tasks[n] \in {0, 1}
                /\ ppc[n] = "reset" => slot[n] \in closed

(* A connection that is not closed is with the service thread or a node. *)
Kept(c) == \/ spc = "serve" /\ c = cli
           \/ \E n \in NodeIds : slot[n] = c

Conserved ==
    /\ \A n \in NodeIds : NodeStage(n) /\ NodeKeeps(n)
    /\ overrun => kind = "pooled"
    /\ ~overrun => \A c \in accepted \ closed : Kept(c)

(* A connection that nobody will close: no slot holds it any more... *)
Orphan(c) == /\ c \in accepted \ closed
             /\ spc = "serve" => c # cli
             /\ \A n \in NodeIds : slot[n] # c

(* ... or its slot is about to be reset. *)
Doomed(n) == ppc[n] = "reset" /\ slot[n] \in accepted \ closed

(* A slot that was used twice has cost a connection. *)
Lost ==
    /\ \A m, n \in NodeIds : slot[m] = slot[n] /\ slot[m] # NONE => m = n
    /\ \A n \in NodeIds : ppc[n] = "none" /\ tasks[n] > 0 => slot[n] \in accepted \ closed
    /\ ~overrun => \A n \in NodeIds : slot[n] \in closed => ppc[n] = "reset"
    /\ overrun => (\E c \in accepted : Orphan(c)) \/ (\E n \in NodeIds : Doomed(n))

-------------------------------------------------------------------------------

(* The node whose turn it is. *)
LEMMA NodeIndex ==
  ASSUME NEW a \in Nat, NEW d \in Nat \ {0}
  PROVE  a % d \in 0 .. d - 1
BY SMT

(* The types; every connection is accepted once and served once. *)
LEMMA TypedHolds == ServicesSpec => []Typed
<1>1. ServicesInit => Typed
  <2> SUFFICES ASSUME ServicesInit PROVE Typed
    OBVIOUS
  <2>1. nthreads \in 0 .. MaxThreads /\ (kind = "pooled" <=> nthreads > 0)
    BY ThreadsAssumption DEF ServicesInit
  <2>2. ppc \in [NodeIds -> {"none", "pop", "read", "close", "reset", "ended"}]
    BY DEF ServicesInit, PoolRun
  <2>3. \A n \in NodeIds : ppc[n] \in {"none", "pop"}
    BY DEF ServicesInit, PoolRun
  <2>4. PoolTypes
    BY <2>1, <2>2, <2>3 DEF ServicesInit, PoolTypes
  <2>5. backlog = <<>> /\ Len(backlog) = 0 /\ backlog \in Seq(Clients)
    BY EmptySeq DEF ServicesInit, Init
  <2>6. {wthr, sthr, running, fd, lfd, desc} \subseteq BOOLEAN
    BY DEF ServicesInit, Init
  <2>7. TypeOK
    BY <2>5, <2>6 DEF ServicesInit, Init, TypeOK
  <2>8. Connections
    BY <2>5 DEF ServicesInit, Init, Connections
  <2> QED
    BY <2>4, <2>7, <2>8 DEF Typed
<1>2. Typed /\ [ServicesNext]_allVars => Typed'
  <2> SUFFICES ASSUME Typed, [ServicesNext]_allVars
               PROVE  Typed'
    OBVIOUS
  <2> USE 
      DEF Typed, TypeOK, PoolTypes, Connections, NodeIds, Signals,
         config, poolVars, workerVars, serviceVars, sockVars, connVars, Set,
         Opened, NotOpened, NotBound, Listening
  <2>1. ASSUME Run, UNCHANGED <<config, poolVars>> PROVE Typed'
    <3>1. {wthr', sthr', running', fd', lfd', desc'} \subseteq BOOLEAN
      BY <2>1 DEF Run
    <3> QED
      BY <2>1, <3>1 DEF Run
  <2>2. ASSUME RunWait, UNCHANGED <<config, poolVars>> PROVE Typed'
    BY <2>2 DEF RunWait
  <2>3. ASSUME WorkerJoin, UNCHANGED <<config, poolVars>> PROVE Typed'
    <3>1. {wthr', sthr', running', fd', lfd', desc'} \subseteq BOOLEAN
      BY <2>3 DEF WorkerJoin
    <3> QED
      BY <2>3, <3>1 DEF WorkerJoin
  <2>4. ASSUME ServerDone, UNCHANGED <<config, poolVars>> PROVE Typed'
    <3>1. {wthr', sthr', running', fd', lfd', desc'} \subseteq BOOLEAN
      BY <2>4 DEF ServerDone
    <3> QED
      BY <2>4, <3>1 DEF ServerDone
  <2>5. ASSUME DaemonDone, \A n \in NodeIds : ppc[n] \in {"none", "ended"},
               UNCHANGED <<config, poolVars>>
        PROVE  Typed'
    <3>1. {wthr', sthr', running', fd', lfd', desc'} \subseteq BOOLEAN
      BY <2>5 DEF DaemonDone
    <3>2. mpc' = "over"
      BY <2>5 DEF DaemonDone
    <3>3. UNCHANGED <<wpc, werr, spc, error, xpc, sigs, running, sockVars, connVars>>
      BY <2>5 DEF DaemonDone
    <3>4. TypeOK'
      BY <3>1, <3>2, <3>3
    <3>5. PoolTypes'
      BY <2>5, <3>3
    <3>6. Connections'
      BY <2>5, <3>3
    <3> QED
      BY <3>4, <3>5, <3>6
  <2>6. ASSUME Terminate, UNCHANGED <<config, poolVars>> PROVE Typed'
    BY <2>6 DEF Terminate
  <2>7. ASSUME OnInit, UNCHANGED <<config, poolVars>> PROVE Typed'
    <3>1. {wthr', sthr', running', fd', lfd', desc'} \subseteq BOOLEAN
      BY <2>7 DEF OnInit
    <3> QED
      BY <2>7, <3>1 DEF OnInit
  <2>8. ASSUME OnInitStarted, UNCHANGED <<config, poolVars>> PROVE Typed'
    BY <2>8 DEF OnInitStarted
  <2>9. ASSUME OnInitFailed, UNCHANGED <<config, poolVars>> PROVE Typed'
    <3>1. {wthr', sthr', running', fd', lfd', desc'} \subseteq BOOLEAN
      BY <2>9 DEF OnInitFailed
    <3> QED
      BY <2>9, <3>1 DEF OnInitFailed
  <2>10. ASSUME SetRunning, UNCHANGED <<config, poolVars>> PROVE Typed'
    BY <2>10 DEF SetRunning
  <2>11. ASSUME PopStop, UNCHANGED <<config, poolVars>> PROVE Typed'
    BY <2>11 DEF PopStop
  <2>12. ASSUME OnExit, UNCHANGED <<config, poolVars>> PROVE Typed'
    <3>1. TypeOK'
      BY <2>12 DEF OnExit
    <3>2. PoolTypes'
      BY <2>12 DEF OnExit
    <3>3. Connections'
      BY <2>12 DEF OnExit
    <3> HIDE DEF TypeOK, PoolTypes, Connections
    <3> QED
      BY <3>1, <3>2, <3>3
  <2>13. ASSUME OnExitJoin, UNCHANGED <<config, poolVars>> PROVE Typed'
    BY <2>13 DEF OnExitJoin
  <2>14. ASSUME OnExitStopped, UNCHANGED <<config, poolVars>> PROVE Typed'
    <3>1. {wthr', sthr', running', fd', lfd', desc'} \subseteq BOOLEAN
      BY <2>14 DEF OnExitStopped
    <3> QED
      BY <2>14, <3>1 DEF OnExitStopped
  <2>15. ASSUME SetTerminated, UNCHANGED <<config, poolVars>> PROVE Typed'
    BY <2>15 DEF SetTerminated
  <2>16. ASSUME WorkerEnds, UNCHANGED <<config, poolVars>> PROVE Typed'
    BY <2>16 DEF WorkerEnds
  <2>17. ASSUME kind # "default", StartFails, UNCHANGED <<config, poolVars>>
        PROVE  Typed'
    <3>1. {wthr', sthr', running', fd', lfd', desc'} \subseteq BOOLEAN
      BY <2>17 DEF StartFails
    <3> QED
      BY <2>17, <3>1 DEF StartFails
  <2>18. ASSUME kind # "default", Listens, UNCHANGED <<config, poolVars>>
        PROVE  Typed'
    BY <2>18 DEF Listens
  <2>19. ASSUME kind # "default", FailedSignals, UNCHANGED <<config, poolVars>>
        PROVE  Typed'
    <3>1. sigs' \subseteq Signals /\ spc' \in {"failed_started", "last"}
      BY <2>19 DEF FailedSignals
    <3>2. UNCHANGED <<mpc, workerVars, sthr, error, xpc, running, sockVars, connVars>>
      BY <2>19 DEF FailedSignals
    <3> QED
      BY <2>19, <3>1, <3>2
  <2>20. ASSUME kind # "default", Started, UNCHANGED <<config, poolVars>>
        PROVE  Typed'
    BY <2>20 DEF Started
  <2>21. ASSUME kind # "default", Poll, UNCHANGED <<config, poolVars>>
        PROVE  Typed'
    BY <2>21 DEF Poll
  <2>22. ASSUME kind # "default", ReadFd, UNCHANGED <<config, poolVars>>
        PROVE  Typed'
    BY <2>22 DEF ReadFd
  <2>23. ASSUME kind # "default", Accept, UNCHANGED <<config, poolVars>>
        PROVE  Typed'
    BY <2>23 DEF Accept
  <2>24. ASSUME kind # "default", AcceptReturns, UNCHANGED <<config, poolVars>>
        PROVE  Typed'
    <3>1. /\ Head(backlog) \in Clients /\ Tail(backlog) \in Seq(Clients)
          /\ Len(Tail(backlog)) = Len(backlog) - 1 /\ Len(backlog) \in Nat
          /\ Len(backlog) >= 1 /\ Head(backlog) = backlog[1]
          /\ \A i \in 1 .. Len(Tail(backlog)) : Tail(backlog)[i] = backlog[i + 1]
      BY <2>24, HeadTailProperties, LenProperties, EmptySeq DEF AcceptReturns
    <3>2. /\ cli' = backlog[1] /\ backlog' = Tail(backlog) /\ spc' = "serve"
          /\ accepted' = accepted \cup {cli'}
          /\ UNCHANGED <<mpc, workerVars, sthr, error, xpc, sigs, running, sockVars,
                         closed, ended, config, poolVars>>
      BY <2>24, <3>1 DEF AcceptReturns
    <3> HIDE DEF Typed
    <3>3. backlog[1] \in Clients \ accepted
      BY <3>1 DEF Typed
    <3>4. TypeOK'
      BY <3>1, <3>2, <3>3 DEF Typed
    <3>5. PoolTypes'
      BY <3>2 DEF Typed
    <3>6. Connections'
      <4>1. \A i \in 1 .. Len(backlog') :
               backlog'[i] = backlog[i + 1] /\ i + 1 \in 1 .. Len(backlog) /\ i + 1 # 1
        BY <3>1, <3>2
      <4>2. \A i \in 1 .. Len(backlog') : backlog'[i] \notin accepted'
        BY <3>1, <3>2, <4>1 DEF Typed
      <4>3. \A i, j \in 1 .. Len(backlog') : backlog'[i] = backlog'[j] => i = j
        BY <3>1, <3>2, <4>1 DEF Typed
      <4>4. \A n \in NodeIds' : slot'[n] # cli'
        BY <3>2, <3>3, ClientAssumption DEF Typed
      <4> QED
        BY <4>2, <4>3, <4>4
    <3> QED
      BY <3>4, <3>5, <3>6 DEF Typed
  <2>25. ASSUME kind # "default", AcceptShutDown,
               UNCHANGED <<config, poolVars>>
        PROVE  Typed'
    BY <2>25 DEF AcceptShutDown
  <2>26. ASSUME kind # "default", Dispatch, UNCHANGED <<config, poolVars>>
        PROVE  Typed'
    BY <2>26 DEF Dispatch
  <2>27. ASSUME kind # "default", PollingStopped,
               UNCHANGED <<config, poolVars>>
        PROVE  Typed'
    BY <2>27 DEF PollingStopped
  <2>28. ASSUME ServiceEnds, UNCHANGED <<config, poolVars>> PROVE Typed'
    BY <2>28 DEF ServiceEnds
  <2>29. ASSUME AcceptInterrupted, UNCHANGED <<config, poolVars>> PROVE Typed'
    BY <2>29 DEF AcceptInterrupted
  <2>30. ASSUME kind # "default", StopRunning, UNCHANGED <<config, poolVars>>
        PROVE  Typed'
    <3>1. {wthr', sthr', running', fd', lfd', desc'} \subseteq BOOLEAN
      BY <2>30 DEF StopRunning
    <3> QED
      BY <2>30, <3>1 DEF StopRunning
  <2>31. ASSUME kind # "default", ShutDown, UNCHANGED <<config, poolVars>>
        PROVE  Typed'
    BY <2>31 DEF ShutDown
  <2>32. ASSUME kind # "default", CloseFd, UNCHANGED <<config, poolVars>>
        PROVE  Typed'
    <3>1. {wthr', sthr', running', fd', lfd', desc'} \subseteq BOOLEAN
      BY <2>32 DEF CloseFd
    <3> QED
      BY <2>32, <3>1 DEF CloseFd
  <2>33. ASSUME kind # "default", ResetFd, UNCHANGED <<config, poolVars>>
        PROVE  Typed'
    <3>1. {wthr', sthr', running', fd', lfd', desc'} \subseteq BOOLEAN
      BY <2>33 DEF ResetFd
    <3> QED
      BY <2>33, <3>1 DEF ResetFd
  <2>34. ASSUME kind # "default", ShutDownSignals,
               UNCHANGED <<config, poolVars>>
        PROVE  Typed'
    BY <2>34 DEF ShutDownSignals
  <2>35. ASSUME ExitEnds, UNCHANGED <<config, poolVars>> PROVE Typed'
    BY <2>35 DEF ExitEnds
  <2>36. ASSUME kind = "default", DefaultStart, UNCHANGED <<config, poolVars>>
        PROVE  Typed'
    BY <2>36 DEF DefaultStart
  <2>37. ASSUME kind = "default", DefaultShutdown,
               UNCHANGED <<config, poolVars>>
        PROVE  Typed'
    BY <2>37 DEF DefaultShutdown
  <2>38. ASSUME NEW c \in Clients, Connect(c), UNCHANGED <<config, poolVars>>
        PROVE  Typed'
    <3>1. /\ Append(backlog, c) \in Seq(Clients) /\ Len(backlog) \in Nat
          /\ Len(Append(backlog, c)) = Len(backlog) + 1
          /\ Append(backlog, c)[Len(backlog) + 1] = c
          /\ \A i \in 1 .. Len(backlog) : Append(backlog, c)[i] = backlog[i]
      BY AppendProperties, LenProperties
    <3>2. /\ backlog' = Append(backlog, c) /\ c \notin accepted
          /\ \A i \in 1 .. Len(backlog) : backlog[i] # c
      BY <2>38 DEF Connect
    <3>5. UNCHANGED <<accepted, spc, slot, cli, kind, nthreads>>
      BY <2>38 DEF Connect
    <3>6. ASSUME NEW i \in 1 .. Len(backlog'), NEW j \in 1 .. Len(backlog'),
                 backlog'[i] = backlog'[j]
          PROVE  i = j
      <4>1. /\ i \in 1 .. Len(backlog) \/ i = Len(backlog) + 1
            /\ j \in 1 .. Len(backlog) \/ j = Len(backlog) + 1
        BY <3>1, <3>2
      <4>2. CASE i \in 1 .. Len(backlog) /\ j \in 1 .. Len(backlog)
        BY <3>1, <3>2, <3>6, <4>2
      <4>3. CASE ~(i \in 1 .. Len(backlog) /\ j \in 1 .. Len(backlog))
        BY <3>1, <3>2, <3>6, <4>1, <4>3
      <4> QED
        BY <4>2, <4>3
    <3>7. \A i \in 1 .. Len(backlog') : backlog'[i] \notin accepted
      BY <3>1, <3>2
    <3>3. Connections'
      BY <3>5, <3>6, <3>7
    <3>4. TypeOK' /\ PoolTypes'
      BY <2>38, <3>1 DEF Connect
    <3> QED
      BY <3>3, <3>4
  <2>39. ASSUME NEW c \in Clients, PeerCloses(c),
               UNCHANGED <<config, poolVars>>
        PROVE  Typed'
    BY <2>39 DEF PeerCloses
  <2>40. ASSUME kind = "pooled", Enqueue, UNCHANGED config PROVE Typed'
    BY <2>40 DEF Enqueue
  <2>41. ASSUME NEW n \in NodeIds, PoolPop(n), UNCHANGED config PROVE Typed'
    BY <2>41 DEF PoolPop, vars
  <2>42. ASSUME NEW n \in NodeIds, PoolReadOn(n), UNCHANGED config PROVE Typed'
    BY <2>42 DEF PoolReadOn, vars
  <2>43. ASSUME NEW n \in NodeIds, PoolReadEnds(n), UNCHANGED config
        PROVE  Typed'
    BY <2>43 DEF PoolReadEnds, vars
  <2>44. ASSUME NEW n \in NodeIds, PoolClose(n), UNCHANGED config PROVE Typed'
    <3>1. slot[n] \in accepted \cup {NONE} /\ (spc = "serve" => slot[n] # cli)
      OBVIOUS
    <3> QED
      BY <2>44, <3>1 DEF PoolClose
  <2>45. ASSUME NEW n \in NodeIds, PoolReset(n), UNCHANGED config PROVE Typed'
    <3>1. tasks[n] \in Nat /\ tasks[n] > 0
      BY <2>45 DEF PoolReset, vars
    <3>2. tasks[n] - 1 \in Nat
      BY <3>1
    <3>3. TypeOK'
      BY <2>45 DEF PoolReset, vars
    <3>4. PoolTypes'
      BY <2>45, <3>2 DEF PoolReset, vars
    <3>5. Connections'
      BY <2>45, ClientAssumption DEF PoolReset, vars
    <3> HIDE DEF TypeOK, PoolTypes, Connections
    <3> QED
      BY <3>3, <3>4, <3>5
  <2>46. ASSUME NEW n \in NodeIds, PoolStop(n), UNCHANGED config PROVE Typed'
    <3>1. TypeOK'
      BY <2>46 DEF PoolStop, vars
    <3>2. PoolTypes'
      BY <2>46 DEF PoolStop, vars
    <3>3. Connections'
      BY <2>46 DEF PoolStop, vars
    <3> HIDE DEF TypeOK, PoolTypes, Connections
    <3> QED
      BY <3>1, <3>2, <3>3
  <2>47. CASE UNCHANGED allVars
    BY <2>47 DEF allVars, vars
  <2> HIDE DEF Typed, TypeOK, PoolTypes, Connections, NodeIds, Signals,
         config, poolVars, workerVars, serviceVars, sockVars, connVars, Set,
         Opened, NotOpened, NotBound, Listening
  <2> QED
    BY <2>1, <2>2, <2>3, <2>4, <2>5, <2>6, <2>7, <2>8, <2>9, <2>10,
       <2>11, <2>12, <2>13, <2>14, <2>15, <2>16, <2>17, <2>18, <2>19, <2>20,
       <2>21, <2>22, <2>23, <2>24, <2>25, <2>26, <2>27, <2>28, <2>29, <2>30,
       <2>31, <2>32, <2>33, <2>34, <2>35, <2>36, <2>37, <2>38, <2>39, <2>40,
       <2>41, <2>42, <2>43, <2>44, <2>45, <2>46, <2>47
       DEF ServicesNext, AnyMain, AnyWorker, AnyService, AnyExit, Main, Worker, Service, Exit, Pool,
           DaemonDone
<1> QED
  BY <1>1, <1>2, PTL DEF ServicesSpec

(* The threads start and end in turn: main and the worker's thread, that   *)
(* and the service thread, that and the exit thread.                       *)
LEMMA StagesHold == ServicesSpec => []Stages
<1>1. ServicesInit => Stages
  BY DEF ServicesInit, Init, Stages, MainStage, ServiceStage, ExitStage,
         SocketStage, Ending, Serving
<1>2. Typed /\ Stages /\ [ServicesNext]_allVars => Stages'
  <2> SUFFICES ASSUME Typed, Stages, [ServicesNext]_allVars
               PROVE  Stages'
    OBVIOUS
  <2> USE 
      DEF Typed, TypeOK, PoolTypes, Stages, MainStage, ServiceStage, ExitStage,
         SocketStage, Ending, Serving, config, workerVars, serviceVars,
         sockVars, Set, Opened, NotOpened, NotBound, Listening
  <2>1. ASSUME Run, UNCHANGED <<config, poolVars>> PROVE Stages'
    BY <2>1 DEF Run
  <2>2. ASSUME RunWait, UNCHANGED <<config, poolVars>> PROVE Stages'
    BY <2>2 DEF RunWait
  <2>3. ASSUME WorkerJoin, UNCHANGED <<config, poolVars>> PROVE Stages'
    BY <2>3 DEF WorkerJoin
  <2>4. ASSUME ServerDone, UNCHANGED <<config, poolVars>> PROVE Stages'
    BY <2>4 DEF ServerDone
  <2>5. ASSUME DaemonDone, \A n \in NodeIds : ppc[n] \in {"none", "ended"},
               UNCHANGED <<config, poolVars>>
        PROVE  Stages'
    BY <2>5 DEF DaemonDone
  <2>6. ASSUME Terminate, UNCHANGED <<config, poolVars>> PROVE Stages'
    BY <2>6 DEF Terminate
  <2>7. ASSUME OnInit, UNCHANGED <<config, poolVars>> PROVE Stages'
    BY <2>7 DEF OnInit
  <2>8. ASSUME OnInitStarted, UNCHANGED <<config, poolVars>> PROVE Stages'
    BY <2>8 DEF OnInitStarted
  <2>9. ASSUME OnInitFailed, UNCHANGED <<config, poolVars>> PROVE Stages'
    BY <2>9 DEF OnInitFailed
  <2>10. ASSUME SetRunning, UNCHANGED <<config, poolVars>> PROVE Stages'
    BY <2>10 DEF SetRunning
  <2>11. ASSUME PopStop, UNCHANGED <<config, poolVars>> PROVE Stages'
    BY <2>11 DEF PopStop
  <2>12. ASSUME OnExit, UNCHANGED <<config, poolVars>> PROVE Stages'
    BY <2>12 DEF OnExit
  <2>13. ASSUME OnExitJoin, UNCHANGED <<config, poolVars>> PROVE Stages'
    BY <2>13 DEF OnExitJoin
  <2>14. ASSUME OnExitStopped, UNCHANGED <<config, poolVars>> PROVE Stages'
    BY <2>14 DEF OnExitStopped
  <2>15. ASSUME SetTerminated, UNCHANGED <<config, poolVars>> PROVE Stages'
    BY <2>15 DEF SetTerminated
  <2>16. ASSUME WorkerEnds, UNCHANGED <<config, poolVars>> PROVE Stages'
    BY <2>16 DEF WorkerEnds
  <2>17. ASSUME kind # "default", StartFails, UNCHANGED <<config, poolVars>>
        PROVE  Stages'
    BY <2>17 DEF StartFails
  <2>18. ASSUME kind # "default", Listens, UNCHANGED <<config, poolVars>>
        PROVE  Stages'
    BY <2>18 DEF Listens
  <2>19. ASSUME kind # "default", FailedSignals, UNCHANGED <<config, poolVars>>
        PROVE  Stages'
    BY <2>19 DEF FailedSignals
  <2>20. ASSUME kind # "default", Started, UNCHANGED <<config, poolVars>>
        PROVE  Stages'
    BY <2>20 DEF Started
  <2>21. ASSUME kind # "default", Poll, UNCHANGED <<config, poolVars>>
        PROVE  Stages'
    BY <2>21 DEF Poll
  <2>22. ASSUME kind # "default", ReadFd, UNCHANGED <<config, poolVars>>
        PROVE  Stages'
    BY <2>22 DEF ReadFd
  <2>23. ASSUME kind # "default", Accept, UNCHANGED <<config, poolVars>>
        PROVE  Stages'
    BY <2>23 DEF Accept
  <2>24. ASSUME kind # "default", AcceptReturns, UNCHANGED <<config, poolVars>>
        PROVE  Stages'
    BY <2>24 DEF AcceptReturns
  <2>25. ASSUME kind # "default", AcceptShutDown,
               UNCHANGED <<config, poolVars>>
        PROVE  Stages'
    BY <2>25 DEF AcceptShutDown
  <2>26. ASSUME kind # "default", Dispatch, UNCHANGED <<config, poolVars>>
        PROVE  Stages'
    BY <2>26 DEF Dispatch
  <2>27. ASSUME kind # "default", PollingStopped,
               UNCHANGED <<config, poolVars>>
        PROVE  Stages'
    BY <2>27 DEF PollingStopped
  <2>28. ASSUME ServiceEnds, UNCHANGED <<config, poolVars>> PROVE Stages'
    BY <2>28 DEF ServiceEnds
  <2>29. ASSUME AcceptInterrupted, UNCHANGED <<config, poolVars>> PROVE Stages'
    BY <2>29 DEF AcceptInterrupted
  <2>30. ASSUME kind # "default", StopRunning, UNCHANGED <<config, poolVars>>
        PROVE  Stages'
    BY <2>30 DEF StopRunning
  <2>31. ASSUME kind # "default", ShutDown, UNCHANGED <<config, poolVars>>
        PROVE  Stages'
    BY <2>31 DEF ShutDown
  <2>32. ASSUME kind # "default", CloseFd, UNCHANGED <<config, poolVars>>
        PROVE  Stages'
    BY <2>32 DEF CloseFd
  <2>33. ASSUME kind # "default", ResetFd, UNCHANGED <<config, poolVars>>
        PROVE  Stages'
    BY <2>33 DEF ResetFd
  <2>34. ASSUME kind # "default", ShutDownSignals,
               UNCHANGED <<config, poolVars>>
        PROVE  Stages'
    BY <2>34 DEF ShutDownSignals
  <2>35. ASSUME ExitEnds, UNCHANGED <<config, poolVars>> PROVE Stages'
    BY <2>35 DEF ExitEnds
  <2>36. ASSUME kind = "default", DefaultStart, UNCHANGED <<config, poolVars>>
        PROVE  Stages'
    BY <2>36 DEF DefaultStart
  <2>37. ASSUME kind = "default", DefaultShutdown,
               UNCHANGED <<config, poolVars>>
        PROVE  Stages'
    BY <2>37 DEF DefaultShutdown
  <2>38. ASSUME NEW c \in Clients, Connect(c), UNCHANGED <<config, poolVars>>
        PROVE  Stages'
    BY <2>38 DEF Connect
  <2>39. ASSUME NEW c \in Clients, PeerCloses(c),
               UNCHANGED <<config, poolVars>>
        PROVE  Stages'
    BY <2>39 DEF PeerCloses
  <2>40. ASSUME kind = "pooled", Enqueue, UNCHANGED config PROVE Stages'
    BY <2>40 DEF Enqueue
  <2>41. ASSUME NEW n \in NodeIds, PoolPop(n), UNCHANGED config PROVE Stages'
    BY <2>41 DEF PoolPop, vars
  <2>42. ASSUME NEW n \in NodeIds, PoolReadOn(n), UNCHANGED config
        PROVE  Stages'
    BY <2>42 DEF PoolReadOn, vars
  <2>43. ASSUME NEW n \in NodeIds, PoolReadEnds(n), UNCHANGED config
        PROVE  Stages'
    BY <2>43 DEF PoolReadEnds, vars
  <2>44. ASSUME NEW n \in NodeIds, PoolClose(n), UNCHANGED config PROVE Stages'
    BY <2>44 DEF PoolClose
  <2>45. ASSUME NEW n \in NodeIds, PoolReset(n), UNCHANGED config PROVE Stages'
    BY <2>45 DEF PoolReset, vars
  <2>46. ASSUME NEW n \in NodeIds, PoolStop(n), UNCHANGED config PROVE Stages'
    BY <2>46 DEF PoolStop, vars
  <2>47. CASE UNCHANGED allVars
    BY <2>47 DEF allVars, vars
  <2> HIDE DEF Typed, TypeOK, PoolTypes, Stages, MainStage, ServiceStage, ExitStage,
         SocketStage, Ending, Serving, config, workerVars, serviceVars,
         sockVars, Set, Opened, NotOpened, NotBound, Listening
  <2> QED
    BY <2>1, <2>2, <2>3, <2>4, <2>5, <2>6, <2>7, <2>8, <2>9, <2>10,
       <2>11, <2>12, <2>13, <2>14, <2>15, <2>16, <2>17, <2>18, <2>19, <2>20,
       <2>21, <2>22, <2>23, <2>24, <2>25, <2>26, <2>27, <2>28, <2>29, <2>30,
       <2>31, <2>32, <2>33, <2>34, <2>35, <2>36, <2>37, <2>38, <2>39, <2>40,
       <2>41, <2>42, <2>43, <2>44, <2>45, <2>46, <2>47
       DEF ServicesNext, AnyMain, AnyWorker, AnyService, AnyExit, Main, Worker, Service, Exit, Pool,
           DaemonDone
<1> QED
  BY <1>1, <1>2, TypedHolds, PTL DEF ServicesSpec

-------------------------------------------------------------------------------

(* The connections stay where they are. *)
Quiet ==
    /\ UNCHANGED <<accepted, closed, slot, tasks, ppc, overrun, kind, nthreads>>
    /\ spc' = "serve" <=> spc = "serve"
    /\ spc = "serve" => UNCHANGED cli
    /\ mpc \in {"daemon_done", "over"} => mpc' \in {"daemon_done", "over"}
    /\ mpc' = "over" => \A n \in NodeIds : ppc[n] \in {"none", "ended"}

(* What a step does to the connections: nothing, or it is one of these. *)
LEMMA QuietOr ==
  ASSUME Typed, Stages, Conserved, [ServicesNext]_allVars
  PROVE  \/ Quiet
         \/ UNCHANGED <<config, poolVars>> /\ (AcceptReturns \/ Dispatch)
         \/ UNCHANGED config /\ kind = "pooled" /\ Enqueue
         \/ UNCHANGED config /\ \E n \in NodeIds : Pool(n)
<1> USE DEF config, poolVars, workerVars, serviceVars, sockVars, connVars
<1>0. mpc = "over" => \A n \in NodeIds : ppc[n] \in {"none", "ended"}
  BY DEF Conserved, NodeStage
<1>1. ASSUME AnyMain, UNCHANGED config PROVE Quiet
  BY <1>0, <1>1
     DEF AnyMain, Main, Run, RunWait, WorkerJoin, ServerDone, DaemonDone, Quiet
<1>2. ASSUME AnyWorker, UNCHANGED config PROVE Quiet
  BY <1>0, <1>2
     DEF AnyWorker, Worker, OnInit, OnInitStarted, OnInitFailed, SetRunning,
       PopStop, OnExit, OnExitJoin, OnExitStopped, SetTerminated, WorkerEnds, Quiet,
       Stages, ServiceStage
<1>3. ASSUME AnyExit, UNCHANGED config PROVE Quiet
  BY <1>0, <1>3
     DEF AnyExit, Exit, DefaultShutdown, StopRunning, ShutDown, CloseFd,
       ResetFd, ShutDownSignals, ExitEnds, Quiet
<1>4. ASSUME AnyService, UNCHANGED config
      PROVE  \/ Quiet
             \/ UNCHANGED <<config, poolVars>> /\ (AcceptReturns \/ Dispatch)
             \/ UNCHANGED config /\ kind = "pooled" /\ Enqueue
  <2>1. ASSUME DefaultStart \/ ServiceEnds, UNCHANGED <<config, poolVars>>
        PROVE  Quiet
    BY <1>0, <2>1 DEF DefaultStart, ServiceEnds, Quiet
  <2>2. ASSUME Service, UNCHANGED <<config, poolVars>>
        PROVE  Quiet \/ AcceptReturns \/ Dispatch
    BY <1>0, <2>2
       DEF Service, StartFails, Listens, FailedSignals, Started, Poll, ReadFd,
         Accept, AcceptShutDown, PollingStopped, ServiceEnds, Quiet
  <2> HIDE DEF config, poolVars
  <2> QED
    BY <1>4, <2>1, <2>2 DEF AnyService
<1>5. ASSUME (Terminate \/ AcceptInterrupted) /\ UNCHANGED poolVars, UNCHANGED config
      PROVE  Quiet
  BY <1>0, <1>5 DEF Terminate, AcceptInterrupted, Quiet
<1>6. ASSUME NEW c \in Clients, (Connect(c) \/ PeerCloses(c)) /\ UNCHANGED poolVars,
             UNCHANGED config
      PROVE  Quiet
  BY <1>0, <1>6 DEF Connect, PeerCloses, Quiet
<1>7. ASSUME NEW n \in NodeIds, PoolReadOn(n), UNCHANGED config PROVE Quiet
  BY <1>0, <1>7 DEF PoolReadOn, Quiet, vars
<1>8. CASE UNCHANGED allVars
  BY <1>0, <1>8 DEF allVars, vars, Quiet
<1> HIDE DEF config, poolVars
<1> QED
  BY <1>1, <1>2, <1>3, <1>4, <1>5, <1>6, <1>7, <1>8 DEF ServicesNext

(* No connection is lost: an accepted one is closed, or with the service   *)
(* thread, or in the slot of a node, unless a slot was used twice.         *)
LEMMA ConservedHolds == ServicesSpec => []Conserved
<1>1. ServicesInit => Conserved
  BY DEF ServicesInit, Init, PoolRun, Conserved, NodeStage, NodeKeeps
<1>2. Typed /\ Stages /\ Conserved /\ [ServicesNext]_allVars => Conserved'
  <2> SUFFICES ASSUME Typed, Stages, Conserved, [ServicesNext]_allVars
               PROVE  Conserved'
    OBVIOUS
  <2>0. /\ spc # "none" /\ spc # "ended" => mpc \notin {"daemon_done", "over"}
        /\ NodeIds = 0 .. nthreads - 1 /\ nthreads \in Nat
    BY DEF Stages, MainStage, ServiceStage, Ending, NodeIds, Typed, PoolTypes, TypeOK
  <2>1. CASE Quiet
    <3>1. \A n \in NodeIds : NodeStage(n)' /\ NodeKeeps(n)'
      BY <2>1 DEF Conserved, NodeStage, NodeKeeps, Quiet
    <3>2. \A c \in accepted \ closed : Kept(c) => Kept(c)'
      BY <2>1 DEF Kept, Quiet, NodeIds
    <3> QED
      BY <2>1, <3>1, <3>2 DEF Conserved, Quiet, NodeIds
  <2>2. CASE UNCHANGED <<config, poolVars>> /\ AcceptReturns
    <3>1. /\ UNCHANGED <<mpc, closed, slot, tasks, ppc, overrun, kind, nthreads>>
          /\ accepted' = accepted \cup {cli'} /\ spc' = "serve" /\ spc # "serve"
      BY <2>2 DEF AcceptReturns, config, poolVars
    <3>2. \A n \in NodeIds : NodeStage(n)' /\ NodeKeeps(n)'
      BY <3>1 DEF Conserved, NodeStage, NodeKeeps
    <3>3. \A c \in accepted \ closed : Kept(c) => Kept(c)'
      BY <3>1 DEF Kept, NodeIds
    <3>4. \A c : c = cli' => Kept(c)'
      BY <3>1 DEF Kept
    <3> QED
      BY <3>1, <3>2, <3>3, <3>4 DEF Conserved, NodeIds
  <2>3. CASE UNCHANGED <<config, poolVars>> /\ Dispatch
    <3>1. /\ UNCHANGED <<mpc, accepted, slot, tasks, ppc, overrun, kind, nthreads>>
          /\ closed' = closed \cup {cli}
      BY <2>3 DEF Dispatch, config, poolVars
    <3>2. \A n \in NodeIds : NodeStage(n)' /\ NodeKeeps(n)'
      BY <3>1 DEF Conserved, NodeStage, NodeKeeps
    <3>3. \A c \in accepted \ closed' : Kept(c) => Kept(c)'
      BY <3>1 DEF Kept, NodeIds
    <3> QED
      BY <3>1, <3>2, <3>3 DEF Conserved, NodeIds
  <2>4. CASE UNCHANGED config /\ kind = "pooled" /\ Enqueue
    <3> DEFINE n == next % nthreads
    <3>1. n \in NodeIds
      <4>1. next \in Nat /\ nthreads \in Nat \ {0}
        BY <2>0, <2>4 DEF Typed, PoolTypes
      <4>2. n \in 0 .. nthreads - 1
        BY <4>1, NodeIndex
      <4> QED
        BY <2>0, <4>2
    <3>2. /\ UNCHANGED <<mpc, accepted, closed, ppc, kind, nthreads, cli>>
          /\ spc = "serve" /\ spc' = "poll"
          /\ slot' = [slot EXCEPT ![n] = cli]
          /\ tasks' = [tasks EXCEPT ![n] = tasks[n] + 1]
          /\ overrun' = (overrun \/ tasks[n] > 0)
      BY <2>4 DEF Enqueue, config, connVars
    <3> HIDE DEF n
    <3>3. /\ cli \in accepted /\ cli # NONE /\ slot \in [NodeIds -> accepted \cup {NONE}]
          /\ tasks \in [NodeIds -> Nat]
      BY <3>2, ClientAssumption DEF Typed, TypeOK, PoolTypes
    <3>4. mpc \notin {"daemon_done", "over"}
      BY <2>0, <3>2
    <3>5. \A m \in NodeIds : NodeStage(m)'
      BY <3>2, <3>4 DEF Conserved, NodeStage
    <3>6. ASSUME ~overrun'
          PROVE  /\ \A m \in NodeIds : NodeKeeps(m)'
                 /\ \A c \in accepted \ closed : Kept(c)'
      <4>1. ~overrun /\ tasks[n] = 0 /\ slot[n] = NONE
        <5>1. ~(overrun \/ tasks[n] > 0)
          BY <3>2, <3>6
        <5>2. ~overrun /\ tasks[n] = 0
          BY <3>1, <3>3, <5>1
        <5> QED
          BY <3>1, <5>2 DEF Conserved, NodeKeeps
      <4>2. ppc[n] # "reset"
        BY <3>1, <4>1 DEF Typed, PoolTypes
      <4>3. ASSUME NEW m \in NodeIds PROVE NodeKeeps(m)'
        BY <3>1, <3>2, <3>3, <4>1, <4>2 DEF Conserved, NodeKeeps
      <4>4. ASSUME NEW c \in accepted \ closed PROVE Kept(c)'
        <5>1. Kept(c) /\ c # NONE
          BY <4>1, ClientAssumption DEF Conserved, Typed, TypeOK
        <5> QED
          BY <3>1, <3>2, <3>3, <4>1, <5>1 DEF Kept, NodeIds
      <4> QED
        BY <4>3, <4>4
    <3>7. \A m \in NodeIds : overrun' => NodeKeeps(m)'
      BY DEF NodeKeeps
    <3> QED
      BY <2>4, <3>2, <3>5, <3>6, <3>7 DEF Conserved, NodeIds
  <2>5. ASSUME NEW n \in NodeIds, UNCHANGED config, Pool(n) PROVE Conserved'
    <3>1. UNCHANGED <<mpc, spc, accepted, cli, overrun, kind, nthreads>>
      BY <2>5
         DEF Pool, PoolPop, PoolReadEnds, PoolClose, PoolReset, PoolStop,
             config,
                  vars, serviceVars, connVars
    <3>2. /\ tasks \in [NodeIds -> Nat] /\ slot \in [NodeIds -> accepted \cup {NONE}]
          /\ DOMAIN ppc = NodeIds
          /\ closed \subseteq accepted /\ NONE \notin accepted
      BY ClientAssumption DEF Typed, TypeOK, PoolTypes
    <3>3. ASSUME PoolPop(n) \/ PoolReadEnds(n) PROVE Conserved'
      <4>1. UNCHANGED <<closed, slot, tasks>> /\ ppc[n] \in {"pop", "read"}
        BY <3>3 DEF PoolPop, PoolReadEnds, vars, connVars
      <4>2. \E p \in {"read", "close"} : ppc' = [ppc EXCEPT ![n] = p]
        BY <3>3 DEF PoolPop, PoolReadEnds
      <4>3. mpc # "over"
        BY <4>1 DEF Conserved, NodeStage
      <4>4. \A m \in NodeIds : NodeStage(m)' /\ NodeKeeps(m)'
        BY <3>1, <3>2, <4>1, <4>2, <4>3 DEF Conserved, NodeStage, NodeKeeps
      <4> QED
        BY <3>1, <4>1, <4>4 DEF Conserved, Kept, NodeIds
    <3>4. ASSUME PoolClose(n) PROVE Conserved'
      <4>1. /\ UNCHANGED <<slot, tasks>> /\ ppc[n] = "close"
            /\ closed' = closed \cup ({slot[n]} \ {NONE})
            /\ ppc' = [ppc EXCEPT ![n] = "reset"]
        BY <3>4 DEF PoolClose
      <4>2. mpc # "over" /\ tasks[n] > 0
        BY <4>1 DEF Conserved, NodeStage, Typed, PoolTypes
      <4>3. ~overrun => slot[n] # NONE
        BY <3>2, <4>2 DEF Conserved, NodeKeeps
      <4>4. \A m \in NodeIds : NodeStage(m)' /\ NodeKeeps(m)'
        BY <3>1, <3>2, <4>1, <4>2, <4>3 DEF Conserved, NodeStage, NodeKeeps
      <4> QED
        BY <3>1, <4>1, <4>4 DEF Conserved, Kept, NodeIds
    <3>5. ASSUME PoolReset(n) PROVE Conserved'
      <4>1. /\ UNCHANGED closed /\ ppc[n] = "reset"
            /\ slot' = [slot EXCEPT ![n] = NONE]
            /\ tasks' = [tasks EXCEPT ![n] = tasks[n] - 1]
            /\ ppc' = [ppc EXCEPT ![n] = "pop"]
        BY <3>5 DEF PoolReset, vars, connVars
      <4>2. mpc # "over" /\ tasks[n] > 0
        BY <4>1 DEF Conserved, NodeStage, Typed, PoolTypes
      <4>3. ~overrun => tasks[n] = 1 /\ slot[n] \in closed
        BY <3>2, <4>1, <4>2 DEF Conserved, NodeKeeps
      <4>4. ASSUME NEW m \in NodeIds PROVE NodeStage(m)' /\ NodeKeeps(m)'
        <5>1. CASE m = n
          BY <3>1, <3>2, <4>1, <4>2, <4>3, <5>1
             DEF Conserved, NodeStage, NodeKeeps
        <5>2. CASE m # n
          BY <3>1, <3>2, <4>1, <5>2 DEF Conserved, NodeStage, NodeKeeps
        <5> QED
          BY <5>1, <5>2
      <4>5. ASSUME ~overrun, NEW c \in accepted \ closed PROVE Kept(c)'
        <5>1. Kept(c)
          BY <4>5 DEF Conserved
        <5> QED
          BY <3>1, <3>2, <4>1, <4>3, <4>5, <5>1 DEF Kept, NodeIds
      <4> QED
        BY <3>1, <4>1, <4>4, <4>5 DEF Conserved, NodeIds
    <3>6. ASSUME PoolStop(n) PROVE Conserved'
      <4>1. /\ UNCHANGED <<closed, slot, tasks>> /\ ppc[n] = "pop" /\ tasks[n] = 0
            /\ ppc' = [ppc EXCEPT ![n] = "ended"] /\ mpc = "daemon_done"
        BY <3>6 DEF PoolStop, vars, connVars
      <4>2. \A m \in NodeIds : NodeStage(m)' /\ NodeKeeps(m)'
        BY <3>1, <3>2, <4>1 DEF Conserved, NodeStage, NodeKeeps
      <4> QED
        BY <3>1, <4>1, <4>2 DEF Conserved, Kept, NodeIds
    <3> QED
      BY <2>5, <3>3, <3>4, <3>5, <3>6 DEF Pool
  <2> QED
    BY <2>1, <2>2, <2>3, <2>4, <2>5, QuietOr
<1> QED
  BY <1>1, <1>2, TypedHolds, StagesHold, PTL DEF ServicesSpec

(* What was used twice is lost: a connection that is overwritten before it *)
(* is closed has no slot from then on, and one that is written between the *)
(* closing and the reset has none after the reset.                         *)
LEMMA LostHolds == ServicesSpec => []Lost
<1>1. ServicesInit => Lost
  <2> SUFFICES ASSUME ServicesInit PROVE Lost
    OBVIOUS
  <2>1. /\ \A n \in NodeIds : slot[n] = NONE /\ tasks[n] = 0
        /\ closed = {} /\ ~overrun
    BY DEF ServicesInit, Init
  <2> QED
    BY <2>1 DEF Lost
<1>2. Typed /\ Stages /\ Conserved /\ Lost /\ [ServicesNext]_allVars => Lost'
  <2> SUFFICES ASSUME Typed, Stages, Conserved, Lost, [ServicesNext]_allVars
               PROVE  Lost'
    OBVIOUS
  <2>0. /\ NodeIds = 0 .. nthreads - 1 /\ nthreads \in Nat
        /\ tasks \in [NodeIds -> Nat] /\ slot \in [NodeIds -> accepted \cup {NONE}]
        /\ DOMAIN ppc = NodeIds
        /\ closed \subseteq accepted /\ NONE \notin accepted /\ NONE \notin Clients
        /\ spc = "serve" => cli \in accepted \ closed /\ \A n \in NodeIds : slot[n] # cli
    BY ClientAssumption DEF NodeIds, Typed, TypeOK, PoolTypes, Connections
  <2>1. CASE Quiet
    <3>1. \A c : Orphan(c) => Orphan(c)'
      BY <2>1 DEF Quiet, Orphan, NodeIds
    <3>2. \A n : Doomed(n) => Doomed(n)'
      BY <2>1 DEF Quiet, Doomed
    <3> QED
      BY <2>1, <3>1, <3>2 DEF Quiet, Lost, NodeIds
  <2>2. CASE UNCHANGED <<config, poolVars>> /\ AcceptReturns
    <3>1. /\ UNCHANGED <<closed, slot, tasks, ppc, overrun, kind, nthreads>>
          /\ accepted' = accepted \cup {cli'} /\ spc' = "serve"
          /\ cli' = Head(backlog) /\ backlog # <<>>
      BY <2>2 DEF AcceptReturns, config, poolVars
    <3>2. cli' \notin accepted
      BY <3>1, HeadTailProperties, LenProperties, EmptySeq
         DEF Typed, TypeOK, Connections
    <3>3. \A c : Orphan(c) => Orphan(c)'
      BY <3>1, <3>2 DEF Orphan, NodeIds
    <3>4. \A n : Doomed(n) => Doomed(n)'
      BY <3>1 DEF Doomed
    <3> QED
      BY <3>1, <3>3, <3>4 DEF Lost, NodeIds
  <2>3. CASE UNCHANGED <<config, poolVars>> /\ Dispatch
    <3>1. /\ UNCHANGED <<accepted, slot, tasks, ppc, overrun, kind, nthreads>>
          /\ closed' = closed \cup {cli} /\ spc = "serve" /\ spc' # "serve"
      BY <2>3 DEF Dispatch, config, poolVars
    <3>2. \A c : Orphan(c) => Orphan(c)'
      BY <3>1 DEF Orphan, NodeIds
    <3>3. \A n \in NodeIds : Doomed(n) => Doomed(n)'
      BY <2>0, <3>1 DEF Doomed
    <3> QED
      BY <2>0, <3>1, <3>2, <3>3 DEF Lost, NodeIds
  <2>4. CASE UNCHANGED config /\ kind = "pooled" /\ Enqueue
    <3>1. PICK n \in NodeIds : n = next % nthreads
      <4>1. next \in Nat /\ nthreads \in Nat \ {0}
        BY <2>0, <2>4 DEF Typed, PoolTypes
      <4>2. next % nthreads \in 0 .. nthreads - 1
        BY <4>1, NodeIndex
      <4> QED
        BY <2>0, <4>2
    <3>2. /\ UNCHANGED <<accepted, closed, ppc, kind, nthreads, cli>>
          /\ spc = "serve" /\ spc' = "poll"
          /\ slot' = [slot EXCEPT ![n] = cli]
          /\ tasks' = [tasks EXCEPT ![n] = tasks[n] + 1]
          /\ overrun' = (overrun \/ tasks[n] > 0)
      BY <2>4, <3>1 DEF Enqueue, config, connVars
    <3>3. NodeIds' = NodeIds
      BY <3>2 DEF NodeIds
    <3>4. /\ slot'[n] = cli /\ \A m \in NodeIds : m # n => slot'[m] = slot[m]
          /\ \A m \in NodeIds : m # n => tasks'[m] = tasks[m]
      BY <2>0, <3>1, <3>2
    <3>5. \A c : Orphan(c) => Orphan(c)'
      BY <3>2, <3>3, <3>4 DEF Orphan
    <3>6. \A m \in NodeIds : Doomed(m) => Doomed(m)'
      BY <2>0, <3>2, <3>4 DEF Doomed
    <3>7. ASSUME ~overrun, tasks[n] > 0
          PROVE  (\E c \in accepted : Orphan(c)') \/ Doomed(n)'
      <4>1. slot[n] \in accepted
        <5>1. tasks[n] # 0
          BY <2>0, <3>1, <3>7
        <5> QED
          BY <2>0, <3>1, <3>7, <5>1 DEF Conserved, NodeKeeps
      <4>2. CASE slot[n] \in closed
        BY <2>0, <3>1, <3>2, <3>4, <3>7, <4>2 DEF Lost, Doomed
      <4>3. CASE slot[n] \notin closed
        <5>1. \A m \in NodeIds : slot'[m] # slot[n]
          BY <2>0, <3>1, <3>2, <3>4, <4>1 DEF Lost
        <5>2. PICK c \in accepted : c = slot[n]
          BY <4>1
        <5>3. c # cli
          BY <2>0, <3>1, <3>2, <5>2
        <5>4. Orphan(c)'
          BY <3>2, <3>3, <4>3, <5>1, <5>2, <5>3 DEF Orphan
        <5> QED
          BY <5>4
      <4> QED
        BY <4>2, <4>3
    <3>8. overrun' => (\E c \in accepted' : Orphan(c)') \/ (\E m \in NodeIds' : Doomed(m)')
      <4>1. CASE overrun
        BY <3>2, <3>3, <3>5, <3>6, <4>1 DEF Lost
      <4>2. CASE ~overrun
        BY <3>1, <3>2, <3>3, <3>7, <4>2
      <4> QED
        BY <4>1, <4>2
    <3>9. \A m, k \in NodeIds : slot'[m] = slot'[k] /\ slot'[m] # NONE => m = k
      BY <2>0, <3>2, <3>4 DEF Lost
    <3>10. \A m \in NodeIds :
              ppc[m] = "none" /\ tasks'[m] > 0 => slot'[m] \in accepted \ closed
      BY <2>0, <3>2, <3>4 DEF Lost
    <3>11. ~overrun => \A m \in NodeIds : slot'[m] \in closed => ppc[m] = "reset"
      BY <2>0, <3>2, <3>4 DEF Lost
    <3> QED
      BY <3>2, <3>3, <3>8, <3>9, <3>10, <3>11 DEF Lost
  <2>5. ASSUME NEW n \in NodeIds, UNCHANGED config, Pool(n) PROVE Lost'
    <3>1. UNCHANGED <<spc, accepted, cli, overrun, kind, nthreads>>
      BY <2>5
         DEF Pool, PoolPop, PoolReadEnds, PoolClose, PoolReset, PoolStop,
             config, vars, serviceVars, connVars
    <3>2. NodeIds' = NodeIds
      BY <3>1 DEF NodeIds
    <3>3. ASSUME PoolPop(n) \/ PoolReadEnds(n) \/ PoolStop(n) PROVE Lost'
      <4>1. /\ UNCHANGED <<closed, slot, tasks>> /\ ppc[n] \notin {"none", "reset"}
        BY <3>3 DEF PoolPop, PoolReadEnds, PoolStop, vars, connVars
      <4>2. \E p \in {"read", "close", "ended"} : ppc' = [ppc EXCEPT ![n] = p]
        BY <3>3 DEF PoolPop, PoolReadEnds, PoolStop
      <4>3. \A m \in NodeIds : /\ ppc'[m] = "none" <=> ppc[m] = "none"
                               /\ ppc'[m] = "reset" <=> ppc[m] = "reset"
        BY <2>0, <4>1, <4>2
      <4>4. \A c : Orphan(c) => Orphan(c)'
        BY <3>1, <3>2, <4>1 DEF Orphan
      <4>5. \A m \in NodeIds : Doomed(m) => Doomed(m)'
        BY <3>1, <4>1, <4>3 DEF Doomed
      <4> QED
        BY <3>1, <3>2, <4>1, <4>3, <4>4, <4>5 DEF Lost
    <3>4. ASSUME PoolClose(n) PROVE Lost'
      <4>1. /\ UNCHANGED <<slot, tasks>> /\ ppc[n] = "close"
            /\ closed' = closed \cup ({slot[n]} \ {NONE})
            /\ ppc' = [ppc EXCEPT ![n] = "reset"]
        BY <3>4 DEF PoolClose
      <4>2. ppc'[n] = "reset" /\ \A m \in NodeIds : m # n => ppc'[m] = ppc[m]
        BY <2>0, <4>1
      <4>3. \A m \in NodeIds : m # n /\ slot[m] \in accepted \ closed =>
                                  slot[m] \notin closed'
        BY <2>0, <4>1 DEF Lost
      <4>4. \A c : Orphan(c) => Orphan(c)'
        BY <3>1, <3>2, <4>1 DEF Orphan
      <4>5. \A m \in NodeIds : Doomed(m) => Doomed(m)'
        BY <3>1, <4>1, <4>2, <4>3 DEF Doomed
      <4>6. \A m \in NodeIds : ppc'[m] = "none" /\ tasks'[m] > 0 =>
                                  slot'[m] \in accepted' \ closed'
        BY <3>1, <4>1, <4>2, <4>3 DEF Lost
      <4>7. ~overrun => \A m \in NodeIds : slot'[m] \in closed' => ppc'[m] = "reset"
        <5> SUFFICES ASSUME ~overrun, NEW m \in NodeIds, slot[m] \in closed', m # n
                     PROVE  ppc[m] = "reset"
          BY <4>1, <4>2
        <5>1. slot[m] \in closed
          <6>1. slot[m] \in accepted
            BY <2>0, <4>1
          <6> QED
            BY <4>3, <6>1
        <5> QED
          BY <5>1 DEF Lost
      <4> QED
        BY <3>1, <3>2, <4>1, <4>4, <4>5, <4>6, <4>7 DEF Lost
    <3>5. ASSUME PoolReset(n) PROVE Lost'
      <4>1. /\ UNCHANGED closed /\ ppc[n] = "reset"
            /\ slot' = [slot EXCEPT ![n] = NONE]
            /\ tasks' = [tasks EXCEPT ![n] = tasks[n] - 1]
            /\ ppc' = [ppc EXCEPT ![n] = "pop"]
        BY <3>5 DEF PoolReset, vars, connVars
      <4>2. /\ slot'[n] = NONE /\ ppc'[n] = "pop"
            /\ \A m \in NodeIds : m # n => /\ slot'[m] = slot[m]
                                           /\ tasks'[m] = tasks[m]
                                           /\ ppc'[m] = ppc[m]
        BY <2>0, <4>1
      <4>3. \A c : Orphan(c) => Orphan(c)'
        <5> SUFFICES ASSUME NEW c, Orphan(c) PROVE Orphan(c)'
          OBVIOUS
        <5>1. c # NONE
          BY <2>0 DEF Orphan
        <5> QED
          BY <3>1, <3>2, <4>1, <4>2, <5>1 DEF Orphan
      <4>4. \A m \in NodeIds : m # n /\ Doomed(m) => Doomed(m)'
        BY <3>1, <4>1, <4>2 DEF Doomed
      <4>5. Doomed(n) => \E c \in accepted : Orphan(c)'
        <5> SUFFICES ASSUME Doomed(n) PROVE \E c \in accepted : Orphan(c)'
          OBVIOUS
        <5>1. PICK c \in accepted \ closed : c = slot[n]
          BY DEF Doomed
        <5>2. c # NONE
          BY <2>0
        <5>3. \A m \in NodeIds : slot'[m] # c
          BY <4>2, <5>1, <5>2 DEF Lost
        <5>4. spc' = "serve" => c # cli'
          BY <2>0, <3>1, <5>1
        <5>5. Orphan(c)'
          BY <3>1, <3>2, <4>1, <5>3, <5>4 DEF Orphan
        <5> QED
          BY <5>5
      <4>6. overrun' => \/ \E c \in accepted' : Orphan(c)'
                        \/ \E m \in NodeIds' : Doomed(m)'
        BY <3>1, <3>2, <4>3, <4>4, <4>5 DEF Lost
      <4>7. \A m, k \in NodeIds : slot'[m] = slot'[k] /\ slot'[m] # NONE => m = k
        BY <4>2 DEF Lost
      <4>8. \A m \in NodeIds : ppc'[m] = "none" /\ tasks'[m] > 0 =>
                                  slot'[m] \in accepted' \ closed'
        BY <3>1, <4>1, <4>2 DEF Lost
      <4>9. ~overrun => \A m \in NodeIds : slot'[m] \in closed' => ppc'[m] = "reset"
        BY <2>0, <4>1, <4>2 DEF Lost
      <4> QED
        BY <3>1, <3>2, <4>6, <4>7, <4>8, <4>9 DEF Lost
    <3> QED
      BY <2>5, <3>3, <3>4, <3>5 DEF Pool
  <2> QED
    BY <2>1, <2>2, <2>3, <2>4, <2>5, QuietOr
<1> QED
  BY <1>1, <1>2, TypedHolds, StagesHold, ConservedHolds, PTL DEF ServicesSpec

-------------------------------------------------------------------------------

(* The destructors run when the worker's, the service's and the exit       *)
(* thread have ended, with no open descriptor left: TecServiceWorker_done_ *)
(* may join and free what they use.                                        *)
THEOREM EndFirst == ServicesSpec => []ThreadsEndFirst
<1>1. Typed /\ Stages => ThreadsEndFirst
  BY DEF Typed, TypeOK, Stages, MainStage, ServiceStage, ExitStage, SocketStage, Ending,
         ThreadsEndFirst
<1> QED
  BY <1>1, TypedHolds, StagesHold, PTL

(* When TecDaemon_run has returned 0 the server listens and polls until it *)
(* is told to terminate; when run fails nothing listens.                   *)
THEOREM Reported == ServicesSpec => []StartReported
<1>1. Typed /\ Stages => StartReported
  BY DEF Typed, TypeOK, PoolTypes, Stages, MainStage, ServiceStage, ExitStage,
         SocketStage, Serving, Ending, StartReported
<1> QED
  BY <1>1, TypedHolds, StagesHold, PTL

(* After the destructors no thread of the pool is left, and every accepted *)
(* connection has been closed exactly if none was handed to a node without *)
(* a thread or to one that had not finished with another.                  *)
THEOREM NothingLeft == ServicesSpec => []NoConnectionLeft
<1>1. Typed /\ Stages /\ Conserved /\ Lost => NoConnectionLeft
  <2> SUFFICES ASSUME Typed, Stages, Conserved, Lost, mpc = "over"
               PROVE  /\ \A n \in NodeIds : ppc[n] \in {"none", "ended"}
                      /\ accepted = closed <=> ~ConnectionLost
    BY DEF NoConnectionLeft
  <2>1. \A n \in NodeIds : ppc[n] \in {"none", "ended"}
    BY DEF Conserved, NodeStage
  <2>2. closed \subseteq accepted /\ NONE \notin accepted /\ tasks \in [NodeIds -> Nat]
    BY ClientAssumption DEF Typed, TypeOK, PoolTypes
  <2>3. ASSUME ~ConnectionLost PROVE accepted = closed
    <3>1. ~overrun /\ \A n \in NodeIds : ~(ppc[n] = "none" /\ tasks[n] > 0)
      BY <2>3 DEF ConnectionLost
    <3>2. \A n \in NodeIds : tasks[n] = 0
      BY <2>1, <2>2, <3>1 DEF Conserved, NodeStage
    <3>3. \A n \in NodeIds : slot[n] = NONE
      BY <3>1, <3>2 DEF Conserved, NodeKeeps
    <3>4. spc # "serve"
      BY DEF Stages, MainStage, ServiceStage, Ending
    <3>5. \A c \in accepted \ closed : FALSE
      BY <2>2, <3>1, <3>3, <3>4 DEF Conserved, Kept
    <3> QED
      BY <2>2, <3>5
  <2>4. ASSUME ConnectionLost PROVE accepted # closed
    <3>1. CASE overrun
      <4>1. \A n \in NodeIds : ~Doomed(n)
        BY <2>1 DEF Doomed
      <4>2. \E c \in accepted : Orphan(c)
        BY <3>1, <4>1 DEF Lost
      <4> QED
        BY <4>2 DEF Orphan
    <3>2. CASE ~overrun
      BY <2>4, <3>2 DEF ConnectionLost, Lost
    <3> QED
      BY <3>1, <3>2
  <2> QED
    BY <2>1, <2>3, <2>4
<1> QED
  BY <1>1, TypedHolds, StagesHold, ConservedHolds, LostHolds, PTL
===============================================================================
