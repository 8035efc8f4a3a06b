------------------------------ MODULE TecTCPServer ------------------------------
(***************************************************************************)
(* tecc_service_worker.c and tecc_tcp_server.c: a TCP server run as the    *)
(* service of a service worker, from TecDaemon_run to the destructors, in  *)
(* the order of examples/socket/server.c.  Four threads take part: main,   *)
(* the worker's thread with on_init and on_exit, the service thread that   *)
(* starts the server and polls, and the exit thread that shuts it down.    *)
(*                                                                         *)
(* The worker is what TecWorker shows of it to one caller that sends no    *)
(* message but the last; a signal is a latch (TecSignal implements Latch), *)
(* except that TecSignal_set is not over when its value is seen, which is  *)
(* kept for the last set of each thread.  The server has no thread pool;   *)
(* TecServices adds one, and the default service.                          *)
(*                                                                         *)
(* Of the system's sockets the listening one has a state and a descriptor: *)
(* a thread blocked in accept returns when a connection comes or when the  *)
(* socket is shut down, but not when only the descriptor is closed.  No    *)
(* other descriptor is opened while the server shuts down.                 *)
(***************************************************************************)
EXTENDS Naturals, Sequences

CONSTANTS Clients,   \* connections, each made once
          NONE

ASSUME ClientAssumption == NONE \notin Clients

VARIABLES
    mpc,               \* main
    wpc, wthr, werr,   \* the worker's thread, its handle, TecWorker.error
    spc, sthr, error,  \* the service thread, its handle, TecServiceWorker.error
    xpc,               \* the exit thread
    sigs,              \* the signals that are set
    running,
    fd, lfd,           \* sock.fd: whether it is not -1; as accept has read it
    desc, listener,    \* the descriptor is open; the listening socket
    backlog, cli,      \* connections to accept; the one accepted last
    accepted, closed,  \* history: connections accepted, and closed by us
    ended              \* connections whose peer has closed

workerVars == <<wpc, wthr, werr>>
serviceVars == <<spc, sthr, error>>
sockVars == <<fd, lfd, desc, listener>>
connVars == <<backlog, cli, accepted, closed, ended>>

vars == <<mpc, workerVars, serviceVars, xpc, sigs, running, sockVars, connVars>>

Signals == {"running", "terminated", "started", "stopped", "polling_stopped"}

(* TecServiceWorker_init_ and TecTCPServer_init. *)
Init == /\ mpc = "run"
        /\ wpc = "none" /\ wthr = FALSE /\ werr = "ok"
        /\ spc = "none" /\ sthr = FALSE /\ error = "ok"
        /\ xpc = "none"
        /\ sigs = {}
        /\ running = TRUE
        /\ fd = FALSE /\ lfd = FALSE /\ desc = FALSE /\ listener = "none"
        /\ backlog = <<>> /\ cli = NONE
        /\ accepted = {} /\ closed = {} /\ ended = {}

Set(s) == sigs' = sigs \cup {s}

-------------------------------------------------------------------------------

(* TecWorker_run_: the worker's thread is created, or not. *)
Run ==
    /\ mpc = "run"
    /\ \/ mpc' = "wait" /\ wthr' = TRUE /\ wpc' = "init"
       \/ mpc' = "server_done" /\ UNCHANGED <<wthr, wpc>>
    /\ UNCHANGED <<werr, serviceVars, xpc, sigs, running, sockVars, connVars>>

RunWait ==
    /\ mpc = "wait"
    /\ "running" \in sigs
    /\ mpc' = IF werr = "ok" THEN "up" ELSE "join"
    /\ UNCHANGED <<workerVars, serviceVars, xpc, sigs, running, sockVars, connVars>>

(* Both joins of the worker's thread: of a run that failed, and of         *)
(* TecWorker_terminate_.                                                   *)
WorkerJoin ==
    /\ mpc = "join" \/ (mpc = "terminate" /\ "terminated" \in sigs)
    /\ wthr => wpc = "ended"
    /\ wthr' = FALSE
    /\ mpc' = "server_done"
    /\ UNCHANGED <<wpc, werr, serviceVars, xpc, sigs, running, sockVars, connVars>>

(* TecDaemon_terminate, when main has been told to quit. *)
Terminate ==
    /\ mpc = "up"
    /\ mpc' = "terminate"
    /\ UNCHANGED <<workerVars, serviceVars, xpc, sigs, running, sockVars, connVars>>

(* TecTCPServer_done_: the signal, the socket and the buffer. *)
ServerDone ==
    /\ mpc = "server_done"
    /\ mpc' = "daemon_done"
    /\ fd' = FALSE
    /\ desc' = FALSE
    /\ listener' = IF fd THEN "shut" ELSE listener
    /\ UNCHANGED <<workerVars, serviceVars, xpc, sigs, running, lfd, connVars>>

(* TecServiceWorker_done_: the signals first, then the joins. *)
DaemonDone ==
    /\ mpc = "daemon_done"
    /\ sthr => spc = "ended"
    /\ wthr => wpc = "ended"
    /\ mpc' = "over"
    /\ sthr' = FALSE
    /\ wthr' = FALSE
    /\ UNCHANGED <<wpc, werr, spc, error, xpc, sigs, running, sockVars, connVars>>

-------------------------------------------------------------------------------

(* on_init: create the service thread... *)
OnInit ==
    /\ wpc = "init"
    /\ \/ wpc' = "wait_started" /\ sthr' = TRUE /\ spc' = "start" /\ UNCHANGED werr
       \/ wpc' = "running" /\ werr' = "system" /\ UNCHANGED <<sthr, spc>>
    /\ UNCHANGED <<mpc, wthr, error, xpc, sigs, running, sockVars, connVars>>

(* Faulty: the error is read before the service has started. *)
OnInitStarted_NoWait ==
    /\ wpc = "wait_started"
    /\ wpc' = IF error = "ok" THEN "running" ELSE "join_failed"
    /\ UNCHANGED <<mpc, wthr, werr, serviceVars, xpc, sigs, running, sockVars, connVars>>

(* ... wait until it has started... *)
OnInitStarted ==
    /\ wpc = "wait_started"
    /\ "started" \in sigs
    /\ wpc' = IF error = "ok" THEN "running" ELSE "join_failed"
    /\ UNCHANGED <<mpc, wthr, werr, serviceVars, xpc, sigs, running, sockVars, connVars>>

(* ... and join it if it has failed. *)
OnInitFailed ==
    /\ wpc = "join_failed"
    /\ spc = "ended"
    /\ sthr' = FALSE
    /\ Set("stopped")
    /\ werr' = error
    /\ wpc' = "running"
    /\ UNCHANGED <<mpc, wthr, spc, error, xpc, running, sockVars, connVars>>

SetRunning ==
    /\ wpc = "running"
    /\ Set("running")
    /\ wpc' = IF werr = "ok" THEN "pop" ELSE "terminated"
    /\ UNCHANGED <<mpc, wthr, werr, serviceVars, xpc, running, sockVars, connVars>>

PopStop ==
    /\ wpc = "pop"
    /\ mpc = "terminate"
    /\ wpc' = "exit"
    /\ UNCHANGED <<mpc, wthr, werr, serviceVars, xpc, sigs, running, sockVars, connVars>>

(* on_exit: create the exit thread and join it, if there is one... *)
OnExit ==
    /\ wpc = "exit"
    /\ \/ wpc' = "exit_join" /\ xpc' = "stop"
       \/ wpc' = "wait_stopped" /\ UNCHANGED xpc
    /\ UNCHANGED <<mpc, wthr, werr, serviceVars, sigs, running, sockVars, connVars>>

OnExitJoin ==
    /\ wpc = "exit_join"
    /\ xpc = "ended"
    /\ wpc' = "wait_stopped"
    /\ UNCHANGED <<mpc, wthr, werr, serviceVars, xpc, sigs, running, sockVars, connVars>>

(* Faulty: the service thread is left to itself. *)
OnExitStopped_NoJoin ==
    /\ wpc = "wait_stopped"
    /\ "stopped" \in sigs
    /\ werr' = error
    /\ wpc' = "terminated"
    /\ UNCHANGED <<mpc, wthr, serviceVars, xpc, sigs, running, sockVars, connVars>>

(* ... wait until the service has stopped and join its thread. *)
OnExitStopped ==
    /\ wpc = "wait_stopped"
    /\ "stopped" \in sigs
    /\ sthr => spc = "ended"
    /\ sthr' = FALSE
    /\ werr' = error
    /\ wpc' = "terminated"
    /\ UNCHANGED <<mpc, wthr, spc, error, xpc, sigs, running, sockVars, connVars>>

SetTerminated ==
    /\ wpc = "terminated"
    /\ Set("terminated")
    /\ wpc' = "last"
    /\ UNCHANGED <<mpc, wthr, werr, serviceVars, xpc, running, sockVars, connVars>>

WorkerEnds ==
    /\ wpc = "last"
    /\ wpc' = "ended"
    /\ UNCHANGED <<mpc, wthr, werr, serviceVars, xpc, sigs, running, sockVars, connVars>>

-------------------------------------------------------------------------------

(* The socket after TecSocket_open, TecSocket_bind and TecSocket_listen:   *)
(* not opened; open, but bind or listen has failed; listening.             *)
NotOpened == UNCHANGED <<fd, desc, listener>>

Opened(state) == fd' = TRUE /\ desc' = TRUE /\ listener' = state

NotBound == Opened("open")

Listening == Opened("listening")

(* start_: a socket that is open but does not listen stays open. *)
StartFails ==
    /\ spc = "start"
    /\ NotOpened \/ NotBound
    /\ error' = "start"
    /\ spc' = "failed"
    /\ UNCHANGED <<mpc, workerVars, sthr, xpc, sigs, running, lfd, connVars>>

Listens ==
    /\ spc = "start"
    /\ Listening
    /\ error' = "ok"
    /\ spc' = "started"
    /\ UNCHANGED <<mpc, workerVars, sthr, xpc, sigs, running, lfd, connVars>>

(* After a failure two signals are set, the second before the thread ends. *)
FailedSignals ==
    /\ \/ spc = "failed" /\ Set("polling_stopped") /\ spc' = "failed_started"
       \/ spc = "failed_started" /\ Set("started") /\ spc' = "last"
    /\ UNCHANGED <<mpc, workerVars, sthr, error, xpc, running, sockVars, connVars>>

Started ==
    /\ spc = "started"
    /\ Set("started")
    /\ spc' = "poll"
    /\ UNCHANGED <<mpc, workerVars, sthr, error, xpc, running, sockVars, connVars>>

(* poll_: test the flag... *)
Poll ==
    /\ spc = "poll"
    /\ spc' = IF running THEN "fd" ELSE "stopped"
    /\ UNCHANGED <<mpc, workerVars, sthr, error, xpc, sigs, running, sockVars, connVars>>

(* ... read the descriptor, which the exit thread may be resetting... *)
ReadFd ==
    /\ spc = "fd"
    /\ lfd' = fd
    /\ spc' = "accept"
    /\ UNCHANGED <<mpc, workerVars, sthr, error, xpc, sigs, running, fd, desc,
                   listener, connVars>>

(* ... and accept: EBADF at once, or wait. *)
Accept ==
    /\ spc = "accept"
    /\ spc' = IF lfd /\ desc THEN "blocked" ELSE "poll"
    /\ UNCHANGED <<mpc, workerVars, sthr, error, xpc, sigs, running, sockVars, connVars>>

AcceptReturns ==
    /\ spc = "blocked"
    /\ backlog # <<>>
    /\ cli' = Head(backlog)
    /\ backlog' = Tail(backlog)
    /\ accepted' = accepted \cup {cli'}
    /\ spc' = "serve"
    /\ UNCHANGED <<mpc, workerVars, sthr, error, xpc, sigs, running, sockVars,
                   closed, ended>>

(* EINVAL: the socket has been shut down. *)
AcceptShutDown ==
    /\ spc = "blocked"
    /\ listener = "shut"
    /\ cli' = NONE
    /\ spc' = "poll"
    /\ UNCHANGED <<mpc, workerVars, sthr, error, xpc, sigs, running, sockVars,
                   backlog, accepted, closed, ended>>

(* EINTR, ECONNABORTED and the like. *)
AcceptInterrupted ==
    /\ spc = "blocked"
    /\ cli' = NONE
    /\ spc' = "poll"
    /\ UNCHANGED <<mpc, workerVars, sthr, error, xpc, sigs, running, sockVars,
                   backlog, accepted, closed, ended>>

(* dispatch_client_: the handler reads until the peer closes, the socket   *)
(* is closed.                                                              *)
Dispatch ==
    /\ spc = "serve"
    /\ cli \in ended
    /\ closed' = closed \cup {cli}
    /\ spc' = "poll"
    /\ UNCHANGED <<mpc, workerVars, sthr, error, xpc, sigs, running, sockVars,
                   backlog, cli, accepted, ended>>

PollingStopped ==
    /\ spc = "stopped"
    /\ Set("polling_stopped")
    /\ spc' = "last"
    /\ UNCHANGED <<mpc, workerVars, sthr, error, xpc, running, sockVars, connVars>>

ServiceEnds ==
    /\ spc = "last"
    /\ spc' = "ended"
    /\ UNCHANGED <<mpc, workerVars, sthr, error, xpc, sigs, running, sockVars, connVars>>

-------------------------------------------------------------------------------

(* shutdown_: the flag... *)
StopRunning ==
    /\ xpc = "stop"
    /\ running' = FALSE
    /\ xpc' = "shut"
    /\ UNCHANGED <<mpc, workerVars, serviceVars, sigs, sockVars, connVars>>

(* Faulty: the descriptor is closed and nothing else. *)
ShutDown_CloseOnly ==
    /\ xpc = "shut"
    /\ xpc' = "close"
    /\ UNCHANGED <<mpc, workerVars, serviceVars, sigs, running, sockVars, connVars>>

(* ... TecSocket_close in three steps, beginning with the connections      *)
(* nobody has accepted...                                                  *)
ShutDown ==
    /\ xpc = "shut"
    /\ listener' = "shut"
    /\ backlog' = <<>>
    /\ xpc' = "close"
    /\ UNCHANGED <<mpc, workerVars, serviceVars, sigs, running, fd, lfd, desc,
                   cli, accepted, closed, ended>>

CloseFd ==
    /\ xpc = "close"
    /\ desc' = FALSE
    /\ xpc' = "reset"
    /\ UNCHANGED <<mpc, workerVars, serviceVars, sigs, running, fd, lfd, listener,
                   connVars>>

ResetFd ==
    /\ xpc = "reset"
    /\ fd' = FALSE
    /\ xpc' = "wait_polling"
    /\ UNCHANGED <<mpc, workerVars, serviceVars, sigs, running, lfd, desc, listener,
                   connVars>>

(* ... and the two signals. *)
ShutDownSignals ==
    /\ xpc = "wait_polling"
    /\ "polling_stopped" \in sigs
    /\ Set("stopped")
    /\ xpc' = "last"
    /\ UNCHANGED <<mpc, workerVars, serviceVars, running, sockVars, connVars>>

ExitEnds ==
    /\ xpc = "last"
    /\ xpc' = "ended"
    /\ UNCHANGED <<mpc, workerVars, serviceVars, sigs, running, sockVars, connVars>>

-------------------------------------------------------------------------------

(* A peer connects while the socket listens; it may never close. *)
Connect(c) ==
    /\ listener = "listening"
    /\ c \notin accepted \cup ended
    /\ \A i \in 1 .. Len(backlog) : backlog[i] # c
    /\ backlog' = Append(backlog, c)
    /\ UNCHANGED <<mpc, workerVars, serviceVars, xpc, sigs, running, sockVars,
                   cli, accepted, closed, ended>>

PeerCloses(c) ==
    /\ c \notin ended
    /\ c \in accepted \/ \E i \in 1 .. Len(backlog) : backlog[i] = c
    /\ ended' = ended \cup {c}
    /\ UNCHANGED <<mpc, workerVars, serviceVars, xpc, sigs, running, sockVars,
                   backlog, cli, accepted, closed>>

-------------------------------------------------------------------------------

Main == Run \/ RunWait \/ WorkerJoin \/ ServerDone \/ DaemonDone

Worker == \/ OnInit \/ OnInitStarted \/ OnInitFailed \/ SetRunning \/ PopStop
          \/ OnExit \/ OnExitJoin \/ OnExitStopped \/ SetTerminated \/ WorkerEnds

Service == \/ StartFails \/ Listens \/ FailedSignals \/ Started
           \/ Poll \/ ReadFd \/ Accept \/ AcceptReturns \/ AcceptShutDown
           \/ Dispatch \/ PollingStopped \/ ServiceEnds

Exit == StopRunning \/ ShutDown \/ CloseFd \/ ResetFd \/ ShutDownSignals \/ ExitEnds

Next == \/ Main \/ Terminate \/ Worker \/ Service \/ AcceptInterrupted \/ Exit
        \/ \E c \in Clients : Connect(c) \/ PeerCloses(c)

Spec == Init /\ [][Next]_vars

(* Every thread runs when it can.  Nobody has to terminate the server, to  *)
(* connect or to close, and accept need not be interrupted.                *)
FairSpec == Spec /\ WF_vars(Main) /\ WF_vars(Worker) /\ WF_vars(Service) /\ WF_vars(Exit)

-------------------------------------------------------------------------------

(* Types; only a connection that has been accepted is served. *)
TypeOK ==
    /\ mpc \in {"run", "wait", "join", "up", "terminate", "server_done",
                "daemon_done", "over"}
    /\ wpc \in {"none", "init", "wait_started", "join_failed", "running", "pop",
                "exit", "exit_join", "wait_stopped", "terminated", "last", "ended"}
    /\ spc \in {"none", "start", "failed", "failed_started", "started", "poll",
                "fd", "accept", "blocked", "serve", "stopped", "last", "ended"}
    /\ xpc \in {"none", "stop", "shut", "close", "reset", "wait_polling", "last",
                "ended"}
    /\ {wthr, sthr, running, fd, lfd, desc} \subseteq BOOLEAN
    /\ werr \in {"ok", "system", "start"}
    /\ error \in {"ok", "start"}
    /\ sigs \subseteq Signals
    /\ listener \in {"none", "open", "listening", "shut"}
    /\ backlog \in Seq(Clients)
    /\ cli \in Clients \cup {NONE}
    /\ spc = "serve" => cli \in accepted \ closed
    /\ accepted \subseteq Clients
    /\ closed \subseteq accepted
    /\ ended \subseteq Clients

(* The destructors run when all threads that use server and service worker *)
(* have ended, their last TecSignal_set included, and the listening socket *)
(* is not left open; in between only accepted connections are served.      *)
ThreadsEndFirst ==
    /\ TypeOK
    /\ mpc \in {"daemon_done", "over"} => {wpc, spc, xpc} \subseteq {"none", "ended"}
    /\ mpc = "over" => ~desc

(* on_exit could not create the exit thread: nobody sets sig_stopped. *)
ExitThreadMissing == wpc = "wait_stopped" /\ xpc = "none"

(* "Stops the service and signals termination." (tecc_service.h:52):       *)
(* terminate and the destructors return whatever the server is doing, be   *)
(* it before its first poll, in accept or with a client, if the clients it *)
(* has accepted close their side and the exit thread can be created.  If   *)
(* it cannot, the worker waits for ever and the destructors with it.       *)
ShutdownEnds ==
    /\ (\A c \in Clients : []<>(c \in accepted => c \in ended)) =>
          (mpc = "terminate" ~> (mpc = "over" \/ ExitThreadMissing))
    /\ [](ExitThreadMissing => [](ExitThreadMissing /\ mpc # "over"))
===============================================================================
