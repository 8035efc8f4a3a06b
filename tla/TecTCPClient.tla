----------------------------- MODULE TecTCPClient -----------------------------
(***************************************************************************)
(* tecc_tcp_client.c over tecc_socket.c, against the handlers of the       *)
(* example servers: clients connect one after the other to a server that   *)
(* reads each connection to its end into a buffer (TecBuffer) and prints   *)
(* the C string it finds there.                                            *)
(*                                                                         *)
(* In a client the main thread starts the service, shuts it down and       *)
(* destroys it, as examples/socket/client.c does, while other threads call *)
(* send, recv and their combinations under the client's guard.  Main does  *)
(* not take the guard: it may close the socket under a thread that writes. *)
(*                                                                         *)
(* A connection carries bytes in order and holds a few of them; a write    *)
(* waits for room and may be cut short by a signal.  A client may die at   *)
(* any moment, as it does of SIGPIPE when it writes on a broken            *)
(* connection; the system then closes its socket.  A byte is the thread    *)
(* whose text it belongs to, or NUL.                                       *)
(***************************************************************************)
EXTENDS TecBuffer

CONSTANTS Users,      \* the client's threads, main apart
          NONE,
          MaxText,    \* bound on the characters of a text
          MaxConns,   \* bound on the clients
          MaxCalls,   \* bound on the calls of all clients
          WireSize,   \* bytes a connection holds
          IoBuf       \* capacity of the server's I/O buffer

ASSUME ClientAssumption == /\ Bytes = Users \cup {NUL}
                           /\ NUL \notin Users /\ NONE \notin Users
                           /\ {MaxText, MaxConns, MaxCalls, WireSize, IoBuf}
                                 \subseteq Nat \ {0}

VARIABLES
    mpc,                \* main
    upc, op, len, left, \* a thread, its call, its text's length, what is unsent
    res,                \* result of the call
    guard,              \* owner of the client's mutex
    sock,               \* fd (whether it is not -1), pai, and whether the
                        \* descriptor is open
    link, wire,         \* the client's end; bytes on their way
    spc, data,          \* the server, and the buffer it reads into
    handler,            \* what the server does with a connection
    conns, calls,       \* clients and calls so far
    stream, printed     \* history: bytes sent in the connection, text printed

userVars == <<upc, op, len, left, res, guard>>
serverVars == <<spc, data, handler, printed>>
linkVars == <<link, wire, stream>>
countVars == <<conns, calls>>

vars == <<mpc, userVars, sock, linkVars, serverVars, countVars>>

StrOps == {"send_str", "send_recv_str"}

Ops == StrOps \cup {"send", "send_recv", "recv"}

Letters(u, n) == [i \in 1 .. n |-> u]

(* Faulty: the terminator is not counted. *)
Text_NoTerminator(u, o, n) == Letters(u, n)

(* What a call puts on the wire: TecSocket_write_str includes the          *)
(* terminator.                                                             *)
Text(u, o, n) == Letters(u, n) \o (IF o \in StrOps THEN <<NUL>> ELSE <<>>)

-------------------------------------------------------------------------------

(* TecSocket_init_. *)
NewSocket == [fd |-> FALSE, pai |-> "none", desc |-> FALSE]

(* The buffer of the handlers: one block. *)
NewData == EnsureCapacity(Empty, 0, Block)

(* TecTCPClient_init_, TecBuffer_init of the server. *)
Init == /\ mpc = "start"
        /\ upc = [u \in Users |-> "idle"]
        /\ op = [u \in Users |-> "none"]
        /\ len = [u \in Users |-> 0]
        /\ left = [u \in Users |-> <<>>]
        /\ res = [u \in Users |-> "none"]
        /\ guard = NONE
        /\ sock = NewSocket
        /\ link = "none" /\ wire = <<>> /\ stream = <<>>
        /\ spc = "accept" /\ data = NewData /\ printed = <<NONE>>
        /\ handler \in {"process_data", "process_str", "run_server"}
        /\ conns = 1 /\ calls = 0

-------------------------------------------------------------------------------

(* TecSocket_open: an address that cannot be resolved, or a descriptor the *)
(* system refuses, which loses the resolved address.                       *)
OpenFails == sock' \in {[sock EXCEPT !.pai = p] : p \in {"none", "lost"}}

Open == sock' = [fd |-> TRUE, pai |-> "held", desc |-> TRUE]

(* TecSocket_close, when no other thread can see it half done. *)
Closed(s) == IF s.fd THEN NewSocket ELSE s

(* start_: open... *)
Start == /\ mpc = "start"
         /\ \/ OpenFails /\ mpc' = "done"
            \/ Open /\ mpc' = "connect"
         /\ UNCHANGED <<userVars, linkVars, serverVars, countVars>>

(* TecSocket_connect: refused and closed, or established; the error of     *)
(* get_socket_info is returned for a connection that stands.               *)
Refused == sock' = Closed(sock) /\ UNCHANGED link

Established == link' = "open" /\ UNCHANGED sock

NoPeerInfo == Established

(* ... and connect. *)
Connect == /\ mpc = "connect"
           /\ \/ Refused /\ mpc' = "done"
              \/ NoPeerInfo /\ mpc' = "done"
              \/ Established /\ mpc' = "up"
           /\ UNCHANGED <<userVars, wire, stream, serverVars, countVars>>

(* shutdown_, without the guard: TecSocket_close in two steps. *)
ShutDown == /\ mpc = "up"
            /\ link' = "shut"
            /\ mpc' = "close"
            /\ UNCHANGED <<userVars, sock, wire, stream, serverVars, countVars>>

Close == /\ mpc = "close"
         /\ sock' = NewSocket
         /\ mpc' = "done"
         /\ UNCHANGED <<userVars, linkVars, serverVars, countVars>>

(* examples/socket/socket.c does not shut down: the destructor closes.     *)
NoShutDown == /\ mpc = "up"
              /\ mpc' = "done"
              /\ UNCHANGED <<userVars, sock, linkVars, serverVars, countVars>>

Shut(l) == IF l = "none" THEN "none" ELSE "shut"

(* Faulty: the socket is left to shutdown_. *)
Done_KeepSocket ==
    /\ mpc = "done"
    /\ \A u \in Users : upc[u] = "idle"
    /\ mpc' = "over"
    /\ UNCHANGED <<userVars, sock, linkVars, serverVars, countVars>>

(* TecTCPClient_done_, when no thread is inside a call: the guard, the     *)
(* buffer, and the socket if it is still open.                             *)
Done == /\ mpc = "done"
        /\ \A u \in Users : upc[u] = "idle"
        /\ sock' = Closed(sock)
        /\ link' = Shut(link)
        /\ mpc' = "over"
        /\ UNCHANGED <<userVars, wire, stream, serverVars, countVars>>

(* The process dies. *)
Die == /\ mpc \notin {"start", "over", "dead"}
       /\ mpc' = "dead"
       /\ upc' = [u \in Users |-> "idle"]
       /\ guard' = NONE
       /\ sock' = NewSocket
       /\ link' = Shut(link)
       /\ UNCHANGED <<op, len, left, res, wire, stream, serverVars, countVars>>

-------------------------------------------------------------------------------

(* A call has its result and releases the guard, or reads after its write. *)
Return(u, r) == /\ res' = [res EXCEPT ![u] = r]
                /\ upc' = [upc EXCEPT ![u] = "idle"]
                /\ guard' = NONE

AfterWrite(u) ==
    IF op[u] \in {"send", "send_str"} THEN Return(u, "ok")
    ELSE upc' = [upc EXCEPT ![u] = "read"] /\ UNCHANGED <<res, guard>>

(* A call of send, send_str, recv, send_recv or send_recv_str; once in the *)
(* life of a client, with a text (an empty buffer or no string at all is   *)
(* not written).                                                           *)
Enters(u, o, n) ==
    /\ mpc \in {"up", "close"}
    /\ upc[u] = "idle" /\ op[u] = "none" /\ calls < MaxCalls
    /\ o = "recv" <=> n = 0
    /\ calls' = calls + 1
    /\ op' = [op EXCEPT ![u] = o]
    /\ len' = [len EXCEPT ![u] = n]
    /\ left' = [left EXCEPT ![u] = Text(u, o, n)]
    /\ upc' = [upc EXCEPT ![u] = IF o = "recv" THEN "read" ELSE "write"]
    /\ UNCHANGED <<mpc, res, sock, linkVars, serverVars, conns>>

(* Faulty: the guard is not taken. *)
Call_NoGuard(u, o, n) == Enters(u, o, n) /\ UNCHANGED guard

Call(u, o, n) == Enters(u, o, n) /\ guard = NONE /\ guard' = u

(* TecSocket_write: EBADF... *)
WriteNoFd(u) ==
    /\ upc[u] = "write"
    /\ ~sock.desc
    /\ Return(u, "err")
    /\ UNCHANGED <<mpc, op, len, left, sock, linkVars, serverVars, countVars>>

Served == spc \in {"closed", "failed"}

Broken == link = "shut" \/ Served

(* ... or as much as the connection takes, even if the server has closed   *)
(* its end already...                                                      *)
Write(u) ==
    /\ upc[u] = "write"
    /\ sock.desc
    /\ link = "open"
    /\ \E n \in 1 .. WireSize - Len(wire) :
          /\ n <= Len(left[u])
          /\ wire' = wire \o SubSeq(left[u], 1, n)
          /\ stream' = stream \o SubSeq(left[u], 1, n)
          /\ left' = [left EXCEPT ![u] = SubSeq(@, n + 1, Len(@))]
    /\ IF left'[u] # <<>> THEN UNCHANGED <<upc, res, guard>> ELSE AfterWrite(u)
    /\ UNCHANGED <<mpc, op, len, sock, link, serverVars, countVars>>

(* Faulty: an early return leaves the guard locked. *)
WriteBroken_NoUnlock(u) ==
    /\ upc[u] = "write"
    /\ sock.desc /\ Broken
    /\ res' = [res EXCEPT ![u] = "err"]
    /\ upc' = [upc EXCEPT ![u] = "idle"]
    /\ UNCHANGED <<mpc, op, len, left, guard, sock, linkVars, serverVars, countVars>>

(* ... EPIPE, or EIO for the part that was written... *)
WriteBroken(u) ==
    /\ upc[u] = "write"
    /\ sock.desc /\ Broken
    /\ Return(u, "err")
    /\ UNCHANGED <<mpc, op, len, left, sock, linkVars, serverVars, countVars>>

(* ... and the same for a write that a signal has interrupted. *)
WriteInterrupted(u) ==
    /\ upc[u] = "write"
    /\ sock.desc
    /\ Return(u, "err")
    /\ UNCHANGED <<mpc, op, len, left, sock, linkVars, serverVars, countVars>>

(* TecSocket_read in the client, whose socket has a buffer of no bytes: a  *)
(* read of length zero returns 0 at once, which passes for the end.        *)
RecvNothing(u) ==
    /\ upc[u] = "read"
    /\ Return(u, IF sock.desc THEN "ok" ELSE "err")
    /\ UNCHANGED <<mpc, op, len, left, sock, linkVars, serverVars, countVars>>

-------------------------------------------------------------------------------

(* TecSocket_accept, and the handler up to its read. *)
AcceptInto(d) ==
    /\ spc = "accept"
    /\ link # "none"
    /\ spc' = "read"
    /\ data' = d
    /\ UNCHANGED <<mpc, userVars, sock, linkVars, handler, printed, countVars>>

(* process_data of mt_server.c makes a buffer of its own every time. *)
AcceptFresh == handler = "process_data" /\ AcceptInto(NewData)

(* process_str of server.c and run_server of ssocket.c rewind the one they *)
(* have.                                                                   *)
AcceptReuse == handler # "process_data" /\ AcceptInto([data EXCEPT !.pos = 0])

(* The C string in the buffer, unless its end lies behind the memory.      *)
Shown(b) ==
    LET ends == {i \in 0 .. b.capacity - 1 : b.data[i] = NUL}
    IN  IF ends = {} THEN <<NUL>>
        ELSE [i \in 1 .. (CHOOSE e \in ends : \A f \in ends : e <= f) |-> b.data[i - 1]]

(* TecSocket_read in the server: what has come, at most a buffer of it,... *)
Read ==
    /\ spc = "read"
    /\ \E n \in 1 .. IoBuf :
          /\ n <= Len(wire)
          /\ data' = Written(data, SubSeq(wire, 1, n))
          /\ wire' = SubSeq(wire, n + 1, Len(wire))
    /\ UNCHANGED <<mpc, userVars, sock, link, stream, spc, handler, printed, countVars>>

(* The handler prints, and dispatch_client_ closes. *)
PrintAndClose ==
    /\ printed' = Shown(data)
    /\ spc' = "closed"
    /\ UNCHANGED <<mpc, userVars, sock, linkVars, data, handler, countVars>>

(* ... until the client has closed. *)
ReadEnd == spc = "read" /\ wire = <<>> /\ link = "shut" /\ PrintAndClose

(* A peer that is gone when accept asks for its name: the socket is given  *)
(* no buffer, and run_server's read of length zero reports success at once *)
(* and brings nothing into the text it prints.  "failed" is for what has   *)
(* not been read to the end of the connection, this one included.          *)
AcceptNoPeerInfo ==
    /\ handler = "run_server"
    /\ spc = "accept"
    /\ link # "none"
    /\ data' = [data EXCEPT !.pos = 0]
    /\ printed' = Shown(data)
    /\ spc' = "failed"
    /\ UNCHANGED <<mpc, userVars, sock, linkVars, handler, countVars>>

(* An error: nothing is printed, except by run_server, which does not ask. *)
ReadFails ==
    /\ spc = "read"
    /\ spc' = "failed"
    /\ printed' = IF handler = "run_server" THEN Shown(data) ELSE printed
    /\ UNCHANGED <<mpc, userVars, sock, linkVars, data, handler, countVars>>

(* The next client. *)
NextClient ==
    /\ mpc \in {"over", "dead"}
    /\ link = "none" \/ Served
    /\ conns < MaxConns
    /\ conns' = conns + 1
    /\ mpc' = "start"
    /\ upc' = [u \in Users |-> "idle"]
    /\ op' = [u \in Users |-> "none"]
    /\ len' = [u \in Users |-> 0]
    /\ left' = [u \in Users |-> <<>>]
    /\ res' = [u \in Users |-> "none"]
    /\ guard' = NONE
    /\ sock' = NewSocket
    /\ link' = "none" /\ wire' = <<>> /\ stream' = <<>>
    /\ spc' = "accept" /\ printed' = <<NONE>>
    /\ UNCHANGED <<data, handler, calls>>

-------------------------------------------------------------------------------

Main == Start \/ Connect \/ Close \/ Done

User(u) == WriteNoFd(u) \/ Write(u) \/ WriteBroken(u) \/ RecvNothing(u)

Server == AcceptFresh \/ AcceptReuse \/ Read \/ ReadEnd

(* What may happen and need not. *)
Chance == \/ ShutDown \/ NoShutDown \/ Die \/ NextClient
          \/ AcceptNoPeerInfo \/ ReadFails
          \/ \E u \in Users : \/ WriteInterrupted(u)
                              \/ \E o \in Ops, n \in 0 .. MaxText : Call(u, o, n)

Next == Main \/ Server \/ Chance \/ \E u \in Users : User(u)

Spec == Init /\ [][Next]_vars

(* Every thread of client and server runs when it can; the client need not *)
(* be shut down, nor die.                                                  *)
FairSpec == Spec /\ WF_vars(Main) /\ WF_vars(Server) /\ \A u \in Users : WF_vars(User(u))

-------------------------------------------------------------------------------

(* Types. *)
TypeOK ==
    /\ mpc \in {"start", "connect", "up", "close", "done", "over", "dead"}
    /\ upc \in [Users -> {"idle", "write", "read"}]
    /\ op \in [Users -> Ops \cup {"none"}]
    /\ len \in [Users -> 0 .. MaxText]
    /\ res \in [Users -> {"none", "ok", "err"}]
    /\ guard \in Users \cup {NONE}
    /\ sock \in [fd : BOOLEAN, pai : {"none", "held", "lost"}, desc : BOOLEAN]
    /\ link \in {"none", "open", "shut"}
    /\ Len(wire) <= WireSize
    /\ spc \in {"accept", "read", "closed", "failed"}
    /\ data.pos <= data.size /\ data.size <= data.capacity
    /\ left \in [Users -> Seq(Bytes)]

Sent(u) == LET text == Text(u, op[u], len[u])
           IN  SubSeq(text, 1, Len(text) - Len(left[u]))

(* The places of what u has sent, if it begins behind the byte at[u].      *)
Places(at, u) == at[u] + 1 .. at[u] + Len(Sent(u))

(* The guard of tecc_tcp_client.c: texts of several threads, written in    *)
(* pieces, follow each other on the connection and never mix.  Each begins *)
(* somewhere and stands there in one piece, and together they make up the  *)
(* stream.                                                                 *)
TextsWhole ==
    \E at \in [Users -> 0 .. Len(stream)] :
        /\ \A u \in Users : \A i \in 1 .. Len(Sent(u)) :
              at[u] + i <= Len(stream) /\ stream[at[u] + i] = Sent(u)[i]
        /\ \A i \in 1 .. Len(stream) : \E u \in Users : i \in Places(at, u)
        /\ \A u, v \in Users : u # v => Places(at, u) \cap Places(at, v) = {}

(* When TecSocket_read, given a buffer to read into, reports success the   *)
(* client has closed, and the server's buffer holds every byte that it has *)
(* sent, from the start, however they were cut into pieces and however     *)
(* often the buffer had to grow.  (Given none, in AcceptNoPeerInfo, it     *)
(* reports success and has read nothing: nothing is said of that.)  "Using *)
(* the single-threaded server we can reuse the same input buffer"          *)
(* (server.c:38): a text sent by a call that reported success is what the  *)
(* server prints, if no other came first, whatever longer text the buffer  *)
(* held before.  (A client that sends nothing makes it print that text     *)
(* again.)                                                                 *)
TextsArrive ==
    spc = "closed" =>
        /\ link = "shut"
        /\ data.pos = Len(stream)
        /\ \A i \in 1 .. Len(stream) : data.data[i - 1] = stream[i]
        /\ stream # <<>> =>
              LET u == Head(stream)
              IN  u # NUL /\ op[u] \in StrOps /\ left[u] = <<>> => printed = Letters(u, len[u])

(* Whatever step of start_ has failed and however the client ended, it     *)
(* leaves no descriptor and no address open; the address TecSocket_open    *)
(* loses when the system refuses a descriptor is the exception.            *)
NothingLeft ==
    /\ TypeOK
    /\ mpc \in {"over", "dead"} => ~sock.desc /\ sock.pai # "held"

(* Calls return, although the socket may be closed under them and the      *)
(* guard is shared, and the server is done with every client that has      *)
(* closed.                                                                 *)
ExchangeEnds == /\ guard # NONE ~> guard = NONE
                /\ link = "shut" ~> Served
===============================================================================
