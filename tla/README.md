# A TLA+ development of TecC

TecC is a small C library for concurrent programs on embedded and POSIX systems:
signals, a blocking queue, an arena, a thread pool, worker daemons with
messages and requests, a service framework with a TCP server, sockets, buffers
and a hash table. The modules in this directory model its components one by one,
each translated from its `.c` file; TLC checks them on small instances, and TLAPS proves
the safety properties for every value of the constants.

Contents: 1 the system, 2 the modules, 3 the runs, 4 fairness, 5 the proofs,
6 disagreements between code and documentation, 7 what is not modelled,
8 the plan.

## 1. The system

### Components, state and operations

| Component | State | Operations |
|---|---|---|
| TecSignal (`tecc_signal.c`) | atomic value, mutex, condition variable | `set`, `wait`, `wait_for` |
| TecQueue (`tecc_queue.c`) | linked list with head and tail, mutex, condition variable | `push`, `pop`, `done` |
| TecArena (`tecc_arena.c`) | block, element count, free list threaded through released slots | `init`, `allocate`, `release`, `done` |
| TecThrPool (`tecc_thread_pool.c`) | array of nodes (thread, queue, arena, payload slot, signal), round-robin counter | `init`, `run`, `enqueue`, `done` |
| TecWorker and TecRPC (`tecc_worker.c`, `tecc_rpc.c`) | thread handle, error, `sig_running`, `sig_terminated`, queue, handler table, lock | `register`, `send`, `rpc`, `run`, `terminate`, `done`; the thread's loop and dispatch |
| TecServiceWorker, TecService | a worker whose `on_init` and `on_exit` start and stop a service in threads of their own | `init`, `done`, `on_init`, `on_exit` |
| TecTCPServer | listening socket, `running` flag, `sig_polling_stopped`, buffer, pool | `start`, `poll`, `dispatch_client`, `shutdown`, `done` |
| TecTCPClient (`tecc_tcp_client.c`) | socket, buffer, guard (a mutex) | `start`, `send`, `send_str`, `recv`, `send_recv`, `send_recv_str`, `shutdown`, `done` |
| TecSocket (`tecc_socket.c`) | descriptor, address info, I/O buffer | open, connect, bind, listen, accept, read, write, write_str, close |
| TecBuffer (`tecc_buffer.c`) | memory, position, size, capacity, block size | `write`, `read`, `seek`, `puts`, `done`, dumps |
| TecMap (`tecc_map.c`) | array of doubly linked buckets, size, capacity; iterator (position, node) | `init`, `set`, `get`, `remove`, `clear`, `done`, iterator `begin`, `next`, `rewind` |
| TecTime (`tecc_time.c`) | none | the clock, conversions between time points and timespecs |
| TecTrace, threading macros, definitions | none of their own | logging, wrappers of pthread and C11 threads |

### How they interact

A worker owns a queue, two signals, a map from message type to handler, and a
mutex. Callers push messages; the worker's thread pops and dispatches them. A
request (`TecRPC`) is a message on the caller's stack with a pointer to a signal
on that same stack: the thread sets it, the caller waits for it. The thread pool
gives every thread a queue, an arena for task records and one payload slot. A
service worker is a worker whose `on_init` starts a service in another thread
and waits for its signal; the TCP server is such a service, and hands accepted
sockets to a client callback directly or through a pool. The callback reads the
connection into a buffer until the peer closes. A TCP client is a service without
threads: its users' threads call it under its guard, over a socket.

### What is hard in it

- *Values read or written outside of a lock.* `TecSignal_set` stores the value
  before it locks; waits read it first without the lock; `on_rpc` reads the
  handler table, and `run` the error, without the lock that writers take.
- *Lifetimes across threads.* A thread that sets a signal still works on its
  mutex after the waiter can see the value; nodes, tasks and signals are freed
  by one thread after another used them.
- *Locks held while waiting.* `run` and `terminate` wait for the worker's thread
  with the worker's lock held.
- *Memory reuse.* The arena overlays free-list links on flag words, and uses its
  element count as bump index; freed queue nodes return from `malloc`.
- *Partial failures*: threads that cannot be created, locks that fail, a connection
  that is refused, broken in the middle of a write, or reported as an error
  although it stands; a peer that dies.
- *Timeouts*: a deadline computed once, carried over wakeups for no reason and
  across the borders of seconds.
- *Ends*: stop messages behind queued work; requests behind a stop message.
- *Counters and sizes*: a signed round-robin counter that wraps, capacities
  computed by rounding.

`PROJECT.json` lists these as hazards, each at its line.

### What makes each component correct

- Signal: no waiter misses the set, no wait succeeds before it, the mutex is
  released on every path.
- Queue: objects leave in order, once; no consumer sleeps past an object;
  nodes are freed once and unreachable by then.
- Arena: nothing is handed out twice; the heap only when the block is used up.
- Pool: tasks go round, run once with their own payload, and have all run when
  the nodes are destroyed; `done` ends.
- Worker: messages sent before termination are handled in order, requests are
  answered, life-cycle calls return with the right result, nothing is destroyed
  under the thread.
- Map: a dictionary; the iteration sees every key that stays, once.
- Buffer: a stream of bytes; never beyond its memory; what the dumps tell of its bytes.
- Timed wait: it ends, and never before its time.
- Services and TCP server: a shutdown, whenever it comes, stops the polling and ends
  all threads; every accepted connection is served and closed.
- TCP client: texts of several threads arrive whole, calls return though the socket
  is closed under them, nothing is left open.

## 2. The modules

Components that rest on others use their abstract specification. The detailed
module is checked (or proved) to implement that specification, and the module
above it has the specification's state in place of the component's.

| Abstract | Implemented by | Used by |
|---|---|---|
| `Latch`: a wait passes only when on | `TecSignal`, `TecTimedWait` | `TecThrPool`, `TecWorker`, `TecTCPServer` |
| `Fifo`: a sequence, each object taken once | `TecQueue` | `TecThrPool`, `TecWorker` |
| `Allocator`: elements held by at most one client | `TecArena` | `TecThrPool` |
| `Dictionary`: values by key, old value returned | `TecMap` | `TecWorker` (its key set) |
| `Stream`: bytes, a position, overwriting writes | `TecBufferCalls` | |

Two modules are used as they are: `TecTCPClient` extends `TecBuffer`, the operations of
the buffer its server reads into, and `TecServices` extends `TecTCPServer`.

**TecArena.** Every operation runs under the arena's lock and is one step. An
element is a slot index or a heap object; `cell` is the first word, which holds
the flag while the element is held and the link while it is released. Allocation
has three disjoint cases (free list, block, heap); `freed` records releases in
order, to state what the free list should be.

**TecSignal.** Each access to the atomic value is a step, since it happens
outside of the mutex. The mutex is its owner, the condition variable the set
of threads at `asleep`; a wait releases the mutex and sleeps in one step, wakes
spuriously, by broadcast or timeout, and takes the mutex again. Locks and the
wait may fail, as the code's error paths expect. A timed wait may time out at any
moment here.

**TecTime, TecTimedWait.** `TecTime` has the conversions of `tecc_time.c` with C's
division, for seconds of `NS` nanoseconds. `TecTimedWait` joins them with
`TecSignal`: `wait_for` reads the clock, adds the timeout and converts the deadline to
a timespec once; every sleep is given that timespec, and ends as a timeout when
the clock has reached it. `due` records what the caller asked for, apart from the
conversions.

**TecQueue.** A critical section is one step, because nothing blocks inside it.
The allocation and filling of a node come before it and the `free` after
it, as steps of their own. Addresses are reused. `order` is the list that `push`
and `pop` made, against which pointers are compared.

**TecThrPool.** Per node a queue, arena (as a set of tasks), payload slot, signal
and thread; `enqueue` is three steps (index under the lock, allocate and copy,
push), `done` goes through the nodes one by one. Thread creation may fail, which
ends `run` early. The counter is an `int` of `IntWidth` bits converted to a
`size_t` of `SizeWidth` bits.

**TecWorker.** Callers are inside at most one call; the owner also runs,
terminates and destroys the worker. The thread follows `worker_func`, `dispatch`,
`on_msg` and `on_rpc`. `TecSignal_set` is split where the signal could already be
destroyed: after the value is visible, and before the broadcast. `on_init` and
the callbacks may call `TecWorker_register`.

**TecTCPServer.** A TCP server in a service worker, with the four threads of
`tecc_service_worker.c` and `tecc_tcp_server.c`: main, the worker's thread (its loop
reduced to the stop message), the service thread and the exit thread. The listening
socket has a state (open, listening, shut down) apart from its descriptor, because
`accept` in another thread wakes on a shutdown but not on a close; `TecSocket_close`
is therefore three steps, and the polling thread reads `sock.fd` in a step of its
own. Clients connect and close at will; a handler returns when its peer has closed.
Opening, binding, listening and each creation of a thread may fail.

**TecServices.** The same worker with any of its services: the default one, which
only sets the signals it is given; the TCP server by itself; the TCP server with a pool
(`examples/socket/mt_server.c`), where `Enqueue` takes the place of the dispatch. The
pool is what `TecThrPool` shows of it to one caller: node after node, tasks in
order, one payload slot per node, threads that may be missing. A task reads, closes and
resets whatever socket is in the slot at that moment. Main destroys the server
first and the pool after it.

**TecTCPClient.** A client and the server side of its connection: main starts,
shuts down (without the guard) and destroys; two other threads make one call each
under the guard. The connection is external: a sequence of at most `WireSize` bytes
in order. Writes wait for room, go in pieces, break, are interrupted; the client may die
at any moment. The server is one of the three handlers of the examples
(`process_data`, `process_str`, `run_server`), reading up to `IoBuf` bytes at a time into a
buffer of `TecBuffer`, its own or one that is reused, and prints the C string in it.
A byte is the thread it comes from, or the terminator.

**TecMap.** The code's pointers: buckets with `prev` and `next`, new nodes in
front, freed nodes blanked and their addresses reused. The hash is an arbitrary
function from keys to buckets, chosen initially. Calls are made one at a time; a
loop over an iterator may be interleaved with `set`, `get` and `remove`, but
does not remove the key it stands on (hazard at `tecc_map.c:223`) and does not
clear the map. `IterRewind` restarts the loop in the middle.

**TecBuffer, TecBufferCalls.** `TecBuffer` has no state: the operations are functions of
the buffer's record, as in the code. `ensure_capacity`, `realloc_buffer` and the copy of
a write are operators of their own. `TecBufferCalls` is a program that calls them, one
action per operation; bytes copied beyond the memory are what `NoOverrun` excludes.

**TecBufferDump.** The two dumps as functions of a buffer: `AsHex` gives the text with
the memory computed for it, `AsTable` the cells of the table with their row's offset
and column. They are evaluated for every part of every buffer that `TecBufferCalls`
reaches. Bytes are the eight bits stored; `AsInt` is the conversion of a `char` to the
`int` that `to_hex_chars` is given, negative above `CharMax` where `char` is signed, and
the digit it then takes from in front of `table[]` is `Outside`, of which nothing is known.

Definitions named `X_Something` and marked "Faulty" are variants of `X` with a
plausible mistake; for each property there is one that violates it. No
specification uses them.

## 3. The runs

| Run | Configuration | Shows | Bounds, and why they are enough |
|---|---|---|---|
| `arena` | `MCArena.cfg` | `CountIsMark`, `FreeListShape`, `FlagTellsOrigin`, `IsAllocator` | 2 clients, blocks of 0 to 3 slots, 2 heap objects: free lists with a first, a middle and a last element, a full block, an overflow of two, and repeated init |
| `signal` | `MCTimedWait.cfg` | `MutexDiscipline`, `NoLostWakeup`, `WaitersReleased`, `IsLatch`, `NoEarlyTimeout`, `TimedWaitEnds` | 3 threads with one call each: two setters and a waiter, or a setter and two waiters, timed or not, under every overlap of their steps. Seconds of 2 nanoseconds, a clock from 1 to 3, a timeout of 1: deadlines inside a second and on its border, and waits that begin too late for the clock; one wakeup for no reason |
| `queue` | `MCQueue.cfg` | `ListShape`, `NodeOwnership`, `Delivered`, `IsFifo` | 2 producers, 3 consumers, 3 addresses, 4 pushes: one more consumer than objects awake, lists of three, recycled addresses |
| `pool` | `MCPool.cfg` | `RoundRobin`, `DrainedBeforeExit`, `NodeOutlivesUsers`, `DoneEnds`, `EveryTaskRuns` | 2 callers, 2 nodes, 4 tasks; 1-bit `int`, 2-bit `size_t`: the counter wraps twice |
| `pool_payload` | `MCPoolPayload.cfg` | `TaskSeesOwnPayload` violated | 1 caller, 1 node, 2 tasks |
| `worker` | `MCWorker.cfg` | `DrainedBeforeExit`, `AnswerIsOwn`, `RunResult`, `WorkerOutlivesThread`, `LifeCycleCallsReturn`, `RequestsAnswered` | 2 callers with 2 calls each, 2 types: a registration, a request and a termination by different threads in every order |
| `worker_rpc` | `MCWorkerRpc.cfg` | `SignalOutlivesSetter` violated | 1 caller, 1 request |
| `tcp_server` | `MCServices.cfg` | `StartReported`, `ThreadsEndFirst`, `NoConnectionLeft`, `ShutdownEnds`, `ConnectionsServed` | 2 clients: one served while another waits, one accepted in the middle of the shutdown. All three services; pools of 1 and 2 threads, any of them missing: both connections on one node or one on each |
| `tcp_client` | `MCTCPClient.cfg` | `TextsWhole`, `TextsArrive`, `NothingLeft`, `ExchangeEnds` | 2 clients one after the other, with 2 threads and 2 calls between them, texts of up to 2 characters and a terminator on a connection of 2 bytes, reads of up to 2 into blocks of 2: texts that do not fit the connection, two texts in one connection, a long text and then a short one in a reused buffer, a buffer that has to grow |
| `map` | `MCMap.cfg` | `BucketShape`, `IterComplete`, `IsDictionary` | 3 keys, 2 values, 3 addresses, 2 buckets, every hash function: a bucket of three and an empty one, two and one. Keys, values and addresses are symmetric: the hash ranges over all functions, and nothing orders them |
| `buffer` | `MCBuffer.cfg` | `NoOverrun`, `DumpsTell`, `IsStream` | blocks of 2 bytes, end at most 5, three byte values (zero; 126, the last printable one; 128, the first that is a negative `char`), texts of up to 2: three growths, each not a multiple of a block. A build with signed `char`; the two characters of all 256 bytes. Dumps with every start from -1 and every length to one beyond the end, blocks of 2 and rows of 2: texts that fill their blocks, parts that begin in each of three rows, a last row in part |
| `buffer_first` | `MCBufferFirst.cfg` | `NoOverrun` violated | first writes of up to 4 bytes, blocks of 2 |

One type invariant per module is part of what is checked: `TypeOK` is a conjunct of
`ListShape` (queue), `NodeOutlivesUsers` (pool), `WorkerOutlivesThread` (worker),
`BucketShape` (map), `ThreadsEndFirst` (server) and `NothingLeft` (client); for the
arena, the signal and the buffer it is proved instead (theorems `Typing`).

Some properties are conditional, where the code gives no more:

- `MutexDiscipline`, `NoLostWakeup` and `WaitersReleased` hold until a lock has
  failed; after a failed lock the code broadcasts or unlocks without the mutex.
- `RoundRobin` assumes that the number of nodes divides the number of `int`
  values; otherwise the wrap skips nodes.
- `LifeCycleCallsReturn` and `RequestsAnswered` name the deadlocks the code
  has: registering a type in `on_init`, or in a callback while `terminate`
  holds the lock (`SelfLocked`), terminating a worker that has no thread
  (`TerminatesNobody`), and a request behind the stop message, to a worker without
  thread or to one whose `on_init` has failed (`WaitsForNobody`). Their second halves say
  that each lasts for ever, so that the exceptions are no wider than the deadlocks.
- `EveryTaskRuns` promises a run to the tasks of nodes with a thread, and says that those
  of nodes without one never run.
- `ShutdownEnds` assumes that a client being served closes its side, and that the exit
  thread can be created: if not, nobody sets `sig_stopped`, and the second half says that
  `on_exit` waits for ever.
- `NoConnectionLeft` says exactly when a connection is left open: one was handed to a node
  without a thread, or to one that had not finished with another, whose one slot both
  then share (see `pool_payload`). `ConnectionsServed` excepts a pool at fault
  (`PoolFault`): a thread missing, or a slot written over.
- `TimedWaitEnds` excepts a failed lock, and a deadline beyond the bound on the clock.
- `TextsArrive` speaks of connections that were read to the end (the read of length zero
  in `AcceptNoPeerInfo` reports success too, and has read nothing), and of the
  printed text only if the first call was one that sends a terminator and reported
  success.
- `NothingLeft` excepts the address information that `TecSocket_open` loses when the
  system refuses a descriptor.
- `DumpsTell` says exactly what the dumps show, which is what `tecc_buffer.h:128-139`
  promises only for bytes up to `CHAR_MAX` and for parts that begin in the first row. A
  byte above `CHAR_MAX` is not told at all, because its first digit is read outside of
  `table[]` (`Told`); a part that begins in a later row is shown as many rows too low
  (`Shift`). Neither case is left out.
- `IsStream` and `NoOverrun` assume a first write of at most one block
  (`MaxFirst`), and texts appended at the end of the content.

Deadlock is checked in `arena`, `queue`, `pool`, `map` and `buffer`. In the others it
is not: in `signal` and the worker runs the calls of each thread are bounded, a waiter
may wait for a signal nobody sets, and a request behind the stop message is never
answered; in `tcp_server` the program ends, and `on_exit` may wait for ever (above);
in `tcp_client` the clients are bounded.

## 4. Fairness

`FairSpec` gives weak fairness to every thread that is inside a call or runs a
loop of the library: the operating system schedules runnable threads, and
blocking calls return when their condition holds. In `TecQueue` the mutex is not
a state of its own (critical sections are one step), so weak fairness of `Pop`
says that it starves nobody. `PopCall` is fair because the consumers are the
threads of workers and pools, whose loops call `pop` again. No caller is assumed
to make a call: nobody has to set a signal, push, enqueue, request, terminate,
connect or close. In `TecTCPServer`, once it is told to quit, main goes through its
destructors like the examples do, and an interruption of `accept` may never come;
`TecServices` adds the pool's threads. In `TecTimedWait` the clock goes on, up to its
bound, and a sleeper whose deadline has passed is woken. In `TecTCPClient` main, the
calling threads and the server run when they can; nobody has to shut down, to die, to
be interrupted or to fail. Liveness properties are `P ~> Q` with `P` the call that has
been made.

## 5. The proofs

TLAPS checks the following for every value of the constants that satisfies the
named assumptions in the modules.

**TecArenaProofs.** `Invariance`: the conjunction of `TypeOK`, `CountIsMark`,
`FreeListShape`, `FlagTellsOrigin` and `DownIsEmpty` is inductive. None of them
is inductive alone. The bump index is right only because live and released slots
together are an initial part of the block (`CountIsMark`), which needs that the
free list holds exactly the released slots (`FreeListShape`), which needs that
`release` recognises slots (`FlagTellsOrigin`), which needs that nothing is handed
out twice. The corollaries are `Typing`, `CountCorrect`, `FreeListCorrect`,
`FlagsCorrect`, and `Refinement` (`Spec => IsAllocator`), where each allocation
case maps to the abstract allocation and the others to a release, an open,
a close or a stutter. Cardinalities come from `FiniteSetTheorems`, sequences from
`SequenceTheorems`. Assumed: the capacity bound is a natural number, slots, heap
objects and the two marks are distinct (`CapacityAssumption`, `ElemAssumption`).

**TecSignalProofs.** `Typing`; `Discipline` (`MutexDiscipline`), inductive with the
types; `NoWakeupIsLost` (`NoLostWakeup`), from `Discipline`: the thread that is to
broadcast cannot have the mutex while a waiter is between test and sleep; and
`Refinement` (`IsLatch`), with two auxiliary invariants: what a thread remembers
of its call, and that a waiter leaves its loop with an error or because the value
is set. Assumed: `NONE` is not a thread, the call bound is a natural number.

The same module has the proofs of `TecTime` and `TecTimedWait`. `RoundTrip`: the conversions are inverse on every time point,
negative ones included; `ConversionIsValid`: the nanoseconds of a deadline are less
than a second. `TimedImplements` (`TimedSpec => Spec`): each step with a clock is a
step of `TecSignal` or leaves it alone, so that the three theorems about the signal
hold of the timed wait (`TimedSafety`). `NeverEarly` (`NoEarlyTimeout`) and
`DeadlineAccepted` follow from the inductive invariant `Armed`: as long as a thread is
in a timed wait its timespec stands for the time it was asked for, and a thread that
may still sleep has no error, by which a timeout is told from a wakeup. Assumed: a
second has at least one nanosecond, timeouts and bounds are natural numbers.

**TecQueueProofs.** `Invariance`: `ListShape`, `NodeOwnership` and `Locals` (what the
local variables of `push` and `pop` hold) are inductive together and not alone: linking
a node keeps the shape because the node is private, and ownership is kept because the
shape says that the node taken is linked nowhere else. `ListCorrect` and
`OwnershipCorrect` are its parts. That `TecQueue_done` frees exactly the linked nodes
(`ChainIsLinked`) is an induction along the list, done with a least node it would miss
(`Least`, from the well-foundedness of the numbers). `Refinement` (`IsFifo`) maps
`PushLink` to a put, `PopTake` to a take, `PopFree` to a return and `TecQueue_done` to a drop.
Assumed: producers and consumers are different threads, `NULL` is no address, the
bound on pushes is a natural number; nothing on the number of threads or addresses.

**TecThrPoolProofs.** `Outlives` (`NodeOutlivesUsers`), `Drained` (`DrainedBeforeExit`)
and `InTurn` (`RoundRobin`), along five invariants. `Typed`: types, and that a thread has
a task in hand exactly where it runs or releases one. `Life`: how far the destructor has
come decides which threads are still there; a stop message is the last of its queue,
and a thread past its loop has nothing queued. `Counted`: the counter is the number of
tasks less a multiple of `2 ^ IntWidth`, whatever steps the callers are at; with the
two powers a multiple of each other, the conversion to a `size_t` does not change its
remainder, from which `InTurn` follows. `Places`: a task is with one caller, in one
queue, once, or in one thread's hand. `Complete`: a task given to a node has run or is in
one of these places, so that at an empty queue it has run. Neither of the last two is
inductive without the other invariants: a caller inside `enqueue` keeps the destructor
from beginning. Assumed: at least one thread, an `int` narrower than a `size_t`
(`PoolAssumption`), the marks are not tasks or nodes (`MarkAssumption`), and of the powers
of two, which the provers do not know, that doubling adds one to the exponent and a
larger power is a multiple of a smaller (`PowerAssumption`, which TLC evaluates).

**TecWorkerProofs.** `Outlives` (`WorkerOutlivesThread`), `Result` (`RunResult`),
`Drained` (`DrainedBeforeExit`) and `Answered` (`AnswerIsOwn`), for any callers, types
and numbers of calls, along six invariants, each inductive relative to those before:
`Typed` (the types, and that the thread has a message in hand where it uses one);
`LifeCycle` (where the owner, the thread and the thread handle can be together: a
handle is reset by a join only); `Errors` (which error can be set where); `Order` (up
to the first stop message, the number of a queued message is its distance from the
last one taken, and the stop message stands right behind the messages posted before
it); `Numbers` (numbers grow along the queue, behind stop messages too); `Requests`
(every request queued or in hand is that of a caller that waits and whose signal is
not set, so that a request is answered once, its type is still registered if it was,
and its answer is not written over). `Requests` needs `Numbers`: two requests of one
caller would both be the one the caller keeps, hence have the same number. Assumed: the
owner is a caller, the call bound is a natural number, `NONE` and `STOP` are values of
their own (`WorkerAssumption`, `MarkAssumption`).

**TecBufferProofs.** `Invariance`: a buffer stays `WellFormed`, if no first write
exceeds a block; `Typing` and `MemorySuffices` (`NoOverrun`) follow. The
arithmetic is in `RoundedDown` (rounding the end down to blocks loses less than a
block) and `CapacityGrows`: with memory of at least one block, adding the rounded
end is enough, so the loop that never runs is not needed. `TextWithin` shows that
`puts` needs no condition on its first text, since it asks for memory twice.
Without `MaxFirst <= Block` the theorem is false: run `buffer_first`.

`Refinement` (`IsStream`, under the same condition) says what is in the memory, not only
that it suffices: `WrittenLaysOver` and `TextLaysOver` give the content after a write or
`puts` as the old one with the string laid over it, and `EnsuredKeeps` that growing
changes none of it. `DumpsShow` (`DumpsTell`) holds of every well-formed buffer, with
all 256 bytes, signed and unsigned `char`, any block size and row length and any part
asked for: `CharsAreTold` (the two characters of a byte tell it, or that it is not told),
`HexRoom` (the memory computed for `n` bytes holds their text and terminator),
`HexReads`, and from them `HexShows` and `TableShows`. Assumed (`DumpAssumption`): a byte
has eight bits and `CHAR_MAX` is 127 or 255.

The same module, for the sake of these lemmas, has the proofs of `TecTCPClient`:
`ClientLeavesNothing` (`NothingLeft`), `ClientTextsWhole` (`TextsWhole`) and
`ClientTextsArrive` (`TextsArrive`), for any threads, lengths of texts, sizes of the
connection, of the server's reads and of its buffer's blocks. `ClientTyping` is their
inductive invariant `ClientInv`, in four parts. `ClientTyped`: the types; a thread is
inside a call exactly if it owns the guard, and what it has not written is the end of
its text. `SockState`: the descriptor is open as long as `fd` says so. `InLine`: the
texts stand in the stream as `TextsWhole` has them, and that of a thread that writes
is the last; without the last clause, which the guard gives, the next piece could fall
behind another text. `Transfer`: once the connection is accepted, the bytes in the
buffer and those on their way, one after the other, are the bytes sent; this needs the
buffer lemma `WrittenBytes` (a write into memory keeps what stands in front of it,
however the memory grows). `TextsArrive` joins them: by `InLine` the text at the front
is that of the thread whose byte stands there (`FirstTextShown`), and the terminator
behind it ends the string that is printed (`ShownIs`), whatever the buffer held before.
Assumed: the bytes are the threads and the terminator, the bounds are positive
(`ClientAssumption`), nothing about calls or dumps of a buffer.

**TecMapProofs.** `BucketsCorrect` (`BucketShape`), `Refinement` (`IsDictionary`) and
`LoopComplete` (`IterComplete`), for every hash function. The properties speak of walks
through the buckets, which a push or a removal changes at every index; the inductive
invariant `MapInv` speaks of neighbours only (`Links`: a node's backward link leads to a
node whose forward link leads back, or to the root of its bucket) and of an order in
which going back leads downwards (`Ranked`), without which a ring apart from its root
would satisfy it. What a walk is follows from `MapInv`: `Walk` (the recursive function
exists), `WalkMeets`, `WalkDistinct`, `WalkEnds` (within as many links as there are
addresses: an injection) and `WalkReaches` (every node of the bucket). These are
inductions; each takes a least counterexample (`HasLeast`). For the loop, `LoopInv` says
that there is a set of nodes of the current bucket, those seen or pushed in front since
(`Seen`): only the current node's link leads out of it. `PushSeen` and `UnlinkSeen` keep
it under `set` and `remove`, and at the last node of a bucket it is the whole bucket
(`SeenAll`). Assumed: a bucket at least (`CapacityAssumption`), finitely many addresses
(`NodesAssumption`), `NULL` is nothing else (`NullAssumption`).

**TecServicesProofs.** `EndFirst` (`ThreadsEndFirst`), `Reported` (`StartReported`) and
`NothingLeft` (`NoConnectionLeft`), of `ServicesSpec`, for any connections and numbers of
pool threads and all three services. `Stages` says, for each of main, worker, service
thread and exit thread, how far the threads it waits for have come at each of its
positions, with the signals that tell it so, and what that makes of the listening socket;
no part of it is inductive alone, since each thread's progress is justified by what
another has set. `Typed` adds the types and that a connection is in one place.
`Conserved`: a pool thread ends with no task left, what a node has in its slot is
closed when its tasks are done, and a connection that is accepted and not closed is with
the service thread or in a slot, unless a slot has been written over. `Lost` is about
what happens then: there is a connection no slot holds any more (`Orphan`), or one whose
slot is about to be reset (`Doomed`), because the handing over fell between the closing
and the reset of the one before; either outlives the pool's threads. Assumed: at least
one pool thread is allowed for (`ThreadsAssumption`), and what `TecTCPServer` assumes.

Only model-checked: the liveness properties, which need fairness and `ENABLED`, out of
the prover's reach. Every other property of a passing run is proved. The walks of
`TecMap` are a recursive function, not a `RECURSIVE` operator, so that the provers can
reason about it. That the conditions under which theorems hold are needed is shown by
runs: without `MaxFirst <= Block` the buffer's are false (`buffer_first`).

## 6. Disagreements between code and documentation

- *Payload of a pool task* (`tecc_thread_pool.c:191`, run `pool_payload`). There is
  one payload slot per thread; a second `enqueue` on a node overwrites the payload
  of a task that has not run. The header describes a payload per task.
- *Signal of a request* (`tecc_worker.c:85`, run `worker_rpc`). The caller sees the
  value, destroys the signal and returns while the worker's thread is still to
  lock and broadcast it.
- *First write into an empty buffer* (`tecc_buffer.c:79`, run `buffer_first`). The
  loop meant to grow the capacity compares it with the old one.

Met while modelling, and without a run of their own, because no document says
otherwise or because the properties above already carry the exception:

- `run` reads the worker's error again after it has released the lock
  (`tecc_worker.c:132`): it may be that of `on_exit`. `RunResult` says when.
- `recv` of the client never receives anything: its socket is not given the buffer
  (`tecc_tcp_client.c:78`), and a read of length zero passes for the end.
- `TecBuffer_as_table` counts rows from `start` and columns from zero: for a `start`
  beyond the first row every cell is shown a row or more too low. `to_hex_chars`
  indexes its table with a `char`, negative for bytes from 128 where `char` is signed: it
  reads in front of the table, and what it finds there, a NUL perhaps, which cuts the
  text, is in the dump. `tecc_buffer.h:128` and `:132` promise the bytes and their
  offsets; `DumpsTell` says of both what the code gives instead.
- The reused buffer of `examples/socket/server.c` is rewound and not cleared: a client
  that sends nothing makes it print the text of the one before, and a text
  without terminator runs into what is behind it.
- `TecSocket_open` loses the address information when `socket` fails
  (`tecc_socket.c:191`).
- `examples/socket/mt_server.c` and `examples/worker/thrpool.c` ignore the result of
  `TecThrPool_run`: tasks go to nodes without a thread.

## 7. What is not modelled

- A second run of a server: its flag and signals are set once.
- Reuse of the listening descriptor's number between its close and a late `accept`.
- Message destructors and replaced dispatchers of a worker; two calls of `run` on
  one worker; `done` of a worker that was never run, where the code joins an
  uninitialised thread handle; a callback that requests from its own worker.
- Signal handlers (`examples/socket/server.c:24`): `TecSignal_set` there may find
  its own thread the owner of the mutex.
- Failing `malloc` and `calloc`: most of the code does not test their results.
- What the components above the signal do after one of its locks has failed.
- `TecBuffer_puts` in the middle of the content, where the size shrinks.
- `TecSocket_set_options`, whose result nobody uses, and the text of addresses.
- The FNV-1a hash (an arbitrary function of the key), the JSON dump of a buffer,
  `tec_ts_to_tm` and `tec_sleep_for`, TecTrace, platform macros, build and
  virtual-machine scripts: no state a property depends on. The examples fix the call
  sequences of the environments; those of the socket examples and of `thrpool.c` are
  modelled with their handlers.

## 8. The plan

Done, in the order of importance to the system: `TecArena`, `TecSignal`,
`TecQueue`, `TecThrPool`, `TecWorker`, `TecTCPServer` with the service worker,
`TecMap`, `TecBuffer`; then `TecTimedWait` over `TecTime`, `TecServices`,
`TecTCPClient` over `TecSocket` and `TecBuffer`, `TecBufferDump`; proofs of every safety
property, action property and refinement that a passing run checks.

Left, modules: the composition of `TecWorker` with callbacks that call their own worker.
