# TLA+ models of crossbow

This directory holds TLA+ models of the crossbow sources under `src/`, together
with the TLC configurations that check them. The focus is the InfiniBand
networking library (`libs/infinio`) and its two example programs. It also
covers the spin lock in `libs/thread` and the command-line parser in
`crossbow/program_options.hpp`.

## The system

### Parts and how they interact

| Part | Source | State | Operations |
|---|---|---|---|
| Socket (`InfinibandSocketImpl`) | `libs/infinio/src/InfinibandSocket.cpp` | the rdma_cm id (`mId`), its queue pair (`mId->qp`), `mProcessor`, `mData` | open, close, connect, disconnect, accept, reject; send, read, write; one handler per CM event (`onAddressResolved` … `onDrained`) |
| Connection manager (librdmacm) | outside src (spec) | the id's CM state | delivers ADDR/ROUTE_RESOLVED, CONNECT_REQUEST, ESTABLISHED, REJECTED, CONNECT_ERROR, DISCONNECTED and TIMEWAIT_EXIT on the CM event thread |
| Processor and device context | outside src (spec) | a FIFO of `execute()` closures; the connection table; the send buffer pool; send and receive completion queues | `execute`, `addConnection`, `removeConnection`, `drainConnection`, completion polling, buffer acquire/release |
| Buffers | `libs/infinio/include/crossbow/infinio/InfinibandBuffer.hpp` | a buffer's id and length; a scatter-gather list | shrink, move, add, reset |
| PingClient, EchoServer | `libs/infinio/example/*.cpp` | `mSend`, the service's run state, the accepted connections | handler overrides, `sendMessage`, `handleError`, the constructors |
| `busy_mutex` | `libs/thread/thread/mutex.hpp` | `std::atomic<bool> _m` | lock, try_lock, unlock |
| `program_options::parse` | `crossbow/program_options.hpp` | the loop index and the option values | one turn per argument |
| Fibers, `ConditionVariable` | `libs/infinio/include/crossbow/infinio/Fiber.hpp` | each fiber's function and context; `mWaiting` | execute, yield, wait, resume; `wait(fiber, pred)`, notify_one, notify_all |

The CM event thread runs a socket's `on…` handler. Each handler wraps its body
in `mProcessor->execute(...)`, so the body runs later on the socket's
processor thread, in FIFO order with the other closures and with completion
polling. `onDrained` is the exception: it is called directly on the processor
thread once `drainConnection` has seen every outstanding work request complete.

The processor thread also invokes the application's handler (`onConnected`,
`onReceive`, `onDisconnect`, `onDisconnected`). From there the examples call
back into the socket: `send`, `disconnect`, `close`.

PingClient connects, sends `count` pings of 8 bytes, each after the previous
echo arrives, then disconnects and shuts its service down. EchoServer accepts
every connection and echoes each message back. Each side has its own
processor thread. `main` parses the command line with `program_options`.

### The hard behaviours

- **Two threads per side.** The CM thread and the processor thread interleave
  with each other and with the peer's. The hardware transmits and flushes on
  its own.
- **Failures at every call.** Any of these can fail: `rdma_create_id`,
  `rdma_resolve_addr`/`_route`, `addConnection`, `rdma_connect`/`rdma_accept`,
  `ibv_post_send`, or the link itself. Each failure has its own path through
  the handlers.
- **Teardown order.** Teardown runs DISCONNECTED, then TIMEWAIT_EXIT, then
  drain, then `onDrained`, then `removeConnection`, and then close. `close()`
  spins while a queue pair is attached.
- **The send buffer pool.** A buffer is acquired per message and released on
  send completion, so it can be empty or leaked.
- **Numeric edges.** There is size_t arithmetic in the bounds checks. There
  are reads at the end of argv and of a C string.
- **A user-space spin lock.**

## Modules

| Module | Models | Kind |
|---|---|---|
| `PingEcho.tla` | the socket state machine, the CM, processor and device context, PingClient and EchoServer, one connection between them | state machine, two threads per side plus hardware; refines `SocketLifecycle` |
| `SocketLifecycle.tla` | what a socket promises its handler: one onConnected, then at most onDisconnect and onDisconnected, with no work after the end | abstract specification |
| `FiberScheduler.tla` | one processor's fibers and a `ConditionVariable` they wait on, woken from completion callbacks | state machine, one thread |
| `RemoteAccess.tla` | send, read and write (all overloads), doSend, open/close and the queue pair's creation and removal, buffer shrink/move, scatter-gather add/reset | state machine over one connected socket |
| `BusyMutex.tla` | `busy_mutex` at the granularity of its atomic operations | state machine, N threads |
| `ProgramOptions.tla` | `program_options::parse` and `parse_long`/`parse_short`/`parse_impl`/`set_value`, plus a reference definition of what it should accept | one step per loop turn, checked against a RECURSIVE reference |
| `MC*.tla` | the constants each configuration uses | |

### PingEcho

The state is spread over these variables:

- `sock[s]`: whether `mId` is set, whether it has a queue pair, and whether
  `mProcessor` is set.
- `cm[s]`: the id's CM state.
- `tasks[s]`: the processor's closure queue.
- `draining[s]`.
- The work-request and completion counters `sendWr`, `sendCq` and `recvCq`.
- `freeBufs[s]`: the send buffer pool.
- `mSend` and `client`: PingClient's state, including whether `service.run()`
  has returned.
- `spinning`: the sockets whose `close()` spins.
- `upcalls[s]`: the history of handler upcalls, which the properties read.
- `rxFlush[s]`: the state of the posted receive work requests: still
  posted, flushed in error by the NIC once the connection is down, or
  polled.
- `echoes`: a history variable that counts the messages EchoServer sent
  back.

How the actions correspond to the code:

- **CM events.** `CmAddressResolution`, `CmRouteResolution`, `CmEstablished`,
  `CmRejected`, `CmConnectError`, `CmDisconnected` and `CmTimewaitExit` each
  change the CM state and queue the closure the socket's handler passes to
  `execute`. That handler's code is the operator `On…` (for example
  `OnRouteResolved`, InfinibandSocket.cpp 417-442).
- **The processor.** `Processor(s)` runs the head of the queue; each closure
  runs atomically, together with the application handler it calls. It also
  polls completions (`PollSendCompletion`, `PollReceiveCompletion`) and
  finishes a drain (`DrainComplete`, which runs `onDrained`).
- **The examples.** Each handler is an operator (`Ping_onReceive`,
  `Echo_onReceive`, …) used inside the processor action that calls it. So a
  handler's `send`, `disconnect` or `close` happens in the same step, as in
  the code.
- **Constructors.** `PingConnection` (open, then connect) and
  `EchoAcceptor_onConnection` (accept) run on the main and CM threads.
  When `accept()` throws, `EchoConnection_destroy` (`~EchoConnection`)
  closes the socket in the same step.
- **Error handling.** `Ping_handleError` and `Echo_handleError` are each
  example's `handleError`. `HandleError(s)` picks the one of the object
  that called `send()`.
- **Failures.** `Outcomes(f)` gives the results a call can have: success, or
  also failure when `f` is in the constant `Faults`.
- **Hardware.** `HwTransmit` moves a posted send to the peer's receive queue.
  `HwFlush` completes it in error once the link is down.
  `HwFlushReceive` flushes the posted receives once the CM leaves
  ESTABLISHED; `PollReceiveError` is the processor polling that error
  completion and calling `onReceive` with it. The drain waits for it.

`SocketLifecycle` is the abstract view. `LifecyclePhase(s)` maps the last
upcall to a phase (`new`, `connected`, `failed`, `disconnecting`,
`closed`). `Outstanding(s)` maps the work counters and an unpolled receive
flush to `work`. `ImplementsLifecycle` checks `Lifecycle!Spec` as a property
of the pingecho run. Work may appear before onConnected, because the peer
can send as soon as its own side is established.

The processor, device context and CM are not in `src/`. They are modelled from
the spec and marked `spec_modelled` in PROJECT.json.

### RemoteAccess

size_t is `W` bits wide, and `Word(n)` reduces modulo 2^W where the code's
arithmetic wraps. `OneSided` is the body shared by `doRead` and both `doWrite`
templates: the bounds check, then `doSend` with `remote_addr = address +
offset`. `DoSend` throws on a closed socket and reports a full send queue
through `ec`.

`id` and `qp` are `mId` and `mId->qp`. `Open`, `Establish` (the handshake's
`addConnection`), `Remove` (the drain's `removeConnection`) and `Close` let
the caller reach every combination. `doSend` checks only `mId`, so a send
with an id and no queue pair calls `ibv_post_send` on a null pointer. That
call is undefined behaviour and is modelled as a crash: `last.ec` becomes
`"undefined"`, and every action requires `~Crashed`.

### BusyMutex

`pc[t]` is where each thread is in lock, try_lock or unlock. `val[t]` is its
local `val`, and `m` is `_m`. `LockCas` is one turn of the spin loop. When
`val` is false, a turn changes nothing, and that turn is a stutter.

### ProgramOptions

Each action is one branch of the loop body: `EndOfOptions`, `LongOption`,
`ShortOption`, `Positional`, or `Exhausted` once the loop condition fails.
`CharAt(s, k)` is `str[k]`, returning `'\0'` at the terminator and "beyond"
past it. Reading past the end is undefined behaviour, so the byte read there
is chosen nondeterministically. `Settings` is the reference: the option values
obtained by reading a prefix of argv as `-n`/`--long` options, each followed by
its value if it takes one.

The options are built by the factories of the header: `Value`, `ValueShort`,
`Toggle` and `ToggleLong`, with their tags. `TagValue` is the RECURSIVE
resolution of `o_options`: the first tag of a kind wins. The parser reads
`ignore_short` and `ignore_long` through it. The reference reads the same
tags independently, through the minimum index of a tag of each kind.

### FiberScheduler

Only two bodies are in `src`: the predicate loop of
`ConditionVariable::wait(fiber, pred)` (Fiber.hpp 107-112) and
`Fiber::empty`. Everything else is modelled from spec 4.5:

- `execute`, `yield` and `wait`;
- `resume`, which switches to the fiber at once on the processor thread;
- notify_one and notify_all, which take the oldest waiter or all waiters
  from the `std::queue` `mWaiting`.

The variables are:

- `pc[f]`: where fiber `f`'s function is;
- `runQ`;
- `mWaiting`;
- `running`;
- `pending`: the waiters a notify has still to resume;
- `credits`: the resource the predicate tests.

The fibers' workload is an assumption: wait until `credits > 0`, then take
one unit. A completion callback delivers one unit and calls notify_one or
notify_all. `WaitUntil` is the loop. After a resume, the fiber's `pc`
records whether its code evaluates the predicate again.

## Runs

| Run | Config | Expect | What it shows |
|---|---|---|---|
| pingecho | `MCPingEcho.cfg` | pass | With every fault enabled, each side's upcalls are `connErr` alone or a prefix of `connOk, disconnect, disconnected` (`UpcallOrder`). A removed connection has no outstanding work or completions (`NoWorkOnRemovedConnection`). A connection is registered before `rdma_connect`/`rdma_accept` and while established (`RegisteredBeforeHandshake`). `close()` never spins (`CloseNeverSpins`). Every connect is answered (`ConnectAnswered`). An established session ends with the client shut down and the server's connection removed after a full upcall sequence (`TeardownCompletes`). PingEcho implements `SocketLifecycle` (`ImplementsLifecycle`). |
| ping_hang | `MCPingEchoHang.cfg` | violation | `PingClientTerminates` fails: a connect error leaves the client running forever. |
| buffers_leak | `MCPingEchoLeak.cfg` | violation | `SendBuffersReturned` fails once `ibv_post_send` can fail. |
| mutex | `MCBusyMutex.cfg` | pass | `MutualExclusion` for three threads mixing lock and try_lock. |
| mutex_liveness | `MCBusyMutexLiveness.cfg` | violation | `LockEventuallyAcquired` fails: the load outside the spin loop. |
| remote_access | `MCRemoteAccess.cfg` | pass | Without wrap-around, only in-bounds one-sided requests are posted (`InBounds`), and `out_of_range` is reported exactly for ranges that do not fit (`OutOfRangeExactly`). A step that grows the send queue appends one request and reports success; a call that reports an error posts nothing (`PostOnlyOnSuccess`, an action property). |
| remote_access_wrap | `MCRemoteAccessWrap.cfg` | violation | With all offsets, `InBounds` fails: offset 13 + length 3 wraps to 0 in 4-bit size_t, and the read is posted at address 5, outside the region [8, 14). |
| options | `MCProgramOptions.cfg` | pass | Every normal return of `parse` agrees with the reference (`ReturnsAsSpecified`). `parse` reads past argv or a string in two places: `str[2]` of `"-"`, and `argv[argc]` after a trailing `-c`. A parse that did either never returns normally (`OutOfBoundsNeverReturns`). |
| echo_flushed_receive | `MCPingEchoFlushEcho.cfg` | violation | `EchoAnswersPing` (the server sends no more messages than the client) fails, even without faults: the server echoes the flushed receive of a disconnected connection. |
| send_unconnected | `MCRemoteAccessUnconnected.cfg` | violation | `NoPostWithoutQueuePair` fails: open() then send() reaches ibv_post_send with a null queue pair. |
| fiber_condition | `MCFiberScheduler.cfg` | pass | With four fibers and fair notifies, every started fiber gets past its wait (`AllServed`), including fibers woken by notify_all that find the unit already taken and wait again. |
| ping_count | `MCPingEchoCount.cfg` | violation | With `--count 1` (`MaxSend = 1`), `PingsWithinCount` fails: a flushed receive polled before the ESTABLISHED closure sends ping 1 from `onReceive`, and `onConnected` then sends ping 2. |

Each property of a passing run has a mutant in PROJECT.json: a plausible bug
in the mapped code, such as the wrong upcall for DISCONNECTED, a drain skipped, an
unknown option skipped instead of thrown, or `>=` for `>`. TLC finds the
property violated by each one.

### Findings

- **PingClient hangs after a failed connect** (`PingClient.cpp:73`).
  `onConnected` returns on error without closing or shutting down.
- **Send buffers leak when a post fails** (`PingClient.cpp:150`,
  `EchoServer.cpp:86`).
- **`busy_mutex::lock` can spin forever** (`mutex.hpp:22`). `val` is loaded
  once, outside the loop.
- **The bounds check of `doRead`/`doWrite` overflows**
  (`InfinibandSocket.cpp:333, 358, 383`). The spec says bounds violations are
  caught before posting.
- **PingClient can send one ping more than `--count`** (`PingClient.cpp:79`).
  `onConnected` sends without testing the count, and `onReceive` ignores
  its error code. If the link fails between the CM's ESTABLISHED event and
  the run of its closure, the flushed receive is polled first and sends
  ping 1. `onConnected` then sends ping 2.
- **EchoServer echoes a flushed receive** (`EchoServer.cpp:72`).
  `onReceive` ignores its error code. It sends back the contents of a
  receive the NIC flushed on disconnect, which the client never sent.
- **Send without a queue pair** (`InfinibandSocket.cpp:323`). `doSend`
  checks `mId` only. Between open() and the handshake, or after the drain,
  `ibv_post_send` gets a null queue pair. The spec says this fails fast with
  a precondition error.

## Bounds and why they suffice

- **PingEcho.** It has one client and one server connection,
  `MaxSend = 2` pings (1 in the `ping_count` run), and a pool of `PoolSize = 1` send buffer per side.
  Two pings are enough for a send completion to race the next echo. One ping is the smallest count the unconditional send of `onConnected`
  can exceed. A pool of
  one makes pool exhaustion reachable: the client polls the echo before its
  own send completion returns the buffer. Every fault kind is enabled, one
  outcome per call, so each error path of each handler is taken. The model
  has about 29,600 states. The echo run disables faults, which shows that
  the flushed-receive echo needs no failure.
- **BusyMutex.** Three threads is the smallest number where two can wait
  while one holds the lock.
- **RemoteAccess.** It uses a 4-bit size_t, a 6-byte region at address 8, a
  3-byte send buffer, up to two scatter-gather entries of 1 or 2 bytes, and a
  send queue of depth 1. With depth 1 the queue is full after one post. Every
  offset 0..15 is tried in the wrap run; 0..11 (no wrap for lengths up to 4)
  is tried in the pass run.
- **FiberScheduler.** It uses four fibers, four units (one per fiber)
  and one yield each. Three fibers can wait together, so notify_all has up
  to three waiters to resume for one unit. A fourth fiber can take a unit
  before a woken waiter runs. One yield per fiber reorders the run queue.
  The model has 42,053 states and takes seconds.
- **ProgramOptions.** It uses three options: a toggle with a long name, a
  value option with a long name, and a value option without one. The 15
  argument shapes tell apart every branch: `--`, `-- `, `---`, known and
  unknown long names, extra dashes, `-c`/`-h`/`-p`/`-q`, `-ch`, `-`, a
  positional, and the empty string. It checks every argv of up to 3
  arguments.

## Fairness

- **PingEcho.** It assumes weak fairness for each CM action, each processor,
  the hardware, and the two constructor steps. A processor thread polls
  forever, the CM thread delivers every pending event, and the NIC completes
  every posted request. Nothing in the code or spec lets any of them stop
  while work is pending. `CHECK_DEADLOCK FALSE` is set because the server
  idles forever once the session is over, and that idling is correct.
- **BusyMutex.** It assumes weak fairness for each thread's atomic steps:
  threads are scheduled. Calling the mutex is not required.
- **RemoteAccess.** No liveness property, no fairness. `CHECK_DEADLOCK
  FALSE` is set because the crash of a send without a queue pair is a final
  state.
- **FiberScheduler.** It assumes weak fairness for the dispatch of a
  scheduled fiber, for a notify's resumes, for the hardware's completions,
  and for each running fiber's wait. The processor thread polls forever, and
  a running fiber runs until its next suspension point. A fiber's function
  (`execute`) is not assumed to be given. `CHECK_DEADLOCK FALSE` is set
  because the processor idles once every fiber has returned.
- **ProgramOptions.** No fairness. Its runs set `CHECK_DEADLOCK FALSE`
  because `parse` returns, which is a final state.

## Not modelled

- **`reject`, `bind`, `listen` and the default acceptor handler.** The
  examples never reject. bind and listen only set up the server socket.
- **`crossbow::mutex`.** Its methods are not in src.
- **`Fiber::unblock` from another thread and the fiber stack allocator.**
  Their code is outside src. No caller in src wakes a fiber across threads.
- **The work-request correlator (`WorkRequestId`), local and allocated
  memory regions.** Their code is outside src; only declarations are here.
- **`PingClient` with `count = 0`** (`PingClient.cpp:79`). `onConnected`
  sends unconditionally, so a count of 0 still sends one ping. The
  `ping_count` run shows the same unconditional send at count 1, so no
  run is given to count 0.
- **The out-of-bounds reads of `parse` as a finding**
  (`program_options.hpp:385, 240`). `ShortOption` and `ParseImpl` model
  both reads, and `OutOfBoundsNeverReturns` bounds what they can lead to.
  Command-line parsing is outside the spec's scope, and the harm of the
  `argv[argc]` read lies in `parser<T>`, outside src. So no violation run
  states that the reads must not happen.
- **A negative `--count`** (`PingClient.cpp:181`). `main` passes the `int`
  count to the `uint64_t` `maxSend`, so `-1` becomes 2^64 - 1, and the
  client pings until the connection breaks. `MaxSend` is a constant of
  PingEcho, and a bound that large is beyond what TLC can explore.
- **Self move-assignment of an `InfinibandBuffer`**
  (`InfinibandBuffer.hpp:64`). `buf = std::move(buf)` invalidates the
  buffer, so its pool slot is never released. The pool is in DeviceContext,
  outside src, so no model holds a pool and a buffer together.
- **The layout of `print_help`.** It pads each option to the widest name
  among the options after it, not among all of them, so descriptions do not
  line up. This is cosmetic.
- **`infinityverbs` and the string test.** Out of scope per the spec; they
  are declarations and a unit test.
- **Logging, `print_help`, `parser<T>`.** These are formatting, or code
  outside src.

## Plan for further work

1. **Many connections at the EchoServer.** Check that each connection's
   teardown is independent, and show the `mConnections` growth.
2. **`addConnection` racing the connection table** (`InfinibandSocket.cpp:199`).
   This needs the DeviceContext's locking, which is outside src.
3. **A fault model for `FiberScheduler`.** Add a cross-thread `unblock` of
   a fiber that is parked in `mWaiting`, once its use is known.
4. **`WorkRequestId` encode/decode as operators.** Check the round trip
   against a reference over small tag and id ranges.
