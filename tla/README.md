# A TLA+ model of skynet's core

This directory specifies the core of skynet: the actor runtime in C
(`src/skynet/skynet-src`), in which services own message queues, worker threads run one
service's callback at a time, and messages, timers, kills and launches from many threads
meet; the socket server beside it; the Lua runtime that turns messages into calls between
coroutines (`src/skynet/lualib/skynet.lua`); and the harbor, which joins nodes to a network.
The repository is an annotated copy of skynet; the notes (`src/skynet.md`,
`src/README.md`) explain the code, and every definition here is taken from the code.

Paths below are relative to `src/skynet/skynet-src` unless they say otherwise.

## 1. Inventory

### Components that are modelled

**Service contexts and dispatch** (`skynet_server.c`).
State: per service a `skynet_context` (reference count, `init` flag, handle, queue);
globally the number of contexts `G_NODE.total` and the `monitor_exit` handle.
Operations: `skynet_context_new`, `_grab`, `_release`, `_reserve`, `delete_context`,
`skynet_context_push`, `skynet_send`, `skynet_context_message_dispatch`, the commands
LAUNCH, EXIT/KILL, MONITOR, ABORT.
Hard: a worker dispatching, a sender between grab and push, a killer between clearing the
slot and dropping its reference, a launch whose init fails, and an abort may all be inside
the same service. Correct when: one callback per service at a time, the count is the
number of references, nothing freed is reached, every retired service is reclaimed,
messages of one sender stay in order.

**Message queues** (`skynet_mq.c`).
State: one ring buffer per service with `in_global`, `release` and the overload counter;
the global queue, a linked list of the queues that have work. A queue outlives its
context: it is marked by `delete_context` and freed by the worker that finds it.
Hard: who puts a queue into the global queue, decided under the queue's lock by push, pop,
`mark_release` and `release`; the ring that doubles with `head` anywhere.

**Handle storage** (`skynet_handle.c`).
State: hash table from handle to context, `handle_index`, a sorted array of names.
Operations: register (with linear probing over handles, wrap at `HANDLE_MASK`, doubling),
grab, retire, retireall, findname, namehandle.
Hard: `skynet_context_new` stores the handle in the context after the lock is gone;
retireall reads under the lock and retires after it.

**Timer** (`skynet_timer.c`).
State: 256 near lists and 4 levels of 64 lists, a 32-bit time that wraps.
Operations: `timer_add` by workers; `timer_update` (execute, shift, execute) by the timer
thread, which releases the lock while it dispatches a list.

**Threads** (`skynet_start.c`).
State: `m->sleep`, `m->quit`, a mutex and a condition.
Hard: `skynet_globalmq_push` signals nobody; `m->sleep` is read without the mutex; the
shutdown broadcast races a worker on its way to sleep.

**Socket server** (`socket_server.c`, `socket_epoll.h`).
State: slots with type, id, two send lists, a buffer left by a direct write, the count
`sending` of packets on their way; a control pipe from the workers to the socket thread.
Operations: listen, connect, start, pause, send with high and low priority, direct write,
close, shutdown; the handlers of the socket thread's commands and events.
Hard: a worker writes to the connection itself while the socket thread may close it; an id
is checked without a lock; half-closed states; events of a poll that are stale when they are
handled. Correct when: SOCKET_CLOSE comes once, bytes are neither torn apart nor reordered,
a close loses nothing that was sent before it, data that waits is watched.

**Lua service runtime** (`../lualib/skynet.lua`).
State: tables from session to coroutine and back, sessions watched for an error, coroutines
that sleep, closures that owe an answer, the wake-up, error and fork queues.
Operations: call, send, sleep, wait, wakeup, fork, ret, response, exit, killthread, kill of a
service; the dispatch of requests, responses and errors.
Hard: a call ends by a response, an error, the death of the service called, or never; a sleep
by its timeout or a wake-up, with the timeout still to come; a coroutine may fail in the
middle of the queues. Correct when: every call is answered at most once, and a caller that
waits is owed an answer by somebody, or by a service that was killed.

**Harbor** (`../service-src/service_harbor.c`, `../service/cslave.lua`, `../service/cmaster.lua`).
State: the master's nodes and names; per slave its connections, names, callers that ask for a
name; per harbor a handshake status and a queue for every node, a queue for every name.
Operations: join, connect, accept, register, query, send by name and by handle, and the
handlers of the messages between master, slave and harbor.
Hard: nodes join while others are still starting; a message waits for a name, then for a
connection, while later ones find both. Correct when: nodes that run are connected, a
message goes out with its destination, messages to one name stay in order, nobody waits for
a name that is known.

### Interactions

Workers pop queues (`skynet_mq.c`), resolve the handle of the queue
(`skynet_handle.c`), run callbacks (`skynet_server.c`), which send, launch and kill, hence
grab handles and push to queues. The timer and socket threads push messages the same way
and wake workers. `delete_context` marks the queue and counts `G_NODE.total` down; at zero
every thread leaves through `CHECK_ABORT`. The Lua runtime is one such callback: it sees
messages, session numbers and timeouts, and the errors that `drop_message` sends for a dead
service's queue. The harbor is a service in C, told of connections by a service in Lua, and
both use the socket server.

### Components that are not modelled (yet)

| component | state and operations | what is hard | plan |
|---|---|---|---|
| locks (`rwlock.h`, `spinlock.h`, `atomic.h`) | two counters | reader re-checks the write flag | next |
| monitor (`skynet_monitor.c`) | version, check_version, source, destination | unsynchronised fields: a message that has just begun may be reported as endless, which is a log line and a flag for STAT | next |
| `skynet/queue.lua`, launcher, service_mgr | a lock with a list of coroutines; pending launches; name → waiting list | concurrent requests for one name, failing launch | next |
| socketchannel, socket library | requests in order or by session, reconnect | responses matched across reconnects | second |
| gate, cluster | connections, agents; senders and pending requests | open/close/forward races | third |
| multicast, sharedata | shared objects with counts | counts across services | third |
| module loader, environment, log | locked tables, files | nothing of their own | no |
| start-up, daemon, malloc hook | configuration, pid file, statistics | operating system | no |
| codecs (seri, bson, crypt, sproto, netpack) | pure functions on bytes | byte formats | no |
| database, http, dns clients, snax, debug console | clients of the above | | no |
| 3rd (lua, lpeg, md5, jemalloc), examples, tests, notes | third party or text | | no |

The vendored libraries under `3rd` (jemalloc and the Lua interpreter first of all) make up most
of the repository's lines of C. They are external to this project: what skynet uses of them
(allocation, coroutines, tables) appears as TLA+ values.

`PROJECT.json` lists the same components, every mapped definition with its lines, and the
hazards: what can go wrong at which line, and the property that would show it.

## 2. Modules

| module | models | built on |
|---|---|---|
| `ServiceDispatch` | contexts, queues, global queue, launch/send/dispatch/kill/abort | a queue is the sequence `MessageQueue` implements; handles are the set that resolves |
| `ServiceDispatchProofs` | its inductive invariant and its theorems | `ServiceDispatch`, `TLAPS` |
| `Mailbox` | abstract: a FIFO of messages and its `in_global` flag | |
| `MessageQueue` | the ring buffer of one queue | implements `Mailbox` |
| `MessageQueueProofs` | its theorems, the refinement included | `MessageQueue`, `TLAPS` |
| `HandleStorage` | handle table and names | |
| `HandleStorageProofs` | its theorems | `HandleStorage`, `TLAPS` |
| `TimerWheel` | timer lists | |
| `TimerWheelProofs` | its theorems | `TimerWheel`, `TLAPS` |
| `Threads` | workers, timer, socket, monitor threads: sleep, wake, shutdown | a dispatch is abstract: takes a queue, may push others, may launch or delete |
| `ThreadsProofs` | its theorems | `Threads`, `TLAPS` |
| `SocketServer` | slots, control pipe, direct writes, poll loop for TCP | a service is a thread that calls `socket_server_*` |
| `SocketServerInv` | its inductive invariants `Inv` and `LineInv` | `SocketServer` |
| `SocketServerProofs` | its theorems | `SocketServerInv`, `TLAPS` |
| `LuaService` | the tables and queues of `skynet.lua` for several services | mailboxes are the FIFO of `Mailbox`; death of a service as `ServiceDispatch` shows it: its messages become errors |
| `LuaServiceProofs` | its theorems | `LuaService`, `TLAPS` |
| `Harbor` | master, slaves and harbors of a network | mailboxes and connections are FIFOs |
| `HarborProofs` | its theorems | `Harbor`, `TLAPS` |
| `MCServiceDispatch`, `MCHandleStorage`, `MCSocketServer`, `MCLuaService` | model values and symmetry for TLC | |

### ServiceDispatch

A service is named by its handle. Variables on the left, code on the right:

| model | code |
|---|---|
| `slot` | handles `skynet_handle_grab` resolves |
| `ctx`, `ref`, `inited` | the context's memory, `ctx->ref`, `ctx->init` |
| `mqmem`, `mq`, `in_global`, `release` | the queue's memory, its messages and flags |
| `globalmq` | the list `Q->head .. Q->tail` |
| `total`, `monitor_exit`, `reserved` | `G_NODE.total`, `G_NODE.monitor_exit`, contexts under `skynet_context_reserve` |
| `pc`, `q`, `nq`, `held`, `left`, `born`, `dst`, `msg`, `prey`, `gone`, `dq`, `scan`, `found` | where a thread is and the locals of the function it is in |
| `sret`, `pret`, `dret` | where a send, a retire, a delete returns to |
| `sent`, `last` | history: number of sends, last message dispatched per (destination, source) |

One step is one locked section or one atomic operation; between two steps every other
thread may move. So `skynet_context_message_dispatch` is `GlobalPop`, `DispatchGrab`,
`DispatchEmpty`/`DispatchMessage`, `DispatchLength` (the `>>weight` share of the queue),
the callback, `DispatchNext`, `DispatchBack`, `DispatchRelease`. A callback may at any
point `Send`, `Launch`, `Reserve`, `Kill` (anything, itself included), `Monitor`, `Abort`,
or return. A launch is `Launch`, `MqCreate`, then `InitSucceeds`, `SetInit`, `LaunchPush` or
`InitFails` with its release, retire and `skynet_mq_release`. A send is `Send` (the
command), `SendGrab`, `MqPush`, `SendRelease`. A release that reaches zero runs
`DeleteContext`, which marks the queue.

Abstractions, and what they leave out:
- Neighbouring steps of one thread that no other thread can tell apart are one:
  `mark_release`, the frees and `context_dec` in `DeleteContext`; `mq_create` and
  `context_inc` in `MqCreate`; registering and storing the handle in `Launch` (this last
  window matters to the hash table, and is open in `HandleStorage`).
- `skynet_handle_retireall` visits the slots in any order (`scan`), pass after pass, as
  hashing leaves the order open.
- `skynet_error` pushes an ordinary message to the logger and is left out, as are
  `skynet_context_dispatchall` (the logger's last words, at a fatal start-up error),
  sends to remote harbors, statistics, profiling and log commands.
- A handle is used once. Reuse after a wrap is `HandleStorage`'s subject.
- A service reserved by the harbor whose handle is retired keeps its reference, so its
  queue is released and pushed back by the workers until the process ends; the liveness
  properties except it by name.
- After it has released its reference, `skynet_context_new` still sets `ctx->init` (line
  166) and logs through the context (170), and cmd_launch reads `inst->handle` (496); the
  service may have been killed and freed by then. `SetInit` is a step that happens whether
  or not the context is live; the model ends a launch at the push. `NoDangling` is about
  references and queues, and says nothing of these accesses.

### MessageQueue and Mailbox

`MessageQueue` has `cap`, `head`, `tail`, `queue`, `in_global`, `overload` and
`overload_threshold` as in `struct message_queue`; `Push` includes `expand_queue`,
`PopMessage` the length computed at a wrapped tail and the doubling of the threshold,
`PopEmpty` its reset and that of `in_global`; `TakeOverload` is `skynet_mq_overload`. A fresh
cell holds `NoMessage`, which stands for uninitialised memory. `Mailbox` says what is
promised: push appends and sets `in_global`, pop takes the first message or clears
`in_global`. The refinement mapping (`Contents`) reads the ring from head to tail.

### HandleStorage

All of `skynet_handle.c`, with the handle stored by a step of its own (`StoreHandle`,
`skynet_server.c:155`) and retireall split at its unlock. A process that an `assert` stops,
or that reads the context of an empty slot, gets `failed`. At the wrap the loop of
`skynet_handle_register` restarts from handle 1 and steps over slot 0, visits the slot of
one handle twice, and may go on to doubling although a slot is free; the doubling then reads
`handle` of an empty slot. `FailsOnlyAtLimits` admits exactly this case (it takes a table
that fills up just as 2^24 handles have been given out) and no other. Names are
integers: only their `strcmp` order matters. `NamesWithout` is the compaction of the name array
at a retirement, the loop at `skynet_handle.c:93`, as a function of the entries visited so far.
The sizes are those of the code as far as anything depends on them: the size of the handle
space and of the first table are powers of two, and the first table has at least two slots.

### TimerWheel

`CellOf` is the test of `add_node` by blocks: the lowest level at which the expiry time and
the current time share their higher bits. The sizes of the lists are constants, so `Unit[l]`, the
ticks that one list of level `l` covers, stands for a shift by the bits below it, and division
and remainder by it for the shifts and masks of the code. `TimerShift` is `timer_shift` with
`move_list`, which adds the nodes of the list again one by one (`MoveList`).
`TimerExecute`, `DispatchNode` and `DispatchEnd` are `timer_execute`, which drops the lock
for the dispatch, so that `TimeoutAdd` may come between. `T->time` is the clock of the
properties. The wall clock is not modelled: when `skynet_updatetime` makes up several ticks,
a timeout added meanwhile counts from the tick reached.

### Threads

`thread_worker` is split at the mutex and at the condition; `thread_timer`,
`thread_socket` and `thread_monitor` at each read of shared state. Spurious wakeups happen.
Signals, daemon mode and configuration are left out.

### SocketServer

| model | code |
|---|---|
| `slot` | `ss->slot`: id, type, protocol, reading, writing, closing, the tag and count of `sending`, `high`, `low`, `dw_buffer`, `dw_lock` |
| `alloc_id`, `pipe`, `checkctrl`, `ev` | `ss->alloc_id`, the control pipe, `ss->checkctrl`, the events from `event_index` on |
| `pc`, `doomed` | the socket thread: in `socket_server_poll`, or in `force_close` where it waits for `dw_lock` |
| `at`, `job` | a worker: with `dw_lock` held, before its 'W' command, before `inc_sending_ref`, before its 'D' or 'P' command |
| `accepted`, `wire`, `due`, `broken`, `closes`, `opened` | history: what services sent, what was written, what the closing service had sent before (for the ids a service has closed), SOCKET_CLOSE and SOCKET_OPEN |

A command of the pipe is one step (`OpenSocket`, `ListenSocket`, `ResumeSocket`, `PauseSocket`,
`TriggerWrite`, `CloseSocket`, `SendSocket`), and so is an event (`ReportConnect`, `ReportAccept`,
`ReadData`, `ReadEnd`, `SendBuffer`, `HangUp`), except that `force_close` has a second
step, because it waits for a lock a worker may hold (`ForceClose`, `ForceCloseEnd`). Direct
writes are `Send` (the checks without and with the lock), `DirectWrite`, `TriggerRequest`.
System calls have every result: a read gets data, nothing, the end or an error; a write
takes none, some or all of the bytes. A packet is two bytes long, so that it may be written in
part. Events of a poll that has become stale are `EventInvalid` (the slot is free) and
`EventReserved` (it has been reserved again). An open is `ReserveType` and `ReserveId`, the two
writes of `reserve_id`, and then `OpenRequest`; between the first two the slot is reserved and
still has its old id (`HalfReserved`).

**An exclusion.** The code does not look after this window (`socket_server.c:356-358`). A service
that still uses the old id may have a command on its way, and the socket thread, whose handlers
compare the id only, then works on the reserved slot (`Crosses`). `Spec` has these steps;
`QuietSpec` is `Spec` without them, and the run `socket` and all theorems of the module are about
`QuietSpec`. Under `Spec` TLC finds, with the bounds of `SocketServer.cfg`, `AssertionsHold`
violated in a trace of 18 states (a late 'D' appends its packet to the reserved slot, where the
`check_wb_list` of `new_fd` finds it) and `PendingIsWatched`; and with `MAX_SOCKET = 1`,
`MaxId = 2`, `MaxCall = 5` also `CloseOnce`, in 13 states: a connection is closed, its slot is
being reserved for the next, a service closes the old id again while another is about to send
on it (`sending` is 1), and `close_socket` takes the slot for one that has to wait for data and
raises SOCKET_CLOSE of the old id a second time. Without data on its way the same close runs into
the assertion of `force_close`. `WriteOrder`, `GracefulClose` and `SendingCounted` hold under `Spec` as well within the
bounds of `SocketServer.cfg`. So what the socket
properties say, they say of executions in which no command on a slot's old id is taken in
this instant.

Left out: UDP, `bind`, `nodelay` and the statistics; the content of data; `socket_server_exit`;
the wrap of ids at 2^31. `ReserveId` sets the id and the protocol in one step: who reads the
protocol alone does not see the id, and who compares the id first has another one. A
service sends on a connection only after its SOCKET_OPEN, as the Lua library does; the code would
fail an assertion for a send before the open command.

### LuaService

`vm[s]` holds the tables of `skynet.lua` under short names: `sid_co` is `session_id_coroutine`,
`co_sid` and `co_addr` are `session_coroutine_id` and `session_coroutine_address`, `watching` is
`watching_session`, `sleeping` is `sleep_session`, and `wakeup_queue`, `error_queue`,
`fork_queue` and `unresponse` keep their names. `waits[c]` is what the suspended coroutine `c`
is blocked in. One step is what happens between two points at which a coroutine chooses what to
do next: `Receive` takes a message (`raw_dispatch_message`), the coroutine then takes any
operation of the library (`Call`, `Send`, `Sleep`, `WaitToken`, `Wakeup`, `Fork`, `Ret`,
`Response`, `Respond`), ends (`Finish`), fails (`Fail`) or exits the service (`Exit`; the errors
it sends are `LastErrors` and `LastNews`, in an order that the hash tables of Lua leave open: the model
takes one). After it has yielded,
`DispatchWakeup`, `DispatchError` and `DispatchFork` work off the queues in the order of `suspend`
and `dispatch_message`. `KillThread` is in `KillSpec` only.

A service ends in two ways. `Exit` is `skynet.exit`: the news is sent and the handle retired in one
step, where the code sends first; a receiver cannot tell the difference, since it acts on the news
alone. `Kill` is `skynet.kill` (`lualib/skynet/manager.lua:11`, `cmd_kill`) of a service from
outside: the service runs no code for it, so that the callers it owes an answer, in a coroutine
that waits or in a closure of `skynet.response`, are told nothing and wait for ever. `forgotten`
records these calls beside those whose handler returned without an answer, and `CallPending`
excludes both kinds and no other: the requests that are still in the mailbox are answered by
`drop_message` (`DropMessage`). A service that is killed while it handles a message finishes it
(its worker holds the context); the model joins the retirement with the end of this message.

Left out: `skynet.request`/`select`, tracing, the debug protocol, the coroutine pool (a
finished coroutine is free at once), errors in the dispatch functions of reserved protocols, the
wrap of session numbers.

### Harbor

Nodes are numbered in the order in which they join. Variables are the tables of
`cmaster.lua` (`slave_node`, `global_name`), of `cslave.lua` (`slaves`, `connect_queue`,
`globalname`, `queryname`; `phase` is where its start function is) and of `service_harbor.c`
(`status`, `queue` per node, `value` and `name_queue` per name), and the messages between them
(`toMaster`, `toSlave`, `text`, `inbox`, `wire`). One step is one message handled, or one
connection opened (`ReadyConnect`: `socket.open` yields between two of them). An address is
the node of a service; the field `dest` says whether a message carries it.

Between the last accept and `ready` the start function of `cslave.lua` yields once, in
`socket.close`; the model joins the two, since what can happen in between commutes with them.
`DropPackage` loses whole messages: what arrives on a connection before its data goes to the
harbor is discarded, taken here message by message.

Left out: nodes and connections that go down, LINK, CONNECT and the monitors. Reading the code
for them shows two things that a reader should know. `close_harbor` leaves `s->fd` as it is, so
that the DOWN branch of `remote_send_handle`, which would answer with an error, is not reached
and messages to a dead node vanish. Two nodes that register one name at the same time end
up with different addresses for it: the master keeps the first and broadcasts both; the model has
this behaviour, and no property excludes it.

## 3. Runs

| run | checks | bounds, and why they suffice |
|---|---|---|
| `dispatch` | `TypeOK`, `QueueExclusive`, `QueueNotLost`, `SerialDispatch`, `RefCounted`, `NoDangling`, `DispatchInited`, `DeletedOnce`, `TotalCounts`, `FifoPerSource` | 2 services (one running, one to launch), 2 workers, 2 sends after the start message: one service can push to the other, or to itself, while it is dispatched, killed or failing its init, two messages can overtake each other, and the error messages of a dropped queue come back to a live service. There is no outside thread in this run (three threads with two sends are out of reach within minutes); the theorems of section 4 hold for any number of them |
| `dispatch_live` | `MessagesDrained`, `RetiredReclaimed` | one send after the start message, workers of weight -1 and 1, so both the one-message and the half-queue share occur |
| `mq` | `OverloadOncePerDoubling`, refinement `FifoSpec` | capacity 2 → 4 → 8, at most 5 messages: both expansions at every position of head, thresholds 1, 2, 4 |
| `handle` | `Resolvable`, `NamesFound`, `RetireAllComplete`, `FailsOnlyAtLimits` | mask 3, 2 → 4 slots, 3 contexts reused, 2 names: table growth, wrap and the limit are all reached |
| `handle_race` | `RehashAssertion` (violated, see below) | two launchers, 4 → 8 slots as in the code |
| `timer` | `FiresOnTime`, `InItsCell`, `SameTickInOrder`, `Fires` | a 4-bit word with three levels above the near lists, every starting time (so the wrap), every timeout below half the range, 2 timers, up to 2 ticks per update |
| `threads` | `NobodySleepsAfterQuit`, `WorkIsTaken`, `Shutdown` | 2 workers, 2 services, 3 pushes: a push at each point of a worker's way to sleep and back |
| `socket` | `CloseOnce`, `WriteOrder`, `GracefulClose`, `PendingIsWatched`, `SendingCounted`, `AssertionsHold`, all under `QuietSpec` (see the exclusion above) | 2 slots, 4 ids (a slot is used again), 2 services, 4 calls: connect, two sends and a close, or listen, start, and a send on what was accepted; a pipe of 2 commands, so that a worker blocks; a limit of 2 on `sending`, so that a worker waits for it |
| `socket_close` | `ClosingWaits` (violated, see below) | one connection, one service that sends and one that closes |
| `lua` | `SessionsMatch`, `QueuesDrained`, `AnsweredOnce`, `CallPending`, `DownIsDown` | 2 services that run at the same time, 2 coroutines each, 3 operations: calls in both directions, a call to a service that exits or is killed, a sleep with a wake-up that races its timeout, a failing coroutine with others in the queues |
| `lua_kill` | `DownIsDown` with killthread (violated, see below) | as `lua` |
| `harbor` | `FullMesh`, `DestinationKnown`, `InOrder`, `AnswerComing` | 3 nodes, so that one may join while another still waits for connections; 5 operations, joins included: three nodes with a registration and a message, or two with three operations |

The type invariants of `HandleStorage`, `TimerWheel`, `Threads`, `SocketServer`, `LuaService` and
`Harbor` are conjuncts of a property that rests on them (`Resolvable`, `InItsCell`,
`NobodySleepsAfterQuit`, `SendingCounted`, `SessionsMatch`, `FullMesh`).

Deadlock is checked in `mq`, `timer` and `threads` (where the joined process stutters). It is
off in the dispatch runs, where bounded sends and a dead process leave nothing to do, and
in the handle and socket runs, where the process may have stopped at an assertion; it is off
in the Lua and harbor runs, where bounded operations come to an end.

Symmetry is used only in runs without liveness properties, over services, workers, senders and
contexts that Init does not tell apart.

**Fairness.** `dispatch_live`: a thread that is not in user code takes its next step (WF of
`Continue`); a callback and an init function return, even if they may always do something
else first (SF): this is what skynet asks of services, and what `skynet_monitor.c` warns
about when it fails. Nothing is assumed of sends, launches or kills. `timer`: the timer
thread runs and the clock advances (WF); nothing of `TimeoutAdd`. `threads`: every thread
runs (WF); a thread that waits for the mutex gets it when it is free again and again
(SF, pthread's mutexes block); nothing of socket events or spurious wakeups, so
`WorkIsTaken` rests on the timer's 2.5 ms wakeups alone, as in the code.

**Finding (`handle_race`).** `skynet_handle_register` publishes the context in a slot and
releases the lock; `skynet_context_new` stores the handle in the context afterwards
(`skynet_server.c:155`). Another launch that doubles the table in between hashes that
context by handle 0. The run finds two contexts for one new slot, which is
`assert(new_slot[hash] == NULL)` at `skynet_handle.c:64`; where they do not collide the
context lands in the wrong slot. The comment at `skynet_server.c:153` has this window in
mind for retireall only. Two launches at the same time need LAUNCH from two services:
`skynet.launch` is open to any service, and most launches go through the one launcher
service, which is the `handle` run with its single launcher.

**Finding (`socket_close`).** A close that finds something to send sets `closing` and leaves the
rest to the end of the sending (`socket_server.c:1146`). It also does so when there is nothing but
a packet counted in `sending`, whose command is behind the close in the pipe. `send_socket`
drops that packet, since the socket is closing (1016); the count goes to zero, both lists are
empty, the write event was never enabled, and nothing calls `force_close`. The run ends in such a
socket. It keeps its slot and its file descriptor until the other side hangs up. It takes two
services that use one connection, one of which closes it while the other sends.

**Finding (`lua_kill`).** `skynet.killthread` answers the request of the coroutine it kills with an
error (`lualib/skynet.lua:457`), also when the request came by `skynet.send` and its session is
0. The receiver takes an error of session 0 for the news that the service is down
(`_error_dispatch`, line 226), gives up all its calls to it and forgets the answers it owes it.
`suspend` has the test that is missing here (line 318).

## 4. Proofs

### ServiceDispatchProofs

For all sets of services, workers and outside threads, all weights and every bound on
sends, from `ConstantsAssumption` alone (finite sets, outside threads are not workers,
weights in -1..3, `NULL` is none of the values):

| theorem | statement |
|---|---|
| `Invariant` | `Spec => []Inv` |
| `TypeCorrect` | `Spec => []TypeOK` |
| `QueuesExclusive` | `Spec => []QueueExclusive` |
| `DispatchIsSerial` | `Spec => []SerialDispatch` |
| `ReferencesCounted` | `Spec => []RefCounted` |
| `NothingDangles` | `Spec => []NoDangling` |
| `ContextsDeletedOnce` | `Spec => []DeletedOnce` |

`Inv`, the inductive invariant, is the conjunction of
- `TypeOK`;
- `ControlOK`: which locals are set at which point of which function. Without it a return
  point or a held queue could be anything;
- `Existing`: a queue that is in the global queue or with a thread belongs to a context that
  has been created;
- `QueueExclusive`;
- `Marked`: a queue in the global queue or with a thread has `in_global` set, or is marked
  `release` (nobody can push to it then), or is being created. This is the key to
  `QueueExclusive`: a push puts a queue in the global queue only when the flag is clear,
  hence when nobody has it;
- `Phases`: the memory of context and queue: the queue comes after the context and goes after
  it, `release` is set exactly when the context is gone, and nobody has a freed queue;
- `Counted`: the count is the number of owners, and a context that is not live has none;
- `Deleting`: `delete_context` runs for a live context without owners, in one thread only;
- `Addressed`: whatever a message can be sent or reported to has had a queue, and the queue
  that `drop_message` works on is marked `release`.

The proof does not treat every action against every conjunct from the start. Two tables are
proved first: `Moves(t)`, that every action of a thread moves queues in one of six ways
(keeps, takes, gives, drops, enters, creates), and `RefMoves(t, s)`, that it treats the
references on a service in one of five ways (same, grabs, releases, hands over, first
references). `QueueExclusive` and `Marked` are preserved for each of the six, `Counted` for
each of the five by a cardinality argument on `Owners`. Memory and flags are changed by few
actions, which are proved one by one. `SerialDispatch` follows because a worker in a
callback has its queue in `q`, and queues have one owner.

Four more rest on `Inv`:

| theorem | statement | argument |
|---|---|---|
| `NoQueueLost` | `Spec => []QueueNotLost` | the converse of `Marked`: every step keeps a queue that is known (in the global queue or with a thread) known, except `skynet_mq_release`, which frees it. A push to a queue with `in_global` clear puts it into the global queue; a queue whose flag is set was known already |
| `TotalIsCount` | `Spec => []TotalCounts` | only `MqCreate`, `Reserve` and `DeleteContext` change the count or the sets counted, each by one; a deleted context is live and not reserved, by `Counted` |
| `DispatchesInited` | `Spec => []DispatchInited` | `Initialised`: a queue that can be popped or pushed to belongs to a service that is `Ready`, that is, its init has returned or its handle is no longer found. The second case is what a failed launch leaves: its queue is released to the workers, which must not find the context |
| `SourceOrder` | `Spec => FifoPerSource` | `Ordered`: messages get increasing numbers while their source's queue is owned by the sending thread, so two sends of one service never overlap; the numbers of one source are increasing from the last one dispatched, along the queue, to the one on its way; so none is dispatched twice. The message that tells the monitor of an exit is not among them |

### MessageQueueProofs

For every initial capacity, every set of messages and every threshold: `TypeCorrect`,
`RingNoGarbage`, `OverloadReports`, and `RingImplementsFifo` (`Spec => Fifo!Spec`). The
inductive part is that the cells from head to tail hold messages and that head equals tail
only in an empty ring. Lemmas state what the contents of the ring are after a store without
and with an expansion, and after a pop.

### ThreadsProofs

For any finite set of workers: `Invariant`, `AwakeAfterQuit` (`Spec => []NobodySleepsAfterQuit`)
and `SleepIsCount` (`m->sleep` is the number of workers between their `++` and `--`, and the
mutex has one owner). The inductive invariant adds to the types which point of its function
each thread is at, and that whoever waits on the condition is inside `pthread_cond_wait`
with `quit` not yet set: the timer thread sets it under the mutex and broadcasts, and the
worker tests it under the mutex before it waits. `ThreadsAssumption` says that the names of
the other threads, and the mutex's "nobody", are no workers.

### SocketServerProofs

For any number of slots, services, calls, pipe places and any limit on `sending`, from
`SocketAssumption`, and of `QuietSpec` (no command on a slot's old id comes between the type and
the id of `reserve_id`): `AssertionsNeverFail` (`AssertionsHold`), `ClosesOnce` (`CloseOnce`),
`SendingIsCount` (`SendingCounted`) and `PendingWatched` (`PendingIsWatched`). `Inv` (module `SocketServerInv`) is the
conjunction of `Types`; `Placed` (a slot's id belongs to it, and a free or reserved slot has
empty send lists); `Sent` and `OpenFirst` (commands are about ids given out, the opening
command is the first about its id and finds its slot reserved, nothing is sent before
SOCKET_OPEN); `Tickets` (an id is being reserved by one service at most, and its slot is
reserved for it until the opening command is handled; a slot with a new type and its old id is
as good as free, `Use`); `Forced` (what `force_close` works on while it waits for the lock); `Counted`
(`sending`, also after the socket is closed, until the slot is reserved again: this is why a
command for a closed socket never counts for the next one); `ClosesCounted`;
`PendingIsWatched`; `Assertions`. As in the dispatch proofs, the actions are first shown to
have one of a few effects (`StepEffect`), and each conjunct is shown to survive each effect.

A second inductive invariant, `LineInv` (`Lines`), follows the packets of a connection on their
way; from it follow `BytesInOrder` (`WriteOrder`) and `ClosedWhenWritten` (`GracefulClose`).
`WriteOrder` speaks of what has been written only; a step that writes keeps it because of what
is in the lists, and these because of what is on its way to them. `Precedes(p, q)` says that
p and q come from one service, p was sent first, and its priority is not the lower one. `LineInv` says:
- `Fresh`: packets are numbered in the order of the calls, and what a service has in hand is
  newer than all that was accepted of it;
- `Kinds`: only the first buffer that waits may be begun, and only the high list or the rest of
  a direct write can hold it; a connection that was shut down counts as broken;
- `Ordered`: what is written are pairs of equal bytes, no packet twice, and every packet after
  the accepted ones that precede it;
- `Lined`: what waits goes on where the wire ends, also in the middle of a packet; it is not
  written yet; in the lists no packet is behind one that it precedes; and an
  accepted packet that is neither written nor waiting precedes none that is;
- `Coming`: the same of the send commands on the pipe and of the workers about to put one
  there; and while the socket takes packets, an accepted one is written, waits, or is on its way. This
  is why a direct write is right: it happens when `sending` is zero, by `Counted` nothing is on
  its way then, and so nothing is missing between the wire and the packet;
- `Graceful`: of what a service had sent when it closed, all is in the lists or before the close
  command on the pipe; when the command has been handled, all is in the lists or written; and
  when the socket goes, all is written.

Most actions leave the packets of an id alone (`Calm`, `CalmStill`); each of the others has
a lemma of its own (`DirectWriteLine`, `SendSocketLine`, `SendBufferLine`, ...). What
`send_list_tcp` writes is a `FlattenSeq`, a fold; the lemma `FlattenSteps` reduces it to one packet
after the other, with an induction along the list that rests on the well-foundedness of
finite sets of numbers (`LeastElement`, `Along`, `Recursion`). TLC has checked the parts of both
invariants that are not types under `SocketServer.cfg`.

### LuaServiceProofs

For any finite set of services, any number of workers, coroutines, sessions and operations,
from `LuaAssumption`. The sets of coroutines and sessions are bounded by constants, whatever they are;
without killthread (`lua_kill` shows what it breaks), with `skynet.kill` of a service at any time.

| theorem | statement |
|---|---|
| `SessionsAgree` | `Spec => []SessionsMatch` |
| `IdleIsDrained` | `Spec => []QueuesDrained` |
| `ErrorsOfTheDown` | `Spec => []DownIsDown` |
| `CallsPending` | `Spec => []CallPending` |
| `AnswersOnce` | `Spec => []AnsweredOnce` |

The inductive invariant has three layers.
- `Good`, about the tables of one service: sessions and coroutines point at each other
  (`Sessions`); what a coroutine waits in decides which other tables know of it (`Kinds`);
  the fork queue holds coroutines that are ready, the error queue sessions that are still
  watched, each once (`Forks`, `Errors`); the queues are empty when the service is idle, or
  a `NOP` that a failing coroutine has forked guarantees another round (`Drained`).
- `DownIsDown` and `CallPending`, about messages and the services they concern.
- `Once`, about an open call. Its request is in one place (`OneHolder`): a mailbox, a
  coroutine or a closure; then it has not been answered, and the caller, if alive, waits for
  the holder (`HolderOpen`). An answer in a mailbox is the only one of its session, and a
  response is waited for (`Answers`). A timeout in a mailbox or still to come belongs to a
  session that sleeps or has been broken off (`Timeouts`): so no late timeout finds
  its session unknown. A response never comes after its sender's news of being down
  (`News`), and a call in the error queue gets no response any more (`Failing`): without
  these two a call given up could see its response afterwards.

Every action is first shown to be the step of one service that takes at most one message
and appends messages to mailboxes, and to obey seven laws (`Effect`: frame, sessions,
requests, timeouts, messages, pending calls, unknown sessions). The second and third layers
are preserved by every step that obeys them, whatever action it is.

### HandleStorageProofs

For any size of the handle space and of the table, any contexts, names, launching threads and
threads in `skynet_handle_retireall`, from `StorageAssumption`:

| theorem | statement |
|---|---|
| `HandleTypeCorrect` | `Spec => []TypeOK` |
| `NamesAlwaysFound` | `Spec => []NamesFound` |
| `QuietCorrect` | `Spec /\ [][QuietExpansion]_vars => [](Resolvable /\ RetireAllComplete /\ FailsOnlyAtLimits)` |
| `AlwaysResolvable` | `OneLauncher`: `Spec => []Resolvable` |
| `RetireAllCompletes` | `OneLauncher`: `Spec => []RetireAllComplete` |
| `FailsAtLimits` | `OneLauncher`: `Spec => []FailsOnlyAtLimits` |
| `RehashAsserted` | `OneLauncher`: `Spec => []RehashAssertion` |

The first two hold with any number of launching threads. The others cannot: `handle_race` is the
counterexample. `QuietCorrect` says what exactly has to be excluded: a step that doubles the
table, or gives up, while another context has its slot but not yet its handle
(`QuietExpansion`). Every other interleaving of launches is covered by it. With one launching
thread (`OneLauncher`, the `launcher` service of an ordinary system) that step cannot
occur, which gives the last four.

The names: the array is strictly sorted (`NamesSorted`); an insertion keeps it sorted and so does
a compaction (`KeptNames`, along the entries that `NamesWithout` visits). For the binary
search, what holds between two turns is a lemma (`TurnSearches`): a name that is in the array is
between `begin` and `end`, and the distance shrinks; `SearchEnds` follows its turns to the end.
Both are defined by recursion. The library's induction theorems are out of the prover's reach, so
the module has its own for an interval: a set of naturals has a least element (`Least`), a
set that holds 0 and the successor of each of its members holds the interval (`Induction`), and
a function defined along it exists (`Recursion`). The table: `Types` has the one fact about sizes all others need, that
`slot_size` divides `HANDLE_MASK + 1`, so that handles wrap without changing their slot, and that
doubling sends the contexts of one slot to two different ones. `HInv` adds
- `Distinct`: two threads never launch one context;
- `Window`: a context whose handle is not stored yet is in the slot of that handle;
- `Placed`: every other context in the table is in the slot of the handle it has. This is what a
  doubling in the window breaks, and the reason for `QuietExpansion`;
- `Swept`: what a pass of `skynet_handle_retireall` knows of the slots it has read: while it has
  retired nothing, whatever is still there came, or got its handle, after the pass began;
- `FailsOnlyAtLimits`.

### TimerWheelProofs

For any number and size of the levels, any number of timers and any timeout below half the range,
from `TimerAssumption` (at least two near lists, two lists in a level and one level; a positive
`int` is less than half of a `uint32_t`):

| theorem | statement |
|---|---|
| `TimerInvariant` | `Spec => []TimerInv` |
| `TimersOnTime` | `Spec => []FiresOnTime` |
| `TimersInCells` | `Spec => []InItsCell` |
| `TimersInOrder` | `Spec => []SameTickInOrder` |

`FiresOnTime` speaks of the list that is being dispatched and is far from inductive: that
its timers are due depends on every list they came through. `TimerInv` adds
- `Ahead`: a pending timer expires at most `MaxTime` ticks from now, counted across the wrap.
  Less than half of the range is what makes the comparison of blocks sound: a timer that
  shares a block with the time does not reach over the wrap (`NoWrap`);
- `Linked` and `Listed`: what is in a list is pending and `add_node` would choose that list for
  it now; what is pending is in its list or is being dispatched;
- `Sorted` and `Dispatched`: timers of the same tick are in the same list in the order of their
  additions, and what is dispatched comes before what is still due in that tick;
- `Control`: `timer_shift` comes only when the list that was due is empty, so no timer
  is left behind when the time moves on;
- `Once`: a node is pending once.

The heart is `Stays`: when the time goes from `t` to `t + 1`, a timer that is not in the list that
`timer_shift` moves is in the list that `add_node` would choose at `t + 1`. It follows the three
cases of the code: the time wraps to 0 (then the list 0 of the last level moves), the
near block goes on (nothing moves), or blocks end up to a level `m` (then the list of level `m`
that the new time enters moves, and no timer is left in the blocks below, `NothingLeft`).
`MoveListRebuilds` follows `move_list` node by node along the list, with `Partial` between two
nodes. About `\div` and `%` the solver is given only a few lemmas of its own (`Euclid`, `Quotient`,
`Nested`), since it does not decide products of variables.

### HarborProofs

For any number of nodes, names and operations, from `HarborAssumption` (`Nodes` and `MaxOp` are
natural numbers, `Name` is finite, `NULL` is neither a number nor a name):

| theorem | statement | rests on |
|---|---|---|
| `HarborTypeCorrect` | `Spec => []TypeOK` | `Net` |
| `HarborFullMesh` | `Spec => []FullMesh` | `Net` |
| `HarborDestinationKnown` | `Spec => []DestinationKnown` | `Known`, `CommandFirst`, `Handed` |
| `HarborAnswerComing` | `Spec => []AnswerComing` | `Known`, `Answered` |
| `HarborInOrder` | `Spec => []InOrder` | `Handed`, `Answered`, `Lanes`, `Received` |

`Net` is inductive by itself and has three parts.
- `Types`, sharper than `TypeOK`: the queue of a name holds only messages to that name, the queue
  of a node only messages to that node.
- `Joined`: nodes join in the order of their numbers, W comes first, a node waits for
  those before it, and before it has started neither its services nor its harbor do anything.
- `Links`: for two nodes, the later of which the earlier has to call, the connection is in one of
  seven states: the later node has not joined; the earlier one is still to be told of it (in
  its mailbox, its `connect_queue`, or as a call in flight); opened; asking; waiting, with the
  other end opened; waiting, with the other end greeting; ready at both. `FullMesh` alone is
  far from inductive: that the harbor is told of a connection once depends on where the
  connection was before.

On `Net` rest, each inductive together with those before it:
- `Known`: an address that is anywhere (in the master, a slave, a harbor or on its way) is that of
  a node whose services run;
- `CommandFirst`: as long as a harbor waits for the connection with a node, every address of that
  node in its mailbox comes after the command for the connection. This is the reason why
  `dispatch_name_queue` may put messages in the queue of a node without a look at its `fd`;
- `Handed`: the queue of a node and the connection hold only messages with their
  destination's handle, and the queue is empty once the handshake is over;
- `Answered`: if messages wait for a name, the harbor does not know it, and there is the question
  of the harbor, or the address in its mailbox, or the slave does not know the name
  either and the master is still to be asked, or to answer, or has no address;
- `Lanes`: the messages of one node for another, sent by one name or by handle, on their way through
  five places: the mailbox of the harbor, the queue of the name, the queue of the connection, the
  connection, and what has been received. In each of them their numbers rise, and every number in a
  place is less than every one in a place further back. A message moves one or more places
  forward only when the places it passes are empty of its lane: `Answered` gives this for the
  queue of the name, `Handed` for that of the connection;
- `Received`: the byte of the handshake is never taken for a message.

### Only model-checked

- Liveness (`MessagesDrained`, `RetiredReclaimed`, `Fires`, `WorkIsTaken`, `Shutdown`): it
  needs fairness and ENABLED, which the prover does not reason about.
- That one of two launchers may move a context into a wrong slot is a counterexample
  (`handle_race`); the theorems about the table exclude that step, as said above.

For the ring buffer it is the other way round: `TypeOK` and `NoGarbage` are proved and, as
parts of what the refinement needs, not checked by a run of their own.

## 5. Plan

1. `RWLock` and `Monitor`.
2. `skynet.queue`, then the launcher and `service_mgr` on top of `LuaService`. Abstract
   specifications: a call is answered once or fails once; one instance per unique name.
3. Nodes that go down in `Harbor`; socketchannel; gate and cluster after them. UDP in
   `SocketServer`.
4. In `ServiceDispatch`, the read of `inst->handle` after a launch as a step of its own; an
   abstract life cycle of a service (running, retired, reclaimed) implemented by it.
5. Proofs: mutual exclusion of `RWLock`.
