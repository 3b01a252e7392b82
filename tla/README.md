# A verification of the network engine of CXXProgram

The repository is a small game-server engine in C++ (`engine/`) with test programs
(`unittest/`). Its core is `engine/net`: a TCP server on asio with one io thread per
`context`, length-prefixed messages, and a queue that carries packets to the
application's thread. Around it are clients for redis and mongo, utilities, and programs
that drive the engine and try out what it is built from. This directory holds TLA+ modules
that model these parts, the configurations that TLC checks, and theorems that TLAPS proves.

- [Parts of the system](#parts-of-the-system) and what can go wrong in them
- [Modules](#modules) and how they correspond to the code
- [Runs](#runs), their [bounds](#bounds), and the [fairness](#fairness) they assume
- [Proofs](#proofs), and [what is only model-checked](#only-model-checked)
- [Findings](#findings)
- [What is not modelled](#not-modelled) and the [plan](#plan)

To check: `tlc -config session_output.cfg MCTcpSession.tla` (PROJECT.json names the
module of each configuration), and `tlapm TcpSessionProofs.tla`.

## Parts of the system

Under `engine/`:

| Part | State | Operations | Who calls it | Correct when |
|---|---|---|---|---|
| `net/tcp_session.h` | socket, `send_buffer_`, `cache_buffer_`, `sending_`, `write_mutex_`, receive buffer, parser | `connect`, `async_connect`, `start`, two `send`, `close`; handlers of reads, writes, posts | listener, `server_base`, any thread of the application, its io thread | what is sent arrives in order and completely or the session ends; one write and one read at a time; `on_close` once; no frame forgotten in a buffer |
| `net/tcp_parser.cpp`, `net/buffer_stream.cpp` | the bytes received and not yet cut | `recv_and_decode`; `append`, `offset_read`, `retrieve` | the session's read handler | messages are the frames of the stream however it is cut into reads; the buffer has room |
| `net/server_base.cpp` | `sessions_` under `spin_lock_`, `msg_queue_`, `acceptors_` | `listen`, `connect`, `update`, `send`; `on_connect`, `on_message`, `on_close` | the application; io threads | the registry holds the sessions that are up; packets of a session come in order; the server outlives its sessions |
| `net/tcp_listener.h` | `acceptor_` | `listen`, `do_accept`, `accept_handler`, `close` | `server_base`; io thread 0 | every peer is accepted; an outstanding accept finds its listener alive |
| `net/context.cpp`, `net/context_pool.cpp` | a thread and an `io_context` each; `thread_context_index_` | `next`, `get`, `stop` | listener, `server_base` | a session's handlers run on one thread |
| `net/buffer_pool.h`, `utils/singleton.hpp` | free queues by size; `ins_`, `once_` | `alloc`, the deleter of a `shared_ptr`; `instance` | parser, `server_base::send` | a buffer belongs to those who hold references to it; there is one manager |
| `net/neturl.h` | protocol, host, port, parameters | constructors, `parse`, `encode`, `set`, `reset` | an application | what is encoded is parsed to the same url |
| `utils/snowflake.hpp` | last time, sequence, two node numbers | `init`, `next` | listener and application, through `snowflake_mt` | ids grow, and never repeat |
| `utils/spin_lock.hpp` | a flag | `lock`, `unlock` | session, server | exclusion |
| `utils/lockfree_queue.hpp` | a ring, two counters, two flags | `Enqueue`, `Dequeue`, `Clear` | no one in the engine | a FIFO |
| `utils/cmdline.hpp` | options, errors, rest | `add`, `parse`, `parse_check`, readers | a `main` | every option gets the value of the word that names it |
| `redis/` | `redis_context_`, parameters, reply and position | `connect`, `close`, `ping`, `excute`, `query`; `push`; `get_*` | an application | no context is lost or freed twice; values come in order |
| `mongo/mongo_client.cpp` | pool, instance | `connectToHost`, document operations, destructor | several threads | a client's pool is alive |

Under `unittest/`:

| Part | State | Operations | Correct when |
|---|---|---|---|
| `t_asio/t_asio_client.cpp`, `t_asio_server.cpp` | `count`, robots | loops around `update()`, dispatchers | the traffic neither grows nor dies out |
| `t_asio/thread_pool.hpp` | queue, `tasks_total`, three flags, threads | `push_task`, `submit`, `parallelize_loop`, `wait_for_tasks`, `reset`, destructor, worker | tasks run once, in order; waiting means done |
| `t_asio/t_asio_context.cpp` | contexts, `num`, `last_time` | posting of tasks and handlers, polling in rounds | every handler runs once |
| `t_utils/t_condition.cpp` | `queue_`, `Notify` | `Push`, `Pop`, `disable_notify` | messages are taken once and in order, nobody sleeps over them |
| `t_utils/t_lockfree.cpp` | `count`, `index`, two queues | three programs | what each of them prints or asserts |

How they interact. A `tcp_listener` accepts on the thread of context 0, or the
application calls `server_base::connect`; either way the session is created on a context
that `context_pool::next()` picks, with an id of the snowflake generator. `start()` calls
`server_base::on_connect` on the accepting or connecting thread, and begins to read. From
then on the session's own io thread runs its handlers: reads go through the parser to
`on_message` in buffers of the pool, errors to `close()`, which is always posted, and that
to `on_close`. The three callbacks put packets into `msg_queue_`; the application takes
them out in `update()` and sends from its threads, which append to `send_buffer_` under
`write_mutex_` and post a flush. Session and listener hold the server, the server holds
both: each pending handler keeps its session, and so the server, alive.

What is hard about it: senders race with the io thread over two swapped buffers; the
first read is started on another thread than the later ones; closing is asynchronous and
is asked for from five places; packets of one session come from two threads through a
queue that only orders each thread's own; the server's end comes on the thread of whoever
drops the last reference. In the thread pool, counters and flags are atomics beside a
mutex and two condition variables. `PROJECT.json` lists these hazards with their lines and
the properties that watch them.

## Modules

| Module | Models | Composed with |
|---|---|---|
| `TcpSession` | one session: opener, senders, io thread, kernel | refines `SessionPromise` |
| `SessionPromise` | the abstract specification: up once, down once and for good, a growing prefix delivered while up | |
| `TcpParser` | `recv_and_decode` on a `buffer_stream` | stands behind `RunRead` of `TcpSession` |
| `NetServer` | `server_base`, `tcp_listener`, the contexts, `msg_queue_` and the outside of sessions | its sessions are `TcpSession` without the output side |
| `Lifetime` | who holds server, listener and sessions, and where the server is destroyed | the references behind `NetServer` |
| `BufferPool` | pool buffers and `singleton` | the buffers of `TcpParser`'s messages and of `send` |
| `Snowflake` | generators of ids | stands behind `NewSession` of `NetServer` |
| `LockFreeQueue` | the ring queue | with one producer refines `QueuePromise` |
| `QueuePromise` | the abstract specification: a bounded queue whose `Put` and `Get` are single steps | |
| `Robots` | the client and server test programs | drives what `NetServer` models |
| `ThreadPool` | `BS::thread_pool` | |
| `RedisClient`, `MongoClient` | the two database clients | |
| `Cmdline`, `NetUrl` | the two parsers of text | |
| `MessageQueue`, `LockFreeTest`, `ContextTest` | the test programs of the same subjects | |
| `MCParts` | the parts with no state in common, side by side, without fairness | |
| `MCShared` | `Snowflake`, `LockFreeQueue` and `ContextTest` side by side, with the fairness of each | |
| other `MC...` | instances for TLC | |
| `...Proofs` | lemmas and theorems: one module each for `Snowflake`, `TcpParser`, `TcpSession`, `ThreadPool`, `LockFreeQueue` and `NetServer`; `PartsProofs` for `BufferPool`, `RedisClient`, `MongoClient`, `Cmdline` and `NetUrl`; `UnittestProofs` for `Lifetime` and the test programs | |

**TcpSession.** `ioq` is the queue of handlers that are ready on the session's
`io_context`; the io thread runs the head, whole, as one action (`Run...`), except that
it waits where the code takes `write_mutex_`. A sender's `send(data, length)` is three
steps: take the lock (`SendLock`), append and unlock (`SendAppend`, which writes back the
string that was there when the lock was taken, so that a missing lock would lose frames),
and post (`SendPost`). A frame is the argument of one `send`; the kernel takes the frames
of an `async_write` one by one out of `cache_buffer_` (not out of a copy), so that a swap
under a running write would show. `start()` on another thread is three steps
(`StartOnConnect`, `StartRecvCall`, `StartRecvReturn`), because the session is already
published after the first and the socket is in use during the third. `close()` aborts
what is outstanding: its handlers run later with an error. A session uses one overload of
`send` throughout, as the engine does.

**TcpParser.** The buffer holds positions of the peer's stream instead of bytes, and
`stream[p]` is the number that the four bytes at `p` read as. A length read at a wrong
place, a byte lost or kept twice, gives wrong messages. `recv_and_decode` tests no length:
one below four bytes takes less than itself, and a length of 0 nothing at all, so that an
empty message is handed over for ever. The model does the same, up to `MaxEmpty` messages.

**NetServer.** Each callback is a list of steps in `todo`, on the thread that runs it;
`sessions_` is read when the lock is taken and written back when it is released. The
index of `context_pool::next()` is incremented by two threads without protection, so any
context may be chosen. `Read`, `OnMessage` and `Decoded` are the read handler: bytes come
that complete at least one message, `on_message` is called for each whole frame among them,
and the handler starts the next read, after a parse error too, unless the socket was closed.
A thread runs one handler at a time (`Free`). `msg_queue_` is one FIFO for each enqueueing thread, and
`update()` takes the head of any: that is what moodycamel's queue promises.

**Lifetime.** References instead of data: `ServerHeld` lists every `shared_ptr` to the
server (the application's, the listener's, and each session's that anything still holds),
and the server goes at the end of the action that drops the last one, on the thread of
that action. A handler is two steps, so that what it holds until it returns shows
(`Enters`, `Returns`). One io thread serves all sessions. Writes are left out: their
handlers hold the session exactly as those of reads do.

**BufferPool.** The look at `ins_`, the making of the manager inside `call_once`, the store
to `ins_`, the setting of `once_`, and each step of the deleter are steps of their own, so
that a thread may find `ins_` before `call_once` has returned. The stores are seen in the
order of the code, as x86 shows them: the language promises no order to a reader that takes
no lock, and on another processor a thread might find a manager that is not made yet.
`alloc()` gets a `size_t` as an `int` (`AsInt`); from half the range of an `int` on the size
is negative and the smallest class is chosen. The free queues may give out any buffer they
hold, and may look empty while others use them.

**Snowflake.** Time counts from `TWEPOCH` in the code's milliseconds; each node has a
clock of its own that never goes back (it is a steady clock on top of the start time).
The parts of an id are put side by side by multiplication, as the shifts do.

**LockFreeQueue.** Each access to a counter is a step; the operands of a comparison are
loaded in either order; a slot is `Torn` while it is assigned to; a weak exchange may
fail. The flags, plain `bool`s in the code, are read as if they were atomic. The memory
order is the default one, sequentially consistent, for the counters. `SetEnqueueDone` and
`Clear` have the callers' discipline in their guards (no producer inside; no one inside):
the code has none.

**ThreadPool.** `tasks_mutex` is held across steps only between the test of a wait's
predicate and going to sleep, which is what a condition variable makes atomic only for
those who take the mutex; everything else under the mutex is one step. Counting a task up,
counting it down, setting the flags and notifying are steps without the mutex, as in the
code. `tasks_total` is a `size_t` of `Wrap` values. Wake-ups without a notification are
left out: they only add tests of a predicate. The owner is one thread; tasks may push tasks.

**Robots.** Messages are alike, so that wires and queues are numbers of them. A connection
may be refused, and may break at any time, before the server accepts it too. Each end
learns of a break on its own (`EndTold`); what was on its way may still arrive; and an
answer sent on a broken link goes nowhere.

**RedisClient, MongoClient.** The driver may fail every call. What the code does with a
null pointer ends the program (`r_dead`, `m_state = "dead"`). A redis reply is a text, a list
of texts and nils of any length up to `MaxRows`, a number, nothing or an error; cells are
numbers that fit or do not fit the types they are read as, and a nil that is read as a number
or a string ends the program (`GetNil`). A result may be given a second reply, in which it
goes on where it was. `find()` leaves a cursor behind that reads on with the client which
the operation gives back (`MongoFind`, `DropCursor`).

**Cmdline, NetUrl.** Words and urls are sequences of pieces: marks, and pieces without a
mark in them. The names and values given to `set()` and to the constructors may have marks
in them, as in the code. The loops over words of `parse()` are actions, those over characters are
recursive functions or folds. `ParseMeaning` says what a command line means without a loop.
`parse_check()` adds the option for the help, and `Outcome` says how it leaves the program:
also when `parse()` failed before its loop, or when a line could not be cut.

**MessageQueue, LockFreeTest, ContextTest.** One action for each access that other threads
can see. `excute()` of `t_lockfree.cpp` and `t_asio_context.cpp` runs one of several
methods, the others are commented out there; the modules have all of them, one to a
behaviour. In `ContextTest` the handlers are alike and counted (`Held` adds up those that
are with the children); `make_work_guard` of a
pointer guards the system executor, not the context (`t_asio_context.cpp:98`), so that
`run()` may return there before a task is posted.

**MCParts, MCShared.** `part` says which part a behaviour is of; the other parts keep their
initial states. The state graph is the sum of the parts' graphs, so that each invariant is checked
on the whole graph of its own part. In `MCShared` the fairness of a module is that of its
actions while `part` is its own (a part that was not chosen must stand still).

Each module states, next to the condition or effect it belongs to, the faults it could
have (`LockIgnored` before `Unlocked`, and so on). They are not used by the specification;
replacing the definition by its fault must violate the property that `PROJECT.json` names
for it, which shows that the property is not vacuous.

External, and modelled from how the code uses them: asio (handlers of an `io_context` run
one at a time in the order they became ready; operations complete once; closing aborts
them), the kernel and the peer, moodycamel's queue, `std::mutex` and
`std::condition_variable`, hiredis, mongocxx, the clock.

## Runs

| Run | Question | Distinct states |
|---|---|---|
| `session_output` | is the output side right when two senders, the io thread, the kernel and `close()` race? `InOrder`, `NothingLost`, `OneWrite`, `BufferStable`, `ImplementsPromise` | 1,620,807 |
| `session_events` | reads, failures, close, every way to open: `OneRead`, `CloseOnce`, and what must happen: `Delivered`, `FailureReported` | 165,738 |
| `session_threads` | is the socket used by one thread at a time? `SocketOneThread` (violated, see [Findings](#findings)) | |
| `parser_capacity` | does the buffer have room, with the code's proportions of buffer and read? (violated) | |
| `shared` | do ids grow and stay unique, and does `next` return? `Increasing`, `UniqueIds`, `NextReturns`; is the ring, to its users, a queue with atomic operations, and do producers and values get through? `ImplementsPromise`, `Drained`, `EnqueueReturns`; does every handler of the context programs run that can? `HandlersRun` | 117,549 |
| `snowflake_servers` | are ids unique for servers that do not call `init`? (violated) | |
| `net_server` | do registry and packets agree with the sessions? `SessionsMatch`, `OrderPerSession`; is every peer served, every end reported? `ClientsServed`, `CloseReported` | 434,544 |
| `thread_pool` | are tasks run in order, counted and started, and what is left when a wait returns? `FirstInFirstOut`, `TotalRight`, `WaitLeaves`, `BlocksPartition`, `TaskRuns` | 140,455 |
| `thread_pool_nested` | does `wait_for_tasks` wait for all tasks, those that tasks push included? `WaitsForAll` (violated) | |
| `thread_pool_wait` | is `wait_for_tasks` always woken? `WaiterWoken` (violated) | |
| `parts` | the properties of the ten parts below | 1,556,672 |
| `neturl_values` | does a parameter whose value the grammar allows come back? `ValuesKept` (violated) | |

In `parts`: `Framed`, `BufferIsRest`, `NoMessageWaits` and `ErrorIsFinal` (`TcpParser`: is the
stream cut right in every way of reading it?), `ParseMeaning` and `QuotedLine` (`Cmdline`),
`UrlRoundTrip` (`NetUrl`), `ContextOwned` and `RowsInOrder` (`RedisClient`), `ClientHasPool`
(`MongoClient`), `BufferKept` (`BufferPool`), `MessagesKept` (`MessageQueue`), `OwnersOutlive`
(`Lifetime`), `TrafficConstant` (`Robots`), `TestsRight` (`LockFreeTest`).

### Bounds

- `session_output`: 2 senders, 2 sends each, 1 close, no reads, accepted or
  `async_connect`, either overload; the senders are symmetric. Two frames of one sender
  and two of another give every relation of an append to a write: before, during, after
  its completion, and between the completion and its handler; a third buffer never exists.
- `session_events`: 1 sender, 2 sends, 2 reads, 1 close, four ways to open. The second
  read shows what happens after a first was handled or failed, and one application's
  `close` adds to those that failures post.
- `parts`, `TcpParser`: buffer 6, reads up to 6, streams of 30, frames of 2 to 12, five
  streams, one with a frame `alloc` refuses, two with frames shorter than their length, of
  which one says 0 (`MaxEmpty` is 20: after as many messages no empty one is handed over):
  frames shorter and longer than a read and than the buffer, and every offset of a cut.
  `parser_capacity`: buffer 4, reads up to 16.
- `shared`, `Snowflake`: 2 nodes, 3 threads, 2 calls each, 2 ids in a millisecond, 2
  milliseconds: the sequence runs out at the third call of a node, which waits for the next
  millisecond, and two threads make the lock matter. `LockFreeQueue`: 1 producer, 4 values, 2
  consumers, 2 slots, 1 `Clear`: the ring wraps twice. `ContextTest`: 2 children, 2 tasks of 2
  handlers, rounds of 1 and 4 ticks.
- `net_server`: 2 io threads, 2 sessions, of which one receives two messages, in one read or
  in two, and the other none, accepted or connected: the smallest case with concurrent
  callbacks and an order.
- `thread_pool`: up to 2 workers, resets to 1 or 2, 3 tasks, nested pushes, a loop upwards
  and one downwards, a counter of 16 values: two workers and a third task show a worker
  that is faster than the count, a task that pushes while the owner waits, and tasks left
  over by a reset. `BlocksPartition` quantifies over all loops with indexes to 5, in
  order, and up to 4 blocks. `thread_pool_nested`: 2 workers, 2 tasks, of which one pushes the
  other. `thread_pool_wait`: 1 worker, 1 task.
- `parts`, `Cmdline`: 4 options, 3 words together, 2 calls; ten words of every form and five
  lines, two of which cannot be cut; two calls because options keep their values between
  them. `NetUrl`: seven texts to parse, four names and values of which three have marks in
  them, 4 calls. `RedisClient`: 3 contexts, 2 exchanges, lists of up to 2, cells 0 and 200
  (which fits `uint8` and not `int8`). `MongoClient`: 2 threads, 2 pools of 1 client.
  `BufferPool`: 3 threads, 2 buffers, lengths 63, 64, 65536 and 131072: two classes, none, and
  one that is negative as an `int`, whose values are `Ints` = 2^18 here instead of 2^32 (TLC's
  own numbers end at 2^31); one thread may give a buffer back while a second takes it and a
  third holds another. `MessageQueue`: 2 and 2 threads, 3 messages. `Lifetime`: 2 sessions, 2
  packets, 2 handlers of `close()` each. `Robots`: 2 robots, 1 packet between reports.
  `LockFreeTest`: 2 threads, 2 values each, bulks of 2, 3 increments. `neturl_values` has the
  same constants.

## Fairness

`TcpSession`: weak fairness of the io thread (`io_context::run()` with a work guard,
`context.cpp:4-7`), of the opener, of a sender that is inside `send`, of a running write
(the peer reads, or the operation fails) and of the failure of a read on a broken
connection. Nothing makes a peer send, an application send or close, or a connection
break. `TcpParser`: the loop runs on. `Snowflake`: a thread inside `next()` runs and the
clock ticks. `NetServer`: threads inside a callback go on, posted closes run, reads of
closed sockets are aborted, the parser goes on, the application keeps calling `update()`, and a peer that asks
for a connection is accepted when an accept is outstanding. `LockFreeQueue`: threads
inside the queue run, consumers come back until they are told there is nothing left, and
an exchange that could succeed again and again is not made to fail for ever (strong
fairness: the weak exchange may fail spuriously, and nobody may rely on it always doing
so). `ThreadPool`: each worker runs, and the owner finishes the call it began; it need not
call anything, and a task may or may not push another. The mutex is held only for the two
steps around a sleep, so that weak fairness is enough. `ContextTest`: the main thread and
every child's thread go on. `MCParts` states no fairness, and checks nothing that needs it.

## Proofs

All are proved by TLAPS, for every value of the constants that satisfies the named
assumptions of the modules. The specifications of parts that TLC checks inside `MCParts`
are stated in their proof modules (`RedisSpec`, `MongoSpec`, `BufferSpec`, `CmdlineSpec`, `LifeSpec`,
`RobotsSpec`, `MessageSpec`, `TestSpec`). Four theorems have a hypothesis
beyond that, and it is in their statements: `WithinCapacityHolds` and `UniqueIdsHold`
(below), and `OneProducer` in the two about `LockFreeQueue`.

**TcpSessionProofs** (for any set of senders, any number of calls, every way to open).
`TypeCorrect`: `TypeOK` is inductive. `OneWriteHolds` is not inductive: that no second
write starts depends on `sending_` being set for as long as a write handler is under way
*or waiting in the queue*. The strengthening `WriteInv` says so, and that there is at
most one such handler; `RunFlush` and `RunAppend` start a write only if `sending_` is
false, hence if none is queued, and `RunWritten` only after it took the one handler out
of the queue. `BufferStableHolds` follows: `do_send` swaps only when no write is
outstanding. `InOrderHolds` and `NothingLostHolds` come from `StreamInv`: while the
connection is up, `wire`, the untaken rest of `cache_buffer_` and `send_buffer_` put
together are `sent`. Its step for a sender needs `LockInv` (the string a sender saw under
the lock is still `send_buffer_` when it appends, because `do_send` takes the same lock),
which needs `ApiInv` (no unlocked append in a session that uses `send(data, length)`), and
`HealthInv` (a failed write means the connection broke or was closed). After a failure
nothing leaves the host any more, so what the peer got stays a prefix.

`OneReadHolds` rests on `ReadInv`: there is one turn to read, and it is with the opener,
with the kernel, or with one handler in the queue; `do_recv` is called only by who has it,
and passes it on. `CloseOnceHolds` needs what may happen when: `ConnectInv` says that
before `on_connect` nothing is read, written or sent, and that only a failed connect can
lead to `on_close` without it; `HealthInv` that a socket that is open was never closed;
`LateInv` that after `on_close` at most the one read that had completed is still decoded.
`PromiseKept` is the refinement: `accepted` is `sent`, `delivered` is `wire`, and the
status is read off the events; every step of `TcpSession` is then a step of
`SessionPromise` or leaves these alone. The kernel delivers the next frame (`StreamInv`)
and only while up (`ConnectInv`, `HealthInv`, `WriteInv`); `FrameInv` gives that what is
queued are frames of the senders.
The module begins with the facts about handlers of a kind in a queue, and about a
sequence split over wire and buffers.

**TcpParserProofs** (for every stream, sizes and cut; a length may be any number, also one
below the length field or 0). `ParserInv` adds to `Framed` and
`BufferIsRest` (`FramedHolds`, `BufferIsRestHolds`) that `read_` is 0 between steps
(`retrieve` moved the rest to the front).
`LoopInv` adds that after an error the refused frame stays at the front of the buffer,
which gives `ErrorIsFinalHolds` and `NoMessageWaitsHolds`. `WithinCapacityHolds` has the hypothesis
`MaxRecv <= InitSize`: then doubling once is enough. The code's sizes do not satisfy it.

**SnowflakeProofs** (any nodes, threads and widths). `IdsInv`: only the holder of the lock
is inside `next()` (`Alone`); the number about to be returned is larger than all before
(`Ahead`); every id given was made of its parts (`Made`). With the arithmetic of parts put
side by side (`Digits`, `NumberOrder`, `NumberInjective`) this gives `IncreasingHolds`,
`NotAheadHolds`, and `UniqueIdsHold` under the hypothesis `Distinct` that every node was
initialised, with a pair of numbers no other node has.

**ThreadPoolProofs** (any number of threads, tasks and resets). `PoolInv` has two parts:
`Queued`, that the tasks started and those in the queue, one behind the other, are
numbered from 1, which a worker keeps by taking the head; and `Locked`, that a worker
between its test and its take is the one that holds the mutex and that its test is still
true. They give `FirstInFirstOutHolds` and `NeverFromEmpty` (nobody takes from an empty
queue), which needs that only workers that hold the mutex remove tasks.
`TotalRightHolds` comes from `CountInv`: `tasks_total` is, modulo the width of a `size_t`,
the number of tasks queued (`Len(tasks)`) and in a worker's hands (`Busy`), less those that
`push_task` has queued and not counted yet (`Late`); every worker that joins or leaves one
of the two sets changes a cardinality by one, and `SameRest` is the arithmetic of the
wrap-around. `WaitLeavesHolds`, an action property, needs in addition that the counter
cannot come round to 0 with work left: `MaxTasks`, which bounds the queue, and the number
of threads are below the wrap (`PoolConstants`), as they are in a 64-bit program. It says
what `wait_for_tasks` may leave behind when it returns: as many tasks as were pushed and
not counted yet, whoever pushes them. That this may be more than none, when a task pushes
another, is what `thread_pool_nested` shows.
`BlocksCover` is about `parallelize_loop` alone: for all indexes in order, numbers of blocks and
numbers of threads the blocks are not empty, follow each other, and cover the loop.
`BlocksPartitionHolds` applies it in every reachable pool, where the number of threads is
never 0 (`Manned`).

**LockFreeQueueProofs** (one producer, any number of consumers, any size of the ring, any
number of calls and of `Clear`s). `Fifo` says of the values what the refinement says, and of
the slots that none is assigned before its value was taken. It is not inductive; `QueueInv` says what the
counters and slots mean (`Counted`: the counters are the numbers of values that went in
and came out, and every value that is published and not taken is in its slot), and what
each thread may still rely on of what it loaded earlier. A producer's view (`Producing`)
stays true because consumers only make room. A consumer's (`Consuming`) is weaker: the
value it has read is the right one only *if* `m_dequeue_num` is still what it loaded,
which is just what its compare-exchange tests. That is why reading a slot which is being
overwritten does no harm. `QueueIsFifo` follows, and `QueuePromiseKept`: a value is put in
when `m_enqueue_num` is stored after the assignment and taken by the exchange of
`m_dequeue_num`; all other steps are invisible. With two producers the theorems are false
(see [Findings](#findings)).

**NetServerProofs** (any number of contexts, sessions and reads). `RegInv` says for each
thread which steps of its callback are still to come (the *phase*, read off `todo`), and
from that what may be true of the session it works on. `LockHeld`: a thread about to
insert or erase holds `spin_lock_` and has seen `sessions_` as it is. `Alone`: a session
is started or closed by one thread at a time. `Working`: a session being opened is open and
does not read yet, so nothing can close it meanwhile; one that has told its end is no
longer registered. `Registered`: `sessions_` has the sessions that are up and those
whose `on_close` is under way. `SessionsMatchHolds` follows. `OrdInv` adds the order:
the messages and the end of a session are enqueued by the session's own thread (`HomeWork`),
hence wait in one FIFO (`Kept`); what was dispatched and then what waits is in the order
of the reads, and what follows the end was handed over by the read that was being decoded
when the socket was closed (`Ordered`); of a session
accepted on its own thread "connected" comes first (`ToldFirst`). `OrderPerSessionHolds`
follows. Nothing is said of "connected" of other sessions, because the code orders it with
nothing.

**PartsProofs.** *BufferPool* (any number of threads and buffers, any lengths and any width
of an `int`): `BufferInv`: who
works on a buffer has it (`Using`); a thread that gives a buffer back is alone with it
(`Alone`); every reference belongs to a thread that works on the buffer, and a buffer in a
free queue is empty and without references (`Resting`); `OneManager` is the argument about
`call_once` and the reads of `ins_` beside it. `BufferKeptHolds` follows. *RedisClient* (any
number of contexts, replies of any length, with nils, one after another):
`ContextOwnedHolds`: the current context is one that connected and was not freed
yet; `close()` frees it and forgets it. `RowsInOrderHolds`: what was handed out since a result
got its reply are the values of the reply from where the result was, in order, each value
unchanged where its type has room (`ConvertedRight` is the arithmetic of the conversions).
*MongoClient*: `ClientHasPoolHolds`: clients are lent out only by the current pool, cursors
read with clients that were lent out, and a pool is deleted only by the destructor.
*Cmdline* (any options, words, lines and calls): `ParseMeaningHolds`. `ParseMeaning` is about
the end of a call only; the invariant of the loops, `Loop`, says what it means to be in the
middle: for some set `said` of words that were read for themselves and not as the value of
the word before (`Read`), every option is as the last of them left it or, if none gave it a
value, as it was before the call (`Latest`); `rest()` is the other words in their order
(`Rest`); there are errors exactly if one was not understood (`Faults`); and the word at
`c_i` is not itself a value. Every turn of the loop but one on a word that is no option
obeys one word, or one letter of it: it sets the one option that the word means, or adds an
error (`Obeyed`); that the option is one needs the map of letters to be unambiguous, which
`parse()` tests first. `CutTypes` gives that a line given as one string is cut into words.
`QuotedLineHolds` says that reading undoes quoting: words that are quoted and put behind
each other with blanks between them are cut into these words. It is an instance of
`QuotedIsCut`, for any words, of which the last is not empty (an empty last one is lost).
*NetUrl* (any texts, names, numbers and calls): `UrlRoundTripHolds`: what a url encodes,
with its parameters in any order, another object parses to the same url exactly if no
protocol has `://` in it, no host a `:`, `://` or `?`, and no parameter a `=` or `&`
(`Unmarked`). `UrlTypes` is the invariant: the texts are sequences and the port can be written.
For the other direction, nothing that `parse()` makes has such a mark (`ParsedIsUrl`).
`RowIs` says where each part of the encoded text is, so that the
first `://`, `?` and `:` are the ones `encode()` wrote (`FindHere`); `EncodedIsParsed` puts
the parts together. `ParamsRead` is about the loop over the parameters: `&` toggles like
`=`, which does no harm after `key=value`.
Both round trips argue with *paths*: a text leads from one state of a loop to another
(`Leads`) if some function gives the states in between. There is one path for each text
(`LeadsOnce`), texts put behind each other have their paths put together (`LeadsOn`,
`LeadsThrough`), and the path of each quoted word or parameter is written down.

**UnittestProofs.** *Lifetime* (any number of sessions, packets and closes):
`OwnersOutliveHolds` from `LifeInv`: the server is alive exactly as long as something
holds it (`LivesHeld`); an accept is outstanding only at a listener that listens
(`Accepting`); an open socket is registered or about to be closed (`OpenHeld`), so it
holds the server; and the packet of a closed one is in the queue, where it holds the server
too, or was dispatched (`EndKnown`).
*Robots* (any number): `TrafficConstantHolds`, because each dispatcher takes one message
and sends one while the link is whole, so that each end that knows of it has one going
round, and none is added once it broke; each end is told of that once (`e_told`).
*MessageQueue* (any number of threads): `MessagesKeptHolds` from `MessageInv`, that the
batches popped so far and the queue, put together, are what was pushed (`Taking`), and
that while messages wait and someone sleeps, someone else is awake or about to notify
(`Awake`). *LockFreeTest* (any number of threads, values and items): `TestsRightHolds`;
each of the three programs has its own part of `TestInv`.

Some of these proofs speak of recursive functions (the batches put together, `Joined`; the
pieces of a line, `Cut`; the parameters, `Params`). Induction is out of the prover's reach
as a rule of inference, but not as a fact about numbers: the library's theorem that
`<` on `Nat` is well-founded takes no operator, and gives that every set of numbers that
is not empty has a least one (`LeastNumber`). The proofs therefore say that *some*
function satisfies the recursive equations, extend it step by step (`StepByStep`,
`Recursion`), and the least number where it could differ from the recursive definition
shows that it is the same. For that, `Params` is written as a recursive function in the model.

### Only model-checked

- Everything under fairness (`Delivered`, `FailureReported`, `NextReturns`,
  `ClientsServed`, `CloseReported`, `Drained`, `EnqueueReturns`, `TaskRuns`, `HandlersRun`):
  liveness is out of the prover's reach.
- That `SocketOneThread` and the other violated properties fail: a counterexample is
  TLC's to find.

## Findings

1. `session_threads`: an accepted session's first read is started on the listener's
   thread while its own io thread may already write to, or close, the same socket
   (`tcp_listener.h:140`, against `docs/asio.md:395`).
2. `parser_capacity`: `append` doubles once, and the first read may be four times the
   buffer (`buffer_stream.cpp:26-31`, `tcp_parser.h:13`, `config.h:5`).
3. `snowflake_servers`: no server calls `init`, so that ids of two servers collide
   (`server_base.cpp:12`, against the comment at `snowflake.hpp:29`).
4. `thread_pool_wait`: a worker counts its task down and notifies without the mutex; in
   between the test of `wait_for_tasks` and its sleep the notification is lost and the
   owner sleeps for ever (`thread_pool.hpp:350-352` and `291`, against the comment at
   `thread_pool.hpp:335`).
5. `thread_pool_nested`: a task that pushes another counts it only after the queue was
   unlocked; if it is run and counted down before, `tasks_total` is 0 and `wait_for_tasks`
   returns with the first task running (`thread_pool.hpp:220`, against the doc at
   `thread_pool.hpp:285`).
6. `neturl_values`: `=` in a value, which the grammar allows, turns the parser from the value
   back to the key (`neturl.h:176`, against the grammar at `neturl.h:22-23`).

Seen while modelling. Against a doc, without a run of its own: `parallelize_loop` swaps bounds
in the wrong order and submits blocks for them (`thread_pool.hpp:181-182`), where the `for`
statement it is said to be equivalent to does nothing (`thread_pool.hpp:169`; `Blocks` and the
second loop of `MCThreadPool` have it); `get_tasks_total()` is not at all times the number of
queued and running tasks (`thread_pool.hpp:141`; `TotalRight` says what it is). Contradicting no
statement of the repository: with two producers
`Enqueue` lets both into the ring at once (give `Producer` two elements to see `Fifo`
fail); `Dequeue` may report that everything was dequeued when the last values
were enqueued after it looked; messages may reach `update()` before "connected", and those of
one read after "closeed"; a length of 0 keeps the parser, and with it the io thread, in its
loop for ever; the last
reference to a server may go on its own io thread, which then joins itself (`l_server =
"terminated"` in `Lifetime`); a worker of the pool may miss `notify_all` in the destructor
as the owner misses `notify_one`; a failed redis exchange is logged through the pointer
that `close()` has nulled, and a refused context is never freed; a nil in a redis reply is
read as a text; a redis result that is
used for a second reply begins in its middle; a cursor of `find()` reads with a client that
another thread may have been lent; in `neturl`, `&` toggles between key and
value like `=`; the tasks of `threads_excute` may be posted to contexts whose `run()` has
returned.

## Not modelled

- Within modelled parts: `connect()` of a session that is open or was closed before (the
  engine makes a session for each connection); a session that uses both overloads of
  `send`; a msgid that equals `connected` or
  `closeed`; `next()` after `stop()`, which needs a server that is used while it is
  destroyed; a restart of a snowflake process with the clock set back (nothing is
  persisted); several producers of the ring in the passing runs; `try_lock` (no caller);
  `multi_future`, `synced_stream` and `timer` of `thread_pool.hpp`, which keep no state of
  the pool; getters; `usage()` and the texts of errors.
- `sphysx` (`glut.h`, `Snippet*`): a demonstration of a physics library, numeric and
  library state. `logger`: sets up spdlog once. `tools.hpp`: string and time helpers
  without state. `tinyjson_hpp.back` is not compiled.
- `t_template.cpp`, `t_streambuf.cpp`, `t_redis.cpp`, `t_momgo.cpp`: straight-line programs
  that call a library or a language feature; what they call is modelled where it is the
  engine's. `t_thread.cpp` counts in two threads with a mutex that does nothing, to show
  that this is wrong.
- `docs/`: notes on asio; quoted where the code disagrees.

## Plan

Done: every part of the engine with behaviour of its own, the programs that drive it, and
the proofs above, which cover every safety property of the passing runs. What would add
most next, in this order:

1. A specification of the server for its user (per session: connected, messages, closed)
   that `NetServer` implements for sessions accepted on their own thread.
2. `Lifetime` with two io threads: which of them may be the one that destroys the server.
