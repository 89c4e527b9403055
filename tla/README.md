# xsix in TLA+

This directory is a TLA+ development of xsix, a small C++ library (an actor
runtime, a ring buffer, a blocking queue, a single-threaded TCP server on top of
asio, a logger and a few helpers) with three example programs. The modules model
the library from its source; TLC checks them on small instances, and TLAPS proves
the main results for every instance. `PROJECT.json` ties every definition to the
lines it models, every property to a run, and lists the hazards the properties
are about.

    tlc -config Actor.cfg MCActorCore           # a run (all of them are listed below)
    tlapm ActorCoreProofs.tla                   # a module's proofs

Paths below are relative to the root of the repository.

## 1. Inventory

| Component | State it keeps | Operations | Correct means |
|---|---|---|---|
| Actor, `src/xsix/actor/actor_base.*`, `actor_message.h` | id, atomic tick state, last tick, mailbox under a mutex | `tick`, `ready_tick`, `addmsg`, `handle_all_msg`, setters | messages handled in order, none missed |
| Actor runtime, `actor_core.*` | map id -> actor, thread pool | `register_actor`, `run`, the posted lambda | one tick of an actor at a time, ticks at least an interval apart, every actor keeps ticking |
| Ring buffer, `buffer.hpp` | storage, size, head, tail, full flag | `append` (grows), `write_to`, `peek`, `skip`, `clear`, `retrieve_all_as_string`, two constructors | a queue of bytes |
| Blocking queue, `block_queue.hpp` | deque, mutex, condition | `put`, `take` | first in first out, no lost wake-up |
| TCP server and connection, `network/tcp_server.hpp`, `tcp_connection.hpp` | map id -> connection, next id, acceptor, io_context; per connection a socket and an id | `start`, `loop`, `add_conn`, `remove_conn`, accept, error and read/write handlers | no handler on a destroyed connection, the map owns the live ones, closed ones go away |
| TCP client, `network/tcp_client.hpp` | one connection | `connect`, `loop` | connection ends when its socket does |
| Thread-safe list, `thread_safe_list.hpp` | list and mutex | push, pop, front, size | each call atomic |
| Chat room, `examples/chatroom` | send queue per connection | header/body reads, `do_write`, broadcast | one write at a time, messages whole and in order |
| Echo, `examples/echo` | the socket and a receive buffer at each end | `send`, `async_recv`, `handle_error` | no byte lost or repeated, the exchange goes on, a loss ends both |
| Logger, `log/` | current block, list of retired blocks, mutex; manager's map of loggers | `log`, `flush`, `add_logger`, `remove_logger`, `flush_all_logger`, construction and destruction as globals | blocks written once and in order, and all of them at exit |
| Formatter, `fmt.hpp` | none | `fmt` | each placeholder takes one argument |
| Timer test, `test/timer` | a count, two timers, a strand | `printA`, `printB`, two threads in `run()` | the count is exact when both threads are back |
| Bits, `bits.hpp` | byte array | `set`, `get`, `toggle`, counts | a set of indices |
| Time, `time/` | none | conversions over the system clock | units agree |
| Utilities, `utils/` | none | pure functions | - |
| asio, `3rd/asio` (vendored) | scheduler: operation queue, work count, stop flag, wake-up event, reactor; strand: lock flag and two queues; reactor: operations of each socket | `run`, `poll`, `post`, `stop`, `work_finished`; the strand's `execute`; `start_op`, `perform_io`, close | no lost wake-up, `run` returns when there is no work, one function of a strand at a time |

How the parts meet:

* `ActorCore::run` owns its thread for good. It reads the wall clock once per pass,
  asks every actor in the order of the ids whether it is due, marks and stamps it,
  and posts a lambda to an `asio::thread_pool`. The lambda, in a pool thread,
  writes the same atomic state at both ends of `tick()`. Any thread may call
  `addmsg`.
* A `BlockQueue` is shared by any number of threads.
* `TCPServer::loop` alternates `io_context.poll()`, which runs the completion
  handlers of all connections, with a scan of the map that drops connections whose
  socket is closed. Handlers capture a connection by its raw `this`.
* A `buffer` is used by one thread at a time.
* The actor runtime's pool, the timer test and the network loops all rest on one
  object of asio, the scheduler: threads inside `run()` or `poll()` share a queue of
  operations, in which the reactor is an entry like the others.
* Client and server of the echo example send back what they receive, each by an
  `async_write` from an array on the stack of a function that has returned.
* Loggers are globals that enter the map of another global, the manager. Any thread
  may log and flush.

Hard to test: the interleaving of `run()` with the pool's lambdas and with
`addmsg`; the wake-up protocol of the queue; the order in which operations of
several connections complete relative to their destruction; overlapping writes;
overlapping flushes, failing files and the order of construction of globals; the
wake-ups of asio's scheduler and its count of work; ids that wrap around; a ring
that wraps, is full, and grows; loops that may not end. The full list, line by line,
is `hazards` in `PROJECT.json`.

## 2. Modules

| Module | Models | Theorems |
|---|---|---|
| `ActorBase` | the actor's members and methods, as operators | |
| `ActorCore` | EXTENDS `ActorBase`; registration, `run()`, the lambdas, `addmsg` | `ActorCoreProofs` |
| `ByteQueue` | abstract: a queue of bytes | |
| `Buffer` | `buffer.hpp`, implements `ByteQueue` | `BufferProofs` |
| `Channel` | abstract: a first-in-first-out channel | |
| `BlockQueue` | `block_queue.hpp`, implements `Channel` | `BlockQueueProofs` |
| `TcpServer` | `TCPServer` with its connections and the io_context | `TcpServerProofs` |
| `ChatRoom` | the chat room server, composed with `TcpServer`, which it implements | `ChatRoomProofs` |
| `ChatRoomClient` | `TCPClient` with the chat room's client | `ChatRoomClientProofs` |
| `Echo` | both echo programs over one connection, with asio's reactor between them | |
| `Logger` | `log/`: loggers, manager and their life as globals | `LoggerProofs` |
| `Fmt` | `fmt.hpp`, with a reference definition | |
| `TaskPool` | abstract: functions start in the order they were queued | |
| `Scheduler` | asio's scheduler | |
| `Strand` | EXTENDS `Scheduler`; asio's strand | |
| `SchedulerUsers` | EXTENDS `Strand`; the timer test, `ActorCore`'s pool and the network loops; implements `TaskPool` | `SchedulerProofs` |
| `MCActorCore`, `MCBuffer`, `MCChatRoom`, `MCLogger` | constants and symmetry for TLC; `MCLogger` compares `Fmt` with its reference | |

Variables and actions have the names of the members, locals and methods they stand
for. A definition whose comment begins with "Mutant" is a deliberately wrong
variant of the one below it; `mutants` in `PROJECT.json` says which property
notices it. No specification uses these definitions.

### Actor runtime

Each access to an actor's atomic `m_state` is its own step: `Visit` is
`ready_tick`, `Claim` the store of `STATE_TICKING`, `Stamp` and `Post` the two
calls after it; `StartTask`, `Tick`, `CopyMsgs`, `HandleMsg` (one entry) and
`TickDone` are the lambda. `addmsg` and the copy of the mailbox are one step each
because they are all their mutex protects. The pool starts lambdas in the order
they were posted, in any free thread; that asio's does is `ImplementsPool` of
`SchedulerUsers`.

* `now` may be any value of `Clock`, smaller ones included: `Timestamp::now()` is the
  wall clock, which can be set back.
* `m_last_tick_timestamp` has no initializer, so `Init` picks any value of
  `Garbage`.
* `m_actor_map` is not synchronized and the example registers before `run()`, so
  registration ends when `run()` begins. An actor may be renamed between two
  registrations and then stands in the map twice.
* `times` is a history variable: how often each mailbox entry has been handled.
  `handle_all_msg` copies the mailbox and does not empty it, so an entry is handled
  by every later tick; `NoOvertaking` and `HandledAtNextTick` say what that means
  for order and delivery.

### Ring buffer

A method is one step, except that `append` and the constructor by size are split
at the growth loop of `refix_new_size`: `StartGrow`, one `GrowStep` per iteration,
then `FinishGrow` (`realloc`) or `GrowRefused`, then `Store`. A loop that makes no
progress is then visible as such. `LengthOf` takes the members as arguments because
`realloc` calls `length()` when `m_head` is new and the others are old. Cells never
written, or beyond the allocation, read as `Junk`. `retrieve_all_as_string` stops
at the first `Nul`, as `std::string(const char*)` does, and its callers are assumed
to hold less than the 4096 bytes of its array. Arguments the methods reject at once
(null pointers, a size of zero, and in `append` a negative one) change nothing and
are left out. `write_to`, `peek` and `skip` do not look for negative sizes; callers
are assumed to pass none. `get_debug_text` only formats.

`ByteQueue` sees a call as one step with the call's name, size and bytes, which
`Buffer` records in the history variable `out` when the call returns. Each name has
one effect on the queue: only `write_to`, `skip` and `clear` take bytes away, and
`append` adds exactly the bytes it was given or, refused, none. While an append is under
way `out` is `Silent`, and then no step may change the queue, so a growth that
loses bytes or a `Store` that forgets the full flag is no step of `ByteQueue`.
`made` is a second history variable, the constructor that was called:
`ImplementsByteQueue` and `RefusesOnlyBeyondMax` speak of buffers built by size, since one
built from a string counts storage that it does not have (section 5).

`Spec` lets `append` grow whenever the code does. `OrderlySpec` is the same
without growth while unread bytes start behind cell 0 and do not fill the
storage, the one case in which `realloc` is wrong (section 5).

### Blocking queue

Every line of `put` and `take` that touches shared state is a step. The condition
variable has its standard contract: `wait` releases the mutex and blocks in one
step, `notify_one` wakes any one waiter, and a waiter may wake without a reason.
`taken` is a history variable. `size()` and `empty()` change nothing and `put` and `take`
do not use them; `empty()` reads the deque without the mutex, a data race for whoever
calls it, which nobody in the repository does.

### TCP server

One thread runs everything; what varies is when operations complete and how.
Per connection `waiting`, `done` and `failed` count operations under way, completed
well and completed with an error whose handler has not run. `poll()` ends
(`EndPoll`) only when no handler is ready. `close()` turns a connection's waiting
operations into failed ones. `SuccessHandler` is any handler that, like those of the
examples, begins operations on connections of the map: the next read, an answer, or
writes to all when it broadcasts. `add_conn` gives out ids from a counter that wraps
(`IdSpace`, standing for the range of `int32_t`) and turns a connection away while
its id is still in the map. The connection then dies at the end of the accept
handler with its first read just begun; `NoOrphanHandler` excludes exactly these.
`m_quit` is left out because `stop()`, the constructor and `loop()` all store `false`.

### Chat room

`ChatRoom` uses the loop and the accept chain of `TcpServer` through
`Server == INSTANCE TcpServer`, in which the numbers of waiting, completed and
failed operations are counted from the chat room's own reads (`rd`) and writes
(`wr`). Its handlers are written from `chat_room_server.cc`: `HeaderHandler`,
`BodyHandler` (with `broadcast` and `send_msg_to_client`), `WriteHandler` and the two
error handlers. That they stay within what `TcpServer` allows a derived connection
is not built in but checked and proved (`ImplementsServer`); with it the results about
`TcpServer` hold of the chat room.

* A message is a number, different for each message, so that order and repetition
  can be told.
* `ReadCutShort`: `async_read_some` may deliver part of a header or body. From then on
  the reads of that connection are out of step and the server broadcasts `Junk`.
* `Write`: `do_write` hands `async_write` the memory of a local vector. What the socket
  does not take at once is read after the vector is gone, so a frame may go out as
  `Junk`.
* `log`, `joined` and `wire` are history variables: what was broadcast, since when a
  member has been listening, and what went out to it.

`ChatRoomClient` is the same protocol from the other side, with one connection, under
`TCPClient::loop`, which tests the socket before each `poll()`. If
`async_connect` could not open the socket, `loop()` returns before the error's
handler runs; `QuietAtReturn` names this exception.

### Echo

`send` and `async_recv` are the same in both programs, so one set of operators serves
both ends. What becomes of the bytes of an `async_write` depends on when asio takes
them from the array, so the socket is modelled as the epoll reactor works it:
`async_write_some` is `start_op` (tried at once if no other write waits and the last
attempt was not cut short, otherwise queued), `perform` is one `send` call of the
kernel, which takes what fits, `perform_io` works off the queue when an event is
handled and runs the first completion at once, and `WriteHandler` is the loop of
`async_write`. A byte that is taken after `send` has returned has the value `Dead`.

* `room` is what the kernel holds of each direction, chosen at the start.
* `Event` is `epoll_wait` reporting a socket. Events nobody waits for are left out.
* `Break` loses the connection at any time; reads may still find what had arrived.
* The connection exists and `start()` has not run yet in `Init`; accepting, the map and
  `async_connect` are in `TcpServer` and `ChatRoomClient`.

### Logger and formatter

What happens under a logger's mutex is one step: `Log`, `BeginFlush` (the swap) and
`FlushWrite` (the loop of `fwrite` and `clear`). `Opened` and `NotOpened` are `fopen`
between the two. `FlushWrite` picks the positions of the list whose blocks reach the
file (`SomePositions`), any of them, since no result of `fwrite` or `fclose` is looked at.

* A block is a number. Its contents are left out because they never change: `log`
  copies every line to `end()`. `behind` records the block each line went behind, and
  `HeapDamaged` lets the program crash from then on.
* `get_curr_cache_block_usable_size` is an int, -1, converted to a `size_t` of
  `SizeBits` bits.
* `phase` is the life of a program that uses the macros. A logger constructed before
  the manager crashes the program; nothing in the repository fixes the order.
* The map has no mutex, so `remove_logger` is called while nobody walks it.

`Fmt` is the recursion of the two templates over the arguments. `v2s` is `snprintf` and
is taken as done. `FmtCorrect` compares it with `Substituted`, which says what a format
asks for, for formats without a doubled `%`.

### Scheduler, strand and their users

What happens under the scheduler's mutex is one step. `pthread_cond_signal`, which asio
calls after the unlock, is a step of its own (`Signal`), and a thread can wake
without a reason. A thread back from the reactor, or awake with the mutex, goes on at
the head of the loop of `do_run_one`: `AtLoop`, `QueueAt` and `InterruptedAt` are
what it finds there. `owed` is the number of `work_finished()` calls a thread has
still to make for its operation. `TakeOp` serves `do_run_one` and `do_poll_one`.

`Strand` keeps the flag and the two queues; `StrandHasOneHolder` is what makes it
safe that `ready_queue_` has no mutex.

`SchedulerUsers` has three programs, one of which `Init` chooses. In "timers" and "poll"
a reactor run returns all timers that have expired; in "poll" a timer stands for an
operation of a socket. The count of work begins with what the constructors have made:
a wait on a timer and the executor its handler carries. Time is left out. The
per-socket operations of the reactor, which are not work by themselves, are in
`Echo`. `restart()`, `run_one`, `wait_one` and the one-thread optimisation have no user
here and are left out.

## 3. Runs

| Run | Config | Checks | Shows |
|---|---|---|---|
| actor | `Actor.cfg` | `TypeOK`, `OneTickPerActor`, `NoOvertaking`, `TickSpacing`, `HandledAtNextTick` | 2 actors with intervals 1 and 2, 2 pool threads, 2 ids, 2 messages |
| buffer_queue | `BufferQueue.cfg` | `TypeOK`, `ImplementsByteQueue`, `GrowthReturns`, `RefusesOnlyBeyondMax`, `LengthsAddUp` | buffers built by size are byte queues; the count of bytes of every buffer |
| buffer_from_string | `BufferFromString.cfg` | `AppendAddsBytes` (violated) | section 5 |
| buffer_growth | `BufferGrowth.cfg` | `GrowthKeepsUnread` (violated) | section 5 |
| block_queue | `BlockQueue.cfg` | `TypeOK`, `EveryElemHasATaker`, `ImplementsChannel`, `TakeReturns` | 2 producers, 3 consumers, 3 puts |
| tcp_server | `TcpServer.cfg` | `NoOrphanHandler`, `MapOwnsConnections`, `ClosedIsDropped` | 4 connections sharing 2 ids |
| chat_room_safety | `ChatRoomSafety.cfg` | `WritingWhileQueued`, `SameConversation`, `ImplementsServer` | 2 members, 2 messages |
| chat_room_liveness | `ChatRoomLive.cfg` | `SpokenInOrder`, `EverythingGoesOut` | connections that follow each other under one id, 2 messages |
| chat_client | `ChatRoomClient.cfg` | `WritingWhileQueued`, `SaidInOrder`, `QuietAtReturn`, `ErrorEndsLoop` | 3 messages from the server |
| echo | `Echo.cfg` | `MessageGoesRound`, `PingPong`, `LossEndsBoth` | a message of 3 bytes, socket buffers of 1 to 3 |
| logger | `Logger.cfg` | `EveryLineGoesBehind`, `RetiredInOrderOnce`, `FmtSubstitutes`, `ExitWritesAll` | 2 loggers of one or two names, 2 threads; every format of up to 4 characters |
| scheduler | `Scheduler.cfg` | `StrandHasOneHolder`, `QueuedOpIsSeen`, `ReturnsWhenDone`, `CountIsExact`, `HandlersGetDone`, `ImplementsPool` | 2 threads in `run()` and one that posts; 2 timers, a limit of 2, 3 lambdas |

In `tcp_server`, `chat_room_safety`, `chat_client`, `echo`, `logger` and `scheduler` the
types are a conjunct of one of the invariants.

Bounds, and why they are enough to meet the interesting cases:

* Actors: two actors and two threads are what it takes for a double tick, for two
  actors in the pool at once, and for one id to be refused. Two ids let one
  actor be in the map twice. The clock has three values in any order, so it can stand
  still, advance by either interval and be set back. Two messages of one actor are one
  added before and one during a tick; the other actor has none and only competes. The
  timestamps' garbage is below or above the first reading.
* Buffer: SMALL, RAW and MAX are 1, 2 and 6. The loop's doubling, its steps of RAW
  and the maximum are all reached, rings of each size wrap at each position,
  and appends of up to 3 bytes straddle the end. Sizes asked for are 1 and 3: one at a
  time, or more than there may be. Strings that buffers are built from have up to 2
  characters, enough for the one that is lost and one that is not; up to 4 in
  `buffer_from_string`, where storage must fall short. Two bytes suffice, one of them
  `Nul`, since the code looks at bytes only to end a string. `RefusesOnlyBeyondMax`
  depends on the sizes lining up: 1, 2, 4, 6 here, 64, 128, ..., 1024, 2048, ...,
  2^20 in the code.
* Blocking queue: three consumers are one to be notified, one that takes the
  element first and one that stays blocked.
* Server: four connections over two ids, of which three are accepted, make ids wrap,
  be used again and clash. Two operations per connection are a read and a write.
* Chat room: with three connection objects one is always waiting in accept, so two are
  members, and both may speak. Two messages are enough for a queue of two. The safety
  run uses that connections are interchangeable (`ConnSymmetry`). The liveness run has
  one id, so that a connection is turned away or follows another under its id.
  Deadlock is not checked for the client, which ends when `loop()` returns.
* Echo: a message of 3 bytes read by pieces of at most 2 falls apart into writes that
  overlap; buffers of 1 to 3 bytes in each direction, in all combinations, are
  too small for it or just large enough. Deadlock is not checked: a lost connection
  ends both programs.
* Logger: two threads in flushes of one logger with the swap of one between the swap and
  the write of the other; one line and one flush per logger in addition to the exit's
  (threads may overlap at the bound). `SizeBits` is 3, so that the converted -1 is larger
  than any line. The exit ends in a state without steps, so deadlock is not checked.
* Scheduler: two threads are one in the reactor and one asleep or in a handler; two
  timers contend for the strand; three lambdas leave one in the queue while both
  threads are busy. The timer test's limit of 10 is 2, each timer being able to make the
  last count. Deadlock is not checked: the timer test ends.

Fairness:

* `ActorCore`: weak fairness of the run loop, which never waits, and of each pool
  thread. `SF` on a reading of the clock at `Horizon` or later says that time passes,
  however often the clock is set back. Nothing is assumed of callers of `addmsg`.
* `Buffer`: weak fairness of `Proceed`, a call under way. `GrowthReturns` is
  restricted to loops with `tmp > 0`; section 5 has the other case.
* `BlockQueue`: weak fairness for each thread inside a call; none for beginning a
  call or for spurious wake-ups. Somebody's `take` returns; which consumer gets the
  element is up to the mutex, which promises no fairness.
* `TcpServer`: weak fairness of handlers and of the loop. `ClosedIsDropped` has the
  premise that `poll()` returns again and again: with connections that always have
  something ready, `poll()` never returns and nothing is dropped.
* `ChatRoom`: weak fairness of the loop and of each connection's write handlers, which
  the io_context runs in turn. Strong fairness of the end of a write (enabled only
  inside `poll()`) is an assumption about clients: they read or go away.
* `ChatRoomClient`: weak fairness of its one thread.
* `Echo`: weak fairness of each end's handlers and start, and of the report of an event
  that stays true. Nothing makes the connection break; `PingPong` speaks of
  behaviours in which it never does.
* `Logger`: weak fairness of a flush under way and of the destruction of the globals.
  Nobody need log, flush or leave `main`.
* `SchedulerUsers`: weak fairness of each thread and of each timer's expiry; none for
  posting or for spurious wake-ups.

## 4. Proofs

Assumptions are the named `ASSUME`s of the modules. They give constants their types
and keep null values apart. Two say more: in `ChatRoom` the bound `MaxOps` leaves room
for a read and a write at a time (the chat room needs no more, which is what the proof
shows), and in `Logger` a line is shorter than the largest `size_t`, as everything in
memory is. `SchedulerUsers` assumes a thread in `run()`, a finite number of timers, at
least one, and that what can be queued is told apart (`UsersAssumption`). No number of actors, threads, connections, messages or bytes is fixed.

Invariants that a proof needs and no run names were checked with TLC on the
instances of section 3 before they were proved.

* `ActorCoreProofs`. `TypeCorrect`: `TypeOK` is inductive once it
  knows that the keys still to visit are in the map. `MutualExclusion`
  (`OneTickPerActor`): it needs `ExclusionInv`, which adds that an actor that is
  claimed, queued or running is in `STATE_TICKING`, with the one exception that
  `run()` between `Visit` and `Claim` has found its actor ready and in none of these
  places. Only `run()` takes an actor out of ready and only the lambda that holds it
  puts it back. `Spacing` (`TickSpacing`) follows from the invariant that an actor
  about to be stamped is due at `now`. `InOrder` (`NoOvertaking`): `MailboxInv`
  adds that a worker's `msglist` is a prefix of its actor's mailbox and
  that during a tick the entries before `pos` are one handling ahead of the
  rest, which needs `MutualExclusion`.
* `BlockQueueProofs`. `QueueTypeCorrect` and `QueueRefinesChannel` rest on `QueueInv`:
  a thread past its lock holds the mutex, a consumer about to read `front()` has a
  queue that is not empty, and one about to pop holds its head. `NoLostWakeup`
  (`EveryElemHasATaker`) adds, in `WakeupInv`, that a consumer about to block sees
  an empty queue, and counts takers and notifiers with the cardinality theorems.
* `BufferProofs`. `BufferTypeCorrect`, of the unrestricted `Spec`: `TypeOK` with
  `Phase`, which says what holds at each point of a call (growth aims beyond the
  present size, `Store` finds storage). `m_full => m_head = m_tail` is part of it,
  so even a growth that miscounts leaves the positions inside the storage.
  `LengthsAreExact` (`LengthsAddUp`), of `OrderlySpec`, rests on `LengthInv`: growth
  begins only where `realloc` is right, and there is room for what is about to be stored.
  `BufferRefinesQueue` (`ImplementsByteQueue`): in `OrderlySpec` a buffer built by size
  implements `ByteQueue`: every call has its own effect on the unread bytes and growing
  has none. The invariant is `BufferInv`: every buffer keeps `TypeInv`, and one not built
  from a string keeps `RingInv`, which adds that the storage is complete,
  that growth begins only where `realloc` is right, and that the room for a pending
  `Store` is there. `Wrap` replaces `%` by a subtraction, which the arithmetic of
  the provers can handle; the lemmas show that storing misses the unread cells
  (`StoreMissesUnread`, `StoreIsPut`), consuming drops the front (`ConsumeIsDrop`)
  and growing keeps the contents (`GrowKeeps`).
  `RefusesNothingThatFits` (`RefusesOnlyBeyondMax`), of the unrestricted `Spec`:
  it is true only of sizes that line up, so the theorem takes any set of sizes
  that the growth loop stays in up to `BUFFER_SIZE_MAX` (`LineUp`);
  `CodeRefusesNothingThatFits` shows that 64, 1024 and 1024 * 1024 have such a set.
* `TcpServerProofs`. `HandlersFindTheirConnection` (`NoOrphanHandler`) and `MapIsExact`
  (`MapOwnsConnections`) rest on `ServerInv`. That no dropped connection has a handler
  left follows from three of its parts: a closed socket has nothing waiting
  (`ClosedNotWaiting`), outside `poll()` nothing is completed and not handled
  (`PollDrained`), and the scan only notes closed connections of the map
  (`ScanFindsMapped`). The rest says who owns an object, an id and an open socket.
* `ChatRoomProofs`. `RoomImplementsServer` (`ImplementsServer`) is the refinement of
  `TcpServer`: a completed read or write is `OperationSucceeds` or `OperationFails`, a
  header, body or write handler is a `SuccessHandler` that begins as many operations as
  the handler does, an error handler is `ErrorHandler`, and `Say` is a stutter. It is
  proved together with `ChatInv` (of which `WritingWhileQueued` is a part:
  `RoomWritesOneByOne`), because each needs the other. That a member has one write at
  most makes the operations countable, and `ServerInv`, taken over from
  `TcpServerProofs` through the mapping, makes a connection with a handler a member
  of the map. `RoomHandlersFindTheirConnection` is what follows for the chat room.
  `OneConversation` (`SameConversation`): `InConversation` says that the queue of a
  connection is the piece of `log` behind what it has sent, and reaches to its end as
  long as the connection is in the map. `GuestsSpeakInOrder` (`SpokenInOrder`):
  `AllInOrder` says that a stream is ordered and behind everything broadcast under the
  ids it may still speak as, which for a connection being accepted are all free ids. It is
  kept because ids are freed only outside `poll()`, when the connection being accepted
  has not been sent anything.
* `ChatRoomClientProofs`. `ClientWritesOneByOne`, `ClientSaysInOrder` and
  `ClientReturnsQuiet` (`WritingWhileQueued`, `SaidInOrder`, `QuietAtReturn`) rest on
  `ClientInv`: the queue is a run of consecutive messages up to the last one composed, what
  went out is the run before it, a connect comes before all else, and no handler is
  ready when `loop()` tests the socket.
* `LoggerProofs`. `LinesGoBehind` (`EveryLineGoesBehind`): the size that `log` compares
  with is the largest value of the type, for any `SizeBits`. `BlocksRetireInOrder`
  (`RetiredInOrderOnce`): each logger's blocks up to the current one are in its file, in
  its list or lost, in increasing order; that it stays so when a flush writes any
  choice of the list is a lemma about `SomePositions`. Loggers may share a file.
* `SchedulerProofs`, of `SchedulerUsers` with all three programs. Everything rests on
  `SchedulerInv` (`SchedulerInvariant`), whose parts are
  `OnePlace`: the reactor's entry, each timer, the write, the invoker and each lambda is
  armed, queued, in one of the strand's queues or in the hand of one thread, and there
  once; `ThreadsOK`: what a thread completes and owes goes with where it stands;
  `ProgramOK`: the strand is locked exactly while the invoker is somewhere;
  `WorkCounted`: `outstanding_work_` is the sum, by cardinalities, of what nobody has
  taken yet and of what threads owe; `StopsWithoutWork` and `CountOK`; and `WakeOK`:
  whatever is queued has a thread in `run()` awake, or a signal on its way to a sleeper,
  a thread that blocks with `task_interrupted_` set has been interrupted, and nobody
  waits on a clear event while something is queued.
  `StrandExcludes` (`StrandHasOneHolder`) is `OnePlace` read for the invoker;
  `NoLostWakeup` (`QueuedOpIsSeen`) is `WakeOK`; `CountsExactly` (`CountIsExact`) needs
  that below the limit no timer is lost. `ReturnsOnlyWhenDone` (`ReturnsWhenDone`)
  follows for `run()` from the count of work being 0; `poll()` may return with work
  left, and needs `PollsDry`, that the one thread that has returned from it left nothing
  but the reactor's entry. `SchedulerRefinesPool` (`ImplementsPool`): `OpsOf` takes
  the reactor's entry out of the queue; the lemmas about it say what appending,
  taking the first entry and `task_cleanup` do to the rest. `TakeOp` is `Start`, the last
  `work_finished` of an operation is `Finish`, posting and putting back are `Submit`,
  and all other steps stutter.

Only model-checked:

* the liveness properties (`HandledAtNextTick`, `GrowthReturns`, `TakeReturns`,
  `ClosedIsDropped`, `EverythingGoesOut`, `ErrorEndsLoop`, `PingPong`, `LossEndsBoth`,
  `ExitWritesAll`, `HandlersGetDone`): the prover has no rules for fairness;
* `FmtSubstitutes`: `Fmt` is defined by recursion, over which the provers cannot do
  induction;
* `MessageGoesRound` of `Echo`: the bytes under way are spread over sequences of
  sequences, which `FlattenSeq` and `FoldLeft` put together; what these compute for every
  length is an induction over data as well.

## 5. What the checks found

Two properties that the repository's own test states are violated, in
`src/xsix/buffer.hpp`:

* *Growth can lose or invent bytes* (`buffer_growth`). `realloc` sets `m_head = 0`
  (line 345) before `m_tail = length()` (line 346). If the unread bytes start at
  head > 0 and the buffer is not full, the length is computed from the new head
  and the old tail. `test/buffer/buffer_test.cc` grows only a full buffer, where
  `length()` does not use the head.
* *A buffer built from a string takes appended bytes without storage for them*
  (`buffer_from_string`). `copy_from` allocates `len` bytes and sets `m_size` to one and
  a half times as much (lines 381 and 383), and until the buffer grows `append`
  writes behind the allocation. `test/buffer/buffer_test.cc` lines 61 and 62 append to
  such a buffer and expect the bytes back, and append's diagrams (lines 146 to 154) call
  those cells free. The model lets them hold `Junk`; the real outcome depends on what
  the allocator has put there.

Defects that a passing property names as its exact exception:

* a buffer built from a one-character string is empty, because `m_tail` has been reduced
  modulo `m_size` before `m_full = (m_tail == m_size)` (`buffer.hpp` line 387;
  `LengthsAddUp`);
* no line that is logged ever reaches a file: the usable size of a block is always the
  largest `size_t`, and `log` copies to `end()` (`logger.cc` lines 41 to 51 and 89;
  `EveryLineGoesBehind`);
* an echoed byte that the kernel does not take at once is sent from an array that is gone,
  and may be overtaken (`echo_server.cc` lines 48 to 50; `MessageGoesRound` promises
  order and values only where the kernel has room for the message).

Behaviour the models exhibit and no line of the repository contradicts:

* the growth loop does not end when it starts from 0 and more than
  `BUFFER_SIZE_SMALL` bytes are wanted (`buffer(65)`, or a large append to a buffer
  built from an empty string);
* a message is handled again by every later tick of its actor;
* the first tick of an actor depends on an uninitialized timestamp;
* a failed accept is the last one;
* `TCPServer::stop()` does not stop the server;
* a chat message that arrives in pieces shifts the framing of its connection for good,
  and a frame that the socket does not take at once is sent from memory that has been
  given back;
* a client whose socket cannot be opened returns from `loop()` without a report;
* a logger constructed before the manager crashes the program, and a failed `fwrite`
  loses its block without a report;
* `fmt` overwrites the `%` of a pair with what follows, and with no argument left takes
  the second half of a pair for a placeholder;
* `poll()` on a context without work stops it for good, as nobody calls `restart()`.

## 6. Plan

Done: the models of the actor runtime, the ring buffer, the blocking queue, the server,
the chat room and its client, the echo programs, the logger with its formatter, and the
parts of asio the others rest on, with the proofs above. Every safety property of a
passing run is now a theorem, but for the two that section 4 names. What is left:

1. `Echo`: `MessageGoesRound`. Its inductive invariant has to place every byte of the
   message in exactly one of the kernel's buffers, the receive buffers and the writes,
   by position instead of by flattening.
2. Liveness, when the prover has rules for fairness; `TakeReturns` and
   `HandlersGetDone` would start from `WakeupInv` and `WakeOK`.

## 7. Not modelled

* `bits.hpp` and `utils/`: straight-line functions that no program of the repository
  includes. There is nothing in them that interleaves or fails, and a unit test
  exhausts them.
* `time/`: conversions between units. Readings of the clock enter `ActorCore` as any
  values in any order. Not checked is
  that `localtime` returns one static struct for all threads: `log` calls it outside the
  mutex, so a line may carry the time of another thread's call.
* `common_define.h` and `noncopyable.h`: no state.
* Edges that the models leave out of parts they have:
  * `ready_tick` subtracts two `int64_t`; the model's integers do not overflow, so an
    uninitialized timestamp near the ends of the range is not covered. The lambda's
    `if (actor_ptr)` has no counterpart, since no actor is ever unregistered.
  * `m_next_conn_id` wraps to negative values in the code and would reach -1, which a
    connection without an id has; the model's ids wrap among themselves.
  * `local_endpoint()` and `remote_endpoint()` throw on a socket that is gone by the time
    a handler formats its log line; the models' handlers do not throw.
  * A kernel may accept one more send after the peer has closed its end; in `Echo` a send
    on a broken connection fails. The error then comes with the next operation.
  * Two loggers of one file hold different mutexes, so their `fwrite`s may interleave
    block by block; `FlushWrite` writes a whole list in one step. Order is a property of
    each logger's own blocks.
* The rest of asio: name resolution, other protocols, other platforms' back ends, SSL,
  coroutines, and the interface templates in front of the parts named above. The repository
  uses none of it, or uses it for its type only.
* The wording of logs and debug texts.
