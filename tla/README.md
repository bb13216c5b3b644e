# A TLA+ development of Muduo_C11

Muduo_C11 is a C++20 network library in the manner of muduo: one event loop per
thread, non-blocking sockets, callbacks, an asynchronous logger. The modules
here model its core, TLC checks them on small instances, and TLAPS proves the
main safety results for every value of the constants. Every definition is taken
from the code; `PROJECT.json` maps it to the lines it stands for.

## 1. The system

### Components

| Component | State | Operations | What makes it correct |
|---|---|---|---|
| **EventLoop** (`src/src/net/EventLoop.cpp`) | `quit_`, `callable_`, `functors_` under `mutex_`, the eventfd `wakeupFd_`, the active channels | `start`, `quit`, `RunInLoop`, `QueueInLoop`, `wakeup`, `DoCallback` | a queued functor runs once, in order, in the loop's thread, without waiting for the poll timeout; `quit` ends the loop |
| **Channel** (`Channel.cpp`) | mask `events_`, `revents_`, registration state `state_`, callbacks, `tie_` | enable/disable, `remove`, `HandleEvent` | the mask and the state agree with the poller |
| **Poller** (`Poller.cpp`) | the map `channels_`, the epoll instance, the event list | `UpdateChannel`, `RemoveChannel`, `poll`, `update` | map, channel and kernel agree; `epoll_ctl` never fails fatally |
| **TimerQueue, Timer, Timestamp** | the set `timers_`, the timerfd, `CancelTimers_` | `AddTimer`, `cancel`, `HandleRead`, `reset` | no timer is lost or left without a wakeup, a cancel holds |
| **Buffer** (`Buffer.cpp`) | a vector and two indices | `append`, `ReadFromFd`, `retrieve...`, `MakeSpace` | a queue of bytes; `0 <= reader <= writer <= size` |
| **TcpConnection** (`TcpConnection.cpp`) | `state_`, channel, output buffer | `send`, `shutdown`, `ConnectEstablished`, `ConnectDestoryed`, the handlers | the stream is in order, shutdown flushes, the end is reported once |
| **TcpServer, Acceptor** | the map of connections, the listening socket | `NewConnection`, `RemoveConnection`, destructor | each connection is established and destroyed once in its own loop |
| **EventLoopThread, -Pool, Thread** | threads, `loop_` under `mutex_`, the round-robin index | `start`, `StartLoop`, `GetNextLoop`, destructors | loops come up, are handed out evenly, go down; no dangling pointer |
| **AsyncLogger** (`base/AsyncLogger.cpp`) | two spare buffers, full buffers, a backend thread | `append`, `start`, `stop`, the backend loop | no message is lost, repeated or reordered; never out of buffers |
| **LogFile** (`base/LogFile.cpp`) | the stream, the name and the day of its file, a count of appends | `append`, `flush`, `RollFile` | the files in their order hold the log; a file is changed when it is too large and when a day begins |
| **Logger, LogStream** | a line in a buffer of fixed size | the `operator<<`s, `convert`, the destructor that hands the line over | digits are right, nothing is written beyond the buffer, a line keeps its line feed |
| **ThreadSafeQueue** (`base/ThreadSafeQueue.ipp`) | a linked list with a lock for each end and one condition variable | `push`, `WaitPop`, `empty`, `NotifyAll` | a pop finds a node; no wakeup is lost |
| **MysqlPool, Mysql** | the queue of idle connections, `runing_` | `GetConnection`, `ReturnConnection`, `close`, `query`, `update`, `exec`, destructors | a connection has one user at a time and is returned |
| **HTTP** (`net/http`) | an `HttpRequest` for each read, the input buffer behind it | `parse`, `OnMessage`, `OnRequest`, `response` | requests are handed over in order and answered once, 400 has a cause |
| **Signals**, Socket, Address | | forward to system calls | |

### How they interact

A `TcpServer` accepts in its base loop and hands each connection to a loop of
the pool. Everything that concerns a connection then happens in that loop:
epoll reports descriptors, the loop calls `HandleEvent` of their channels, and
these call the handlers of the connection, the acceptor, the timer queue or the
eventfd. A connection that closes calls back into its server, which erases it in
the base loop and queues `ConnectDestoryed` into the connection's own loop. An
`HttpServer` is the user of such connections, and the user's threads share a
`Mysql`. A `Logger` formats a line and hands it to the `AsyncLogger`, whose
backend thread writes it to a `LogFile`. Other threads never touch this state; they queue functors
(`RunInLoop`, `QueueInLoop`) and write to the eventfd. Exceptions to that rule
are where the difficulties lie: `state_` of a connection, `quit_`,
`functors_.empty()` and `loop_` are read or written by two threads without the
lock.

### What is hard

Interleavings of callers with a loop that is going to sleep; calls before
`start()`; functors queued by functors; descriptors that are closed and reused;
partial writes and `EAGAIN` while other threads send and shut down; FIN and
reset at any time; destructors that race with the threads they end, and connections that close
while their server is destroyed; a queue with two locks and one condition
variable; statements that throw; requests cut into reads at every place; files
that are changed between two appends; indices and sizes at their limits; a clock
that goes back. `PROJECT.json` lists these
hazards with their lines.

## 2. Modules

| Module | Models | Uses |
|---|---|---|
| `SerialExecutor` | abstract: what a loop promises. Functors are submitted and executed one at a time, each once, queued ones in order, all of them unless the executor stops | |
| `EventLoop`, `MCEventLoop`, `EventLoopProofs` | the loop, its callers and the eventfd | refines `SerialExecutor` |
| `Channel` | a channel's mask and state as a record with operators | |
| `Poller`, `MCPoller`, `PollerProofs` | the poller, its channels and the kernel's interest list | `Channel` |
| `TimerQueue`, `TimerQueueProofs` | timers, their set, the timerfd, the clock | the queue that `SerialExecutor` promises |
| `Buffer`, `MCBuffer` | the buffer as operators from buffer to buffer, and a user of it; proofs in `HttpServerProofs` | |
| `TcpConnection`, `MCTcpConnection`, `TcpConnectionProofs` | one connection with its loop, user code, other threads, the peer, the kernel's socket and the server | `Channel`; the loop as `SerialExecutor`, the buffer as a queue |
| `EventLoopThreadPool` | the actions of pool, threads and loops coming up and going down | |
| `TcpServer`, `TcpServerProofs` | the server with its acceptor, the pool, the queues of all loops and several connections | extends `EventLoopThreadPool`; loops as `SerialExecutor`, connections as their server sees them |
| `LogFile` | the log file as operators from file to file | |
| `LogStream` | the formatting of a line as operators | |
| `AsyncLogger`, `MCAsyncLogger`, `AsyncLoggerProofs` | the logger, its writers, owner and backend | extends `LogFile`; `MCAsyncLogger` and the proofs add `LogStream` |
| `ThreadSafeQueue` | the actions of the queue's operations | |
| `MysqlPool`, `MysqlPoolProofs` | the pool, the threads that use it through `Mysql`, its owner | extends `ThreadSafeQueue` |
| `HttpServer`, `MCHttpServer`, `HttpServerProofs` | one connection of an `HttpServer`: the peer, the parser, the callback, the answers | the connection as `TcpConnection`, the input buffer as a queue; the proofs add `Buffer` |

Operators whose comment begins with "Mutant:" are variants of a
definition with a plausible bug. No specification uses them; they show that a
property fails when the code is wrong in that way.

### Correspondence to the code

**EventLoop.** `lpc` is the place of the loop's thread in `start()`; `call[t]`
is how far a thread has got in `QueueInLoop`, `RunInLoop` or `quit`: taking
`mutex_`, `emplace_back`, deciding on the wakeup and writing are separate steps.
`CheckFunctors` reads `functors_.empty()` without the lock and gets any answer
while another thread is in `emplace_back` (`EmptyReads`). `wakeupFd_` is the
counter, which saturates at `EventfdMax`; the write then fails and is only
logged. User code in the loop's thread (handlers and functors) may queue, run
and quit. `OwnerQueuesEarly` says whether the owner may queue before `start()`.

**Poller and Channel.** Each of the five mask calls, with the `update()` they end
in, is a case of `ChangeMask`. `Construct` and `Destroy` let objects and
descriptors come and go, in any order with `remove()`; closing a descriptor
drops the kernel's entry. `Destroy` may come at any time, from a handler too: nothing
in the code keeps a channel until the loop has handled it (`TcpServer.cpp:28`,
`Acceptor.cpp:31`). A call of a channel that is gone is undefined and is not
followed: `HandleEvent` is about channels that exist.

**TimerQueue.** `time` is the real clock in ticks; `Now(time)` is what
`Timestamp::now()` makes of it. `NewTimers` has what `RunAt` and the four
`RunAfter...` and `RunEvery...` calls make of a time or a delay, and `ResetTimerfd`
the arithmetic of the timerfd, with its two readings of the clock, each as late as
it may be, C++ division, the refusal of negative times and the meaning of zero;
`settime` keeps what it was last set for.
`timers_` is the order of the iterator. `ExpiredTimer::operator<` is not a strict
weak order, so where `std::set` puts an element depends on the shape of its
tree: `Places` has every place at which a search can end. `HandleRead`, each
callback, each restart and the new setting of the timerfd are separate steps, as
user code runs in between.

**Buffer.** Operators take a record of the vector and the two indices, so that
nested calls nest as in the code; `content` is what has been put in and not taken
out. When the write index is beyond the vector the next access is undefined and
the model stops. The names of its specification begin with `Buffer`, since one
module extends both `Buffer` and `HttpServer` to prove about them.

**TcpConnection.** `functors` are the functors of this connection in its loop,
`todo` the callbacks that `HandleEventWithGuard` still has to call, `inUser` that
the user's callback is running. `send()` and `shutdown()` of another thread take
several steps (`call[t]`): the test of `state_`, the store, the queueing. Bytes
are pairs of message and number, so that order and repetition show. The kernel
is a send buffer of `SndBuf` bytes, flags and the peer. `OutputBuffer_` is a queue,
which a `Buffer` is only as long as it need not grow (`Buffer.cpp:103`): what is
checked and proved here is about connections that never buffer more than that.

**EventLoopThreadPool.** `phase` and `i` are the owner's place in `start()` and in
the destructors, `worker` that of each thread in `ThreadFunciton`. `dangling`
collects loops and `EventLoopThread`s used after their end; the model stops there.

**TcpServer.** Loop 0 is the base loop, in whose thread the server lives; loops 1
and up are the pool's. `functors[l]` is the queue of loop `l`, in order, as
`SerialExecutor` promises; a loop that has been told to quit may leave functors
behind, and destroys them with its Poller (`Work`). `HandleRead` is the
acceptor's, with the whole of `NewConnection`; `HandleClose` is the connection's,
with `CloseCallback_`, and `RunFunctor` calls what was queued. `Shutdown` is the user's
`shutdown()`, after which the connection is `kDisconnecting`: `HandleClose` treats it
as a connected one, `ConnectDestoryed` ends it without a report. The destructor
goes through the map one connection at a time while the loops run, and then
through the pool. `outlived` says that the base loop goes on after the server,
`ghost` that someone has used the server after its end; the model stops there.

**LogFile.** `output` has the members, and with them the files on disk by the
second they were opened in, which is their name. `Passes` says which part of its
content a stream may have passed on: the size that `append` compares with
`RollSize_` is that of the file, without what the stream holds back. `late` counts
for each file the buffers written to it on a later day than its own, `refused` has
the files that were to be changed in the second they were opened in.

**AsyncLogger.** A `BufferPtr` is a sequence of at most one buffer. `append` and
each critical section of the backend are one step, and so is each buffer that is
written to the `LogFile`; the clock ticks in between. The wait may end at any
time, which covers notification, time limit and spurious wakeups. `latch_` is the
counter of the `std::latch`, which every backend thread counts down: a second
`start()` finds it at 0 or below, and in the second case does not return.

**LogStream.** `Remainders` are what the loop of `convert` meets, with the sign
that C++ gives them; a character taken from before the array of digits is
`Outside`. Of an operand the bytes it takes and the room it asks for matter:
texts, integers and doubles ask differently. Formatting shares no state, so
`MCAsyncLogger` starts with one thing to format and then runs the logger.

**ThreadSafeQueue and MysqlPool.** `queue` is the data of the list. What is done
under `TailMutex` is one step; `HeadMutex_` is held over the test of the predicate
and the pop or the beginning of the sleep, which are steps of their own
(`at[t]`). `push` does not take `HeadMutex_`, so its notification may fall between
a test and the sleep: `missed` records it. `call[t]` is the place of a thread in
`query` or `update` (`exec` is as `update`): getting, using, returning and pushing are
separate steps, so that `close()` may come between any two. `thrown` has the
connections that a throwing `query` takes along, `freed` those closed with the pool.

**HttpServer.** The stream is a sequence of tokens: request lines, headers, line
ends and other text. A body is any sequence of them, another request included, and
lines without a colon may stand among the headers. A read takes any part of what the peer has sent, as
`OnMessage` does with a new `HttpRequest` each time; each pass of the loop of
`parse()` is a step. Of a text what the parser tells apart is kept: methods,
versions, the question mark in a target, the spaces around a header's value. Of
the response its code, body length and whether it closes.

## 3. Runs

| Run | Checks | Instance |
|---|---|---|
| `loop` | `NoLostTask`, `NoLostQuit`: a loop that sleeps with work or a quit has a wakeup coming; `ExecutorSpec`: refinement of `SerialExecutor` with its liveness; `QuitTakesEffect` | 2 threads, 3 functors, 1 other channel, eventfd up to 2 |
| `poller` | `Registered`: channel, map and kernel agree; `NeverFatal` | 3 channels, 2 descriptors, event list of 1 |
| `buffer` | `IndexOrder`, `FifoContents` | prepend 1, size 5, extrabuf 2, calls of up to 4 bytes, never more than 5 held |
| `buffer_index` | **violation** of `IndexOrder` | size 2, up to 7 bytes held |
| `connection` | `StreamInOrder`, `WriteInterest`, `ReportedOnce`, `BufferDrainedFirst`, `ShutdownCompletes`, `CloseIsNoticed` | 1 other thread, messages of 2 and 1 bytes, send buffer of 1 |
| `connection_flush` | **violation** of `ShutdownFlushes` | with an empty message too |
| `connection_late_send` | **violation** of `NoSendAfterClose` | the same |
| `server` | `UsedAlive`: no loop, thread object or server is used after its end; `KeptWhileRegistered`; `OneEnd`: a connection is ended once by peer, destructor or both, and reported up once and down once, but not down if it was shut down and the destructor ended it; `PoolComesUp`, `PoolGoesDown`, `ConnectionsProceed` | up to 2 loops, 2 connections |
| `logger` | `BuffersSuffice`, `NothingLost`, `RolledInTime`, `MessagesReachFile`, `StopReturns`; of a line, `IntegersFormatted` and `LineEnds` | 3 messages of 1 and 2 bytes, buffers of 3, batches cut above 2, 3 seconds, days of 2, a stream of 1 byte; integers up to 210, lines of 40 bytes |
| `mysql` | `OneHolder`, `PopFindsData`, `WakeupsCover`, `IdleIsTaken` | 3 threads, up to 2 connections |
| `http` | `HandedInOrder`, `RefusedForCause`, `OneAnswerEach`, `RequestsAnswered` | 3 requests out of 5 kinds, 2 kinds of response |
| `timers` | `TimersAccountedFor`, `CancelHolds`, `TimersWakeLoop`: while a timer waits the timerfd is armed; `FatalOnlyLate` | 2 timers, a second of 4 ticks, 5 ticks, delays of 1 and 2, one time for `RunAt` |

The type invariants of `EventLoop`, `Poller`, `Buffer` and `MysqlPool` are proved
(section 4). Those of `TcpConnection`, `TcpServer`, `AsyncLogger`, `TimerQueue` and
`HttpServer` are proved too, and are a conjunct of `StreamInOrder`, `OneEnd`,
`NothingLost`, `TimersAccountedFor` and `HandedInOrder`.

### Why the bounds are enough

- *loop*: two foreign threads can be inside `QueueInLoop` at once and the loop's
  own thread is a third caller; three functors allow one in the batch, one in the
  queue and one on its way. An eventfd of 2 reaches saturation.
- *poller*: a descriptor needs two owners for reuse, and a third channel to be
  handled meanwhile; the event list of 1 has to grow.
- *buffer*: the sizes are smaller than the calls, so that moves, split reads and
  exact fits all occur. Growth is in `buffer_index`, and in the proofs.
- *connection*: a send buffer of one byte makes every write of two bytes partial
  and the next one `EAGAIN`.
- *server*: two loops and two connections have them in one loop, in two, and with
  no pool in the base loop; one connection may close while the other is destroyed.
- *logger*: buffers overflow, batches reach three buffers and are cut; the logger
  may be stopped and started again as often as `latch_` lets `start()` return. Three seconds have a file
  changed for its size, one for the day, and one refused. Numbers have up to three
  digits; lines end on every byte around the limit of the buffer.
- *mysql*: with two connections and three threads there is one asleep, one between
  test and sleep and one that pushes; the pool may also be empty from the start.
- *http*: the kinds are a plain request, one with a query and a repeated header,
  one whose body is a request, one with a line without a colon among its headers and
  one of an unknown version; a third request meets what two others have left behind.
- *timers*: time crosses a full second, where the clock goes back; a repeating
  timer and a later one suffice for a set out of order.

`CHECK_DEADLOCK FALSE` stands where the program may come to its end: a connection
that is destroyed, a server or a pool that is gone, a peer that sends no more, a process that has aborted, or (timers)
the end of the modelled time.

### What the violations show

- `buffer_index`: `MakeSpace` (`Buffer.cpp:103`) resizes to
  `WriteableBytes() + len`; the vector may even shrink, and the append writes
  beyond it. `Buffer.h:13` draws the order that is violated.
- `connection_flush`: `shutdown()` in another thread stores `kDisconnecting`
  before its functor is queued; a draining `HandleWrite` then shuts the write side
  ahead of a `SendInLoop` that the same thread had queued before.
- `connection_late_send`: `SendInLoop` warns "give up writing" for a connection
  that is down, and goes on to write, to buffer and to register the channel again.

### What the models show without a run of their own

These behaviours are in the models, and the properties are stated around them,
as no text of the repository promises otherwise.

- `start()` sets `quit_ = false` (`EventLoop.cpp:62`): a destructor that calls
  `quit()` between the publication of the loop and `start()` waits in `join()` for
  ever. `PoolGoesDown` is therefore about loops that were running.
- With `OwnerQueuesEarly = TRUE`, `NoLostTask` fails: a functor queued in the loop's
  thread before `start()` wakes nobody, up to the poll timeout.
- A base loop that outlives its server runs `RemoveConnectionInLoop` on it
  (`TcpServer.cpp:83`); `UsedAlive` excepts `outlived`.
- A loop that is told to quit may leave `ConnectDestoryed` behind: the user is then
  not told that the connection is down (the second case of `OneEnd`). Nor is he told
  of one that he has shut down and that the destructor of the server ends before its
  peer does, as `ConnectDestoryed` tests for `kConnected` only (`TcpConnection.cpp:155`).
- A channel that is destroyed by a handler of another one may be called afterwards.
- A timer whose time has passed when the timerfd is set for it ends the process;
  `FatalOnlyLate` says that nothing else does. A time that comes out as zero disarms
  the timerfd, and the timer waits for the next change of the set (`SetForNow`, which
  `TimersWakeLoop` excepts). `Now` and `ResetTimerfd` count microseconds within a second although
  `Timer.h:26` says `ms`: all times here, and all properties of timers, are in the
  units of that clock. A cancel by a
  callback for a timer of its own batch is forgotten (`TimerQueue.cpp:104`).
- A notification of `push` between a test and its sleep is lost
  (`ThreadSafeQueue.ipp:48`), after which a thread may sleep beside an idle
  connection. `close()` wakes threads that find nothing and sleep again, for ever
  if no connection comes back. A `query` that throws shrinks the pool. The url of
  the constructor has `tcp:://` (`MysqlPool.cpp:11`), which the external connector
  is left to judge.
- Each read begins a new `HttpRequest` while the lines it has parsed are gone: a
  request that is cut behind its first line is forgotten, and its rest refused
  with 400. Of two requests that come with one read the second waits for the next
  read. A body stays in the buffer, and a line without a colon ends the head
  (`HttpRequest.cpp:113`) with the rest left there: the next `parse()` takes either for
  a request. `HandedInOrder` says nothing of what is handed over behind such a one
  (`Tame`). `AddHeader` leaves out the last character of every value.
- A second `start()` of the logger counts its latch below 0 (`AsyncLogger.cpp:66`);
  if that comes before the wait, `start()` never returns.
- `convert` indexes before its array for the digits of a negative number.

### Fairness

- *EventLoop*: weak fairness of the loop's steps and of a call that has begun.
  Handlers and functors are assumed to return. Nothing is assumed about I/O, and
  the poll timeout is not counted on: `LoopStep` leaves out an `epoll_wait` that
  returns without a wakeup (`IdlePoll`).
- *TcpConnection*: strong fairness of `RunFunctor` and of `Poll`, because every
  iteration of the loop does both and each may be disabled for a while by the
  other; weak fairness of handlers, of calls that have begun and of the peer's
  reading. A peer that stops reading may hold up a shutdown for ever.
- *TcpServer*: threads run, loops call their functors, and a call of the owner, the
  destructor included, goes on once it has begun. When connections come, when
  peers close them and when the server is destroyed is left open.
- *MysqlPool*: strong fairness of `Waiting`, since a mutex that others take and
  release again and again is free only at times: a thread that keeps trying is
  assumed to get it. Weak fairness of the rest of a call, so statements end, and
  of the owner's calls.
- *HttpServer*: weak fairness of the loop: it reads what has arrived and the
  callback returns. Where a read ends is left open, also in the long run.
- *AsyncLogger*: the backend runs, its wait ends (`wait_for` has a limit), and calls
  of the owner that wait go on when they can. No call is assumed to be made.
- *TimerQueue*, *Poller*, *Buffer*: none; their properties are safety properties.

## 4. Proofs

All theorems are about the specification without fairness and hold for every
value of the constants under the module's `ASSUME`.

**EventLoopProofs** (any threads, functors, channels, any range of the eventfd).
The invariant is `TypeOK /\ LockInv /\ PlaceInv /\ NoLostQuit`: `LockInv` ties
`mutex_` to the caller in the critical section and to the functor it is
about to append, without which the queue's type is not inductive; `PlaceInv` says
where `callable_` is set and a batch exists, which decides whether a caller in
the loop's thread has to write to the eventfd. `TaskNotLost` needs a further
strengthening, `QueueInv`, because a functor queued inside a batch is covered by
`callable_` and not by the eventfd until the batch ends; it assumes
`~OwnerQueuesEarly`. `LoopIsSerialExecutor` shows that each step of the loop is
a step of `SerialExecutor` or none, `pending` being the rest of the batch
followed by the queue.

**PollerProofs** (any channels and descriptors). The invariant adds to the checked
properties that two live channels have different descriptors (`FdsDistinct`). Its
core is that the kernel has an entry for a live channel exactly in state ADD
(`EntryIffAdd`), from which `UpdateNeverFatal` follows. Changes to one channel
are dealt with once, in `LocalChange`.

**MysqlPoolProofs** (any finite set of threads, any number of connections). The
invariant ties `HeadMutex_` to the thread between test and pop (`LockInv`), the
place in `WaitPop` and the connection in hand to the place in the call (`CallInv`),
and the end of the pool to the absence of callers (`OwnerInv`); `PopFindsData`
follows with it, since only the holder of the lock takes nodes. On top of it
`OneHolder` and `WakeupsCover` are inductive themselves: the first needs what `Head`,
`Tail` and `Append` do to the values of a queue without repetition (`TailValues`,
`AppendValues`), the second counts the threads on their way with the library's
theorems on finite sets.

**TcpConnectionProofs** (any threads, messages of any length, any send buffer; the
output buffer is a queue, so for the code: until it has to grow). The
invariant is `TypeOK /\ LifeInv /\ NoSpinInv /\ WriteInterest /\ StreamInv`.
`StreamInOrder` alone is not inductive: after the peer's reset `SendInLoop` drops
what it is given, and a later write would leave a gap if anything were still
written. `StreamInv` says that there are two cases only: all bytes are written or
buffered, or the socket is broken, the buffer is empty and nothing will be
written any more. From the first follows `NothingDropped`, which no run states.
`LifeInv` follows the connection through its life: before `ConnectEstablished`
nobody knows of it, afterwards it is never established again, and once its end has been
reported the read callback is neither asked for nor called. Without it a second
`HandleClose` could not be excluded (`ReportedOnce`). `NoSpinInv` has that
`POLLOUT` is asked for only with bytes in the buffer, also in the states for which
`WriteInterest` says nothing; `HandleWrite` needs it. `DrainedBeforeShutdown` is an
action property and follows from the same invariant.

**TcpServerProofs** (any number of loops and connections). The invariant has three
parts. That of the pool (`PoolTypeOK`, `OwnerInv`, `LifetimeInv`, `QuitInv`) ties the
place of the owner in `start()` and in the destructors to the place of each thread
and to what exists of it, so that no pointer dangles. That of the server
(`ServerInv`) says what the server's phase allows. The third is stated for each
connection: where its functors may be queued (`PlaceInv`: in its own loop, or in the base loop
for its removal), that it is established before anything else happens to it
(`EstablishInv`), that it is in the map, in a queue for its end, or ended
(`EndInv`, `MapInv`), and what was reported in which state, `kDisconnecting`
included (`ReportInv`); `FreshInv` says that
an id that has not been given out occurs nowhere. That a functor is never twice in a queue
bounds the queues, and turns `Cardinality` in `OneEnd` into cases. All of it holds
until the server is used after its end (`ghost`), which `UsedAlive` allows only
when the base loop outlives the server or someone else quits a loop.

**TimerQueueProofs** (any number of timers, any delays, any length of a second).
`Places` leaves open where `std::set` puts a timer, so nothing may rest on the
order of `timers_`. `AllAccountedFor` needs, beside one place for each timer
(`OnePlace`), that no functor and no timer of a batch comes twice, that there is no batch
between two batches (`BatchInv`), and that a cancel is queued behind the `AddTimer`
of its timer (`CancelAfterAdd`); the last is why a cancel finds its
timer or the timer has ended. `TimersAlwaysWakeLoop` and `FatalOnlyForLate` rest on
what `ResetTimerfd` leaves behind, whenever its readings come: an armed timerfd, a time
of zero, or an abort for an overdue timer (`ResetTimerfdFacts`, from `SplitFacts`,
`SmallFacts` and `WholeFacts` about the C++ division). The former also needs that
`AddTimer` does without setting the timerfd only if another timer was there before
(`AddFacts`), and that a batch always ends in `reset`. Where the search for the first
timer that is not due ends is in `DueFacts`; that no timer is refused by `insert`
comes from its order telling any two apart (`InsertFacts`).

**AsyncLoggerProofs** (any messages, buffer size, roll size, stream, clock and
a batch limit of at least 2). Three invariants stand on top of each other.

- `Inv`: `BuffersSuffice` is not inductive. That a batch has two buffers whenever
  `buffer2` is missing comes from the swap, where `buffer2` is given away only if
  `NextBuffer_` was missing, and that is so only if a full buffer is in `buffers_`.
  The invariant follows the pointers through these cases.
- `FileInv`: what the file is like between two appends. A file that is larger than
  `RollSize_` and the stream by a buffer must have been refused a change, which needs the
  size at the last append and the second the file was opened in (`FileShape`,
  `LeavesRoom`); the buffers that a file got after its day are bounded by the count that
  goes on over a change of files, and stay so when the file is closed (`Noticed`, `LateOK`). `TypeCorrect` and `AlwaysRolledInTime` follow.
- `LogInv`: the files in the order of their names, then the stream, the batch and the
  buffers make up one log (`Log`), in the order of the calls and without those that were
  cut. Each step that moves a buffer along this chain leaves the log as it is.

`NothingEverLost` is, as the property, about messages smaller than a buffer; the
code drops others without a trace.

The lines that are logged come last, for buffers, texts and numbers of any size.
`AlwaysFormatted` goes by the number of digits: the remainders of a number are its
last digit and those of the number before it (`RemaindersFacts`), and those of a
negative number are the negatives of them (`Digits`). For `AlwaysLineEnds` each
operand is one that asks for more room than it takes (`Operands`), which for a number
needs that two digits fit into `kMaxNumericSize` (it is 32).

`Bytes`, `FlattenSeq`, `convert` and `Streamed` are recursive over sequences or numbers.
What they compute is proved by the least counterexample (`LeastNat`, from the
well-foundedness of the natural numbers), since the provers cannot use the library's
induction rules.

**HttpServerProofs** (any requests and responses, any number of requests, any cut
of the stream into reads). None of the three properties is inductive, since none says
where in the stream the parser stands. The invariant does (`StreamInv`): the buffer
and the tokens to come are together what the peer has sent from some place on.
`Stream(c)` says of a function `c` that it has the stream behind each number of
requests, and `Placed(c)` that the parser is

- before a request that was not handed over (`AtLine`), or before a line that is
  refused now and will be after every later read (`Refused`), which has a cause;
- in a head behind `n` of its headers, having understood these (`InHead`);
- behind what it takes for the end of a head, having understood the headers up to
  there (`AtEnd`): the empty line or the first line without a colon (`HeadEnds`).

All this is so until a request with a body or such a line was handed over (`Astray`).
From then on nothing is claimed about the place of the parser, and nothing has to be:
what the peer has sent is `Dirty` (`AstrayDirty`), and `HandedInOrder` speaks of the
requests before it only.

That the stream is given by some `c`, and not by a recursive definition, keeps
induction out of the proof: a request of the peer makes a new `c` of the old one
(`StreamGrows`), and every other step keeps it. `Wire` puts the tokens of a request at
places that can be computed (`WireFacts`); taking a line from the buffer moves the
place (`FromDrop`, `Retrieved`). `CutInv` says that unless a read has cut a head, what
is still to come begins outside of one, or with the end of a line that the buffer ends
in. It is why `parse()` runs out of line ends in a head, and forgets what it has of it,
only after a cut. `PlaceInv` says which places go with which state of the request.
`Understood` has what the callback gets of the first `n` headers, of a repeated one the
last (`HeaderAdded`); `TrimmedFacts` and `TargetFacts` say what becomes of a value and
of a target. `AnswerInv` adds to `OneAnswerEach` that up to now every answer has kept
the connection, as long as it is connected.

The second half of the module is about `Buffer` (any sizes and bytes). Lemmas say what
each operator does to the readable bytes (`CopyFacts`, `EnsureFacts`, `WrittenFacts`,
`AppendFacts`, `ReadFromFdFacts`, `RetrieveFacts`). `BufferIsFifo` holds up to a call
that overruns the vector. `IndicesInOrder` assumes `ContentLimit <= InitialSize`: the
vector then never has to grow (`FixedSize`), which is the exact condition under which
the defect of `MakeSpace` cannot bite. As `HttpServer` has its input buffer as a
queue of tokens, its theorems are about a connection on which no such overrun happens.

**Only model-checked.** Liveness, since TLAPS has no fairness reasoning here:
`ExecutorSpec` in full, `QuitTakesEffect`, `ShutdownCompletes`, `CloseIsNoticed`,
`PoolComesUp`, `PoolGoesDown`, `ConnectionsProceed`, `MessagesReachFile`,
`StopReturns`, `IdleIsTaken` and `RequestsAnswered`.

## 5. Not modelled

- `TryPop` and the `WaitPop` that takes a reference, which have no caller in the
  repository; setters and getters; the constructors' system calls that cannot fail
  in a way the code goes on from.
- A log file that cannot be opened: `file_size` (`LogFile.cpp:30`) would throw in the
  backend thread and end the process.
- Texts: the wording of a log line and its time, `Timestamp::toString`, the status
  line and the headers of an `HttpResponse`, `Address`. `Socket` forwards to system calls.
- `Signals` is a channel with one callback; `nocopyable`, `singleton` and
  `Callbacks` have no behaviour.
- Lifetimes that depend on the caller: the string and the connection behind a
  queued `send()` (plain pointers at `TcpConnection.cpp:52`), the `Timer` whose id
  `AddTimer` reads after queueing it. `SIGPIPE` is assumed to be ignored.

## 6. Plan

Done: the modules of section 2 with their runs, and the proofs of section 4. The
order was that of the dependencies: the loop and what it promises, the poller and
the buffer, the connection, the pool and the logger, then the server on top of
them, the file and the stream below the logger, the queue with the database pool,
and HTTP.

Every invariant and every action property that a run checks is now also a theorem.
What no theorem states is liveness (end of section 4). A later step would be to
replace the queue of tokens in `HttpServer` by the bytes of `Buffer`, so that a head
that does not fit meets `MakeSpace` in the model as well.
