# A verification project for learn2muduo

learn2muduo is a C++ network library in the manner of muduo: reactors ("one
loop per thread") on epoll, timers on a timerfd, connections with buffered
output, and a small base library of threads and logging. This directory holds
TLA+ models of its core, the TLC configurations that check them on small
instances, and TLAPS proofs of the properties that matter most.

All paths are relative to the repository, which the files here call `src/`. The
models follow the default build, a release build in which `assert` is compiled
out (`CMakeLists.txt`): an assertion is something a model may be asked to
satisfy, never a guard, except where a comment says that callers keep to it.

## Inventory

| Component | State | Operations | Interacts with |
|---|---|---|---|
| `EventLoop` | `quit_`, `pendingFunctors_` under `mutex_`, `callingPendingFunctors_`, an eventfd, `activeChannels_` | `loop`, `quit`, `runInLoop`, `queueInLoop`, `wakeup`, `doPendingFunctors` | other threads by the queue and the eventfd; calls back channels, timers, functors |
| `Channel`, `EPoller` | a channel's `events_`, `index_`, `tie_`; the map `channels_`; the kernel's epoll set with raw pointers | `enable*`, `disable*`, `remove`, `handleEvent`, `epoll`, `updataChannel`, `removeChannel` | every handler may change them in the middle of a batch |
| `TimerQueue`, `Timer` | `timers_`, `activeTimers_`, `cancelingTimers_`, a timerfd, `Timer`s on the heap | `addTimer`, `cancel`, `handleRead`, `getExpired`, `reset` | the loop's functor queue; user callbacks that add and cancel |
| `Buffer` | a vector and two indexes | `append`, `prepend`, `retrieve`, `unwrite`, `shrink`, `ensureWritableBytes`, `readFd` | `TcpConnection` |
| `TcpConnection` | `state_`, `outputBuffer_`, its channel and socket, shared ownership | `send`, `shutdown`, `forceClose`, `startRead`, `connectEstablished`, `connectDestroyed`, `handle*` | two loops, user threads, the peer |
| `TcpServer`, `Acceptor` | `started_`, `connections_`, `nextConnId_`, the listening socket | `start`, `listen`, `handleRead`, `newConnection`, `removeConnection`, destructor | creates and owns connections, assigns loops, owns the pool |
| `EventLoopThread(Pool)` | `loop_` under a mutex, `loops_`, `next_` | `startLoop`, `threadFunc`, `getNextLoop`, destructors | `Thread`, `CountDownLatch`, `EventLoop::quit` |
| `ThreadPool` | `queue_`, `running_`, two condition variables | `start`, `run`, `take`, `stop` | clients, workers, tasks that call `run` |
| `Logging`, `LogStream` | a fixed buffer per statement, `g_logLevel`, `g_output` | the log macros, `operator<<`, `~Logger` | an output function, for example `LogFile` |
| `LogFile` | the open file, bytes and lines since the last check, three times | `append`, `flush`, `rollFile` | stdio, the system clock |
| `AsyncLogging` | current, next and filled buffers under a mutex, a thread | `append`, `start`, `stop`, `threadFunc` | threads that log |
| `Mutex`, `Condition`, `CountDownLatch` | `holder_` beside the pthread mutex, `count_` | `lock`, `unlock`, `wait`, `notify`, `countDown` | `Thread::start` and everything with a lock |
| Wrappers (`Atomic`, `Singleton`, `CurrentThread`, `Socket`, `Address`) | none of their own worth a model | | used by all |

What is hard here: a wakeup that must not fall between a test and a wait
(`EventLoop`, `ThreadPool`, `EventLoopThread`); raw pointers that are used after
callbacks have run (`Channel`, `TimerQueue`); objects whose life is shared by
two loops and user threads (`TcpConnection`), or torn down while loops still
hold functors for them (`TcpServer`); short writes and resets; index arithmetic
at the edges (`Buffer`, `LogStream`); clocks that are set back and processes that
die with unflushed lines (`LogFile`). `PROJECT.json` lists these hazards line by
line with the properties that cover them.

## Modules

Every component has one module; its `MC` module gives it to TLC. Variables
have the names of the members they model. In each module, a definition called a
"Mutation" is a plausible mistake, kept beside the right definition to show
that the properties would notice it; no specification uses it.

| Module | Models | Lines of |
|---|---|---|
| `EventLoop` | the loop's thread as a program counter; other threads as "owes a `wakeup()`" | `net/EventLoop.cc`, `EPoller::epoll` |
| `FunctorQueue` | what `queueInLoop()` promises: one FIFO queue, each callback run once | abstract |
| `Channel` | events and the order of a channel's callbacks; shared by the next module and `TcpConnection` | `net/Channel.cc` |
| `EPoller` | channels, `EPoller` and the kernel's set, driven by the loop | `net/Channel.*`, `net/EPoller.cc`, `net/EventLoop.cc` |
| `TimerQueue` | timers, the heap they are on, the timerfd and the two clocks | `net/TimerQueue.cc`, `net/Timer.*` |
| `Buffer` | the vector and its indexes, byte by byte | `net/Buffer.*` |
| `ByteQueue` | what a `Buffer` promises | abstract |
| `TcpConnection` | one connection over the server's loop and its own, user threads, the peer | `net/TcpConnection.cc`, `net/TcpServer.cc` |
| `TcpServer` | the server with its acceptor, its connections and the loops of its pool, from `start()` to the destructor | `net/TcpServer.cc`, `net/Acceptor.cc`, `net/EventLoopThreadPool.cc`, `Socket::accept` |
| `EventLoopThreadPool` | starting, publishing and destroying loop threads | `net/EventLoopThread*.cc`, `base/Thread.cc`, `base/CountDownLatch.cc` |
| `ThreadPool` | clients, workers, two condition variables | `base/ThreadPool.cc` |
| `Mutex` | `MutexLock` with `holder_` and one condition variable, in the steps of the code; operators without a behaviour of their own | `base/Mutex.h`, `base/Condition.h` |
| `CountDownLatch` | the latch over `Mutex`, as `Thread::start()` uses it | `base/CountDownLatch.cc`, `base/Thread.cc` |
| `LogStream` | conversions of numbers as recursive functions, the buffer by its length | `base/LogStream.*` |
| `LogFile` | the file that is rolled, the disk, the clock | `base/LogFile.cc` |
| `Logging` | log statements over the two modules before | `base/Logging.*` |
| `AsyncLogging` | the exchange of buffers with the logging thread | `base/AsyncLogging.*` |
| `EventLoopProofs`, `EPollerProofs`, `TimerQueueProofs`, `BufferProofs`, `TcpConnectionProofs`, `TcpServerProofs`, `ThreadProofs`, `LoggingProofs` | theorems and the inductive invariants they need | |

How the parts are composed: `TcpConnection` uses a loop as `FunctorQueue`
describes it (a queue of functors taken one by one), which `EventLoop` is proved
to implement. `EventLoopThreadPool` keeps only `quit_` of a loop, relying on
`NoLostQuit`. `TcpConnection` keeps of `Buffer` what `ByteQueue` says. `TcpServer`
keeps of a connection the states between which its own calls decide, of the base
loop a queue, and of the pool's loops the swap of functors and the test of
`quit_`, because what is queued after the last swap matters there. `Logging`
extends `LogStream` and `LogFile`, `CountDownLatch` extends `Mutex`.

Granularity: a critical section of a mutex is one step, from taking the lock to
releasing it or to waiting; a stretch of the loop's thread that no other thread
can observe is one step; whatever a user callback does happens as actions
allowed while the loop's thread is in user code. A condition variable is the set
of threads asleep in it.

### Remarks on single models

* `EventLoop`: `runInLoop()` in the loop's thread calls its argument, so it is
  part of the callback. `epoll_wait` returns nothing only when nothing is ready,
  for the timeout or a signal.
* `EPoller`: callers keep the rules the code asserts (a channel is removed before
  its owner goes, a handler removes no other channel of its batch). Two
  channels share a descriptor number, so that a number is used again after
  `close`.
* `TimerQueue`: addresses are explicit, because a `TimerId` is an address with a
  sequence number and an address is used again. Reading a freed `Timer` yields
  any sequence number. Times are those of `system_clock`; the timerfd runs on
  `CLOCK_MONOTONIC`, which goes at the same pace, so that setting `system_clock`
  (`SetClock`) moves the deadline with it and the timerfd may go off with nothing
  due. A tick back stands for what the truncation to microseconds of line 38
  can do, too. Between the poll and `handleRead()` other handlers of the loop may
  arm the timerfd again. The set `cancelled` and the number `clockSets` are history.
* `TcpConnection`: accepted sockets are blocking (`Socket::accept` passes no
  flag), so short writes come from signals only. A user thread that made a call
  keeps its pointer until the functor has run; the code binds a raw `this`.
  `stopRead()` is `startRead()`, as line 268 has it, and `stopReadInLoop()` is never
  called. Callbacks for high water and completed writes are set. `SIGPIPE` is taken
  as ignored, so that a write to a connection that was reset fails with `EPIPE`:
  nothing in the repository ignores it, and in a program that does not either,
  the write of line 138 or 331 ends the process. `forceCloseWithDelay()` is called
  in the connection's loop, with one timer at a time.
* `EventLoopThreadPool`: quitting a loop from inside happens only after
  `startLoop()` has returned it, and is recorded in `selfQuit`. The destructor's
  test of `loop_`, its call of `quit()` and that call's `wakeup()` are three
  steps, and a step that goes through NULL or to a loop that is gone ends in a
  state of its own (`dead`, `deadWakeup`), where the destructor stays.
* `ThreadPool`: thread creation succeeds. Each task calls `run()` at most once.
* `TcpServer`: loop 0 is the server's own. User code calls `start()` in any thread,
  and destroys the server in loop 0 when no `start()` is running. Descriptors are
  limited, so that `accept()` fails; `Socket::accept` then calls `exit(1)` and the
  branch of `handleRead()` for a failure is dead code. A `forceClose()`, which may
  run after the peer's close, and a `startRead()` after the close are one action
  (`ForceClose`), whose functor may call `removeConnection()` a second time; the
  set `disturbed` holds the connections it was done to. `tidy`, `useAfter` and
  `disturbed` are history.
* `CountDownLatch`: every access to mutex, `holder_`, `count_` and condition
  variable is a step. In `Thread::start()`, `latch_` is a member of `Thread`, one
  thread waits for it and one counts down, and the `Thread` may be
  destroyed as soon as `start()` has returned.
* `LogFile`: a file's name is the local time at which it was opened, by its rank
  among the local times (`localtime`, a constant, for names sort like these), and
  its content the set of the numbers of its lines, which are appended in the order
  of their numbers. In the run summer time ends once. A failing `fwrite` may leave
  a part of the line. `fflush` may fail and keep the buffer, `fclose` may fail and
  lose it; that either writes a part of it is left out, and so is stdio's own
  flushing of a full buffer. `fp_` is not initialised before the constructor tests
  it (line 101), which may crash the process.
* `Logging`: a line that overruns its buffer overwrites `cur_`; the model then
  ends the process.
* `AsyncLogging`: a critical section is one step, as in `ThreadPool`.

## Runs

One passing run per component checks its safety and its liveness together. Where
a component has no property named for its types, the type invariant is a
conjunct of the first one.

| Run | Checks | Instance | Distinct states |
|---|---|---|---|
| `EventLoop` | no lost wakeup, no lost quit, refinement of `FunctorQueue`; callbacks run, channels are served | two threads, three callbacks, an eventfd that holds 2 | 27,372 |
| `EPoller` | object, map and epoll set agree; nothing dangles; ready channels are handled though the event list starts with one place | three channels on two numbers | 324,279 |
| `TimerQueue` | the two sets agree, batches stay allocated, cancellation is final and hits only its own timer; unless somebody cancels or sets the clock, the timerfd is armed (`AlarmSetUnlessCancelled`) | three timers over two addresses, one other thread, the clock set once | 4,506,293 |
| `Buffer` | index order, refinement of `ByteQueue` | strings up to 2 bytes, up to 3 held, initial room 2, reserve 1, extra buffer 2 | 29,688 |
| `ThreadPool` | bound, no task or slot lost to a sleeper, `stop()` returns, tasks run | 2 workers, 2 clients, 5 tasks, queue of 2 | 54,810 |
| `TcpConnection` | byte order on the wire, writability interest, destroyed once and clean, and always once the peer has gone | one loop and two, one user thread, 3 calls of 2 bytes | 143,628 |
| `EventLoopThreadPool` | `loop_` is never stale (`LoopPointerValid`), the destructor calls `quit()` on a living loop (`QuitsLivingLoop`), `startLoop()` and the destructor return | three threads, creation may fail, loops may end by themselves | 3,648 |
| `TcpServer` | with a pool, connections are served by its loops in turn and never by the accepting loop (`ServedByPool`); a closed connection has one way out of the server (`OneWayOut`); nothing uses a server that was destroyed in an orderly way (`NoUseAfterDestruct`); clients are served (`ClientsServed`) | two callers of `start()`, 0 to 2 pool loops, three clients, two descriptors, one connection forced to close | 233,230 |
| `Logging` | numbers are written exactly (`ConversionsExact`), lines fit their buffer (`LineFits`), files sorted by name hold the lines in order (`FilesInOrder`), a crash loses only recent lines (`BoundedLoss`), no line goes to a file that is already too long (`RollsInTime`) | 8-bit integers, a buffer of 24, three lines, five seconds, period 4, one step back of the clock, one end of summer time | 1,662,714 |
| `CountDownLatch` | `holder_` is right for whoever asks (`HolderRight`), when `wait()` has returned to anybody, nobody is or will be in `countDown()` (`ReturnIsSafe`), `wait()` returns (`WaitReturns`) | three waiters, two that count down | 4,124 |

Runs in which TLC refutes what a comment says of the code:

| Run | What it shows |
|---|---|
| `TimerQueue_cancelledFirst` | cancelling the earliest timer leaves the timerfd disarmed and the others waiting (`EventLoop.h:78`) |
| `AsyncLogging` | the logging thread clears the buffers it has taken without writing them (`AsyncLogging.h:63`); in later iterations it also hands out a null buffer |

Disagreements that the models contain and no run of its own shows; where a
property is named, it states the case as an exception:

* A callback queued by the loop's own thread before `loop()` gets no `wakeup()`
  and waits for an event or the poll timeout, against the comment above
  `queueInLoop` (`NoLostWakeup`).
* `quit()` before `loop()` is overwritten by it (`EventLoop.cc:86`), and a
  destructor that quits that early joins for ever (`DestructorJoins`).
* A loop that ends by itself between the destructor's test of `loop_`
  (`EventLoopThread.cc:22`) and its `quit()` (line 26) is called through NULL or
  when it is gone, the "tiny chance" of line 24 (`QuitsLivingLoop`,
  `DestructorJoins`); and a loop that sees `quit_` at once may be gone when
  `quit()` comes to its `wakeup()`, as `EventLoop.cc:118-120` says
  (`DestructorJoins`).
* When `system_clock` is set back, or by the truncation of `TimerQueue.cc:38`, the
  timerfd goes off before anything is due. As after a cancel, nothing then arms it
  again, and the timers that wait are forgotten (`AlarmSetUnlessCancelled`).
* `addTimer()` reads its `Timer` after the loop may have deleted it
  (`TimerQueue.cc:129`, against `TimerQueue.h:41`).
* A `cancel()` in the loop's thread that overtakes another thread's queued
  `addTimer()` is lost (`CancelledIsGone`).
* `forceClose()` sets the state that `forceCloseInLoop()` then does not accept,
  so it closes nothing (`TcpConnection.cc:222`); `shutdown()` leaves a state
  that the assertion at line 364 does not know.
* `forceClose()` when the peer has closed first, and `startRead()` after the
  close, close and destroy the connection a second time, against
  `TcpConnection.h:106` (`DestroyedOnce`, `DestructedClean`). In the server
  `removeConnection()` then comes twice: the assertion that the map had the
  connection fails (`OneWayOut`), and if the server was destroyed in between, it
  is used after that, with a pool or without (`NoUseAfterDestruct`).
* Tasks that call `run()` on a full queue can block every worker until `stop()`
  (`TasksRun`).
* When descriptors run out, `Socket::accept` ends the process, while `Acceptor.cc`
  lines 65-67 describe how the server goes on (`ClientsServed`).
* Destroying a server whose pool still has connections, or whose `listen()` has
  not run, leaves functors with a pointer to it (`NoUseAfterDestruct`); the
  `connectDestroyed()` that `~TcpServer()` queues can also be dropped with its loop,
  and then `~TcpConnection()` finds a connection that is not disconnected.
* An integer logged near the end of the buffer overruns it (`LineFits`).
* The line that passes `rollSize_` is in the file before it is rolled. Bytes written
  in the second in which a file was opened are forgotten when they pass
  `rollSize_`, and the part that a failing write leaves is not counted
  (`RollsInTime`); while the clock is behind an earlier period, line 70 keeps
  `append()` from flushing (`BoundedLoss`).
* Names of log files are local times. When summer time ends they repeat or go
  back, a file is appended to that has lines of an hour ago, and the files are no
  longer in order (`FilesInOrder`).
* A flush that fails moves `lastFlush_` on all the same, so that its lines stay in
  the buffer for another interval (`BoundedLoss`); a close that fails loses them.

### Bounds

The bounds are constants: `EventfdMax` (2: a full eventfd is reached, and the
write that fails), `MaxTime`, `MaxTimers`, `MaxPending` (three timers over two
addresses: one address is used again while an id of its earlier timer is still
around), `MaxClockSets` (once: the timerfd goes off early or late), `MaxContent`
(content that must move, grow, or be shrunk), `MaxCalls`, `MaxFunctors` (a send
that is buffered behind one that was cut short, with a close in between),
`MaxThreads`, `MaxConns` and `FdLimit` (the round robin comes round, and there
is one client more than descriptors), `MaxDisturbed` (a connection that is
closed twice beside others that are not), `MaxTime` and `MaxLines` of `LogFile`
(two periods; a file rolled by size, one by period and one by restart),
`MaxItems` (a line that is full and one that is not), `Half` (all integers of 8
bits, signed and unsigned). In `ThreadPool` there are more tasks than queue
places, and more threads asleep than one `notify()` wakes. No run uses symmetry:
most passing runs also check liveness, where it is unsound.

Deadlock is checked except where the system may stop for good: a stopped pool,
a closed connection, a destroyed server, a latch that is open, a model whose
clock has run out.

### Fairness

* `EventLoop`: the loop's thread is scheduled and callbacks return; a thread
  inside `queueInLoop()` or `quit()` reaches its `wakeup()`. The poll timeout is not
  assumed to happen, so it is not what makes the properties true.
* `EPoller`: callbacks return and the loop goes round.
* `ThreadPool`: threads that are awake are scheduled and get the mutex; tasks
  return. Nobody has to call anything.
* `TcpConnection`: both loops run; strong fairness for functors because each
  iteration serves channels first and then the functors, whatever comes. It
  does not assume that writes succeed or that anybody sends.
* `EventLoopThreadPool`: all threads are scheduled, `callback_` returns.
* `TcpServer`: weak fairness for each thread; every iteration of a loop serves
  its ready channels and then its functors. Clients need not connect or close.
* `CountDownLatch`: strong fairness for each thread, because the mutex is free
  only now and then; pthread mutexes give no bound, but no thread is passed over
  for ever. Every thread that counts down does so.

## Proofs

`EventLoopProofs` proves, for any threads, callbacks, channels and eventfd limit
(assuming only that `NoFunctor` is no callback and the limit is positive):

* `WakeupCorrect`, `QuitCorrect`: `NoLostWakeup`, with the types, and `NoLostQuit`
  are invariants. `NoLostWakeup` speaks of the loop in `epoll_wait` only
  and is not inductive. `WakeupInv` says where else work may be pending with
  nobody bound to wake the loop: only between the return of `epoll_wait` and
  the swap, where the loop is about to look at the queue. `LocalsInv` ties
  `callingPendingFunctors_`, the local batch and the running callback to the
  program counter; it is what shows that the loop's own `queueInLoop()` writes to
  the eventfd exactly when it has to. `IInv` is their conjunction with `TypeOK`.
* `Refinement`: the specification implements `FunctorQueue`, with
  `functors \o pendingFunctors_` as the abstract queue.

`BufferProofs` proves for all sizes, byte strings and bounds that the indexes
stay in order (`BufferTypeCorrect`) and that `Buffer` implements `ByteQueue`
(`BufferRefinement`). The strengthening is `size >= kCheapPrepend`, without which
moving the content or clearing the buffer could put the indexes outside the
vector. The lemmas say of each helper (`EnsureWritable`, `CopyTo`, `Appended`)
that it keeps a vector sound and what it does to the content.

`ThreadProofs` holds what concerns threads and their condition variables. It
extends `ThreadPool`, `CountDownLatch` and `EventLoopThreadPool`, which share no
variable and whose specifications therefore have names of their own (`Spec`,
`LatchSpec`, `LoopPoolSpec`).

* `NoTaskIsLost`, `NoSlotIsLost`, for any finite sets of workers and clients, any
  tasks and any queue bound: one `notify()` for each task put in and taken out
  is enough. Both properties count: queued tasks against awake workers inside
  `take()`, free places against awake callers inside `run()`. They are inductive
  together with `SleepersInv` (who sleeps on a condition variable is at the
  matching wait, nobody sleeps on `notFull_` once the pool is stopped, and
  threads that `start()` has yet to create are nowhere); the work is in the
  lemmas on how one step changes each count.
* `HolderCorrect`, `ReturnCorrect`, for any finite sets of threads that wait and
  count down: `holder_` is right, and `wait()` returns only when no thread that
  counts down touches the latch any more. With one waiter, as in
  `Thread::start()`, the latch may then be destroyed; other waiters could still
  be inside `wait()`. The inductive invariant says at which places a thread has
  the mutex (`MutexInv`) and at which `holder_` names it (`HolderInv`), that
  `count_` is the number of threads whose decrement is to come (`CountInv`), and
  that a waiter past its loop finds every `countDown()` over (`OverInv`): it
  left the loop at zero and with the mutex, which a thread still in
  `countDown()` would need.
* `LoopPointersValid`, for any number of threads: `loop_` never points to a loop
  that has died. Beside the pointer itself the invariant says which threads can
  exist while the owner is starting one (`CreatedInv`), so that none is created
  twice, and that the one in hand belongs to the pool (`CurInv`).
* `DestructorQuitsLoop`: the destructor calls `quit()` on a living loop although
  it does not lock, unless the loop ended by itself. What `QuitInv` adds to the
  invariant is that a loop which nobody has told to quit does not end, and that
  it is the destructor alone that tells the loop in hand from outside.

`TimerQueueProofs` proves for any threads, addresses, delays and bounds:

* `TimerSetsAgree`, `BatchIsSafe`, `CancelIsForGood`: the two sets agree, the
  batch stays allocated, a cancelled timer does not come back. They follow from
  `StateInv`: sequence numbers are used once (`HeapInv`); what `timers_` and the
  batch point to exists and they do not overlap (`FiledInv`); an entry of
  `activeTimers_` is that of a waiting timer (`ActiveInv`); a `Timer` still on
  its way to the loop belongs to one functor and to nothing else (`PendingInv`),
  without which its address could already be another timer's; and a cancelled
  `Timer` that still exists is in the batch and in `cancelingTimers_`, so that
  `reset()` deletes it (`CancelInv`).
* `NoTimerForgotten`: as long as nobody cancels and nobody sets the clock, the
  timerfd is armed for the earliest timer. The strengthening `AlarmInv` says that
  the timerfd then fires only when a timer is due, so that a batch is never empty;
  an empty batch is what a cancel or a clock that was set back leads to, and why
  the property fails then.
* `CancelDeletesItsOwn`: the action property `DeletesOnlyItsOwn`, from `StateInv`.

`EPollerProofs` proves for any channels and descriptors and any size of the
event list that object, map and kernel agree on every living channel
(`RegistrationsAgree`) and that no raw pointer dangles (`NoPointerDangles`). The
invariant: living channels have different descriptors (`DistinctInv`), kernel and
map file a living channel under its own (`FiledInv`), the three records agree
(`RecordsInv`), a channel without an owner is the one whose handler is running
and has been removed (`OwnersInv`), and the rest of the batch is in the map
(`BatchInv`).

`TcpConnectionProofs` proves for any number of threads, message size and
high-water mark:

* `OutputInOrder`: the bytes on the wire and those in `outputBuffer_` are numbered
  through (`OutputInv`).
* `PendingIsPolled`: `WritesWhilePending`, inductive beside `EarlyInv` (nobody knows
  the connection before `connectEstablished()`). `CountInv` keeps the bytes
  accepted, and those of sends still to run, within what user code has sent,
  which bounds the type.
* `DestroyedAtMostOnce`, `DestructorAsserts`: while user code makes no
  `forceClose()` and no `startRead()`. `PlainInv` then leaves two phases: open,
  where the channel is polled for input and nothing is on its way that ends the
  connection (`OpenInv`), and closed, where one `removeConnection` or one
  `connectDestroyed` is under way, or the latter has run (`ClosedInv`).

`TcpServerProofs` proves for any number of pool loops, clients, descriptors and
callers of `start()`:

* `PoolServes`: with a pool, its loops get the connections in turn. `RoundInv` says
  that the loops up to `next_` are one connection ahead of the others; it needs
  `StartInv`, by which the pool is complete before anything listens.
* `LeavesOnce`: while the server lives, a connection that users have not forced
  to close has one way out. `LifeInv` counts, for every connection, the functors
  that hold it in its own loop and in the server's, and says which counts go
  with which state; `PlaceInv` limits what a loop may hold at all.
* `NoUseAfter`: `TidyInv` says that an orderly destructor leaves only
  `connectDestroyed` functors behind, which do not use the server; that the
  destructor found nothing else comes from `LifeInv`. It holds while users force
  no connection to close and make none read after its close.

`LoggingProofs` proves, for integers of any width, any sizes of buffer and
file, any intervals and any statements:

* `ConversionsAreExact`: `convert()` and `converHex()` write every integer exactly.
  What a recursive definition computes is an induction over data, for which
  the library's theorems cannot be used; the module has its own. `Induction`
  says of a set of numbers, not of a predicate, that it holds them all
  (otherwise there would be a least one outside), and `Recursion` that a function
  which calls itself with smaller numbers exists, by an induction over the
  functions defined up to a bound. `HasDigits` then says what the loops of
  `convert()` and `converHex()` have in common, and `DigitsLength` and `DigitsValue`
  what they write: the number's digits and how many.
* `LinesFit`: a line fits its buffer unless an integer came where there was no
  room for it. It needs the length of a number (`ConvertLength`): an integer that
  had `kMaxNumericSize` free leaves room for the newline.
* `FilesStayInOrder`, `LossIsBounded`, `RollsAreInTime`: what files hold, and
  what a crash loses, for any local times. The members belong to the open file
  (`OpenInv`), no time is in the future before the clock is set back
  (`ClockInv`), what is buffered came after the last flush if that did not fail
  (`LossInv`), `writtenBytes_` counts at least what came after the file's first
  second (`RollInv`), and no file has a later name than the current one
  (`OrderInv`). `TailOutcome` reduces the cases of `append()` to three: rolled,
  flushed or tried to, buffered. Its point is that a roll by size which fails
  can only forget bytes of the first second, and that a roll by period cannot
  fail.

What the theorems assume of the constants is what the modules state in their
`ASSUME`s; TLC evaluates these in every run.

Every invariant and every action property that a passing run checks is
proved. Only model-checked are the liveness properties: `TLAPS` has no support
for fairness and `ENABLED` here.

## Not modelled

`Socket` and `Address` but for `accept()`, `Atomic`, `Singleton`, `CurrentThread`:
system calls and wrappers. The examples, which only use the library. The
destructors of `EventLoop` and `TimerQueue`; the check that a thread has one
loop (`LOG_FATAL` does not stop the program). In `Logging`, the race of
threads on `t_time` and `t_lastSecond`, which are plain globals, and the text of the
time; in `Thread`, names, ids and detaching. `Condition::waitForSeconds`, which
nothing calls.

## Plan

All components of the core are modelled, and their safety properties are
checked and proved. What could be added:

1. the two destructors named above, `EventLoop` and `TimerQueue`, with functors
   still in the queue, as `TcpServer` has them for connections;
2. a composition of `TcpServer` with `EventLoopThreadPool`, so that the loops of the
   pool may end by themselves while connections use them;
3. the race on the cached time in `Logging`.
