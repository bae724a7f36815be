# TLA+ models of Ham

Ham is a reactor network library in C++11, in the style of muduo: one event loop
per thread, TCP servers and clients on top of it, a small HTTP server on top of
those, and a thread pool. This directory holds TLA+ modules that model its
concurrent parts, TLC configurations that check them on small instances, and
proofs that TLAPS checks for every instance.

    tlc -config MCEventLoop.cfg MCEventLoop      # one run; PROJECT.json lists all
    tlapm RefinementProofs.tla                   # one module of proofs

`PROJECT.json` lists the components, the runs, the source lines behind every
definition, the hazards and the theorems. Paths below are under `src/ham/`.

## The system

| component | state | operations | hard behaviour |
|---|---|---|---|
| `net/EventLoop` | `quit_`, `callingPendingFunctors_`, `pendingFunctors_` (under `mutex_`), `activeChannels_`, the eventfd | `loop`, `runInLoop`, `queueInLoop`, `quit`, `wakeup`, `doPendingFunctors` | other threads push and quit between any two steps of the loop; a lost wakeup costs 10 s |
| `net/Epoller`, `net/Channel` | the epoll set and `channelMap_`; a channel's event mask, status, callbacks | `wait`, `updateChannel`, `removeChannel`; `enable*`, `disable*`, `handleEvent` | a callback changes or removes the channel whose later callbacks are due |
| `net/TimerQueue`, `Timer`, `TimerId` | `timerList_`, `cancelingTimers_`, the timerfd | `addTimer`, `cancelTimer`, `handleRead`, `getExpired`, `reset` | timers added and cancelled by the callbacks of a batch; ties; stale alarms |
| `net/Buffer` | `buffer_`, `readIndex_`, `writeIndex_` | `append`, `prepend`, `retrieve*`, `ensureWritableBytes`, `makeSpace`, `shrink`, `readFd`; integers in network byte order (`net/Endian.h`) | growing, moving and scattered reads at exact limits |
| `net/TcpConnection` | `state_`, `channel_`, `outputBuffer_` | `establishConnection`, `send`, `shutdown`, `forceClose`, `handle*`, `destoryConnection` | `state_` is tested, stored and used in separate steps by several threads; partial writes; closes along four paths |
| `net/TcpServer`, `Acceptor` | `connections_`, `loopThreadPool_`; the listening socket, `idleFd_` | `start`, `newConnectionCallback`, `removeConnection`, the destructor; `handleRead` | a close crosses two loops; the server dies with connections open; descriptors run out |
| `net/Connector`, `TcpClient` | `state_`, `connect_`, the retry timer and delay, `connectChannel_`; `connect_`, `retry_`, `establishedConnection_` | `start`, `restart`, `stop`, `connect`, `retry`, `handleWrite`, `handleError`; `connect`, `disconnect`, `stop`, `newConnection`, `removeConnection` | stops race attempts, retries and timers; each failure path must close its socket once |
| `net/EventLoopThread`, `EventLoopThreadPool` | `loop_`, the thread; `loops_`, `nextLoopIdx_` | `startLoop`, `threadFunc`, the destructor; `start`, `getNextLoop` | a thread publishes the address of its local loop and takes it back; `loop_` is read without its mutex |
| `net/http/*` | the parser's state and request; the connection's context | `parseRequest`, `onMessage`, `onRequest` | a request arrives in pieces, or several at once |
| `base/ThreadPool` | `isRunning_`, `threads_`, `queue_`, two condition variables | `start`, `run` (two overloads), `take`, `threadFunc`, `stop` | notifications against waits; a bounded queue; stop against sleepers; tasks that throw or submit tasks |
| `base/BlockingQueue`, `BoundedBlockingQueue`, `CountDownLatch` | a deque or a count, under a mutex | `put`, `take`; `wait`, `countdown` | lost notifications; a count read after its unlock |
| `net/Socket*`, `InetAddress`, `base/Log`, ... | none, or a descriptor | wrappers of system calls, formatting | none of their own |

A loop calls its channels' callbacks, then the functors other threads queued. A
server's acceptor runs on the base loop and gives each connection to an io loop
from its pool; everything a connection does happens on that loop, and calls from
other threads are checked against `state_` where they are made and then queued.
A close goes from the io loop to the base loop (which erases the connection from
`connections_`) and back (which removes the channel). Timers are a channel of
their loop. A client is a connector, which makes sockets connect, plus at most
one connection.

## The modules

**EventLoop** models `EventLoop.cc` step by step: the test of `quit_`,
`epoll_wait`, each callback, the swap of `pendingFunctors_` under the lock, each
functor. `queueInLoop` and `quit` are two steps, the store and the `wakeup()`,
since nothing holds a lock over both. Variables carry the members' names; `pc`
is the loop thread's position and `call` says which threads are about to write
the eventfd. **SerialExecutor** is what a loop promises: a FIFO queue run
serially, with the loop's own thread allowed to run a functor at once.
`ImplementsExecutor` maps its queue to `functors \o pendingFunctors_`, what
`doPendingFunctors` has taken followed by what has been queued since.

**Buffer** models each member function as an operator from the buffer before
(a record of vector, read index and write index) to the buffer after.
**ByteQueue** is what it promises: a byte string growing at both ends.
`ImplementsByteQueue` maps its content to the bytes between the two indices.

**BufferInts** adds the integers: an integer is its bytes in the memory of a
little-endian host, lowest first, in two's complement; `hostToNetwork` turns them
round, and nothing is taken for the identity.

**TcpConnection** models one accepted connection with the channel, the epoller
and the server as it drives them. A handler runs on the loop's thread and is one
step, because other threads only read `state_` or store `kDisconnecting` in it
and every handler touches it at one point. A call of another thread is split at
each access: `CheckState`, `StoreState`, `QueueInLoop`. The kernel decides how
many bytes a write takes (`WriteResults`), the peer may close or reset at any
time (`PeerCloses`), and `Poll` reports events and orders the callbacks as
`Channel::handleEventWithGuard` does. A failed assertion, or `assertInLoopThread`
off the loop, sets `aborted` and ends the behaviour. `CheckState` is a step only
when the call goes on; a call that returns at once changes nothing.

**TimerQueue** models the queue, its timerfd and a discrete clock. The callbacks
of expired timers are user code, which may add and cancel timers; other threads
queue their calls. The `std::set` is a set of timers ordered by expiration.
Expirations are times of the system clock and the timerfd is `CLOCK_MONOTONIC`; the
model has one clock for both, so what happens when the system clock is set while
timers wait is not shown.
`getExpired` keeps what its `lower_bound` does with ties: it steps over one entry
equal to `now`, so any of the tied timers may be the one taken. `asserts` tells a
Debug build, in which the assertion that follows aborts, from a Release build.

**TcpClient** models `Connector` and `TcpClient` on their loop, plus one other
thread. The loop's handlers are split where they read `connect_` a second time,
and the other thread's calls at every access. Sockets are counted from
`socket(2)` to `close(2)` or to the connection that owns them. `owner` says how
the connector is owned: by the `shared_ptr` its `enable_shared_from_this` requires,
or by a `unique_ptr` as `TcpClient.h:46` has it; `Owners` are those a run looks at.
A `connect(2)` makes progress, fails softly or fails for good (`Outcomes`).

**ThreadPool** models each critical section as one step. A thread in `wait()`
sleeps until a `notify_one` picks it or it wakes spuriously, and then competes
for the mutex. The read of `isRunning_` in `threadFunc` is outside the lock and a
step of its own, as is the late notify of `run(Task&&)`. `isRunning_` is a plain
`bool`; the model lets a racing read see either value, before or after the store.

**EventLoopThreadPool** models `EventLoopThread` and the pool. `loop_` is set
under the mutex, cleared without it, and read without it by `startLoop`'s return
and by the destructor, so each of these is a step. A loop lives on its thread's
stack, from `init` to `cleared`; user code in `Quitting` may quit its own loop.
`quit()` is the store and the wakeup: between the two the thread may see the
store and destroy the loop, and what the wakeup then does is undefined, so the
model lets it pass or end the process (`quitLate`).

**TcpServer** extends it with `TcpServer` and `Acceptor`: several connections,
the functors that carry them between loops, and a table of descriptors. Each loop
is the serial executor `EventLoop` is shown to implement, and a connection only
has the states the server can tell apart: "up", "shut" (`kDisconnecting`, or
`kDisconnected` by a shutdown that has gone through, and still reading), "closed"
and "destroyed". Any thread may shut a connection of `Ended` down and force it
closed. `forceClose` is split between its test of `state_` and its store, as in
`TcpConnection`; a store that comes after a close puts the connection in
`overwritten`, and it is then closed a second time. `Alive` is what a `shared_ptr` would
count: a connection's descriptor is in use while the map, a queued functor, a
functor of the running batch, or a `forceClose` on another thread holds it. The reserve descriptor is closed, used and
reopened in separate steps, so that other code can take it in between. Which free
descriptor the kernel hands out makes no difference and is a `CHOOSE`; the order in
which `~TcpServer` meets its connections is that of their names in a `std::map` and
is left open.

**HttpServer** models the HTTP classes on one connection, whose input buffer is
a byte queue. The text of a line is one byte, CR and LF are one each, so a piece
may end anywhere that makes a difference. A request line has a version, is
malformed, or is a method that no version follows; the last makes
`parseRequestLine` throw where it builds a string that ends before it begins
(`HttpContext.cc:86`), and nothing between there and the thread's function catches
it. `parseRequest` is the loop over
`ParseStep`, and `StoredContext` says what the connection's context is after
`onMessage`: `HttpServer.cc:44` copies it, so it never changes.

**BlockingQueue** has both queue classes; `capacity` is chosen by the constructor
and `Unbounded` stands for the class without one. The unbounded `put` notifies
after its unlock, the bounded one before. **CountDownLatch** splits `countdown()`
at its unlock. **WorkerQueue** composes the two into the program of their unit
tests: workers wait for the latch and take until they get "quit".

The `MC*` modules give the constants values for TLC; the `*Proofs` modules hold
the theorems. An operator whose name ends in a fault (`MustWakeup_Foreign`) is a
seeded bug; putting it in the place of the operator it is named after makes TLC
report the property `PROJECT.json` pairs it with.

## The runs

| run | instance | what it shows |
|---|---|---|
| `loop` | two foreign threads, three functors, one other channel | no wakeup is lost (`NoLostWakeup`), the loop is a FIFO executor, functors run and `quit()` stops the loop |
| `buffer` | initial size 1, prepend area 2, `extraBuf` 2, vector up to 6; integers of one and two bytes | indices and contents stay sound, the assertions of `makeSpace` and `ensureWritableBytes` hold, the buffer is a byte queue, integers return from every state of it |
| `connection_on_loop` | calls only from the loop, six of them; the server may be destroyed at any time | the one assertion that can fail, and when (`AbortsExplained`); the user is told of the end exactly by a `~TcpServer` that takes down a connection nobody closed (`ServerDestroysOpen`); a gone peer or a shutdown leads to the end |
| `connection_threads` | two threads and the loop, three calls, the server on another loop and free to die | whole messages in order, OUT watched exactly while bytes wait, FIN after the data, and the four ways an assertion can fail |
| `timers` | two one-shot timers and a repeating one, time up to 5, Debug and Release | the alarm always covers the list, cancelled and finished timers stay away, none runs early, and only a tie fails an assertion |
| `thread_pool` | two clients, two workers, a queue of one, three tasks of which one throws | no notification is lost, the bound holds, each task is in one place, tasks run, `stop()` returns |
| `client` | either owner, four calls, three sockets, two doublings of the delay, failures of both kinds | sockets are closed once or handed over, the channel follows `state_`, which of the connector's assertions can fail and when, and attempts go on |
| `http` | two requests of any kind, one after the other or at once, cut anywhere | the parser agrees with a definition without a loop, answers match requests, every request leads to an answer, a shutdown or, without a version, the end of the process |
| `server` | no, one or two io threads, two clients, three descriptors, one taken by other code; user code may quit the first io loop, and shut the first connection down and force it closed | connections and descriptors are accounted for, waiting clients are served by way of the reserve, `start()` and `~TcpServer` return and leave nothing, and the ways the process can end |
| `queues` | two producers, two workers, two countdowns, capacity 0, 1 or none, count 1 or 2 | no notification is lost, first in first out, an opened latch is announced, the program ends |
| `send_while_waiting` | two sends from the loop | the second is dropped (below) |
| `retry_throws` | one `connect` | the first retry throws (below) |

**Bounds.** Two foreign threads are the fewest that race each other as well as
the loop; three functors are enough for one taken, one queued and one being
queued. Buffer strings of one and two bytes can fill the space left exactly, or
exceed it by one or by two, at every position of the indices; the vector may
grow more than once. A byte of four values (`Base`) has both signs and carries.
Three calls on a connection are enough for a send that waits, a shutdown behind
it and a force-close behind that; a message is two bytes, so that it can be cut.
The clock bound lets the repeating timer come round twice; one waiting functor at
a time still lets every call race every callback, because the queue is FIFO.
Three sockets are a failed attempt, a retry and a reconnection. A queue of one
makes both condition variables wait, with two threads on each side; two
countdowns on a latch of one are the race for the count. Two requests are the
fewest that can be confused. Two connections and three descriptors, one of them
the reserve, are enough for the table to be full with and without help. User code
ends one of the two connections (`Ended`), so that it can be compared with one left
alone, and calls `forceClose` on it once: that is enough for two closes, and the
`removeChannel` of the second is the end of the process. Names of
bounds: `MaxCalls`, `MaxSize` (of a `Buffer`), `MaxTime`, `MaxPending`,
`MaxSockets`, `MaxRequests`, `MaxThreads`, `MaxClients`, `MaxFds`, `MaxOthers`.
TLC permutes only threads (`connection_threads`) and one-shot timers (`timers`),
in runs without liveness.

**Deadlock** is left unchecked where a behaviour may really end: a loop that
returned, a stopped pool, a destroyed client or server, an HTTP client with
nothing more to ask, joined workers, an aborted process.

**Fairness.** A thread in the middle of a call finishes it, and a loop inside
`loop()` keeps stepping: both are the operating system's scheduling. In
`EventLoop`, `epoll_wait` is only expected to return when the eventfd is
readable; the 10 s timeout and other channels are not counted on, so the wakeup
protocol itself carries the result. In `TcpConnection` a watched socket is
reported writable and takes bytes again and again (strong fairness), which is
what a peer that reads gives; a peer need never close. In `TcpClient` armed
timers expire. In `ThreadPool` woken threads get the mutex and tasks return;
nobody has to call anything; `WorkerQueue` is the same, and its producers go on as
the test's loops do. In `TcpServer` the base thread finishes the call it is in,
its loop handles a readable listening socket and runs functors, and io threads
step; clients, users and other code need do nothing. The acceptor's handler logs
before it reads `errno` (`Acceptor.cc:61`) and the model lets the logging overwrite
it; `ClientsServed` assumes that it does not do so for ever. In `HttpServer` bytes are
delivered and a socket becomes writable. `TimerQueue` has safety properties only.

## Where the code and its own words differ

Two runs show a statement of the code failing.

- `send_while_waiting`: `sendInLoop` (`TcpConnection.cc:206`) buffers the rest of
  a message only in the branch where nothing is waiting. A message sent while
  bytes wait is dropped, against the comment at line 235.
- `retry_throws`: `retry` (`Connector.cc:151`) calls `shared_from_this()` on a
  connector that `TcpClient.h:46` owns by `unique_ptr`: the first failed attempt
  that gets as far as a retry ends the loop. The run `client` looks at this owner
  and at the one `Connector.h:20` requires, and `AbortsExplained` says that only
  the first throws.

Other paths lead legal calls to a failed assertion. They are in the models, and
properties say that there are no more of them:

- `AbortsExplained` of `TcpConnection`. `forceClose` (`TcpConnection.cc:66`) tests
  `state_` and then stores `kDisconnecting`; a `handleClose` in between is
  overwritten, the connection is closed twice, and `Epoller.cc:99` fails. A
  `sendInLoop` queued before a close and run after it enables writing again, and
  `destoryConnection` meets `assert(isNoneEvent())` (`Epoller.cc:98`); so does
  `~TcpServer` on a connection that was shut down and still reads. `~TcpServer`
  (`TcpServer.cc:33`) calls `destoryConnection` from the base loop's thread also
  for connections of other loops, and `assertInLoopThread` aborts.
- `AssertionsExplained` of `TimerQueue`. `getExpired` (`TimerQueue.cc:164`) steps
  over one entry that expires exactly at `now`; with two of them the assertion at
  line 166 fails. In a Release build the other timer is served by the alarm that
  `reset` arms (`AlarmCovers`).
- `AbortsExplained` of `TcpClient`: `Connector.cc:31`, `63`, `133`, `144`, `205`,
  each with the condition under which it fails. A soft error that `connect(2)`
  reports at once is to be tried again (the comment at `Connector.cc:102`), but
  `retry` asserts `kConnecting` (line 144), which only an attempt in progress is;
  `KeepsTrying` names this end among the others.
- `ParseAgrees` of `HttpServer`. The comment at `HttpContext.cc:62` has a wrong
  request line make `parseRequest` return false; one without a version makes it
  throw, and the process ends (`AnswersMatch`, `ClientAnswered`).
- `NoSurprise` of `TcpServer`: a second `start()`; an io loop that user code quits
  while the pool still hands it out, waits for it or is to join it; a server
  destroyed with connections on io loops; `quit()` waking a loop that is already
  gone; a `forceClose` on another thread that outlives its connection's loop; and
  `removeChannel`'s assertions, `Epoller.cc:98` when `~TcpServer` meets a connection
  of its own loop that was shut down, and `99` for a connection closed twice. The
  second close may find `connections_` without the connection, which
  `removeConnectionInLoop` does not mind; `ConnectionsAccounted` leaves such
  connections out of what it says of the map.

And some behaviour is only surprising:

- `handleClose` stores `kDisconnected` first, so `destoryConnection` does not
  report the connection down to the user; only `~TcpServer` does
  (`ServerDestroysOpen`);
- a `forceClose` behind a waiting `shutdown` does nothing if the bytes drain
  first: the peer has to close;
- `run(Task&&)` with no threads runs the task and queues it too
  (`ThreadPool.cc:69-80` has no `else`); `doubled` marks such tasks. A pool whose
  workers all ended by exceptions, or all sleep in a nested `run` on a full
  queue, runs no more tasks;
- `countdown()` reads the count after its unlock (`CountDownLatch.cc:22`): one
  countdown too many in between leaves it below 0, nobody is notified, and waiters
  sleep on (`missed`); `put` on a bounded queue of capacity 0 waits for good;
- an HTTP request whose first line is cut is answered with 400, one cut later
  leaves its rest to be taken for a request of its own, since the copied context
  is dropped. `reset()` leaves `parseState_` and the body as they are: were the
  connection's own context used, the second request would hang the parser. A
  second request behind the first in one piece becomes the first one's body;
- when other code takes the descriptor the acceptor has just given up
  (`Acceptor.cc:64-67`), `idleFd_` stays -1 and a client can wait for as long as
  the table is full (`taken`).

## The proofs

TLAPS checks, for any sets of threads, channels, functors, timers, tasks, clients
and descriptors, any sizes, bounds and strings. Every safety property a run checks,
action properties and refinements included, has a theorem, except the three named at
the end of this section. The invariants that had to be found are named; each is
preserved by every action, one step of the proof per action.

- `RefinementProofs`, the loop. `TypeCorrect`: types, and
  `callingPendingFunctors_` is up exactly during `doPendingFunctors`.
  `NoLostWakeupHolds`: `NoLostWakeup` speaks of `epoll_wait` only and is not
  inductive; `WakeupInv` extends it to every phase except the three between the
  dispatch and the swap, where the swap itself is still to come. It needs that
  only `handleWakeupFd` takes a coming wakeup away (`WakeupStays`), which it does
  in one of those three phases. `QuitNoticedHolds` is inductive with the types,
  because the loop tests `quit_` after every wait. `ExactlyOnePlaceHolds` follows
  `executed \o functors \o pendingFunctors_` as one sequence without repetition,
  with lemmas on inserting and appending. `ExecutorImplemented` is the refinement:
  the swap leaves `functors \o pendingFunctors_` as it is, and every other step is
  a step of `SerialExecutor` or a stutter. Assumptions: `LoopThread` is not one of
  `Threads`, `WakeupChannel` not one of `Channels`.
- `RefinementProofs`, the buffer. The predicate `Holds(data, r, w, q)` says that a
  vector with two indices holds string `q`; one lemma per operation says what
  string its result holds. From them follow `BufferTypeCorrect` (`BufferOK`),
  `SpaceAssertionsAlwaysHold` and `ByteQueueImplemented`. Assumptions: sizes are
  naturals, chunks are strings of bytes.
- `TcpConnectionProofs`. `WatchesExactly` (`WatchesWrites`) and `FinAfterBytes`
  (`FlushedBeforeFin`). `WatchesWrites` excepts closed and destroyed connections,
  so it needs `ClosedFirst`: before the first close no `destoryConnection` is
  queued on either loop, and only `~TcpServer` destroys. `StreamIntact`
  (`MessagesIntact`) rests on `InOrder`, which lines up every place a message can
  be: the stream (what the kernel was given and then `outputBuffer_`), the running
  batch, the queue behind it, and the calls that have not queued theirs yet. Of one
  sender, everything in an earlier place was sent before everything in a later one,
  and each queue is in order itself. Assumptions: callers make the three calls
  modelled, the bounds are naturals, `SameLoop` and `ServerDies` are Boolean.
- `TcpConnectionLife`. `OnlyKnownAborts` (`AbortsExplained`) and
  `DestructorCleansUp` (`ServerDestroysOpen`), from `Life`: before
  `establishConnection` nothing has happened to the connection and it comes only
  once (`UpOnce`); up and not closed, the channel reads and is in the epoller, and
  closed it does not read, and writes only for bytes of other threads
  (`ChannelFollows`); one close makes one `destoryConnection`, and until that runs the
  channel is the epoller's (`OneDestroy`); without other threads there is at most one
  close (`ClosedOnce`); and a server on the connection's loop has it in its map until
  then (`InMapOpen`). Assumptions: as above, and "loop" and "nobody" name no other
  thread.
- `TimerQueueProofs`. `AlarmAlwaysCovers`, `TimersStayGone`, `OnlyTiesAbort` and
  `TimersNeverEarly` from one invariant: `Places` (a timer is listed, being called
  or waiting to be added, only one of these), `Past` (a cancelled timer of the
  running batch is remembered; what is being called was due at `now`), and
  `ZeroCovered`, needed because `reset` does not arm for an expiration of 0.
  Assumptions: times and intervals are naturals and the set of timers is finite.
- `ThreadPoolProofs`. `QueueAlwaysKept`: counting the threads at each place, with
  one lemma on what a move does to the counts. `QueueKept` is inductive with the
  types, but for the time before `start()`: then there are no workers and all that
  is queued was run on the spot (`Fresh`). `NoTaskLost` (`TaskInOnePlace`) counts,
  for each task, its runs, its places in the queue and the `run()` calls that hold
  it (`Placed`); a step moves one from one count to another, and a task nobody
  handed over counts 0. Assumptions: clients and workers are finite and disjoint,
  the size is a natural.
- `TcpClientProofs`. `SocketsAlwaysAccounted` and `ChannelAlwaysFollows`. The
  invariant adds that at most one reset waits in each queue, that a connection
  about to be restarted is closed and the connector still `kConnected`, and that a
  batch exists only while functors run. `OnlyKnownAborts` (`AbortsExplained`) adds
  `Callbacks` (the callbacks that are due belong to an attempt that has not become
  a connection and was given up only by `stop()`) and `OneStart` (with one `connect()`
  made at most one `startInLoop` is on its way, in the six places it can be: the
  handler, the other thread, the two queues, the armed timers and those about to
  run). Assumptions: the bounds and delays are naturals, the first delay positive,
  the flags Boolean, the owners among the two.
- `TcpServerProofs`. `OnlyKnownEnds` (`NoSurprise`), `ServerKeepsConnections`
  (`ConnectionsAccounted`) and `ServerCleansUp` (`NothingLeft`), from `SInv`. Its
  `PInv` is about the pool alone: how many threads `start()` has spawned, that a
  loop handed out is its thread's own or was quit by user code, who has quit a loop
  and which threads are joined. `Conns` says where each connection's `shared_ptr`
  is: for each state of a connection, whether the map has it, which functor for it
  is queued on which loop, that there is at most one beside its `forceCloseInLoop`s,
  and that different connections in use have different descriptors. A connection in
  `overwritten` may have a functor of each kind twice, so for it only the states in
  which it can be are kept. `Shutdown` says what
  `~TcpServer` has done by the time the pool goes: the base loop holds nothing, the
  map is empty, at the end the reserve is closed. Most of the work is in the
  steps that move a connection between loops: `Accept`, a close and `RunFunctor`.
  Assumptions: `MaxThreads`, `MaxClients` and `MaxOthers` are naturals, `MaxFds` a
  positive one, `Ended` are clients.
- `WorkerQueueProofs`. `ProgramUsesQueue` and `ProgramUsesLatch`: every step of the
  composed program is a step, or a stutter, of the queue and of the latch each
  used as threads like, so what is proved of them alone holds in the program:
  `NoNotifyLost`, `QueueIsFifo` (with the bound on the length: a full circular
  buffer is never pushed to) and `LatchAnnounces`. Assumptions: finitely many
  threads, capacities and counts are naturals (or the unbounded class), waiters
  are not counters, workers are not producers, "quit" is a value.

Only model-checked: liveness (`EveryFunctorRuns`, `QuitStops`, `GoneIsDestroyed`,
`ShutdownCompletes`, `TasksRun`, `StopReturns`, `KeepsTrying`, `ClientAnswered`,
`ClientsServed`, `CallsReturn`, `JoinReturns`), which needs `ENABLED`; `ParseAgrees`
and `AnswersMatch` of `HttpServer`, whose parser is a recursive definition, and
`IntegersReturn` of `BufferInts`, whose sums are folds: what these compute for every
input needs induction over data, which the provers cannot do.

## Not modelled

- Object lifetime of a connection whose user keeps no `TcpConnectionPtr` (a raw
  `this` bound in `shutdown` and `send`; a channel's `tie`).
- Errors of `accept(2)` on which `sockets::accept` aborts the process, `epoll`
  result vectors that grow, a second loop in one thread, a `ThreadPool` started
  again after `stop()`.
- The text of HTTP: methods, paths, queries and the layout of an answer. Nothing
  in the library decides anything by them except whether a request line is
  correct, which the model keeps.
- `Buffer::findEOL` and `swap`; socket wrappers, addresses, logging, exceptions,
  time formatting: input and output without a protocol of their own.
- The sources bundled with the repository that Ham only calls (the logging and
  formatting libraries) and its example and benchmark programs.
