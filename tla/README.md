# Verification of the WebSocket server

The repository is a collection of study projects. Its one long-lived concurrent
program is the WebSocket server in `src/cpp-server/chapter6/WebSocketServer`: a
multi-threaded reactor in C++11. This directory holds TLA+ models of its core, the TLC
runs that check them and the TLAPS proofs about them. Paths below are relative
to the server's directory unless they start with `src/`.

## 1. The system

One *base loop* accepts connections; a pool of *I/O loops*, one thread each,
serves them. Everything that happens to a connection happens in its I/O loop;
other threads reach a loop by queueing a callable and writing its wakeup
descriptor.

| component | state | operations | interaction |
|---|---|---|---|
| `net/EventLoop`, `EventLoopThread` | `quit_`, `pendingFunctors_` under `mutex_`, `callingPendingFunctors_`, wakeup descriptor, `loop_` | `loop`, `quit`, `runInLoop`, `queueInLoop`, `wakeup`, `startLoop`, `stopLoop` | everybody queues; the owner starts and joins |
| `net/TcpConnection` | `state_`, output buffer, callbacks | `send`, `shutdown`, `forceClose`, `connectEstablished`, `connectDestroyed`, four event handlers | called by its channel, by callbacks, by other threads |
| `net/Channel`, `net/EpollPoller` | `events_`, `index_`, `channels_`, the epoll set | enable, disable, `remove`, `poll`, `handleEvent` | called by the connection, calls its handlers |
| `net/TcpServer`, `EventLoopThreadPool` | `connections_`, `next_`, `started_` | `newConnection`, `removeConnection`, `stop`, `getNextLoop` | base loop queues on I/O loops, and they on it |
| `net/TimerQueue`, `Timer` | ordered set of timers | add, remove, cancel, `doTimer` | run at the top of every iteration |
| `base/AsyncLog` | list of lines, file, flags | `Output`, `Init`, `Uninit`, write thread | every thread produces, one consumes |
| `net/Buffer` | byte vector and two indices | append, retrieve, prepend, `makeSpace` | owned by connections |
| `websocketsrc` | sessions under a mutex, handshake flag, partial frame | `onRead`, `decodePackage`, `send`, `onClose` | connection and message callbacks |
| `net/Acceptor`, `Connector`, `TcpClient` | listening or connecting socket | `listen`, accept, connect, retry | channels of a loop |

Outside this program, `src/cpp-server/chapter3/pool/TaskPool.cpp`,
`src/cpp-server/chapter6/sendmail/MailMonitor.cpp` and the operators under
`src/reactor` have concurrent logic of their own. The rest of the repository is
demonstrations, exercises, user interfaces and vendored code. `PROJECT.json`
lists all of it under `components`.

What is hard here, and what makes each part correct:

- *Loop*: the queue is pushed under a lock but the decision to wake the loop is
  not. Correct if it is a FIFO queue that loses nothing, never sleeps on work,
  and stops when told.
- *Connection*: several close paths may be taken in one poll; the graceful
  shutdown races with output; `state_` is tested and stored with no lock.
  Correct if the byte stream is intact, the FIN is last, the callbacks pair
  up, and the poller has forgotten the channel when the object goes.
- *Server*: the last pointer to a connection passes from the I/O loop to the
  base loop and back. Correct if every open connection is in the map, tasks
  stay on their loop, what closes is destroyed, and a `stop` that finds the loops
  running comes back with nothing left.
- *Timers*: callbacks change the set `doTimer` walks over, and other threads cancel
  timers that may not have been added yet. Correct if no timer is early, skipped or
  repeated, and a canceled one is quiet.
- *Log*: everybody queues lines, one thread takes them, and a signal handler stops it
  from on top of any thread. Correct if no line is lost, doubled or overtaken, the
  write thread never sleeps on lines, a file holds what was written since it was
  opened, and the handler comes back.
- *Sessions*: frames are cut by reads anywhere, in a buffer whose content moves.
  Correct if every byte stays in its place, each header is found where a frame
  begins, and what is answered is answered once and in order.

## 2. The modules

| module | models | uses |
|---|---|---|
| `FunctorQueue` | what a loop promises: a FIFO queue of callables that can be closed | |
| `EventLoop` | `EventLoop.cpp` with `EventLoopThread.cpp` | refines `FunctorQueue` |
| `SequenceLemmas` | facts about sequences and the least-number principle, which the proofs cite | |
| `EventLoopProofs` | theorems about `EventLoop` | `EventLoop`, `SequenceLemmas` |
| `TcpConnection` | `TcpConnection.cpp`, `Channel.cpp`, its part of `EpollPoller.cpp` | a loop as a queue of tasks |
| `TcpConnectionProofs` | theorems about `TcpConnection` | `TcpConnection`, `SequenceLemmas` |
| `SenderOrderProofs` | the theorem about the order of one thread's sends | `TcpConnectionProofs` |
| `TcpServer` | `TcpServer.cpp`, `EventLoopThreadPool.cpp` | extends `TcpConnection` |
| `MCTcpServer` | the pool of two loops for TLC | `TcpServer` |
| `TcpServerProofs` | theorems about `TcpServer` | `TcpServer`, `TcpConnectionProofs` |
| `TimerQueue` | `TimerQueue.cpp`, `Timer.h`, `runAt`/`runEvery`/`cancel`/`remove` of `EventLoop` | a loop as a queue of tasks |
| `TimerQueueProofs` | theorems about `TimerQueue` | `TimerQueue`, `SequenceLemmas` |
| `AsyncLog` | `base/AsyncLog.cpp`, `prog_exit` of `appsrc/main.cpp` | refines `FunctorQueue` |
| `AsyncLogProofs` | theorems about `AsyncLog` | `AsyncLog`, `SequenceLemmas` |
| `Buffer` | the index arithmetic of `Buffer.h` and `Buffer::readFd`, as operators | |
| `WebSocketSession` | `MyWebSocketSession.cpp`, the replies of `BusinessSession.cpp` | extends `Buffer` |
| `MCWebSocketSession` | the frames and the cuts for TLC | `WebSocketSession` |
| `WebSocketProofs` | theorems about `Buffer` and `WebSocketSession` | `WebSocketSession`, `SequenceLemmas` |

**EventLoop.** `pc` is the loop thread's place in `threadFunc` and `loop()`,
`ctl` the owner's place in `startLoop` and `stopLoop`. Each statement that another
thread can observe is an action: the assignment of `quit_`, its test, the return of
`poll`, the swap under `mutex_`, each call of a callable. `queueInLoop` by
another thread is two actions, `Push` (under `mutex_`) and `Wakeup`. Calls from
callbacks in the loop thread are `PostFromLoop`: whether a wakeup is written
depends on `callingPendingFunctors_`, as in the code. `poll` has a timeout, so
it may return at any time. What a timer callback or the frame functor queues
gets no wakeup and may wait for that timeout; `quiet` remembers it.

**TcpConnection.** The loop is what `EventLoop` is shown to be: a queue from
which it takes a task when it is in no handler. `Poll` stores the reported events
in `revents`, and the handlers run one by one in the code's order, without
looking again at what the earlier ones did. `callback` says that the loop is
inside the connection's callback; there the public methods may be called
(`SendHere`, `ShutdownHere`, `ForceCloseHere`). Another thread's call is three
actions, `UserTests`, `UserStores`, `UserQueues`, since `state_` is not protected. A
`shared_ptr` is not a variable: `Alive` collects the holders (the map, queued
tasks bound to `shared_from_this()`, the handler in progress, a thread inside a
call), and `Freed` is what the destructor would see. Messages are sequences
of `Units` tagged with sender and call, so that a write may split them and every
loss, copy or overtaking shows. `UpdateChannel` and `RemoveChannel` keep
`index_` and the epoll set as `updateChannel` and `removeChannel` do, with
the failure of the first registration as a choice. `connectEstablished` and the
callbacks for a connection that goes down are one step each: inside them every
public method sees `kDisconnected` and returns.

**TcpServer** replaces `OwnerCreates`, `OwnerRemoves` and `OwnerStops` with the
code of the server: the round robin, the map (`keys`, and `owned` for those whose
pointer is not null), the base loop's queue (`closing`), and `stop` step by step:
one turn of its loop per connection, then per I/O loop quit and join. `start` returns when
each thread has published its loop, which may be before that loop runs: `EnterLoop` is
the thread's arrival in `loop()`, where `quit_ = false` undoes a `quit()` that came before.
A loop takes tasks and events only behind it (`Turns`), while tasks queue up already.
`CloseLoop` is `FunctorQueue!Close`: the loop tests `quit_` wherever it stands in its queue,
and what is queued dies with it.

**TimerQueue.** `pc` is the loop's place: in `doTimer`, in a timer's callback,
behind `doTimer`, or at the queued tasks. `current` is `doTimer`'s iterator and
`passTime` its `now`. A callback is a state of its own, in which the loop thread may
create, cancel, resume and remove timers at once (`AddHere`, `RemoveHere`,
`CancelHere`); other threads queue the same operations (`AddElsewhere`, ...). The set
is ordered by `when`, the expiration at insertion, with ties broken by the address
of the `Timer`, which is why timers are numbers. `expiration` moves with every run
and is not the key. Three constants choose how the interface is used: `Kinds`
(one-shot or repeating), `ByReference` (the overload that drops the count),
`HandOver` (a `TimerId` is used before its `addTimer` was served). The program
itself sets no timer; the loop offers them.

**AsyncLog.** `pc` is the place of `WriteThreadProc`, `holder` who holds `m_mutexWrite`,
`lines` the list, `handle` and `files` the open file and what is on disk, a file being
named by the second in which it was created. A thread takes the mutex in one step
(`Lock`) and queues, notifies and lets go in the next (`Push`): the signal may come
between. `Wait` lets go of the mutex and falls asleep in one step, as a condition
variable does, and may wake by itself. `ctl` is the place of `prog_exit`, which runs on
the stack of `victim`; while it runs the victim takes no step, mutex in hand or not.
`Uninit` sets `m_bExit` (`SetExit`) and notifies (`NotifyExit`) without the mutex.
`Write` chooses how long the line is, since nothing looks at its length before: `size` is
`m_nCurrentWrittenSize`, `bytes` the true length of each file. `Roll` truncates a file that
already exists, as `fopen` with `"w+"` does, and `truncated` remembers the lines that
went with it. Only the first signal is modelled.

**Buffer** describes a buffer by its two indices, the size of its vector and `shift`, the
distance between an index and the number of the stream's byte that lies there. Copying
the content down changes `shift`, and an index that is off by one shows as a byte
out of place, whatever the bytes are.

**WebSocketSession.** The stream is a list of frames with the place where each starts; a
read brings any number of bytes (`HandleRead`), cut at one of the places that matter,
and `onRead` runs its loop: test of the limit, handshake, one frame. A frame is its
FIN bit, opcode, length and `code`, the seven bits of the second byte that hold the length or
say how many bytes behind them do. `HeaderSize` is the table by which `decodePackage` takes the
header off, `FrameSize` what RFC 6455 says a frame has; they are written down separately, and
differ where the code is wrong. `Illegal` are the lengths `decodePackage` refuses
(`RefuseFrame`). What the decoder does once it is out of step depends on payload bytes, so the
model ends there: `FramesInStep` is the invariant that it never does. The client is
modelled from the RFC: it masks and does not mix the fragments of two messages; only the form
of a length may be longer than the RFC allows, which is what the refusal is for.
`FramesInStep` also says, by the RFC's own definition of the shortest form (`Shortest`), that
the decoder refuses these frames and no others.

## 3. The runs

| run | bounds | checks |
|---|---|---|
| `event_loop` | owner, one more thread, three callables | `TypeOK`, `FunctorAccounting`, `NoSleepOnWork`, `QuitStops`, `ImplementsFunctorQueue` |
| `event_loop_stop` | same | `StopReturns`, violated |
| `connection` | one connection, three calls, two units a message, callbacks and one more thread that sends | `StreamIntact`, `OutputArmed`, `FinAfterFlush`, `CallbacksPaired`, `ChannelGone`, `LateOnlyAfterReset`, `ClosedIsFreed`, `ShutdownFinishes` |
| `connection_threads` | with one more thread and an owner that lets go | `SenderOrder` |
| `connection_stop` | `shutdown` in a callback, then stop | `ChannelGone`, violated |
| `server` | two connections, two loops, stop and start of the loops at any time | `ServerTypeOK` (which holds `TypeOK` of the connections), `OpenIsOwned`, `LoadBalanced`, `ServerChannelGone`, `ThreadConfined` |
| `server_stop` | one connection, two loops, two calls, stop at any time, loops that start at any time | `DestroyedOnce`, `StopReleases`, `ServerReaps`, `StopCompletes` |
| `async_log` | two threads with two lines each of one or two bytes, a roll size of two bytes, two seconds, a signal at any time | `TypeOK`, `NoSleepOnLines`, `FileHoldsLatest`, `ExitDrains`, `ImplementsQueue`, `UninitReturns` |
| `websocket` | up to four of twelve frames, two of them with a length in a longer form than it needs, five cuts around each, the real sizes of the buffer | `TypeOK`, `BytesInPlace`, `FramesInStep`, `AnsweredInOrder`, `BacklogIsCrowding` |
| `websocket_empty` | an empty ping and a short message | `FramesInStep`, violated |
| `timers` | two timers of either kind, times 0 to 2, one queued task | `TypeOK`, `NeverEarly`, `OnceRunsOnce`, `OneShotsDueRun`, `CanceledIsQuiet`, `OnceRuns` |
| `timers_order` | with a repeating timer | `DueRuns`, violated |

Why these bounds are enough. Three callables let one be running, one be in the
batch and one in the queue, which are all the places there are. Connections do not
share state, so one shows what a connection does; three calls are
enough for a send, a send behind it and a close. Two units let a write stop
in the middle. Two loops and two connections make the round robin wrap.
Two timers are what it takes for one to stand before, at or behind the iterator
while the other's callback acts on it; times 0 to 2 let a timer be early, due and
late, and a repeating one catch up. Two logging threads interleave with the write
thread while one of them is interrupted; five lines of one or two bytes fill two files and
begin a third, end exactly at the roll size or one byte behind it, and two seconds let files
have the same name or not. Four frames hold a fragmented
message with a control frame inside it and a frame behind; the frames have the smallest
and largest length of each form, the largest length that each longer form must not have, one beyond the limit (70,000 in the run, since the
real 50 MB only scales), and the cuts fall inside the header, behind
it, inside a payload and at the end, so that a read may complete several frames or none
and the buffer grows, moves and is emptied. The theorems of section 6 hold for any
number.

Run `connection` says what holds when the public methods are called from the
connection's own loop, as all of this program does, and when other threads send:
`send` is the one method that the code means for them. `connection_threads` says what is left
when another thread also shuts down and closes, and the server runs are about
connections used in their own loop.

## 4. What the violated runs show

1. `StopReturns`: `stopLoop` right after `startLoop` can hang. `loop()` sets
   `quit_ = false` as it starts (`net/EventLoop.cpp:103`, with a FIXME that asks the
   question), so a `quit()` that comes first is lost. `TcpServer::stop` soon after `start`
   hangs in the same way, which module `TcpServer` contains: `StopCompletes` speaks of a
   `stop()` that finds every loop in `loop()` (`entered = Loops`), and without that condition
   TLC refutes it.
2. `ChannelGone` with stop: `connectDestroyed` disables the channel only in
   `kConnected`. In `kDisconnecting` the channel stays enabled, `Channel::remove`
   returns early, and the poller keeps a pointer to a destroyed channel.
3. `FramesInStep` with an empty frame: for a payload length of 0 `decodePackage` does not
   count the two flag bytes (`websocketsrc/MyWebSocketSession.cpp:191`). A masked empty
   frame, such as an empty ping, has 6 bytes and 4 are taken: the next header is read
   out of the mask.
4. `DueRuns` with a repeating timer: `Timer::run` moves `expiration_` on, but the key
   in `timers_` stays, and `doTimer` breaks at the first timer that has not expired
   (`net/TimerQueue.cpp:148`). A one-shot timer behind a repeating one with a long
   interval waits for it.

What the models also show, without a run of its own:

- With `UserOps = {"forceClose"}` or `{"shutdown"}` in `TcpConnection.cfg`, TLC refutes
  `ChannelGone`, `CallbacksPaired` and `OutputArmed`, with `shutdown` also `FinAfterFlush`:
  the call of another thread tests `state_`, the loop closes the connection, and the
  call overwrites `kDisconnected`. The connection closes twice, and its channel may be
  registered again after `connectDestroyed` removed it.
- `TcpServer::stop` races its own `connectDestroyed` tasks: it makes the loops quit at
  once, a loop that tests `quit_` first drops them, and no session hears of the close
  (`CloseLoop` with a non-empty queue).
- With `ByReference = TRUE` in `TimerQueue.cfg`, TLC refutes `OnceRunsOnce`:
  `addTimer(const TimerCallback&, ...)` (`net/TimerQueue.cpp:102`) does not hand
  `repeatCount` to the `Timer`, which then repeats for ever. With `HandOver = TRUE` it
  refutes `CanceledIsQuiet`: `cancelTimerInLoop` does nothing for a timer whose
  `addTimer` is still queued, so the cancel is lost.
- The log can hang at exit in two ways, both excluded by name in `UninitReturns`: the
  handler waits for a mutex that the thread under it holds, and the notification
  of `Uninit` falls between the write thread's test of `m_bExit` and its wait. If the signal
  hits the write thread itself, `join` throws (`aborted`).
- A file that fills within the second in which it was created is truncated by its
  successor, which has the same name: the lines lost that way are `truncated`, and
  `ExitDrains` and `FileHoldsLatest` allow for them.
- The end of a fragmented message is never answered (its opcode is `CONTINUATION`, which
  `processPackage` ignores), and a control frame between the fragments clears what
  was collected so far: `AnsweredInOrder` therefore demands answers to messages of a single
  frame and to pings, and that nothing else is answered. `onRead` serves one frame per read: a second one in the same
  segment waits for more bytes, which is what `BacklogIsCrowding` bounds.

## 5. Fairness

Weak fairness of the loop thread, of the owner inside `startLoop` and `stopLoop`,
and of a thread inside a call: the scheduler runs them, and none holds a lock
while it waits. Nobody has to call, queue, connect or close anything. For
connections, strong fairness of `RunTask`: every iteration of `loop()` comes
to `doPendingFunctors`, however many events it handles, but events and tasks
alternate, so a task is not continuously enabled. Strong fairness of `Poll` with
room to write: epoll is level-triggered, and a peer that does not go away reads
now and then. A peer that neither reads nor closes would hold a shutdown for ever:
the code has no timeout for it, and `ShutdownFinishes` assumes it away.
`CloseLoop` is strongly fair because a loop tests `quit_` once per iteration; it needs `quit_` to
be set still, so a `quit()` that `EnterLoop` has undone leads nowhere. `EnterLoop` is weakly fair: a
thread that was started gets to run.
For the log: weak fairness of the write thread, of a thread that
holds the mutex and of the handler, and strong fairness of the handler's `LogFinish`, since a
mutex that is free again and again is got in the end. No spurious wakeup has to come.
Sessions are checked for safety only: what a client sends next is its own choice.
For timers: the loop keeps running and callbacks return (`LoopStep`), every
iteration starts a pass and takes the queued tasks (strong fairness of `StartPass` and
`RunTask`), and time passes up to the bound.

## 6. Proofs

`EventLoopProofs`, for every `Owner`, `Others` and `Functors`:

- `TypeCorrect`: `TypeOK` is inductive by itself. It relates places: the owner is
  past `idle` exactly when the thread exists, `callingPendingFunctors_` is set
  exactly while a batch runs, `loop_` is set exactly while `loop()` may run.
- `FunctorsAccounted`: `ran \o running \o pending = posted`. The swap moves
  `pending` into an empty `running` (from `TypeOK`), a call moves the head of
  `running` to the end of `ran`, a push extends both sides.
- `NeverSleepsOnWork`: `NoSleepOnWork` is not inductive, since it speaks of
  `poll` only. `WorkSignalled` strengthens it to every place from which the loop
  reaches `poll` without draining the queue.
- `LoopImplementsQueue`: under `queue <- running \o pending`, a push is `Post`, a
  call is `Run`, leaving the loop is `Close`, every other step stutters.

The only assumption is `OwnerAssumption` (the owner is none of the other
threads). `SequenceLemmas` holds the sequence facts, stated once.

`TcpConnectionProofs`, for every set of connections and loops, every length of messages
and bound on the calls:

- `StreamIsIntact`: `StreamIntact` with the types of the three sequences is inductive, for
  any `Users`: `sendInLoop` writes past the buffer only when that is empty, and
  `handleWrite` moves the front of the buffer to the end of the wire.
- `TypeCorrect`, `OutputIsArmed`, `FinIsLast`, `LateMeansReset`: from `Inv`, which is `Typed`
  and, for each connection, `Life`. What makes it inductive is what `Life` says of each state: one that is
  not established has nothing registered; an open one is in the poller, reads,
  and watches for output exactly while there is some; a closed one watches nothing, and still has
  bytes to handle only if the peer reset it. `Senders` adds what other threads are about to
  send: a call in progress and a queued send are on a connection that was established, so that
  `sendInLoop` never meets one that is still `kConnecting`.
- `CallbacksArePaired`, `ChannelIsGone`: with `Kept`, which follows a connection through its owners: open,
  it is in the map; closed, it is in the map with a `closeCallback_` to serve,
  or its `connectDestroyed` is queued, or its channel is removed.

All but the first assume `OthersSend` (threads other than the loop's call `send` only), the last two
`MayStop = FALSE` as well, as in run `connection`. Section 4 says what another thread's `shutdown` and an
owner that stops do to them. `ConnAssumption` types the constants and says that `"none"` and `"loop"`
name no connection and no thread.

`SenderOrderProofs`, for any `Users` and `UserOps`:

- `SendersKeepOrder`: `SenderOrder` speaks of what was accepted; `OrderInv` follows a message from the
  call to there. The number of a call that has tested `state_` is the highest of its thread, the sends of one
  thread stand in the queue in the order of their numbers, and none of them is lower than one that was
  accepted. It needs the queue to be first in first out and each thread to be in one call at a time, and nothing
  of `state_`, which is why it survives every race.

`TcpServerProofs`, for every pool and every set of connections, none of them called from another thread
(`Users = {}`):

- `Moves` abstracts a step of a connection to what the server can tell: how `state_` may change, that `closing`
  grows only by a connection that has closed, that a loop takes tasks or gets a `forceCloseInLoop`. Each handler
  is shown once to be such a step, and the server's invariants are then shown against `Moves`.
- `ServerTypeCorrect`, `TasksAreConfined`, `StopReleasesAll`: from `ServerInv`, which is `Inv` of the
  connections and what is true of each place of `stop()`: which loops were told to quit, that a joined loop
  has ended, that an ended one holds no task and is in no callback.
- `OpenConnectionsAreOwned`: `RunHeld` is `Kept` of the connections as long as the server runs.
- `QueuedOnceToDestroy`: `DestroyTasks` says that a connection whose `connectDestroyed` is queued is not in the
  map any more, so that whoever takes it out queues the only one.
- `LoadIsBalanced`: `RoundRobin` gives every loop before `next_` one connection more than those behind it.
- `ServerChannelIsGone`: as `ChannelIsGone`, until the server stops. With a server that stops it needs
  callbacks that only send (`StopHeld`): then no connection is half closed, and `connectEstablished`
  stands in the queue ahead of `connectDestroyed`. A connection that `stop()` finds half closed keeps its channel,
  as run `connection_stop` shows; callbacks of run `server` therefore call nothing.

`TimerQueueProofs`, for every set of timers, every interval and every bound:

- `TypeCorrect`: the iterator is in the set or at its end. `Walk` is inductive: beside
  the types, queued tasks concern timers that exist, and what is canceled or
  running is no longer due. That `begin()` and `++iter` exist for every set is
  `FirstIsFirst` and `AfterIsNext`, from the well-foundedness of the naturals.
- `NoTimerIsEarly`: `OnSchedule` says that `expiration_` is the time asked for plus one
  interval per completed run, counting the run in progress apart.
- `OneShotRunsOnce`, `CanceledTimersAreQuiet`: both need `Fresh`, which says what is
  true of a timer whose `addTimer` is still queued: nothing in front of it in the
  queue is about it, and it has not run.
- `OneShotPassLeavesNone`: `Ahead` says that what was due and has not run is at the
  iterator or behind it, and that keys are expirations as long as nothing repeats.

`OneShotRunsOnce` assumes `~ByReference` and `CanceledTimersAreQuiet` assumes
`~HandOver`; section 4 says why. `TimerAssumption` says that timers are positive numbers (0 is
`end()`) and that times are natural numbers.

`AsyncLogProofs`, for every set of threads and every bound:

- `TypeCorrect`: `TypeOK` is inductive. It says who may hold the mutex where: the write
  thread exactly between its test and its wait.
- `NeverSleepsOnLines`: with `NoWaitOnLines`, that no line is queued between the test and the
  wait either, which the mutex in the write thread's hands guarantees.
- `ExitWritesAll`: `DrainCounts` keeps the lines that were there when `m_bExit` was set in
  the console, in hand or in the list; the thread ends on an empty list. `Filed` says that with
  a file name every line on the console is in a file or was in one that was created again. Without a file name, as in `main`, there is only the console.
- `FilesHoldLatest`: with `Rolled`, which says at each place what the open file and the full
  ones hold and how long they are, for lines of any length.
- `LogImplementsQueue`: the safety half of `ImplementsQueue`. `Numbered` says that no line
  still to be logged is in the list or written, so that what is queued is new.

`WebSocketProofs`, for every set of frames, limit, request and size of the buffer:

- `EveryByteInPlace`: from lemmas about the buffer: `EnsureWritableMakesRoom`,
  `AppendGrows`, `ReadFdAppends`, `RetrieveConsumes` say for every buffer that no
  byte changes its number and exactly the bytes asked for come or go. That `MakeSpace` makes
  enough room is what keeps `HasWritten` from refusing silently.
- `SessionInStep`: frames are laid out one behind the other (`LaidOut`), and taking one that
  `Arrived` moves the front to the next start (`Stepping`). `Illegals` says that what is refused is
  exactly what is not in the shortest form, and `Caused` that a closed session has a cause that
  is still in its buffer or among the frames it served.
- `SessionBounded`: what is served has been in the buffer whole, below the limit
  (`OversizedRefused`, which no run repeats).

- `TypeCorrect`: `Flags` types the session, and `Counted` says that the frames counted as crowded
  are no more than those that are complete.
- `BacklogBounded`: `Crowding` bounds the frames complete in the buffer by `crowded`, plus one while
  `onRead` has not served the one frame of its read; a read that completes k frames adds k - 1 to `crowded`.
- `AnswersInOrder`: `Answering` says that for some n the next header is that of frame n + 1 and what was sent is the
  greeting and what the first n frames are due; fragments are kept only of a message that is open, so a
  text frame that begins a message is echoed alone. `FlattenSeq` is a recursive function, and the provers have no
  induction over data; that flattening one sequence more appends it (`FlattenAppend`) is
  proved through the least number for which it would fail (`LeastNat`).

`AnswersInOrder` says of messages of a single frame and of pings that they are answered, and of all the
rest that it is not: it is no promise that a fragmented message is answered, which never happens.

All but `EveryByteInPlace` and `TypeCorrect` assume that no frame has a second byte that gives it the
length 0; section 4 says why. `LogAssumption` and `SessionAssumption` type the constants.

Every safety invariant and every action property that a passing run checks is also proved, under the hypotheses
named above. Only model-checked is liveness, which is out of the prover's reach: `QuitStops`, `ClosedIsFreed`,
`ShutdownFinishes`, `ServerReaps`, `StopCompletes`, `OnceRuns`, `UninitReturns` and the liveness halves of
`ImplementsFunctorQueue` and `ImplementsQueue`. The properties of the violated runs are false, and what is
left of them is what the theorems say.

## 7. Not modelled, and the plan

Abstracted in the modules there are: contents of messages, the identity of descriptors
and their reuse, `writeCompleteCallback_` and `highWaterMarkCallback_` (nobody
sets them), log output, partial reads of a connection, the list of ready events in `EpollPoller`.
A task queued on a raw `this` that outlives its connection does nothing in the
model; in the program that is undefined behaviour (`net/TcpConnection.cpp:200`
has a FIXME). `TcpServer::stop` runs in the base loop's thread (its destructor asserts that), so no
task of the base loop runs meanwhile, and the model ends with it. The program as it is
never gets there: nobody calls `MyWebSocketServer::uninit`, and `appsrc/main.cpp` returns
with the I/O threads running. In `TimerQueue`
no callback removes its own timer: that erases the element the iterator of `doTimer`
points to, which is undefined.

In `AsyncLog` the lines that `Output` writes itself (FATAL and SYSERROR), which race with
the write thread on the file handle, are left out, and so are a second signal and a log that
is started again: `m_bRunning` is never reset. In `WebSocketSession` compression and
clients that violate the RFC in other ways than the form of a length are left out. `main` gives `Init` of the log no file name; the
model has both cases.

The maps of these modules cover most of the server's own logic, but a small share of
the repository, whose bulk is vendored headers (OpenCV under `src/learnopencv`, zlib), user
interfaces and exercises: nothing of that is a system with states to check.

Next, in this order:

1. `TaskPool`: several workers on the blocking queue of the log, with the lost wakeup of its
   `stop`.
2. `EpollPoller` with its vector of ready events and descriptors that are reused,
   `Acceptor`, `Connector`.
3. The session list of `MyWebSocketServer` under its mutex, with messages that come late.
4. The operators of `src/reactor`, `MailMonitor`.

Theorems planned: those of `TcpServer` for connections on which other threads send, and the safety of the
modules above as they come.
