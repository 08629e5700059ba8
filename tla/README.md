# Verification of MyEchoServer

MyEchoServer is a collection of echo servers in C++, one per concurrency model, with
the libraries they are built from and two load generators.  Its most intricate part is
the coroutine library in `src/Coroutine`: stackful coroutines on one thread, with
mutexes, read-write locks, condition variables, semaphores, channels, call-once,
single-flight and fork/join batches, all of which suspend and resume coroutines through
one scheduler.  This directory models that library in TLA+, the event loop and the load
generator that runs on it, and the servers of all concurrency models: the reactors on events
and the servers with one handler per connection.  It checks them with TLC and proves with
TLAPS, for every size of the pool and of the programs, the safety of the primitives that
coroutines wait on (the mutex, the read-write lock, the condition variable, the channel,
call-once and single-flight, and batches) and that of the load generator; for every number of
threads and connections, that of the reactor servers (the ownership of connections, the echo,
and the bounded queue) and of the servers with a handler per connection (where a connection
is, the codec, and that they implement an abstract echo server on bytes).

## 1. Inventory

| component | state | operations | interacts with |
|---|---|---|---|
| Scheduler (`Coroutine/coroutine.cpp`, `mycoroutine.h`) | the pool of coroutines with a state each, who has the thread, `not_idle_count_` | CoroutineCreate, CoroutineResume, CoroutineYield, Run, Sleep | everything in `Coroutine/`; event loops |
| CoMutex (`mutex.cpp`) | lock, holder, FIFO of waiters; the set `mutexs_` | Init, Clear, Lock, TryLock, UnLock, Resume | scheduler |
| CoRWLock (`rwlock.cpp`) | lock state, writer, readers, one FIFO for both | WrLock, RdLock, WrUnLock, RdUnLock, Resume | scheduler |
| CoCond (`conditionvariable.cpp`) | notification state and count, set of waiters | Wait, NotifyOne, NotifyAll, Resume | scheduler; HSHA2 coroutine server |
| CoSemaphore (`semaphore.cpp`) | value, set of waiters | Wait, Post, Resume | scheduler; Channel |
| Channel (`channel.h`) | a list and two semaphores | Send, Receive | CoSemaphore; HSHA1 coroutine server |
| CoCallOnce, CoSingleFlight (`callonce.cpp`, `singleflight.cpp`) | state, set of waiters; the map `single_flights_` | Do, Resume | scheduler |
| Batch, WaitGroup (`batch.cpp`, `waitgroup.h`) | pool of batches, each with a parent and children; list of parents that may go on | BatchCreate, BatchAdd, BatchRun, Resume4BatchStart, Resume4BatchFinish | scheduler (also CoroutineRun) |
| Local variables (`localvariable.cpp`) | a map in each slot | Set, Get | Batch (a child reads its parent's) |
| Event loop, Timer (`EventDriven/`) | epoll set, heap of timers, cancelled timers | Run, TimerStart, TimerCancel, Tcp...Start | Sleep, BenchMark2 |
| BenchMark2 client | connection, statistics, rate limit | connect, write, read with timeouts | event loop, coroutines |
| BenchMark client | connection state, own timers | callbacks of one epoll loop | - |
| Codec, Packet, Conn (`common/`) | receive buffer, decoding state, send offset | EnCode, DeCode, Read, Write | every server and client |
| Reactor servers (`EpollReactorSingleProcess`, `...ET`, `EpollReactorThreadPool`, `Select-`, `PollReactorSingleProcess`) | an epoll set per loop, a `Conn` per connection | accept, read, write, re-arm | Conn, epoll |
| Half-sync/half-async servers (`EpollReactorThreadPoolHSHA1/2`) | the same, and a queue all threads share | io threads, workers | Conn, epoll |
| Main/sub reactors (`EpollReactorThreadPoolMS`, `EpollReactorProcessPoolMS`) | the same, a next sub reactor, unix sockets | hand-over of a connection | Conn, epoll, SendFd, RecvFd |
| Blocking servers (`SingleProcess`, `MultiThread`, `MultiProcess`, `ThreadPool`, `LeaderAndFollower`, `ProcessPool1/2`, `Epoll`, `Select`, `Poll`) | a `Codec` on the stack of the handler | RecvMsg, SendMsg | Codec |
| Coroutine servers (`...Coroutine`, `...ProcessPoolCoroutine`, `...CoroutineHSHA1/2`) | connections bound to coroutines, consumers created at the start | accept, producer, consumer | Channel, CoCond, epoll, Codec |

What is hard here:

* **Resumption from several sides.**  A suspended coroutine is resumed by the scan of
  `Run()`, which resumes whatever is not idle without asking what it waits for, by an
  event loop when its event arrives, and by the `Co*Resume` function of what it waits
  for.  Whoever comes first leaves the others with stale entries in queues and sets.
* **Code that runs in the middle of a loop.**  Inside a `Co*Resume` loop a resumed
  coroutine runs arbitrary library calls: it changes the state the loop tests next, the
  queue it drains and the notification it is about to finish.
* **Slots are used again.**  A coroutine's identity is its slot; every list that still
  holds it when it ends names the next coroutine of that slot.
* **Assertions as specification.**  `CoroutineResume` asserts that its argument is
  suspended, `CoMutexUnLock` that the holder releases, `CoCallOnceResume` that nobody is
  left: the builds keep assertions, so each of them is a crash if it can fail.
* **Termination.**  `Run()` spins until every slot is idle.
* **A deadline and its event.**  A call of the BenchMark2 client waits for both; either may
  come first, or both in one turn of the loop, and the handlers hold pointers to the stack
  of the call.
* **Ownership by convention.**  In the servers with workers a connection is an address that
  travels from epoll to an io thread, a queue, a worker and back to epoll; nothing but the
  order of the calls and the one-shot events keeps two threads from using it.  A main reactor
  gives it to a sub reactor before it knows that it is alive.
* **Bytes in any pieces.**  A codec takes in a message over several reads, in a buffer that
  grows and does not shrink, with an answer written in parts in between; a read may stop
  inside a head, and the peer may have sent the next request already.
* **Limits that are reached for good.**  A coroutine server has as many handlers as its pool,
  and the consumers of the half-sync/half-async ones serve one connection each.

What makes each component correct is stated in section 4 next to the run that checks it.
The hazards, with the line of each, are in `PROJECT.json`.

## 2. Modules

`Pool` holds the state of the pool and what hands the thread over, `Schedule` adds `Run()`,
and `EventLoop` is the other way to run a pool.  They have no next-state relations of
their own: each primitive extends `Schedule`, adds what its coroutines call and what its
`Co*Resume` function does, and forms `Next` from both; the client of BenchMark2 does the
same with `EventLoop`.  The servers that wait for events are `Conn` (the connections), which
`Reactor` (the loops) extends, which `HalfSync` (queue and workers, and the specification of
all of them) extends.  `Handlers` has the servers with one handler per connection; it extends
`Codec` and implements `Echo`.

| module | models |
|---|---|
| `Pool` | create, resume, yield, return |
| `Schedule` | the while loop, the scan and the resume phase of `Run()`; resumption by an event loop |
| `Mutex` | `CoMutex` |
| `RWLock` | `CoRWLock` |
| `CondVar` | `CoCond` |
| `Semaphore` | `CoSemaphore`, to be composed |
| `Channel` (`MCChannel` for TLC) | `Channel` over two semaphores |
| `BoundedQueue` | the abstract specification of a channel |
| `Flight` | `CoCallOnce` and `CoSingleFlight` |
| `Batch` | batches and `WaitGroup` |
| `EventLoop` | the heap of timers with its lazy cancellation, what epoll watches, the turn of `EventLoop::Run`; to be composed |
| `BenchClient` | a thread of BenchMark2: the clients, the rate limit, start and stop, on `EventLoop` |
| `Conn` | class `Conn` with the events of `epollctl.hpp`, and the peers: reading until a request is complete, writing with an offset, reset, on parts of messages |
| `Reactor` | the loops on events: plain, edge-triggered, select and poll, the io threads of HSHA1/2, main and sub reactors |
| `HalfSync` (`MCHalfSync` for TLC) | the queue and the workers of HSHA1/2; `Next` and the properties of all reactor servers |
| `Codec` | the framing, `DeCode` and its buffer, on bytes |
| `Echo` | the abstract specification of an echo server |
| `Handlers` (`MCHandlers` for TLC) | the ten blocking servers and the four coroutine servers |
| `Schedule_proofs` | lemmas on the scheduler, on queues and on sets of coroutines |
| `CondVar_proofs`, `Channel_proofs`, `Flight_proofs`, `Batch_proofs`, `HalfSync_proofs` | the theorems on each of these modules |
| `MutexAndClient_proofs` | those on `Mutex` and on `BenchClient` |
| `RWLockAndHandlers_proofs` | those on `RWLock` and on `Handlers` |

How the code maps to the models:

* **Granularity.**  There is one thread.  Control changes hands only in
  `CoroutineResume`, `CoroutineYield` and at the end of `CoroutineRun`, so one action is
  the code from one point where it can change hands, or where the client decides what to
  call next, to the next such point.  A wait loop `while (...) { enqueue; Yield(); }` is
  one action per turn: the first in the call, the later ones in an action `...Again`.
  A `Co*Resume` loop is one action per iteration of its innermost loop, because the
  coroutine it resumes runs in between.
* **`state`, `slave_cid_`, `not_idle_count_`** are the code's; `is_master_` is defined
  from `slave_cid_`.  `running` and `scan` are the program counter of `Run()`, `resuming`
  that of a `Co*Resume` function.
* **A `Co*Resume` call** is the same from `Run()` and from an event loop.  Each program
  uses one kind of primitive, so the other phases of `Run()` have nothing to do.  An
  unordered set is visited in any order.
* **The clients** are arbitrary programs: the running coroutine makes any call next,
  within the contract the module's head states (a mutex is released by its holder before
  it ends, calls are made in an order, a batch has a child, ...).  Where the code asserts
  the contract, the model assumes it; every other assertion is a property.
* **A failing assertion** in `CoroutineResume` would show as a coroutine that is resumed
  without being suspended: the action is not enabled, the loop is stuck, and the
  properties below named `...Resumable` or `WaiterKnown` say that it does not happen.
* **Pointers and payloads** are model values.  `CoCond`'s predicate may come out either
  way at each evaluation.
* **Time.**  `EventLoop` has no clock.  The heap is a set, from which `GetLastTimer` takes
  any timer that is not cancelled; it is due or not.  The deadlines are made of the time of
  day, so no order among them is safe to assume; the properties do not need one.
* **`BenchClient`** lets a client do everything up to the next call of the loop or the next
  decision of the peer in a step.  A client calls the loop's functions only while it has
  the thread, so the steps between two yields order nothing new; they keep the code's
  control readable.  System calls return any result the code tells apart: all or part of
  the bytes, would block, end of file, an error, and of a write a SIGPIPE, which nobody handles
  and which ends the process.  `EINTR` is retried at once and left out.
* **`HalfSync`** and the modules below it make a step of what a thread does from one access to
  shared state (a system call, the locked queue, a semaphore) to the next.  A connection that
  is deleted may be allocated again at the same address.  Which server it is, and its command
  line options, are chosen in the initial state and kept.  A turn of a loop handles what
  `epoll_wait` returned in any order.  Events are level-triggered except in `ET`, where one is
  due when it is asked for and when its cause recurs.  A one-shot event is disarmed when it is
  returned.  A failing `write` is a SIGPIPE at the second write after the peer has closed: it
  ends the process, and with it the system closes its descriptors, which the unix sockets of
  the other processes tell.
* **`Handlers`** describes a server by a record: how many workers, whether each has a listening
  socket, whether it is a process, whether it waits to be the leader, whether it accepts or
  waits for events, what runs the handler, through what connections go to consumers.  The
  record is chosen in the initial state.  One `read`, with `DeCode`, and one `write` are a step.
  A connection's bytes are those of its peer's requests, which pauses at the places it is
  given; a read takes what is there and has room.

## 3. Bounds

| bound | meaning |
|---|---|
| `coroutine_count_` | size of the pool, 3 (6 for batches: two parents with room for two children each) |
| `MaxCalls` | library calls one entry function makes; a coroutine it creates has no more than its creator has left.  When all are finished the master may create coroutines again, so slots are used again for ever |
| `Mutexes`, `RWLocks`, `Conds`, `Semaphores`, `CallOnces`, `SingleFlights` | the objects: two mutexes (nested locks), one lock, one condition variable, the two semaphores of a channel, one call-once and two single-flights (a nested call) |
| `MaxNotify` | notifications that add up undelivered, 2: one more than the waiters needed to run out of them |
| `Messages`, `buffer_size` | two messages in a channel of two places: both semaphores can be 0, and order shows |
| `max_concurrency_in_batch_`, `kMaxBatchSize` | two children, so that one finishes first; two batches, so that two finish in one turn |
| `rate_limit_`, `max_req_count_`, `Pieces` in `BenchClient` | one request per second for two clients, so that the limit stops one or both; two requests on a connection; messages in up to two parts |
| `MaxTimers`, `MaxLost` | two timers of a client that are in use or cancelled and not yet dropped from the heap; one lost by failures of `epoll_wait`, two in `BenchClientEnds`: with the stop's and the rate limit's lost the heap can be empty |
| `io_count`, `Mains`, `Workers`, `Conns`, `queue_buffer_size`, `Pieces`, `Room` in `HalfSync` | two loops, one main reactor, two workers, two connections that are allocated again and again, a queue of one place, messages of two parts, a send buffer that holds one: both queues are full and empty, an io thread waits for a place while the other works, every answer is blocked half-way, a main reactor passes to both subs and to one that has ended |
| `Servers`, `Requests`, `Sendings`, `Room`, `TINY_ECHO_HEAD_LEN` in `Handlers` | every server, coroutine pools of one and two; a peer with a message and two empty ones and a peer with one message; pauses inside heads, before a body, and in the middle of the next request; two bytes of send buffer, so that an answer blocks; a head of two bytes (four in the code), enough for the order of its bytes and a read inside it |

Three coroutines are enough for a holder, a waiter and one that comes between them, for
two waiters of one copy of a set, and for a slot that is used again while another waits.
A pool with a free slot and a full one both occur.  `MaxCalls` is 2, enough to lock, and
yield or lock a second time; 3 for the read-write lock, where a coroutine that read- and
then write-locks matters, and for the condition variable, where one that was woken waits again.

## 4. Runs

**`Mutex`** (`Mutex.cfg`, with fairness): mutexes are constructed and destroyed, locked in
an order, tried, held over yields.  `MutualExclusion` is the mutex's promise;
`WaiterQueuedOrServed` that a waiter popped from the queue finds the lock free, so it is
neither lost nor sent to the end; `QueueResumable` that no stale entry is left where
`CoMutexResume` would resume it; `RunReturns` that `Run()` ends.

**`RWLock`**: the same for readers and writers.  `ReadersOrWriter` relates the state of the
lock to who holds it.  `WaiterQueuedOrServed` depends on the drain loop stopping at a
writer while readers are in.  (The comment at `rwlock.cpp:90` says that only writers can
wait on a read-locked lock.  A reader suspended while it was write-locked still waits when
another reader has come in since; the run shows that it is served all the same.)

**`CondVar`**: `WaiterKnown` says that the set and the copy the delivery goes through hold
the suspended waiters, each in one of them, and nobody else;
`NotifyAllReachesAll` that a NotifyAll called outside the delivery is seen by all who
waited then (an auxiliary variable `owed` remembers them).  A NotifyAll that a woken
coroutine calls is overwritten by `cond->state = kNotifyNone` (`conditionvariable.cpp:65`)
and not covered by it.  The run stops checking for deadlock because the process may crash:

**`CondVarCrash`** (violation): more `NotifyOne` than waiters, and `CoCondResume`
dereferences `begin()` of an empty set (`conditionvariable.cpp:50`).

**`Channel`**: `IsQueue` is the refinement: the channel implements `BoundedQueue`.
`RoomAccounted` is the invariant behind it.  `PositiveIsTaken` is the liveness of the
semaphores.

**`Flight`**: `OneCaller` and `WaiterHasCall` together say that a single flight is reset
at the right time, after its last waiter has seen the result, and that who waits is known to
the object or to the copy that is being resumed; `CallEnds` that every wait
ends and a single flight is callable again, although a new key may be inserted into the
map under the iterator of the loop.

**`Batch`**: `BatchesConsistent` relates coroutines and batches over reuse of slots, and says
that `BatchAdd` finds a free slot, which holds because of the constructor's multiplication and
of no more parents than it was given; `ParentWaitsForAll` is the promise of BatchRun: a parent
goes on when all children have finished, and is listed once, by the last of them.

**`BenchClient`** (two clients, safety): `TimeOutHasWaiter` and `EventHasWaiter` say that what
the loop will call or touch on a client's stack belongs to the call the client is in, in
any order of events, deadlines and cancellations.  `StoppedIsSpent` is the rate limit: nobody stays
stopped while requests may be made.

**`BenchClientEnds`** (one client, safety and liveness): `RunEnds` says that after the stop the
loop ends.  With two clients the fairness conditions of all timers are beyond a few minutes;
the clients meet only in the rate limit, which `BenchClient` covers.  `RunEnds` has two
exceptions, and both are in the code: `Stopped` by a failed assertion, a SIGPIPE or an endless
`DeCode`, and a timer lost by a failure of `epoll_wait`.

`FailuresKnown` relates the heap, the ids and the descriptors that epoll watches to where the
clients are, as the `assert`s of `timer.hpp` and `epollctl.hpp` need.  Two of them can fail, and
the property says how: `ClearEvent`'s when the client has closed the connection before (`failed`
is `"clear"`), and `GetLastTimer`'s when failures of `epoll_wait` have lost the timers of both
the rate limit and the stop (`failed` is `"empty"`).  The second takes two losses, which this run
allows and `BenchClient` does not; each client has its own descriptor and timers, and
`OnlyKnownFailures` proves the property for every number of clients and of losses.

**`BenchClientClose`** (violation): a client that has made all requests of a connection closes
it and clears the event of descriptor -1 (`client.hpp:66`); epoll refuses and the process is
aborted.  The counterexample is a client with both of its requests answered.  A read that fails
or is too late ends at the same line; the property leaves that case out.

**`HalfSync`** (safety and liveness, seven servers and their options): `SoleOwner` says that a
connection is at one place (epoll, a loop, the queue, a worker, a unix socket), that nobody has
the address of one that is deleted, and that a process that has ended leaves none behind.
`EchoAccounted` follows each part of a request through socket, decoder, answer and socket;
it is the promise of an echo server, given that the peer waits for its answer.
`Answered` says that a complete request is answered, through both queues, edge-triggered
events, blocking sockets and the hand-over to a sub reactor that may be gone.  It is checked of
one connection, whatever the other does: no expression of the modules chooses among
connections, and the fairness conditions are the same for all, so what holds of one holds of
each (`FirstAssumption`).

**`Handlers`** (safety and liveness, fourteen servers, two of them in two sizes): `IsEcho` is the refinement: whatever the
pieces in which bytes come and go, what the server writes is the echo of whole requests, in
their order, and a connection that is accepted again starts anew.  The variables of `Echo` are
those of `Handlers` of the same names.  `OneMessageAtATime` says that a codec never has bytes
beyond its message, which `DeCode` would not come back from, and never asks `read` for no
bytes, which the handler would take for the end of the connection; it holds because each
message has a codec of its own.  `InOnePlace` says that a connection is in a backlog, in a queue,
with its handler, or watched for what its handler waits for, so that an event resumes the
coroutine it is for.  `Answered` lists the ends that the code has: the connection closes, the
server ends (SIGPIPE, a full pool of coroutines, the empty set of `CoCondResume`), or all
consumers of the half-sync/half-async coroutine servers have had the one connection each of
them serves.

Each property has a mutant in its module (or in `Pool`, `Schedule`, `EventLoop`), an operator marked "Mutant"
that changes an action the way a plausible slip in the code would; the property fails
when the mutant takes the action's place.

**Fairness.**  A coroutine that has the thread keeps executing, `Run()` goes round its
loop, and a `Co*Resume` loop goes on: weak fairness on those, because each is code being
executed by a thread that nothing else can take.  In `Channel` and `Flight` an event loop
is assumed to call the Resume function again and again (strong fairness: the master may
start it whenever it is at large, and is again and again).  No fairness is assumed of
what coroutines choose to call, of creation and of events.  In `BenchClientEnds` time
passes: a timer that stays in the heap comes to its front, and one that comes there again
and again is due (strong fairness on `Turn` and `Due` of each timer; deadlines do not
change, those of other timers grow).  In `HalfSync` every thread is scheduled, a thread
that is let into a semaphore again and again gets in (strong fairness of a loop), and
peers read what they are sent.  The last is needed and not guaranteed: with `is_direct` a
worker spins on a peer that does not read, and as many such peers as workers stop the
server.  The servers with select and poll leave their sockets blocking
(`selectreactorsingleprocess.cpp:81`, `pollreactorsingleprocess.cpp:77`), so a peer that stops
inside a request stops the only loop: there, and nowhere else, a peer that has begun a request
is assumed to complete it or to close.  `Handlers` makes the same assumption where one worker
serves one connection until it ends, with the addition that the peer closes in the end, as
those workers take the next connection only then.  In all others peers only read.

## 5. Proofs

The primitives are proved for every size of the pool, bound on calls and set of objects, the
load generator for every number of clients, parts of a message, requests and timers, the
reactor servers for every number of threads and connections and every size of the queue, of
messages and of send buffers, the servers with a handler per connection for every number of
connections, all requests, every length of a head up to four bytes, and every size of a pool
and of a send buffer.  Each proof module extends the module it is about (those of the
primitives also `Schedule_proofs`), and is laid out in the same way: the inductive invariant
`IInv`, the types, one lemma per action, the initial state, `AlwaysIInv == Spec => [](TypeOK /\
IInv)` and the theorems.  `HalfSync_proofs` does so three times, with an invariant on the
ownership of connections (`IInv`, without `TypeOK`), one on the parts of messages on top of it
(`DInv`), and one on the semaphores (`Counted`).  Two modules have a second part, on another
program: `MutexAndClient_proofs` the client of BenchMark2 (`ClientIInv`) and
`RWLockAndHandlers_proofs` the servers of `Handlers` (`ServersIInv`).  Two programs are in scope
of one module there, so `BenchClient` and `Handlers` name their initial states, next-state
relations and types after themselves (`ClientInit`, `ClientNext`, `ClientSpec`, `ClientTypeOK`;
`HandlersInit`, `HandlersNext`, `HandlersSpec`, `HandlersTypeOK`).

| module | theorem | property |
|---|---|---|
| the six of primitives | `Typed` | `TypeOK`, including that exactly the coroutine with the thread is in state `kRun` and that `not_idle_count_` is the number of slots that are not idle |
| `MutexAndClient_proofs` | `Exclusive`, `NoWaiterLost`, `Resumables` | `MutualExclusion`, `WaiterQueuedOrServed`, `QueueResumable` |
| | `ClientTyped` | `ClientTypeOK`, including that the rate limit is overdrawn by one request of each client at the most |
| | `TimersOwned`, `EventsAwaited`, `OnlyKnownFailures`, `NobodyLeftStopped` | `TimeOutHasWaiter`, `EventHasWaiter`, `FailuresKnown`, `StoppedIsSpent` |
| `RWLockAndHandlers_proofs` | `Exclusive`, `NoWaiterLost`, `Resumables` | `ReadersOrWriter`, `WaiterQueuedOrServed`, `QueueResumable` |
| | `HandlersTyped` | `HandlersTypeOK`, including that all workers together have no more handlers than coroutines |
| | `OnePlace`, `OneMessage` | `InOnePlace`, `OneMessageAtATime` |
| | `ServersEcho` | the refinement `IsEcho` |
| `CondVar_proofs` | `WaitersKnown`, `AllReached` | `WaiterKnown`, `NotifyAllReachesAll` |
| `Channel_proofs` | `RoomKept`, `ImplementsQueue` | `RoomAccounted`, the refinement `IsQueue` |
| | `ResumesOnlyWaiters` | `WaitersKnown`, which no run states: the assertion of `CoroutineResume` holds in `CoSemaphoreResume` |
| `Flight_proofs` | `CalledByOne`, `NobodyWaitsForNothing` | `OneCaller`, `WaiterHasCall` |
| | `ResumesOnlyWaiters` | `CopyWaits`, which no run states: the same for the two Resume functions |
| `Batch_proofs` | `Consistent`, `ParentWaits` | `BatchesConsistent`, `ParentWaitsForAll` |
| `HalfSync_proofs` | `Owned` | `SoleOwner` |
| | `EachEchoed`, `Typed` | `EchoAccounted`; `TypeOK`, including that the two semaphores of HSHA2 keep the queue to its places and give a worker a connection |
| | `HandledByOne` | the mutual exclusion that follows: no two threads handle the same connection, which is all that guards a `Conn` |

The assumptions are `PoolAssumption` (at least one slot), `CallsAssumption`, and those the
modules make of their objects: mutexes and locks are numbers (`MutexAssumption`,
`RWLockAssumption`), the values that stand for none are no objects (`CondAssumption`,
`SemaphoreAssumption`, `ObjectAssumption`), a notification can be pending
(`NotifyAssumption`), a channel has the two semaphores with their initial values
(`BufferAssumption`), and the pool has whole batches (`BatchAssumption`: at least one batch
of at least one child, and the number of slots is a multiple of a batch with its parent, as
the constructor multiplies it).  The servers have at least one loop (`ReactorAssumption`),
loops and main reactors are different threads (`ThreadAssumption`), what stands for none is
no connection and no thread (`NoneAssumption`), messages and send buffers have a part
(`ConnAssumption`), and the queue has a place and the workers, which `main` starts in a loop over
an `int`, are finitely many (`HalfSyncAssumption`).  The clients make at least one request on a
connection, of at least one part, with at least one timer, and the rate is not negative
(`ClientAssumption`).  `Handlers` assumes of a head that it has one to four bytes
(`CodecAssumption`; it is a `uint32_t`), of the connections that they are finitely many and of a
send buffer that it has room for a byte (`HandlersAssumption`), of a peer that it sends nothing
but requests whose length fits in a head (`RequestsAssumption`; `EnCode` writes
`htonl(msg.length())`, and the clients of the repository send what `EnCode` makes), and of the
servers what their `main` functions have in common: at least one worker and, of those with a
queue, one process with one loop (`ServersAssumption`).  The numbers of workers and coroutines
are free.

`Schedule_proofs` holds what they share: the steps of the scheduler keep the pool consistent
(an argument on cardinalities); `LeastExists`, that a set of numbers has a least member, which
stands in for induction; `StateStays`, that a coroutine in use which neither has the
thread nor gets it keeps its state; and what `RemoveAt`, `Tail`, `Append` and `SetToSeqs` do
to the entries of a queue and to their being distinct.

None of the properties is inductive by itself; the invariants that are, and why:

* **Mutex.** `MutualExclusion` and `WaiterQueuedOrServed`, with `FreeHasNoHolder` (`hold_cid`
  is invalid when the lock is free, or a new holder's entry would be mistaken for the old
  one's), `UsedIsKnown` (a mutex somebody holds or waits for is in `mutexs_`, so it is
  neither constructed nor destroyed under them), `WaiterSuspended`, `QueueEntries` (an entry
  is of a waiter or of the holder that was resumed past it) and `QueueUnique` (it is the
  only one, so that erasing one entry in `CoMutexUnLock`, and popping one in
  `CoMutexResume`, is enough).
* **Read-write lock.** The same scheme, with `HoldersRecorded` for who holds what, and
  entries that carry their type.  `WaiterHoldsNot` is needed in addition: a coroutine waits
  for a lock only when it does not hold it, so an entry is a waiter's or a holder's and
  `list::remove` never takes away an entry of a call that is still going on.
* **Condition variable.** `WaiterKnown` is inductive almost by itself.  The types are not:
  that `notify_count` never goes below -1 needs `ServingNotified` and `CountNotBelowZero`,
  since a woken coroutine may notify, which adds to the count `CoCondResume` is counting
  down.  `OwedWaits` says where those a NotifyAll owes a wake-up are found.
* **Channel.** `RoomAccounted` is inductive together with the types; the types need
  `SenderHasData`.  `WaitersKnown` relates the sets of the semaphores to where coroutines
  wait.  `ImplementsQueue` maps each step to `Put`, `Take` or a stutter; a `Put` finds room
  because of `RoomAccounted`.
* **Call-once and single-flight.** `CallerUnique` is `OneCaller` without counting.
  `CopyWaits` says that the object whose waiters are resumed stays finished whatever they call
  meanwhile.
* **Batches.** `Members` (who is in which batch, in both directions), `MembersLive`,
  `ParentInRun` (a parent runs until BatchRun, is suspended there, or goes on from there),
  `LoopKnown` (what the master's loop is in the middle of: no child runs while
  `CoroutineResume4BatchFinish` goes through its list, so nothing is added to the list that
  is then emptied), `ReportedOnce` (`ParentWaitsForAll` with the list's entries distinct
  rather than counted) and `Bounded`.  That `BatchAdd` finds a free slot is a pigeonhole
  argument on top (`RoomForChildren`): number the children of each batch; every coroutine in
  use is then a pair of one outside batches and a number up to the size of a batch, and if
  all slots are in use all pairs are taken, so the batch of the running parent is full.

* **Reactor servers.** `LoopOnce`, `QueueOnce` and `PassingOnce` say that none of the places
  has a connection twice, `Placed` relates the places of one connection to its home and to
  what is watched.  Why no other thread gets at a connection is in `LoopOwns`, and
  differs between the servers: a half-sync/half-async loop reads a connection only while its
  one-shot event is disarmed, so handing it over leaves it unwatched; the others keep the
  event armed and have nobody to hand it to.  `PassingOnce` ties a descriptor in a unix socket
  to the process that will receive it, so that what is lost with a process is what is released.
  Each way a connection moves (a loop gets it, begins, leaves, releases, pushes; a worker
  takes, leaves, releases; it is added, sent, received; its process ends) has a lemma of its
  own, and `PlacedStays` is the frame of all of them.  `HeldOnce` counts in the end.
  `EchoAccounted` rests on a second invariant, `DInv`, which is inductive given the first.
  `Echoed` has the four situations of a connection: a request is coming; its answer is written;
  the peer has all of the answer and may ask again before the server knows that it is done; the
  server is done and the answer still on its way.  `Located` says what whoever has the
  connection relies on: who writes it has an answer, who reads it has none, what is in the
  queue or with a worker is a whole request.  That two threads do not have it is what keeps
  this true.
  `Typed` needs a third, `Counted`: each place of the queue of HSHA2 is counted once in `Idle`,
  in the queue, or by a thread between waiting and posting, and each connection in the queue
  in `Fill` or by a thread about to post or to take it.

* **BenchMark2 client.** `ClientInv` says of each client where it may be without the thread
  (`ClientOK`), what epoll watches on its descriptor at each point of its program (`WatchOK`),
  and that the timers that can still run for it are none, or the one of the call it waits in
  (`LiveOK`, which is `TimeOutHasWaiter`).  `LiveOK` alone is not kept: `TimerStart` must find an
  id that nothing refers to, so `HeapInv` says that the heap, the ids and the cancelled ids fit
  together, that a timer taken out of the heap is not run twice, and that only clients cancel.
  `EventHasWaiter` is kept because the handler of an event resumes its own client only, and the
  one timer of a turn runs after all events of the turn.  `StartInv` says that each client is resumed the first time
  by the first handler and by nothing else.  `RateInv` bounds `temp_rate_limit_` from below by
  the number of clients that were stopped since the last refresh: each has taken one request
  too many.  It makes `ClientTypeOK` inductive, and shows more than `StoppedIsSpent`: the
  alternative `~ is_master_` in that property is never needed.
  `FailuresKnown` needs one fact more, in `FailureInv`: the timer of the rate limit is known but
  while its handler goes through the clients.  The stop's is known as long as the loop runs, and
  nobody cancels either, so an empty heap means that both are lost.
* **Servers with a handler per connection.** `ServersIInv` has two halves.  `PlaceInv` says
  where a connection is: in the backlog of its worker's socket, once (`BacklogOK`), in the queue,
  once (`QueueOK`), with the worker that runs its handler and has no event of it (`ServesOK`),
  among the events of its worker, which are about accepted connections only (`EventsOK`), and
  what is watched (`ArmedOK`); `PoolLimit` counts handlers and waiting consumers together, which
  is why a consumer that gets a connection does not need a new coroutine.  `DataInv` says how
  far the requests are read and answered.  `CodecAt(msg, n)` is the codec that has taken in the
  first `n` bytes of the request with message `msg`, and that is all a codec can be: `ReadOK`
  has a connection at the end of its requests with a new codec, or with `CodecAt` of the
  next request, short of its end; `WriteOK` has it with all of a request read and the answer
  written up to some byte.  Both say what has been written so far, as a part of `Wire`, from
  which the refinement follows: a `Read` stutters, a `Write` is `Answer`, a peer that sends is
  `Ask`, and whatever closes connections, one or all of a process, is `End`.  That `DeCode` takes
  `CodecAt(msg, n)` to `CodecAt(msg, m)` for whatever bytes come (`DeCodeReads`) needs that
  `ntohl` undoes `htonl` (`HeadIsRead`), that the requests lie one after the other in `Wire`
  (`WireSplit`), and that parts of sequences are put together as they should (`Part`,
  `AdjacentParts`, `PartOfPart`).

The induction theorems of the library are out of the provers' reach (they take an operator as
a parameter).  The facts that need induction are proved without them, from `LeastExists`:
the least number for which one fails is not 0 and not a successor.  They are what `FlattenSeq`,
which the library defines by a recursive function, makes of its sequences (`JoinExists`,
`FlattenIsJoin`, `JoinPrefix`), and that the handlers of all workers are no more than the
workers' coroutines together (`AllServed`).  `ntohl` is expanded for each length of a head
(`Digits`, `HeadIsRead`).

TLC has checked each of these invariants on the instance of its run before it was proved,
those of the reactor servers with a second main reactor as well.

Only model-checked: every liveness property (`RunReturns`, `PositiveIsTaken`, `CallEnds`,
`RunEnds`, `Answered` of `HalfSync` and of `Handlers`), because the proof system has no reasoning
on ENABLED and fairness.  Every invariant and both refinements that a run checks are proved.

## 6. Not modelled

Contexts and stacks (`swapcontext`), the library's memory, the text and numbers the
servers print.  Construction and destruction of primitives inside a
`Co*Resume` loop changes the container under its iterator, which is undefined behaviour
in the code; the models exclude it, except for insertion into `single_flights_`, which
`Do` makes itself.  Contracts that the modules assume and the code neither checks nor
documents are in the list of hazards (nested batches, an empty batch, a parent that
yields before BatchRun, two single flights of one key; in the reactor servers, a peer that
sends a request before it has the answer to the last, which a `Codec` that is used again does
not survive).

* `Sleep` and an event loop without a timer.  `Sleep`'s timer resumes a slot, and `Run()`,
  which resumes everything, may have been there before.
* Local variables.  A value stays in the slot after its coroutine has finished
  (`localvariable.cpp:12`): a batch child that sets nothing reads it instead of its parent's.
* What `DeCode` makes of -1 bytes in the BenchMark2 client, and the BenchMark client, which
  BenchMark2 has replaced.
* The channel of the half-sync/half-async coroutine server when it is full, and `CoMutex` and
  the others as used by demos: `Handlers` takes what it needs of the two primitives from what
  `Channel` and `CondVar` show of them, except for the crash of `CoCondResume`, which it has.
* `FD_SETSIZE`, failures of `accept` and `epoll_wait` that only repeat the turn, and of
  allocation.
* Command line, statistics, printing, demos and unit tests.

## 7. Plan

In this order:

1. Local variables on `Batch`; batches outside their contract.
2. `Sleep` on `EventLoop`, with `Run()` resuming the same slave.
3. Larger instances: three connections in `Handlers`, two main reactors in `HalfSync`.
