# Multithreading-Labs in TLA+

This directory models the programs of the repository in TLA+, checks small
instances of the models with TLC, and proves theorems about them with TLAPS.
Every definition that stands for code has an entry in `PROJECT.json` ("map")
with the lines it was translated from.

    tlc -config Queue.cfg ThreadSafeQueue.tla      check one instance
    tlapm ThreadSafeQueueProofs.tla                check the proofs of a module

## 1. The system

The repository holds five independent programs.

| Part | Source | State | Operations |
|---|---|---|---|
| Bounded task queue | `lab_3/queue.*` | queue, `accepting`, `stop`, `stopNowFlag`, `paused`, all under one mutex; the threads blocked in `cv.wait` | `push`, `waitPop`, `pause`, `resume`, `stopGraceful`, `stopNow` |
| Metrics | `lab_3/stats_tracker.*` | a `Stats` record, the open "queue is full" interval | `recordWaitTime`, `recordDroppedTask`, `noteQueueFull...`, `noteQueueNotFull...`, `finalize...` |
| Pool, workers, driver | `lab_3/thread_pool.*`, `worker.*`, `main.cpp` | the pool's stop flag, the threads, what each holds between two calls | `enqueue`, `pause`, `resume`, `shutdown_graceful`, `shutdown_now`, `Worker::run`, the producers and the task lambda of `main` |
| TCP server for minimum and maximum | `lab_4/cpp/src/server.cpp`, `protocol.h` | one `ClientState` per connection (data, status, error, result, `std::thread worker`) under its mutex | accept, DATA, START, STATUS, invalid messages, disconnect, the worker's computation |
| Its clients | `lab_4/cpp/src/client.cpp`, `lab_4/go_client/main.go` | the step of the dialogue, the result | connect, DATA, START, poll STATUS, close |
| Their protocol | `lab_4/cpp/include/protocol.h`, `main.go` | none between two calls | `sendMessage`, `recvMessage`, `sendAll`, `recvAll`: a header and a payload over a stream of bytes |
| Parallel computation | `lab_4/cpp/include/minmax.h`, `lab_1/main.cpp`, `lab_1/matrix.h` | one block of rows and one local result per thread | partition, scan, combine; lab_1's `main` tries seven numbers of threads |
| Minimum and its count | `lab_2` | the shared result, guarded by a mutex or held in two atomics | sequential search, search under a mutex, search with compare-and-exchange |
| Static file server | `lab_5` | a table of open files, one handle with one file pointer per path | accept, request, table lookup, transfer |

How they interact. In lab_3 producers, workers and a controller share the queue
(one mutex, one condition variable), the tracker (another mutex) and an atomic
flag; a call of the pool is several calls of those, with gaps between them. In
lab_4 a handler thread and a worker thread share one `ClientState`; connections
share nothing but the process, which an uncaught exception or a joinable
`std::thread` that is overwritten terminates for everybody; client and handler
exchange whole messages over a connection that knows bytes only, and the worker
calls the parallel computation of `minmax.h`, which is that of lab_1 with other
bounds on the number of threads. In lab_2 the threads share one result; in lab_1
and `minmax.h` each has its own, and they are combined after the join. In lab_5 threads share the table under a critical section and
the file pointers without one.

What is hard, and what would make each part correct:

* **Queue.** `push` notifies one thread under the lock, the stops and `resume`
  notify all after it, `pause` can swallow a notification, threads wake
  spuriously, and an awake thread may take the task another was woken for. No
  wake-up may be lost, a stop must be final and must release every waiter.
* **Metrics.** Times are read before the mutex is taken and are old when used.
* **Pool.** A task must be run once or accounted for, whichever of the two
  shutdowns races the producers; counters must be exact when they are printed;
  shutdown must end.
* **Server.** The join of the old worker happens under the mutex that the
  worker needs; the worker refers to the handler's stack; a result could belong
  to a previous matrix; the client may vanish at any point.
* **Clients.** Polling competes with the worker for the mutex.
* **Protocol.** `send` and `recv` split the bytes anywhere and a connection
  breaks anywhere; a receiver must never take part of a message, or the end of
  one and the start of the next, for a message.
* **Searches.** Blocks must partition the array or the rows, with more threads
  than rows and remainders too; in lab_2's second search the minimum and the
  count are two atomics updated one after the other.
* **File server.** A race to open a file; a table that gets full; a file
  pointer that another request moves; a client that stays and does not read.

`PROJECT.json` lists each of these under "hazards" at the line where it bites,
with the properties that would notice.

## 2. The modules

| Module | Models | Composes |
|---|---|---|
| `ThreadSafeQueue` | the queue under arbitrary client threads | |
| `StatsTracker` | the metrics under arbitrary callers | |
| `ThreadPool` | pool, workers, producers, task, controllers | `ThreadSafeQueue`, `StatsTracker` |
| `TaskPool` | what the pool promises, without threads or locks (abstract) | |
| `MinMaxServer` | handler and worker threads under arbitrary clients | |
| `MinMaxSession` | the shipped clients with the server | `MinMaxServer` |
| `MessageChannel` | what a direction of a connection promises, without bytes (abstract) | |
| `MessageStream` | framing over a stream of bytes that may break | refines `MessageChannel` |
| `MinMaxParallel` | both versions of `findMinMaxParallel`, under lab_1's `main` and lab_4's worker | |
| `ArrayScan` | array, sequential search, blocks and threads of lab_2 | |
| `MinCountMutex`, `MinCountAtomic` | the two parallel searches | `ArrayScan` |
| `MinCountMain` | one round of lab_2's `main` | both searches |
| `FileServer` | threads, table and file pointers of lab_5 | |
| `MCThreadPool`, `MCFileServer`, `MCMessageStream` | values for TLC | |
| `ThreadSafeQueueProofs`, `MinMaxServerProofs`, `MinMaxSessionProofs`, `MessageStreamProofs`, `MinMaxParallelProofs`, `FileServerProofs` | theorems | the module each is named after |
| `ThreadPoolProofs` | theorems about the pool and about its metrics | `ThreadPool`, `ThreadSafeQueueProofs` |
| `MinCountProofs` | theorems about both searches and lab_2's `main` | `MinCountMain` |

Definitions called "Mutant of ..." are wrong versions of an action, each a
plausible slip; no specification uses them. Every property of a passing run is
violated when one of them replaces the action it is a mutant of ("mutants" in
`PROJECT.json`).

### Queue and metrics

A critical section is one action. `cv.wait` unlocks, so a call of `waitPop` is
`EnterWaitPop`, any number of `Sleep` and wake-ups, and `PopTask` or
`PopNothing`; `sleeping` is the set of threads that block in the condition
variable. `notify_one` inside `push` belongs to `Push`; the `notify_all` that
follows the unlock in `resume`, `stopGraceful` and `stopNow` is the step
`NotifyAll` of a thread in `notifying`, so anything may happen in between.
`size()` and `capacity()` change nothing and are left out.

In `StatsTracker` every method takes a time that was read earlier: any value up
to the present clock. `averageWaitMs` is left out (a floating-point mean that
nothing reads).

### Pool

`ThreadPool` owns only what threads keep between calls: program counter, the
task in hand, `sizeAfter`, the clock reading, the producer's loop variable, and
what is left of a controller's program. The queue's and the tracker's actions
are conjoined with the thread's step. A controller's program is a sequence of
the steps of the public methods: `ShutdownNow` is "set the flag, stop the queue,
finalize, join". `MainProgram` is `main.cpp`: pause, resume, a shutdown, join
the producers, read the metrics, and the destructor's `shutdown_graceful`. The
constant `Programs` is the set of programs from which a run starts, so that one
run covers both settings of the command line. A second controller stands for
another thread that uses the public methods.

The task is the lambda of `main.cpp`: it logs its start, polls the pool's flag
before each sleep, and logs that it is cancelled or finished. The log is
reduced to `outcome`, the last line about each task.

`TaskPool` says what a caller may rely on: tasks are accepted while there is
room, started in that order, at most one per worker at a time, and each ends in
exactly one way. The refinement mapping `Promise` reads a task's stage off the
producers' and workers' positions and the queue; `KeepsPromise` is checked as a
property.

### Server and clients

A matrix is a model value standing for its own minimum and maximum, so "the
result is stale" is `result # data`. Message framing, sizes and byte order are
reduced to what the receiver makes of a message: a command, a payload it
answers with `ERR_INVALID_PAYLOAD` (`INVALID`), or a header `recvMessage`
refuses (`GARBAGE`). The handler's `pc` is the handler it runs, `outbox` the
reply it is about to send: DATA, START and STATUS keep the mutex until
`sendMessage` returns, which may block on a full channel, and meanwhile the
worker cannot store its result (`LockedByHandler`). `HandleData` with a finished
worker goes through `join` with the mutex held. `Terminate` is
`std::terminate`. `ResourcesMayFail` says whether the creation of a thread or the
allocation of memory may throw: `AllocationFails` is the payload or the matrix
for which there is no memory, `ComputationFails` covers the two ways this ends inside
`findMinMaxParallel` (caught, or thrown through a vector of joinable threads):
they are `"threw"` and `"terminated"` of `MinMaxParallel`, whose other outcome,
`ParallelAgrees`, is what the server's model takes for the result.

`MinMaxSession` replaces the arbitrary clients by the dialogue that `client.cpp`
and `main.go` share; a client is also the name of the matrix it generates.

### Protocol

`MessageStream` is one direction of a connection. A unit is a few bytes; a
message is `HeaderSize` units and a payload. `sendMessage` fills `buffers` with
what it passes to `sendAll`: the header and then the payload in C++, both in one
buffer in Go. `SendSome` and `RecvSome` are single calls of `send` and `recv`
and move any number of units that fits. `recvMessage` wants a header, checks it
(`ParseHeader`), and wants as many units more as the header announces. `Break`
loses any tail of what is under way. A message is received as the sequence of
its units, so that a mixture of two messages would be visible. The Go client
does not check magic number, version and length when it receives; from a server
that sends valid headers this makes no difference, and it is left out.

`MessageChannel` has no bytes: messages arrive whole, once, in order, and they do
arrive unless the connection breaks. That is what `MinMaxServer` assumes of its
channels; `KeepsMessages` says that `MessageStream` provides it.

### Parallel computation

`MinMaxParallel` holds both versions of `findMinMaxParallel`, since they cut and
combine alike: `program` says which. lab_1 divides by whatever number of threads
its `main` computed from `hardware_concurrency()` (`threadConfigs`); lab_4
answers small requests sequentially and bounds the others by the rows
(`Sequential`, `Threads`). The caller cuts one block after the other while
earlier threads already compare. The matrix is flat in both (lab_1 keeps a
vector of rows, which the threads read in the same order). Nobody writes to the
matrix and each thread writes to its own local result, so one comparison is one
step. For the same reason two loops are given by what they compute, the least and
the greatest of a set: the sequential search, which no other thread runs beside,
and the combination of the local results, which follows all joins. Only lab_1
skips threads for which no row is left (`SkipThread`). `main` runs its seven
configurations on five sizes of matrix; the model takes one matrix of any size and
any content. `ThreadFails` is a `std::thread` that cannot be created.

### Minimum and its count

The caller computes one block after the other while earlier threads already
work. Under the mutex a visit is one step. With atomics each load, exchange,
store and addition is one. Loads of `minValue` are relaxed or acquire: a load
may return any earlier value of `minValue` that is not older than the thread has
seen (values only fall, so "older" is "larger"); `compare_exchange_weak` may
fail spuriously. The sequential search is the recursive function
`findMinAndCount`, the reference the results are compared with. The empty array,
which `main` never passes, is left out.

### File server

A file is the number of reads of `BUFFER_SIZE` bytes it takes; a body is the
sequence of pieces sent. `SetFilePointerEx`, `ReadFile` on the shared handle and
`send` are separate steps, and the piece that was read waits in `buffer` between
the last two. A path is the string that the table is searched for, so two
spellings of a file's name are two paths with a handle each. Opening a file that
exists may fail.

`peer` is the other end of a connection: `send` returns while it has `"room"`,
blocks without any limit while it is `"full"`, that is while the client stays and
does not read, and may fail once it is `"gone"`. A client reads (`ClientReads`)
and leaves (`ClientLeaves`) when it likes. The two calls of `send` that make up a
404 or 405 response are one step: nothing comes between them that another thread
could see. `disturbed` is a history variable of the model: the connections whose
file pointer another thread has moved during their transfer.

## 3. The runs

| Run | Instance | Shows |
|---|---|---|
| `queue` | 5 threads, capacity 2 | `NoLostWakeup`, `StopWakesEveryone`, `StopIsFinal`, `StopReleasesWaiters`, `TasksReachWaiters` |
| `pool_tasks` | 2 workers, 2 producers with a task each, capacity 1, clock to 2, both shutdowns | `DurationsOrdered`, `AtMostOnce`, `NothingLost`, `GracefulCompletes`, `SnapshotExact`; the pool implements `StatsTracker!Spec` (`TrackerSpec`) |
| `pool_program` | 2 workers, one producer with 2 tasks, capacity 2, both shutdowns, a shutdown that races pause and resume, and a pause without resume | `ProgramEnds`, `EveryTaskServed`, `KeepsPromise` |
| `minmax` | one connection, 2 matrices, 2 messages per channel, threads and memory may be refused | `DoneMeansCurrent`, `NoJoinDeadlock`, `RunningMeansWorker`, `NoOrphanWorker`, `ConnectionsReleased` |
| `minmax_restart` | one connection, no failures | `ServerStaysUp` is violated |
| `session` | 2 shipped clients, threads and memory may be refused | `ShowsOwnResult`, `RepliesAsExpected`, `StartFindsNoWorker`, `EveryClientAnswered` |
| `stream` | 3 messages (no payload, 2 units, 3 where 2 are allowed), header of 2 units, room for 3 on the wire, both ways of sending | `KeepsMessages`: the framing implements `MessageChannel!FairSpec`, fairness included |
| `matrix` | every matrix of 1 to 3 rows, 2 columns and 2 values; lab_1 on 1 to 4 logical cores, lab_4 with up to 4 threads; threads may fail | `ParallelAgrees`, `EveryCallReturns`; `TypeOK` says that no index leaves the matrix |
| `count` | every array of 5 elements with 3 values, 3 threads | `BlocksPartition`, `ResultOfVisited`, `SearchesAgree` |
| `count_atomic` | 3 elements, 2 threads | `AtomicAgrees` is violated |
| `file` | 2 requests, 3 paths of which 2 exist, files of 3 pieces and of none, a table with one place, clients that stop reading or leave | `OneHandlePerPath`, `BodyIntactIfUndisturbed`, `ServedForEver`, `RequestsEnd` |
| `file_concurrent` | 2 requests, files of one piece | `BodyIntact` is violated |

The modules' type invariants are checked in the same runs, that of the server
in `minmax`. Deadlock is checked
in all of them; a program that is over stutters in `Finished`.

**Bounds.** A lost wake-up needs a sleeper, a notified thread, a thief, and one
that pauses or stops: four threads, so five leave one over, and a second task
makes the second notification matter. Two producers and a queue of one place
give every mix of acceptance, refusal for lack of room and refusal after a stop;
two tasks of one producer in a queue of two places give an order that could be
broken. The server's connections share only the process, so one connection with
arbitrary messages is enough for what concerns a connection, and two messages
in each channel are enough for requests that overtake replies; the session has
two connections to show that neither disturbs the other. Five elements for three
threads give blocks of two and one elements, so the remainder is at work. Three
rows are fewer than most of the numbers of threads and more than some: blocks of
unequal length, of one row and of none occur, and 1 to 4 cores include the two
numbers for which half the physical cores is zero. A wire with room for three
units holds the end of one message with the start of the next, and less than any
message with a payload. Of two requests for files one can be served, or stand
blocked in `send`, while the other disturbs it, and one can come to the table and
the file pointer the other has left behind; an empty file is the boundary at which
nothing is read. `MaxTime` bounds the clock, `MaxPending` and `MaxSent` the
messages under way and sent, `MaxRows` and `MaxRequested` the matrices and the
numbers of threads.

**Fairness.** A thread of the program that can take a step eventually takes one
(weak fairness per thread), because the operating system schedules it and the
mutexes are fair enough. Nothing is owed by clients of the servers, by the clock
or by spurious wake-ups, and nothing obliges a client of the queue to call it.
`send` and `recv` have no time limit in any of the programs, so a thread that is in
one of them may stay there for ever while its client is connected:
`ConnectionsReleased` speaks of the clients that are gone, and `RequestsEnd`
excepts exactly the connection whose own client stays and from some moment on
never reads. What it shows is that one such client holds up no other thread.
The only strong fairness is that of the worker in `MinMaxSession`: its obstacle
is the mutex, which the handler takes for each STATUS and leaves free during the
100 ms for which a client sleeps between two polls. `MinMaxServer` itself assumes
weak fairness only; there the client may poll without rest, and no property says
that the worker ever gets the mutex while it does. `MinMaxParallel` is fair to
the caller and to the threads as a group: their work is finite, so no thread is
left out. In `MessageStream` a call of `send` or `recv` that can go on does, a
receiver receives again, and an end whose call has failed closes the socket, as
handlers and clients do; nobody has to send anything.

`ProgramEnds` and `EveryTaskServed` except a pool that stays paused: `pause`
without `resume` keeps its workers asleep (section 4). `StopReleasesWaiters` and
`TasksReachWaiters` except a queue that stays paused. `TasksReachWaiters`
also covers the runs in which nobody ever stops the queue, where no stop's
`notify_all` makes up for a wake-up that was lost. `EveryCallReturns` excepts
the machines on which lab_1 divides by zero.

## 4. What disagrees with the code's own words

Three runs end in a violation; "findings" in `PROJECT.json` quotes what each
contradicts.

* `minmax_restart`: START after DONE or ERROR, without a new DATA, assigns to a
  `std::thread` that is still joinable and terminates the server. The shipped
  clients never do this (`StartFindsNoWorker`).
* `count_atomic`: `count.store(1)` follows the exchange of the minimum as a
  separate step, so additions in between are lost and late additions for an old
  minimum are counted.
* `file_concurrent`: requests for the same file share a file pointer; a body may
  be empty or cut short under the `Content-Length` of the whole file.

Some more is no run of its own. `pause` after `stopGraceful` hides the stop from
the wait predicate, so workers that were busy go to sleep and the shutdown joins
them for ever, although `thread_pool.h` describes `shutdown_graceful` as a correct
end; `ProgramEnds` holds for `pool_program` only because of the exception it
makes for a pool that stays paused. In `lab_1/main.cpp:119` half the physical
cores is zero on a machine with two or three logical ones, and
`findMinMaxParallel` divides by it: `EveryCallReturns` states this as the only
case in which lab_1 does not end. In `stats_tracker.cpp:68` zero
means "no minimum yet", so a minimum of zero is forgotten. The notes "full" and
"not full" may reach the tracker in another order than the operations on the
queue they report, so `queueWasFull` may be wrong until the next note, and
intervals may overlap, so that their sum exceeds the time that passed. Neither server limits
the time of a `send` or `recv`: a client of lab_4 that stays connected and does
not read keeps its handler in `sendAll` (`protocol.h:84`), with the mutex that its
worker needs, one of lab_5 keeps its thread in `send` (`server.cpp:153`) or, if it
sends nothing, in `recv` (`server.cpp:102`). lab_5
takes one `recv` for a whole request (`server.cpp:102`): a request line that
arrives in parts is not answered. `lab_5/README.md:15` names a page
`second_page.html` that does not exist.

## 5. The theorems

`tlapm` checks the following for every value of the constants that satisfies the
assumptions the modules state. Every invariant that a run checks and that holds is
among them.

### The queue

* `ThreadSafeQueueProofs!TypeCorrect`: `Spec => []TypeOK`.
* `StopNowLeavesNothing`: after `stopNow` the queue is empty and stays so.
* `WakeupsAreNotLost`: `Spec => []NoLostWakeup`, for any finite set of threads
  (`ThreadAssumption`) and any capacity. The invariant is inductive together
  with `TypeOK` and `StopNowEmpties`: a push adds one task and, if anybody
  sleeps, one awake thread; a pop takes one of each; whoever goes to sleep has
  found the queue empty or paused; and a call that makes a sleeper's condition
  true without waking it has put its thread into `notifying`. `StopNowEmpties`
  is needed where `waitPop` returns without a task: then the queue is empty, or
  `stopNow` has emptied it, so one awake thread fewer does no harm.
* `StopsWakeEveryone`: `Spec => []StopWakesEveryone`. A thread falls asleep only
  when the wake condition is false, which with a stop means that the queue is
  paused, and whoever ends the pause has a `notify_all` to make.
* `StopsAreFinal`: `Spec => StopIsFinal`, an action property, from
  `StopNowEmpties`: only `Push` adds a task, and it is refused after a stop.

### The pool

`ThreadPoolProofs` holds for any number of producers and of tasks, any workers up
to the limit, any capacity, and any set of programs of the controllers, unless a
hypothesis is named. It assumes `ThreadsAssumption` (workers, producers and
controllers are different), `WorkerAssumption`, `BoundsAssumption`,
`NoTaskAssumption`, `ProgramAssumption` and `TrackerAssumption`, which TLC
evaluates in the pool's runs.

* `TrackerTypeCorrect` and `TrackerKeepsOrder`, about the metrics alone: shortest
  <= longest <= total, whatever old times the callers pass, by the invariant
  `TrackerInv == Tracker!TypeOK /\ Ordered(stats)` and the lemma
  `RecordKeepsOrder` about one recorded interval.
* `PoolLosesNoWakeup`, `PoolStopWakesWorkers`, `PoolStopIsFinal`: the queue's
  theorems, which hold inside the pool. The pool's actions are composed of the
  queue's, so a run of the pool is a run of `ThreadSafeQueue` by construction (the
  lemma `PoolUsesQueue`); that a thread makes no second call while it is in one is
  part of the composition and not a result.
* `PoolUsesTracker`: `Spec => TrackerSpec`. A time that is passed on was read
  before (`Readings`), and the size passed with it is within the capacity; with
  `TrackerKeepsOrder` follows `PoolDurationsOrdered`.
* `PoolTypeCorrect`: `Spec => []TypeOK`, from `Sound == Positions /\ Queue!TypeOK
  /\ Data` and the types of the tracker.
* `TasksRunAtMostOnce`, `NoTaskIsLost` and `GracefulShutdownCompletes`:
  `AtMostOnce`, `NothingLost` and `GracefulCompletes`. None is inductive. One
  invariant, `TaskInv`, says where each task is: the queue holds no task twice
  and none that a worker has, was logged or was refused (`Queued`), no two workers
  have the same one (`InHand`), only tasks that `enqueue` has left behind are
  logged, and the started ones are in somebody's hands (`Logged`, `Begun`). A
  worker that leaves `waitPop` without a task has seen a stop and an empty queue
  (`EmptyHanded`), and a stopped queue accepts nothing (`Stops`): hence what all
  workers leave behind after a graceful shutdown is finished.
* `ReportsAreExact`: `SnapshotExact`, if the programs are such that the metrics
  are read after both joins (`ReportsAfterJoins`). `Counters` relates the two
  counters to the log at every moment: refused tasks are counted one by one, waits
  are counted once for each `pop` and again at the end of each task; `ReportInv`
  carries "joined, or the join is still to come" along the program.
* `PoolKeepsPromise`: `KeepsPromise`, the pool implements `TaskPool`, if a program
  sets the pool's flag before it stops the queue (`FlagsBeforeStops`), as
  `shutdown_now` does. Without it a task could be thrown away in a state in which
  the abstract pool has not been shut down. `Staged` says that the cases of the
  refinement mapping exclude one another, and so gives the stage of every task on
  both sides of a step.
* `MainProgramsQualify` (a lemma): `main.cpp`, with either shutdown, satisfies the
  two hypotheses; TLC's runs have no other programs with a report.

### The server of lab_4 and its clients

* `MinMaxServerProofs!TypeCorrect`: `Spec => []TypeOK`, with `OutboxFilled` (a
  handler that is sending has a reply) as the strengthening. Assumes
  `ServerAssumption`.
* `ResultsCurrent`, `JoinTerminates`, `RunningIsWorker`, `WorkersJoined`:
  `DoneMeansCurrent`, `NoJoinDeadlock`, `RunningMeansWorker` and `NoOrphanWorker`
  hold for any set of clients, any matrices and any capacity of the channels, and
  whether or not threads and memory can be refused. One invariant, `ServerInv`, gives all
  four. It adds that a worker that computes has the matrix that is stored
  (`job[c] = state[c].data`): DATA is refused while RUNNING, RUNNING means that
  the worker computes, and so the matrix cannot be replaced under it. `Locality`
  reduces every step to the connection that takes it.
* `MinMaxSessionProofs!ResultsAreOwn`, `ProtocolRespected`, `StartsAreSafe`:
  `ShowsOwnResult`, `RepliesAsExpected` and `StartFindsNoWorker` for any number of
  shipped clients. A session is a run of the server (`SessionUsesServer`), so the
  server's theorems are cited. `SessionInv` adds the conversation: a client and its
  handler have one message between them, which is the request under way, the one
  the handler works on, or the reply; which exchange this belongs to tells how far
  the `ClientState` has come (`DataExchange`, `StartExchange`, `StatusExchange`);
  and before START there is no worker, after DATA the stored matrix is the
  client's (`Progress`). The invariants of the run are not inductive by
  themselves: `RepliesAsExpected` does not know what the handler will answer, and
  what a client that failed left behind is still handled.
* `OwnClientsAreHarmless`: with `ResourcesMayFail = FALSE`, the shipped clients
  never take the server down, however many there are: `ServerStaysUp`, which other
  clients violate (`minmax_restart`). The hypothesis is the code's: a thread that
  cannot be created, or memory that is refused, does terminate the server.

### The protocol

`MessageStreamProofs` holds for any messages and lengths, any size of the header,
any `MaxPayload` and any room on the wire (`MessageAssumption`).

* `TypeCorrect`: `Spec => []TypeOK`; above all, `recvAll` never holds more than
  it was asked for.
* `MessagesArriveInOrder`: what was received is the beginning of what was sent.
* `FramingImplementsChannel`: `Spec => Channel!Spec`, the safety half of
  `KeepsMessages`. The invariant `StreamInv` looks at the sequence of all units
  that were ever sent, cut where messages end (`Cut`). What was received ends at a
  cut; from there on the header and the units the receiver has, the wire and, as
  long as the connection holds, the buffers follow one another without a gap
  (`UnderWay`). So the units of a header are the beginning of the next message,
  its first unit tells which message that is, and when `Wanted` units have
  followed they are exactly the rest of it (`NextMessage`). `SplitAt`, `JoinAt`
  and `GrowAt` are the lemmas about cutting and joining parts of a sequence.

### Parallel computation

* `MinMaxParallelProofs!TypeCorrect` and `ParallelSearchAgrees`: `ParallelAgrees`
  for every matrix, any number of cores and any number of threads. The invariant
  says that after `i` blocks the first `i * q + min(i, r)` rows are dealt, where
  `q` and `r` are quotient and remainder (`RowsDealt`; hence all rows after the
  last block), that every dealt element lies in a block (`Covered`), that a local
  result bounds what its thread has compared (`Bounding`) and is made of elements
  (`Attained`, also for a thread that got no row and takes the first element).
  The result then bounds every element and is one. Assumes `MatrixAssumption`
  and `CoresAssumption`.

### Minimum and its count

* `MinCountProofs!TypeCorrect`: `Spec => []TypeOK` for one round of `main`. The
  count of the atomic search is wrong (section 4) and yet bounded: it never
  exceeds the number of elements that have been visited, since a thread that
  raises it moves on in the same step (`ValuesInv`).
* `BlocksDisjoint`: `BlocksPartition` for every array and number
  of threads, by the same count of dealt elements and the order of the blocks
  (`Ascending`).
* `ResultsOfVisited` and `MutexSearchCorrect`: under the mutex the shared result
  is that of the elements visited so far, and in the end that of the array. The
  lemma about `Include` says that one step of the sequential search extends a
  right result by an element; a visit moves exactly one element from `Pending`
  to the visited ones because no other thread has it.
* `AtomicMinimumCorrect`: with atomics the minimum is right. `AtomicInv` says that
  no value the minimum has had, and so none a relaxed load returns, is below the
  present one, and that a thread past its comparison has an element that is not
  below it (`Compared`): whoever moves on leaves an element that the minimum
  covers. Both theorems speak of the array itself, not of `findMinAndCount`.
* `SearchesReturnTheSame`: `SearchesAgree`, the comparison `main.cpp` makes with
  the sequential search. `SearchIsRight` says that `findMinAndCount` returns the
  least element and its count for every length: induction over the lengths for
  which this is true, taken as a set of numbers, needs no theorem with an operator
  as parameter. Minimum and count of an array are unique, so two right results are
  equal.
  All assume `ScanAssumption`.

### The file server

* `FileServerProofs!TypeCorrect`, `HandlesUnique`, `BodiesIntact`, `PagesStay`:
  the type invariant, `OneHandlePerPath`, `BodyIntactIfUndisturbed` and
  `ServedForEver` for any connections, paths, sizes and limit of the table. For a
  transfer that nobody disturbed the file pointer equals the number of pieces sent
  and in hand, the piece in hand is the one that follows those sent, and a step of
  another connection that would move the pointer makes the transfer disturbed;
  nothing ever leaves the table, so what was served stays. Assumes
  `FileAssumption`.

### What is only model-checked

Liveness: `StopReleasesWaiters`, `TasksReachWaiters`, `ProgramEnds`, `EveryTaskServed`,
`ConnectionsReleased`, `EveryClientAnswered`, `RequestsEnd`, `EveryCallReturns`,
and the half of `KeepsMessages` that says that messages arrive. They rest on
fairness, that is on `ENABLED`, which the prover does not treat. The three
violations of section 4 are TLC's counterexamples. Nothing is proved about the
instances' bounds: `MaxTime`, `MaxSent`, `MaxPending` and the rest are arbitrary
in the theorems, so that a bound hides nothing from them.

## 6. Not modelled

* The width of the arithmetic in the size check of `handleDataCommand`
  (`server.cpp:70`), the byte order inside the fields of a message, the
  validation the Go client omits, socket set-up.
* Empty matrices and arrays: `main` of lab_1 and lab_2 pass none and the server
  refuses them. In lab_2 a thread that cannot be created, which ends the program
  before anything is compared.
* A worker of the pool that cannot be started: the exception leaves the
  constructor of `ThreadPool` (`thread_pool.cpp:9-11`) and there is no pool.
* Errors of `ReadFile` and `SetFilePointerEx` on a file that lab_5 has opened.
* lab_1's repetition of the same measurements for five sizes of matrix.
* Content types and header texts of lab_5; a file is a whole number of reads.
* `averageWaitMs`, the time measurements and random data of the labs.
* Build files, static pages, the load generator.

## 7. Plan

Done: every component of the programs is modelled; every invariant and every
action property that a run shows to hold is proved, as are the refinements
(metrics inside the pool, `TaskPool` by the pool, the safety half of
`MessageChannel` by the framing).

1. The composition that is still only in words: that the outcomes of
   `MinMaxParallel` are what the worker of `MinMaxServer` takes for the result,
   and that its channels are two `MessageChannel`s.
2. For the liveness properties, the part that needs no fairness: a measure
   that every step of a search (`EveryCallReturns`) or of a transfer
   (`RequestsEnd`) decreases, so that a run can only stop, not go on for ever.
3. `StatsTracker`: what zero in `fullQueueMin` does to the reported minimum
   (`stats_tracker.cpp:68`), as a theorem about sequences of intervals.
