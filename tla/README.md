# A TLA+ verification of libcppx

libcppx is a C++ library of building blocks for low-latency programs (`src/base`:
channels, threads, a task scheduler, a logger, an allocator, JSON and time
utilities) and a TCP engine built on them (`src/network`).  This directory holds
TLA+ models of its concurrent core, the TLC configurations that check them on
small instances, and theorems about them with proofs that TLAPS checks.

The models are translated from the code, not from its documents.  Where the two
disagree, or where the code disagrees with a test, a run whose expected result is
a violation shows it (section 6).

## 1. Inventory of the system

| Part | State it keeps | Operations | Interacts with | Status |
|---|---|---|---|---|
| Fixed-size SPSC channel (`channel/spsc_fixed_bounded_channel.cpp`, `channel_ex.h`) | ring of equal slots; producer cursor and its cached copy of the consumer's; the same mirrored | New, Post, Get, Delete, IsEmpty, GetSize; Push, Pop of `IChannelEx` | two threads, no lock; used by the logger and by the send buffer | modelled, proved |
| Variable-size SPSC channel (`channel/spsc_variable_bounded_channel.cpp`) | ring of 8-byte units, entries with headers, placeholders; cursors as above; counters | New/NewEntry, Post, Get/GetEntry, Delete, IsEmpty, GetSize | two threads, no lock | modelled, proved |
| Variable-size MPSC channel (`channel/mpsc_variable_bounded_channel.cpp`) | - | - | - | whole file under `#if 0` |
| Task scheduler (`thread/task_scheduler_impl.cpp`) | map from due time to task, next id, batch vector, thread | PostTask (three kinds), CancleTask, Start, Stop, Run | callers on any thread, its own thread, the clock, the tasks' functions | modelled, proved |
| Thread (`thread/thread_impl.cpp`) | m_bRunning, m_eSetState, m_eCurrState, the std::thread | Bind, BindCpu, BindNode, Start, Stop, Pause, Resume, Run, destructor | scheduler, logger, dispatchers own one each | modelled, proved |
| Thread manager (`thread/thread_manager_impl.cpp`) | sets of threads, thread-local blocks, one mutex | CreateThread, DestroyThread, GetThreadLocal, ForEachAllThreadLocal | every owner of a thread | modelled but RegisterThreadEventFunc, proved |
| Spin lock (`thread/spin_lock_impl.h`) | one flag | Lock, Unlock, TryLock | logger, send buffer | Lock and Unlock modelled and proved, in the logger |
| Logger (`logger/logger_impl.cpp`) | channel of item pointers, spin lock, condition variable, open file and its size | Log, LogFormat, Start, Stop, Run, WriteLog, OpenLogFile, CheckFileSwitch | many producers; fixed channel; thread; the directory | modelled but the text and the level of a record; proved |
| Allocator (`memory/allocator_impl.cpp`) | the singleton pointer | GetInstance, Malloc, Free | everything | GetInstance modelled, proved |
| Engine and dispatchers (`engine_impl.cpp`, `dispatcher.h`, `event_dispatcher.cpp`, `io_dispatcher.cpp`) | task queue; sets of acceptors and connections; epoll set | PostTask, GetTask, Clear, ProcessTask per task type, ProcessEvent | a thread each, and the callers of the engine | modelled but what section 7 names; proved |
| Connections, acceptors (`connection_impl.cpp`, `accpetor_impl.cpp`) | socket, status | Connect, Close, Recv, OnConnected, OnDisconnected; Start and Stop of acceptors | dispatchers | modelled but accepting and sending; proved |
| Buffers, messages (`receive_buffer.h`, `send_buffer.h`, ...) | bytes with two cursors; two channels | Recv, Expand, Consume; Send | I/O dispatcher | receive buffer modelled, proved; nothing drains the send buffer |
| JSON (`utilities/json_impl.cpp`) | a document, or a reference into one; the objects handed out | Get, Set, Append, Delete, Parse, Clear, Create, Destroy | jsoncpp | modelled but the types of scalars and the text; proved |
| Time (`utilities/time_impl.cpp`) | the fields of a date | comparison, arithmetic, reading and setting the clock | the C library | modelled but time zones and formatting; proved |
| Error codes (`utilities/error_code_impl.cpp`) | a thread-local number | SetLastError, GetLastError | everything | not modelled: one assignment |

What is hard in this code, and what therefore makes it correct:

* **The channels** have no lock.  Each side decides from a stale copy of the other
  side's cursor.  Correct means: no slot held by both sides, elements delivered
  once, in order and whole, a refusal only when the ring is full or empty, no
  starvation, and sizes that are safe to act on in the thread that reads them.
  The variable-size ring adds entries that must not wrap, hence a placeholder
  that *failing* calls may write, and counters updated apart from the cursors.
* **The scheduler** keeps pointers into its map across a section without the
  mutex while callers post and cancel; its keys are due times, so they collide;
  the clock is read before the mutex is taken.  Correct means: the batch stays
  valid, no task is lost or doubled, none runs early, too often or after it was
  cancelled, none starves, Stop() really stops.
* **The thread** communicates through three plain flags.  Correct means: a paused
  thread is quiet, a stopped one is gone, a restart or a destruction never meets
  a live or unjoined thread, and the calls that wait return.
* **The network engine** passes bare pointers to connections through the queues of two
  or more threads and through epoll.  Correct means: every Close() is answered, each
  detachment is done and reported once, nothing happens to a connection after it was
  reported disconnected, and the application knows when it may destroy one.  The sets
  of acceptors are changed by the caller's thread without a lock.
* **The receive path** moves and copies unread bytes as the buffer grows, while the
  stream is cut anywhere.  Correct means: the application sees the stream, whole
  messages, none held back, and an end only when there is one.
* **The logger** replaces its file while threads log, in steps that may each fail.
* **The thread manager** joins threads and runs callbacks under the lock that the
  threads take.
* **JSON objects** refer to nodes of documents that other calls rewrite, and are
  deleted by the object that handed them out.
* **Times** are compared field by field and subtracted as unsigned seconds.

## 2. Modules

| Module | Models | Notes |
|---|---|---|
| `BoundedFifo` | what an SPSC channel promises | abstract: a sequence, a writer and a reader; `Strict` says whether only a full queue may refuse |
| `SpscFixedChannel` | `CSPSCFixedBoundedChannel`, `IChannelEx::Push/Pop` | refines `BoundedFifo`, strict |
| `SpscFixedObserver` | GetSize and IsEmpty beside it | extends the channel by the two loads of the call |
| `SpscFixedChannel_proofs` | - | theorems about the channel, alone and observed |
| `SpscVariableChannel` | `CSPSCVariableBoundedChannel` | refines `BoundedFifo`, not strict |
| `SpscVariableChannel_proofs` | - | theorems about the channel |
| `TaskScheduler`, `MCTaskScheduler` | `CTaskSchedulerImpl` with the part of `CThreadImpl` it uses | the MC module gives the kinds of tasks |
| `TaskScheduler_proofs` | - | theorems about the scheduler |
| `ThreadLifecycle` | `CThreadImpl` | - |
| `ThreadLifecycle_proofs` | - | theorems about the thread |
| `ReceivePath` | `CReceiveBuffer`, `CConnectionImpl::Recv`, `DeliverMessage` | - |
| `ReceivePath_proofs` | - | theorems about the receive path |
| `NetworkEngine` | `CTaskQueue`, the two kinds of dispatcher, `CEngineImpl`, connections | - |
| `AcceptorRegistry` | `CAcceptorImpl` and the event dispatcher's set of acceptors | - |
| `MCNetwork` | - | the receive path, the engine or the acceptors, one at a time |
| `Network_proofs` | - | theorems about the engine and the acceptors, and about `MCNetwork` |
| `Logger` | `CLoggerImpl`, with the spin lock | the directory and the files are part of the state |
| `ThreadManager` | `CThreadManagerImpl`, with threads that use it | - |
| `JsonDocuments` | `CJsonImpl` over jsoncpp | the library's values are external |
| `JsonDocuments_proofs` | - | theorems about documents and the objects that refer into them |
| `CivilTime` | `ITime` | a calendar of two fields |
| `AllocatorInstance` | `IAllocator::GetInstance()` | - |
| `MCBaseServices` | - | one of the five above at a time |
| `BaseServices_proofs` | - | theorems about the allocator, the thread manager, the logger and the time, and about `MCBaseServices` |

Names of variables and actions are those of the code where TLA+ allows it
(`m_uTail`, `CancleTask`).  A definition that only serves to show that a property
can fail (a version of an operation with a plausible bug, such as
`NewWithoutRefresh`) stands in front of the one it varies; no specification uses
it.

### 2.1 Fixed-size channel

The variables are those of the code: `m_uTail`, `m_uHeadRef` (producer's cache
line), `m_uHead`, `m_uTailRef` (consumer's), `m_pData`; `producer`, `consumer`,
`staged`, `copied` are the program counters and locals of the two callers;
`posted`, `delivered` are histories.  New and Get load the other side's cursor at
most once, so each is one action; constructing an element is two (a consumer let
in too early would see it torn); Push with a throwing constructor
(`ConstructThrows`: the slot is marked invalid and still posted) and Pop with a
throwing move (`ReadThrows`: the slot is not released) are included.  An element
type without SetInvalid() is in the same class: the consumer gets something that
is not a payload.

The cursors are natural numbers, not 64-bit words: at 10^9 posts per second they
would wrap after 584 years.  GetSize() is computed modulo `UIntRange`, since its
two loads can make the difference negative and the code returns it unsigned.

The model is sequentially consistent.  The code relies on x86-64 for this: a
fence stands before each publishing store, and nothing but the hardware keeps the
reader's loads in order.  What x86-64 adds is the store buffer: a cursor just stored may
be seen late by the other side.  The other side then acts on an older cursor, as it
does anyway with its cached copy, so the safety of slots and the order of delivery are
not affected; but for that moment a refusal may rest on a cursor that is already
stored, which the word "instant" in `ImplementsFifo` does not show.

### 2.2 Variable-size channel

One unit is 8 bytes; an entry is a header unit and payload units; only the header
unit is written in the model and carries the payload with it.  `NewEntry(n,
headRef, failure)` and `GetEntry(tailRef, failure)` are the code's functions, run
once with the cached cursor (`New`, `Get`) and, when that fails, once more with a
fresh one (`NewAfterRefresh`, `GetAfterRefresh`) as a separate action, since the
other side can act in between.  A failed `NewEntry` may have moved `m_uTail` to the
start of the ring.  Post and Delete are two actions each: cursor, then counter.
The caller that is refused retries the same size, or gives up.  `posted`, `places` (where each
posted entry was put) and `delivered` are histories; no action reads them.

### 2.3 Task scheduler

`m_mapTasks` is a function from due times to tasks.  A critical section is an
action (`PostTask`, `CancleTask`, `Scan`, one `FinishTask` per task), a call of a
task's function is one (`RunTask`), the wait with its timeout is `Wait`.  The
clock `now` ticks at any point.  PostTask() reads the clock before it takes the
mutex; `lag` is how long ago that was.  The loop of the code that looks for a
free nanosecond is `FreeKey`.  `Start` and `Stop` are those of the thread
(section 2.4), reduced to `m_bRunning` and the join; `Stoppers` are the threads
that call Stop().  `kind`, `runs`, `allowed`, `earliest` are histories.

`uCurrNano` is set back to 0 when `Scan` ends: it is a local of Run() that nothing
reads afterwards, and keeping it would only multiply states.

`FinishTask` may fail to put a task back for lack of memory; the code then erases the
old entry all the same, and `lost` records it: nothing else may lose a task.

PostTask() does not look at `uTaskExecTimes`, and Run() compares the count only after a run: a
task of a fixed count of 0 runs once.  `times` is any natural number, and `TimesRun` is how
often a task with that count runs: what `TasksAreKept` says of a task is in these terms.  In the
run one of the three kinds has the count 0.

### 2.4 Thread

One controller (`thread.h` says that the calls are not safe from several
threads), one worker.  Each call is split at its accesses to a flag that the other side
writes: Pause checks `m_eCurrState`, sets `m_eSetState`, spins; Stop clears
`m_bRunning` and joins.  Run() is split likewise: its first stores
(`Enter`, `ReportRunning`), the loop test, the one reading of `m_eSetState` that
decides a pass, the thread function, the report, the final store.  A start can
fail (`StartThrows`).

### 2.5 Receive path

A byte is its position in the stream, so that loss, doubling and reordering show in
`data`.  `sent` is how many bytes the peer sends in all, up to `StreamLength`; it settles when the
peer closes, at a message's end or inside one.  One action is one call of the kernel with what surrounds it: Recv() of the buffer
prepares (`Prepared`: Expand() compacts and doubles), reads, and moves the tail.  The kernel
answers with any number of bytes, with nothing, with the end or an error; the allocation may
fail after the data were moved (`OutOfMemory`).  `Frame` is the callback that finds the
length of a message.  `ended` says why the loop stopped.

`BlockSizes` are the sizes that doubling leads to from the first, 4096, as far as they fit a
`uint32_t`; the allocator, which passes any size on to malloc(), may grant or refuse each of them.
The buffer doubles whenever it compacts, and nothing in the code stops it at 2^31 bytes: there
`m_uSize + uLength` wraps to 0, and memcpy() writes `m_uSize` bytes to the block granted.
`OverrunBlock` is this step, reached in the run; behaviour is undefined from there and the model
ends.  `m_uTail + 1024` cannot wrap before `m_uSize` does.

### 2.6 Network engine

One connection passes between the application, the event dispatcher (`Event`, -1) and the I/O
dispatchers (from 0).  `eventQueue` and `ioQueue` are the task queues; a turn (`pc`, `batch`,
`budget`) is epoll_wait(), its events, then up to `kBatchTaskSize` tasks.  `Close`,
`ConnectAsync`, `ConnectSync`, the handlers of tasks (`AddConnection`, `Connected`,
`DoDisconnect`, `AddToIo`, `Disconnected`) and of events are an action each.  A handler that
runs on the thread of another dispatcher (the callback of a detachment) is part of the action
of that thread.  Stop() ends one dispatcher after the other and clears its queue.  Using a
destroyed connection sets `dangling`, and the model stops there, as what follows is undefined.

`CIODispatcher::ProcessTask()` is declared and not defined in the sources: the model takes it
to do what its tasks ask, or to fail.  `ProcessConnectionEvent` asks getsockopt() about
`data.fd`, which shares its memory with the pointer stored in `data.ptr`: it fails, and the
connection is closed.

`AcceptorRegistry` splits Start() and Stop() of an acceptor between the set and epoll, and
the dispatcher's look-up from its use.  `meddled` remembers that the application changed
acceptors while the dispatcher ran.

### 2.7 Base services

* `Logger`.  Log() of a synchronous logger is one action per access to the shared members:
  the test of the file, fclose(), the reset, rename(), fopen(), fwrite(), the size.  Streams
  and files are numbered; `directory` maps names (the seconds of their replacement, and
  `Current`) to files.  The producers of an asynchronous logger take the spin lock; its
  thread misreads the first slot it gets (`RunTakesSlot`, section 6), and the model stops.
* `ThreadManager`.  One application, several workers.  `DestroyThread` holds the lock until
  `Joined`.  Thread numbers are reused.
* `JsonDocuments`.  A document maps paths to nodes, and a node has an identity that an
  IJson object may refer to (`target`).  `Fresh`, `WithTree` and their like say what jsoncpp
  does and are marked external in `PROJECT.json`.  GetArray(key, pJson) moves between two documents
  (`GetArrayAcross`) or within one (`GetArrayWithin`): the code looks at nothing that would tell
  these apart.  Whether a move swaps the two values or leaves null behind depends on the version of
  jsoncpp, so that both are in the model.  A move within a document may make a value that holds
  itself, which leaves the document and is leaked (section 6).  The model keeps the documents:
  objects that refer into such a value are not `Valid` any more, and calls on them are not modelled.
* `CivilTime`.  A major and a minor field stand for the six of the calendar, and `Word` for
  2^64; seconds are unsigned, as in the code.  `TimeStampMicro` multiplies in a word: microseconds
  of years beyond about 586,000, which both constructors accept, wrap, and so does the count of a time
  before 1970.  `MicrosFit` says of which times they do not.
* `AllocatorInstance`.  The look without the lock, the second look, the publication before
  Init().

## 3. Runs

| Run | Configuration | Shows |
|---|---|---|
| `spsc_fixed` | 2 slots, 4 posts, 2 payloads | type, cursor order, slot exclusion, order of delivery, sizes seen by each side, delivery and service (liveness), refinement of `BoundedFifo` |
| `spsc_variable` | 8 units, entries of 2, 3 and 9 units (9 never fits), `MaxTail` 12 | entries in one piece, free and whole, delivered in order (`EntriesAreSound`), counters (`CountersAgree`), liveness, refinement |
| `spsc_variable_empty_entry` | 4 units, entries of 1 and 3 | **violation**, see section 6 |
| `spsc_variable_count` | 4 units, one size | **violation** |
| `task_scheduler` | 3 tasks of 3 kinds, batch of 2, one Stop() caller | batch validity, no task lost, run counts (`TasksAreKept`), cancelling, no early run, Stop and no starvation (`SchedulerGoesOn`) |
| `task_scheduler_stop` | two Stop() callers | **violation** |
| `thread` | - (finite as it is) | quiet pause, complete stop, nothing after destruction, waits end (`CallsReturn`) |
| `thread_pause`, `thread_resume` | - | **violations** |
| `network` | receive: up to 10 bytes in frames of 4, 1 and 4 with one that begins no message, buffer of 2 growing to 8 and wrapping at 16; engine: 1 connection, 1 or 2 I/O threads, 2 Close(), 1 Stop(); 2 acceptors | the stream is kept, nothing held back, ends are real; closes accounted for and answered, disconnection is last, when destruction is safe; acceptors |
| `base_services` | JSON: 3 objects, 4 nodes, 1 key; logger: 2 threads, 3 records, files of one; manager: 2 threads, 2 thread numbers; time: 2 objects; allocator: 3 callers | documents are trees, calls stay within what they name, objects deleted once; records kept; blocks private, joins end; arithmetic and order; one allocator |
| `logger_threads` | 2 threads, files of one record | **violation** |

`network` and `base_services` each hold parts that share no state.  Interleaving such parts
multiplies states and shows nothing more, so that the initial state chooses the part that
runs and the others stay as they are; each property speaks of one part and is checked in all
the behaviours of that part.

What the properties of these two runs say, and where their conditions come from:

* `StreamIsKept`: the unread bytes are those that follow the messages handed out, and each
  message was whole.  `EofIsReal`: a connection is closed for the end of its stream only if the peer
  closed it and all it sent was read.  recv() of zero bytes would be answered alike, so that it is
  the room left in the buffer on which this turns.  The run reaches such ends after whole messages and
  inside one.
* `ClosesAreAccounted`: detachments posted are those answered and those queued, and
  OnDisconnected() comes only of a Close().  `EveryCloseAnswered`: each does come.
* `DisconnectedIsLast` holds for one I/O thread.  With two, a connection attached to the second
  and detached by the first can be registered after it was reported disconnected.
* `DestroyIsSafe`: an application that destroys a connection when told OnDisconnected() is safe
  if there is one I/O thread, if Close() was called once in all (Recv() calls it too), and if
  the event dispatcher was not waiting for the connect().  Each exception is one that TLC
  found; without any of the three the property fails.
* `AcceptorsAreSound`: set and epoll agree between calls; only calls made while the dispatcher
  runs can leave it an acceptor that is gone.
* `JsonIsSound`, `CallsAreContained`: every value is reachable once; a call invalidates no
  object but those under the path it rewrites or moves from, with one exception (an object whose
  value GetArray(key, pJson) has exchanged into a copy goes with the copy); a pJson that is itself
  part of the array moved goes with it; a call that is refused
  changes nothing; what GetObject(key) hands out is a copy.
* `LogIsSound`: a record reported written is in a file of the directory, but for a write that
  failed unnoticed, a file replaced by one of the same second and one deleted for the total
  size; one producer at a time; a closed stream is used only if a thread opened the file
  while another was in Log().
* `ManagerIsSound`, `DestroyReturns`: blocks are private to the threads that run, and
  DestroyThread() returns unless its thread waits for the lock.
* `TimeIsSound`: the earlier of two times since 1970 whose microseconds a word holds is less than
  the later (the converse does not hold, nor does this where they wrap); sums are exact, and differences but for those before 1970.
* `OneAllocator`: however first calls race, all are given one allocator.

Why the bounds are enough.

The safety that the runs of the two channels, the thread, the scheduler, the receive path, the
engine, the acceptors, the logger, the thread manager, JSON, the time and the allocator check is
proved for every value of the constants (section 5); there the bounds matter for liveness only.

* `spsc_fixed`: with two slots and four posts the ring is full, empty, refilled and
  wrapped twice, and both caches are stale by a whole ring.
* `spsc_variable`: in 8 units a placeholder is left at each of the positions 6 and 7
  (one and two units before the end), with the head in front of it, on it and
  behind it; `MaxTail` 12 lets the producer go round and meet the placeholder of
  the round before.  No request is made once the tail is beyond `MaxTail`, so the
  cursors stay below `MaxTail + uSize`.
* `task_scheduler`: three tasks against a batch of two make a full batch with one
  left over, all three kinds (once, twice, periodic) coexist, and one-tick delays
  with a clock that stops at `MaxTime` make due times collide as the code's
  nanosecond bump expects.  After `MaxTime` periodic tasks go on being due only
  if their key is reached: their starvation is examined up to there.  Ids are
  bounded by `MaxTasks`.
* `thread`: no constant; the state space is complete.

* `network`: a buffer of 2 with a slack of 1 grows twice, is compacted with bytes unread, and
  wraps the third time; reads of 0, 2 and 5 bytes end inside and at the end of messages.  The peer
  closes after any number of bytes from 0 to 10: after 4, 5 or 9 between messages, after the others
  inside one, and the tenth byte begins none.
  In the engine, two Close() calls of one
  connection are what the application and a dispatcher do; batches of one task make the turns
  interleave most; a second connection shares nothing with the first but the order of the
  queues, which no property relates.  Two I/O threads are what it takes to lose that order; the dispatcher
  that the next connection is attached to is arbitrary at the start, as earlier ones have moved it.
* `base_services`: three objects are a document, one that refers into it and a copy; files of one
  record and two seconds make every second record replace the file, within the same second or in the next;
  a word of 10 with three microseconds to a second wraps the microseconds of the last second
  that is reached, and the seconds before 1970; three callers are the one that makes the allocator, one that waits and one that looks;
  two workers and two numbers make a number pass on while the other is used.
* `logger_threads`: two threads are enough.

Deadlock is checked in the channel and scheduler runs.  A destroyed thread stops, a
bounded history ends, and what is undefined is not followed, so that it is not in the others.

## 4. Fairness

Every liveness property is checked under the weakest scheduling that the code
itself relies on:

* channels: both threads are scheduled; the consumer polls Get() and deletes what it
  got, the producer finishes what it allocated and repeats a refused New() (giving up
  in the variable-size model is possible and nothing obliges it).  `ReadElement` is
  strongly fair: a move that throws each time would hold the slot for ever.
* scheduler: time passes, the scheduler's thread is scheduled, tasks' functions
  return.  Nothing is assumed of the callers: they may never post, cancel or stop.
* thread: both threads are scheduled and the thread function returns.  Nothing
  obliges the controller to begin a call; a call that has begun goes on
  (Pause and the join spin or block, they do not give up).
* network engine: a dispatcher whose thread runs keeps taking turns, since epoll_wait() is given
  a timeout of 1 ms; callbacks return.  The application need do nothing.
* thread manager: a thread that waits for a free lock gets it, one that was told to stop ends,
  and the join of a thread that has ended returns.  Nobody need ask for a block.

## 5. Theorems

All in `*_proofs` modules, for every value of the constants.

**Fixed-size channel** (`SpscFixedChannel_proofs`).  The runs' invariants are not
inductive alone: `SlotExclusive` says nothing of what New() will decide next.  The
inductive invariant has three parts.

1. The cursor order `m_uHeadRef <= m_uHead <= m_uTailRef <= m_uTail <= m_uHeadRef +
   uSize`, strict at the ends while a side holds a slot.  It is preserved because
   each side only raises its own cursor and only copies the other's.
2. The content of the ring: for each cursor position from `m_uHead` up to `m_uTail`
   the slot holds what was posted under that number.  The producer writes at index
   `m_uTail % uSize`; two positions less than `uSize` apart have different indices, a
   lemma on remainders on which the proof turns.
3. The histories have the lengths that the cursors say, and what the consumer has copied
   is the element its cursor points to.

`CursorsOrdered`, `SlotsExclusive` and `DeliveryInOrder` follow.
`RingImplementsFifo` maps `queue` to the elements posted and not deleted; each action
maps to one action of `BoundedFifo` or to a stutter, with a lemma on `SubSeq` for
Post and Delete.

GetSize() and IsEmpty() load two cursors at two instants.  `CallInv` says what a load is worth
later: the asking thread's own cursor has not moved, and the other's only further, by no more than
the ring.  From it `SizesAreSafeAlways`, `ObserverTypeCorrect`, and `ObserverIsHarmless`, by which
the theorems about the channel alone hold of the observed one.

**Variable-size channel** (`SpscVariableChannel_proofs`).  `EntriesAreSound` speaks of the entry that
a side holds now.  Whether the next one will be sound depends on the whole ring, so the invariant
says where every entry posted and not deleted lies:

1. `LiveAreWhole`, `LiveAreApart`: each lies in one piece between the cursors, as posted, after the
   one before it and at least two units from it;
2. `LiveAreLinked`: between one and the next (and between the head and the first, the last and the
   tail) is nothing, or a placeholder that reaches to the end of the ring, which is what lets Get()
   walk from one to the next;
3. `Published`: the tail that the consumer has cached divides neither an entry nor a placeholder,
   although it is older than the tail by any number of posts and of failed calls of New();
4. `ProducerOwns`, `ConsumerOwns`: what New() gave is free by the head it has seen, and what Get()
   gave is the oldest entry;
5. the lengths of the histories, and the counters with the step they lag by.

`WrapIsSafe` shows that a placeholder is written over no entry even if the head that New() has seen is
old; `FitIsFree` that an entry that fits by the old head is free; `HeadIsKnown` that the head stands
before the first entry or before a placeholder that leads to it; `LiveTakeRoom` that the
counters stay within the ring.  `EntriesAreSoundAlways`, `CountersAgreeAlways`, `TypeCorrect` and
`RingImplementsFifo` follow.  They have one hypothesis, `EntriesHavePayload`: a header and at
least one byte, two units.  It is what the code needs and does not check: an entry without payload in
the last unit of the ring is taken for unused, as the run `spsc_variable_empty_entry` shows.

**Scheduler** (`TaskScheduler_proofs`).  The batch holds pointers into a map that others change.
`SchedulerInv` ties each entry to its task (`EntriesAreTrue`: its count of runs, its kind, whether it
was cancelled, and that its key is not before the task may run), gives a task one entry at most, and
says what a batch under way allows (`RunsAreLeft`, `CancelledHaveOneLeft`, `BatchIsDue`): an entry
without a run left, or a cancelled one, exists only between its last run and the end of its batch.
Calls that take the mutex meanwhile add entries and mark them, but remove none of the batch, and
`FreeKey` never hands out a key that is in the map.  `TasksAreKeptAlways`,
`CancelledStaysQuietAlways`, `NeverEarlyAlways` (an action property) and `SchedulerTypeCorrect` follow.
`StopIsSynchronousForOne` has the hypothesis that one thread at most calls Stop(); for two, the run
`task_scheduler_stop` refutes it.

**Engine and acceptors** (`Network_proofs`).  A Close() is a task that passes through two queues.
`EngineInv` says of each connection: how its socket follows its life (`SocketOf`); that the Close()
calls posted are those queued at the event dispatcher and those detached at most, and the detachments exactly
those answered and those queued at the first I/O dispatcher (`ClosesOf`, a count over two
sequences); that the tasks which connect come before those which detach, and none is left once it was
detached (`ConnectOf`); and, for one I/O thread, that the second queue keeps this order and
that nothing about the connection is left anywhere once the application was told (`SingleIoOf`).  The
lemmas are about queues: what Append, Tail and the posting of several tasks do to counts and to
order.  `ClosesAreAccountedAlways`, `DestroyIsSafeAlways`, `DisconnectedIsLastAlways` and
`EngineTypeCorrect` follow, for any number of connections, threads and calls.  `AcceptorInv` adds to
`AcceptorsAreSound` which half-done call accounts for a difference between set and epoll
(`AcceptorCalls`) and what the dispatcher has in hand.  `PartsAreTheirSpecs` shows that each
part of `MCNetwork` takes the steps of its own specification, and `NetworkIsSafe` states all
of these, with those of the receive path, of the specification that the run checks.

**Base services** (`BaseServices_proofs`).

* Allocator: `AllocatorInv` says that only the holder of the lock is past the second look, and that there
  is no allocator while one is being made.  `OneAllocatorAlways`.
* Thread manager: `ManagerInv` says who knows a thread (the set, a name, the join under way: one of them for
  as long as it runs), and that blocks are entered once, under the number of the thread that
  has them, which a number that was passed on does not break.  `ManagerIsSoundAlways`.
* Logger: `LoggerInv` follows each record and each file: a file is in the directory unless it was replaced
  or cleaned up; a record about to be counted is in a file; until a thread has opened the file beside
  another in Log(), one that opens is alone there, and so nobody holds a closed stream.  `LogIsSoundAlways`.
* Time: `TimeInv` keeps every object within the seconds its fields can say; nothing is asked of
  their microseconds, which may wrap.  The lemmas are those of
  the calendar (`ConversionsAreInverse`: fields to seconds and back), of the unsigned seconds
  (`RemainderOfWord`), and of the order (`OrderedByFields`).  `TimeIsSoundAlways`.
* `PartsAreTheirServices` carries these to the model of the run, where `ServicesAreSound` states them with
  those of JSON, and `BaseTypesCorrect` proves there that types
  and bounds hold.  The logger's need an invariant of their own (`CountsInv`): each call has its own record,
  so that no more is added to the size of a file than there are records; and a slot that New() has given is
  still free when Post() publishes it, because the spin lock is held in between (`QueueFits`).

**JSON** (`JsonDocuments_proofs`).  Whether a call leaves an object dangling depends on where every
value of every document is.  The invariant has three parts.

1. `DocumentsInv`: each document is a tree (`IsShape`: finite, members under objects and elements under
   arrays, numbered without gaps), whose nodes are numbered apart, from each other and from those of
   other documents.
2. `Owners`: an object that was handed out lives, has one parent and was made after it, so that what
   destructors delete (`Family`) is counted once.
3. `Copies`: a document belongs to an owner or to a copy, and a copy that is as it was taken is
   referred to by itself and by what was handed out below it.

`GraftedTree` says that putting a tree in at a path that fits leaves a tree, and `MovedTree` that the
move of GetArray(key, pJson) does (`MovedWithinIs` puts a move within a document together from three
such steps, for a pJson above, below or beside the array); `ElementsAreThere` and `NextElementIsFree` count the elements
of an array, so that Append writes to a place that is free; `AboveIsThere` that all values above a value are
there; `DeletingKeepsOwners` and `CopiesStayWhenDeleting` are about destructors.  `Careful` is what each
call is shown to satisfy (`StepIsCareful`).  `JsonIsSoundAlways`, `CallsAreContainedAlways` (three action
properties) and `JsonTypeCorrect` follow, for any keys, texts, numbers of objects and of nodes, from the
assumptions that a key is not a number and that texts are trees with a root.

The proof corrected a property.  It could not exclude that a call invalidates an object it does not rewrite:
GetArray(key, pJson) on a copy exchanges the value of pJson with the array of the copy; an object of another
parent that refers below pJson's value refers into the copy from then on, and dangles once the copy is
destroyed.  It takes four objects and more nodes than the run has; TLC shows it with four objects and eight
nodes.  `OnlyRewritesInvalidate` now says so.

**Thread** (`ThreadLifecycle_proofs`).  That a paused worker is quiet depends on how the
three flags may disagree, and no property of a run says that.  The inductive invariant adds
`Joined` (who is in the std::thread, and that outside Stop() a clear `m_bRunning` means
nobody), `Reported` (where the worker stands for each state it reports), `PauseIsTimely`
(no call asks for a pause before the worker's first two stores, which would overwrite it),
`RunningIsAsked` (while running is reported only a Pause() under way asks for anything
else) and `PausedIsReported` (asked for and reported, the pause holds).  From it:
`PauseHolds`, `StopIsComplete`, `NoUseAfterDestroy`, `TypeCorrect`.

**Receive path** (`ReceivePath_proofs`).  `ReceiveInv` joins the type of the cursors, which
are `head <= tail <= size` with a `size` in `BlockSizes`, with the properties of the run and one
thing they do not say: that an end of the stream seen by the last recv() was real, which `EofIsReal`
needs when Recv() acts on it later.  `tail <= size` alone would let recv() be called with no room;
it is `MustExpand` that leaves some, and a doubling that does not wrap.  That one can wrap is not
assumed away: recv() then is not reached (`CanReceive`), because the step before it overruns
its block.  The bytes are preserved by a lemma that any copy of the unread ones to another place
serves (`SameUnreadBytes`), used for compaction, growth and the failure between the two.
`StreamIsKeptAlways`, `NothingHeldBackAlways`, `EofIsRealAlways` and `ReceiveTypeCorrect` follow, for
every first size, slack, stream and framing, whatever blocks the allocator grants.

Assumptions: the named `ASSUME`s on the constants, and the two hypotheses named above.  Those on
constants of the code: `BufferAssumption` (the sizes are those that doubling leads to; the first and
all that follow leave room for the slack below 2^32, as 4096 * 2^n and 1024 do),
`SchedulerAssumption` (a batch of one task at least; counts, delays and intervals are natural
numbers) and `TimeAssumption` (half a word holds the seconds that are reached and those from
year 0 to 1970).

Only model-checked: liveness, which is out of the prover's reach, as is ENABLED: `NobodyStarves` in the
channels, `SchedulerGoesOn`, `CallsReturn`, `EveryCloseAnswered`, `DestroyReturns`.

## 6. Where the code and its documents disagree

| Run | Violated | What happens |
|---|---|---|
| `spsc_variable_empty_entry` | `DrainedIsEmpty` | An entry of length 0, which a test requires New() to accept, may be put in the last 8 bytes of the ring; Get() takes these for unused by their position and skips it: it is never delivered, and IsEmpty() is false for ever |
| `spsc_variable_count` | `ConsumerSizeInRange` | Post() publishes before it counts; the consumer that deletes in between reads GetSize() = 4294967295 |
| `task_scheduler_stop` | `StopIsSynchronous` | The second of two concurrent Stop() calls returns while the thread still runs a task; `task_scheduler.h` calls Stop() synchronous and thread-safe |
| `thread_pause` | `PauseIsSynchronous` | The thread function returns false while Pause() waits: the state becomes kStopped, never kPaused, and Pause() waits for ever |
| `thread_resume` | `ResumeRestoresState` | Run() never reports kRunning again after a Resume(): the state stays kPaused and a later Pause() is refused |
| `logger_threads` | `LogIsThreadSafe` | A thread that saw no file, or a full one, closes the stream that another has opened since and is about to write to; `logger.h` calls Log() thread-safe |

Others met while reading, which the models include as the code has them:

* Logger.  Run() takes the channel's slot for the item that the slot points to, and
  frees it: no record of an asynchronous logger is written, although
  `test_logger.cpp` expects it (:410-411, :575-576).  LogFormat() writes its text through a
  size that it takes for an address.  fwrite()'s short count passes for success, microseconds are
  always printed as zero, a file replaced twice in a second loses the first, and files with the
  default suffix are never cleaned up.
* Network.  No acceptor calls listen().  `getsockopt()` is asked about a pointer (section
  2.6).  Recv() with a batch size of 0 returns at once.  The receive buffer
  doubles whenever it compacts, whether or not that has made room, so that a connection whose buffer
  is never quite drained may reach 2^31 bytes, where the next doubling wraps to 0 (section 2.5).
  With several I/O threads attaching and detaching lose their order;
  two Close() calls detach twice; tasks posted after Stop() has cleared a queue survive it.
* Thread manager.  `thread_manager.h:91` says that CreateThread(name, ...) starts the thread
  ("创建一个线程并启动"): nothing does.  :127 says that a block is freed when its thread ends:
  none is.  DestroyThread() never returns if its thread is in GetThreadLocal(), nor does a
  callback of ForEachAllThreadLocal() that calls the manager.
* Scheduler.  A task posted with a fixed count of 0 runs once (section 2.3).
* JSON.  `json.h:152` says that GetArray(key, pJson) copies ("获取并拷贝一个子数组"), and
  :158 declares it const: it moves.  If pJson refers to a part of the array, or (when jsoncpp swaps the
  two values) to something around it, such as the document itself, what leaves the document is a value
  that holds itself and is never freed.
  An object handed out by SetObject() is said to live as long as its parent (:236), but refers
  to nothing once its value was replaced.  SetObject(key, pJson) takes values of any kind.  Clear() of a
  scalar deletes what it handed out and then throws.  GetArray(key, pJson) on what GetObject(key) handed
  out exchanges pJson's value into that copy, and objects that refer below it are lost with the copy
  (section 5).
* Time.  `operator<` is a disjunction over the fields: a < b and b < a can both hold.  `operator+` and
  `operator-` change their left operand.  A difference before 1970 is 1970.
  GetTimeStampMicro() wraps for years beyond about 586,000.

## 7. What is left out

* Null and corrupt arguments, allocation failures, formatting and statistics that
  nothing reads back.  The counters behind IsEmpty()/GetSize() of the variable ring
  are read back and are modelled.
* In the thread: its id and the time of its last loop, which it only reports; the names.
* In the scheduler: the name check; the delays, multiplied by 1000 into 64-bit
  numbers, cannot overflow for realistic values.
* Weaker memory orders than x86-64's.  The consumer's Get() has no acquire fence;
  on a weakly ordered machine the argument of section 2.1 would not hold.
* The variable-size MPSC channel: its whole implementation is disabled.
* Sending: `CSendBuffer` has no caller that drains it and no defined end in the sources; a model
  would be of a design and not of this code.  Messages and their pool are storage.
* Accepting: no socket listens, so that ProcessAcceptorEvent() never accepts.
* DetachConnection(): its task kRemoveConnection is handled by no dispatcher and nothing calls it.
* RegisterThreadEventFunc(): the functions are kept and never called.
* Init and Exit of the engine, statistics, error codes, the text of a log record, scalars and
  text of JSON, time zones.
* What becomes of a JSON value that a move has made hold itself, and of calls on objects that refer
  into it.
* The receive buffer after it has overrun its block.
* Start() of the scheduler that fails to make its thread, or comes while a Stop() joins: the first
  changes nothing, and Start() is not said to be safe from several threads.  (`ThreadLifecycle`
  has failing starts.)
* A connection's OnDisconnected() within a call of its Recv(): with one I/O thread, the default, both
  run on that thread.
* The callback of ForEachAllThreadLocal() is taken not to call the manager.

## 8. Plan

Done, in this order: abstract FIFO; fixed ring with proofs; variable ring; scheduler;
thread with proofs; receive path with proofs; engine and acceptors; logger, thread
manager, JSON, time, allocator; proofs for the observer, the variable ring with its refinement,
the scheduler, the engine and acceptors, the allocator, the thread manager, the logger, the time and JSON, and the types of all.

Every safety property that a passing run checks is proved; what is left to TLC is liveness.

Of the models, the logger's channel could be replaced by `BoundedFifo`, and the engine be given a
second connection, once the code of the I/O dispatcher's tasks exists to be read.
