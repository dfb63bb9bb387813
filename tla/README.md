# A verification development of the service framework in `protoc2/base`

The repository holds three things: a vendored copy of protobuf 3.17.2
(`protoc2/src`, `protobuf-3.17.2-release`), generated message classes with
demonstration programs (`label.pb.*`, `protoctest*.cpp`, `test.cpp`), and
`protoc2/base`, an OpenHarmony-lite service framework in C. The framework is
the repository's own concurrent code and the subject of this development;
the other two are third-party, generated or trivial.

All paths below are relative to `src/protoc2/base/`.

## 1. Inventory

| part | files | state | operations | interacts by |
|---|---|---|---|---|
| lock-free ring | `ohos_adapter/posix/lock_free_queue.c` | byte buffer, cursors `write`, `read` | `LFQUE_Create/Push/Pop` | called by the message queue |
| message queue | `ohos_adapter/posix/queue_adapter.c` | the ring, `wMutex`, `rMutex`, `cond` | `QUEUE_Create/Put/Pop/Destroy` | every send and every task |
| messages | `samgr_lite/samgr/source/message.c` | exchanges in queues and on task stacks, reference counters on the heap | `SAMGR_SendRequest`, `SendSharedRequest`, `SendSharedDirectRequest`, `SendResponse`, `SendResponseByIdentity`, `MsgRecv`, `FreeMsg` | queues; handlers call back into it |
| task loop and pools | `samgr_lite/samgr/source/task_manager.c` | pool: queue, threads, `ref` | create, start, reference, release; `TaskEntry` | receives from its queue, calls services |
| service manager | `samgr_lite/samgr/source/samgr_lite.c` | `services`, `status`, `sharedPool`, mutex | register/unregister, `SAMGR_Bootstrap`, `InitCompleted` | init requests to pools, boot messages to the bootstrap service |
| bootstrap service | `startup/bootstrap_lite/services/source` | `flag` | three boot messages, `OHOS_SystemInit` | registers the next stage, calls `SAMGR_Bootstrap` |
| services, features | `service.c`, `feature.c` in the same directory as `message.c` | features, default interface | initialise, dispatch, add/delete feature | called by task loop and manager |
| vector | `common.c` | `data`, `max`, `top`, `free` | add, at, swap, find, size, num | services, features |
| interfaces | `iunknown.c`, `registry/service_registry.c` | `ref`, version | AddRef, QueryInterface, Release | clients |
| timer service | `samgr_lite/samgr_timer/src` | ordered list, tick counters, last tick | tick, update, fire | tick thread and clients send messages |
| event hub | `event_hub/source` | sender and receiver lists | add sender, listen, send event | messages |
| adapter timers | `timer_adapter.c`, `kal.c` in `ohos_adapter/posix` | running flag, callback thread | create, start, change, stop, delete | callbacks |
| log buffers, files, output, limits | `dfx/hiview_lite`, `dfx/hilog_lite/frameworks/mini` | byte caches, file cursors, counters | write, read, flush, rotate | all tasks write, one task flushes |
| shell | `dfx/shell/source` | line buffer, history, companions | keys, commands | own thread |

What makes the framework hard to test: every service runs in a task shared
with other services; senders never block, so that every queue can be full at
any moment; message data is shared by counting; boot is a chain of messages
between tasks that already run; the lock-free ring is correct only for one
producer and one consumer; counters and clocks wrap.

What makes each part correct:

* ring: no torn item, no byte read while it is written, full and empty told
  apart exactly, FIFO;
* message queue: bounded FIFO for many producers, no lost wakeup;
* messages: the counter equals the live copies; data is freed once, after its
  last reader; a request is answered once, unless its service goes away;
* boot: a service is initialised when every service registered before has its
  queue, core before application services, the chain ends, each core service
  starts once;
* pools: the reference count equals the services of the pool and its shared
  slot, a released pool's task ends, nobody uses a pool that was freed;
* registry: an identity, which is a pair of vector indices, names the same
  service and feature as long as these are registered; the registry is a map;
* timer service: no timer lost or fired too often, none early or late as long
  as the clock is not set; bounded ticks;
* event hub: an event reaches exactly the receivers registered when it was
  accepted; every node has one owner;
* log output: records are read whole and in order while writers go on, every
  record gets into the file, rotation leaves no gap between the two files.

The hazards, each at its line, are in `PROJECT.json`, with the property that
covers it or the reason why none does.

## 2. Modules

| module | models | composition |
|---|---|---|
| `BoundedFifo` | what a message queue promises: puts by many producers that are refused only when `Capacity` elements are queued, gets in order | abstract; implemented by the next two |
| `LockFreeQueue` | `lock_free_queue.c` | refines `BoundedFifo` for one producer |
| `LockFreeQueueProofs` | theorems about it | |
| `QueueAdapter` | `queue_adapter.c` around the ring | uses the ring at the level `LockFreeQueue` justifies; refines `BoundedFifo` |
| `QueueHubProofs` | theorems about it and about `EventHub` | extends both |
| `Messaging` | `message.c` and the message processing of `TaskEntry` | queues as bounded sequences, justified by `QueueAdapter` |
| `MessagingProofs` | theorems about it | |
| `Bootstrap`, `MCBootstrap` | `samgr_lite.c` boot, `bootstrap_service.c`, `OHOS_SystemInit` | queues likewise; pools given by a constant |
| `BootstrapProofs` | theorems about it | |
| `SamgrTimer`, `MCSamgrTimer` | `samgr_timer.c`, `timer_api.c`, the clock of `time_adapter.c` | queue likewise |
| `SamgrTimerProofs` | theorems about it | |
| `Vector` | `common.c` | operators; used by `TaskPool` and `Registry` |
| `TaskPool`, `MCTaskPool` | `task_manager.c`, `AddTaskPool` and unregistration in `samgr_lite.c`, `QUEUE_Destroy` | composes service manager, pools and tasks on `Vector` |
| `TaskPoolProofs` | theorems about it | |
| `ServiceMap` | what the registry promises: a map from names to services, features and interfaces | abstract |
| `Registry`, `MCRegistry` | registration in `samgr_lite.c`, `service.c`, `feature.c` | on `Vector`; refines `ServiceMap` |
| `RegistryProofs` | theorems about it | |
| `PubSub` | what the event hub promises: publish and subscribe, a call taking effect when it is accepted | abstract |
| `EventHub` | `event_hub_api.c`, `event_hub_service.c` | refines `PubSub`; its theorems are in `QueueHubProofs` |
| `LogOutput` | `hiview_cache.c`, `hiview_file.c`, `hiview_util.c`, the text file output of `hiview_output_log.c` | composes cache, flush and files |
| `LogOutputProofs` | theorems about it | |

Definitions whose comment says "Mutant" are plausible wrong versions of the
definition that follows them. No specification uses them; with one of them in
place of the original, the run named in `PROJECT.json` finds the property
violated, which shows that the property depends on that piece of code.

### LockFreeQueue

The buffer is an array of `totalSize = ItemSize * Count + 1` bytes; a byte of
the model is a pair (element, index), so that a torn item is a mixed tuple.
`LFQUE_Push` is five steps: call, full test, first `memcpy`, second `memcpy`
for an item that wraps, publication of `write`; `LFQUE_Pop` likewise. The test
`LFQUE_IsFull` compares one byte ahead, as the code does. A step is atomic and
the memory sequentially consistent: the code has no barriers, so this is an
assumption about compiler and machine (section 8).

### QueueAdapter

`wMutex` and `rMutex` have owners; a signal wakes a sleeping consumer only;
`pthread_cond_wait` may wake spuriously. The test and the publication of the
ring stay separate steps, so that two producers inside `LFQUE_Push` would
collide if the mutex did not stop them. `MaxPuts` bounds the puts of a producer.

### Messaging

An exchange is a record with its call, type, return queue, and what data it
points to. A task is at one of the labels `recv`, `work`, `body` (inside the
service's message function), `raise`, `put`, `fallback`, `free`; while in
`body` it may send further requests, respond, respond by identity to any
queue, or return, after which `ProcRequest` responds for it. The service of a
task in `Leaving` may be unregistered at any time (`Unregister`): `ProcRequest`
then finds no service and returns at once, without a response, unless the task
still holds the service from the message before; `Work` has both outcomes.
`EventuallyAnswered` says of every request in a queue that it is answered or its
service is gone, and of every request whose message function began that it is
answered. `SharedSend` is two steps, raising the counter under the global lock and putting; so is the
broadcast from the outside thread, with its undo when the put is refused and
its failing allocation (`SharedRaiseFails`). The
memory of a call's request data and of each responder's response data is
tracked by how often it was freed. What `message.h` asks of callers is
granted: they release refused data, and a shared request is processed only
when it has been sent to all receivers.

### Bootstrap

`Main` and each pool's task are threads with a program counter. The critical
sections of the recursive samgr mutex are single steps except in
`InitializeAllServices`, which holds it across the requests it queues.
`InitCompleted` has its three separate steps: the position, the unlocked size,
the advance of the status. The bootstrap service, or main when it loads a
library, registers the services of a stage one by one before it calls
`SAMGR_Bootstrap`: each `RegisterService` is a critical section of its own, and
other threads may collect, give pools and initialise what is registered so far.
Registering again is refused, which is the union in `RegisterService`. Which pool
a service gets is the constant `PoolOf`.

"All services have been assigned with queueid" (the comment in
`InitializeAllServices`) can only be about services known at the time. Two
histories make that precise: `found`, what was registered when a call of
`SAMGR_Bootstrap` collected, and `known`, what that was for the call that asked
for a service's initialisation. `QueuesBeforeInitialize` says that all of `known`
has its queues when the service is initialised, whoever gave them.

### SamgrTimer

Time is `SAMGR_GetProcessTime`, masked: a small clock that starts anywhere while
`lastTick` is 0, wraps (`Clock`), and, being `CLOCK_REALTIME`, may be set
forwards or back at any moment (`SetClock`). `samgrTimerTickReq` is three steps
(test, send, count); the service task handles a message in one step, because
the list belongs to it alone. `InsertNodeOrdered` and the two passes of
`FireTimers` are translated with the order they produce: `UtilsListAdd` inserts
at the head. Five history variables measure what the code does not record: the
time since arming less an interval per firing (`credit`), the time since the
last firing (`since`), the firings still owed (`owed`), whether the timer
was armed after a wrap that no tick had seen yet (`unseen`), and whether the
clock was set while it was armed, or turned so that the test
`now < lastTick` of `SamgrTimer_FireTimers` gives the wrong answer (`misled`:
before the first tick, and when the clock comes round to `lastTick` without a
tick in between). `NeverAhead` and `DueFired` are about the other timers: the
code fires misled ones at wrong times. `ListedWhileOwed` and the flow control
hold whatever the clock does.

### Vector

A vector is its slots below `top`, `max` and `free`. `VECTOR_Add` uses a
released slot only when the vector is full, then the highest; `VECTOR_Swap`
with NULL releases one. Two modules stand on these operators, so that their
properties depend on the vector's arithmetic and not on a set in its place.

### TaskPool

Pools and services are heap objects with numbers that are not used again, so
that a dangling pointer is a number whose object is freed. `SAMGR_Bootstrap`
is a thread with a program counter: it collects services without the mutex
held afterwards, then, under the mutex, gives pools, queues the initialisation
requests and starts tasks, one service a step. `AddTaskPool` has the three
cases of the code, each with its failure: a shared pool (created with a second
reference for its slot, or referenced, or, when full, taken over from the
slot), the pool of a service with the same configuration, a pool of its own.
`UnregisterService` releases the slot, the pool's reference and the object;
the last reference puts the exit message, which a full queue refuses. A task
receives, chooses the service (`CorrectServiceImpl`, which may read a freed
service and then finds any id there) and works; on the exit message it ends
and destroys its queue. What clients must do is the operator `Settled`, and
`Idle` in the run that shows that even more care does not help them.

### Registry

A call is one step. `services` is the vector of the service manager, and every
service has its vector of features. `reply` is what the last call returned, so
that the refinement compares results as well as effects. The abstract map
forgets slots and ids.

### EventHub

A node is a heap object allocated by the caller, carried by the request, then
kept in one of the hub's two lists or freed by `SAMGR_FreeMsg`. `lost` is the
history of nodes whose request was refused. The abstract state of the
refinement is the lists as they will be when the requests that wait are
handled (`Worked`: the abstract operations applied one after the other), which is
what makes a call take effect when it is accepted. The hub's `Initialize`, which
makes the two lists empty and is the first request of the hub's queue, is the
initial state; a request that gets into the queue before it, or when it is
refused, would be handled on lists that are all zero, and is left out.

### LogOutput

Memory is counted in cells: a record is a head and its values. `WriteToCache`
copies in two steps when the record passes the end of the buffer, counting each
part in `usedSize`. `ReadFromCache` is four steps: the test without the mutex,
the cursor under it, the copy without it, the count. Whoever flushes (the service
by its timer, `FlushLog(TRUE)`) holds the flush mutex. The lock of the output file
has no taker: the functions that would give it to applications are compiled out
(`hiview_log.c:194-220`), as is `HiLogFileProc`, so `ProcFile` only renames.

A file is counted in cells, too: its header and the cells of its lines. Each
operation on files may fail, `MaxFaults` times in a run, and `faults` records
which did: `open`; `close`, after which the descriptor may still be open or be
stale; `copy`, which leaves the old output file, none, or (when the `unlink`
after it fails) a part; the `unlink` of the log file; `read` and `header`, the
reading and writing of the header, after which the write cursor is set back to
it; `write`, which may leave a part of the line behind the write cursor. An open
file in `FileIsSuffix` ends, at its write cursor, with what `WriteToFile` reported
as written last; `mark` is where that begins (behind the header, or where the
file was opened with remains it cannot tell from lines). `OutputContinues` says
that output file and log file continue each other.

## 3. Runs

| run | configuration | shows |
|---|---|---|
| `lock_free_queue` | `LockFreeQueue.cfg` | the ring with slots that wrap at every offset is a FIFO; copies never overlap |
| `queue_adapter` | `QueueAdapter.cfg` | two producers, one consumer: FIFO, no lost wakeup |
| `messaging_shared` | `MessagingShared.cfg` | one broadcast and one request, a service that is unregistered: counters, frees, answers |
| `bootstrap` | `Bootstrap.cfg` | the whole boot, with a library that main loads service by service beside it, one of its services without a task pool |
| `samgr_timer` | `SamgrTimer.cfg` | two timers, updates, late and refused ticks, wraps, a clock that is set |
| `samgr_timer_ticks` | `SamgrTimerTicks.cfg` | flow control of the ticks and its liveness |
| `task_pool` | `TaskPool.cfg` | reference counts, release and exit of pools |
| `registry` | `Registry.cfg` | identities, counters of vectors, the map |
| `event_hub` | `EventHub.cfg` | ownership of nodes, publish and subscribe |
| `log_output` | `LogOutput.cfg` | cache, flush, rotation, two failing file operations |

Two runs look for a violation and find it; each quotes the line of the
repository that says otherwise (`findings` in `PROJECT.json`):

| run | what happens |
|---|---|
| `bootstrap_app_completed` | BOOT_APP_COMPLETED is announced with application services uninitialised |
| `task_pool_returned` | a task handles a request with a service that UnregisterService has freed and returned, though no request for it was left |

Behaviour that the models show besides, and that no property forbids:

* response data attached to a broadcast by a receiver that is not the last to
  drop the shared counter is never freed (`message.c:88`; `message.h:103` says
  the system releases it): the history `frees` of `Messaging`;
* a timer armed between a wrap of the masked clock and the next tick fires at
  that tick (`samgr_timer.c:120`): `NeverAhead` without its condition `unseen`
  fails;
* the clock of the timers is the wall clock (`time_adapter.c:35`): set back, all
  timers fire at the next tick, as `samgr_timer.c:101` takes it for a wrap; a
  timer armed before the first tick, when the masked clock turns before that
  tick, waits a whole turn. The history `misled` marks these timers, whose time is
  no longer measured, and `NeverAhead` and `DueFired` are about the others;
* a request whose service is unregistered while it waits is dropped without an
  answer (`task_manager.c:151`);
* services of a library that is half registered may be initialised before the
  others have their queues (`samgr_lite.c:247`);
* a tick refused by a full queue is counted as sent, so that two refusals stop
  all timers (`samgr_timer.c:249`): `TicksGoOn` fails with a queue of two slots
  and `MaxOthers` 2;
* with a full queue a response handler runs in the responder's task;
* after a premature BOOT_APP_COMPLETED an application service can be
  initialised twice; an initialisation request that meets a full queue is
  dropped and its service never starts;
* `timerList` is not ordered, since `UtilsListAdd` inserts at the head;
* the exit message of a pool whose queue is full is lost, its task and queue
  stay; a listener of the event hub can never be removed; the nodes of
  refused registrations are never freed;
* a log file that cannot be opened again after a rotation stays closed, and
  what was moved when the copy failed is lost; a log file whose header cannot
  be read is written over from its start; a part of a line that could not be
  written may stay in the file.

## 4. Bounds, and why they are enough

* Ring: 3-byte slots, two of them, 7 bytes. 3 and 7 are coprime: slots start
  at every offset, and wrap after one, two or no byte. The theorems of section
  6 hold for every size and count.
* Message queue: two producers, capacity two, two puts each (`MaxPuts`): full,
  empty, a put refused between two accepted ones, a sleep at each of these.
* Messages: queues of one slot, so that every put is refused in some state.
  Two tasks: sender, responder, or the same task for both; the service of one of
  them may be unregistered. One request and one broadcast of two copies compete
  for the slots; two requests besides the broadcast exceed five million states.
  The theorems of section 6 hold for any number of them.
* Boot: two pools, two core services, one application service and two services
  in the library, so that every later stage and the library is collected in part
  and as a whole; test and dynamic stages without services, which only adds
  another pass through the same steps; two services in the stage that races, and
  one in the test stage, where the violation is looked for. 8 slots, since a
  second caller of `SAMGR_Bootstrap` sends requests again. With 4 slots those
  duplicates fill the queue of the bootstrap service and its boot message is
  lost: the queue has 25 slots in the code, and more than 25 services there.
* Timer: the clock wraps after 3 units in `samgr_timer`, with an interval of 3,
  so that two wraps pass before a firing and the unit that each of them
  costs shows, and after 2 in `samgr_timer_ticks`; 8-bit counters as counters
  that wrap after 4. `HistoryMax` caps two histories at more than two intervals;
  `MaxUpdates`, `MaxOthers` bound messages in the queue. The clock may lap
  `lastTick` and may be set at any step. Intervals near 2^32, whose sum with
  the time overflows, are not modelled.

* Pools: four services by name, two that share a pool and two with the same
  specified task, of which two are registered over the life of a run
  (`MaxImpl`), two pools, queues of one slot and `MaxRef` 2, so that a shared
  pool is full with its first service; one creation fails (`MaxFail`). The
  theorems of section 6 hold for every number of them.
* Registry: three names for two services, two for one feature, and vectors that
  grow by two: the limits are met, slots are taken again, vectors grow. All
  sequences of calls are explored; names are interchangeable (symmetry).
* Event hub: one handle, two identities and one that undoes, two receivers with
  queues of one slot; three nodes, two events (`MaxNodes`, `MaxEvents`), so that
  a registration is replaced, moved to another identity and undone around an
  event. The theorems of section 6 hold for every number of them.
* Log: a cache of four cells and records of one to three: every way to wrap.
  Three records (`MaxRecords`) in a file of four cells with its header, so that
  it rotates once and again; the file may be there before the start. Two faults
  (`MaxFaults`), which is every pair of failing operations, in one rotation or in
  two. The theorems of section 6 hold for every number of records and faults.

`CHECK_DEADLOCK FALSE` is set where the system may stop: producers with no more
puts and a sleeping consumer, answered calls, a booted system, clients that do
no more, all records written. `registry` checks for deadlock: a call always
returns.

## 5. Fairness

Threads that can run do run, as under the POSIX scheduler: weak fairness for
each producer's `QUEUE_Put` once called, for the consumer and for each task's
loop. In `Bootstrap` threads compete for the samgr mutex; a pthread mutex is
granted to a waiting thread eventually, which is strong fairness of each
thread's steps. In `SamgrTimer` the tick thread, the service task and time go
on. In `TaskPool` a task's loop is strongly fair, because it competes for the
samgr mutex, and a bootstrap that has begun goes on. In `LogOutput` writers and
flushers go on, the mutexes are granted in the end (strong fairness of the
flusher's steps), and the timer makes the service flush again and again. Nothing obliges
anybody to set the clock or to unregister a service, no file operation to fail,
and nobody to start a put, a call, an update, a library load or a spurious wakeup.

## 6. Proofs

`LockFreeQueueProofs` proves for every `ItemSize`, `Count` and set of elements:

* `TypeCorrect`: `Spec => []TypeOK`;
* `CursorsWhole`: the occupied bytes are whole slots, at most `Count`;
* `CopiesDisjoint`: no byte is copied by both sides at once;
* `ElementsWhole`: `Spec => []NoTearing`, no stored or popped element mixes the
  bytes of two pushes, also when it wraps around the end of the buffer;
* `RingImplementsFifo`: `Spec => Fifo!Spec`, the refinement of `BoundedFifo`.

Assumption: `ItemSize` and `Count` are positive naturals, as `LFQUE_Create`
demands. The inductive invariant is types, whole slots, and a part that ties the program
counters to room: past its full test the producer has a free slot until it
publishes, past its empty test the consumer has a filled one. `WholeSlots`
alone is not inductive: without the room the publication could overfill the
ring. The one-byte full test is sufficient just because of
`WholeSlots`: if `write + 1` is not `read`, the free bytes, a multiple of the
slot size plus one, are at least a slot plus one (lemma `NotFull`).
`PublishAdds` and `PublishRemoves` show that the wrap of a cursor changes the
distance by one slot. Overlap then follows from the order
read < write <= read + total on the unwrapped circle.

The bytes need a second invariant, `Whole`: each slot between the cursors holds
the bytes of one element (`Stored`), a push has written the bytes of its element
up to where it is (`HalfPushed`), a pop has read those of the first slot up to
where it is (`HalfPopped`). The copies of a push leave the stored bytes alone
(`Untouched`, from `WholeSlots` and the room of the push), so what a pop has
half read stays what is stored; a publication turns the half-written slot into
the last stored one (`StoredPush`) or drops the first, which `out` then equals
(`StoredPop`). For the refinement, the elements read off the slots are appended
to by `PushPublish` and lose their head by `PopPublish` (`ItemsPush`,
`ItemsPop`), a full ring holds `Count` of them and an empty one none
(`ItemsEnds`), and all other steps leave them alone (`ItemsSame`).

`QueueHubProofs` proves about `QueueAdapter`, for every set of producers, ring size and number of
puts:

* `QueueTypeCorrect`: `Spec => []TypeOK`;
* `OneProducer`: `LFQUE_Push` is never in two threads at once;
* `QueueImplementsFifo`: `Spec => Fifo!Spec`, the refinement of `BoundedFifo`;
* `AcceptedDelivered`: `Spec => []DeliveredInOrder`, what was taken and what is
  queued holds, of each producer, just its accepted elements, in its order.

The invariant is types, "whoever is between lock and unlock of `wMutex` holds
it", "a producer past its full test has room" and "the consumer past its empty
test has an element". Room is kept by the publication of one producer only
because no other is past its test, that is, because of the mutex; the consumer
can only make more room. A put takes effect at its full test when it is
refused, at the publication when it is accepted; a get when `read` moves; all
other steps stutter. The ring is taken at the level of `BoundedFifo`, which
`RingImplementsFifo` justifies for the one producer that `OneProducer` leaves.
`DeliveredInOrder` says "the part of a sequence that is p's" as a relation
(`PartOf`: an increasing choice of just p's positions), because `SelectSeq` is
recursive and the provers have no induction over sequences. A publication
lengthens one producer's part by its last element, a get leaves taken and
queued elements together as they were.

`MessagingProofs` proves for every finite set of tasks, every set of calls,
every choice of receivers and every queue size all the safety properties of
`Messaging`:

* `TypeCorrect`: `Spec => []TypeOK`;
* `CountersExact`: `Spec => []RefExact`, the counter of an exchange is the
  number of copies that will be dropped;
* `DataFreedOnce`, `DataAlive`, `NothingLeaks`: no data is freed twice, or
  before its last reader is done, or (but for responses to a broadcast) never;
* `HandledOnce`: the handler of a request runs at most once.

Assumption: `Main` is no task, the broadcast is none of the requests, receivers
are tasks, the queue size is positive, NULL differs from everything else. The
proof looks at queues and stacks as one function, `mail`, from places to
exchanges: a put and a change on a stack write to one place (`PutWrite`,
`StackWrite`), and `SAMGR_MsgRecv` permutes the places of a task (`TakeMoves`).
Two lemmas then count: a write changes the number of counted copies by what was
and what is at its place (`CopiesWrite`), a move does not change it
(`CopiesMove`). The inductive invariant `IInv` says that counters are exact
(`Exact`); that what a copy points to is there (`Alive`), and what is there is
pointed to (`InUse`); that two copies of one request exist only after it was
answered, and then agree in their data and are counted if they have any
(`Alone`); that the handler of a request is still to be run from at most one
place, and from none once it ran (`Once`); and which states a broadcast goes
through. The properties need each other: data is freed once because the last
copy is known exactly, and counting starts at two because an exchange that is
not counted yet is the only copy of its call. A task that turned to the
fallback keeps its own copy, hence its counter, which is why `Fallback` never
drops the last reference.

`TaskPoolProofs` proves for every set of services, every configuration, every
number of shared slots, queue size and reference limit:

* `TypeCorrect`: `Spec => []TypeOK`; `ref` stays within `MAX_REF_NUM`;
* `ReferencesExact`: the count of a live pool is the number of services that
  run in it plus the slots of `sharedPool` that hold it;
* `PoolsInUseAreLive`: no registered service and no slot refers to a pool that
  was freed, that is about to end or whose queue was destroyed.

Assumption: the constants have their types, the indices of `sharedPool` are
finitely many, `MAX_REF_NUM` is at least two. The inductive invariant `IInv` is
the three properties with: a slot of `services` in use holds a registered
service, whose id is the slot's index (so that UnregisterService takes the only
holder of the reference it drops); the services a bootstrap collected, and
those the initialisation requests queued or running point to, are registered
(so that a pool given or a service initialised belongs to somebody; this rests
on `Settled`, the assumption on clients); a task that works has a message; a
pool not created has neither task nor messages. `ReferencesExact` and
`PoolsInUseAreLive` need each other: the release at count one frees a pool that
no service uses because counts are exact, and counts of live pools stay exact
because services refer to live pools only. The lemmas about `Vector`
say that adding never overwrites an element (`AddKeepsOthers`) and that what is
found is held (`FirstFound`). Steps are taken in three groups: those that leave registry
and pools alone, those that move references (`AddTaskPool`), and registration
and unregistration.

`RegistryProofs` proves for every set of names and interfaces, every limit and
every GROW_STEP:

* `CountedAlways`: `Spec => []SlotsCounted`; the counters of all vectors are
  exact and no vector grows past its limit and one GROW_STEP;
* `RoutesCorrectly`: `Spec => []RouteCorrect`;
* `IdentitiesStable`: `Spec => IdsStable`;
* `RegistryIsMap`: `Spec => ImplementsServiceMap`, the refinement of
  `ServiceMap`.

Assumption: the limits and GROW_STEP are positive naturals, NULL is neither
a name, an interface nor a record, and `DEFAULT` names no feature. The inductive invariant says of the vector of
services and of each vector of features that it has its type, that `free` is
the number of released slots, that names are unique, and of a service that its
id is its index. It rests on lemmas about the vector for all
elements: `AddHeld` (adding fills one slot that held nothing), `AddSound` (the
counters stay exact, and memory grows only when every slot is in use, so that a
limit on elements is a limit on memory), `ReleaseHeld`, `UpdateHeld`. Without
exact counters the limits, which are tested with `VECTOR_Num`, would not bound
the memory; without unique names `FindByKey` could find another object than the
one the identity was made for.

For the refinement, a vector whose elements have unique names is a function from
the names to the elements (`View`). Adding in whatever slot extends that
function by one name, releasing a slot removes one, and changing an element in
place changes it at its name; so each call does to the map what `ServiceMap`
says, first for the features of one service, then for the services. A call that
is refused for want of room is refused by the map, because the counters are
exact.

`BootstrapProofs` proves for every set of services of each stage, every
assignment of pools and every queue size:

* `QueuesFirst`: `Spec => []QueuesBeforeInitialize`;
* `CoreUpFirst`: `Spec => []CoreOnceAndFirst`.

Assumption: the services are finitely many and belong to one stage each, the
bootstrap service is a core service with a pool, queues have room for a message.
The inductive invariant has two halves, and each needs the other only in one
direction. The first says where services and requests are. What was registered
when a thread collected has its queues, but for the services that thread
collected and has yet to give pools (`Collected`: a service found initialised was
served by a task, hence has its pool); and every request queued or running is for
a service of that pool, asked for when the services known then had their queues
(`Pooled`). Services that another thread registers meanwhile do not enter, which
is why the mutex may be free between two registrations. The second is about the core: nothing
is past the core stage (status, registered services, boot messages, threads
past `GetUninitializedPos`) unless the core services are idle (`CoreFirst`), and
a request for a core service is at one place only, once, before that service was
initialised (`Once`): to be collected by main, collected, queued, or running.
That tasks do not collect it again rests on `CoreFirst`: a pool's task calls
`SAMGR_Bootstrap` only for a boot message. `CoreFirst` survives the unlocked steps of
`InitCompleted` because core services only ever become idle and are all
registered from the start; for application services, registered later, the same
argument fails, which is what `bootstrap_app_completed` shows. Neither theorem
needs the mutex that `InitializeAllServices` holds across its requests.

`LogOutputProofs` proves for every size of the cache, of records and files:

* `RecordsReadWhole`: `Spec => []RecordsWhole`;
* `LogFileIsSuffix`: `Spec => []FileIsSuffix`;
* `OutputContinuesInLog`: `Spec => []OutputContinues`.

Assumption: cache and file have room for something, the other bounds are
naturals, `NULL` is not a file. The cache is looked at as a stream: the cells from the place of the next read
on, over the end of the buffer, and those a writer has still to copy. The
inductive invariant says that this stream is the rest of the record being read
and the records accepted after it, each a head and its values (`LaidOut`), and
what the flusher knows at each of its steps (`Reader`): having tested
`usedSize` without the mutex it finds the cells it copies in the cache, because
writers only add and it alone removes, and the head it holds is that of the
record whose values come next. Writers append to the stream, the flusher takes
cells off its front (`LaidWrite`, `LaidRead`), and a refused record leaves it
alone.

Of the files, `FileInv` is `FileIsSuffix` with the types: a line written whole
extends both the file at its write cursor and the history (`EndsWritten`), a part
of one stays behind the write cursor (`EndsPart`), and a file that is opened again
either is as long as the write cursor, or is new, or moves `mark` to where it ends
(`EndsOpened`, `EndsNew`). Each rotation is a way to copy (`Copied`), to move
(`Moved`) and to open (`Opened`), and `KindsKept` carries which operations failed.
`FileInv` alone does not carry `OutputContinues`, since a header that could not be
written spoils it: `OutInv` adds that the write cursor of an open file is behind
its last line all the same (`AtEnd`), so that a line goes over none and leaves no
gap. Rotation then moves the lines of one file to the other, whose old lines are
the oldest (`OutProc`), and `SuffixConcat` and `LinesWritten` say what a line adds.

`SamgrTimerProofs` proves for all timers, intervals and repeat counts, every
queue, all messages of clients, every `TimeMax` and every `CounterMax` of at
least three:

* `TicksBounded`: `Spec => []FewTicksWait`, at most three ticks wait;
* `TypeCorrect`: `Spec => []TypeOK`, at most one node per timer included;
* `TimersListed`: `Spec => []ListedWhileOwed`;
* `NeverEarly`: `Spec => []NeverAhead`;
* `TicksFireDue`: `Spec => DueFired`.

The invariant of the ticks, `TickInv`, says that `tickCntWr`, with a tick sent
but not counted yet, is ahead of `tickCntRd` by some number from 0 to 3, over the
wrap of either counter (`Ahead`), that no more ticks wait than that, and that it
is at most 2 when a tick is about to be sent. A refused tick raises the number
and not the ticks that wait, so they are related by an inequality; a tick can be
handled before it is counted, which is why the uncounted one belongs to the
number. That the test of `samgrTimerTickReq` lets the number reach 3 and no more
is where its arithmetic on the wrapped counter enters.

The list needs to know what `SamgrTimer_FireTimers` makes of it: the model's
`Keep` and `InsertAll` are recursive functions over positions, and the lemmas
`Kept` and `AllInserted` say which nodes the result has (just those wanted, one
per timer). They go by the least position at which the claim would fail
(`Smallest`, `UpTo`), since the library's induction theorems cannot be
instantiated. On top of that `TimerInv` has three parts. `Listed`: a node is
listed for just the timers with firings owed, with that repeat count.
`Scheduled`: the time to go until a node expires, counted in the turn of the
clock that the next tick will find, and the `credit` of its timer together cover
an interval (unless the timer was armed after an unseen wrap). This and the next part are about timers that are not `misled`: `TurnSeen` shows
that as long as nothing misled a timer the clock moves by one and, where it turns,
in view of the test `now < lastTick`. `NeverAhead` alone
is not inductive: a firing takes an interval off `credit`, and only `Scheduled`
says that an expired node has it. `Timely`: a node will have waited, when it
expires, no longer than its interval and a unit for each turn of the clock until
then. `DueFired` has the bound
`TimeMax * (since - interval) < interval`: `Unwrap` subtracts
`SAMGR_TIMER_TIME_MAX`, one less than the clock loses when it wraps, so that a
node is late by one unit for each turn of the clock that its interval spans.

`QueueHubProofs` proves about `EventHub`, for any handles, identities, receivers,
nodes, events and queue sizes:

* `NodesOwned`: `HubSpec => []OneOwner`;
* `HubImplementsPubSub`: `HubSpec => ImplementsPubSub`.

The hub's definitions have names of their own (`HubSpec`, `HubNext`), so that one
module can extend it and the queue adapter. Assumption: `NULL` is neither the
contents of a node nor a request. The inductive invariant `HubInv` says that the
nodes of the requests in the queue, of the request being handled and of the two
lists are different ones, each held once (`Once`, `Apart`), that together they
are the nodes allocated and not lost (`Complete`), and that nodes not allocated
so far are `NULL` (`Fresh`). `OneOwner` counts the owners of one node and does not
say that two places hold different nodes in the form the steps need: `Recv` moves
a node from the queue to the task, an update moves it to a list whose first
matching node it frees (`Updated`).

The refinement needs a second invariant, `Filled`, inductive with `HubInv`: the
node of a request is of the kind its message id says (`AllServed`),
`senderList` has one node for a handle and `receiverList` one for a receiver and
a sender, whose identity has a queue (`SendersListed`, `ReceiversListed`), and the
receivers' queues keep to their size (`Inboxes`). An accepted call appends a
request, so that the abstract state takes one more operation (`WorkedAppend`),
and the node it allocates is none that a request or a list has (`WorkedHeap`,
`SameRecs`). An update does to the lists what the abstract operation does
(`UpdateSenderStep`, `UpdateReceiverStep`): as the first request took effect
before those behind it (`WorkedFirst`), the abstract state stays. Firing
(`FiredIs`) and receiving change the receivers' queues now, while the abstract
step is about the queues once everything is handled: an event missed or taken now
is missed or taken then, because the requests behind only add to the end
(`WorkedShorter`, `WorkedTaken`, from `RemoveConcat` and `TailConcat`). Recursive
functions are unfolded through `Iterate` and `UpTo`, which replace the induction
theorems of the library.

Only model-checked: all liveness, which is out of the provers' reach.

## 7. How properties map to the code's promises

`ImplementsFifo` (ring, queue) is what `message.c` relies on. `RefExact`,
`FreedOnce`, `NoUseAfterFree` and `NoLeak` are the memory discipline that
`message.h` promises ("the system automatically releases the data").
`HandlerAtMostOnce` and `EventuallyAnswered` say that a request has one answer,
if its service stays. `QueuesBeforeInitialize` is the comment in
`InitializeAllServices`, read for the services known at the time;
`BootCompletes` the comment in `SAMGR_Bootstrap` on the stages and the "dead
loop". `NeverAhead`, `DueFired`, `ListedWhileOwed` are the contract of a timer;
`FewTicksWait` and `TicksGoOn` of the flow control. The arithmetic of the
8-bit counters lets a third tick into the queue where the code's test says two.
`RefExact` is the comment in `UnregisterService` on the "atomicity of the
reference". `IdsStable` and `RouteCorrect` are what every client relies on that
keeps an `Identity`. `OneOwner` is the agreement between the hub and
`SAMGR_FreeMsg` that `msg->len = 0` expresses. `OutputContinues` is what rotation
is for: the output file holds the lines before those of the log file.

## 8. Assumptions and what is not modelled

* Memory is sequentially consistent. The ring has no barriers; on machines
  that reorder stores the publication may overtake the copy.
* A service is unregistered only when its initialisation is over, and nobody
  sends to the identity of an unregistered service (`TaskPool`; in `Messaging`
  requests to it wait or even arrive later); calls on the features of one service
  do not overlap (`Registry`): the code takes no mutex there.
* The event hub's lists are initialised before its queue is used (`EventHub`).
* `lseek` on an open file succeeds, a header that was written in part is not
  recognised, and the number of a descriptor that `close` gave up is not used
  again before the stale handle is (`LogOutput`).
* The window in `QUEUE_Put` between the push of an exit message and the unlock
  of `rMutex`, in which the task may destroy the queue, is not in `TaskPool`,
  where a put is one step.
* Services themselves (what a message function does besides sending and
  responding), logging, priorities and watchdog calls are left out.
* `BeginWork` and `EndWork` switch a service between idle and busy around a
  message; nothing modelled reads the difference.

## 9. Not modelled

* **Protobuf, generated messages, demonstration programs**: all but some 8000
  of the repository's lines of code. The library is vendored third-party code;
  its core is parsing, formatting and code generation, sequential and without
  the state a model of this kind is about. The share of the whole repository
  that the map covers is small for this reason; of `protoc2/base` it covers
  the concurrent part.
* **Adapters** (mutex, semaphore, thread, memory): one POSIX call each,
  part of the actions that call them. The clock of `time_adapter.c` is in
  `SamgrTimer`.
* **Adapter timers**: settings of kernel timers; the one callback installed, the
  tick, is in `SamgrTimer`. `KalTimerDelete` frees a timer whose callback may
  still run.
* **Interface references**: a counter that `IUNKNOWN_Release` does not lower to
  zero and that nothing reads.
* **Hiview service, configuration**: start-up tables.
* **Other log outputs**: the console, the FIFO log and the binary file use the
  same cache operations; formatting is left out; the limiter is a counter per
  module.
* **Shell**: a single-threaded line editor without shared state.
  (`shellCompanionDel` of the first of several companions frees it and leaves
  the list head pointing to it.)
* **Hardware memory order**: see section 8.
