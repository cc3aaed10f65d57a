# A TLA+ verification of MotionCore

MotionCore is a C++ core library for robot services: executors and strands, an
event dispatcher on thread pools, RPC over FastDDS topics, three kinds of
channels (FastDDS, in-process, shared memory), nodes with timers and a spin
loop, parameter servers, discovery and fault recovery. What makes it hard is
concurrency: threads that start, block, hand work to each other and stop. The
modules here model that core; TLC checks small instances and TLAPS proves the
main safety properties of ten components for instances of any size.

Paths below are relative to the repository; `include/` and `src/` are its
directories.

## Inventory

For each part: the state it keeps; what is done to it; what it interacts with;
what is hard; what makes it correct.

| Part | State and operations | Interacts with | Hard, and correct when |
|---|---|---|---|
| `Executor` (`include/executor.h`) | bounded deque, workers, `running_`, `stopping_`, two condition variables; `start`, `spin`, `spin_once`, `post`, `stop` | everything that schedules work | wake-ups, `post` against `stop`, tasks that post; FIFO, each task once, `stop` drains and returns |
| `Strand` (`include/strand.h`) | queue, `scheduled_`, `stopped_`; `post`, `drain`, `stop` | posts its `drain` to an `Executor`, which may refuse | the end of a drain against a post; one drain, FIFO, nothing forgotten |
| `EventQueue`, `ThreadPool` ×2, `EventDispatcher` (`src/event_queue.cpp`, `src/thread_pool.cpp`, `src/event_dispatcher.cpp`) | bounded queues, pool phases, the loop; `push`, `pop`, `submit`, `dispatch`, `handleResult`, `start`/`stop` of each | queue → loop → pool → handler → queue again | a cycle of two blocking queues; retries, refusals, drops; an event in one place, retries bounded, `stop` returns |
| `RpcClient` (`src/rpc_client.cpp`) | `pending_`, promises, `next_id_`, `started_`; `start`, `call`, `stop`, `on_reply` | two channels; the caller's thread and the reply's | reply, timeout and `stop` race; a promise fulfilled once, one's own answer, nothing left behind |
| `RpcServer` (`src/rpc_service.cpp`) | `rep_`, `req_`, `stopping_`, `callbacks_inflight_`, handlers; `start`, `on_request`, `stop` | listener thread or executor | teardown under running callbacks |
| `InprocChannel` (`src/inproc_channel.cpp`) | `BufferPool` free list, `IndexQueue` cells and positions, handlers, dispatch thread; `allocate`, `publish`, `subscribe_scoped`, `stop` | publishers, dispatch thread, `Subscription` | lock-free code; each buffer has one owner, messages in order, buffers come back |
| `ShmChannel` (`src/shm_channel.cpp`) | ring in shared memory, semaphore | two processes | crash of either, tokens against messages |
| `FastddsChannel`, `ByteBufferPool` (`src/fastdds_channel.cpp`, `src/byte_buffer_pool.cpp`) | listener, handlers, leases, entities | FastDDS, executors, strands | teardown with callbacks inside, leases returned |
| `Node`, `NodeBase`, `TimerManager`, `spin` (`include/framework/`) | callback groups, subscriptions and their statistics, timers, `running_`; `create_*`, `tick`, `dispatch_once`, `spin`, `on_signal` | executor, strands, channels, RPC | some forty overloads that place a callback; late ticks, cancelled timers, a loop that takes one closure per turn; groups serialise, counts add up, timers keep their pace |
| Parameter servers (`src/param_server*.cpp`, `src/param_store.cpp`) | values, descriptions, observers, set and export queues, snapshot; `declare`, `set`, `get`, `subscribe`, `applyBulk`, worker and fetch threads, `stop` | topics, configuration centre, `ParamStore`, users | observers told after the unlock, two copies of each value, maps without a lock; values, strings and observers agree in the end, every message answered once |
| `DiscoveryClient` (`src/discovery.cpp`) | `running_`, `peer_infos_`, worker; `start`, `stop`, `run`, `refreshPeers` | HTTP service | requests lost, late, given up; leaving is the last word, and those who left are forgotten |
| `FaultRecoveryExecutor` (`src/fault_recovery_executor.cpp`) | `started_`, `degraded_`; `start_on`, `stop`, `handle_fault_msg` | `FastddsChannel`, executor, the main loop | one degradation; messages queued behind `stop`; a restart ends the loop |
| Legacy communicator (`src/communication.cpp`) | an entry with a queue per topic, copies of what it sent; `send`, `receive`, `sendDTO`, `receiveDTO` | `FastddsChannel` | texts and DTOs on one topic, its own messages twice; nothing reordered, the newest never lost |
| DTOs and CDR (`src/dto_core.cpp`, `include/dto/`) | two serializers, two deserializers | communicator, publishers | alignment, buffers that are estimated; what is encoded decodes |
| `ChannelRegistry`, `WorkerGroup` | maps of channels; threads | channels | a snapshot that is stale; `stop` that races itself |
| `LifecycleNode`, command router, capability status | a state; the user's hooks | main loop | transitions from inside a hook |
| Configuration, logging, metrics, time, security checks | conversions and I/O | | no control state of their own |

`PROJECT.json` lists every part with its status, and under "hazards" the places
in the code that a test would hardly reach, with the properties that watch them.

## Plan

In this order, the most used parts first:

1. `TaskService`, `Executor` with proofs: done.
2. `Strand` with proofs (in `DispatchProofs`): done.
3. `EventDispatcher` (queue, pools, loop) with proofs (in `DispatchProofs`):
   done.
4. `RpcClient`, `RpcServer`, `Rpc` with proofs: done but for requests that do
   not parse.
5. `InprocChannel` with proofs: done.
6. `ShmChannel` with proofs: done.
7. `FastddsChannel` with `ByteBufferPool` and proofs: done but for `publish()`,
   QoS and the failures of the constructor.
8. `ParamValues`, `PublicParams`, `DistributedParams`, `Params` with proofs:
   done.
9. `NodeWiring`, `Node` (with timers, spin loop and fault recovery) with proofs:
   done but for the builders.
10. `Discovery` with proofs (at the end of `RpcProofs`): done.
11. `Codec`, `Communicator` with proofs (at the end of `FastddsChannelProofs`):
    done.
12. Left: lifecycle, the registry of channels, `WorkerGroup`.

Composition: `Strand` uses the service that `Executor` is shown to implement;
`FastddsChannel` posts to a `TaskService`; `Rpc` joins `RpcClient` and
`RpcServer` by their topics; `Node` puts `NodeWiring`'s placements on strands
and an executor, with timers, the spin loop and fault recovery around them;
`Params` joins the public and the distributed server by the `ParamStore`;
`Communicator` sends what `Codec` encodes. `TaskService` is the abstract
specification of both `Executor` and `Strand`.

## Modules

### TaskService
What a post-and-run service promises: a FIFO queue, slots that each run one
task, no task twice. A slot is a thread of the executor or the single place of a
strand. `Discards` says whether `stop()` may throw queued tasks away.

### Executor
One action per critical section or atomic access. `pc[t]` says where a thread
is: `post_lock` and `post_wait` inside `post()`, `take`, `take_wait`, `run`
inside `worker_loop()`, `once` and `once_wait` inside `spin_once()`. Waits are
explicit: a thread that finds its predicate false goes to sleep, `NotifyOne` and
`NotifyAll` wake sleepers, `WakeUnnotified` is a spurious wake-up or a timeout.
Nothing is fair about `WakeUnnotified`, so a lost notification shows as a thread
that sleeps for ever. `ctl` is the owner inside `start()` or `stop()`; `opts`
is chosen at the start from `Configs`. With `threads` empty the clients drive
the executor by `spin()` and `spin_once()`.

### Strand
`post()` in its steps (unlocked test, locked test and push, call of the
executor) and `drain()`. The executor is `Ex == INSTANCE TaskService`, a service
of the closures `[this] { drain(); }`: it may refuse any of them. A strand that
is refused stays scheduled (see Deviations): `AcceptedRuns` excepts it.

### EventDispatcher
The queue, the two pools, the loop and the producers in one module, because
they block on each other. An event is its id, its attempt and whether it still
has its contents: `submit_fn` takes the event by move (`event_dispatcher.cpp:43`),
so the one that is retried after a refused submission (line 69) has its id and
attempt and neither type nor payload; its lane is then "cpu". `fate` records
what became of the events that are out of the system. Condition variables are
abstracted here: a wait is enabled when its predicate holds, since every store
that changes a predicate is followed by a notification. (`Executor` does not
make that abstraction.) `high_watermark` is in no action: no statement of the
code reads it after the constructor, against the comments at
`event_queue.h:33` and `:35`. Its definitions have no name of `Strand`'s
(`DispatcherSpec`, `Typing`, `at`), so that `DispatchProofs` can extend both.

### RpcClient, RpcServer, Rpc
The client in four kinds of threads: callers, the thread that stops it, replies,
and the promise fulfilment that follows each outside `mu_`. The server as a
callback per request: queued (when a scheduler is bound), the test of
`stopping_`, the increment, the look-up under `mu_`, the handler, the reply, the
decrement. Topics are sets of messages that may be delivered late, in any order or
never; a request is taken at most once by the server that is there, a reply may
come again, as from a second server of the same name. `undefined` becomes TRUE when code reaches for a channel
that was reset; a behaviour ends there. `early` remembers which callbacks had
counted themselves when `stop()` began; nothing depends on it.

A request subscription that is destroyed waits up to 200 ms for the listener's
callbacks (`fastdds_channel.cpp:482`); the model takes the code before the
increment to be shorter than that. The client's `stop()` holds `mu_` until it has
taken the promises, and is one step up to there: the listener of its reply topic
can only wait for `mu_` meanwhile, and the teardown gives up on it after the 200 ms.
The promises are fulfilled in steps of their own. A handler may outlast the 3 s of
`rpc_service.cpp:138` when the world is not `patient`.

### InprocChannel
Every load, store and compare-and-swap of the free list and of the queue is a
step, for publishers and for the dispatch thread: `head`, `link`, `pos` are what
a thread has read and may be stale. A handle may be dropped, published or moved
to another thread. The queue's positions grow without bound and a cell's `seq`
says which lap it is in. `order` and `got` are histories: what was enqueued in
which position, and what each handler was called with.

### ShmChannel
A writer process that publishes and a reader process that subscribes, each of
which may be the creator, may open, crash, and open again. A shared-memory object
and a semaphore have names that `shm_unlink` and `sem_unlink` remove while
processes that opened them go on using the objects: the model gives every object
a generation and keeps for each process the ones it has. `publish()` and the
dispatch loop take one step per access of the shared header, of the slot and of
the semaphore; a payload that is being written is marked as torn until its copy
has ended. `head` and `tail` are counters of 32 bits, here counters modulo `Width`.
A region's semaphore is the one its creator holds when it has set `head` and
`tail`; until then it has none. A region is `disturbed` when a creator has reset
it under an attached peer, when a process has attached to it before it had its
semaphore again (`magic` is not cleared by a reset, `shm_channel.cpp:79-83`, so it does
not tell a region that is being reset from one that is ready), or
when a process has got a region and a semaphore that do not belong together. The
model reaches that state and says nothing of what follows. Payload sizes, and their
truncation to the slot, are left out.

### FastddsChannel
`ReaderListener::on_data_available` as one callback at a time (`cb` is where it
is and its local variables), the executor as a `TaskService` that may refuse and
discard, the owner that subscribes, stops and runs `cleanup()` in its five steps.
A lease is the value that moves: from `free` to `lease` (`msg_.lease`), to a
task or to the handler that runs in the callback (`cb.hold`), back to `free`. Whether a sample fits a buffer
is a choice in `Take`. `undefined` becomes TRUE when the callback goes on after
the listener is deleted. That happens not only when a handler outlasts the
200 ms: a callback that has tested `stopping_` (`fastdds_channel.cpp:188`) and not
yet counted itself (line 192) is not waited for, although
`include/fastdds_channel.h:167` says of the two variables that they avoid
deleting entities while a callback runs. `Awaited` states what the wait does
give: no handler is called any more.

### ParamValues, PublicParams, DistributedParams, Params
`ParamValues` has the conversions between typed values and strings, by what they
do to a value: a double is printed with six decimals, a string is read as far as
it is a number, what no `int` holds is refused. `PublicParams` is the public
server: each operation is one critical section of `mu_`, and the observers that
are told after it are told one by one (`call[t]` at "tell"). `DistributedParams`
is the typed server and the wire server inside it; `frame[t]` is where a user's
thread, the worker or the fetch thread is. The wire server's `params_`,
`callbacks_` and `schemas_` have no lock, so a write of a string is in two steps
and a thread that reaches for it in between, or for a map while a key goes in,
makes `undefined` TRUE, where the behaviour ends. `raced` and `crossed` are the
keys whose calls have overlapped: for those the code promises no order between
the stores and what observers hear. Only a later `declare()` or `set()` that nothing
overlaps settles such a key: the string of a message may be one that nobody can
read, and then nobody is told of it. A message carries what was published for it.

### NodeWiring, Node
`NodeWiring` says for each overload of the `create_*` functions where its
callbacks run and which topics it uses. `Node` builds a node by choosing for
every entity any overload that a user who wants a given group could call (`Ways`),
and lets it run: channels post to the strand or the executor, the main
thread goes round `spin()` (test, `tick`, timers, one closure of the executor),
workers run closures. A strand is its queue and its drain in the executor's
queue, the form in which `Strand` is proved to work. Timers are collected
with their next time under the lock and posted afterwards (`firing` has
those still to post), so a cancelled one may still fire. `recovery` is the `FaultRecoveryExecutor`: the first rule that
matches a fault decides, and its action is taken.

### Discovery
A client's worker, its owner inside `stop()` and a user inside `refreshPeers()`
interleave between any two requests. The HTTP service is external: it lists
whom it hears of, drops whom it has not heard of for `ttl_ms`, and may get a
request, lose it, or get it after the client has given it up (`late`).

### Codec, Communicator
`Codec` abstracts bytes to fields with their places: how each serializer aligns,
what a string's length and its zero take up, when a buffer is full, and what a
deserializer finds there, field by field. `Communicator` has for each
topic name an entry for texts and one for DTOs, which share the topic; their
bounded queues, the copy of what was sent last, the profiles that give a queue
its size, and the failures of making a channel. The texts and the DTOs of one
sender go through two DDS writers (`communication.cpp:401`, `:446`): each
writer's samples come in order, or are lost, and nothing orders one writer's with
another's. An empty text, which the callback drops (`communication.cpp:509`), is one
that is lost. Beside it a typed message goes
through the serializers on its own.

All models take memory to be sequentially consistent. Each module with a state
has a `TypeOK`, or the module that composes it has; it is proved in the
proof modules and is not in the `.cfg` files, whose properties are the ones that
could be wrong for a reason. (`Node`, whose worlds are any records, is typed by its
inductive invariant.)

## Runs

| Run | Result | Shows |
|---|---|---|
| `Executor.cfg` | passes | five executors (below): `StopDrains`, refinement of `TaskService`, `CallsReturn`, `AcceptedRuns` |
| `Strand.cfg` | passes | `OneDrain`, `StopIsFinal`, `NestedNeverSchedules`, refinement of `TaskService`, `AcceptedRuns` |
| `EventDispatcher.cfg` | passes | `OnePlace`, `RetriesBounded`, `StopsReturn` (both `stop()`), `EventsSettle` |
| `Rpc.cfg` | passes | `FulfilledOnce`, `NothingLeaks`, `AnswerIsMine`, `CountedAreAwaited`, `StopReleases` |
| `Inproc.cfg` | passes | `OneOwner`, `NoGaps`, `Recycled` with one allocating thread |
| `InprocABA.cfg` | violated | with two allocating threads a buffer gets a second owner |
| `ShmChannel.cfg` | passes | `TokensCover`, `WholeInOrder`, `AcceptedIsDelivered` through full rings, wrapping counters, crashes and restarts |
| `FastddsChannel.cfg` | passes | `OneOwner`, `Accounted`, `Awaited`, `LeasesReturn` with refused and discarded tasks, an exhausted pool and a teardown under a callback |
| `Params.cfg` | passes | `PublicSettles`, `DistributedSettles`, `AnsweredOnce`, `MessagesAreServed`: values, strings, `ParamStore` and observers agree once nothing is under way; each message is answered once and none is left in a queue |
| `Node.cfg` | passes | `OneAtATime` for every choice of overloads, `Counted`, `Paced`, `Settles` |
| `Discovery.cfg` | passes | `LastWord`, `Forgotten` with lost, late and given-up requests and entries that expire |
| `Communicator.cfg` | passes | `RoundTrips` of every DTO through every encoding; `NewestInOrder` for each queue and copy |

The violated run is a finding: the quoted comment and the line of code that
disagrees with it are in `PROJECT.json`.

### Bounds, and why they are enough

- `Executor`: the rows of `MCExecutor` are the blocking pool with two workers
  and room for one task, the single worker whose tasks post to it, the pool that
  rejects, the executor driven by `spin`, and the unbounded queue. Two clients
  and three tasks make a full queue with a waiting poster; two lives make a
  restart with tasks left over. `MaxLives` bounds the restarts.
- `Strand`: two workers, two clients, four tasks: a post in each phase of a
  drain, nested posts, a stop between the two tests.
- `EventDispatcher`: one worker per lane. The first row has four events, as many
  as it takes to fill the queue, the pool, the loop's and the worker's hands,
  which closes the cycle of waits. The other rows drop, refuse, or do
  not retry (256 retries, which the cast to eight bits makes none).
  `max_starts` bounds the starts; events are pushed in the order of their ids,
  which are interchangeable otherwise.
- `Rpc`: `Worlds` lists what happens together: two calls at once; a restart of
  the client, of the server, on an executor and on the listener's thread, with
  and without handlers that outlast the wait. `MaxCalls` bounds the calls of a
  client.
- `InprocChannel`: two buffers and three allocations let the queue's positions
  go round and the free list come back to a head it had. A batch of two is
  filled. Two subscriptions, one with a token, give a second life and a reset.
  `MaxAllocs` bounds the allocations.
- `ShmChannel`: two slots, four messages (`MaxMsgs`) and `Width` 4, so that
  the ring is full, goes round, and the counters wrap. In all three channels
  are constructed (`MaxOpens`), so that one process comes back; processes crash
  twice (`MaxCrashes`); and a dispatch thread is started twice (`MaxStarts`). What
  takes both processes coming back is beyond these bounds and within the proofs.
- `FastddsChannel`: one handler in place, one posted, one with leases; two
  samples (`MaxMsgs`) for two buffers, of which the listener may keep one while
  a task holds the other, or lose the use of one to a sample that does not fit;
  one subscription of the leased handler (`MaxLeased`); one place that runs tasks,
  so that a queue builds up.
- `Params`: two keys, a double that may be written and an `int` that may not; a
  value with more digits than are printed; an `int` type of up to `MaxInt` 2;
  queues of one message (`MaxQueue`), so that a second one pushes the first out. `Worlds`
  bounds what happens together: four calls of two threads on the public server;
  three calls of one user against one of another; three against a message or
  fetch; a call against two messages; calls of both servers, alone and with a
  message, on one `ParamStore`.
  The messages are a set, a refused set, a bulk of two strings nobody can
  read, an export request and an export reply that comes back.
- `Node`: the rows of `MCNode`: two subscriptions in one exclusive group by any
  overloads on a worker and the main thread; a reentrant group; two timers; the
  main thread alone with ticks that come late (`MaxTime` 3, longer than every
  period); a service, its client and the default group; four recovery rules and
  three faults. `MaxMsgs` 2 lets a second message come while the first is run.
- `Discovery`: two clients, one that leaves and comes back for ever and one that
  also refreshes by hand; one request that was given up under way at a time
  (`MaxLate`), which is enough to arrive behind the deregistration.
- `Communicator`: three messages (`MaxSent`) in queues of one and two, two
  receives per queue (`MaxReceives`); strings of 0 to 3 characters in every position
  of an EventDTO, which are all residues of the alignment to four bytes, and in the
  other DTOs also of 5 and of 700, more than any reserve; buffers that begin
  with 0, 16 and 512 bytes.

Deadlock is checked for `Discovery`, whose nodes go on for ever, and for no other
run: each of the other programs may end with nothing left to do.

### Fairness, and why the code justifies it

Weak fairness of the steps a thread takes inside a call: the operating system
runs threads that can run. In `Executor`, `EventDispatcher` and `Node` this includes
that tasks and handlers return, without which no `stop()` returns and no loop
goes round. No fairness on calls of the program (`post`, `push`, `stop`,
`publish`), on timeouts, on spurious wake-ups, or on the delivery of messages (but
the dispatch thread of `ShmChannel` does not wait for a token for ever: its wait is
timed). `stop()`, once called, goes on. `ShmChannel` is fair to a process inside
`publish()` and to its dispatch thread, not to opening, publishing or
subscribing; `FastddsChannel` to the callback that FastDDS has called and to the
executor's tasks, not to the owner or to the samples. In `Strand`, weak
fairness of `DrainBegin` is the executor's own `AcceptedRuns`.

`Params`: the worker, a thread inside a call, the join in `stop()`. `Node`: the
main loop and each thread's step on a closure; not creation, arrivals, signals or
the clock. `Discovery`: the client's threads; requests that were given up
arrive in the end; the service drops a client that has stopped and is not heard
of (the ttl, 15 s in `config/wxz_config.yaml:12`); and, strongly, the answer to a
fetch: a service that is asked for ever answers again. Nothing makes it answer, or
keep an entry, on any one occasion. `Communicator` states no liveness.

The properties name their exceptions: `Live` (workers exist, the queue is
bounded, no worker can block in a post to its own full executor) for
`AcceptedRuns` and `CallsReturn`, `Refused`, the cycle of two blocking queues
in `EventsSettle`, `undefined` in `Params`.

## Deviations

Places where the code does not do what a document, a comment or a caller would
expect. Each is in the models as the code has it, and the properties except
exactly these cases. `InprocABA.cfg` exhibits one; the others were met while
modelling.

- `include/executor.h:21` against `:117`: an executor without a limit accepts a
  post after `stop()` has returned. `include/strand.h:15` against `:50`: a strand
  whose drain is refused never runs what is posted later.
- `include/rpc_client.h:43` against `src/rpc_client.cpp:125,216`: two clients with
  the same prefix take each other's answers. `src/rpc_service.cpp:123,252`
  against `:146-153,221`: a callback queued on the executor uses `rep_` after
  `stop()`.
- `include/event_queue.h:33,35`: `high_watermark` is read by no statement.
- `src/event_dispatcher.cpp:86`: `max_retries` is cut to eight bits; 256 are none.
  `RetriesBounded` counts with what the cut leaves. `src/event_dispatcher.cpp:32`:
  a dispatcher that is started again after `stop()` runs its loop on a queue that
  stays stopped; the loop takes nothing, and does not wait either.
- `src/inproc_channel.cpp:54`: a free list with a bare index (ABA).
- Wire parameter server: of a `.json` snapshot only the first key is read back,
  with an empty value (`src/param_server.cpp:124-148`;
  `include/internal/param_server.h:54` promises to persist and load). The export
  request that `include/param_server.h:98` documents as JSON is not recognised
  by `src/param_server.cpp:57-63`. The wire's type test accepts an empty string
  and an integer no `int` holds, which nobody can read afterwards; doubles are
  printed with six decimals.
- `src/param_server.cpp:79-84`, `:495-510`: `params_`, `callbacks_` and `schemas_`
  are used by the worker, the fetch thread and users without a lock. What
  overlapping accesses do is undefined, and no property reaches past them.
- Distributed parameter server: the default of a read-only key is refused by its
  own `applyBulk` and so never reaches `ParamStore`
  (`src/param_server_distributed.cpp:140`), which may keep an older string from
  the topic; `set()` of a read-only key returns
  true and tells the observers (`:195`). `include/framework/parameter.h:101`:
  subscribing a key again destroys the observer the server still points to. The
  public snapshot leaves out empty strings.
- Node: a cancelled timer whose callback is queued still runs, and a refused post
  loses a firing (`include/framework/timer.h`); a second node takes the first
  one's signals (`include/framework/node_base.h:186`); `spin` takes at most one
  closure per turn; a bounded blocking executor without threads would block the
  loop that posts to it; `~EventDtoSubscription` destroys what tasks in the queue
  still use (`include/framework/node.h:124,164`); the constructor of `RpcService`
  from options does not derive the topics that `include/framework/service.h:34`
  says are derived.
- `LifecycleNode`: `shutdown()` inside a hook finalizes the node and the
  transition that called the hook then goes on (`include/framework/lifecycle.h:53`).
- Fault recovery: the marker is tried once, even if writing it failed; messages
  that were posted are handled after `stop()`.
- Discovery: the first registration is tried once (a heartbeat says the same
  things, and the model lets the service list its sender); `stop()` tests and
  clears `running_` in two steps; a request that was given up may
  arrive after the deregistration, until the ttl is over; `refreshPeers` may put an
  older list in place of a newer one.
- Communicator: what it sends it may receive twice, from the topic and from its
  copy; texts arrive in the queue of DTOs and the other way round; what
  `sendDTO` writes the newer `decode_event_dto_cdr` does not understand;
  `setTopicQos` has no effect on a channel that exists; its maps have no lock.
  `Image2dDto` writes binary data as a string, and `src/dto_core.cpp:566` resizes
  before it has checked a length; a `;` in a key-value payload is not escaped.

## Proofs

For all values of the constants that satisfy the modules' assumptions (any
threads, tasks, options, numbers of lives):

| Module | Theorems (properties) |
|---|---|
| `ExecutorProofs` | `TypeCorrect`, `StopDrainsTheorem`, `Refinement` (`ImplementsService`) |
| `DispatchProofs` | of `Strand`: `TypeCorrect`, `OneDrainTheorem`, `StopIsFinalTheorem`, `NestedNeverSchedulesTheorem`, `SerialRefinement` (`ImplementsSerial`); of `EventDispatcher`: `DispatcherTypes`, `OnePlaceTheorem`, `RetriesBoundedTheorem` |
| `RpcProofs` | `TypeCorrect`, `FulfilledOnceTheorem`, `NothingLeaksTheorem`, `CountedAreAwaitedTheorem`, `AnswerIsMineTheorem`; of `Discovery`: `LastWordTheorem` (`LastWord`), `DiscoveryTypes` |
| `InprocProofs` | `TypeCorrect`, `OneOwnerTheorem`, `NoGapsTheorem` |
| `ShmChannelProofs` | `TypeCorrect`, `TokensCoverTheorem`, `WholeInOrderTheorem` |
| `FastddsChannelProofs` | `TypeCorrect`, `AwaitedTheorem`, `OneOwnerTheorem`, `AccountedTheorem`; of `Communicator`: `NewestInOrderTheorem`, `CommunicatorTypes` |
| `NodeProofs` | `Wired`, `OneAtATimeTheorem`, `CountedTheorem`, `PacedTheorem` |
| `ParamsProofs` | `ParamsTypes`, `MessagesAnsweredOnce` (`AnsweredOnce`), `DistributedServerSettles` (`DistributedSettles`), `PublicServerSettles` (`PublicSettles`) |

Each rests on an inductive invariant (`IInv`, `EInv`, `ParamsInv`, `CommInv`): it holds
initially, every action keeps it, and the properties follow. TLC checked each on the
module's run before it was proved (`CommInv` with two messages).
The properties are not inductive by themselves; what has to be added says why the
code works.

**Executor.** What a thread carries at each place (a task while
it runs one, an argument while it posts); that workers exist only in a life and
clients drive the executor only when it has no threads; that an accepted task is
in the queue, on a thread or finished; and that a worker has left only while the
executor stops with an empty queue, after which no post to a bounded queue can
push, since a push looks at `stopping` under the same lock. `StopDrains` follows
when the last worker is gone; alone it says nothing until `running` is FALSE.

**Strand.** Where each task is; that the right to drain is in at most one
place, with a poster, in the executor or with a worker; that `scheduled` is TRUE
whenever it is in one of them (it stays TRUE after a refusal); that a posted task is
new; and what a strand that was stopped holds.

Both refine `TaskService`: the mapping takes the worker's `cur` to a slot and
every action to `Submit`, `Begin`, `End`, `Discard` or a stutter. The invariant
supplies that a submitted task is new and that a slot is free when a task is put
in it.

**EventDispatcher.** `SomewhereInv`: an event was pushed if and only if it is in
the queue, in a pool's queue, in a thread's hands or settled. `ApartInv`: it is in
only one of them. `RetryInv`: wherever it is, its attempt is within its retries
and its handler was called as often as its attempts say; one that lost its
contents has spent attempts without a call. `RouterInv`: the router knows what
was pushed. `ThreadInv` says that a worker that left its pool left it
empty, so that the join destroys nothing. Assumed: every lane has a worker, which
the pools' constructors see to (`src/thread_pool.cpp:38`), and `Null` is not an
event.

**Rpc.** Types with what each thread has at each place; that a pending entry
belongs to a call that has not taken it out; that a promise in the hands of a reply
or of `stop()` is out of the map, and so nobody else fulfils it; that what the
server has counted is with a callback that has not yet left. `AnswerIsMineTheorem`
has one hypothesis, `DistinctPrefixes`: no two clients share the prefix of
their ids (`src/rpc_client.cpp:126`). The code leaves that to the configuration, and
without it the property is false (see Deviations). Under it every message that
carries a client's id was made for the call that has the id.

**InprocChannel.** `OneOwnerTheorem` has one hypothesis, `OneAllocator`: at most
one thread calls `allocate()`. The code does not see to that, and
`InprocABA.cfg` shows that the property is false without it; `NoGaps` and the
types need the hypothesis too, since a buffer with two owners is enqueued twice.
The free list with the queue, the handles, the batch and what each thread holds
divide the buffers (`ListInv`, `HoldInv`: no buffer is in two places); with one
allocator the head it has read stays in the list until its compare-and-swap,
since others only push in front of it, and so does its successor. `LinkInv` says
that the links of the list are those of a sequence of distinct nodes. Of
the queue, `CellInv`: each of the `Capacity` positions from the first that is not
yet freed has a cell of its own that is free, filled, or claimed by one publisher,
and the cell's `seq` says which. An enqueue never finds the queue full: each position
not yet freed has a buffer of its own, and there are no more buffers than
cells; that is a count, by an injection from positions to buffers (`Room`). `GotInv`
relates what a handler was called with to `order`, from which `NoGaps` follows.

**ShmChannel.** Every region is disturbed, not set up, or `Sound`: there is a
number `t` of messages taken such that `head` and `tail` are `sent` and `t` modulo
`Width`, the messages after `t` lie whole in their slots, `publish()` fills the slot
behind them with room for it, the worker reads the first of them, what the
handlers got is 1 to `t` or one more, and the tokens cover the rest. That the
slots of unread messages are distinct and survive the wrap of the counters takes
`2 * Capacity <= Width` and that `Capacity` divides `Width` (`ShmAssumption`; the
constructor refuses a capacity that is not a power of two, `src/shm_channel.cpp:39`,
and the counters have 32 bits): without them `head - tail` and `head % capacity`
are ambiguous at the wrap. Around this, `CreatorInv` and `OpenInv`
say which process may touch a region and that an open channel has the region
and the semaphore that belong together. The attempt to prove it found two mistakes of
an earlier form of the model, which counted a region as set up from its `magic`:
a process may attach while a returning creator is between its stores of `head` and
`tail`, or after a creator died there, and then sees a `head` and a `tail` that do not
belong together. TLC shows both with four openings and two crashes. Such a region
is disturbed now.

**FastddsChannel.** `LeaseInv`: the buffers are divided among the free list, the
queue, the running tasks, the message and the callback. `ShareInv`: what is due to a handler
is divided among what it was called with, what is queued, lost, or pending in
the callback. `OrderInv`: the queue and what follows it are in the order of the
samples. `CallbackInv` and `CleanupInv` say what the callback and `cleanup()` have at each of
their steps, from which `Awaited` follows.

**Communicator.** `CommInv` says for each entry of a communicator that has not been
destroyed: the queue is the end of what the entry has heard (`QueueInv`), so what has
left it is a beginning, whether it was returned or displaced; nothing is twice in
what was heard and what is still to be delivered, and nothing is either while the
channel is not open (`WireInv`), which is why the capacity may still change then and
never later; and the copy is newer than every copy that was handed out
(`CopyInv`). That what is displaced is the oldest, and at the moment has as many
newer ones behind it as the queue holds, is what `Kept` leaves of a full queue
(`KeptIs`); the queue of every entry holds at least one, whatever depth was asked
for, and so the newest is not among them. `GoneInv` adds what is left of a communicator that was destroyed. Assumed
(`CommunicatorAssumption`): a depth is an `int`, and the tables are the two there
are. The proof made `NewestInOrder` say which piece of what was heard the queue
is; an earlier form only compared positions.

**Node.** `Wired` is about the forty overloads alone: whichever is used to ask for a
group, the callbacks run on that group's scheduler. The invariant says that every
closure in a queue, or on a thread, is on the scheduler of its group, that an
exclusive group's strand has at most one drain, in the executor's queue or on a thread,
and none unless it is `scheduled`. `OneAtATime` follows: two callbacks of a group
are two drains of its strand. `Counted` is a part of the invariant. `Paced` has one of
its own, `PaceInv`: the next time of a timer is its creation plus a number of periods
greater than the period it was collected in last. That `CatchUp` lands on the first
such time after `now` is arithmetic of quotients (`Collected`).

**Discovery.** `LastWord` is inductive with `TypeOK`, which says that a worker is
there only while its owner is between `start()` and the join, so that nothing
but `stop()` sends after it. Its proofs, the shortest, are at the end of
`RpcProofs` through an instance of `Discovery`, with the hypothesis that
the configured clients are clients (`Configured \subseteq Clients`).

**Parameter servers.** `ParamsInv` is a conjunction of five parts that are
inductive one after the other, each with those before it. `AllTyped` says of every
frame what a thread carries at its place (a `declare()` or `set()` carries the
string of its typed value, and a notification a value that fits its key), of every
map that its values have the types of their keys, and of the messages that
they are well formed and that the worker alone has one in hand. `LimitsInv`
bounds the queues. `ToldInv` is about the public server: a thread with a key still
to tell has the value the key has, or has told it to every observer that it is not
about to tell; two threads have the same key only if it is in `raced`.
`QueueInv` and `AnswerInv`: a message's number is once in one queue, in the
worker's hand, or gone, and how often it was answered depends on which.
`KeyInv` is about the distributed server, one writable key at a time: if no thread
has the key and the last calls did not overlap, it is `Settled`, which is
`DistributedSettles` of that key; if one has, it is `Going`, that is, as settled
as it can be where that thread is (its string not yet in `params_`, there and not
in `ParamStore`, not yet the typed value, told to some of the observers).
`Apart` says that two threads have the same key only if it is in
`crossed`. A step of a thread moves its own key along `Going` and leaves every
other key as it was (`SameKey`), which is what makes the argument local although
the maps are shared: that a `declare()` finds no entry half written is
`undefined`, where the behaviours end.

Assumed of the constants: finitely many keys; and `MessageType` of what comes
from the topics, that is what the parsers of the wire server leave of it
(`src/param_server.cpp:414`): keys that are known, one pair for a set, at least one for
a bulk.

Only model-checked:

- all liveness (TLAPS does not reason about `ENABLED`), the refinement's use in
  liveness;
- `Codec`'s `RoundTrips`: encoding and decoding are recursive over fields, and
  what a recursive definition computes for every input is out of the prover's
  reach;
- `MessagesAreServed` of `Params`, which is liveness. (The search for an
  invariant of `Params` found, by TLC, two mistakes of an earlier form of its
  properties: a key whose calls had overlapped was taken to be settled by the next
  message, although its string may be one that nobody can read; and the
  `ParamStore` was said to follow a read-only key whose default it never gets.
  Both are worlds of the run now).

## Not modelled

- `ChannelRegistry` and the channel factory: maps under one mutex and
  construction from configuration; `WorkerGroup`: a start and a join;
  `LifecycleNode`, command router and capability status: sequential, around
  hooks of the user's.
- `FastddsChannel::publish()`, its QoS and the failures of its constructor;
  requests to an `RpcServer` that do not parse; the node's builders and the
  typed codecs of services; the destructor of a node with callbacks in flight;
  the access list, the token and the JSON of parameter exports; `TypeRegistry`
  and key-value payloads.
- Metrics, logging and formatting; exceptions out of tasks (they end the
  process); `stop()` called by one of a pool's own threads or by two threads
  at once; weak memory; allocation failure; payload sizes in channels; the time
  that anything takes, beyond which of two events comes first.
