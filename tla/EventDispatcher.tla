-------------------------- MODULE EventDispatcher --------------------------
(***************************************************************************)
(* wxz::EventDispatcher (src/event_dispatcher.cpp) between the EventQueue   *)
(* (src/event_queue.cpp) it pops from and the two ThreadPools               *)
(* (src/thread_pool.cpp), the lanes "io" and "cpu", it submits to.  A       *)
(* handler that fails sends its event back to the queue, so the three form  *)
(* a cycle: the loop fills the pools, the pools fill the queue.             *)
(*                                                                         *)
(* A critical section of a mutex is one step.  A wait on a condition        *)
(* variable is a step that is enabled when its predicate holds: every store *)
(* that can make one of the predicates true is followed by a notification   *)
(* (the Executor module is where a missing notification would show).        *)
(*                                                                         *)
(* No name is one that Strand has too, so that one module of proofs can be  *)
(* about both: the spec is DispatcherSpec, a thread's place at, its type    *)
(* invariant Typing.                                                       *)
(***************************************************************************)
EXTENDS Naturals, Sequences, FiniteSets

CONSTANTS Producers,   \* the threads that push new events
          Runners,     \* the pools' threads
          Loop,        \* the dispatcher's thread
          PoolOf,      \* the lane each worker belongs to
          Events,      \* the ids of the events, pushed once each, in order
          Null,        \* no event
          Configs      \* the options of the queue, the pools, the dispatcher

Lanes == {"io", "cpu"}
Parties == Producers \cup Runners \cup {Loop}

(* router is what opts_.router, or else the prefix of the type, answers for *)
(* each event the program pushes; Events not in its domain are not pushed.  *)
(* max_starts is not an option of the code but a bound: how many start(),   *)
(* those of the pools included, succeed.                                   *)
OptionsType == [router : UNION {[es -> Lanes] : es \in SUBSET Events},
                max_size : Nat, block : BOOLEAN, drop_oldest : BOOLEAN,
                max_queue : Nat, pool_block : BOOLEAN, max_retries : Nat,
                timed_pop : BOOLEAN, max_starts : Nat]

(* A pool has at least one thread: threads is clamped. *)
ASSUME DispatcherAssumption ==
    /\ Producers \cap Runners = {}
    /\ Loop \notin Producers \cup Runners
    /\ Events \subseteq Nat
    /\ PoolOf \in [Runners -> Lanes]
    /\ \A l \in Lanes : \E w \in Runners : PoolOf[w] = l
    /\ Configs \subseteq OptionsType

VARIABLES opts,         \* the three opts_, fixed at construction
          queue,        \* EventQueue::queue_
          queueStopped, \* EventQueue::stopped_
          tasks,        \* ThreadPool::tasks_ of each lane
          pool,         \* running_ and stopping_ of each lane
          running,      \* EventDispatcher::running_
          starts,       \* how many start() have succeeded
          ctl,          \* where the owner is in a start() or a stop()
          pushed,       \* the events producers have called push() with
          at,           \* where each thread is
          ev,           \* the event each thread has in its hands
          calls,        \* how many times the handler was called for each event
          fate          \* what became of the events that are out of the system

ownerVars == <<opts, queueStopped, pool, running, starts, ctl>>
allVars == <<queue, tasks, pushed, at, ev, calls, fate, ownerVars>>

(* An Event.  full says whether it still has its type and its payload: they *)
(* are gone from one that was moved from; id and attempt, being numbers,    *)
(* stay.                                                                   *)
EventType == [id : Events, attempt : Nat, full : BOOLEAN]

ASSUME NullAssumption == Null \notin EventType

MovedFrom(e) == [e EXCEPT !.full = FALSE]

(* An event without its type has no prefix "io.". *)
chooseLane(e) == IF e.full THEN opts.router[e.id] ELSE "cpu"

Fate(e, how) == [id |-> e.id, how |-> how, full |-> e.full]

New(e) == [id |-> e, attempt |-> 0, full |-> TRUE]

DispatcherInit ==
    /\ opts \in Configs
    /\ queue = <<>>
    /\ queueStopped = FALSE
    /\ tasks = [l \in Lanes |-> <<>>]
    /\ pool = [l \in Lanes |-> "stopped"]
    /\ running = FALSE
    /\ starts = 0
    /\ ctl = "idle"
    /\ at = [t \in Parties |-> IF t \in Producers THEN "idle" ELSE "off"]
    /\ ev = [t \in Parties |-> Null]
    /\ calls = [e \in Events |-> 0]
    /\ pushed = {}
    /\ fate = {}

-----------------------------------------------------------------------------
(* EventQueue::push(), called by a producer with a new event, and by        *)
(* handleResult() on the loop or on a worker with one it retries.           *)

Push(p, e) ==
    /\ at[p] = "idle"
    /\ e \in DOMAIN opts.router \ pushed
    /\ \A f \in DOMAIN opts.router \ pushed : e <= f
    /\ pushed' = pushed \cup {e}
    /\ ev' = [ev EXCEPT ![p] = New(e)]
    /\ at' = [at EXCEPT ![p] = "push"]
    /\ UNCHANGED <<queue, tasks, calls, fate, ownerVars>>

(* Where a thread goes on when it has nothing left to do with its event. *)
Onward(t) == CASE t \in Producers -> "idle"
              [] t \in Runners -> "take"
              [] OTHER -> "check"

LetGo(t) == /\ ev' = [ev EXCEPT ![t] = Null]
            /\ at' = [at EXCEPT ![t] = Onward(t)]

Full == Len(queue) >= opts.max_size

PushStore(t) ==
    /\ at[t] = "push"
    /\ ~queueStopped /\ ~Full
    /\ queue' = Append(queue, ev[t])
    /\ LetGo(t)
    /\ UNCHANGED <<tasks, calls, fate, ownerVars, pushed>>

(* Not blocking and full: the oldest event makes room, and no hook is told. *)
PushDropOldest(t) ==
    /\ at[t] = "push"
    /\ ~queueStopped /\ Full
    /\ ~opts.block /\ opts.drop_oldest
    /\ queue # <<>>
    /\ fate' = fate \cup {Fate(Head(queue), "dropped")}
    /\ queue' = Append(Tail(queue), ev[t])
    /\ LetGo(t)
    /\ UNCHANGED <<tasks, calls, ownerVars, pushed>>

(* push() returned false.  A producer is told; a retry goes to the dead     *)
(* letter hook, which is given the event push() was moved from.             *)
PushFails(t) ==
    /\ at[t] = "push"
    /\ \/ queueStopped
       \/ Full /\ ~opts.block /\ (opts.drop_oldest => queue = <<>>)
    /\ fate' = fate \cup {IF t \in Producers THEN Fate(ev[t], "refused")
                          ELSE Fate(MovedFrom(ev[t]), "dead")}
    /\ LetGo(t)
    /\ UNCHANGED <<queue, tasks, calls, ownerVars, pushed>>

-----------------------------------------------------------------------------
(* static_cast<uint8_t>(opts_.max_retries) *)
MaxRetries == opts.max_retries % 256

\* Mutation: one retry too many.
Bug_HandleResult(t, e, ok) ==
    IF ~ok /\ e.attempt <= MaxRetries
    THEN /\ ev' = [ev EXCEPT ![t] = [e EXCEPT !.attempt = @ + 1]]
         /\ at' = [at EXCEPT ![t] = "push"]
         /\ UNCHANGED fate
    ELSE /\ fate' = fate \cup {Fate(e, IF ok THEN "handled" ELSE "dead")}
         /\ LetGo(t)

(* handleResult(e, ok, lane) on thread t, up to its call of push(). *)

HandleResult(t, e, ok) ==
    IF ~ok /\ e.attempt < MaxRetries
    THEN /\ ev' = [ev EXCEPT ![t] = [e EXCEPT !.attempt = @ + 1]]
         /\ at' = [at EXCEPT ![t] = "push"]
         /\ UNCHANGED fate
    ELSE /\ fate' = fate \cup {Fate(e, IF ok THEN "handled" ELSE "dead")}
         /\ LetGo(t)

-----------------------------------------------------------------------------
(* EventDispatcher::loop() and dispatch(). *)

LoopCheck ==
    /\ at[Loop] = "check"
    /\ at' = [at EXCEPT ![Loop] = IF running THEN "pop" ELSE "off"]
    /\ UNCHANGED <<queue, tasks, ev, calls, fate, ownerVars, pushed>>

LoopPop ==
    /\ at[Loop] = "pop"
    /\ queue # <<>>
    /\ ev' = [ev EXCEPT ![Loop] = Head(queue)]
    /\ queue' = Tail(queue)
    /\ at' = [at EXCEPT ![Loop] = "submit"]
    /\ UNCHANGED <<tasks, calls, fate, ownerVars, pushed>>

\* Mutation: a pop() that times out ends the loop.
Bug_LoopPopNothing ==
    /\ at[Loop] = "pop"
    /\ queue = <<>>
    /\ queueStopped \/ opts.timed_pop
    /\ at' = [at EXCEPT ![Loop] = "off"]
    /\ UNCHANGED <<queue, tasks, ev, calls, fate, ownerVars, pushed>>

(* pop() returned false: the wait timed out, or the queue is stopped. *)
LoopPopNothing ==
    /\ at[Loop] = "pop"
    /\ queue = <<>>
    /\ queueStopped \/ opts.timed_pop
    /\ at' = [at EXCEPT ![Loop] = "check"]
    /\ UNCHANGED <<queue, tasks, ev, calls, fate, ownerVars, pushed>>

PoolFull(l) == opts.max_queue > 0 /\ Len(tasks[l]) >= opts.max_queue

(* ThreadPool::submit() on the lane of the event in hand. *)
Submit ==
    LET l == chooseLane(ev[Loop]) IN
    /\ at[Loop] = "submit"
    /\ pool[l] = "running"
    /\ ~PoolFull(l)
    /\ tasks' = [tasks EXCEPT ![l] = Append(@, ev[Loop])]
    /\ LetGo(Loop)
    /\ UNCHANGED <<queue, calls, fate, ownerVars, pushed>>

(* submit() returned false.  What handleResult() gets is the parameter ev   *)
(* of dispatch(), which the closure was moved from.                        *)
SubmitFails ==
    LET l == chooseLane(ev[Loop]) IN
    /\ at[Loop] = "submit"
    /\ pool[l] # "running" \/ (PoolFull(l) /\ ~opts.pool_block)
    /\ HandleResult(Loop, MovedFrom(ev[Loop]), FALSE)
    /\ UNCHANGED <<queue, tasks, calls, ownerVars, pushed>>

-----------------------------------------------------------------------------
(* ThreadPool::workerLoop() *)

WorkerTake(w) ==
    LET l == PoolOf[w] IN
    /\ at[w] = "take"
    /\ tasks[l] # <<>>
    /\ ev' = [ev EXCEPT ![w] = Head(tasks[l])]
    /\ tasks' = [tasks EXCEPT ![l] = Tail(@)]
    /\ calls' = [calls EXCEPT ![Head(tasks[l]).id] = @ + 1]
    /\ at' = [at EXCEPT ![w] = "handler"]
    /\ UNCHANGED <<queue, fate, ownerVars, pushed>>

(* The handler returned ok (a handler that throws counts as FALSE). *)
HandlerReturns(w, ok) ==
    /\ at[w] = "handler"
    /\ HandleResult(w, ev[w], ok)
    /\ UNCHANGED <<queue, tasks, calls, ownerVars, pushed>>

\* Mutation: a worker leaves as soon as its pool is stopping.
Bug_WorkerExit(w) ==
    /\ at[w] = "take"
    /\ pool[PoolOf[w]] = "stopping"
    /\ at' = [at EXCEPT ![w] = "off"]
    /\ UNCHANGED <<queue, tasks, ev, calls, fate, ownerVars, pushed>>

WorkerExit(w) ==
    /\ at[w] = "take"
    /\ pool[PoolOf[w]] = "stopping"
    /\ tasks[PoolOf[w]] = <<>>
    /\ at' = [at EXCEPT ![w] = "off"]
    /\ UNCHANGED <<queue, tasks, ev, calls, fate, ownerVars, pushed>>

-----------------------------------------------------------------------------
(* The owner, which starts and stops the pools and the dispatcher, in any   *)
(* order and one call at a time.                                           *)

Start ==
    /\ ctl = "idle"
    /\ starts < opts.max_starts
    /\ starts' = starts + 1
    /\ ~running
    /\ running' = TRUE
    /\ at' = [at EXCEPT ![Loop] = "check"]
    /\ UNCHANGED <<opts, queueStopped, pool, ctl, queue, tasks, pushed, ev,
                   calls, fate>>

StopLoop ==
    /\ ctl = "idle"
    /\ running
    /\ running' = FALSE
    /\ ctl' = "stop_queue"
    /\ UNCHANGED <<opts, starts, queueStopped, pool, queue, tasks, pushed, at,
                   ev, calls, fate>>

\* Mutation: the queue is left open while the loop is joined.
Bug_StopQueue ==
    /\ ctl = "stop_queue"
    /\ ctl' = "join_loop"
    /\ UNCHANGED <<opts, starts, queueStopped, pool, running, queue, tasks,
                   pushed, at, ev, calls, fate>>

StopQueue ==
    /\ ctl = "stop_queue"
    /\ queueStopped' = TRUE
    /\ ctl' = "join_loop"
    /\ UNCHANGED <<opts, starts, pool, running, queue, tasks, pushed, at,
                   ev, calls, fate>>

JoinLoop ==
    /\ ctl = "join_loop"
    /\ at[Loop] = "off"
    /\ ctl' = "idle"
    /\ UNCHANGED <<opts, starts, queueStopped, pool, running, queue, tasks,
                   pushed, at, ev, calls, fate>>

Crew(l) == {w \in Runners : PoolOf[w] = l}

PoolStart(l) ==
    /\ ctl = "idle"
    /\ starts < opts.max_starts
    /\ starts' = starts + 1
    /\ pool[l] = "stopped"
    /\ pool' = [pool EXCEPT ![l] = "running"]
    /\ at' = [t \in Parties |-> IF t \in Crew(l) THEN "take" ELSE at[t]]
    /\ UNCHANGED <<opts, queueStopped, running, ctl, queue, tasks, pushed, ev,
                   calls, fate>>

PoolStopFlag(l) ==
    /\ ctl = "idle"
    /\ pool[l] = "running"
    /\ pool' = [pool EXCEPT ![l] = "stopping"]
    /\ ctl' = "join_pool"
    /\ UNCHANGED <<opts, starts, queueStopped, running, queue, tasks, pushed,
                   at, ev, calls, fate>>

PoolJoin(l) ==
    /\ ctl = "join_pool"
    /\ pool[l] = "stopping"
    /\ \A w \in Crew(l) : at[w] = "off"
    /\ tasks' = [tasks EXCEPT ![l] = <<>>]
    /\ pool' = [pool EXCEPT ![l] = "stopped"]
    /\ ctl' = "idle"
    /\ UNCHANGED <<opts, starts, queueStopped, running, queue, at, ev, calls,
                   fate, pushed>>

-----------------------------------------------------------------------------
PushReturns(t) == PushStore(t) \/ PushDropOldest(t) \/ PushFails(t)

LoopSteps == \/ LoopCheck \/ LoopPop \/ LoopPopNothing \/ Submit \/ SubmitFails
             \/ PushReturns(Loop)

WorkerSteps(w) == \/ WorkerTake(w) \/ WorkerExit(w) \/ PushReturns(w)
                  \/ \E ok \in BOOLEAN : HandlerReturns(w, ok)

OwnerReturns == StopQueue \/ JoinLoop \/ \E l \in Lanes : PoolJoin(l)

OwnerCalls == \/ Start \/ StopLoop
              \/ \E l \in Lanes : PoolStart(l) \/ PoolStopFlag(l)

DispatcherNext ==
    \/ \E p \in Producers : PushReturns(p) \/ \E e \in Events : Push(p, e)
    \/ LoopSteps
    \/ \E w \in Runners : WorkerSteps(w)
    \/ OwnerReturns \/ OwnerCalls

DispatcherSpec == DispatcherInit /\ [][DispatcherNext]_allVars

(* Threads run, and a handler that is called returns.  Nothing makes the    *)
(* owner call anything, but a call it made goes on.                        *)
DispatcherFairness ==
    /\ \A p \in Producers : WF_allVars(PushReturns(p))
    /\ WF_allVars(LoopSteps)
    /\ \A w \in Runners : WF_allVars(WorkerSteps(w))
    /\ WF_allVars(OwnerReturns)

DispatcherFairSpec == DispatcherSpec /\ DispatcherFairness
-----------------------------------------------------------------------------
(* Properties. *)

(* Every variable has its type; the queue and the pools' queues keep within *)
(* their limits, whoever pushes; and a thread has an event in its hands     *)
(* exactly while it is working on one.                                     *)
Typing ==
    /\ opts \in Configs
    /\ queue \in Seq(EventType) /\ Len(queue) <= opts.max_size
    /\ queueStopped \in BOOLEAN /\ running \in BOOLEAN
    /\ tasks \in [Lanes -> Seq(EventType)]
    /\ \A l \in Lanes : opts.max_queue > 0 => Len(tasks[l]) <= opts.max_queue
    /\ pool \in [Lanes -> {"stopped", "running", "stopping"}]
    /\ ctl \in {"idle", "stop_queue", "join_loop", "join_pool"}
    /\ at \in [Parties -> {"off", "idle", "check", "pop", "take", "push",
                           "submit", "handler"}]
    /\ ev \in [Parties -> EventType \cup {Null}]
    /\ \A t \in Parties :
           ev[t] # Null <=> at[t] \in {"push", "submit", "handler"}
    /\ pushed \subseteq Events
    /\ starts \in 0..opts.max_starts
    /\ calls \in [Events -> Nat]
    /\ fate \subseteq [id : Events, full : BOOLEAN,
                       how : {"handled", "dead", "dropped", "refused"}]

(* Where an event is. *)
Where(s, e) == {i \in DOMAIN s : s[i].id = e}

Places(e) == {<<"queue", i>> : i \in Where(queue, e)}
             \cup (UNION {{<<l, i>> : i \in Where(tasks[l], e)} : l \in Lanes})
             \cup {<<"hand", t>> :
                     t \in {u \in Parties : ev[u] # Null /\ ev[u].id = e}}
             \cup {<<"fate", f>> : f \in {g \in fate : g.id = e}}

(* Through retries, refused submissions, dropped events and stops in any    *)
(* order, an event is in one place: it does not vanish before its fate is   *)
(* known, no two handlers run on it at once, and it is not handled, dropped *)
(* or given up on twice.                                                   *)
OnePlace == \A e \in pushed : Cardinality(Places(e)) = 1

(* The handler is called at most once and MaxRetries more times for an       *)
(* event, that is max_retries cut to eight bits (256 come to none); and one *)
(* is given up on early only if the queue was stopped or it lost its        *)
(* contents to a refused submission or requeue.                            *)
RetriesBounded ==
    /\ \A e \in Events : calls[e] <= MaxRetries + 1
    /\ \A f \in fate : f.how = "dead" /\ f.full =>
                         calls[f.id] = MaxRetries + 1

(* Without the cycle of two blocking queues, each event in the queue of a   *)
(* dispatcher that goes on running ends up handled, dropped or given up on. *)
EventsSettle ==
    \A e \in Events :
        (~opts.block \/ MaxRetries = 0) /\ Where(queue, e) # {}
            ~> ~running \/ \E f \in fate : f.id = e

(* stop() returns whatever the queue and the pools are doing: a loop blocked*)
(* on a full pool whose workers are blocked on the full queue is freed.     *)
(* ThreadPool::stop() returns too, unless workers are waiting for room in   *)
(* a queue that nobody has stopped.                                        *)
StopsReturn ==
    /\ ctl = "join_loop" ~> ctl = "idle"
    /\ (ctl = "join_pool" /\ (queueStopped \/ ~opts.block)) ~> ctl = "idle"
=============================================================================
