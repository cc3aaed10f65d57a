-------------------------------- MODULE Node --------------------------------
(***************************************************************************)
(* wxz::framework::Node and what a main loop does with it: spin()           *)
(* (framework/spin.h) drives NodeBase::tick (node_base.h), the timers       *)
(* (framework/timer.h) and one closure of the executor in each turn, while  *)
(* workers of the executor, if there are any, run closures too.  The        *)
(* callbacks are those of the node's subscriptions, services, clients and   *)
(* timers, placed by NodeWiring, and of a FaultRecoveryExecutor             *)
(* (src/fault_recovery_executor.cpp) that hears the faults the node         *)
(* publishes.                                                              *)
(*                                                                         *)
(* An executor is its queue of closures, as Executor is shown to be; a      *)
(* strand is a queue and the drain that empties it.  Channels deliver or    *)
(* lose.  Payloads are abstracted: what a callback finds wrong with one is  *)
(* a choice.                                                               *)
(***************************************************************************)
EXTENDS Integers, Sequences, FiniteSets, NodeWiring

CONSTANTS Worlds,  \* what the node is made of, one record per case
          Main,    \* the thread that spins
          None,
          MaxTime, \* bound: how far the clock goes
          MaxMsgs  \* bound: messages per subscription, requests per client

\* The entities and timers of a world have names of their own.
ASSUME WorldAssumption ==
    /\ None \notin Exclusive /\ None \notin [enabled : BOOLEAN, next : Int]
    /\ \A w \in Worlds :
          /\ IsFiniteSet(w.workers) /\ Main \notin w.workers
          /\ w.entities \in Seq({w.entities[i] : i \in DOMAIN w.entities})
          /\ \A i \in DOMAIN w.entities :
                /\ w.entities[i].kind \in {"event", "text", "service", "client"}
                /\ w.entities[i].group \in Groups
                /\ w.entities[i].name # "recovery"
                /\ \A j \in DOMAIN w.entities :
                      w.entities[i].name = w.entities[j].name => i = j
                /\ \A j \in DOMAIN w.timers :
                      w.entities[i].name # w.timers[j].name
          /\ \A j \in DOMAIN w.timers : /\ w.timers[j].name # "recovery"
                                        /\ w.timers[j].period \in Int

VARIABLES world,     \* the case
          todo,      \* the entities still to be created
          made,      \* entity -> what was created
          timer, born,  \* TimerManager::timers_, and when each was created
          running,   \* NodeBase::running_
          installed, \* g_running_ptr_ points to it
          last,      \* per report, when it was published last: last_*
          spin, firing,  \* the main loop, and to_fire of TimerManager::tick: the
                         \* places in timers_ of those to be dispatched
          now,
          strand,    \* strand -> its queue q_ and scheduled_
          queue, open,   \* the executor's closures; whether it takes more
          slot,      \* thread -> the closure it runs
          arrived, done, \* entity -> messages posted to it, and run
          stats, calls,  \* SubscriptionStats; calls of the user's callback
          fires, firedIn, \* timer -> callbacks collected, period of the last
          recovery,  \* FaultRecoveryExecutor
          faults     \* faults published so far

loopVars == <<running, installed, last, spin, firing>>
timerVars == <<timer, born, fires, firedIn>>
runVars == <<strand, queue, open, slot>>
countVars == <<arrived, done, stats, calls>>
vars == <<world, todo, made, loopVars, timerVars, now, runVars, countVars,
          recovery, faults>>

Entities == {world.entities[i].name : i \in DOMAIN world.entities}
Timers == {world.timers[i].name : i \in DOMAIN world.timers}
Recovery == "recovery"
Callees == Entities \cup Timers \cup {Recovery}
Threads == world.workers \cup {Main}

Info(e) == CHOOSE r \in {world.entities[i] : i \in DOMAIN world.entities} :
              r.name = e
Length(t) == (CHOOSE r \in {world.timers[i] : i \in DOMAIN world.timers} :
                 r.name = t).period

Task(e, what) == [to |-> e, what |-> what]
Idle == [at |-> "idle", strand |-> None, task |-> None]
Zero == [recv |-> 0, decode |-> 0, schema |-> 0, user |-> 0]

Init ==
    /\ world \in Worlds
    /\ todo = world.entities
    /\ made = [e \in Entities |-> None]
    /\ timer = [t \in Timers |-> None] /\ born = [t \in Timers |-> 0]
    /\ running = TRUE /\ installed = FALSE
    /\ last = [r \in DOMAIN world.reports |-> -world.reports[r]]
    /\ spin = "setup" /\ firing = {}
    /\ now = 0
    /\ strand = [s \in Exclusive |-> [q |-> <<>>, scheduled |-> FALSE]]
    /\ queue = <<>> /\ open = TRUE
    /\ slot = [t \in Threads |-> Idle]
    /\ arrived = [e \in Callees |-> 0] /\ done = [e \in Callees |-> 0]
    /\ stats = [e \in Entities |-> Zero] /\ calls = [e \in Entities |-> 0]
    /\ fires = [t \in Timers |-> 0] /\ firedIn = [t \in Timers |-> 0]
    /\ recovery = [started |-> FALSE, degraded |-> FALSE, markers |-> 0,
                   restarts |-> 0]
    /\ faults = 0

-----------------------------------------------------------------------------
(* Posting to a strand or to the executor.  An executor that has stopped     *)
(* refuses; a strand whose drain is refused keeps the task and is scheduled  *)
(* for good.                                                               *)

Posted(runs, task, s, q) ==
    CASE runs = Executor ->
           [strand |-> s, queue |-> IF open THEN Append(q, task) ELSE q]
      [] OTHER ->
           [strand |-> [s EXCEPT ![runs] = [q |-> Append(@.q, task),
                                            scheduled |-> TRUE]],
            queue |-> IF open /\ ~s[runs].scheduled
                      THEN Append(q, [drain |-> runs]) ELSE q]

\* A message for e that was published and is not lost.
Deliver(e, what) ==
    LET after == Posted(made[e].runs, Task(e, what), strand, queue) IN
    /\ made[e] # None
    /\ strand' = after.strand /\ queue' = after.queue
    /\ arrived' = [arrived EXCEPT ![e] = @ + 1]

-----------------------------------------------------------------------------
(* Creation, by the main thread before it spins. *)

(* Any overload that can ask for the group that the caller has in mind. *)
Create ==
    /\ spin = "setup" /\ todo # <<>>
    /\ LET e == Head(todo) IN
       \E how \in Ways(e.group) : \E where \in RunsOn(e.kind, how, e.opts) :
           made' = [made EXCEPT ![e.name] =
                       [kind |-> e.kind, runs |-> where,
                        topics |-> IF e.kind \in {"service", "client"}
                                   THEN Topics(e.opts) ELSE None]]
    /\ todo' = Tail(todo)
    /\ UNCHANGED <<world, loopVars, timerVars, now, runVars, countVars,
                   recovery, faults>>

create_wall_timer(t) ==
    /\ spin \in {"setup", "test"} /\ timer[t] = None
    /\ \A i, j \in DOMAIN world.timers :
          world.timers[j].name = t /\ i < j => timer[world.timers[i].name] # None
    /\ timer' = [timer EXCEPT ![t] = [enabled |-> TRUE,
                                      next |-> now + Length(t)]]
    /\ born' = [born EXCEPT ![t] = now]
    /\ UNCHANGED <<world, todo, made, loopVars, fires, firedIn, now, runVars,
                   countVars, recovery, faults>>

(* TimerManager::cancel, from any callback or the end of a WallTimer. *)
cancel(t) ==
    /\ timer[t] # None /\ timer[t].enabled
    /\ timer' = [timer EXCEPT ![t].enabled = FALSE]
    /\ UNCHANGED <<world, todo, made, loopVars, born, fires, firedIn, now,
                   runVars, countVars, recovery, faults>>

install_signal_handlers ==
    /\ spin = "setup" /\ ~installed /\ todo = world.entities
    /\ installed' = TRUE
    /\ UNCHANGED <<world, todo, made, running, last, spin, firing,
                   timerVars, now, runVars, countVars, recovery, faults>>

start_on == /\ spin = "setup" /\ todo = <<>> /\ ~recovery.started /\ world.rules # <<>>
            /\ recovery' = [recovery EXCEPT !.started = TRUE]
            /\ UNCHANGED <<world, todo, made, loopVars, timerVars, now,
                           runVars, countVars, faults>>

stop == /\ recovery.started
        /\ recovery' = [recovery EXCEPT !.started = FALSE]
        /\ UNCHANGED <<world, todo, made, loopVars, timerVars, now, runVars,
                       countVars, faults>>

-----------------------------------------------------------------------------
(* The main loop. *)

To(place) == spin' = place
LoopUnchanged == UNCHANGED <<world, todo, made, running, installed, born, now,
                             countVars, recovery, faults>>

(* NodeBase::tick: each report whose period is over, whether or not its      *)
(* publication or its file write succeeds.                                  *)
Due == {r \in DOMAIN last : now - last[r] >= world.reports[r]}

BaseTick == last' = [r \in DOMAIN last |-> IF r \in Due THEN now ELSE last[r]]

\* A turn of spin() begins, unless running_ is false; Rate::sleep has ended.
Turn == /\ spin = "test" \/ (spin = "setup" /\ todo = <<>>)
        /\ IF running THEN To("timers") /\ BaseTick
           ELSE To("out") /\ UNCHANGED last
        /\ LoopUnchanged
        /\ UNCHANGED <<firing, timer, fires, firedIn, runVars>>

\* Mutation: next_fire moves on by one period only.
Bug_CatchUp(t) == timer[t].next + Length(t)

\* The first time on t's grid that lies after now.
CatchUp(t) == LET p == Length(t) IN
              timer[t].next + p * ((now - timer[t].next) \div p + 1)

Period(t) == (now - born[t]) \div Length(t)

Expired(t) == /\ timer[t] # None /\ timer[t].enabled
              /\ Length(t) > 0 /\ now >= timer[t].next

TimersTick ==
    /\ spin = "timers" /\ To("dispatch")
    /\ timer' = [t \in Timers |->
                    IF Expired(t) THEN [timer[t] EXCEPT !.next = CatchUp(t)]
                    ELSE timer[t]]
    /\ firing' = {i \in DOMAIN world.timers : Expired(world.timers[i].name)}
    /\ fires' = [t \in Timers |-> fires[t] + IF Expired(t) THEN 1 ELSE 0]
    /\ firedIn' = [t \in Timers |-> IF Expired(t) THEN Period(t)
                                    ELSE firedIn[t]]
    /\ LoopUnchanged
    /\ UNCHANGED <<last, runVars>>

(* TimerManager::dispatch: to the default strand, outside the lock, so a     *)
(* timer that is cancelled meanwhile is dispatched still.                   *)
Dispatch ==
    /\ spin = "dispatch"
    /\ \E i \in firing :
          LET t == world.timers[i].name
              after == Posted(Default, Task(t, None), strand, queue)
          IN  /\ \A j \in firing : i <= j
              /\ firing' = firing \ {i}
              /\ strand' = after.strand /\ queue' = after.queue
              /\ arrived' = [arrived EXCEPT ![t] = @ + 1]
    /\ UNCHANGED <<world, todo, made, running, installed, last, spin,
                   timerVars, now, open, slot, done, stats, calls, recovery,
                   faults>>

Begin(c) == IF "drain" \in DOMAIN c
            THEN [at |-> "pop", strand |-> c.drain, task |-> None]
            ELSE [at |-> "enter", strand |-> None, task |-> c]

\* Executor::spin_once: at most one closure; a drain is one closure.
SpinOnce ==
    /\ spin = "dispatch" /\ firing = {}
    /\ IF open /\ queue # <<>>
       THEN /\ slot' = [slot EXCEPT ![Main] = Begin(Head(queue))]
            /\ queue' = Tail(queue)
            /\ To("inside")
       ELSE To("test") /\ UNCHANGED <<slot, queue>>
    /\ LoopUnchanged
    /\ UNCHANGED <<last, firing, timer, fires, firedIn, strand, open>>

\* spin_once() returns once the closure has.
OnceReturns == /\ spin = "inside" /\ slot[Main] = Idle
               /\ To("test")
               /\ LoopUnchanged
               /\ UNCHANGED <<last, firing, timer, fires, firedIn,
                              runVars>>

Loop == Turn \/ TimersTick \/ Dispatch \/ SpinOnce \/ OnceReturns

-----------------------------------------------------------------------------
(* The threads that run closures. *)

Elsewhere == UNCHANGED <<world, todo, made, installed, last, spin,
                         firing, timerVars, now, open>>
OnlyCounts == UNCHANGED <<running, strand, queue, recovery, faults, arrived>>

WorkerTakes(t) ==
    /\ t # Main /\ slot[t] = Idle /\ queue # <<>>
    /\ slot' = [slot EXCEPT ![t] = Begin(Head(queue))]
    /\ queue' = Tail(queue)
    /\ Elsewhere
    /\ UNCHANGED <<running, strand, countVars, recovery, faults>>

\* Mutation: a drain that ends leaves the strand scheduled.
Bug_Pop(t) ==
    LET s == slot[t].strand IN
    /\ slot[t].at = "pop"
    /\ IF strand[s].q = <<>>
       THEN slot' = [slot EXCEPT ![t] = Idle] /\ UNCHANGED strand
       ELSE /\ strand' = [strand EXCEPT ![s].q = Tail(@)]
            /\ slot' = [slot EXCEPT ![t].at = "enter",
                                    ![t].task = Head(strand[s].q)]
    /\ Elsewhere
    /\ UNCHANGED <<running, queue, countVars, recovery, faults>>

(* Strand::drain: the next task, or the end. *)
Pop(t) ==
    LET s == slot[t].strand IN
    /\ slot[t].at = "pop"
    /\ IF strand[s].q = <<>>
       THEN /\ strand' = [strand EXCEPT ![s].scheduled = FALSE]
            /\ slot' = [slot EXCEPT ![t] = Idle]
       ELSE /\ strand' = [strand EXCEPT ![s].q = Tail(@)]
            /\ slot' = [slot EXCEPT ![t].at = "enter",
                                    ![t].task = Head(strand[s].q)]
    /\ Elsewhere
    /\ UNCHANGED <<running, queue, countVars, recovery, faults>>

Callee(t) == slot[t].task.to
Kind(e) == IF e \in Entities THEN Info(e).kind ELSE "other"
Entering(t, kinds) == slot[t].at = "enter" /\ Kind(Callee(t)) \in kinds

\* The task ends; the drain it belongs to goes on.
Over(t) == slot' = [slot EXCEPT ![t] = IF @.strand = None THEN Idle
                                       ELSE [@ EXCEPT !.at = "pop",
                                                      !.task = None]]
Did(t) == done' = [done EXCEPT ![Callee(t)] = @ + 1]

\* Mutation: the handler goes on after a payload it cannot decode.
Bug_Dropped(t) ==
    /\ Entering(t, {"event"})
    /\ stats' = [stats EXCEPT ![Callee(t)].decode = @ + 1]
    /\ slot' = [slot EXCEPT ![t].at = "call"]
    /\ Elsewhere /\ OnlyCounts /\ UNCHANGED <<calls, done>>

\* The handler of an EventDtoSubscription drops what it cannot decode and
\* what has another schema than it expects, and counts what it drops.
Dropped(t) ==
    /\ Entering(t, {"event"})
    /\ \/ stats' = [stats EXCEPT ![Callee(t)].decode = @ + 1]
       \/ /\ Info(Callee(t)).schema
          /\ stats' = [stats EXCEPT ![Callee(t)].schema = @ + 1]
    /\ Did(t) /\ Over(t)
    /\ Elsewhere /\ OnlyCounts /\ UNCHANGED calls

Received(t) ==
    /\ Entering(t, {"event", "text"})
    /\ stats' = [stats EXCEPT ![Callee(t)].recv = @ + 1]
    /\ slot' = [slot EXCEPT ![t].at = "call"]
    /\ Elsewhere /\ OnlyCounts /\ UNCHANGED <<calls, done>>

Returns(t) ==
    /\ slot[t].at = "call" /\ Kind(Callee(t)) \in {"event", "text"}
    /\ calls' = [calls EXCEPT ![Callee(t)] = @ + 1]
    /\ \/ UNCHANGED stats
       \/ stats' = [stats EXCEPT ![Callee(t)].user = @ + 1]   \* it threw
    /\ Did(t) /\ Over(t)
    /\ Elsewhere /\ OnlyCounts

\* The callback of a timer, of a client and of a service.
Runs(t) ==
    /\ slot[t].at = "enter"
    /\ Callee(t) \in Timers \/ Kind(Callee(t)) \in {"service", "client"}
    /\ slot' = [slot EXCEPT ![t].at = "run"]
    /\ Elsewhere /\ OnlyCounts /\ UNCHANGED <<stats, calls, done>>

Clients(v) == {c \in Entities : Kind(c) = "client" /\ made[c] # None
                                /\ made[c].topics = made[v].topics}

\* A service publishes its reply, which its clients hear unless it is lost.
Ran(t) ==
    /\ slot[t].at = "run"
    /\ Did(t) /\ Over(t)
    /\ \/ UNCHANGED <<strand, queue, arrived>>
       \/ /\ Kind(Callee(t)) = "service"
          /\ \E c \in Clients(Callee(t)) : Deliver(c, None)
    /\ Elsewhere
    /\ UNCHANGED <<running, stats, calls, recovery, faults>>

-----------------------------------------------------------------------------
(* FaultRecoveryExecutor::handle_message *)

match_rule(r, f) == \A k \in {"fault", "service", "severity"} :
                       r[k] \in {"", f[k]}

\* The rules that would act on f: one with another action is passed over.
Acting(f) == {i \in DOMAIN world.rules :
                 /\ f.active /\ match_rule(world.rules[i], f)
                 /\ world.rules[i].action \in {"degrade", "restart"}}

\* The service is degraded, and counted so, even when its marker file cannot
\* be written.
Degrade == /\ IF recovery.degraded THEN UNCHANGED recovery
              ELSE \E n \in {0, 1} :
                      recovery' = [recovery EXCEPT !.degraded = TRUE,
                                                   !.markers = @ + n]
           /\ UNCHANGED running

\* request_restart_ has the service leave its main loop with the exit code.
Restart == /\ recovery' = [recovery EXCEPT !.restarts = @ + 1]
           /\ running' = FALSE

handle_message(t) ==
    /\ slot[t].at = "enter" /\ Callee(t) = Recovery
    /\ LET rules == Acting(slot[t].task.what)
           first == CHOOSE i \in rules : \A j \in rules : i <= j
       IN CASE rules = {} -> UNCHANGED <<recovery, running>>
            [] OTHER -> IF world.rules[first].action = "degrade"
                        THEN Degrade ELSE Restart
    /\ Did(t) /\ Over(t)
    /\ Elsewhere
    /\ UNCHANGED <<strand, queue, arrived, stats, calls, faults>>

Step(t) == \/ WorkerTakes(t) \/ Pop(t) \/ Dropped(t) \/ Received(t)
           \/ Returns(t) \/ Runs(t) \/ Ran(t) \/ handle_message(t)

-----------------------------------------------------------------------------
(* What comes from outside, at any time. *)

Outside == UNCHANGED <<world, todo, made, timerVars, open, slot, done, stats,
                       calls, recovery>>
LoopKept == UNCHANGED <<loopVars, now>>

\* A message of another node reaches a subscription.
Arrive(e) == /\ Kind(e) \in {"event", "text"} /\ arrived[e] < MaxMsgs
             /\ Deliver(e, None)
             /\ Outside /\ LoopKept /\ UNCHANGED faults

\* A client of the node calls a service of the node.
Request(c) == \E v \in Entities :
    /\ Kind(v) = "service" /\ made[v] # None /\ arrived[v] < MaxMsgs
    /\ c \in Clients(v)
    /\ Deliver(v, None)
    /\ Outside /\ LoopKept /\ UNCHANGED faults

(* NodeBase::publish_fault fills in the service.  The FaultRecoveryExecutor   *)
(* hears it if it has started, on the executor, unless it is lost.          *)
publish_fault ==
    /\ faults < Len(world.faults) /\ faults' = faults + 1
    /\ LET f == world.faults[faults + 1]
           st == [f EXCEPT !.service = IF @ = "" THEN world.service ELSE @]
       IN \/ UNCHANGED <<strand, queue, arrived>>
          \/ /\ recovery.started /\ open
             /\ queue' = Append(queue, Task(Recovery, st))
             /\ arrived' = [arrived EXCEPT ![Recovery] = @ + 1]
             /\ UNCHANGED strand
    /\ Outside /\ LoopKept

Signalled == UNCHANGED <<installed, last, spin, firing, now, strand,
                         queue, arrived, faults>>

on_signal == /\ installed /\ running
             /\ running' = FALSE
             /\ Outside /\ Signalled

request_stop == /\ spin # "setup" /\ running
                /\ running' = FALSE
                /\ Outside /\ Signalled

Pass == /\ spin # "setup" /\ world.clock /\ now < MaxTime /\ now' = now + 1
        /\ Outside /\ UNCHANGED <<loopVars, strand, queue, arrived, faults>>

\* The executor's owner stops it once the loop has ended.
StopExecutor == /\ spin = "out" /\ open
                /\ open' = FALSE
                /\ UNCHANGED <<world, todo, made, loopVars, timerVars, now,
                               strand, queue, slot, countVars, recovery,
                               faults>>

Setup == \/ Create \/ install_signal_handlers \/ start_on \/ stop
         \/ \E t \in Timers : create_wall_timer(t) \/ cancel(t)

World == \/ \E e \in Entities : Arrive(e) \/ Request(e)
         \/ publish_fault \/ on_signal \/ request_stop \/ Pass \/ StopExecutor

Next == Setup \/ Loop \/ (\E t \in Threads : Step(t)) \/ World

Spec == Init /\ [][Next]_vars

(* The main thread goes on with its loop and the workers with their work;    *)
(* callbacks return.  Nothing from outside need happen.                     *)
FairSpec == /\ Spec
            /\ WF_vars(Loop)
            /\ \A t \in {Main} \cup UNION {w.workers : w \in Worlds} :
                  WF_vars(t \in Threads /\ Step(t))

-----------------------------------------------------------------------------
(* Every variable has its type, nothing is run that was not posted, and a  *)
(* node is degraded, and a marker written, at most once.                   *)
TypeOK ==
    /\ running \in BOOLEAN /\ installed \in BOOLEAN /\ open \in BOOLEAN
    /\ spin \in {"setup", "test", "timers", "dispatch", "inside", "out"}
    /\ \A e \in Entities : made[e] # None => made[e].runs \in Schedulers
    /\ \A t \in Threads : slot[t].at \in {"idle", "pop", "enter", "call", "run"}
    /\ \A e \in Callees : done[e] \in 0..arrived[e]
    /\ recovery.markers \in {0, 1}
    /\ recovery.markers = 1 => recovery.degraded

-----------------------------------------------------------------------------
(* Properties. *)

GroupOf(e) == IF e \in Entities THEN Info(e).group ELSE Default
Called(t) == slot[t].at \in {"call", "run"}

(* Callbacks of one mutually exclusive group never overlap, whichever        *)
(* overloads created what they belong to, and timers are in the default     *)
(* group (node.h:420: such a group serialises its callbacks).               *)
OneAtATime == \A t1, t2 \in Threads :
    (t1 # t2 /\ Called(t1) /\ Called(t2)) =>
        \/ GroupOf(Callee(t1)) # GroupOf(Callee(t2))
        \/ GroupOf(Callee(t1)) \in Reentrant

(* A timer fires at most once for each of its periods, never early, however  *)
(* late the loop comes round: missed periods are not made up for, and the   *)
(* next one is still counted from the timer's creation (timer.h:69).        *)
Paced ==
    /\ [][\A t \in Timers : fires'[t] # fires[t] => Period(t) > firedIn[t]]_vars
    /\ [](\A t \in Timers : timer[t] # None /\ Length(t) > 0 =>
             (timer[t].next - born[t]) % Length(t) = 0)

Busy(e) == Cardinality({t \in Threads : slot[t].at = "call" /\ Callee(t) = e})

(* Every message that a subscription has been run for was counted as         *)
(* received or as dropped for one reason, once, and the user's callback was  *)
(* called for those that count as received and for no other.                *)
Counted == \A e \in Entities : Kind(e) \in {"event", "text"} =>
    /\ stats[e].recv + stats[e].decode + stats[e].schema = done[e] + Busy(e)
    /\ calls[e] + Busy(e) = stats[e].recv
    /\ stats[e].user <= calls[e]

(* What is posted for an entity is run, by the workers or by a loop that     *)
(* goes on and takes one closure per turn, until the loop ends; and the loop *)
(* ends once a signal, the user or a fault that calls for a restart has      *)
(* asked for it.                                                            *)
Settles ==
    /\ []<>(spin \in {"setup", "out"} \/ \A e \in Callees : arrived[e] = done[e])
    /\ (~running /\ spin # "setup") ~> (spin = "out")
=============================================================================
