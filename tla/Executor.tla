------------------------------ MODULE Executor ------------------------------
(***************************************************************************)
(* wxz::core::Executor (include/executor.h): a bounded task queue that      *)
(* opts.threads worker threads drain, or, with no worker threads, that a    *)
(* client drives with spin() and spin_once().                              *)
(*                                                                         *)
(* A critical section of mu_ is one step.  The loads and stores of          *)
(* running_ and stopping_ that the code does outside mu_ are steps of their *)
(* own.  A thread inside cv_task_.wait or cv_not_full_.wait is asleep until *)
(* it is notified (or wakes spuriously): forgetting a notification leaves   *)
(* it asleep, as in the code.                                              *)
(***************************************************************************)
EXTENDS Naturals, Sequences, FiniteSets

CONSTANTS Workers,   \* the thread objects start() can create
          Clients,   \* the threads that call post(), spin() and spin_once()
          Tasks,     \* the closures that are posted, each at most once
          None,      \* no task
          Configs,   \* the Options an executor is constructed with
          MaxLives   \* bound: how many times start() succeeds

Threads == Workers \cup Clients

(* opts_ : threads is the set of worker threads start() creates.  nested is *)
(* not an option of the code: it says whether the tasks of this program     *)
(* post further tasks to the executor that runs them.                      *)
OptionsType == [threads : SUBSET Workers, max_queue : Nat,
                block_when_full : BOOLEAN, nested : BOOLEAN]

ASSUME ExecutorAssumption ==
    /\ Workers \cap Clients = {}
    /\ None \notin Tasks
    /\ Configs \subseteq OptionsType
    /\ MaxLives \in Nat

VARIABLES opts,      \* opts_, fixed at construction
          running,   \* running_
          stopping,  \* stopping_
          tasks,     \* tasks_
          ctl,       \* where the owner is in start() or stop()
          lives,     \* how many times start() succeeded
          pc,        \* where each thread is
          once,      \* the clients inside spin_once()
          cur,       \* the task each thread is running
          arg,       \* the task each thread is posting
          result,    \* what post() of each task returned
          finished   \* the tasks that have returned

ownerVars == <<opts, running, stopping, ctl, lives>>
vars == <<opts, running, stopping, tasks, ctl, lives, pc, once, cur, arg,
          result, finished>>

Accepted == {k \in Tasks : result[k] = "true"}

-----------------------------------------------------------------------------
(* Condition variables. *)

TaskWaiters(p) == {t \in Threads : p[t] \in {"take_wait", "once_wait"}}
FullWaiters(p) == {t \in Threads : p[t] = "post_wait"}

(* Where a thread resumes when its wait ends: it takes mu_ and evaluates    *)
(* the predicate again.                                                    *)
Resumed(at) == CASE at = "take_wait" -> "take"
                 [] at = "once_wait" -> "once"
                 [] at = "post_wait" -> "post_lock"
                 [] OTHER -> at

NotifyOne(p, waiters) ==
    IF waiters = {} THEN {p}
    ELSE {[p EXCEPT ![w] = Resumed(p[w])] : w \in waiters}

NotifyAll(p) == [t \in Threads |-> Resumed(p[t])]

-----------------------------------------------------------------------------
(* start() and stop(), called by the one thread that owns the executor. *)

Init == /\ opts \in Configs
        /\ running = FALSE
        /\ stopping = FALSE
        /\ tasks = <<>>
        /\ ctl = "idle"
        /\ lives = 0
        /\ pc = [t \in Threads |-> IF t \in Workers THEN "off" ELSE "idle"]
        /\ once = {}
        /\ cur = [t \in Threads |-> None]
        /\ arg = [t \in Threads |-> None]
        /\ result = [k \in Tasks |-> "new"]
        /\ finished = {}

StartCas == /\ ctl = "idle"
            /\ ~running
            /\ lives < MaxLives
            /\ running' = TRUE
            /\ ctl' = "starting"
            /\ lives' = lives + 1
            /\ UNCHANGED <<opts, stopping, tasks, pc, once, cur, arg, result,
                           finished>>

StartSpawn == /\ ctl = "starting"
              /\ stopping' = FALSE
              /\ pc' = [t \in Threads |-> IF t \in opts.threads THEN "take"
                                          ELSE pc[t]]
              /\ ctl' = "idle"
              /\ UNCHANGED <<opts, running, tasks, lives, once, cur, arg,
                             result, finished>>

StopFlag == /\ ctl = "idle"
            /\ running
            /\ stopping' = TRUE
            /\ ctl' = "stopping"
            /\ UNCHANGED <<opts, running, tasks, lives, pc, once, cur, arg,
                           result, finished>>

\* Mutation: stop() notifies cv_task_ only.
Bug_StopNotify == /\ ctl = "stopping"
                  /\ pc' = [t \in Threads |->
                              IF t \in FullWaiters(pc) THEN pc[t]
                              ELSE Resumed(pc[t])]
                  /\ ctl' = "joining"
                  /\ UNCHANGED <<opts, running, stopping, tasks, lives, once,
                                 cur, arg, result, finished>>

StopNotify == /\ ctl = "stopping"
              /\ pc' = NotifyAll(pc)
              /\ ctl' = "joining"
              /\ UNCHANGED <<opts, running, stopping, tasks, lives, once, cur,
                             arg, result, finished>>

StopJoin == /\ ctl = "joining"
            /\ \A w \in opts.threads : pc[w] = "gone"
            /\ pc' = [t \in Threads |-> IF t \in opts.threads THEN "off"
                                        ELSE pc[t]]
            /\ running' = FALSE
            /\ ctl' = "idle"
            /\ UNCHANGED <<opts, stopping, tasks, lives, once, cur, arg,
                           result, finished>>

-----------------------------------------------------------------------------
(* post(), called by an idle client or, when tasks post tasks, by a thread  *)
(* that is running one.                                                    *)

Full == opts.max_queue > 0 /\ Len(tasks) >= opts.max_queue

PostReturn(t) == IF cur[t] = None THEN "idle" ELSE "run"

CanPost(t) == \/ pc[t] = "idle" /\ t \in Clients
              \/ pc[t] = "run" /\ opts.nested

(* The two loads before mu_ is taken.  They are one step: once running_ was *)
(* read TRUE, a later FALSE of stopping_ means that running_ is TRUE again.  *)
PostCheck(t, k) ==
    /\ CanPost(t)
    /\ result[k] = "new"
    /\ IF running /\ ~stopping
       THEN /\ result' = [result EXCEPT ![k] = "posting"]
            /\ arg' = [arg EXCEPT ![t] = k]
            /\ pc' = [pc EXCEPT ![t] = "post_lock"]
       ELSE /\ result' = [result EXCEPT ![k] = "false"]
            /\ UNCHANGED <<arg, pc>>
    /\ UNCHANGED <<ownerVars, tasks, once, cur, finished>>

PostWait(t) ==
    /\ pc[t] = "post_lock"
    /\ opts.block_when_full
    /\ Full /\ ~stopping
    /\ pc' = [pc EXCEPT ![t] = "post_wait"]
    /\ UNCHANGED <<ownerVars, tasks, once, cur, arg, result, finished>>

PostReject(t) ==
    /\ pc[t] = "post_lock"
    /\ opts.max_queue > 0
    /\ stopping \/ (Full /\ ~opts.block_when_full)
    /\ result' = [result EXCEPT ![arg[t]] = "false"]
    /\ arg' = [arg EXCEPT ![t] = None]
    /\ pc' = [pc EXCEPT ![t] = PostReturn(t)]
    /\ UNCHANGED <<ownerVars, tasks, once, cur, finished>>

\* Mutation: stopping_ is not read again under mu_.
Bug_PostPushStopping(t) ==
    /\ pc[t] = "post_lock"
    /\ ~Full
    /\ tasks' = Append(tasks, arg[t])
    /\ result' = [result EXCEPT ![arg[t]] = "true"]
    /\ arg' = [arg EXCEPT ![t] = None]
    /\ pc' \in NotifyOne([pc EXCEPT ![t] = PostReturn(t)], TaskWaiters(pc))
    /\ UNCHANGED <<ownerVars, once, cur, finished>>

\* Mutation: the push notifies nobody.
Bug_PostPushSilent(t) ==
    /\ pc[t] = "post_lock"
    /\ opts.max_queue > 0 => ~stopping /\ ~Full
    /\ tasks' = Append(tasks, arg[t])
    /\ result' = [result EXCEPT ![arg[t]] = "true"]
    /\ arg' = [arg EXCEPT ![t] = None]
    /\ pc' = [pc EXCEPT ![t] = PostReturn(t)]
    /\ UNCHANGED <<ownerVars, once, cur, finished>>

PostPush(t) ==
    /\ pc[t] = "post_lock"
    /\ opts.max_queue > 0 => ~stopping /\ ~Full
    /\ tasks' = Append(tasks, arg[t])
    /\ result' = [result EXCEPT ![arg[t]] = "true"]
    /\ arg' = [arg EXCEPT ![t] = None]
    /\ pc' \in NotifyOne([pc EXCEPT ![t] = PostReturn(t)], TaskWaiters(pc))
    /\ UNCHANGED <<ownerVars, once, cur, finished>>

-----------------------------------------------------------------------------
(* worker_loop(), run by the worker threads and by spin(). *)

(* Without worker threads a client drives the queue. *)
SpinEnter(t) ==
    /\ t \in Clients /\ pc[t] = "idle"
    /\ opts.threads = {}
    /\ running /\ ~stopping
    /\ pc' = [pc EXCEPT ![t] = "take"]
    /\ UNCHANGED <<ownerVars, tasks, once, cur, arg, result, finished>>

TakeWait(t) ==
    /\ pc[t] = "take"
    /\ tasks = <<>> /\ ~stopping
    /\ pc' = [pc EXCEPT ![t] = "take_wait"]
    /\ UNCHANGED <<ownerVars, tasks, once, cur, arg, result, finished>>

TakeExit(t) ==
    /\ pc[t] = "take"
    /\ tasks = <<>> /\ stopping
    /\ pc' = [pc EXCEPT ![t] = IF t \in Workers THEN "gone" ELSE "idle"]
    /\ UNCHANGED <<ownerVars, tasks, once, cur, arg, result, finished>>

\* Mutation: the task is copied under mu_ and removed only by the next pop.
Bug_PopCopies(t) ==
    /\ tasks # <<>>
    /\ cur' = [cur EXCEPT ![t] = Head(tasks)]
    /\ tasks' = IF Len(tasks) > 1 THEN Tail(tasks) ELSE tasks
    /\ pc' \in NotifyOne([pc EXCEPT ![t] = "run"], FullWaiters(pc))
    /\ UNCHANGED <<ownerVars, arg, result, finished>>

(* Pops the oldest task, wakes one blocked poster, and runs the task after  *)
(* mu_ is released.                                                        *)
Pop(t) ==
    /\ tasks # <<>>
    /\ cur' = [cur EXCEPT ![t] = Head(tasks)]
    /\ tasks' = Tail(tasks)
    /\ pc' \in NotifyOne([pc EXCEPT ![t] = "run"], FullWaiters(pc))
    /\ UNCHANGED <<ownerVars, arg, result, finished>>

Take(t) == pc[t] = "take" /\ Pop(t) /\ UNCHANGED once

TaskReturns(t) ==
    /\ pc[t] = "run"
    /\ finished' = finished \cup {cur[t]}
    /\ cur' = [cur EXCEPT ![t] = None]
    /\ pc' = [pc EXCEPT ![t] = IF t \in once THEN "idle" ELSE "take"]
    /\ once' = once \ {t}
    /\ UNCHANGED <<ownerVars, tasks, arg, result>>

-----------------------------------------------------------------------------
(* spin_once(timeout) *)

OnceEnter(t) ==
    /\ t \in Clients /\ pc[t] = "idle"
    /\ opts.threads = {}
    /\ running /\ ~stopping
    /\ pc' = [pc EXCEPT ![t] = "once"]
    /\ once' = once \cup {t}
    /\ UNCHANGED <<ownerVars, tasks, cur, arg, result, finished>>

OnceWait(t) ==
    /\ pc[t] = "once"
    /\ tasks = <<>> /\ ~stopping
    /\ pc' = [pc EXCEPT ![t] = "once_wait"]
    /\ UNCHANGED <<ownerVars, tasks, once, cur, arg, result, finished>>

OnceReturnFalse(t) ==
    /\ pc[t] = "once"
    /\ tasks = <<>> \/ stopping
    /\ pc' = [pc EXCEPT ![t] = "idle"]
    /\ once' = once \ {t}
    /\ UNCHANGED <<ownerVars, tasks, cur, arg, result, finished>>

OnceTake(t) == pc[t] = "once" /\ ~stopping /\ Pop(t) /\ UNCHANGED once

-----------------------------------------------------------------------------
(* A wait may end without a notification, and wait_for ends on its timeout; *)
(* the thread then looks at the predicate again.                           *)
WakeUnnotified(t) ==
    /\ pc[t] \in {"take_wait", "once_wait", "post_wait"}
    /\ pc' = [pc EXCEPT ![t] = Resumed(@)]
    /\ UNCHANGED <<ownerVars, tasks, once, cur, arg, result, finished>>

Owner == StartCas \/ StartSpawn \/ StopFlag \/ StopNotify \/ StopJoin

(* What a thread inside a call goes on to do without being told to. *)
Proceed(t) == \/ PostWait(t) \/ PostReject(t) \/ PostPush(t)
              \/ TakeWait(t) \/ TakeExit(t) \/ Take(t) \/ TaskReturns(t)
              \/ OnceWait(t) \/ OnceReturnFalse(t) \/ OnceTake(t)

(* What a thread does because the program calls it, or by chance. *)
Choose(t) == \/ \E k \in Tasks : PostCheck(t, k)
             \/ SpinEnter(t) \/ OnceEnter(t) \/ WakeUnnotified(t)

Next == Owner \/ \E t \in Threads : Proceed(t) \/ Choose(t)

Spec == Init /\ [][Next]_vars

(* A thread that can go on does, tasks return, and a start() or stop() that *)
(* was called goes on.  Nothing forces a call to be made.                  *)
Fairness == /\ \A t \in Threads : WF_vars(Proceed(t))
            /\ WF_vars(StartSpawn \/ StopNotify \/ StopJoin)

FairSpec == Spec /\ Fairness

-----------------------------------------------------------------------------
(* Properties. *)

PostPc == {"post_lock", "post_wait"}
OncePc == {"once", "once_wait"}
DrivePc == {"take", "take_wait", "run"} \cup OncePc
OwnerPc == {"idle", "starting", "stopping", "joining"}

(* Every variable has its type, and a bounded queue never holds more than   *)
(* max_queue tasks, however many posters were waiting for room.             *)
TypeOK ==
    /\ opts \in Configs
    /\ running \in BOOLEAN /\ stopping \in BOOLEAN
    /\ tasks \in Seq(Tasks)
    /\ opts.max_queue > 0 => Len(tasks) <= opts.max_queue
    /\ ctl \in OwnerPc
    /\ lives \in 0..MaxLives
    /\ pc \in [Threads -> {"off", "gone", "idle"} \cup PostPc \cup DrivePc]
    /\ once \subseteq Clients
    /\ cur \in [Threads -> Tasks \cup {None}]
    /\ arg \in [Threads -> Tasks \cup {None}]
    /\ result \in [Tasks -> {"new", "posting", "true", "false"}]
    /\ finished \subseteq Tasks

(* stop() of an executor with worker threads and a bounded queue returns    *)
(* only when every task that post() accepted has returned, and no post()    *)
(* that was already past its first checks slips a task in afterwards.       *)
StopDrains ==
    opts.threads # {} /\ opts.max_queue > 0 /\ ~running =>
        tasks = <<>> /\ Accepted \subseteq finished

(* The executor hands out the tasks in the order in which they were pushed, *)
(* each to one thread and once, whatever the threads, the restarts and the  *)
(* blocked posters do.                                                     *)
Service == INSTANCE TaskService WITH Slots <- Threads, Discards <- FALSE,
                                     queue <- tasks, slot <- cur,
                                     dropped <- {}
ImplementsService == Service!Spec

(* Where workers exist and none can block in a post() of its own, nothing   *)
(* accepted is forgotten and no blocked poster sleeps for ever.             *)
SelfBlocking == opts.nested /\ opts.block_when_full
Live == opts.threads # {} /\ opts.max_queue > 0 /\ ~SelfBlocking

AcceptedRuns == \A k \in Tasks :
                    (Live /\ result[k] = "true") ~> k \in finished

(* Calls return.  A stop() wakes every worker, also the one asleep inside a *)
(* nested post() on a full queue, and all of them exit; a blocked poster    *)
(* does not sleep on while the queue has room.                             *)
CallsReturn ==
    /\ ctl = "stopping" ~> ctl = "idle"
    /\ \A t \in Clients : (Live /\ pc[t] \in PostPc) ~> pc[t] = "idle"
=============================================================================
