------------------------------- MODULE Strand -------------------------------
(***************************************************************************)
(* wxz::core::Strand (include/strand.h): tasks posted to one strand run one *)
(* at a time and in order, on whichever thread of the executor below runs   *)
(* the strand's drain().                                                   *)
(*                                                                         *)
(* The executor is TaskService, the specification Executor implements: the  *)
(* strand submits drain closures to it and its workers run them.  Each      *)
(* closure is named by the task whose post() scheduled it.  The executor    *)
(* may also refuse a closure (full and not blocking, stopping, stopped).    *)
(***************************************************************************)
EXTENDS Naturals, Sequences, FiniteSets

CONSTANTS Workers,   \* the executor's threads
          Clients,   \* other threads that post
          Tasks,     \* the closures that are posted, each at most once
          None       \* no task

Threads == Workers \cup Clients

ASSUME StrandAssumption ==
    /\ Workers \cap Clients = {}
    /\ None \notin Tasks

VARIABLES q,          \* q_
          scheduled,  \* scheduled_
          stopped,    \* stopped_
          stopper,    \* where the thread that stops the strand is
          pc,         \* where each thread is in post() or drain()
          arg,        \* the task each thread is posting
          cur,        \* the task each worker is running for the strand
          result,     \* what post() of each task returned
          finished,   \* the tasks that have returned
          dropped,    \* the tasks stop() destroyed
          exQueue, exSlot, exDone    \* the executor's closures

strandVars == <<q, scheduled, stopped, stopper, pc, arg, cur, result, finished,
                dropped>>
exVars == <<exQueue, exSlot, exDone>>
vars == <<strandVars, exVars>>

Ex == INSTANCE TaskService WITH Slots <- Workers, Discards <- FALSE,
                                queue <- exQueue, slot <- exSlot,
                                finished <- exDone, dropped <- {}

Init == /\ q = <<>>
        /\ scheduled = FALSE
        /\ stopped = FALSE
        /\ stopper = "idle"
        /\ pc = [t \in Threads |-> "idle"]
        /\ arg = [t \in Threads |-> None]
        /\ cur = [t \in Workers |-> None]
        /\ result = [k \in Tasks |-> "new"]
        /\ finished = {}
        /\ dropped = {}
        /\ Ex!Init

-----------------------------------------------------------------------------
(* post(), called by a client or by a task that runs on the strand. *)

PostReturn(t) == IF t \in Workers THEN "run" ELSE "idle"

CanPost(t) == pc[t] = PostReturn(t)

(* The unlocked test of stopped_. *)
PostCheck(t, k) ==
    /\ CanPost(t)
    /\ result[k] = "new"
    /\ IF stopped
       THEN /\ result' = [result EXCEPT ![k] = "stopped"]
            /\ UNCHANGED <<pc, arg>>
       ELSE /\ result' = [result EXCEPT ![k] = "posting"]
            /\ arg' = [arg EXCEPT ![t] = k]
            /\ pc' = [pc EXCEPT ![t] = "post_lock"]
    /\ UNCHANGED <<q, scheduled, stopped, stopper, cur, finished, dropped,
                   exVars>>

PostReject(t) ==
    /\ pc[t] = "post_lock"
    /\ stopped
    /\ result' = [result EXCEPT ![arg[t]] = "stopped"]
    /\ arg' = [arg EXCEPT ![t] = None]
    /\ pc' = [pc EXCEPT ![t] = PostReturn(t)]
    /\ UNCHANGED <<q, scheduled, stopped, stopper, cur, finished, dropped,
                   exVars>>

\* Mutation: stopped_ is not tested again under mu_.
Bug_PostJoin(t) ==
    /\ pc[t] = "post_lock"
    /\ scheduled
    /\ q' = Append(q, arg[t])
    /\ result' = [result EXCEPT ![arg[t]] = "accepted"]
    /\ arg' = [arg EXCEPT ![t] = None]
    /\ pc' = [pc EXCEPT ![t] = PostReturn(t)]
    /\ UNCHANGED <<scheduled, stopped, stopper, cur, finished, dropped, exVars>>

(* The strand has a drain on its way: the task is queued and that is all. *)
PostJoin(t) ==
    /\ pc[t] = "post_lock"
    /\ ~stopped /\ scheduled
    /\ q' = Append(q, arg[t])
    /\ result' = [result EXCEPT ![arg[t]] = "accepted"]
    /\ arg' = [arg EXCEPT ![t] = None]
    /\ pc' = [pc EXCEPT ![t] = PostReturn(t)]
    /\ UNCHANGED <<scheduled, stopped, stopper, cur, finished, dropped, exVars>>

\* Mutation: scheduled_ is left to the drain to set.
Bug_PostFirst(t) ==
    /\ pc[t] = "post_lock"
    /\ ~stopped /\ ~scheduled
    /\ q' = Append(q, arg[t])
    /\ pc' = [pc EXCEPT ![t] = "schedule"]
    /\ UNCHANGED <<scheduled, stopped, stopper, arg, cur, result, finished,
                   dropped, exVars>>

(* It has none: this thread is the one that schedules it. *)
PostFirst(t) ==
    /\ pc[t] = "post_lock"
    /\ ~stopped /\ ~scheduled
    /\ q' = Append(q, arg[t])
    /\ scheduled' = TRUE
    /\ pc' = [pc EXCEPT ![t] = "schedule"]
    /\ UNCHANGED <<stopped, stopper, arg, cur, result, finished, dropped,
                   exVars>>

(* ex_->post() outside mu_, and the value it returns. *)
ScheduleAccepted(t) ==
    /\ pc[t] = "schedule"
    /\ Ex!Submit(arg[t])
    /\ result' = [result EXCEPT ![arg[t]] = "accepted"]
    /\ arg' = [arg EXCEPT ![t] = None]
    /\ pc' = [pc EXCEPT ![t] = PostReturn(t)]
    /\ UNCHANGED <<q, scheduled, stopped, stopper, cur, finished, dropped>>

ScheduleRejected(t) ==
    /\ pc[t] = "schedule"
    /\ result' = [result EXCEPT ![arg[t]] = "executor_rejected"]
    /\ arg' = [arg EXCEPT ![t] = None]
    /\ pc' = [pc EXCEPT ![t] = PostReturn(t)]
    /\ UNCHANGED <<q, scheduled, stopped, stopper, cur, finished, dropped,
                   exVars>>

-----------------------------------------------------------------------------
(* drain(), run by a worker of the executor. *)

DrainBegin(w) ==
    /\ pc[w] = "idle"
    /\ Ex!Begin(w)
    /\ pc' = [pc EXCEPT ![w] = "drain"]
    /\ UNCHANGED <<q, scheduled, stopped, stopper, arg, cur, result, finished,
                   dropped>>

\* Mutation: the drain counts as over when it takes the last task.
Bug_DrainPop(w) ==
    /\ pc[w] = "drain"
    /\ q # <<>>
    /\ cur' = [cur EXCEPT ![w] = Head(q)]
    /\ q' = Tail(q)
    /\ scheduled' = (Len(q) > 1)
    /\ pc' = [pc EXCEPT ![w] = "run"]
    /\ UNCHANGED <<stopped, stopper, arg, result, finished, dropped, exVars>>

DrainPop(w) ==
    /\ pc[w] = "drain"
    /\ q # <<>>
    /\ cur' = [cur EXCEPT ![w] = Head(q)]
    /\ q' = Tail(q)
    /\ pc' = [pc EXCEPT ![w] = "run"]
    /\ UNCHANGED <<scheduled, stopped, stopper, arg, result, finished, dropped,
                   exVars>>

TaskReturns(w) ==
    /\ pc[w] = "run"
    /\ finished' = finished \cup {cur[w]}
    /\ cur' = [cur EXCEPT ![w] = None]
    /\ pc' = [pc EXCEPT ![w] = "drain"]
    /\ UNCHANGED <<q, scheduled, stopped, stopper, arg, result, dropped,
                   exVars>>

\* Mutation: the drain returns and leaves scheduled_ set.
Bug_DrainReturns(w) ==
    /\ pc[w] = "drain"
    /\ q = <<>>
    /\ Ex!End(w)
    /\ pc' = [pc EXCEPT ![w] = "idle"]
    /\ UNCHANGED <<q, scheduled, stopped, stopper, arg, cur, result, finished,
                   dropped>>

DrainReturns(w) ==
    /\ pc[w] = "drain"
    /\ q = <<>>
    /\ scheduled' = FALSE
    /\ Ex!End(w)
    /\ pc' = [pc EXCEPT ![w] = "idle"]
    /\ UNCHANGED <<q, stopped, stopper, arg, cur, result, finished, dropped>>

-----------------------------------------------------------------------------
(* stop() *)

StopFlag == /\ stopper = "idle"
            /\ stopped' = TRUE
            /\ stopper' = "clearing"
            /\ UNCHANGED <<q, scheduled, pc, arg, cur, result, finished,
                           dropped, exVars>>

StopClear == /\ stopper = "clearing"
             /\ dropped' = dropped \cup Ex!InSeq(q)
             /\ q' = <<>>
             /\ stopper' = "done"
             /\ UNCHANGED <<scheduled, stopped, pc, arg, cur, result, finished,
                            exVars>>

-----------------------------------------------------------------------------
PostSteps(t) == \/ PostReject(t) \/ PostJoin(t) \/ PostFirst(t)
                \/ ScheduleAccepted(t) \/ ScheduleRejected(t)

DrainSteps(w) == \/ DrainBegin(w) \/ DrainPop(w) \/ TaskReturns(w)
                 \/ DrainReturns(w)

Next == \/ \E t \in Threads : PostSteps(t) \/ \E k \in Tasks : PostCheck(t, k)
        \/ \E w \in Workers : DrainSteps(w)
        \/ StopFlag \/ StopClear

Spec == Init /\ [][Next]_vars

(* A call that was made goes on, and the executor keeps the promise shown   *)
(* of it: a closure it accepted is run by a worker that is free.            *)
Fairness == /\ \A t \in Threads : WF_vars(PostSteps(t))
            /\ \A w \in Workers : WF_vars(DrainSteps(w))

FairSpec == Spec /\ Fairness

-----------------------------------------------------------------------------
(* Properties. *)

(* Every variable has its type, and a thread holds a task exactly while it  *)
(* is inside post() with it or inside drain() running it.                   *)
TypeOK ==
    /\ q \in Seq(Tasks)
    /\ scheduled \in BOOLEAN /\ stopped \in BOOLEAN
    /\ stopper \in {"idle", "clearing", "done"}
    /\ pc \in [Threads -> {"idle", "post_lock", "schedule", "drain", "run"}]
    /\ arg \in [Threads -> Tasks \cup {None}]
    /\ cur \in [Workers -> Tasks \cup {None}]
    /\ result \in [Tasks -> {"new", "posting", "accepted", "stopped",
                             "executor_rejected"}]
    /\ finished \subseteq Tasks /\ dropped \subseteq Tasks
    /\ exQueue \in Seq(Tasks)
    /\ exSlot \in [Workers -> Tasks \cup {None}]
    /\ exDone \subseteq Tasks
    /\ \A t \in Threads : arg[t] # None <=> pc[t] \in {"post_lock", "schedule"}
    /\ \A w \in Workers : cur[w] # None => exSlot[w] # None

Draining == {w \in Workers : exSlot[w] # None}
Scheduling == {t \in Threads : pc[t] = "schedule"}

(* There is at most one drain() at any time, be it about to be scheduled,   *)
(* waiting in the executor or running, however the posts, the drain that    *)
(* finds the queue empty and stop() interleave.                            *)
OneDrain == Len(exQueue) + Cardinality(Draining) + Cardinality(Scheduling) <= 1

(* The task the strand is running, as the one slot of a TaskService: the    *)
(* task of the worker that carries one.                                     *)
Carried(c) == IF \E w \in Workers : c[w] # None
              THEN c[CHOOSE w \in Workers : c[w] # None]
              ELSE None
Running == Carried(cur)

(* The strand's promise: FIFO, one task at a time, each at most once; stop()*)
(* throws away what still waits.                                           *)
Serial == INSTANCE TaskService WITH Slots <- {"strand"}, Discards <- TRUE,
                                    queue <- q,
                                    slot <- [s \in {"strand"} |-> Running]
ImplementsSerial == Serial!Spec

(* When stop() has returned no task waits any more, and none is added by a  *)
(* post() that had already passed the unlocked test of stopped_.            *)
StopIsFinal == stopper = "done" => q = <<>>

(* A task that posts to its own strand never calls the executor, so it      *)
(* cannot block on the executor's full queue while it occupies a worker.    *)
NestedNeverSchedules == \A w \in Workers : pc[w] # "schedule"

(* A task for which post() returned true runs, unless stop() discards it or *)
(* the executor once refused the strand's drain.                           *)
Refused == \E j \in Tasks : result[j] = "executor_rejected"
AcceptedRuns == \A k \in Tasks :
                    result[k] = "accepted" ~>
                        (k \in finished \/ k \in dropped \/ Refused)

=============================================================================
