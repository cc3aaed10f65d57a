---------------------------- MODULE DispatchProofs ----------------------------
(***************************************************************************)
(* What the two ways to hand work to a pool of threads guarantee, whatever  *)
(* threads, tasks, events and options there are.                           *)
(*                                                                         *)
(* Strand: one drain at a time, a queue that stays empty after stop(),      *)
(* nested posts that never reach the executor, and that it implements       *)
(* TaskService with a single slot.                                         *)
(*                                                                         *)
(* EventDispatcher: Typing, OnePlace and RetriesBounded: through retries,   *)
(* refused submissions, drops, stops and restarts no event is lost, doubled *)
(* or handled more often than its retries allow.                           *)
(***************************************************************************)
EXTENDS Strand, EventDispatcher, FiniteSetTheorems, TLAPS

-----------------------------------------------------------------------------
(* Strand.                                                                 *)

(* Clients never drain; a worker is inside drain() exactly while it holds a *)
(* closure, runs a task exactly between two visits of the queue, and never  *)
(* has to schedule.                                                        *)
PlaceInv ==
    /\ \A c \in Clients : pc[c] \in {"idle", "post_lock", "schedule"}
    /\ \A w \in Workers :
        /\ pc[w] \in {"idle", "post_lock", "drain", "run"}
        /\ exSlot[w] # None <=> pc[w] # "idle"
        /\ cur[w] # None <=> pc[w] \in {"run", "post_lock"}

(* scheduled_ covers the one drain there may be: the post about to schedule *)
(* it, the closure that waits in the executor, the worker that runs it.     *)
TokenInv ==
    /\ ~scheduled => exQueue = <<>> /\ Draining = {} /\ Scheduling = {}
    /\ Len(exQueue) <= 1
    /\ exQueue # <<>> => Draining = {} /\ Scheduling = {}
    /\ Scheduling # {} => Draining = {}
    /\ \A v, w \in Draining : v = w
    /\ \A t, u \in Scheduling : t = u

(* Where a task can be once it was pushed. *)
Placed(k) == \/ \E i \in 1..Len(q) : q[i] = k
             \/ \E w \in Workers : cur[w] = k
             \/ k \in finished
             \/ k \in dropped

(* A task about to be pushed is nowhere else.                               *)
FreshInv ==
    /\ \A t \in Threads : arg[t] # None => result[arg[t]] = "posting"
    /\ \A t, u \in Threads : arg[t] # None /\ arg[t] = arg[u] => t = u
    /\ \A k \in Tasks : Placed(k) =>
            /\ result[k] # "new"
            /\ \A t \in Threads : pc[t] = "post_lock" => arg[t] # k

StopInv == stopper = "idle" \/ (stopped /\ (stopper = "done" => q = <<>>))

IInv == TypeOK /\ PlaceInv /\ TokenInv /\ FreshInv /\ StopInv

-----------------------------------------------------------------------------
(* One lemma per action. *)

LEMMA InitIInv == Init => IInv
<1> SUFFICES ASSUME Init PROVE IInv
  OBVIOUS
<1>1. TypeOK
  <2>1. /\ pc \in [Threads -> {"idle", "post_lock", "schedule", "drain", "run"}]
        /\ arg \in [Threads -> Tasks \cup {None}]
        /\ cur \in [Workers -> Tasks \cup {None}]
        /\ exSlot \in [Workers -> Tasks \cup {None}]
        /\ result \in [Tasks -> {"new", "posting", "accepted", "stopped",
                                 "executor_rejected"}]
    BY DEF Init, Ex!Init
  <2>2. q \in Seq(Tasks) /\ exQueue \in Seq(Tasks)
    BY DEF Init, Ex!Init
  <2>3. \A t \in Threads : arg[t] # None <=> pc[t] \in {"post_lock", "schedule"}
    BY DEF Init
  <2>4. \A w \in Workers : cur[w] # None => exSlot[w] # None
    BY DEF Init
  <2>5. QED
    BY <2>1, <2>2, <2>3, <2>4 DEF Init, Ex!Init, TypeOK
<1>2. PlaceInv
  BY DEF Init, Ex!Init, PlaceInv, Threads
<1>3. TokenInv
  BY DEF Init, Ex!Init, TokenInv, Draining, Scheduling, Threads
<1>4. FreshInv
  BY StrandAssumption DEF Init, FreshInv, Placed
<1>5. StopInv
  BY DEF Init, StopInv
<1>6. QED
  BY <1>1, <1>2, <1>3, <1>4, <1>5 DEF IInv


LEMMA PostCheckKeeps ==
    ASSUME IInv, NEW t \in Threads, NEW k \in Tasks, PostCheck(t, k)
    PROVE  IInv'
<1>1. TypeOK'
  <2>1. pc[t] \in {"idle", "run"} /\ k # None
    BY StrandAssumption DEF PostCheck, CanPost, PostReturn
  <2>2. CASE stopped
    BY <2>1, <2>2 DEF IInv, TypeOK, PostCheck, exVars
  <2>3. CASE ~stopped
    BY <2>1, <2>3 DEF IInv, TypeOK, PostCheck, exVars
  <2>4. QED
    BY <2>2, <2>3
<1>2. PlaceInv'
  BY StrandAssumption
  DEF IInv, TypeOK, PlaceInv, PostCheck, CanPost, PostReturn, exVars, Threads
<1>3. TokenInv'
  BY DEF IInv, TypeOK, TokenInv, PostCheck, CanPost, PostReturn, exVars,
         Draining, Scheduling
<1>4. FreshInv'
  BY StrandAssumption
  DEF IInv, TypeOK, FreshInv, Placed, PostCheck, CanPost, PostReturn, exVars
<1>5. StopInv'
  BY DEF IInv, StopInv, PostCheck
<1>6. QED
  BY <1>1, <1>2, <1>3, <1>4, <1>5 DEF IInv

LEMMA PostRejectKeeps ==
    ASSUME IInv, NEW t \in Threads, PostReject(t)
    PROVE  IInv'
<1>1. arg[t] \in Tasks
  BY DEF IInv, TypeOK, PostReject
<1>2. TypeOK'
  BY <1>1, StrandAssumption DEF IInv, TypeOK, PostReject, PostReturn, exVars
<1>3. PlaceInv'
  BY StrandAssumption
  DEF IInv, TypeOK, PlaceInv, PostReject, PostReturn, exVars, Threads
<1>4. TokenInv'
  BY DEF IInv, TypeOK, TokenInv, PostReject, PostReturn, exVars, Draining,
         Scheduling
<1>5. FreshInv'
  BY <1>1, StrandAssumption
  DEF IInv, TypeOK, FreshInv, Placed, PostReject, PostReturn, exVars
<1>6. StopInv'
  BY DEF IInv, StopInv, PostReject
<1>7. QED
  BY <1>2, <1>3, <1>4, <1>5, <1>6 DEF IInv

(* The two outcomes of a push differ in who schedules.                      *)
LEMMA PushAppends ==
    ASSUME IInv, NEW t \in Threads, PostJoin(t) \/ PostFirst(t)
    PROVE  /\ arg[t] \in Tasks /\ arg[t] # None
           /\ q' = Append(q, arg[t]) /\ q' \in Seq(Tasks)
           /\ ~Placed(arg[t])
           /\ \A k \in Tasks : Placed(k)' => Placed(k) \/ k = arg[t]
<1>1. arg[t] \in Tasks /\ arg[t] # None /\ pc[t] = "post_lock"
      /\ q' = Append(q, arg[t])
  BY StrandAssumption DEF IInv, TypeOK, PostJoin, PostFirst
<1>2. /\ q' \in Seq(Tasks) /\ Len(q') = Len(q) + 1
      /\ \A i \in 1..Len(q) : q'[i] = q[i]
      /\ q'[Len(q) + 1] = arg[t]
      /\ Len(q) \in Nat
  BY <1>1 DEF IInv, TypeOK
<1>3. UNCHANGED <<cur, finished, dropped>>
  BY DEF PostJoin, PostFirst
<1>4. ASSUME NEW k \in Tasks, Placed(k)' PROVE Placed(k) \/ k = arg[t]
  BY <1>2, <1>3, <1>4 DEF Placed
<1>5. ~Placed(arg[t])
  BY <1>1 DEF IInv, FreshInv
<1>6. QED
  BY <1>1, <1>2, <1>4, <1>5

LEMMA PostJoinKeeps ==
    ASSUME IInv, NEW t \in Threads, PostJoin(t)
    PROVE  IInv'
<1>1. /\ arg[t] \in Tasks /\ arg[t] # None
      /\ q' \in Seq(Tasks)
      /\ \A k \in Tasks : Placed(k)' => Placed(k) \/ k = arg[t]
  BY PushAppends
<1>2. TypeOK'
  BY <1>1, StrandAssumption DEF IInv, TypeOK, PostJoin, PostReturn, exVars
<1>3. PlaceInv'
  BY StrandAssumption
  DEF IInv, TypeOK, PlaceInv, PostJoin, PostReturn, exVars, Threads
<1>4. TokenInv'
  BY DEF IInv, TypeOK, TokenInv, PostJoin, PostReturn, exVars, Draining,
         Scheduling
<1>5. FreshInv'
  <2>1. /\ \A u \in Threads : arg'[u] = IF u = t THEN None ELSE arg[u]
        /\ \A k \in Tasks : result'[k] = IF k = arg[t] THEN "accepted"
                                         ELSE result[k]
        /\ \A u \in Threads :
               pc'[u] = "post_lock" => u # t /\ pc[u] = "post_lock"
    BY <1>1 DEF IInv, TypeOK, PostJoin, PostReturn
  <2>2. \A u \in Threads : u # t => arg[u] # arg[t]
    BY <1>1 DEF IInv, FreshInv
  <2>3. /\ \A u \in Threads : arg'[u] # None => result'[arg'[u]] = "posting"
        /\ \A u, v \in Threads : arg'[u] # None /\ arg'[u] = arg'[v] => u = v
    BY <2>1, <2>2 DEF IInv, FreshInv, TypeOK
  <2>4. ASSUME NEW k \in Tasks, Placed(k)'
        PROVE  /\ result'[k] # "new"
               /\ \A u \in Threads : pc'[u] = "post_lock" => arg'[u] # k
    BY <1>1, <2>1, <2>2, <2>4 DEF IInv, FreshInv
  <2>5. QED
    BY <2>3, <2>4 DEF FreshInv
<1>6. StopInv'
  BY DEF IInv, StopInv, TypeOK, PostJoin
<1>7. QED
  BY <1>2, <1>3, <1>4, <1>5, <1>6 DEF IInv

LEMMA PostFirstKeeps ==
    ASSUME IInv, NEW t \in Threads, PostFirst(t)
    PROVE  IInv'
<1>1. /\ arg[t] \in Tasks /\ arg[t] # None
      /\ q' \in Seq(Tasks)
      /\ \A k \in Tasks : Placed(k)' => Placed(k) \/ k = arg[t]
  BY PushAppends
<1>2. TypeOK'
  BY <1>1, StrandAssumption DEF IInv, TypeOK, PostFirst, exVars
<1>3. t \in Clients
  <2>1. ASSUME t \in Workers PROVE FALSE
    <3>1. exSlot[t] # None
      BY <2>1 DEF IInv, PlaceInv, PostFirst
    <3>2. QED
      BY <2>1, <3>1 DEF IInv, TokenInv, Draining, PostFirst
  <2>2. QED
    BY <2>1 DEF Threads
<1>4. PlaceInv'
  BY <1>3, StrandAssumption
  DEF IInv, TypeOK, PlaceInv, PostFirst, exVars, Threads
<1>5. TokenInv'
  BY DEF IInv, TypeOK, TokenInv, PostFirst, exVars, Draining, Scheduling
<1>6. FreshInv'
  <2>1. /\ arg' = arg /\ result' = result /\ result[arg[t]] = "posting"
        /\ \A u \in Threads :
               pc'[u] = "post_lock" => u # t /\ pc[u] = "post_lock"
    BY <1>1 DEF IInv, TypeOK, FreshInv, PostFirst
  <2>2. \A u \in Threads : u # t => arg[u] # arg[t]
    BY <1>1 DEF IInv, FreshInv
  <2>3. ASSUME NEW k \in Tasks, Placed(k)'
        PROVE  /\ result'[k] # "new"
               /\ \A u \in Threads : pc'[u] = "post_lock" => arg'[u] # k
    BY <1>1, <2>1, <2>2, <2>3 DEF IInv, FreshInv
  <2>4. QED
    BY <2>1, <2>3 DEF IInv, FreshInv
<1>7. StopInv'
  BY DEF IInv, StopInv, TypeOK, PostFirst
<1>8. QED
  BY <1>2, <1>4, <1>5, <1>6, <1>7 DEF IInv

LEMMA ScheduleAcceptedKeeps ==
    ASSUME IInv, NEW t \in Threads, ScheduleAccepted(t)
    PROVE  IInv'
<1>1. arg[t] \in Tasks /\ arg[t] # None /\ pc[t] = "schedule"
  BY StrandAssumption DEF IInv, TypeOK, ScheduleAccepted
<1>2. /\ exQueue' = Append(exQueue, arg[t])
      /\ exSlot' = exSlot /\ exDone' = exDone
  BY DEF ScheduleAccepted, Ex!Submit
<1>3. exQueue = <<>>
  BY <1>1 DEF IInv, TokenInv, Scheduling
<1>4. exQueue' \in Seq(Tasks) /\ Len(exQueue') = 1 /\ exQueue' # <<>>
  BY <1>1, <1>2, <1>3 DEF IInv, TypeOK
<1>5. TypeOK'
  BY <1>1, <1>2, <1>4, StrandAssumption
  DEF IInv, TypeOK, ScheduleAccepted, PostReturn
<1>6. PlaceInv'
  BY <1>2, StrandAssumption
  DEF IInv, TypeOK, PlaceInv, ScheduleAccepted, PostReturn, Threads
<1>7. TokenInv'
  <2>1. scheduled'
    BY <1>1 DEF IInv, TypeOK, TokenInv, Scheduling, ScheduleAccepted
  <2>2. Scheduling' = {}
    BY <1>1 DEF IInv, TypeOK, TokenInv, Scheduling, ScheduleAccepted, PostReturn
  <2>3. Draining' = {}
    BY <1>1, <1>2 DEF IInv, TokenInv, Scheduling, Draining
  <2>4. QED
    BY <1>4, <2>1, <2>2, <2>3 DEF TokenInv
<1>8. FreshInv'
  BY <1>1 DEF IInv, TypeOK, FreshInv, Placed, ScheduleAccepted, PostReturn
<1>9. StopInv'
  BY DEF IInv, StopInv, ScheduleAccepted
<1>10. QED
  BY <1>5, <1>6, <1>7, <1>8, <1>9 DEF IInv

LEMMA ScheduleRejectedKeeps ==
    ASSUME IInv, NEW t \in Threads, ScheduleRejected(t)
    PROVE  IInv'
<1>1. arg[t] \in Tasks /\ arg[t] # None
  BY StrandAssumption DEF IInv, TypeOK, ScheduleRejected
<1>2. TypeOK'
  BY <1>1, StrandAssumption
  DEF IInv, TypeOK, ScheduleRejected, PostReturn, exVars
<1>3. PlaceInv'
  BY StrandAssumption
  DEF IInv, TypeOK, PlaceInv, ScheduleRejected, PostReturn, exVars, Threads
<1>4. TokenInv'
  BY DEF IInv, TypeOK, TokenInv, ScheduleRejected, PostReturn, exVars,
         Draining, Scheduling
<1>5. FreshInv'
  BY <1>1
  DEF IInv, TypeOK, FreshInv, Placed, ScheduleRejected, PostReturn, exVars
<1>6. StopInv'
  BY DEF IInv, StopInv, ScheduleRejected
<1>7. QED
  BY <1>2, <1>3, <1>4, <1>5, <1>6 DEF IInv

LEMMA DrainBeginKeeps ==
    ASSUME IInv, NEW w \in Workers, DrainBegin(w)
    PROVE  IInv'
<1>1. /\ exQueue # <<>> /\ pc[w] = "idle" /\ exSlot[w] = None
      /\ exSlot' = [exSlot EXCEPT ![w] = Head(exQueue)]
      /\ exQueue' = Tail(exQueue)
      /\ exDone' = exDone
  BY DEF DrainBegin, Ex!Begin
<1>2. /\ Head(exQueue) \in Tasks /\ Head(exQueue) # None
      /\ exQueue' \in Seq(Tasks)
      /\ exQueue' = <<>>
  BY <1>1, StrandAssumption DEF IInv, TypeOK, TokenInv
<1>3. w \in Threads
  BY DEF Threads
<1>4. TypeOK'
  BY <1>1, <1>2, <1>3 DEF IInv, TypeOK, DrainBegin
<1>5. PlaceInv'
  BY <1>1, <1>2, StrandAssumption
  DEF IInv, TypeOK, PlaceInv, DrainBegin, Threads
<1>6. TokenInv'
  <2>1. Scheduling' = {} /\ scheduled'
    BY <1>1 DEF IInv, TypeOK, TokenInv, Scheduling, DrainBegin
  <2>2. \A v \in Draining' : v = w
    BY <1>1, <1>2 DEF IInv, TypeOK, TokenInv, Draining
  <2>3. Len(exQueue') = 0
    BY <1>2
  <2>4. QED
    BY <1>2, <2>1, <2>2, <2>3 DEF TokenInv
<1>7. FreshInv'
  BY <1>3 DEF IInv, TypeOK, FreshInv, Placed, DrainBegin
<1>8. StopInv'
  BY DEF IInv, StopInv, DrainBegin
<1>9. QED
  BY <1>4, <1>5, <1>6, <1>7, <1>8 DEF IInv

LEMMA DrainPopKeeps ==
    ASSUME IInv, NEW w \in Workers, DrainPop(w)
    PROVE  IInv'
<1>1. /\ q # <<>> /\ pc[w] = "drain"
      /\ cur' = [cur EXCEPT ![w] = Head(q)]
      /\ q' = Tail(q)
      /\ pc' = [pc EXCEPT ![w] = "run"]
      /\ UNCHANGED <<scheduled, stopped, stopper, arg, result, finished,
                     dropped, exQueue, exSlot, exDone>>
  BY DEF DrainPop, exVars
<1>2. /\ Head(q) = q[1] /\ q[1] \in Tasks /\ q[1] # None
      /\ Len(q) \in Nat /\ Len(q) > 0
      /\ q' \in Seq(Tasks) /\ Len(q') = Len(q) - 1
      /\ \A i \in 1..Len(q') : q'[i] = q[i + 1]
  BY <1>1, StrandAssumption DEF IInv, TypeOK
<1>3. w \in Threads /\ exSlot[w] # None
  BY <1>1 DEF Threads, IInv, PlaceInv
<1>4. TypeOK'
  BY <1>1, <1>2, <1>3 DEF IInv, TypeOK
<1>5. PlaceInv'
  BY <1>1, <1>2, <1>3, StrandAssumption DEF IInv, TypeOK, PlaceInv, Threads
<1>6. TokenInv'
  BY <1>1 DEF IInv, TypeOK, TokenInv, Draining, Scheduling
<1>7. FreshInv'
  <2>1. \A k \in Tasks : Placed(k)' => Placed(k)
    BY <1>1, <1>2 DEF IInv, TypeOK, Placed
  <2>2. QED
    BY <1>1, <1>3, <2>1 DEF IInv, TypeOK, FreshInv
<1>8. StopInv'
  BY <1>1 DEF IInv, StopInv
<1>9. QED
  BY <1>4, <1>5, <1>6, <1>7, <1>8 DEF IInv

LEMMA TaskReturnsKeeps ==
    ASSUME IInv, NEW w \in Workers, TaskReturns(w)
    PROVE  IInv'
<1>1. w \in Threads /\ cur[w] \in Tasks /\ exSlot[w] # None
  BY DEF Threads, IInv, TypeOK, PlaceInv, TaskReturns
<1>2. TypeOK'
  BY <1>1 DEF IInv, TypeOK, TaskReturns, exVars
<1>3. PlaceInv'
  BY <1>1, StrandAssumption
  DEF IInv, TypeOK, PlaceInv, TaskReturns, exVars, Threads
<1>4. TokenInv'
  BY DEF IInv, TypeOK, TokenInv, TaskReturns, exVars, Draining, Scheduling
<1>5. FreshInv'
  <2>1. \A k \in Tasks : Placed(k)' => Placed(k)
    BY <1>1, StrandAssumption DEF IInv, TypeOK, Placed, TaskReturns
  <2>2. QED
    BY <1>1, <2>1 DEF IInv, TypeOK, FreshInv, TaskReturns
<1>6. StopInv'
  BY DEF IInv, StopInv, TaskReturns
<1>7. QED
  BY <1>2, <1>3, <1>4, <1>5, <1>6 DEF IInv

LEMMA DrainReturnsKeeps ==
    ASSUME IInv, NEW w \in Workers, DrainReturns(w)
    PROVE  IInv'
<1>1. /\ q = <<>> /\ pc[w] = "drain" /\ scheduled' = FALSE
      /\ exSlot[w] # None
      /\ exDone' = exDone \cup {exSlot[w]}
      /\ exSlot' = [exSlot EXCEPT ![w] = None]
      /\ exQueue' = exQueue
      /\ pc' = [pc EXCEPT ![w] = "idle"]
      /\ UNCHANGED <<q, stopped, stopper, arg, cur, result, finished, dropped>>
  BY DEF DrainReturns, Ex!End
<1>2. w \in Threads /\ w \in Draining /\ exSlot[w] \in Tasks /\ cur[w] = None
  BY <1>1 DEF Threads, Draining, IInv, TypeOK, PlaceInv
<1>3. TypeOK'
  BY <1>1, <1>2 DEF IInv, TypeOK
<1>4. PlaceInv'
  BY <1>1, <1>2, StrandAssumption DEF IInv, TypeOK, PlaceInv, Threads
<1>5. TokenInv'
  <2>1. exQueue = <<>> /\ Scheduling = {} /\ \A v \in Draining : v = w
    BY <1>2 DEF IInv, TokenInv
  <2>2. Draining' = {}
    BY <1>1, <2>1 DEF IInv, TypeOK, Draining
  <2>3. Scheduling' = {}
    BY <1>1, <2>1 DEF IInv, TypeOK, Scheduling
  <2>4. QED
    BY <1>1, <2>1, <2>2, <2>3 DEF TokenInv
<1>6. FreshInv'
  BY <1>1, <1>2 DEF IInv, TypeOK, FreshInv, Placed
<1>7. StopInv'
  BY <1>1 DEF IInv, StopInv
<1>8. QED
  BY <1>3, <1>4, <1>5, <1>6, <1>7 DEF IInv

LEMMA StopKeeps ==
    ASSUME IInv, StopFlag \/ StopClear
    PROVE  IInv'
<1>1. CASE StopFlag
  <2>1. TypeOK' /\ PlaceInv' /\ StopInv'
    BY <1>1 DEF IInv, TypeOK, PlaceInv, StopInv, StopFlag, exVars
  <2>2. TokenInv' /\ FreshInv'
    BY <1>1 DEF IInv, TokenInv, FreshInv, Placed, Draining, Scheduling,
                StopFlag, exVars
  <2>3. QED
    BY <2>1, <2>2 DEF IInv
<1>2. CASE StopClear
  <2>1. q' = <<>> /\ dropped' = dropped \cup {q[i] : i \in 1..Len(q)}
    BY <1>2 DEF StopClear, Ex!InSeq, IInv, TypeOK
  <2>2. dropped' \subseteq Tasks
    BY <2>1 DEF IInv, TypeOK
  <2>3. TypeOK' /\ PlaceInv' /\ StopInv'
    BY <1>2, <2>1, <2>2
    DEF IInv, TypeOK, PlaceInv, StopInv, StopClear, exVars
  <2>4. \A k \in Tasks : Placed(k)' => Placed(k)
    BY <1>2, <2>1 DEF Placed, StopClear
  <2>5. TokenInv' /\ FreshInv'
    BY <1>2, <2>4
    DEF IInv, TokenInv, FreshInv, Draining, Scheduling, StopClear, exVars
  <2>6. QED
    BY <2>3, <2>5 DEF IInv
<1>3. QED
  BY <1>1, <1>2

-----------------------------------------------------------------------------
(* The theorems. *)

(* The invariant holds for any number of workers, clients and tasks.        *)
THEOREM Invariance == Spec => []IInv
<1>1. IInv /\ [Next]_vars => IInv'
  <2> SUFFICES ASSUME IInv, [Next]_vars PROVE IInv'
    OBVIOUS
  <2>1. ASSUME NEW t \in Threads, PostSteps(t) PROVE IInv'
    BY <2>1, PostRejectKeeps, PostJoinKeeps, PostFirstKeeps,
       ScheduleAcceptedKeeps, ScheduleRejectedKeeps DEF PostSteps
  <2>2. ASSUME NEW t \in Threads, NEW k \in Tasks, PostCheck(t, k) PROVE IInv'
    BY <2>2, PostCheckKeeps
  <2>3. ASSUME NEW w \in Workers, DrainSteps(w) PROVE IInv'
    BY <2>3, DrainBeginKeeps, DrainPopKeeps, TaskReturnsKeeps,
       DrainReturnsKeeps DEF DrainSteps
  <2>4. CASE StopFlag \/ StopClear
    BY <2>4, StopKeeps
  <2>5. CASE UNCHANGED vars
    BY <2>5 DEF vars, strandVars, exVars, IInv, TypeOK, PlaceInv, TokenInv,
                FreshInv, Placed, StopInv, Draining, Scheduling
  <2>6. QED
    BY <2>1, <2>2, <2>3, <2>4, <2>5 DEF Next
<1>2. QED
  BY <1>1, InitIInv, PTL DEF Spec

(* Types. *)
THEOREM TypeCorrect == Spec => []TypeOK
<1>1. IInv => TypeOK
  BY DEF IInv
<1>2. QED
  BY <1>1, Invariance, PTL

(* At most one drain() is on its way or running, however many threads post. *)
THEOREM OneDrainTheorem == Spec => []OneDrain
<1>1. IInv => OneDrain
  <2> SUFFICES ASSUME IInv PROVE OneDrain
    OBVIOUS
  <2>1. ASSUME NEW S, \A x, y \in S : x = y
        PROVE  Cardinality(S) = IF S = {} THEN 0 ELSE 1
    <3>1. CASE S = {}
      BY <3>1, FS_EmptySet
    <3>2. CASE S # {}
      <4>1. PICK x : S = {x}
        BY <2>1, <3>2
      <4>2. QED
        BY <3>2, <4>1, FS_Singleton
    <3>3. QED
      BY <3>1, <3>2
  <2>2. Cardinality(Draining) = IF Draining = {} THEN 0 ELSE 1
    BY <2>1 DEF IInv, TokenInv
  <2>3. Cardinality(Scheduling) = IF Scheduling = {} THEN 0 ELSE 1
    BY <2>1 DEF IInv, TokenInv
  <2>4. Len(exQueue) \in Nat /\ (exQueue = <<>> => Len(exQueue) = 0)
    BY DEF IInv, TypeOK
  <2>5. Len(exQueue) <= 1
    BY DEF IInv, TokenInv
  <2>6. CASE exQueue # <<>>
    <3>1. Cardinality(Draining) = 0 /\ Cardinality(Scheduling) = 0
      BY <2>2, <2>3, <2>6 DEF IInv, TokenInv
    <3>2. QED
      BY <3>1, <2>4, <2>5 DEF OneDrain
  <2>7. CASE exQueue = <<>> /\ Scheduling # {}
    <3>1. Cardinality(Draining) = 0 /\ Cardinality(Scheduling) = 1
      BY <2>2, <2>3, <2>7 DEF IInv, TokenInv
    <3>2. QED
      BY <3>1, <2>4, <2>7 DEF OneDrain
  <2>8. CASE exQueue = <<>> /\ Scheduling = {}
    <3>1. Cardinality(Draining) \in {0, 1} /\ Cardinality(Scheduling) = 0
      BY <2>2, <2>3, <2>8
    <3>2. QED
      BY <3>1, <2>4, <2>8 DEF OneDrain
  <2>9. QED
    BY <2>6, <2>7, <2>8
<1>2. QED
  BY <1>1, Invariance, PTL

(* Once stop() has returned, the strand's queue stays empty.                *)
THEOREM StopIsFinalTheorem == Spec => []StopIsFinal
<1>1. IInv => StopIsFinal
  BY DEF IInv, StopInv, StopIsFinal
<1>2. QED
  BY <1>1, Invariance, PTL

(* A task that posts to its own strand does not reach the executor.         *)
THEOREM NestedNeverSchedulesTheorem == Spec => []NestedNeverSchedules
<1>1. IInv => NestedNeverSchedules
  BY DEF IInv, PlaceInv, NestedNeverSchedules
<1>2. QED
  BY <1>1, Invariance, PTL

-----------------------------------------------------------------------------
(* The strand implements a TaskService with one slot. *)

(* When one worker at most carries a task, the slot holds that task.        *)
LEMMA CarriedIs ==
    ASSUME NEW c, \A v, w \in Workers : c[v] # None /\ c[w] # None => v = w
    PROVE  /\ \A w \in Workers : c[w] # None => Carried(c) = c[w]
           /\ (\A w \in Workers : c[w] = None) => Carried(c) = None
<1>1. ASSUME NEW w \in Workers, c[w] # None PROVE Carried(c) = c[w]
  <2> DEFINE v == CHOOSE u \in Workers : c[u] # None
  <2>1. v \in Workers /\ c[v] # None
    BY <1>1
  <2>2. v = w
    BY <1>1, <2>1
  <2>3. QED
    BY <1>1, <2>2 DEF Carried
<1>2. QED
  BY <1>1 DEF Carried

(* The worker that carries a task is the one that drains.                   *)
LEMMA OneCarries ==
    ASSUME IInv
    PROVE  \A v, w \in Workers : exSlot[v] # None /\ exSlot[w] # None => v = w
BY DEF IInv, TokenInv, Draining

LEMMA PushSubmits ==
    ASSUME IInv, NEW t \in Threads, PostJoin(t) \/ PostFirst(t)
    PROVE  Serial!Next
<1>1. /\ arg[t] \in Tasks /\ arg[t] # None
      /\ q' = Append(q, arg[t])
      /\ ~Placed(arg[t])
  BY PushAppends
<1>2. UNCHANGED <<cur, finished, dropped>>
  BY DEF PostJoin, PostFirst
<1>3. arg[t] \notin Serial!InSeq(q)
  <2>1. DOMAIN q = 1..Len(q)
    BY DEF IInv, TypeOK
  <2>2. QED
    BY <1>1, <2>1 DEF Placed, Serial!InSeq
<1>4. Running # arg[t]
  <2>1. CASE \A w \in Workers : cur[w] = None
    BY <1>1, <2>1 DEF Running, Carried
  <2>2. CASE \E w \in Workers : cur[w] # None
    <3>1. \E w \in Workers : Running = cur[w]
      BY <2>2 DEF Running, Carried
    <3>2. QED
      BY <1>1, <3>1 DEF Placed
  <2>3. QED
    BY <2>1, <2>2
<1>5. UNCHANGED Running
  BY <1>2 DEF Running, Carried
<1>6. Serial!Submit(arg[t])
  BY <1>1, <1>2, <1>3, <1>4, <1>5
  DEF Serial!Submit, Serial!Known, Placed
<1>7. QED
  BY <1>1, <1>6 DEF Serial!Next

LEMMA PopBegins ==
    ASSUME IInv, NEW w \in Workers, DrainPop(w)
    PROVE  Serial!Next
<1>1. /\ q # <<>> /\ q' = Tail(q)
      /\ cur' = [cur EXCEPT ![w] = Head(q)]
      /\ UNCHANGED <<finished, dropped>>
      /\ exSlot[w] # None /\ cur[w] = None
  BY DEF DrainPop, IInv, PlaceInv
<1>2. Head(q) # None
  BY <1>1, StrandAssumption DEF IInv, TypeOK
<1>3. \A v \in Workers : v # w => cur[v] = None /\ exSlot[v] = None
  BY <1>1, OneCarries DEF IInv, TypeOK
<1>4. \A v \in Workers : cur[v] = None
  BY <1>1, <1>3
<1>5. \A v \in Workers : cur'[v] = IF v = w THEN Head(q) ELSE None
  BY <1>1, <1>4 DEF IInv, TypeOK
<1>6. Running = None
  BY <1>4 DEF Running, Carried
<1>7. Running' = Head(q)
  <2>1. \A u, v \in Workers : cur'[u] # None /\ cur'[v] # None => u = v
    BY <1>5
  <2>2. Carried(cur') = cur'[w]
    BY <1>2, <1>5, <2>1, CarriedIs
  <2>3. QED
    BY <1>5, <2>2 DEF Running
<1>8. Serial!Begin("strand")
  BY <1>1, <1>6, <1>7 DEF Serial!Begin
<1>9. QED
  BY <1>8 DEF Serial!Next

LEMMA ReturnEnds ==
    ASSUME IInv, NEW w \in Workers, TaskReturns(w)
    PROVE  Serial!Next
<1>1. /\ finished' = finished \cup {cur[w]}
      /\ cur' = [cur EXCEPT ![w] = None]
      /\ UNCHANGED <<q, dropped>>
      /\ cur[w] # None /\ exSlot[w] # None
  BY DEF TaskReturns, IInv, PlaceInv
<1>2. \A v \in Workers : v # w => cur[v] = None
  BY <1>1, OneCarries DEF IInv, TypeOK
<1>3. \A v \in Workers : cur'[v] = None
  BY <1>1, <1>2 DEF IInv, TypeOK
<1>4. Running = cur[w]
  BY <1>1, <1>2, CarriedIs DEF Running
<1>5. Running' = None
  BY <1>3 DEF Running, Carried
<1>6. Serial!End("strand")
  BY <1>1, <1>4, <1>5 DEF Serial!End
<1>7. QED
  BY <1>6 DEF Serial!Next

(* One task at a time, in FIFO order, each at most once, on any number of   *)
(* executor threads and under any interleaving of posts, drains and stop(). *)
THEOREM SerialRefinement == Spec => ImplementsSerial
<1>1. Init => Serial!Init
  BY DEF Init, Serial!Init, Running, Carried
<1>2. IInv /\ [Next]_vars => [Serial!Next]_(Serial!tsVars)
  <2> SUFFICES ASSUME IInv, [Next]_vars,
                      ~UNCHANGED <<q, cur, finished, dropped>>
               PROVE  Serial!Next
    BY DEF Serial!tsVars, Running, Carried
  <2>1. \A t \in Threads, k \in Tasks : ~PostCheck(t, k)
    BY DEF PostCheck
  <2>2. ~StopFlag
    BY DEF StopFlag
  <2>3. CASE StopClear
    <3>1. Serial!Discard
      BY <2>3 DEF StopClear, Serial!Discard, Serial!InSeq, Ex!InSeq, Running,
                  Carried
    <3>2. QED
      BY <3>1 DEF Serial!Next
  <2>4. ASSUME NEW t \in Threads, PostSteps(t) PROVE Serial!Next
    <3>1. PostJoin(t) \/ PostFirst(t)
      BY <2>4 DEF PostSteps, PostReject, ScheduleAccepted, ScheduleRejected
    <3>2. QED
      BY <3>1, PushSubmits
  <2>5. ASSUME NEW w \in Workers, DrainSteps(w) PROVE Serial!Next
    <3>1. DrainPop(w) \/ TaskReturns(w)
      BY <2>5 DEF DrainSteps, DrainBegin, DrainReturns
    <3>2. QED
      BY <3>1, PopBegins, ReturnEnds
  <2>6. QED
    BY <2>1, <2>2, <2>3, <2>4, <2>5 DEF Next, vars, strandVars
<1>3. QED
  BY <1>1, <1>2, Invariance, PTL DEF Spec, ImplementsSerial, Serial!Spec

-----------------------------------------------------------------------------
(* EventDispatcher.                                                        *)

Elems(s) == {s[i] : i \in DOMAIN s}
Ids(s) == {s[i].id : i \in DOMAIN s}
NoRepeat(s) == \A i, j \in DOMAIN s : s[i].id = s[j].id => i = j

Holds(t, e) == ev[t] # Null /\ ev[t].id = e
Known(e) == \E f \in fate : f.id = e

(* Where each thread can be; a worker that has left its pool left it empty. *)
ThreadInv ==
    /\ \A p \in Producers : at[p] \in {"idle", "push"}
    /\ at[Loop] \in {"off", "check", "pop", "submit", "push"}
    /\ \A w \in Runners : at[w] \in {"off", "take", "handler", "push"}
    /\ ctl \in {"idle", "join_pool"} /\ ~running => at[Loop] = "off"
    /\ \A w \in Runners :
           /\ pool[PoolOf[w]] = "stopped" => at[w] = "off"
           /\ at[w] = "off" => /\ pool[PoolOf[w]] # "running"
                               /\ tasks[PoolOf[w]] = <<>>

(* An event is nowhere twice ...                                            *)
ApartInv ==
    /\ NoRepeat(queue)
    /\ \A l \in Lanes : NoRepeat(tasks[l])
    /\ \A f, g \in fate : f.id = g.id => f = g
    /\ \A e \in Events :
           /\ \A l, m \in Lanes :
                  e \in Ids(tasks[l]) /\ e \in Ids(tasks[m]) => l = m
           /\ \A t, u \in Parties : Holds(t, e) /\ Holds(u, e) => t = u
           /\ e \in Ids(queue) => /\ \A l \in Lanes : e \notin Ids(tasks[l])
                                  /\ \A t \in Parties : ~Holds(t, e)
                                  /\ ~Known(e)
           /\ \A l \in Lanes : e \in Ids(tasks[l]) =>
                  ~Known(e) /\ \A t \in Parties : ~Holds(t, e)
           /\ \A t \in Parties : Holds(t, e) => ~Known(e)

(* ... and somewhere if, and only if, it was pushed.                        *)
SomewhereInv ==
    \A e \in Events :
        e \in pushed <=> \/ e \in Ids(queue)
                         \/ \E l \in Lanes : e \in Ids(tasks[l])
                         \/ \E t \in Parties : Holds(t, e)
                         \/ Known(e)

(* How the calls made for an event relate to its attempts: a moved-from     *)
(* event has spent attempts without a call.                                *)
Sound(x) == /\ x.attempt <= MaxRetries
            /\ calls[x.id] <= x.attempt
            /\ x.full => calls[x.id] = x.attempt

Called(x) == /\ x.attempt <= MaxRetries
             /\ calls[x.id] <= x.attempt + 1
             /\ x.full => calls[x.id] = x.attempt + 1

RetryInv ==
    /\ \A x \in Elems(queue) : Sound(x)
    /\ \A l \in Lanes : \A x \in Elems(tasks[l]) : Sound(x)
    /\ \A t \in Parties : /\ at[t] \in {"push", "submit"} => Sound(ev[t])
                          /\ at[t] = "handler" => Called(ev[t])
    /\ \A f \in fate : /\ calls[f.id] <= MaxRetries + 1
                       /\ f.how = "dead" /\ f.full =>
                              calls[f.id] = MaxRetries + 1
    /\ \A e \in Events \ pushed : calls[e] = 0

(* The router knows every event that was pushed.                            *)
RouterInv == pushed \subseteq DOMAIN opts.router

EInv == Typing /\ ThreadInv /\ ApartInv /\ SomewhereInv /\ RetryInv

-----------------------------------------------------------------------------
(* What a queue has after it is appended to, or loses its head.             *)

LEMMA Appended ==
    ASSUME NEW s \in Seq(EventType), NEW x \in EventType
    PROVE  /\ Append(s, x) \in Seq(EventType)
           /\ Len(Append(s, x)) = Len(s) + 1
           /\ Elems(Append(s, x)) = Elems(s) \cup {x}
           /\ Ids(Append(s, x)) = Ids(s) \cup {x.id}
           /\ NoRepeat(s) /\ x.id \notin Ids(s) => NoRepeat(Append(s, x))
<1> DEFINE r == Append(s, x)
<1>1. /\ r \in Seq(EventType) /\ Len(r) = Len(s) + 1 /\ Len(s) \in Nat
      /\ DOMAIN s = 1..Len(s) /\ DOMAIN r = 1..(Len(s) + 1)
      /\ \A i \in 1..Len(s) : r[i] = s[i]
      /\ r[Len(s) + 1] = x
  OBVIOUS
<1> HIDE DEF r
<1>2. \A i \in DOMAIN r : i = Len(s) + 1 \/ (i \in DOMAIN s /\ r[i] = s[i])
  BY <1>1
<1>3. Elems(r) = Elems(s) \cup {x}
  BY <1>1, <1>2 DEF Elems
<1>4. Ids(r) = Ids(s) \cup {x.id}
  BY <1>1, <1>2 DEF Ids
<1>5. NoRepeat(s) /\ x.id \notin Ids(s) => NoRepeat(r)
  BY <1>1, <1>2 DEF NoRepeat, Ids
<1> QED  BY <1>1, <1>3, <1>4, <1>5 DEF r

LEMMA Beheaded ==
    ASSUME NEW s \in Seq(EventType), s # <<>>
    PROVE  /\ Head(s) \in EventType /\ Tail(s) \in Seq(EventType)
           /\ Len(s) \in Nat \ {0} /\ Len(Tail(s)) = Len(s) - 1
           /\ Head(s) \in Elems(s) /\ Head(s).id \in Ids(s)
           /\ Elems(Tail(s)) \subseteq Elems(s)
           /\ NoRepeat(s) => /\ Ids(Tail(s)) = Ids(s) \ {Head(s).id}
                             /\ NoRepeat(Tail(s))
<1> DEFINE r == Tail(s)
<1>1. /\ Head(s) \in EventType /\ r \in Seq(EventType)
      /\ Len(s) \in Nat \ {0} /\ Len(r) = Len(s) - 1
      /\ DOMAIN s = 1..Len(s) /\ DOMAIN r = 1..(Len(s) - 1)
      /\ Head(s) = s[1]
      /\ \A i \in 1..(Len(s) - 1) : r[i] = s[i + 1]
  OBVIOUS
<1> HIDE DEF r
<1>2. \A i \in DOMAIN r : i + 1 \in DOMAIN s /\ r[i] = s[i + 1]
  BY <1>1
<1>3. \A i \in DOMAIN s : i = 1 \/ \E j \in DOMAIN r : s[i] = r[j]
  <2> SUFFICES ASSUME NEW i \in DOMAIN s, i # 1
               PROVE  i - 1 \in DOMAIN r /\ s[i] = r[i - 1]
    OBVIOUS
  <2>1. i - 1 \in 1..(Len(s) - 1) /\ (i - 1) + 1 = i
    BY <1>1
  <2> QED  BY <1>1, <2>1
<1>4. Elems(r) \subseteq Elems(s) /\ Head(s) \in Elems(s)
  BY <1>1, <1>2 DEF Elems
<1>5. Ids(r) \subseteq Ids(s) /\ Ids(s) \subseteq Ids(r) \cup {Head(s).id}
      /\ Head(s).id \in Ids(s)
  <2>1. Ids(r) \subseteq Ids(s)
    BY <1>2 DEF Ids
  <2>2. 1 \in DOMAIN s
    BY <1>1
  <2>3. Head(s).id \in Ids(s)
    BY <1>1, <2>2 DEF Ids
  <2>4. Ids(s) \subseteq Ids(r) \cup {Head(s).id}
    BY <1>1, <1>3 DEF Ids
  <2> QED  BY <2>1, <2>3, <2>4
<1>6. ASSUME NoRepeat(s)
      PROVE  Head(s).id \notin Ids(r) /\ NoRepeat(r)
  <2>1. \A i \in DOMAIN r : i + 1 # 1 /\ i \in Int
    BY <1>1
  <2>2. 1 \in DOMAIN s
    BY <1>1
  <2>3. Head(s).id \notin Ids(r)
    BY <1>1, <1>2, <1>6, <2>1, <2>2 DEF NoRepeat, Ids
  <2>4. NoRepeat(r)
    BY <1>2, <1>6, <2>1 DEF NoRepeat
  <2> QED  BY <2>3, <2>4
<1> QED  BY <1>1, <1>4, <1>5, <1>6 DEF r

LEMMA ElemIds ==
    ASSUME NEW s, NEW x \in Elems(s)
    PROVE  x.id \in Ids(s)
BY DEF Elems, Ids

(* What the types say of a thread with an event in its hands.               *)
LEMMA InHand ==
    ASSUME Typing, NEW t \in Parties, at[t] \in {"push", "submit", "handler"}
    PROVE  /\ ev[t] \in EventType /\ ev[t] # Null
           /\ ev[t].id \in Events
           /\ \A e \in Events : Holds(t, e) <=> e = ev[t].id
BY DEF Typing, Holds, EventType

LEMMA RetriesType ==
    ASSUME Typing
    PROVE  MaxRetries \in Nat
BY DispatcherAssumption DEF Typing, MaxRetries, OptionsType

(* A thread that lets go of its event goes on as its kind does.             *)
LEMMA LetGoKeeps ==
    ASSUME Typing, ThreadInv, NEW t \in Parties,
           at[t] \in {"push", "submit", "handler"}, LetGo(t),
           UNCHANGED <<pool, running, ctl>>,
           \A l \in Lanes : pool[l] = "running" \/ tasks'[l] = tasks[l]
    PROVE  /\ ThreadInv'
           /\ at' \in [Parties -> {"off", "idle", "check", "pop", "take",
                                   "push", "submit", "handler"}]
           /\ ev' \in [Parties -> EventType \cup {Null}]
           /\ \A u \in Parties :
                  ev'[u] # Null <=> at'[u] \in {"push", "submit", "handler"}
           /\ \A u \in Parties, e \in Events :
                  Holds(u, e)' <=> u # t /\ Holds(u, e)
           /\ \A u \in Parties : u # t => ev'[u] = ev[u] /\ at'[u] = at[u]
           /\ at'[t] \in {"idle", "take", "check"}
<1> USE DispatcherAssumption DEF Parties
<1>1. /\ at' = [at EXCEPT ![t] = Onward(t)] /\ ev' = [ev EXCEPT ![t] = Null]
      /\ at \in [Parties -> {"off", "idle", "check", "pop", "take", "push",
                             "submit", "handler"}]
      /\ ev \in [Parties -> EventType \cup {Null}]
  BY DEF LetGo, Typing
<1>2. /\ t \in Producers => Onward(t) = "idle"
      /\ t \in Runners => Onward(t) = "take"
      /\ t = Loop => Onward(t) = "check"
  BY DEF Onward
<1>3. \A u \in Parties : at'[u] = IF u = t THEN Onward(t) ELSE at[u]
  BY <1>1
<1>4. ThreadInv'
  BY <1>1, <1>2, <1>3 DEF ThreadInv
<1>5. \A u \in Parties : ev'[u] = IF u = t THEN Null ELSE ev[u]
  BY <1>1
<1>6. \A u \in Parties, e \in Events : Holds(u, e)' <=> u # t /\ Holds(u, e)
  BY <1>5 DEF Holds
<1>7. at'[t] \in {"idle", "take", "check"}
  BY <1>2, <1>3
<1>8. \A u \in Parties :
          ev'[u] # Null <=> at'[u] \in {"push", "submit", "handler"}
  BY <1>3, <1>5, <1>7 DEF Typing
<1>9. at' \in [Parties -> {"off", "idle", "check", "pop", "take", "push",
                           "submit", "handler"}]
  BY <1>1, <1>3, <1>7
<1> QED  BY <1>1, <1>3, <1>4, <1>5, <1>6, <1>7, <1>8, <1>9

-----------------------------------------------------------------------------
(* A thread's event leaves its hands: into the queue, into a pool, or out.  *)

LEMMA EndsKeeps ==
    ASSUME EInv, NEW t \in Parties, at[t] \in {"push", "submit", "handler"},
           LetGo(t), UNCHANGED <<queue, tasks, calls, ownerVars, pushed>>,
           NEW f \in [id : Events, full : BOOLEAN,
                      how : {"handled", "dead", "dropped", "refused"}],
           f.id = ev[t].id, fate' = fate \cup {f},
           calls[f.id] <= MaxRetries + 1,
           f.how = "dead" /\ f.full => calls[f.id] = MaxRetries + 1
    PROVE  EInv'
<1> DEFINE x == ev[t].id
<1>1. /\ x \in Events /\ MaxRetries' = MaxRetries
      /\ \A e \in Events : Holds(t, e) <=> e = x
  BY InHand DEF EInv, MaxRetries, ownerVars
<1>2. /\ ThreadInv'
      /\ at' \in [Parties -> {"off", "idle", "check", "pop", "take", "push",
                              "submit", "handler"}]
      /\ ev' \in [Parties -> EventType \cup {Null}]
      /\ \A u \in Parties :
             ev'[u] # Null <=> at'[u] \in {"push", "submit", "handler"}
      /\ \A u \in Parties, e \in Events : Holds(u, e)' <=> u # t /\ Holds(u, e)
      /\ \A u \in Parties : u # t => ev'[u] = ev[u] /\ at'[u] = at[u]
      /\ at'[t] \in {"idle", "take", "check"}
  BY LetGoKeeps DEF EInv, ownerVars
<1>3. Typing'
  BY <1>2 DEF EInv, Typing, ownerVars
<1>4. \A e \in Events : Known(e)' <=> Known(e) \/ e = x
  BY DEF Known
<1> HIDE DEF x
<1>5. ApartInv'
  <2>1. \A g, h \in fate' : g.id = h.id => g = h
    BY <1>1 DEF EInv, ApartInv, Known, x
  <2> QED  BY <1>1, <1>2, <1>4, <2>1 DEF EInv, ApartInv
<1>6. SomewhereInv'
  BY <1>1, <1>2, <1>4 DEF EInv, SomewhereInv
<1>7. RetryInv'
  BY <1>1, <1>2 DEF EInv, RetryInv, Sound, Called
<1> QED  BY <1>2, <1>3, <1>5, <1>6, <1>7 DEF EInv

(* push() appends it to what is left of the queue.                          *)
LEMMA PushStoreKeeps ==
    ASSUME EInv, NEW t \in Parties, PushStore(t)
    PROVE  EInv'
<1> DEFINE x == ev[t].id
<1>1. /\ at[t] = "push" /\ ~Full /\ queue' = Append(queue, ev[t]) /\ LetGo(t)
      /\ UNCHANGED <<tasks, calls, fate, ownerVars, pushed>>
  BY DEF PushStore
<1>2. /\ x \in Events /\ ev[t] \in EventType /\ MaxRetries' = MaxRetries
      /\ \A e \in Events : Holds(t, e) <=> e = x
  BY <1>1, InHand DEF EInv, MaxRetries, ownerVars
<1>3. /\ ThreadInv'
      /\ at' \in [Parties -> {"off", "idle", "check", "pop", "take", "push",
                              "submit", "handler"}]
      /\ ev' \in [Parties -> EventType \cup {Null}]
      /\ \A u \in Parties :
             ev'[u] # Null <=> at'[u] \in {"push", "submit", "handler"}
      /\ \A u \in Parties, e \in Events : Holds(u, e)' <=> u # t /\ Holds(u, e)
      /\ \A u \in Parties : u # t => ev'[u] = ev[u] /\ at'[u] = at[u]
      /\ at'[t] \in {"idle", "take", "check"}
  BY <1>1, LetGoKeeps DEF EInv, ownerVars
<1>4. queue \in Seq(EventType) /\ x \notin Ids(queue) /\ NoRepeat(queue)
  BY <1>2 DEF EInv, Typing, ApartInv
<1>5. /\ queue' \in Seq(EventType) /\ Len(queue') = Len(queue) + 1
      /\ Elems(queue') = Elems(queue) \cup {ev[t]}
      /\ Ids(queue') = Ids(queue) \cup {x} /\ NoRepeat(queue')
  BY <1>1, <1>2, <1>4, Appended
<1>6. Typing'
  <2>1. opts.max_size \in Nat /\ Len(queue) \in Nat
    BY <1>4, DispatcherAssumption DEF EInv, Typing, OptionsType
  <2> QED  BY <1>1, <1>3, <1>5, <2>1 DEF EInv, Typing, Full, ownerVars
<1>7. Sound(ev[t])
  BY <1>1 DEF EInv, RetryInv
<1> HIDE DEF x
<1>8. ApartInv'
  BY <1>1, <1>2, <1>3, <1>5 DEF EInv, ApartInv, Known
<1>9. SomewhereInv'
  BY <1>1, <1>2, <1>3, <1>5 DEF EInv, SomewhereInv, Known
<1>10. RetryInv'
  BY <1>1, <1>2, <1>3, <1>5, <1>7 DEF EInv, RetryInv, Sound, Called
<1> QED  BY <1>3, <1>6, <1>8, <1>9, <1>10 DEF EInv

LEMMA PushDropOldestKeeps ==
    ASSUME EInv, NEW t \in Parties, PushDropOldest(t)
    PROVE  EInv'
<1> DEFINE x == ev[t].id
           d == Head(queue)
           r == Tail(queue)
<1>1. /\ at[t] = "push" /\ queue # <<>> /\ LetGo(t)
      /\ fate' = fate \cup {Fate(d, "dropped")}
      /\ queue' = Append(r, ev[t])
      /\ UNCHANGED <<tasks, calls, ownerVars, pushed>>
  BY DEF PushDropOldest
<1>2. /\ x \in Events /\ ev[t] \in EventType /\ MaxRetries' = MaxRetries
      /\ \A e \in Events : Holds(t, e) <=> e = x
  BY <1>1, InHand DEF EInv, MaxRetries, ownerVars
<1>3. /\ ThreadInv'
      /\ at' \in [Parties -> {"off", "idle", "check", "pop", "take", "push",
                              "submit", "handler"}]
      /\ ev' \in [Parties -> EventType \cup {Null}]
      /\ \A u \in Parties :
             ev'[u] # Null <=> at'[u] \in {"push", "submit", "handler"}
      /\ \A u \in Parties, e \in Events : Holds(u, e)' <=> u # t /\ Holds(u, e)
      /\ \A u \in Parties : u # t => ev'[u] = ev[u] /\ at'[u] = at[u]
      /\ at'[t] \in {"idle", "take", "check"}
  BY <1>1, LetGoKeeps DEF EInv, ownerVars
<1>4. queue \in Seq(EventType) /\ x \notin Ids(queue) /\ NoRepeat(queue)
  BY <1>2 DEF EInv, Typing, ApartInv
<1>5. /\ d \in EventType /\ d \in Elems(queue) /\ d.id \in Ids(queue)
      /\ r \in Seq(EventType) /\ Len(r) + 1 = Len(queue)
      /\ Elems(r) \subseteq Elems(queue)
      /\ Ids(r) = Ids(queue) \ {d.id} /\ NoRepeat(r)
  BY <1>1, <1>4, Beheaded
<1> HIDE DEF d, r
<1>6. /\ queue' \in Seq(EventType) /\ Len(queue') = Len(queue)
      /\ Elems(queue') \subseteq Elems(queue) \cup {ev[t]}
      /\ Ids(queue') = (Ids(queue) \ {d.id}) \cup {x} /\ NoRepeat(queue')
  BY <1>1, <1>2, <1>4, <1>5, Appended
<1>7. /\ Fate(d, "dropped") \in [id : Events, full : BOOLEAN,
             how : {"handled", "dead", "dropped", "refused"}]
      /\ Fate(d, "dropped").id = d.id /\ Fate(d, "dropped").how = "dropped"
      /\ d.id \in Events
  BY <1>5 DEF Fate, EventType
<1>8. Typing'
  BY <1>1, <1>3, <1>6, <1>7 DEF EInv, Typing, ownerVars
<1>9. Sound(ev[t]) /\ Sound(d) /\ d.attempt \in Nat /\ MaxRetries \in Nat
      /\ calls[d.id] \in Nat
  BY <1>1, <1>5, <1>7, RetriesType DEF EInv, RetryInv, EventType, Typing
<1>10. calls[d.id] <= MaxRetries + 1
  BY <1>9 DEF Sound
<1> DEFINE f == Fate(d, "dropped")
<1> HIDE DEF f, x
<1>11. \A e \in Events : Known(e)' <=> Known(e) \/ e = d.id
  BY <1>1, <1>7 DEF Known, f
<1>12. ApartInv'
  <2>1. ~Known(d.id) /\ \A u \in Parties : ~Holds(u, d.id)
    BY <1>5, <1>7 DEF EInv, ApartInv
  <2>2. \A g, h \in fate' : g.id = h.id => g = h
    BY <1>1, <1>7, <2>1 DEF EInv, ApartInv, Known, f
  <2>3. NoRepeat(queue') /\ \A l \in Lanes : NoRepeat(tasks'[l])
    BY <1>1, <1>6 DEF EInv, ApartInv
  <2> QED  BY <1>1, <1>2, <1>3, <1>5, <1>6, <1>7, <1>11, <2>1, <2>2, <2>3
           DEF EInv, ApartInv
<1>13. SomewhereInv'
  BY <1>1, <1>2, <1>3, <1>5, <1>6, <1>7, <1>11 DEF EInv, SomewhereInv
<1>14. RetryInv'
  <2>1. \A y : (Sound(y)' <=> Sound(y)) /\ (Called(y)' <=> Called(y))
    BY <1>1, <1>2 DEF Sound, Called
  <2>2. \A g \in fate' : g \notin fate => g.id = d.id /\ g.how = "dropped"
    <3> SUFFICES ASSUME NEW g \in fate', g \notin fate
                 PROVE  g.id = d.id /\ g.how = "dropped"
      OBVIOUS
    <3>1. g = Fate(d, "dropped")
      BY <1>1
    <3> QED  BY <1>7, <3>1
  <2>3. \A g \in fate' : /\ calls'[g.id] <= MaxRetries' + 1
                         /\ g.how = "dead" /\ g.full =>
                                calls'[g.id] = MaxRetries' + 1
    BY <1>1, <1>2, <1>10, <2>2 DEF EInv, RetryInv
  <2>4. \A y \in Elems(queue') : Sound(y)
    BY <1>5, <1>6, <1>9 DEF EInv, RetryInv
  <2> QED  BY <1>1, <1>3, <2>1, <2>3, <2>4 DEF EInv, RetryInv
<1> QED  BY <1>3, <1>8, <1>12, <1>13, <1>14 DEF EInv

LEMMA PushFailsKeeps ==
    ASSUME EInv, NEW t \in Parties, PushFails(t)
    PROVE  EInv'
<1>1. /\ at[t] = "push" /\ LetGo(t)
      /\ UNCHANGED <<queue, tasks, calls, ownerVars, pushed>>
  BY DEF PushFails
<1>2. PICK f : /\ f \in {Fate(ev[t], "refused"), Fate(MovedFrom(ev[t]), "dead")}
               /\ fate' = fate \cup {f}
  BY DEF PushFails
<1>3. ev[t] \in EventType /\ Sound(ev[t]) /\ MaxRetries \in Nat
  BY <1>1, InHand, RetriesType DEF EInv, RetryInv
<1>4. /\ f \in [id : Events, full : BOOLEAN,
                how : {"handled", "dead", "dropped", "refused"}]
      /\ f.id = ev[t].id /\ (f.how = "dead" => ~f.full)
  <2>1. CASE f = Fate(ev[t], "refused")
    BY <1>3, <2>1 DEF Fate, EventType
  <2>2. CASE f = Fate(MovedFrom(ev[t]), "dead")
    <3>1. MovedFrom(ev[t]).id = ev[t].id /\ MovedFrom(ev[t]).full = FALSE
      BY <1>3 DEF MovedFrom, EventType
    <3>2. ev[t].id \in Events
      BY <1>3 DEF EventType
    <3> QED  BY <2>2, <3>1, <3>2 DEF Fate
  <2> QED  BY <1>2, <2>1, <2>2
<1>5. calls[f.id] <= MaxRetries + 1
  <2>1. ev[t].attempt \in Nat /\ calls[f.id] \in Nat
    BY <1>3, <1>4 DEF EventType, EInv, Typing
  <2> QED  BY <1>3, <1>4, <2>1 DEF Sound
<1> QED  BY <1>1, <1>2, <1>4, <1>5, EndsKeeps

(* handleResult() of the event the thread took: one more attempt, or out.   *)
LEMMA HandleResultKeeps ==
    ASSUME EInv, NEW t \in Parties, t \notin Producers,
           at[t] \in {"submit", "handler"},
           NEW y \in EventType, y.id = ev[t].id, Called(y),
           NEW ok \in BOOLEAN, HandleResult(t, y, ok),
           UNCHANGED <<queue, tasks, calls, ownerVars, pushed>>
    PROVE  EInv'
<1> DEFINE x == ev[t].id
<1>1. /\ y.attempt \in Nat /\ MaxRetries \in Nat /\ calls[x] \in Nat
      /\ x \in Events /\ ev[t] # Null
      /\ \A e \in Events : Holds(t, e) <=> e = x
      /\ MaxRetries' = MaxRetries
  BY InHand, RetriesType DEF EInv, Typing, EventType, MaxRetries, ownerVars
<1>2. CASE ~ok /\ y.attempt < MaxRetries
  <2> DEFINE z == [y EXCEPT !.attempt = @ + 1]
  <2>1. /\ ev' = [ev EXCEPT ![t] = z] /\ at' = [at EXCEPT ![t] = "push"]
        /\ fate' = fate
    BY <1>2 DEF HandleResult
  <2>2. /\ z \in EventType /\ z.id = x /\ z.attempt = y.attempt + 1
        /\ z.full = y.full
    BY <1>1 DEF EventType
  <2>3. z # Null
    BY <2>2, NullAssumption
  <2> HIDE DEF z, x
  <2>4. /\ ev \in [Parties -> EventType \cup {Null}]
        /\ at \in [Parties -> {"off", "idle", "check", "pop", "take", "push",
                               "submit", "handler"}]
    BY DEF EInv, Typing
  <2>5. \A u \in Parties : /\ ev'[u] = IF u = t THEN z ELSE ev[u]
                           /\ at'[u] = IF u = t THEN "push" ELSE at[u]
    BY <2>1, <2>4
  <2>6. \A u \in Parties, e \in Events : Holds(u, e)' <=> Holds(u, e)
    <3>1. \A e \in Events : Holds(t, e)' <=> e = x
      BY <2>2, <2>3, <2>5 DEF Holds
    <3>2. \A u \in Parties, e \in Events :
              u # t => (Holds(u, e)' <=> Holds(u, e))
      BY <2>5 DEF Holds
    <3> QED  BY <1>1, <3>1, <3>2
  <2>7. Typing'
    <3>1. /\ ev' \in [Parties -> EventType \cup {Null}]
          /\ at' \in [Parties -> {"off", "idle", "check", "pop", "take", "push",
                                  "submit", "handler"}]
      BY <2>1, <2>2, <2>4
    <3>2. \A u \in Parties :
              ev'[u] # Null <=> at'[u] \in {"push", "submit", "handler"}
      BY <2>3, <2>5 DEF EInv, Typing
    <3> QED  BY <2>1, <3>1, <3>2 DEF EInv, Typing, ownerVars
  <2>8. ThreadInv'
    BY <2>5, DispatcherAssumption DEF EInv, ThreadInv, ownerVars, Parties
  <2>9. ApartInv' /\ SomewhereInv'
    BY <2>1, <2>6 DEF EInv, ApartInv, SomewhereInv, Known
  <2>10. Sound(z)
    BY <1>1, <1>2, <2>2 DEF Sound, Called, x
  <2>11. RetryInv'
    <3>1. \A w : (Sound(w)' <=> Sound(w)) /\ (Called(w)' <=> Called(w))
      BY <1>1 DEF Sound, Called
    <3>2. \A u \in Parties :
              /\ at'[u] \in {"push", "submit"} => Sound(ev'[u])
              /\ at'[u] = "handler" => Called(ev'[u])
      BY <2>5, <2>10 DEF EInv, RetryInv
    <3> QED  BY <1>1, <2>1, <3>1, <3>2 DEF EInv, RetryInv
  <2> QED  BY <2>7, <2>8, <2>9, <2>11 DEF EInv
<1>3. CASE ~(~ok /\ y.attempt < MaxRetries)
  <2> DEFINE f == Fate(y, IF ok THEN "handled" ELSE "dead")
  <2>1. LetGo(t) /\ fate' = fate \cup {f}
    BY <1>3 DEF HandleResult
  <2>2. /\ f \in [id : Events, full : BOOLEAN,
                  how : {"handled", "dead", "dropped", "refused"}]
        /\ f.id = x /\ f.full = y.full /\ (f.how = "dead" => ~ok)
    BY DEF Fate, EventType
  <2> HIDE DEF f
  <2>3. /\ calls[f.id] <= MaxRetries + 1
        /\ f.how = "dead" /\ f.full => calls[f.id] = MaxRetries + 1
    BY <1>1, <1>3, <2>2 DEF Called
  <2> QED  BY <2>1, <2>2, <2>3, EndsKeeps
<1> QED  BY <1>2, <1>3

LEMMA SubmitFailsKeeps ==
    ASSUME EInv, SubmitFails
    PROVE  EInv'
<1>1. /\ at[Loop] = "submit" /\ Loop \in Parties /\ Loop \notin Producers
      /\ HandleResult(Loop, MovedFrom(ev[Loop]), FALSE)
      /\ UNCHANGED <<queue, tasks, calls, ownerVars, pushed>>
  BY DispatcherAssumption DEF SubmitFails, Parties
<1>2. ev[Loop] \in EventType /\ Sound(ev[Loop])
  BY <1>1, InHand DEF EInv, RetryInv
<1> DEFINE y == MovedFrom(ev[Loop])
<1>3. /\ y \in EventType /\ y.id = ev[Loop].id /\ y.full = FALSE
      /\ y.attempt = ev[Loop].attempt
  BY <1>2 DEF MovedFrom, EventType
<1> HIDE DEF y
<1>4. Called(y)
  <2>1. y.attempt \in Nat /\ calls[y.id] \in Nat
    BY <1>3 DEF EventType, EInv, Typing
  <2> QED  BY <1>2, <1>3, <2>1 DEF Called, Sound
<1> QED  BY <1>1, <1>3, <1>4, HandleResultKeeps DEF y

LEMMA HandlerReturnsKeeps ==
    ASSUME EInv, NEW w \in Runners, NEW ok \in BOOLEAN, HandlerReturns(w, ok)
    PROVE  EInv'
<1>1. /\ at[w] = "handler" /\ w \in Parties /\ w \notin Producers
      /\ HandleResult(w, ev[w], ok)
      /\ UNCHANGED <<queue, tasks, calls, ownerVars, pushed>>
  BY DispatcherAssumption DEF HandlerReturns, Parties
<1>2. ev[w] \in EventType /\ Called(ev[w])
  BY <1>1, InHand DEF EInv, RetryInv
<1> QED  BY <1>1, <1>2, HandleResultKeeps

-----------------------------------------------------------------------------
(* An event comes into a thread's hands. *)

Takes(t, x, place) == /\ ev' = [ev EXCEPT ![t] = x]
                      /\ at' = [at EXCEPT ![t] = place]

(* What that means for who holds what, and for the types.                   *)
LEMMA TakesKeeps ==
    ASSUME Typing, NEW t \in Parties, ev[t] = Null, NEW x \in EventType,
           NEW place \in {"push", "submit", "handler"}, Takes(t, x, place)
    PROVE  /\ ev' \in [Parties -> EventType \cup {Null}]
           /\ at' \in [Parties -> {"off", "idle", "check", "pop", "take",
                                   "push", "submit", "handler"}]
           /\ \A u \in Parties :
                  ev'[u] # Null <=> at'[u] \in {"push", "submit", "handler"}
           /\ \A u \in Parties : /\ ev'[u] = IF u = t THEN x ELSE ev[u]
                                 /\ at'[u] = IF u = t THEN place ELSE at[u]
           /\ \A u \in Parties, e \in Events :
                  Holds(u, e)' <=> Holds(u, e) \/ (u = t /\ e = x.id)
<1>1. x # Null
  BY NullAssumption
<1>2. \A u \in Parties : /\ ev'[u] = IF u = t THEN x ELSE ev[u]
                         /\ at'[u] = IF u = t THEN place ELSE at[u]
  BY DEF Typing, Takes
<1>3. \A u \in Parties, e \in Events :
          Holds(u, e)' <=> Holds(u, e) \/ (u = t /\ e = x.id)
  BY <1>1, <1>2 DEF Holds
<1> QED  BY <1>1, <1>2, <1>3 DEF Typing, Takes

LEMMA PushKeeps ==
    ASSUME EInv, NEW p \in Producers, NEW e \in Events, Push(p, e)
    PROVE  EInv'
<1>1. /\ at[p] = "idle" /\ p \in Parties /\ e \notin pushed
      /\ pushed' = pushed \cup {e} /\ ev' = [ev EXCEPT ![p] = New(e)]
      /\ at' = [at EXCEPT ![p] = "push"]
      /\ UNCHANGED <<queue, tasks, calls, fate, ownerVars>>
  BY DEF Push, Parties
<1>2. PICK x \in EventType : x = New(e) /\ x.id = e /\ x.attempt = 0
  <2>1. New(e) \in EventType /\ New(e).id = e /\ New(e).attempt = 0
    BY DEF New, EventType
  <2> QED  BY <2>1
<1>3. ev[p] = Null
  BY <1>1 DEF EInv, Typing
<1>4. /\ ev' \in [Parties -> EventType \cup {Null}]
      /\ at' \in [Parties -> {"off", "idle", "check", "pop", "take", "push",
                              "submit", "handler"}]
      /\ \A u \in Parties :
             ev'[u] # Null <=> at'[u] \in {"push", "submit", "handler"}
      /\ \A u \in Parties : /\ ev'[u] = IF u = p THEN x ELSE ev[u]
                            /\ at'[u] = IF u = p THEN "push" ELSE at[u]
      /\ \A u \in Parties, f \in Events :
             Holds(u, f)' <=> Holds(u, f) \/ (u = p /\ f = x.id)
  <2>1. Takes(p, x, "push") /\ Typing
    BY <1>1, <1>2 DEF Takes, EInv
  <2> QED  BY <1>1, <1>3, <2>1, TakesKeeps
<1>5. Typing'
  BY <1>1, <1>4 DEF EInv, Typing, ownerVars
<1>6. ThreadInv'
  BY <1>1, <1>4, DispatcherAssumption DEF EInv, ThreadInv, ownerVars, Parties
<1>7. /\ e \notin Ids(queue) /\ ~Known(e)
      /\ \A l \in Lanes : e \notin Ids(tasks[l])
      /\ \A u \in Parties : ~Holds(u, e)
  BY <1>1 DEF EInv, SomewhereInv
<1>8. ApartInv'
  BY <1>1, <1>2, <1>4, <1>7 DEF EInv, ApartInv, Known
<1>9. SomewhereInv'
  BY <1>1, <1>2, <1>4 DEF EInv, SomewhereInv, Known
<1>10. RetryInv'
  <2>1. calls[e] = 0 /\ MaxRetries \in Nat /\ MaxRetries' = MaxRetries
    BY <1>1, RetriesType DEF EInv, RetryInv, MaxRetries, ownerVars
  <2>2. Sound(x)
    BY <1>2, <2>1 DEF Sound
  <2>3. \A y : (Sound(y)' <=> Sound(y)) /\ (Called(y)' <=> Called(y))
    BY <1>1, <2>1 DEF Sound, Called
  <2>4. \A u \in Parties :
            /\ at'[u] \in {"push", "submit"} => Sound(ev'[u])
            /\ at'[u] = "handler" => Called(ev'[u])
    BY <1>4, <2>2 DEF EInv, RetryInv
  <2> QED  BY <1>1, <2>1, <2>3, <2>4 DEF EInv, RetryInv
<1> QED  BY <1>5, <1>6, <1>8, <1>9, <1>10 DEF EInv

LEMMA LoopPopKeeps ==
    ASSUME EInv, LoopPop
    PROVE  EInv'
<1> DEFINE x == Head(queue)
           r == Tail(queue)
<1>1. /\ at[Loop] = "pop" /\ Loop \in Parties /\ queue # <<>> /\ queue' = r
      /\ Takes(Loop, x, "submit")
      /\ UNCHANGED <<tasks, calls, fate, ownerVars, pushed>>
  BY DEF LoopPop, Parties, Takes
<1>2. queue \in Seq(EventType) /\ NoRepeat(queue)
  BY DEF EInv, Typing, ApartInv
<1>3. /\ x \in EventType /\ x \in Elems(queue) /\ x.id \in Ids(queue)
      /\ r \in Seq(EventType) /\ Len(r) + 1 = Len(queue) /\ Len(r) \in Nat
      /\ Elems(r) \subseteq Elems(queue)
      /\ Ids(r) = Ids(queue) \ {x.id} /\ NoRepeat(r)
  BY <1>1, <1>2, Beheaded
<1> HIDE DEF x, r
<1>4. x.id \in Events /\ ev[Loop] = Null
  BY <1>1, <1>3 DEF EventType, EInv, Typing
<1>5. /\ ev' \in [Parties -> EventType \cup {Null}]
      /\ at' \in [Parties -> {"off", "idle", "check", "pop", "take", "push",
                              "submit", "handler"}]
      /\ \A u \in Parties :
             ev'[u] # Null <=> at'[u] \in {"push", "submit", "handler"}
      /\ \A u \in Parties : /\ ev'[u] = IF u = Loop THEN x ELSE ev[u]
                            /\ at'[u] = IF u = Loop THEN "submit" ELSE at[u]
      /\ \A u \in Parties, f \in Events :
             Holds(u, f)' <=> Holds(u, f) \/ (u = Loop /\ f = x.id)
  BY <1>1, <1>3, <1>4, TakesKeeps DEF EInv
<1>6. Typing'
  <2>1. Len(queue') <= opts'.max_size /\ queue' \in Seq(EventType)
    <3>1. opts.max_size \in Nat /\ opts' = opts
      BY <1>1, DispatcherAssumption DEF EInv, Typing, OptionsType, ownerVars
    <3> QED  BY <1>1, <1>3, <3>1 DEF EInv, Typing
  <2> QED  BY <1>1, <1>5, <2>1 DEF EInv, Typing, ownerVars
<1>7. ThreadInv'
  BY <1>1, <1>5, DispatcherAssumption DEF EInv, ThreadInv, ownerVars, Parties
<1>8. /\ ~Known(x.id)
      /\ \A l \in Lanes : x.id \notin Ids(tasks[l])
      /\ \A u \in Parties : ~Holds(u, x.id)
  BY <1>3, <1>4 DEF EInv, ApartInv
<1>9. ApartInv'
  BY <1>1, <1>3, <1>5, <1>8 DEF EInv, ApartInv, Known
<1>10. SomewhereInv'
  BY <1>1, <1>3, <1>4, <1>5 DEF EInv, SomewhereInv, Known
<1>11. RetryInv'
  <2>1. MaxRetries' = MaxRetries /\ Sound(x)
    BY <1>1, <1>3 DEF EInv, RetryInv, MaxRetries, ownerVars
  <2>2. \A y : (Sound(y)' <=> Sound(y)) /\ (Called(y)' <=> Called(y))
    BY <1>1, <2>1 DEF Sound, Called
  <2>3. \A u \in Parties :
            /\ at'[u] \in {"push", "submit"} => Sound(ev'[u])
            /\ at'[u] = "handler" => Called(ev'[u])
    BY <1>5, <2>1 DEF EInv, RetryInv
  <2> QED  BY <1>1, <1>3, <2>1, <2>2, <2>3 DEF EInv, RetryInv
<1> QED  BY <1>6, <1>7, <1>9, <1>10, <1>11 DEF EInv

(* submit() appends it to the queue of a pool that runs.                    *)
LEMMA LaneTypes ==
    ASSUME EInv, RouterInv, NEW x \in EventType, x.id \in pushed
    PROVE  chooseLane(x) \in Lanes
<1>1. opts.router \in UNION {[es -> Lanes] : es \in SUBSET Events}
  BY DispatcherAssumption DEF EInv, Typing, OptionsType
<1>2. x.id \in DOMAIN opts.router => opts.router[x.id] \in Lanes
  BY <1>1
<1> QED  BY <1>2 DEF RouterInv, chooseLane, Lanes

LEMMA SubmitKeeps ==
    ASSUME EInv, RouterInv, Submit
    PROVE  EInv'
<1> DEFINE x == ev[Loop].id
           l == chooseLane(ev[Loop])
<1>1. /\ at[Loop] = "submit" /\ Loop \in Parties
      /\ pool[l] = "running" /\ ~PoolFull(l) /\ LetGo(Loop)
      /\ tasks' = [tasks EXCEPT ![l] = Append(@, ev[Loop])]
      /\ UNCHANGED <<queue, calls, fate, ownerVars, pushed>>
  BY DEF Submit, Parties
<1>2. /\ x \in Events /\ ev[Loop] \in EventType /\ MaxRetries' = MaxRetries
      /\ \A e \in Events : Holds(Loop, e) <=> e = x
  BY <1>1, InHand DEF EInv, MaxRetries, ownerVars
<1>3. l \in Lanes
  BY <1>1, <1>2, LaneTypes DEF EInv, SomewhereInv
<1> HIDE DEF l, x
<1>4. /\ tasks[l] \in Seq(EventType) /\ x \notin Ids(tasks[l])
      /\ NoRepeat(tasks[l]) /\ tasks \in [Lanes -> Seq(EventType)]
  BY <1>1, <1>2, <1>3 DEF EInv, Typing, ApartInv
<1>5. tasks'[l] = Append(tasks[l], ev[Loop])
      /\ \A m \in Lanes : m # l => tasks'[m] = tasks[m]
  BY <1>1, <1>3, <1>4
<1>6. /\ tasks'[l] \in Seq(EventType) /\ Len(tasks'[l]) = Len(tasks[l]) + 1
      /\ Elems(tasks'[l]) = Elems(tasks[l]) \cup {ev[Loop]}
      /\ Ids(tasks'[l]) = Ids(tasks[l]) \cup {x} /\ NoRepeat(tasks'[l])
  BY <1>2, <1>4, <1>5, Appended DEF x
<1>7. /\ ThreadInv'
      /\ at' \in [Parties -> {"off", "idle", "check", "pop", "take", "push",
                              "submit", "handler"}]
      /\ ev' \in [Parties -> EventType \cup {Null}]
      /\ \A u \in Parties :
             ev'[u] # Null <=> at'[u] \in {"push", "submit", "handler"}
      /\ \A u \in Parties, e \in Events :
             Holds(u, e)' <=> u # Loop /\ Holds(u, e)
      /\ \A u \in Parties : u # Loop => ev'[u] = ev[u] /\ at'[u] = at[u]
      /\ at'[Loop] \in {"idle", "take", "check"}
  <2>1. \A m \in Lanes : pool[m] = "running" \/ tasks'[m] = tasks[m]
    BY <1>1, <1>5
  <2>2. UNCHANGED <<pool, running, ctl>>
    BY <1>1 DEF ownerVars
  <2> QED  BY <1>1, <2>1, <2>2, LetGoKeeps DEF EInv
<1>8. Typing'
  <2>1. tasks' \in [Lanes -> Seq(EventType)]
    BY <1>1, <1>3, <1>4, <1>6, <1>5
  <2>2. opts.max_queue \in Nat /\ Len(tasks[l]) \in Nat /\ opts' = opts
    BY <1>1, <1>4, DispatcherAssumption DEF EInv, Typing, OptionsType, ownerVars
  <2>3. opts'.max_queue > 0 => Len(tasks'[l]) <= opts'.max_queue
    BY <1>1, <1>6, <2>2 DEF PoolFull
  <2>4. \A m \in Lanes :
            opts'.max_queue > 0 => Len(tasks'[m]) <= opts'.max_queue
    BY <1>5, <2>2, <2>3 DEF EInv, Typing
  <2> QED  BY <1>1, <1>7, <2>1, <2>4 DEF EInv, Typing, ownerVars
<1>9. \A m \in Lanes : \A e \in Events :
          e \in Ids(tasks'[m]) <=> e \in Ids(tasks[m]) \/ (m = l /\ e = x)
  BY <1>5, <1>6
<1>10. \A m \in Lanes : NoRepeat(tasks'[m])
  BY <1>5, <1>6 DEF EInv, ApartInv
<1>11. ApartInv'
  BY <1>1, <1>2, <1>7, <1>9, <1>10 DEF EInv, ApartInv, Known
<1>12. SomewhereInv'
  BY <1>1, <1>2, <1>3, <1>7, <1>9 DEF EInv, SomewhereInv, Known
<1>13. RetryInv'
  <2>1. \A y : (Sound(y)' <=> Sound(y)) /\ (Called(y)' <=> Called(y))
    BY <1>1, <1>2 DEF Sound, Called
  <2>2. Sound(ev[Loop])
    BY <1>1 DEF EInv, RetryInv
  <2>3. \A m \in Lanes : \A y \in Elems(tasks'[m]) : Sound(y)
    BY <1>5, <1>6, <2>2 DEF EInv, RetryInv
  <2> QED  BY <1>1, <1>2, <1>7, <2>1, <2>3 DEF EInv, RetryInv
<1> QED  BY <1>7, <1>8, <1>11, <1>12, <1>13 DEF EInv

(* A worker takes it out again, and calls the handler for it.               *)
LEMMA WorkerTakeKeeps ==
    ASSUME EInv, NEW w \in Runners, WorkerTake(w)
    PROVE  EInv'
<1> DEFINE l == PoolOf[w]
           r == Tail(tasks[l])
<1>0. PICK x : x = Head(tasks[l])
  OBVIOUS
<1>1. /\ at[w] = "take" /\ w \in Parties /\ tasks[l] # <<>>
      /\ Takes(w, x, "handler") /\ tasks' = [tasks EXCEPT ![l] = r]
      /\ calls' = [calls EXCEPT ![x.id] = @ + 1]
      /\ UNCHANGED <<queue, fate, ownerVars, pushed>>
  BY <1>0 DEF WorkerTake, Parties, Takes
<1>2. /\ l \in Lanes /\ tasks[l] \in Seq(EventType) /\ NoRepeat(tasks[l])
      /\ tasks \in [Lanes -> Seq(EventType)]
  BY DispatcherAssumption DEF EInv, Typing, ApartInv
<1>3. /\ x \in EventType /\ x \in Elems(tasks[l]) /\ x.id \in Ids(tasks[l])
      /\ r \in Seq(EventType) /\ Len(r) + 1 = Len(tasks[l]) /\ Len(r) \in Nat
      /\ Elems(r) \subseteq Elems(tasks[l])
      /\ Ids(r) = Ids(tasks[l]) \ {x.id} /\ NoRepeat(r)
  BY <1>0, <1>1, <1>2, Beheaded
<1> HIDE DEF l, r
<1>4. x.id \in Events /\ ev[w] = Null /\ x.attempt \in Nat
  BY <1>1, <1>3 DEF EventType, EInv, Typing
<1>5. /\ ev' \in [Parties -> EventType \cup {Null}]
      /\ at' \in [Parties -> {"off", "idle", "check", "pop", "take", "push",
                              "submit", "handler"}]
      /\ \A u \in Parties :
             ev'[u] # Null <=> at'[u] \in {"push", "submit", "handler"}
      /\ \A u \in Parties : /\ ev'[u] = IF u = w THEN x ELSE ev[u]
                            /\ at'[u] = IF u = w THEN "handler" ELSE at[u]
      /\ \A u \in Parties, f \in Events :
             Holds(u, f)' <=> Holds(u, f) \/ (u = w /\ f = x.id)
  BY <1>1, <1>3, <1>4, TakesKeeps DEF EInv
<1>6. tasks'[l] = r /\ \A m \in Lanes : m # l => tasks'[m] = tasks[m]
  BY <1>1, <1>2
<1>7. Typing'
  <2>1. tasks' \in [Lanes -> Seq(EventType)]
    BY <1>1, <1>2, <1>3
  <2>2. opts.max_queue \in Nat /\ opts' = opts
    BY <1>1, DispatcherAssumption DEF EInv, Typing, OptionsType, ownerVars
  <2>3. \A m \in Lanes :
            opts'.max_queue > 0 => Len(tasks'[m]) <= opts'.max_queue
    <3>1. \A m \in Lanes : opts.max_queue > 0 => Len(tasks[m]) <= opts.max_queue
      BY DEF EInv, Typing
    <3>2. opts.max_queue > 0 => Len(tasks'[l]) <= opts.max_queue
      BY <1>2, <1>3, <1>6, <2>2, <3>1
    <3> QED  BY <1>6, <2>2, <3>1, <3>2
  <2>4. calls' \in [Events -> Nat]
    BY <1>1, <1>4 DEF EInv, Typing
  <2> QED  BY <1>1, <1>5, <2>1, <2>3, <2>4 DEF EInv, Typing, ownerVars
<1>8. ThreadInv'
  <2>1. \A v \in Runners : at'[v] = "off" =>
            at[v] = "off" /\ tasks'[PoolOf[v]] = <<>>
    <3> SUFFICES ASSUME NEW v \in Runners, at'[v] = "off"
                 PROVE  at[v] = "off" /\ tasks'[PoolOf[v]] = <<>>
      OBVIOUS
    <3>1. v # w /\ at[v] = "off" /\ v \in Parties
      BY <1>5 DEF Parties
    <3>2. PoolOf[v] \in Lanes /\ tasks[PoolOf[v]] = <<>>
      BY <3>1, DispatcherAssumption DEF EInv, ThreadInv
    <3>3. PoolOf[v] # l
      BY <1>1, <3>2
    <3> QED  BY <1>6, <3>1, <3>2, <3>3
  <2>2. \A v \in Runners : at'[v] = "off" => pool'[PoolOf[v]] # "running"
    BY <1>1, <2>1 DEF EInv, ThreadInv, ownerVars
  <2>3. \A v \in Runners : pool'[PoolOf[v]] = "stopped" => at'[v] = "off"
    BY <1>1, <1>5 DEF EInv, ThreadInv, ownerVars, Parties
  <2> QED  BY <1>1, <1>5, <2>1, <2>2, <2>3, DispatcherAssumption
           DEF EInv, ThreadInv, ownerVars, Parties
<1>9. /\ ~Known(x.id) /\ x.id \notin Ids(queue)
      /\ \A m \in Lanes : m # l => x.id \notin Ids(tasks[m])
      /\ \A u \in Parties : ~Holds(u, x.id)
  BY <1>2, <1>3, <1>4 DEF EInv, ApartInv
<1>10. \A m \in Lanes : \A e \in Events :
           e \in Ids(tasks'[m]) <=> e \in Ids(tasks[m]) /\ e # x.id
  BY <1>3, <1>6, <1>9
<1>11. \A m \in Lanes : NoRepeat(tasks'[m])
  BY <1>3, <1>6 DEF EInv, ApartInv
<1>12. ApartInv'
  BY <1>1, <1>4, <1>5, <1>9, <1>10, <1>11 DEF EInv, ApartInv, Known
<1>13. SomewhereInv'
  BY <1>1, <1>2, <1>3, <1>4, <1>5, <1>10 DEF EInv, SomewhereInv, Known
<1>14. RetryInv'
  <2>1. MaxRetries' = MaxRetries /\ Sound(x)
    BY <1>1, <1>2, <1>3 DEF EInv, RetryInv, MaxRetries, ownerVars
  <2>2. \A e \in Events :
            calls'[e] = IF e = x.id THEN calls[e] + 1 ELSE calls[e]
    BY <1>1, <1>4 DEF EInv, Typing
  <2>3. \A y \in EventType : y.id # x.id =>
            (Sound(y)' <=> Sound(y)) /\ (Called(y)' <=> Called(y))
    BY <2>1, <2>2 DEF Sound, Called, EventType
  <2>4. Called(x)'
    <3>1. calls[x.id] \in Nat /\ x.attempt \in Nat /\ MaxRetries \in Nat
      BY <1>4, RetriesType DEF EInv, Typing
    <3> QED  BY <1>4, <2>1, <2>2, <3>1 DEF Sound, Called
  <2>5. \A y \in Elems(queue') : Sound(y)'
    <3> SUFFICES ASSUME NEW y \in Elems(queue)
                 PROVE  Sound(y)'
      BY <1>1
    <3>1. y.id # x.id
      BY <1>9, ElemIds
    <3>2. y \in EventType
      BY DEF EInv, Typing, Elems
    <3> QED  BY <2>3, <3>1, <3>2 DEF EInv, RetryInv
  <2>6. \A m \in Lanes : \A y \in Elems(tasks'[m]) : Sound(y)'
    <3> SUFFICES ASSUME NEW m \in Lanes, NEW y \in Elems(tasks'[m])
                 PROVE  Sound(y)'
      OBVIOUS
    <3>1. y \in Elems(tasks[m]) /\ tasks[m] \in Seq(EventType)
      BY <1>2, <1>3, <1>6
    <3>2. y \in EventType
      BY <3>1 DEF Elems
    <3>3. y.id \in Ids(tasks'[m]) /\ y.id \in Events
      BY <3>2, ElemIds DEF EventType
    <3>4. y.id # x.id
      BY <1>10, <3>3
    <3> QED  BY <2>3, <3>1, <3>2, <3>4 DEF EInv, RetryInv
  <2>7. \A u \in Parties :
            /\ (at[u] \in {"push", "submit"} => Sound(ev[u]))'
            /\ (at[u] = "handler" => Called(ev[u]))'
    <3> TAKE u \in Parties
    <3>1. PICK y : y = ev'[u]
      OBVIOUS
    <3>2. SUFFICES ASSUME at'[u] \in {"push", "submit", "handler"}
                   PROVE  /\ at'[u] \in {"push", "submit"} => Sound(y)'
                          /\ at'[u] = "handler" => Called(y)'
      BY <3>1 DEF Sound, Called
    <3>3. CASE u = w
      BY <1>5, <2>4, <3>1, <3>3
    <3>4. CASE u # w
      <4>1. at'[u] = at[u] /\ y = ev[u]
        BY <1>5, <3>1, <3>4
      <4>2. y \in EventType /\ Holds(u, y.id) /\ y.id \in Events
        BY <3>2, <4>1, InHand DEF EInv
      <4>3. y.id # x.id
        BY <1>9, <4>2
      <4> QED  BY <2>3, <4>1, <4>2, <4>3 DEF EInv, RetryInv
    <3> QED  BY <3>3, <3>4
  <2>8. \A f \in fate' : /\ calls'[f.id] <= MaxRetries' + 1
                         /\ f.how = "dead" /\ f.full =>
                                calls'[f.id] = MaxRetries' + 1
    <3> SUFFICES ASSUME NEW f \in fate
                 PROVE  calls'[f.id] = calls[f.id]
      BY <1>1, <2>1 DEF EInv, RetryInv
    <3>1. f.id # x.id /\ f.id \in Events
      BY <1>9 DEF Known, EInv, Typing
    <3> QED  BY <2>2, <3>1
  <2>9. \A e \in Events \ pushed' : calls'[e] = 0
    <3>1. x.id \in pushed
      BY <1>2, <1>3, <1>4 DEF EInv, SomewhereInv
    <3> QED  BY <1>1, <2>2, <3>1 DEF EInv, RetryInv
  <2> QED  BY <2>5, <2>6, <2>7, <2>8, <2>9 DEF RetryInv
<1> QED  BY <1>7, <1>8, <1>12, <1>13, <1>14 DEF EInv

-----------------------------------------------------------------------------
(* Steps that touch no event. *)

LEMMA EventsKept ==
    ASSUME EInv, UNCHANGED <<queue, tasks, ev, calls, fate, pushed, opts>>,
           \A t \in Parties :
               \/ at'[t] = at[t]
               \/ {at[t], at'[t]} \subseteq {"off", "check", "pop", "take"}
    PROVE  /\ ApartInv' /\ SomewhereInv' /\ RetryInv'
           /\ \A t \in Parties :
                  ev'[t] # Null <=> at'[t] \in {"push", "submit", "handler"}
<1>1. ApartInv'
  BY DEF EInv, ApartInv, Known, Holds
<1>2. SomewhereInv'
  BY DEF EInv, SomewhereInv, Known, Holds
<1>3. RetryInv'
  <2>1. \A y : (Sound(y)' <=> Sound(y)) /\ (Called(y)' <=> Called(y))
    BY DEF Sound, Called, MaxRetries
  <2>2. MaxRetries' = MaxRetries
    BY DEF MaxRetries
  <2> QED  BY <2>1, <2>2 DEF EInv, RetryInv
<1>4. \A t \in Parties :
          ev'[t] # Null <=> at'[t] \in {"push", "submit", "handler"}
  BY DEF EInv, Typing
<1> QED  BY <1>1, <1>2, <1>3, <1>4

(* The loop and the workers, when they find nothing to do.                  *)
LEMMA IdleKeeps ==
    ASSUME EInv,
           \/ LoopCheck \/ LoopPopNothing \/ \E w \in Runners : WorkerExit(w)
    PROVE  EInv'
<1> USE DispatcherAssumption DEF Parties
<1>1. PICK t \in Parties, place \in {"off", "check", "pop"} :
          /\ at' = [at EXCEPT ![t] = place]
          /\ \/ /\ t = Loop /\ at[t] = "check"
                /\ place = (IF running THEN "pop" ELSE "off")
             \/ t = Loop /\ at[t] = "pop" /\ place = "check"
             \/ /\ t \in Runners /\ at[t] = "take" /\ place = "off"
                /\ pool[PoolOf[t]] = "stopping" /\ tasks[PoolOf[t]] = <<>>
          /\ UNCHANGED <<queue, tasks, ev, calls, fate, ownerVars, pushed>>
  BY DEF LoopCheck, LoopPopNothing, WorkerExit
<1>2. \A u \in Parties : at'[u] = IF u = t THEN place ELSE at[u]
  BY <1>1 DEF EInv, Typing
<1>3. /\ UNCHANGED <<queue, tasks, ev, calls, fate, pushed, opts>>
      /\ \A u \in Parties :
             \/ at'[u] = at[u]
             \/ {at[u], at'[u]} \subseteq {"off", "check", "pop", "take"}
  BY <1>1, <1>2 DEF ownerVars
<1>4. /\ ApartInv' /\ SomewhereInv' /\ RetryInv'
      /\ \A u \in Parties :
             ev'[u] # Null <=> at'[u] \in {"push", "submit", "handler"}
  BY <1>3, EventsKept
<1>5. Typing'
  BY <1>1, <1>4 DEF EInv, Typing, ownerVars
<1>6. ThreadInv'
  BY <1>1, <1>2 DEF EInv, ThreadInv, ownerVars
<1> QED  BY <1>4, <1>5, <1>6 DEF EInv

(* The owner's calls that only set flags.                                   *)
LEMMA FlagKeeps ==
    ASSUME EInv,
           \/ StopLoop \/ StopQueue \/ JoinLoop
           \/ \E l \in Lanes : PoolStopFlag(l)
    PROVE  EInv'
<1>1. UNCHANGED <<opts, starts, queue, tasks, pushed, at, ev, calls, fate>>
  BY DEF StopLoop, StopQueue, JoinLoop, PoolStopFlag
<1>2. ApartInv' /\ SomewhereInv' /\ RetryInv'
  BY <1>1, EventsKept
<1>3. Typing'
  <2>1. /\ ctl' \in {"idle", "stop_queue", "join_loop", "join_pool"}
        /\ queueStopped' \in BOOLEAN /\ running' \in BOOLEAN
        /\ pool' \in [Lanes -> {"stopped", "running", "stopping"}]
    BY DEF EInv, Typing, StopLoop, StopQueue, JoinLoop, PoolStopFlag
  <2> QED  BY <1>1, <2>1 DEF EInv, Typing
<1>4. ThreadInv'
  <2>1. CASE StopLoop \/ StopQueue \/ JoinLoop
    BY <1>1, <2>1 DEF EInv, ThreadInv, StopLoop, StopQueue, JoinLoop
  <2>2. ASSUME NEW l \in Lanes, PoolStopFlag(l)
        PROVE  ThreadInv'
    <3>1. \A m \in Lanes : pool'[m] = IF m = l THEN "stopping" ELSE pool[m]
      BY <2>2 DEF EInv, Typing, PoolStopFlag
    <3>2. \A w \in Runners : PoolOf[w] \in Lanes
      BY DispatcherAssumption
    <3> QED  BY <1>1, <2>2, <3>1, <3>2 DEF EInv, ThreadInv, PoolStopFlag
  <2> QED  BY <2>1, <2>2
<1> QED  BY <1>2, <1>3, <1>4 DEF EInv

LEMMA StartKeeps ==
    ASSUME EInv, Start
    PROVE  EInv'
<1> USE DispatcherAssumption DEF Parties
<1>1. /\ ctl = "idle" /\ ~running /\ running' = TRUE /\ starts' = starts + 1
      /\ starts < opts.max_starts /\ at' = [at EXCEPT ![Loop] = "check"]
      /\ UNCHANGED <<opts, queueStopped, pool, ctl, queue, tasks, pushed, ev,
                     calls, fate>>
  BY DEF Start
<1>2. \A u \in Parties : at'[u] = IF u = Loop THEN "check" ELSE at[u]
  BY <1>1 DEF EInv, Typing
<1>3. at[Loop] = "off"
  BY <1>1 DEF EInv, ThreadInv
<1>4. /\ ApartInv' /\ SomewhereInv' /\ RetryInv'
      /\ \A u \in Parties :
             ev'[u] # Null <=> at'[u] \in {"push", "submit", "handler"}
  BY <1>1, <1>2, <1>3, EventsKept
<1>5. starts' \in 0..opts'.max_starts
  BY <1>1 DEF EInv, Typing, OptionsType
<1>6. Typing'
  BY <1>1, <1>4, <1>5 DEF EInv, Typing
<1>7. ThreadInv'
  BY <1>1, <1>2 DEF EInv, ThreadInv
<1> QED  BY <1>4, <1>6, <1>7 DEF EInv

(* A pool that starts finds its crew gone; one that stops found its queue   *)
(* empty when the last of them left, so no event is thrown away with it.    *)
LEMMA PoolStartKeeps ==
    ASSUME EInv, NEW l \in Lanes, PoolStart(l)
    PROVE  EInv'
<1> USE DispatcherAssumption DEF Parties
<1>1. /\ ctl = "idle" /\ starts' = starts + 1 /\ starts < opts.max_starts
      /\ pool[l] = "stopped" /\ pool' = [pool EXCEPT ![l] = "running"]
      /\ at' = [t \in Parties |-> IF t \in Crew(l) THEN "take" ELSE at[t]]
      /\ UNCHANGED <<opts, queueStopped, running, ctl, queue, tasks, pushed, ev,
                     calls, fate>>
  BY DEF PoolStart
<1>2. \A t \in Parties : at'[t] = IF t \in Crew(l) THEN "take" ELSE at[t]
  BY <1>1
<1>3. \A t \in Crew(l) : at[t] = "off" /\ t \in Runners /\ PoolOf[t] = l
  BY <1>1 DEF EInv, ThreadInv, Crew
<1>4. /\ ApartInv' /\ SomewhereInv' /\ RetryInv'
      /\ \A u \in Parties :
             ev'[u] # Null <=> at'[u] \in {"push", "submit", "handler"}
  BY <1>1, <1>2, <1>3, EventsKept
<1>5. starts' \in 0..opts'.max_starts
  BY <1>1 DEF EInv, Typing, OptionsType
<1>6. Typing'
  <2>1. at' \in [Parties -> {"off", "idle", "check", "pop", "take", "push",
                             "submit", "handler"}]
    BY <1>1 DEF EInv, Typing
  <2>2. pool' \in [Lanes -> {"stopped", "running", "stopping"}]
    BY <1>1 DEF EInv, Typing
  <2> QED  BY <1>1, <1>4, <1>5, <2>1, <2>2 DEF EInv, Typing
<1>7. ThreadInv'
  <2>1. \A m \in Lanes : pool'[m] = IF m = l THEN "running" ELSE pool[m]
    BY <1>1 DEF EInv, Typing
  <2>2. \A w \in Runners : w \in Crew(l) <=> PoolOf[w] = l
    BY DEF Crew
  <2>3. \A w \in Runners : PoolOf[w] \in Lanes
    OBVIOUS
  <2>4. \A w \in Runners :
            /\ at'[w] = IF PoolOf[w] = l THEN "take" ELSE at[w]
            /\ pool'[PoolOf[w]] = IF PoolOf[w] = l THEN "running"
                                  ELSE pool[PoolOf[w]]
    BY <1>2, <2>1, <2>2, <2>3
  <2>5. \A t \in Parties \ Runners : at'[t] = at[t]
    BY <1>2 DEF Crew
  <2>6. \A w \in Runners :
            /\ pool'[PoolOf[w]] = "stopped" => at'[w] = "off"
            /\ at'[w] = "off" => /\ pool'[PoolOf[w]] # "running"
                                 /\ tasks'[PoolOf[w]] = <<>>
    BY <1>1, <2>4 DEF EInv, ThreadInv
  <2>7. \A w \in Runners : at'[w] \in {"off", "take", "handler", "push"}
    BY <2>4 DEF EInv, ThreadInv
  <2> QED  BY <1>1, <2>5, <2>6, <2>7 DEF EInv, ThreadInv
<1> QED  BY <1>4, <1>6, <1>7 DEF EInv

LEMMA PoolJoinKeeps ==
    ASSUME EInv, NEW l \in Lanes, PoolJoin(l)
    PROVE  EInv'
<1> USE DispatcherAssumption DEF Parties
<1>1. /\ ctl = "join_pool" /\ ctl' = "idle"
      /\ \A w \in Crew(l) : at[w] = "off"
      /\ tasks' = [tasks EXCEPT ![l] = <<>>]
      /\ pool' = [pool EXCEPT ![l] = "stopped"]
      /\ UNCHANGED <<opts, starts, queueStopped, running, queue, at, ev, calls,
                     fate, pushed>>
  BY DEF PoolJoin
<1>2. tasks[l] = <<>>
  <2>1. PICK w \in Runners : PoolOf[w] = l
    OBVIOUS
  <2>2. at[w] = "off"
    BY <1>1, <2>1 DEF Crew
  <2> QED  BY <2>1, <2>2 DEF EInv, ThreadInv
<1>3. tasks' = tasks
  BY <1>1, <1>2 DEF EInv, Typing
<1>4. ApartInv' /\ SomewhereInv' /\ RetryInv'
  BY <1>1, <1>3, EventsKept
<1>5. Typing'
  <2>1. pool' \in [Lanes -> {"stopped", "running", "stopping"}]
    BY <1>1 DEF EInv, Typing
  <2> QED  BY <1>1, <1>3, <2>1 DEF EInv, Typing
<1>6. ThreadInv'
  <2>1. \A m \in Lanes : pool'[m] = IF m = l THEN "stopped" ELSE pool[m]
    BY <1>1 DEF EInv, Typing
  <2>2. \A w \in Runners : PoolOf[w] = l => at[w] = "off"
    BY <1>1 DEF Crew
  <2>3. \A w \in Runners :
            pool'[PoolOf[w]] = IF PoolOf[w] = l THEN "stopped"
                               ELSE pool[PoolOf[w]]
    BY <2>1
  <2> QED  BY <1>1, <1>3, <2>2, <2>3 DEF EInv, ThreadInv
<1> QED  BY <1>4, <1>5, <1>6 DEF EInv

-----------------------------------------------------------------------------
(* The invariant. *)

LEMMA Initially == DispatcherInit => EInv /\ RouterInv
<1> SUFFICES ASSUME DispatcherInit
             PROVE  EInv /\ RouterInv
  OBVIOUS
<1> USE DispatcherAssumption DEF DispatcherInit, Parties
<1>1. opts \in OptionsType
  OBVIOUS
<1>2. Typing
  <2>1. /\ opts.max_size \in Nat /\ opts.max_queue \in Nat
        /\ opts.max_starts \in Nat
    BY <1>1 DEF OptionsType
  <2>2. /\ queue \in Seq(EventType) /\ Len(queue) = 0
        /\ tasks \in [Lanes -> Seq(EventType)]
        /\ \A l \in Lanes : Len(tasks[l]) = 0
    OBVIOUS
  <2>3. /\ pool \in [Lanes -> {"stopped", "running", "stopping"}]
        /\ at \in [Parties -> {"off", "idle", "check", "pop", "take", "push",
                              "submit", "handler"}]
        /\ ev \in [Parties -> EventType \cup {Null}]
        /\ \A t \in Parties :
               ev[t] # Null <=> at[t] \in {"push", "submit", "handler"}
        /\ calls \in [Events -> Nat]
    OBVIOUS
  <2>4. /\ opts \in Configs /\ queueStopped = FALSE /\ running = FALSE
        /\ ctl = "idle" /\ starts = 0 /\ pushed = {} /\ fate = {}
    OBVIOUS
  <2>5. starts \in 0..opts.max_starts /\ Len(queue) <= opts.max_size
        /\ \A l \in Lanes :
               opts.max_queue > 0 => Len(tasks[l]) <= opts.max_queue
    BY <2>1, <2>2, <2>4
  <2> HIDE DEF DispatcherInit, Parties
  <2> QED  BY ONLY <2>2, <2>3, <2>4, <2>5 DEF Typing
<1>3. ThreadInv
  BY DEF ThreadInv
<1>4. /\ Ids(queue) = {} /\ \A l \in Lanes : Ids(tasks[l]) = {}
      /\ Elems(queue) = {} /\ \A l \in Lanes : Elems(tasks[l]) = {}
      /\ NoRepeat(queue) /\ \A l \in Lanes : NoRepeat(tasks[l])
  BY DEF Ids, Elems, NoRepeat
<1>5. \A e \in Events : ~Known(e) /\ \A t \in Parties : ~Holds(t, e)
  BY DEF Known, Holds
<1>6. ApartInv
  BY <1>4, <1>5 DEF ApartInv
<1>7. SomewhereInv
  BY <1>4, <1>5 DEF SomewhereInv
<1>8. RetryInv
  BY <1>4 DEF RetryInv
<1>9. RouterInv
  BY DEF RouterInv
<1> QED  BY <1>2, <1>3, <1>6, <1>7, <1>8, <1>9 DEF EInv

LEMMA NextKeeps ==
    ASSUME EInv, RouterInv, [DispatcherNext]_allVars
    PROVE  EInv'
<1> USE DEF Parties
<1>1. CASE \E p \in Producers : PushReturns(p) \/ \E e \in Events : Push(p, e)
  BY <1>1, PushStoreKeeps, PushDropOldestKeeps, PushFailsKeeps, PushKeeps
  DEF PushReturns
<1>2. CASE LoopSteps
  BY <1>2, IdleKeeps, LoopPopKeeps, SubmitKeeps, SubmitFailsKeeps,
     PushStoreKeeps, PushDropOldestKeeps, PushFailsKeeps
  DEF LoopSteps, PushReturns
<1>3. CASE \E w \in Runners : WorkerSteps(w)
  BY <1>3, WorkerTakeKeeps, IdleKeeps, HandlerReturnsKeeps,
     PushStoreKeeps, PushDropOldestKeeps, PushFailsKeeps
  DEF WorkerSteps, PushReturns
<1>4. CASE OwnerReturns \/ OwnerCalls
  BY <1>4, FlagKeeps, StartKeeps, PoolStartKeeps, PoolJoinKeeps
  DEF OwnerReturns, OwnerCalls
<1>5. CASE UNCHANGED allVars
  <2>1. ApartInv' /\ SomewhereInv' /\ RetryInv'
    BY <1>5, EventsKept DEF allVars, ownerVars
  <2>2. Typing' /\ ThreadInv'
    BY <1>5 DEF allVars, ownerVars, EInv, Typing, ThreadInv
  <2> QED  BY <2>1, <2>2 DEF EInv
<1> QED  BY <1>1, <1>2, <1>3, <1>4, <1>5 DEF DispatcherNext

LEMMA RouterKeeps ==
    ASSUME RouterInv, [DispatcherNext]_allVars
    PROVE  RouterInv'
<1>1. CASE \E p \in Producers, e \in Events : Push(p, e)
  BY <1>1 DEF Push, RouterInv, ownerVars
<1>2. CASE UNCHANGED <<opts, pushed>>
  BY <1>2 DEF RouterInv
<1> QED
  BY <1>1, <1>2
  DEF DispatcherNext, PushReturns, PushStore, PushDropOldest, PushFails,
      LoopSteps, LoopCheck, LoopPop, LoopPopNothing, Submit, SubmitFails,
      WorkerSteps, WorkerTake, WorkerExit, HandlerReturns, OwnerReturns, OwnerCalls,
      Start, StopLoop, StopQueue, JoinLoop, PoolStart, PoolStopFlag, PoolJoin, allVars,
      ownerVars

LEMMA DispatcherInvariance == DispatcherSpec => [](EInv /\ RouterInv)
<1>1. EInv /\ RouterInv /\ [DispatcherNext]_allVars => (EInv /\ RouterInv)'
  BY NextKeeps, RouterKeeps
<1> QED  BY <1>1, Initially, PTL DEF DispatcherSpec

(* Every variable has its type, the queues keep within their limits, and a  *)
(* thread has an event exactly while it works on one.                      *)
THEOREM DispatcherTypes == DispatcherSpec => []Typing
<1>1. EInv => Typing
  BY DEF EInv
<1> QED  BY <1>1, DispatcherInvariance, PTL

(* Wherever retries, refusals, drops and stops lead, an event that was      *)
(* pushed is in exactly one place: in the queue, in a pool, in the hands of *)
(* one thread, or out with one fate.                                       *)
THEOREM OnePlaceTheorem == DispatcherSpec => []OnePlace
<1>1. ASSUME EInv, NEW e \in pushed
      PROVE  Cardinality(Places(e)) = 1
  <2>1. e \in Events
    BY <1>1 DEF EInv, Typing
  <2>2. /\ \A i, j \in Where(queue, e) : i = j
        /\ \A l \in Lanes : \A i, j \in Where(tasks[l], e) : i = j
    BY <1>1 DEF Where, EInv, ApartInv, NoRepeat
  <2>3. /\ e \in Ids(queue) <=> Where(queue, e) # {}
        /\ \A l \in Lanes : e \in Ids(tasks[l]) <=> Where(tasks[l], e) # {}
    BY DEF Where, Ids
  <2> DEFINE Q == {<<"queue", i>> : i \in Where(queue, e)}
             T == UNION {{<<l, i>> : i \in Where(tasks[l], e)} : l \in Lanes}
             H == {<<"hand", t>> :
                      t \in {u \in Parties : ev[u] # Null /\ ev[u].id = e}}
             F == {<<"fate", f>> : f \in {g \in fate : g.id = e}}
  <2>4. Places(e) = Q \cup T \cup H \cup F
    BY DEF Places
  <2>5. \A i \in Where(queue, e) : <<"queue", i>> \in Q
    OBVIOUS
  <2>6. \A l \in Lanes : \A i \in Where(tasks[l], e) : <<l, i>> \in T
    OBVIOUS
  <2>7. \A t \in Parties : Holds(t, e) => <<"hand", t>> \in H
    BY DEF Holds
  <2>8. \A f \in fate : f.id = e => <<"fate", f>> \in F
    OBVIOUS
  <2>9. \A x \in Q : \E i \in Where(queue, e) : x = <<"queue", i>>
    OBVIOUS
  <2>10. \A x \in T : \E l \in Lanes :
             \E i \in Where(tasks[l], e) : x = <<l, i>>
    OBVIOUS
  <2>11. \A x \in H : \E t \in Parties : Holds(t, e) /\ x = <<"hand", t>>
    BY DEF Holds
  <2>12. \A x \in F : \E f \in fate : f.id = e /\ x = <<"fate", f>>
    OBVIOUS
  <2> HIDE DEF Q, T, H, F
  <2>13. ASSUME NEW x \in Places(e)
        PROVE  \/ /\ e \in Ids(queue)
                  /\ \E i \in Where(queue, e) : x = <<"queue", i>>
               \/ \E l \in Lanes : /\ e \in Ids(tasks[l])
                                   /\ \E i \in Where(tasks[l], e) : x = <<l, i>>
               \/ \E t \in Parties : Holds(t, e) /\ x = <<"hand", t>>
               \/ Known(e) /\ \E f \in fate : f.id = e /\ x = <<"fate", f>>
    <3>1. CASE x \in Q
      BY <2>3, <2>9, <3>1
    <3>2. CASE x \in T
      BY <2>3, <2>10, <3>2
    <3>3. CASE x \in H
      BY <2>11, <3>3
    <3>4. CASE x \in F
      BY <2>12, <3>4 DEF Known
    <3> QED  BY <2>13, <2>4, <3>1, <3>2, <3>3, <3>4
  <2>14. ASSUME NEW x \in Places(e), NEW y \in Places(e)
        PROVE  x = y
    BY <1>1, <2>1, <2>2, <2>13, <2>14 DEF EInv, ApartInv
  <2>15. Places(e) # {}
    <3>1. CASE e \in Ids(queue)
      BY <2>3, <2>4, <2>5, <3>1
    <3>2. ASSUME NEW l \in Lanes, e \in Ids(tasks[l])
          PROVE  Places(e) # {}
      BY <2>3, <2>4, <2>6, <3>2
    <3>3. ASSUME NEW t \in Parties, Holds(t, e)
          PROVE  Places(e) # {}
      BY <2>4, <2>7, <3>3
    <3>4. CASE Known(e)
      BY <2>4, <2>8, <3>4 DEF Known
    <3> QED  BY <1>1, <2>1, <3>1, <3>2, <3>3, <3>4 DEF EInv, SomewhereInv
  <2>16. PICK x : Places(e) = {x}
    BY <2>14, <2>15
  <2> QED  BY <2>16, FS_Singleton
<1>2. EInv => OnePlace
  BY <1>1 DEF OnePlace
<1> QED  BY <1>2, DispatcherInvariance, PTL

(* The handler is called once and at most (uint8_t) max_retries more times  *)
(* for an event, and a dead letter that still has its contents was tried    *)
(* that often.                                                             *)
THEOREM RetriesBoundedTheorem == DispatcherSpec => []RetriesBounded
<1>1. ASSUME EInv, NEW e \in Events
      PROVE  calls[e] <= MaxRetries + 1
  <2>1. MaxRetries \in Nat /\ calls[e] \in Nat
    BY <1>1, RetriesType DEF EInv, Typing
  <2>2. ASSUME NEW x \in EventType, x.id = e, Sound(x) \/ Called(x)
        PROVE  calls[e] <= MaxRetries + 1
    <3>1. x.attempt \in Nat
      BY DEF EventType
    <3> QED  BY <2>1, <2>2, <3>1 DEF Sound, Called
  <2>3. CASE e \notin pushed
    BY <1>1, <2>1, <2>3 DEF EInv, RetryInv
  <2>4. CASE e \in Ids(queue)
    <3>1. PICK i \in DOMAIN queue : queue[i].id = e
      BY <2>4 DEF Ids
    <3>2. queue[i] \in EventType /\ queue[i] \in Elems(queue)
      BY <1>1 DEF EInv, Typing, Elems
    <3> QED  BY <1>1, <2>2, <3>1, <3>2 DEF EInv, RetryInv
  <2>5. ASSUME NEW l \in Lanes, e \in Ids(tasks[l])
        PROVE  calls[e] <= MaxRetries + 1
    <3>1. PICK i \in DOMAIN tasks[l] : tasks[l][i].id = e
      BY <2>5 DEF Ids
    <3>2. tasks[l] \in Seq(EventType)
      BY <1>1 DEF EInv, Typing
    <3>3. tasks[l][i] \in EventType /\ tasks[l][i] \in Elems(tasks[l])
      BY <3>2 DEF Elems
    <3> QED  BY <1>1, <2>2, <3>1, <3>3 DEF EInv, RetryInv
  <2>6. ASSUME NEW t \in Parties, Holds(t, e)
        PROVE  calls[e] <= MaxRetries + 1
    <3>1. at[t] \in {"push", "submit", "handler"} /\ ev[t].id = e
          /\ ev[t] \in EventType
      BY <1>1, <2>6 DEF Holds, EInv, Typing
    <3> QED  BY <1>1, <2>2, <3>1 DEF EInv, RetryInv
  <2>7. CASE Known(e)
    BY <1>1, <2>7 DEF Known, EInv, RetryInv
  <2> QED  BY <1>1, <2>3, <2>4, <2>5, <2>6, <2>7 DEF EInv, SomewhereInv
<1>2. EInv => RetriesBounded
  BY <1>1 DEF RetriesBounded, EInv, RetryInv
<1> QED  BY <1>2, DispatcherInvariance, PTL
=============================================================================
