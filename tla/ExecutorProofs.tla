--------------------------- MODULE ExecutorProofs ---------------------------
(***************************************************************************)
(* What Executor guarantees for every set of threads, tasks and options:    *)
(* its types and queue bound, that stop() drains, and that it implements    *)
(* TaskService.                                                            *)
(***************************************************************************)
EXTENDS Executor, TLAPS

(* Where a thread is, without the difference between being asleep in a wait *)
(* and being about to look at its predicate: what notifications leave alone.*)
At(t) == Resumed(pc[t])

Pooled == opts.threads # {} /\ opts.max_queue > 0

(* A thread carries a task it runs and a task it posts exactly where its    *)
(* place in the code says so, and no two threads post the same task.        *)
CarryInv ==
    /\ \A t \in Threads :
        /\ cur[t] # None => At(t) \in {"run", "post_lock"}
        /\ At(t) = "run" => cur[t] # None
        /\ arg[t] # None <=> At(t) = "post_lock"
        /\ arg[t] # None => result[arg[t]] = "posting"
    /\ \A t, u \in Threads : arg[t] # None /\ arg[t] = arg[u] => t = u

(* Worker threads exist only in a life of the executor, and clients drive   *)
(* the queue only when there are none.                                     *)
RoleInv ==
    /\ \A w \in Workers :
        /\ At(w) \in {"off", "gone", "take", "run", "post_lock"}
        /\ At(w) = "post_lock" => cur[w] # None
        /\ w \notin opts.threads => At(w) = "off"
        /\ ~running \/ ctl = "starting" => At(w) = "off"
    /\ \A c \in Clients :
        /\ At(c) \in {"idle", "take", "once", "run", "post_lock"}
        /\ opts.threads # {} => At(c) \in {"idle", "post_lock"} /\ cur[c] = None
    /\ ctl \in {"starting", "stopping", "joining"} => running
    /\ ctl \in {"stopping", "joining"} => stopping
    /\ ctl = "idle" /\ running => ~stopping

(* A task that post() accepted is in the queue, on a thread, or done; and   *)
(* what is there was accepted.                                             *)
CustodyInv ==
    /\ \A i \in 1..Len(tasks) : result[tasks[i]] = "true"
    /\ \A t \in Threads : cur[t] # None => result[cur[t]] = "true"
    /\ \A k \in finished : result[k] = "true"
    /\ \A k \in Tasks : result[k] = "true" =>
            \/ k \in finished
            \/ \E t \in Threads : cur[t] = k
            \/ \E i \in 1..Len(tasks) : tasks[i] = k

(* A worker exits only when nothing is left, and from then on stopping_     *)
(* keeps every push out until the next start().                            *)
DrainInv ==
    /\ \A w \in Workers : At(w) = "gone" =>
            /\ ctl \in {"stopping", "joining"}
            /\ opts.max_queue > 0 => tasks = <<>>
    /\ ~running => stopping \/ \A t \in Threads : At(t) # "post_lock"
    /\ Pooled /\ ~running => tasks = <<>>

IInv == TypeOK /\ CarryInv /\ RoleInv /\ CustodyInv /\ DrainInv

-----------------------------------------------------------------------------
(* Notifications. *)

PcSet == {"off", "gone", "idle"} \cup PostPc \cup DrivePc

(* A resumed thread is at one of the program's places and is not asleep.    *)
LEMMA ResumedType ==
    ASSUME NEW x \in PcSet
    PROVE  /\ Resumed(x) \in PcSet
           /\ Resumed(Resumed(x)) = Resumed(x)
           /\ x \notin {"take_wait", "once_wait", "post_wait"} => Resumed(x) = x
BY DEF Resumed, PcSet, PostPc, DrivePc, OncePc

(* notify_one moves no thread to another place.                            *)
LEMMA NotifyOneKeeps ==
    ASSUME NEW p \in [Threads -> PcSet], NEW W \in SUBSET Threads,
           NEW r \in NotifyOne(p, W)
    PROVE  /\ r \in [Threads -> PcSet]
           /\ \A t \in Threads : Resumed(r[t]) = Resumed(p[t])
<1>1. CASE W = {}
  BY <1>1 DEF NotifyOne
<1>2. CASE W # {}
  <2>1. PICK w \in W : r = [p EXCEPT ![w] = Resumed(p[w])]
    BY <1>2 DEF NotifyOne
  <2>2. w \in Threads /\ p[w] \in PcSet
    OBVIOUS
  <2>3. Resumed(p[w]) \in PcSet /\ Resumed(Resumed(p[w])) = Resumed(p[w])
    BY <2>2, ResumedType
  <2>4. \A t \in Threads : r[t] = IF t = w THEN Resumed(p[w]) ELSE p[t]
    BY <2>1
  <2>5. r \in [Threads -> PcSet]
    BY <2>1, <2>3
  <2>6. QED
    BY <2>3, <2>4, <2>5
<1>3. QED
  BY <1>1, <1>2

(* notify_all does not either.                                             *)
LEMMA NotifyAllKeeps ==
    ASSUME NEW p \in [Threads -> PcSet]
    PROVE  /\ NotifyAll(p) \in [Threads -> PcSet]
           /\ \A t \in Threads : Resumed(NotifyAll(p)[t]) = Resumed(p[t])
BY ResumedType DEF NotifyAll

(* The values of Resumed, as the steps below need them.                     *)
LEMMA ResumedIs ==
    /\ Resumed("take_wait") = "take"
    /\ Resumed("once_wait") = "once"
    /\ Resumed("post_wait") = "post_lock"
    /\ \A x \in {"off", "gone", "idle", "take", "once", "run", "post_lock"} :
            Resumed(x) = x
BY DEF Resumed

(* Where a thread is follows from its pc, and the other way round but for   *)
(* the waits.                                                              *)
LEMMA AtIs ==
    ASSUME TypeOK, NEW t \in Threads
    PROVE  /\ At(t) \in {"off", "gone", "idle", "take", "once", "run",
                         "post_lock"}
           /\ pc[t] \in {"off", "gone", "idle", "take", "once", "run",
                         "post_lock"} => At(t) = pc[t]
           /\ pc[t] = "take_wait" => At(t) = "take"
           /\ pc[t] = "once_wait" => At(t) = "once"
           /\ pc[t] = "post_wait" => At(t) = "post_lock"
<1>1. pc[t] \in PcSet
  BY DEF TypeOK, PcSet
<1>2. QED
  BY <1>1, ResumedIs DEF At, PcSet, PostPc, DrivePc, OncePc

(* The threads' places after one thread moved, with or without notifying    *)
(* others.                                                                 *)
Moved(t, x) == \A u \in Threads : At(u)' = IF u = t THEN x ELSE At(u)

LEMMA MoveTo ==
    ASSUME TypeOK, NEW t \in Threads, NEW W \in SUBSET Threads,
           NEW x \in {"off", "gone", "idle", "take", "once", "run",
                      "post_lock"},
           \/ pc' = [pc EXCEPT ![t] = x]
           \/ pc' \in NotifyOne([pc EXCEPT ![t] = x], W)
    PROVE  pc' \in [Threads -> PcSet] /\ Moved(t, x)
<1> DEFINE p == [pc EXCEPT ![t] = x]
<1>1. pc \in [Threads -> PcSet] /\ x \in PcSet
  BY DEF TypeOK, PcSet, PostPc, DrivePc, OncePc
<1>2. p \in [Threads -> PcSet] /\ p[t] = x
      /\ \A u \in Threads : u # t => p[u] = pc[u]
  BY <1>1
<1>3. pc' \in [Threads -> PcSet]
      /\ \A u \in Threads : Resumed(pc'[u]) = Resumed(p[u])
  <2>1. CASE pc' = p
    BY <2>1, <1>2
  <2>2. CASE pc' \in NotifyOne(p, W)
    <3> HIDE DEF p
    <3>1. QED
      BY <2>2, <1>2, NotifyOneKeeps
  <2>3. QED
    BY <2>1, <2>2
<1>4. Resumed(x) = x
  BY ResumedIs
<1>5. ASSUME NEW u \in Threads PROVE At(u)' = IF u = t THEN x ELSE At(u)
  <2>1. At(u)' = Resumed(p[u])
    BY <1>3 DEF At
  <2>2. CASE u = t
    BY <2>1, <2>2, <1>2, <1>4
  <2>3. CASE u # t
    BY <2>1, <2>3, <1>2 DEF At
  <2>4. QED
    BY <2>2, <2>3
<1>6. QED
  BY <1>3, <1>5 DEF Moved

(* A step that only puts threads to sleep or wakes them.                    *)
LEMMA QuietKeeps ==
    ASSUME IInv, pc' \in [Threads -> PcSet],
           \A u \in Threads : At(u)' = At(u),
           UNCHANGED <<opts, running, stopping, tasks, ctl, lives, once, cur,
                       arg, result, finished>>
    PROVE  IInv'
<1>1. TypeOK'
  BY DEF IInv, TypeOK, PcSet
<1>2. CarryInv'
  BY DEF IInv, CarryInv
<1>3. RoleInv'
  BY DEF IInv, RoleInv, Threads
<1>4. CustodyInv'
  BY DEF IInv, CustodyInv
<1>5. DrainInv'
  BY DEF IInv, DrainInv, Pooled, Threads
<1>6. QED
  BY <1>1, <1>2, <1>3, <1>4, <1>5 DEF IInv

-----------------------------------------------------------------------------
(* One lemma per action: it keeps the invariant. *)

LEMMA OptsType ==
    ASSUME TypeOK
    PROVE  opts.threads \subseteq Workers /\ opts.max_queue \in Nat
BY ExecutorAssumption DEF TypeOK, OptionsType

LEMMA InitIInv == Init => IInv
<1> SUFFICES ASSUME Init PROVE IInv
  OBVIOUS
<1>1. TypeOK
  <2>1. opts \in Configs /\ opts.max_queue \in Nat
    BY ExecutorAssumption DEF Init, OptionsType
  <2>2. pc \in [Threads -> {"off", "gone", "idle"} \cup PostPc \cup DrivePc]
    BY DEF Init
  <2>3. tasks \in Seq(Tasks) /\ Len(tasks) = 0
    BY DEF Init
  <2>4. /\ cur \in [Threads -> Tasks \cup {None}]
        /\ arg \in [Threads -> Tasks \cup {None}]
        /\ result \in [Tasks -> {"new", "posting", "true", "false"}]
    BY DEF Init
  <2>5. ctl \in OwnerPc /\ lives \in 0..MaxLives
    BY ExecutorAssumption DEF Init, OwnerPc
  <2>6. opts.max_queue > 0 => Len(tasks) <= opts.max_queue
    BY <2>1, <2>3
  <2>7. /\ running \in BOOLEAN /\ stopping \in BOOLEAN
        /\ once \subseteq Clients /\ finished \subseteq Tasks
    BY DEF Init
  <2>8. QED
    BY <2>1, <2>2, <2>3, <2>4, <2>5, <2>6, <2>7 DEF TypeOK
<1>2. \A t \in Threads : At(t) = IF t \in Workers THEN "off" ELSE "idle"
  BY <1>1, AtIs DEF Init
<1>3. CarryInv
  BY <1>2 DEF Init, CarryInv
<1>4. RoleInv
  BY <1>2, ExecutorAssumption DEF Init, RoleInv, Threads
<1>5. CustodyInv
  BY DEF Init, CustodyInv
<1>6. DrainInv
  BY <1>2 DEF Init, DrainInv, Threads
<1>7. QED
  BY <1>1, <1>3, <1>4, <1>5, <1>6 DEF IInv

LEMMA StartCasKeeps == IInv /\ StartCas => IInv'
<1> SUFFICES ASSUME IInv, StartCas PROVE IInv'
  OBVIOUS
<1>1. \A u \in Threads : At(u)' = At(u)
  BY DEF StartCas, At
<1>2. TypeOK'
  BY ExecutorAssumption DEF IInv, TypeOK, StartCas, OwnerPc
<1>3. CarryInv'
  BY <1>1 DEF IInv, CarryInv, StartCas
<1>4. RoleInv'
  BY <1>1 DEF IInv, RoleInv, StartCas, Threads
<1>5. CustodyInv'
  BY DEF IInv, CustodyInv, StartCas
<1>6. DrainInv'
  BY <1>1 DEF IInv, DrainInv, RoleInv, StartCas, Threads
<1>7. QED
  BY <1>2, <1>3, <1>4, <1>5, <1>6 DEF IInv

LEMMA StartSpawnKeeps == IInv /\ StartSpawn => IInv'
<1> SUFFICES ASSUME IInv, StartSpawn PROVE IInv'
  OBVIOUS
<1>1. opts.threads \subseteq Workers /\ Workers \cap Clients = {}
  BY OptsType, ExecutorAssumption DEF IInv
<1>2. pc' \in [Threads -> PcSet]
  BY DEF IInv, TypeOK, StartSpawn, PcSet, DrivePc
<1>3. \A u \in Threads :
          At(u)' = IF u \in opts.threads THEN "take" ELSE At(u)
  BY ResumedIs DEF StartSpawn, At
<1>4. TypeOK'
  BY <1>2 DEF IInv, TypeOK, StartSpawn, OwnerPc, PcSet
<1>5. CarryInv'
  <2>1. \A w \in opts.threads : At(w) = "off" /\ w \in Threads
    BY <1>1 DEF IInv, RoleInv, StartSpawn, Threads
  <2>2. QED
    BY <1>3, <2>1 DEF IInv, CarryInv, StartSpawn
<1>6. RoleInv'
  BY <1>1, <1>3 DEF IInv, RoleInv, StartSpawn, Threads
<1>7. CustodyInv'
  BY DEF IInv, CustodyInv, StartSpawn
<1>8. DrainInv'
  BY <1>3 DEF IInv, DrainInv, RoleInv, StartSpawn, Threads
<1>9. QED
  BY <1>4, <1>5, <1>6, <1>7, <1>8 DEF IInv

LEMMA StopFlagKeeps == IInv /\ StopFlag => IInv'
<1> SUFFICES ASSUME IInv, StopFlag PROVE IInv'
  OBVIOUS
<1>1. \A u \in Threads : At(u)' = At(u)
  BY DEF StopFlag, At
<1>2. TypeOK'
  BY DEF IInv, TypeOK, StopFlag, OwnerPc
<1>3. CarryInv'
  BY <1>1 DEF IInv, CarryInv, StopFlag
<1>4. RoleInv'
  BY <1>1 DEF IInv, RoleInv, StopFlag, Threads
<1>5. CustodyInv'
  BY DEF IInv, CustodyInv, StopFlag
<1>6. DrainInv'
  BY <1>1 DEF IInv, DrainInv, StopFlag, Threads
<1>7. QED
  BY <1>2, <1>3, <1>4, <1>5, <1>6 DEF IInv

LEMMA StopNotifyKeeps == IInv /\ StopNotify => IInv'
<1> SUFFICES ASSUME IInv, StopNotify PROVE IInv'
  OBVIOUS
<1>1. pc' \in [Threads -> PcSet] /\ \A u \in Threads : At(u)' = At(u)
  BY NotifyAllKeeps DEF IInv, TypeOK, PcSet, StopNotify, At
<1>2. TypeOK'
  BY <1>1 DEF IInv, TypeOK, StopNotify, OwnerPc, PcSet
<1>3. CarryInv'
  BY <1>1 DEF IInv, CarryInv, StopNotify
<1>4. RoleInv'
  BY <1>1 DEF IInv, RoleInv, StopNotify, Threads
<1>5. CustodyInv'
  BY DEF IInv, CustodyInv, StopNotify
<1>6. DrainInv'
  BY <1>1 DEF IInv, DrainInv, Pooled, StopNotify, Threads
<1>7. QED
  BY <1>2, <1>3, <1>4, <1>5, <1>6 DEF IInv

LEMMA StopJoinKeeps == IInv /\ StopJoin => IInv'
<1> SUFFICES ASSUME IInv, StopJoin PROVE IInv'
  OBVIOUS
<1>1. opts.threads \subseteq Workers /\ Workers \cap Clients = {}
  BY OptsType, ExecutorAssumption DEF IInv
<1>2. pc' \in [Threads -> PcSet]
  BY DEF IInv, TypeOK, StopJoin, PcSet
<1>3. \A u \in Threads :
          At(u)' = IF u \in opts.threads THEN "off" ELSE At(u)
  BY ResumedIs DEF StopJoin, At
<1>4. \A w \in opts.threads : At(w) = "gone" /\ w \in Threads
  BY <1>1, AtIs DEF IInv, StopJoin, Threads
<1>5. TypeOK'
  BY <1>2 DEF IInv, TypeOK, StopJoin, OwnerPc, PcSet
<1>6. CarryInv'
  BY <1>3, <1>4 DEF IInv, CarryInv, StopJoin
<1>7. RoleInv'
  BY <1>1, <1>3 DEF IInv, RoleInv, StopJoin, Threads
<1>8. CustodyInv'
  BY DEF IInv, CustodyInv, StopJoin
<1>9. DrainInv'
  <2>1. stopping'
    BY DEF IInv, RoleInv, StopJoin
  <2>2. \A w \in Workers : At(w)' # "gone"
    BY <1>3 DEF IInv, RoleInv, StopJoin, Threads
  <2>3. Pooled' => tasks' = <<>>
    BY <1>1, <1>4 DEF IInv, DrainInv, Pooled, StopJoin
  <2>4. QED
    BY <2>1, <2>2, <2>3 DEF DrainInv
<1>10. QED
  BY <1>5, <1>6, <1>7, <1>8, <1>9 DEF IInv

LEMMA PostCheckKeeps ==
    ASSUME IInv, NEW t \in Threads, NEW k \in Tasks, PostCheck(t, k)
    PROVE  IInv'
<1>1. At(t) = pc[t] /\ pc[t] \in {"idle", "run"}
      /\ (pc[t] = "idle" => t \in Clients)
  BY AtIs DEF IInv, PostCheck, CanPost
<1>2. CASE running /\ ~stopping
  <2>1. pc' \in [Threads -> PcSet] /\ Moved(t, "post_lock")
    <3>1. pc' = [pc EXCEPT ![t] = "post_lock"]
      BY <1>2 DEF PostCheck
    <3>2. QED
      BY <3>1, MoveTo DEF IInv
  <2>2. /\ result' = [result EXCEPT ![k] = "posting"] /\ result[k] = "new"
        /\ arg' = [arg EXCEPT ![t] = k]
        /\ UNCHANGED <<opts, running, stopping, ctl, lives, tasks, once, cur,
                       finished>>
    BY <1>2 DEF PostCheck, ownerVars
  <2>3. TypeOK'
    BY <2>1, <2>2 DEF IInv, TypeOK, PcSet
  <2>4. CarryInv'
    BY <1>1, <2>1, <2>2, ExecutorAssumption
    DEF IInv, CarryInv, TypeOK, Moved
  <2>5. RoleInv'
    BY <1>1, <2>1, <2>2, ExecutorAssumption
    DEF IInv, RoleInv, CarryInv, Moved, Threads
  <2>6. CustodyInv'
    BY <2>2 DEF IInv, CustodyInv, TypeOK
  <2>7. DrainInv'
    BY <1>2, <2>1, <2>2 DEF IInv, DrainInv, Pooled, Moved, Threads
  <2>8. QED
    BY <2>3, <2>4, <2>5, <2>6, <2>7 DEF IInv
<1>3. CASE ~(running /\ ~stopping)
  <2>1. /\ result' = [result EXCEPT ![k] = "false"] /\ result[k] = "new"
        /\ UNCHANGED <<opts, running, stopping, ctl, lives, tasks, once, cur,
                       arg, pc, finished>>
    BY <1>3 DEF PostCheck, ownerVars
  <2>2. \A u \in Threads : At(u)' = At(u)
    BY <2>1 DEF At
  <2>3. TypeOK'
    BY <2>1 DEF IInv, TypeOK
  <2>4. CarryInv'
    BY <2>1, <2>2 DEF IInv, CarryInv, TypeOK
  <2>5. RoleInv'
    BY <2>1, <2>2 DEF IInv, RoleInv, Threads
  <2>6. CustodyInv'
    BY <2>1 DEF IInv, CustodyInv, TypeOK
  <2>7. DrainInv'
    BY <2>1, <2>2 DEF IInv, DrainInv, Pooled, Threads
  <2>8. QED
    BY <2>3, <2>4, <2>5, <2>6, <2>7 DEF IInv
<1>4. QED
  BY <1>2, <1>3

(* A wait that begins, or ends without a notification, leaves the thread    *)
(* where it was.                                                           *)
LEMMA WaitKeeps ==
    ASSUME IInv, NEW t \in Threads,
           PostWait(t) \/ TakeWait(t) \/ OnceWait(t) \/ WakeUnnotified(t)
    PROVE  IInv'
<1>1. UNCHANGED <<opts, running, stopping, tasks, ctl, lives, once, cur, arg,
                  result, finished>>
  BY DEF PostWait, TakeWait, OnceWait, WakeUnnotified, ownerVars
<1>2. PICK x \in PcSet : pc' = [pc EXCEPT ![t] = x] /\ Resumed(x) = At(t)
  <2>1. pc[t] \in PcSet
    BY DEF IInv, TypeOK, PcSet
  <2>2. CASE PostWait(t)
    BY <2>2, ResumedIs DEF PostWait, At, PcSet, PostPc
  <2>3. CASE TakeWait(t)
    BY <2>3, ResumedIs DEF TakeWait, At, PcSet, DrivePc
  <2>4. CASE OnceWait(t)
    BY <2>4, ResumedIs DEF OnceWait, At, PcSet, DrivePc, OncePc
  <2>5. CASE WakeUnnotified(t)
    BY <2>1, <2>5, ResumedType DEF WakeUnnotified, At
  <2>6. QED
    BY <2>2, <2>3, <2>4, <2>5
<1>3. pc' \in [Threads -> PcSet]
  BY <1>2 DEF IInv, TypeOK, PcSet
<1>4. \A u \in Threads : At(u)' = At(u)
  BY <1>2 DEF IInv, TypeOK, At
<1>5. QED
  BY <1>1, <1>3, <1>4, QuietKeeps

LEMMA PostRejectKeeps ==
    ASSUME IInv, NEW t \in Threads, PostReject(t)
    PROVE  IInv'
<1>1. At(t) = "post_lock" /\ arg[t] \in Tasks /\ result[arg[t]] = "posting"
  BY AtIs DEF IInv, PostReject, CarryInv, TypeOK
<1>2. pc' \in [Threads -> PcSet] /\ Moved(t, PostReturn(t))
  BY MoveTo DEF PostReject, PostReturn, IInv
<1>3. /\ result' = [result EXCEPT ![arg[t]] = "false"]
      /\ arg' = [arg EXCEPT ![t] = None]
      /\ UNCHANGED <<opts, running, stopping, ctl, lives, tasks, once, cur,
                     finished>>
  BY DEF PostReject, ownerVars
<1>4. TypeOK'
  BY <1>1, <1>2, <1>3 DEF IInv, TypeOK, PcSet
<1>5. CarryInv'
  BY <1>1, <1>2, <1>3, ExecutorAssumption
  DEF IInv, CarryInv, TypeOK, Moved, PostReturn
<1>6. RoleInv'
  BY <1>1, <1>2, <1>3, ExecutorAssumption
  DEF IInv, RoleInv, Moved, PostReturn, Threads
<1>7. CustodyInv'
  BY <1>1, <1>3 DEF IInv, CustodyInv, TypeOK
<1>8. DrainInv'
  BY <1>2, <1>3 DEF IInv, DrainInv, Pooled, Moved, PostReturn, Threads
<1>9. QED
  BY <1>4, <1>5, <1>6, <1>7, <1>8 DEF IInv

LEMMA PostPushKeeps ==
    ASSUME IInv, NEW t \in Threads, PostPush(t)
    PROVE  IInv'
<1>1. At(t) = "post_lock" /\ arg[t] \in Tasks /\ result[arg[t]] = "posting"
  BY AtIs DEF IInv, PostPush, CarryInv, TypeOK
<1>2. pc' \in [Threads -> PcSet] /\ Moved(t, PostReturn(t))
  BY MoveTo DEF PostPush, PostReturn, TaskWaiters, IInv
<1>3. /\ tasks' = Append(tasks, arg[t])
      /\ result' = [result EXCEPT ![arg[t]] = "true"]
      /\ arg' = [arg EXCEPT ![t] = None]
      /\ UNCHANGED <<opts, running, stopping, ctl, lives, once, cur, finished>>
  BY DEF PostPush, ownerVars
<1>4. /\ Len(tasks') = Len(tasks) + 1
      /\ \A i \in 1..Len(tasks) : tasks'[i] = tasks[i]
      /\ tasks'[Len(tasks) + 1] = arg[t]
      /\ Len(tasks) \in Nat
  BY <1>1, <1>3 DEF IInv, TypeOK
<1>5. TypeOK'
  <2>1. opts.max_queue > 0 => Len(tasks') <= opts.max_queue
    BY <1>4, OptsType DEF IInv, PostPush, Full
  <2>2. QED
    BY <1>1, <1>2, <1>3, <2>1 DEF IInv, TypeOK, PcSet
<1>6. CarryInv'
  BY <1>1, <1>2, <1>3, ExecutorAssumption
  DEF IInv, CarryInv, TypeOK, Moved, PostReturn
<1>7. RoleInv'
  BY <1>1, <1>2, <1>3, ExecutorAssumption
  DEF IInv, RoleInv, Moved, PostReturn, Threads
<1>8. CustodyInv'
  BY <1>1, <1>3, <1>4 DEF IInv, CustodyInv, TypeOK
<1>9. DrainInv'
  <2>1. opts.max_queue > 0 => ~stopping
    BY DEF PostPush
  <2>2. \A w \in Workers : At(w)' = "gone" => At(w) = "gone"
    BY <1>2 DEF Moved, PostReturn, Threads
  <2>3. running \/ stopping
    BY <1>1 DEF IInv, DrainInv
  <2>4. QED
    BY <1>2, <1>3, <2>1, <2>2, <2>3, OptsType
    DEF IInv, DrainInv, RoleInv, Pooled, Moved, PostReturn, Threads
<1>10. QED
  BY <1>5, <1>6, <1>7, <1>8, <1>9 DEF IInv

LEMMA EnterKeeps ==
    ASSUME IInv, NEW t \in Threads, SpinEnter(t) \/ OnceEnter(t)
    PROVE  IInv'
<1>1. PICK x \in {"take", "once"} : pc' = [pc EXCEPT ![t] = x]
  BY DEF SpinEnter, OnceEnter
<1>2. pc' \in [Threads -> PcSet] /\ Moved(t, x)
  BY <1>1, MoveTo DEF IInv
<1>3. /\ t \in Clients /\ At(t) = "idle" /\ opts.threads = {}
      /\ cur[t] = None /\ arg[t] = None
  BY AtIs DEF SpinEnter, OnceEnter, IInv, CarryInv
<1>4. /\ once' \subseteq once \cup {t}
      /\ UNCHANGED <<opts, running, stopping, ctl, lives, tasks, cur, arg,
                     result, finished>>
  BY DEF SpinEnter, OnceEnter, ownerVars
<1>5. TypeOK'
  BY <1>2, <1>3, <1>4 DEF IInv, TypeOK, PcSet
<1>6. CarryInv'
  BY <1>2, <1>3, <1>4 DEF IInv, CarryInv, Moved
<1>7. RoleInv'
  BY <1>2, <1>3, <1>4, ExecutorAssumption DEF IInv, RoleInv, Moved, Threads
<1>8. CustodyInv'
  BY <1>4 DEF IInv, CustodyInv
<1>9. DrainInv'
  BY <1>2, <1>4 DEF IInv, DrainInv, Pooled, Moved, Threads
<1>10. QED
  BY <1>5, <1>6, <1>7, <1>8, <1>9 DEF IInv

LEMMA LeaveKeeps ==
    ASSUME IInv, NEW t \in Threads, TakeExit(t) \/ OnceReturnFalse(t)
    PROVE  IInv'
<1>1. At(t) = pc[t] /\ pc[t] \in {"take", "once"}
  BY AtIs DEF TakeExit, OnceReturnFalse, IInv
<1>2. PICK x \in {"gone", "idle"} :
          /\ pc' = [pc EXCEPT ![t] = x]
          /\ x = "gone" => t \in Workers /\ tasks = <<>> /\ stopping
          /\ x = "idle" => t \in Clients
  BY <1>1 DEF TakeExit, OnceReturnFalse, IInv, RoleInv, Threads
<1>3. pc' \in [Threads -> PcSet] /\ Moved(t, x)
  BY <1>2, MoveTo DEF IInv
<1>4. cur[t] = None /\ arg[t] = None
  BY <1>1 DEF IInv, CarryInv
<1>5. /\ once' \subseteq once
      /\ UNCHANGED <<opts, running, stopping, ctl, lives, tasks, cur, arg,
                     result, finished>>
  BY DEF TakeExit, OnceReturnFalse, ownerVars
<1>6. TypeOK'
  BY <1>3, <1>5 DEF IInv, TypeOK, PcSet
<1>7. CarryInv'
  BY <1>3, <1>4, <1>5 DEF IInv, CarryInv, Moved
<1>8. RoleInv'
  BY <1>1, <1>2, <1>3, <1>5, ExecutorAssumption
  DEF IInv, RoleInv, Moved, Threads
<1>9. CustodyInv'
  BY <1>5 DEF IInv, CustodyInv
<1>10. DrainInv'
  <2>1. x = "gone" => ctl \in {"stopping", "joining"}
    BY <1>1, <1>2 DEF IInv, RoleInv, TypeOK, OwnerPc
  <2>2. QED
    BY <1>2, <1>3, <1>5, <2>1 DEF IInv, DrainInv, Pooled, Moved, Threads
<1>11. QED
  BY <1>6, <1>7, <1>8, <1>9, <1>10 DEF IInv

LEMMA PopKeeps ==
    ASSUME IInv, NEW t \in Threads, Take(t) \/ OnceTake(t)
    PROVE  IInv'
<1>1. At(t) = pc[t] /\ pc[t] \in {"take", "once"} /\ Pop(t)
  BY AtIs DEF Take, OnceTake, IInv
<1>2. pc' \in [Threads -> PcSet] /\ Moved(t, "run")
  BY <1>1, MoveTo DEF Pop, FullWaiters, IInv
<1>3. cur[t] = None /\ arg[t] = None
  BY <1>1 DEF IInv, CarryInv
<1>4. /\ tasks # <<>>
      /\ cur' = [cur EXCEPT ![t] = Head(tasks)]
      /\ tasks' = Tail(tasks)
      /\ UNCHANGED <<opts, running, stopping, ctl, lives, once, arg, result,
                     finished>>
  BY <1>1 DEF Take, OnceTake, Pop, ownerVars
<1>5. /\ tasks[1] \in Tasks /\ Head(tasks) = tasks[1]
      /\ Len(tasks) \in Nat /\ Len(tasks) > 0
      /\ tasks' \in Seq(Tasks) /\ Len(tasks') = Len(tasks) - 1
      /\ \A i \in 1..Len(tasks') : tasks'[i] = tasks[i + 1]
  BY <1>4 DEF IInv, TypeOK
<1>6. result[tasks[1]] = "true"
  BY <1>5 DEF IInv, CustodyInv
<1>7. TypeOK'
  <2>1. opts.max_queue > 0 => Len(tasks') <= opts.max_queue
    BY <1>5, OptsType DEF IInv, TypeOK
  <2>2. cur' \in [Threads -> Tasks \cup {None}]
    BY <1>4, <1>5 DEF IInv, TypeOK
  <2>3. QED
    BY <1>2, <1>4, <1>5, <2>1, <2>2 DEF IInv, TypeOK, PcSet
<1>8. \A u \in Threads : cur'[u] = IF u = t THEN tasks[1] ELSE cur[u]
  BY <1>4, <1>5 DEF IInv, TypeOK
<1>9. CarryInv'
  BY <1>1, <1>2, <1>4, <1>5, <1>8, ExecutorAssumption DEF IInv, CarryInv, Moved
<1>10. RoleInv'
  BY <1>1, <1>2, <1>4, <1>8, ExecutorAssumption
  DEF IInv, RoleInv, Moved, Threads
<1>11. CustodyInv'
  <2>1. \A i \in 1..Len(tasks') : result'[tasks'[i]] = "true"
    BY <1>4, <1>5 DEF IInv, CustodyInv
  <2>2. \A u \in Threads : cur'[u] # None => result'[cur'[u]] = "true"
    BY <1>4, <1>6, <1>8 DEF IInv, CustodyInv
  <2>3. \A k \in finished' : result'[k] = "true"
    BY <1>4 DEF IInv, CustodyInv
  <2>4. ASSUME NEW k \in Tasks, result'[k] = "true"
        PROVE  \/ k \in finished'
               \/ \E u \in Threads : cur'[u] = k
               \/ \E i \in 1..Len(tasks') : tasks'[i] = k
    <3>1. CASE k \in finished
      BY <3>1, <1>4
    <3>2. CASE \E u \in Threads : cur[u] = k
      BY <3>2, <1>3, <1>8, ExecutorAssumption
    <3>3. CASE \E i \in 1..Len(tasks) : tasks[i] = k
      <4>1. PICK i \in 1..Len(tasks) : tasks[i] = k
        BY <3>3
      <4>2. CASE i = 1
        BY <4>1, <4>2, <1>8
      <4>3. CASE i # 1
        <5>1. i - 1 \in 1..Len(tasks') /\ tasks'[i - 1] = tasks[i]
          BY <4>1, <4>3, <1>5
        <5>2. QED
          BY <4>1, <5>1
      <4>4. QED
        BY <4>2, <4>3
    <3>4. QED
      BY <2>4, <1>4, <3>1, <3>2, <3>3 DEF IInv, CustodyInv
  <2>5. QED
    BY <2>1, <2>2, <2>3, <2>4 DEF CustodyInv
<1>12. DrainInv'
  BY <1>2, <1>4, <1>5 DEF IInv, DrainInv, Pooled, Moved, Threads
<1>13. QED
  BY <1>7, <1>9, <1>10, <1>11, <1>12 DEF IInv

LEMMA TaskReturnsKeeps ==
    ASSUME IInv, NEW t \in Threads, TaskReturns(t)
    PROVE  IInv'
<1>1. At(t) = "run" /\ cur[t] \in Tasks /\ arg[t] = None
  BY AtIs DEF TaskReturns, IInv, CarryInv, TypeOK
<1>2. PICK x \in {"idle", "take"} :
          /\ pc' = [pc EXCEPT ![t] = x]
          /\ x = "idle" => t \in Clients
  BY DEF TaskReturns, IInv, TypeOK
<1>3. pc' \in [Threads -> PcSet] /\ Moved(t, x)
  BY <1>2, MoveTo DEF IInv
<1>4. /\ finished' = finished \cup {cur[t]}
      /\ cur' = [cur EXCEPT ![t] = None]
      /\ once' \subseteq once
      /\ UNCHANGED <<opts, running, stopping, ctl, lives, tasks, arg, result>>
  BY DEF TaskReturns, ownerVars
<1>5. \A u \in Threads : cur'[u] = IF u = t THEN None ELSE cur[u]
  BY <1>4 DEF IInv, TypeOK
<1>6. TypeOK'
  BY <1>1, <1>3, <1>4 DEF IInv, TypeOK, PcSet
<1>7. CarryInv'
  BY <1>1, <1>3, <1>4, <1>5 DEF IInv, CarryInv, Moved
<1>8. RoleInv'
  BY <1>1, <1>2, <1>3, <1>4, <1>5, ExecutorAssumption
  DEF IInv, RoleInv, Moved, Threads
<1>9. CustodyInv'
  <2>1. /\ \A i \in 1..Len(tasks') : result'[tasks'[i]] = "true"
        /\ \A u \in Threads : cur'[u] # None => result'[cur'[u]] = "true"
        /\ \A k \in finished' : result'[k] = "true"
    BY <1>1, <1>4, <1>5, ExecutorAssumption DEF IInv, CustodyInv
  <2>2. ASSUME NEW k \in Tasks, result'[k] = "true"
        PROVE  \/ k \in finished'
               \/ \E u \in Threads : cur'[u] = k
               \/ \E i \in 1..Len(tasks') : tasks'[i] = k
    BY <2>2, <1>4, <1>5 DEF IInv, CustodyInv
  <2>3. QED
    BY <2>1, <2>2 DEF CustodyInv
<1>10. DrainInv'
  BY <1>3, <1>4 DEF IInv, DrainInv, Pooled, Moved, Threads
<1>11. QED
  BY <1>6, <1>7, <1>8, <1>9, <1>10 DEF IInv

-----------------------------------------------------------------------------
(* The theorems. *)

(* The invariant holds in every reachable state, for any number of workers, *)
(* clients and tasks and any options.                                      *)
THEOREM Invariance == Spec => []IInv
<1>1. IInv /\ [Next]_vars => IInv'
  <2> SUFFICES ASSUME IInv, [Next]_vars PROVE IInv'
    OBVIOUS
  <2>1. CASE Owner
    BY <2>1, StartCasKeeps, StartSpawnKeeps, StopFlagKeeps, StopNotifyKeeps,
       StopJoinKeeps DEF Owner
  <2>2. ASSUME NEW t \in Threads, Proceed(t) PROVE IInv'
    BY <2>2, WaitKeeps, PostRejectKeeps, PostPushKeeps, LeaveKeeps, PopKeeps,
       TaskReturnsKeeps DEF Proceed
  <2>3. ASSUME NEW t \in Threads, Choose(t) PROVE IInv'
    BY <2>3, PostCheckKeeps, EnterKeeps, WaitKeeps DEF Choose
  <2>4. CASE UNCHANGED vars
    <3>1. pc' \in [Threads -> PcSet] /\ \A u \in Threads : At(u)' = At(u)
      BY <2>4 DEF vars, At, IInv, TypeOK, PcSet
    <3>2. QED
      BY <2>4, <3>1, QuietKeeps DEF vars
  <2>5. QED
    BY <2>1, <2>2, <2>3, <2>4 DEF Next
<1>2. QED
  BY <1>1, InitIInv, PTL DEF Spec

(* Types, and the bound of the queue.                                      *)
THEOREM TypeCorrect == Spec => []TypeOK
<1>1. IInv => TypeOK
  BY DEF IInv
<1>2. QED
  BY <1>1, Invariance, PTL

(* stop() of a pooled executor with a bounded queue returns only when every *)
(* accepted task has returned.                                             *)
THEOREM StopDrainsTheorem == Spec => []StopDrains
<1>1. IInv => StopDrains
  <2> SUFFICES ASSUME IInv, opts.threads # {}, opts.max_queue > 0, ~running
               PROVE  tasks = <<>> /\ Accepted \subseteq finished
    BY DEF StopDrains
  <2>1. tasks = <<>>
    BY DEF IInv, DrainInv, Pooled
  <2>2. \A t \in Threads : cur[t] = None
    BY DEF IInv, RoleInv, CarryInv, Threads
  <2>3. Accepted \subseteq finished
    BY <2>1, <2>2, ExecutorAssumption DEF IInv, CustodyInv, Accepted
  <2>4. QED
    BY <2>1, <2>3
<1>2. QED
  BY <1>1, Invariance, PTL

(* Every step of the executor is a step of TaskService or leaves its        *)
(* variables alone.                                                        *)
LEMMA PushSubmits ==
    ASSUME IInv, NEW t \in Threads, PostPush(t)
    PROVE  Service!Next
<1>1. arg[t] \in Tasks /\ result[arg[t]] = "posting"
  BY AtIs DEF IInv, PostPush, CarryInv, TypeOK
<1>2. arg[t] \notin Service!InSeq(tasks)
  <2>1. DOMAIN tasks = 1..Len(tasks)
    BY DEF IInv, TypeOK
  <2>2. QED
    BY <1>1, <2>1 DEF IInv, CustodyInv, Service!InSeq
<1>3. \A u \in Threads : cur[u] # arg[t]
  BY <1>1, ExecutorAssumption DEF IInv, CustodyInv
<1>4. arg[t] \notin finished
  BY <1>1 DEF IInv, CustodyInv
<1>5. Service!Submit(arg[t])
  BY <1>2, <1>3, <1>4 DEF Service!Submit, Service!Known, PostPush, ownerVars
<1>6. QED
  BY <1>1, <1>5 DEF Service!Next

LEMMA PopBegins ==
    ASSUME IInv, NEW t \in Threads, Take(t) \/ OnceTake(t)
    PROVE  Service!Next
<1>1. cur[t] = None /\ Pop(t)
  BY AtIs DEF Take, OnceTake, IInv, CarryInv
<1>2. Service!Begin(t)
  BY <1>1 DEF Service!Begin, Pop
<1>3. QED
  BY <1>2 DEF Service!Next

LEMMA ReturnEnds ==
    ASSUME IInv, NEW t \in Threads, TaskReturns(t)
    PROVE  Service!Next
<1>1. cur[t] # None
  BY AtIs DEF TaskReturns, IInv, CarryInv
<1>2. Service!End(t)
  BY <1>1 DEF Service!End, TaskReturns
<1>3. QED
  BY <1>2 DEF Service!Next

(* Executor implements TaskService: FIFO, each accepted task handed to one  *)
(* thread and once, for every value of the constants.                      *)
THEOREM Refinement == Spec => ImplementsService
<1>1. Init => Service!Init
  BY DEF Init, Service!Init
<1>2. IInv /\ [Next]_vars => [Service!Next]_(Service!tsVars)
  <2> SUFFICES ASSUME IInv, [Next]_vars,
                      ~UNCHANGED <<tasks, cur, finished>>
               PROVE  Service!Next
    BY DEF Service!tsVars
  <2>1. ~Owner
    BY DEF Owner, StartCas, StartSpawn, StopFlag, StopNotify, StopJoin
  <2>2. \A t \in Threads : ~Choose(t)
    BY DEF Choose, PostCheck, SpinEnter, OnceEnter, WakeUnnotified
  <2>3. PICK t \in Threads : Proceed(t)
    BY <2>1, <2>2 DEF Next, vars
  <2>4. PostPush(t) \/ Take(t) \/ OnceTake(t) \/ TaskReturns(t)
    BY <2>3 DEF Proceed, PostWait, PostReject, TakeWait, TakeExit, OnceWait,
       OnceReturnFalse
  <2>5. QED
    BY <2>4, PushSubmits, PopBegins, ReturnEnds
<1>3. QED
  BY <1>1, <1>2, Invariance, PTL DEF Spec, ImplementsService, Service!Spec
=============================================================================
