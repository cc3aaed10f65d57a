--------------------------- MODULE InprocChannel ---------------------------
(***************************************************************************)
(* wxz::core::InprocChannel (src/inproc_channel.cpp): a pool of buffers on  *)
(* a lock-free free list (BufferPool), a lock-free bounded queue of buffer  *)
(* indices (IndexQueue), and a thread that takes batches of indices from    *)
(* the queue, shows each buffer to the handlers and releases it.            *)
(*                                                                         *)
(* Each load, store and compare-and-swap of an atomic is a step.  Memory is *)
(* sequentially consistent.  A buffer's payload is the number of the        *)
(* allocation that filled it.                                              *)
(***************************************************************************)
EXTENDS Naturals, Sequences, FiniteSets

CONSTANTS Capacity,    \* the number of buffers and of cells of the queue
          Publishers,  \* the threads that publish
          Allocators,  \* those of them that allocate
          Worker,      \* worker_, the dispatch thread
          Subs,        \* the subscriptions, made once each
          Scoped,      \* those of them whose token was not detached
          kBatch,      \* the size of a batch (32)
          None,        \* no buffer: the index -1
          MaxAllocs    \* bound: how many buffers are allocated

Threads == Publishers \cup {Worker}
Nodes == 0..(Capacity - 1)

ASSUME ChannelAssumption ==
    /\ Capacity \in {2 ^ k : k \in 0..16}
    /\ Capacity \in Nat \ {0}  \* as that implies
    /\ kBatch \in Nat \ {0}
    /\ Allocators \subseteq Publishers
    /\ Worker \notin Publishers
    /\ Scoped \subseteq Subs
    /\ None \notin Nodes
    /\ MaxAllocs \in Nat

VARIABLES next,       \* nodes_[i].next
          free_head,  \* free_head_
          filled,     \* the payload of each buffer
          seq,        \* buffer_[i].seq
          data,       \* buffer_[i].data
          enqueue_pos, dequeue_pos,
          handlers,   \* handlers_
          running,    \* running_
          ctl,        \* where the owner is in subscribe() or stop()
          subscribed, \* the subscriptions that have been made
          pc,         \* where each thread is
          head,       \* the value of free_head_ each thread has read
          link,       \* the value of next that acquire() has read
          pos,        \* the position each thread has read
          buf,        \* the index of the buffer each thread has in hand
          batch,      \* the batch the worker collects, then delivers
          copied,     \* copy_handlers
          allocs,     \* how many buffers have been allocated
          order,      \* the payloads, in the order of their queue positions
          got         \* the payloads each handler was called with

poolVars == <<next, free_head, filled, allocs>>
queueVars == <<seq, data, enqueue_pos, dequeue_pos, order>>
ownerVars == <<handlers, running, ctl, subscribed>>
localVars == <<pc, head, link, pos, buf>>
workerVars == <<batch, copied, got>>
vars == <<poolVars, queueVars, ownerVars, localVars, workerVars>>

Init == /\ next = [i \in Nodes |-> IF i + 1 \in Nodes THEN i + 1 ELSE None]
        /\ free_head = 0
        /\ filled = [i \in Nodes |-> 0]
        /\ seq = [i \in Nodes |-> i]
        /\ data = [i \in Nodes |-> None]
        /\ enqueue_pos = 0 /\ dequeue_pos = 0
        /\ handlers = {}
        /\ running = FALSE
        /\ ctl = "idle"
        /\ subscribed = {}
        /\ pc = [t \in Threads |-> IF t = Worker THEN "off" ELSE "idle"]
        /\ head = [t \in Threads |-> None]
        /\ link = [t \in Threads |-> None]
        /\ pos = [t \in Threads |-> 0]
        /\ buf = [t \in Threads |-> None]
        /\ batch = <<>>
        /\ copied = {}
        /\ allocs = 0
        /\ order = <<>>
        /\ got = [s \in Subs |-> <<>>]

Goto(t, from, to) == /\ pc[t] = from
                     /\ pc' = [pc EXCEPT ![t] = to]

-----------------------------------------------------------------------------
(* BufferPool::acquire() *)

AcquireLoad(t) ==
    /\ t \in Allocators
    /\ allocs < MaxAllocs
    /\ free_head # None
    /\ Goto(t, "idle", "acquire_next")
    /\ head' = [head EXCEPT ![t] = free_head]
    /\ UNCHANGED <<link, pos, buf, poolVars, queueVars, ownerVars, workerVars>>

AcquireNext(t) ==
    /\ Goto(t, "acquire_next", "acquire_cas")
    /\ link' = [link EXCEPT ![t] = next[head[t]]]
    /\ UNCHANGED <<head, pos, buf, poolVars, queueVars, ownerVars, workerVars>>

(* The handle is filled by the thread that got it. *)
AcquireCas(t) ==
    /\ free_head = head[t]
    /\ Goto(t, "acquire_cas", "held")
    /\ free_head' = link[t]
    /\ buf' = [buf EXCEPT ![t] = head[t]]
    /\ allocs' = allocs + 1
    /\ filled' = [filled EXCEPT ![head[t]] = allocs + 1]
    /\ head' = [head EXCEPT ![t] = None]
    /\ link' = [link EXCEPT ![t] = None]
    /\ UNCHANGED <<next, pos, queueVars, ownerVars, workerVars>>

(* The failed compare-and-swap reads free_head_ again. *)
AcquireRetry(t) ==
    /\ free_head # head[t]
    /\ Goto(t, "acquire_cas",
            IF free_head = None THEN "idle" ELSE "acquire_next")
    /\ head' = [head EXCEPT ![t] = free_head]
    /\ link' = [link EXCEPT ![t] = None]
    /\ UNCHANGED <<pos, buf, poolVars, queueVars, ownerVars, workerVars>>

(* A BufferHandle is moved to another thread. *)
Give(t, u) ==
    /\ pc[t] = "held" /\ pc[u] = "idle" /\ u # Worker
    /\ pc' = [pc EXCEPT ![t] = "idle", ![u] = "held"]
    /\ buf' = [buf EXCEPT ![t] = None, ![u] = buf[t]]
    /\ UNCHANGED <<head, link, pos, poolVars, queueVars, ownerVars, workerVars>>

-----------------------------------------------------------------------------
(* BufferPool::release(), called for a handle that is dropped, a publish()  *)
(* that fails and a buffer that was delivered or drained.                   *)

Release == "release_load"

Drop(t) ==
    /\ t # Worker
    /\ Goto(t, "held", Release)
    /\ UNCHANGED <<head, link, pos, buf, poolVars, queueVars, ownerVars,
                   workerVars>>

ReleaseLoad(t) ==
    /\ Goto(t, Release, "release_store")
    /\ head' = [head EXCEPT ![t] = free_head]
    /\ UNCHANGED <<link, pos, buf, poolVars, queueVars, ownerVars, workerVars>>

ReleaseStore(t) ==
    /\ Goto(t, "release_store", "release_cas")
    /\ next' = [next EXCEPT ![buf[t]] = head[t]]
    /\ UNCHANGED <<head, link, pos, buf, free_head, filled, allocs, queueVars,
                   ownerVars, workerVars>>

(* Where the thread goes on: the worker delivers the rest of its batch, or  *)
(* drains on.                                                              *)
Released(t) == IF t # Worker THEN "idle"
               ELSE IF batch # <<>> THEN "deliver"
               ELSE "check"

ReleaseCas(t) ==
    /\ free_head = head[t]
    /\ Goto(t, "release_cas", Released(t))
    /\ free_head' = buf[t]
    /\ buf' = [buf EXCEPT ![t] = None]
    /\ head' = [head EXCEPT ![t] = None]
    /\ UNCHANGED <<next, filled, allocs, link, pos, queueVars, ownerVars,
                   workerVars>>

ReleaseRetry(t) ==
    /\ free_head # head[t]
    /\ Goto(t, "release_cas", "release_store")
    /\ head' = [head EXCEPT ![t] = free_head]
    /\ UNCHANGED <<link, pos, buf, poolVars, queueVars, ownerVars, workerVars>>

-----------------------------------------------------------------------------
(* IndexQueue::enqueue(), called by publish(). *)

Cell(p) == p % Capacity

PosLoad(t, from) ==
    /\ t # Worker
    /\ Goto(t, from, "enqueue_seq")
    /\ pos' = [pos EXCEPT ![t] = enqueue_pos]
    /\ UNCHANGED <<head, link, buf, poolVars, queueVars, ownerVars, workerVars>>

PublishHandle(t) == PosLoad(t, "held")

EnqueueReload(t) == PosLoad(t, "enqueue_load")

(* dif == 0: try to claim the cell; dif < 0: the queue is full, publish()  *)
(* releases the buffer and fails; else pos was stale.                      *)
EnqueueSeq(t) ==
    LET s == seq[Cell(pos[t])] IN
    /\ Goto(t, "enqueue_seq", IF s = pos[t] THEN "enqueue_cas"
                              ELSE IF s < pos[t] THEN Release
                              ELSE "enqueue_load")
    /\ UNCHANGED <<head, link, pos, buf, poolVars, queueVars, ownerVars,
                   workerVars>>

EnqueueCas(t) ==
    /\ enqueue_pos = pos[t]
    /\ Goto(t, "enqueue_cas", "enqueue_data")
    /\ enqueue_pos' = pos[t] + 1
    /\ order' = Append(order, filled[buf[t]])
    /\ UNCHANGED <<seq, data, dequeue_pos, head, link, pos, buf, poolVars,
                   ownerVars, workerVars>>

EnqueueRetry(t) ==
    /\ enqueue_pos # pos[t]
    /\ Goto(t, "enqueue_cas", "enqueue_seq")
    /\ pos' = [pos EXCEPT ![t] = enqueue_pos]
    /\ UNCHANGED <<head, link, buf, poolVars, queueVars, ownerVars, workerVars>>

EnqueueData(t) ==
    /\ Goto(t, "enqueue_data", "enqueue_store")
    /\ data' = [data EXCEPT ![Cell(pos[t])] = buf[t]]
    /\ UNCHANGED <<seq, enqueue_pos, dequeue_pos, order, head, link, pos, buf,
                   poolVars, ownerVars, workerVars>>

\* Mutation: publish() does not take the buffer from the handle.
Bug_EnqueueStore(t) ==
    /\ Goto(t, "enqueue_store", Release)
    /\ seq' = [seq EXCEPT ![Cell(pos[t])] = pos[t] + 1]
    /\ pos' = [pos EXCEPT ![t] = 0]
    /\ UNCHANGED <<data, enqueue_pos, dequeue_pos, order, head, link, buf,
                   poolVars, ownerVars, workerVars>>

EnqueueStore(t) ==
    /\ Goto(t, "enqueue_store", "idle")
    /\ seq' = [seq EXCEPT ![Cell(pos[t])] = pos[t] + 1]
    /\ buf' = [buf EXCEPT ![t] = None]
    /\ pos' = [pos EXCEPT ![t] = 0]
    /\ UNCHANGED <<data, enqueue_pos, dequeue_pos, order, head, link,
                   poolVars, ownerVars, workerVars>>

-----------------------------------------------------------------------------
(* dispatch_loop(): dequeue_batch() collects until the queue is empty or the *)
(* batch is full, and the loop that follows stop() dequeues one index at a  *)
(* time and releases it.  A value that a thread has read and no longer uses *)
(* is forgotten.                                                           *)

W == Worker

(* The load of running_, and of dequeue_pos_ by the dequeue() that follows. *)
Check ==
    /\ Goto(W, "check", IF running THEN "dequeue_seq" ELSE "drain_seq")
    /\ pos' = [pos EXCEPT ![W] = dequeue_pos]
    /\ copied' = {}
    /\ UNCHANGED <<head, link, buf, batch, got, poolVars, queueVars, ownerVars>>

Ready == seq[Cell(pos[W])] = pos[W] + 1

(* The compare-and-swap of dequeue_pos_ cannot fail: the worker is the only *)
(* thread that dequeues.  It and the load of seq are one step.              *)
Dequeue ==
    /\ Ready
    /\ Len(batch) < kBatch
    /\ \/ Goto(W, "dequeue_seq", "dequeue_store")
       \/ Goto(W, "drain_seq", "drain_store")
    /\ dequeue_pos' = pos[W] + 1
    /\ buf' = [buf EXCEPT ![W] = data[Cell(pos[W])]]
    /\ UNCHANGED <<seq, data, enqueue_pos, order, head, link, pos, poolVars,
                   ownerVars, workerVars>>

DequeueStore ==
    /\ Goto(W, "dequeue_store", "dequeue_seq")
    /\ seq' = [seq EXCEPT ![Cell(pos[W])] = pos[W] + Capacity]
    /\ pos' = [pos EXCEPT ![W] = dequeue_pos]
    /\ batch' = Append(batch, buf[W])
    /\ buf' = [buf EXCEPT ![W] = None]
    /\ UNCHANGED <<data, enqueue_pos, dequeue_pos, order, head, link, poolVars,
                   ownerVars, copied, got>>

DrainStore ==
    /\ Goto(W, "drain_store", Release)
    /\ seq' = [seq EXCEPT ![Cell(pos[W])] = pos[W] + Capacity]
    /\ pos' = [pos EXCEPT ![W] = 0]
    /\ UNCHANGED <<data, enqueue_pos, dequeue_pos, order, head, link, buf,
                   poolVars, ownerVars, workerVars>>

\* Mutation: the loop ends when there is nothing to dequeue.
Bug_Idle ==
    /\ ~Ready
    /\ batch = <<>>
    /\ Goto(W, "dequeue_seq", "off")
    /\ pos' = [pos EXCEPT ![W] = 0]
    /\ UNCHANGED <<head, link, buf, poolVars, queueVars, ownerVars, workerVars>>

(* Nothing (more) to dequeue: the wait on cv_ times out after 50 us.        *)
Idle ==
    /\ ~Ready
    /\ batch = <<>>
    /\ Goto(W, "dequeue_seq", "check")
    /\ pos' = [pos EXCEPT ![W] = 0]
    /\ UNCHANGED <<head, link, buf, poolVars, queueVars, ownerVars, workerVars>>

Drained ==
    /\ ~Ready
    /\ Goto(W, "drain_seq", "off")
    /\ pos' = [pos EXCEPT ![W] = 0]
    /\ UNCHANGED <<head, link, buf, poolVars, queueVars, ownerVars, workerVars>>

CopyHandlers ==
    /\ batch # <<>>
    /\ ~Ready \/ Len(batch) = kBatch
    /\ Goto(W, "dequeue_seq", "deliver")
    /\ copied' = handlers
    /\ pos' = [pos EXCEPT ![W] = 0]
    /\ UNCHANGED <<head, link, buf, batch, got, poolVars, queueVars, ownerVars>>

\* Mutation: the batch is delivered from its end.
Bug_Deliver ==
    LET last == batch[Len(batch)] IN
    /\ Goto(W, "deliver", Release)
    /\ got' = [s \in Subs |-> IF s \in copied THEN Append(got[s], filled[last])
                              ELSE got[s]]
    /\ buf' = [buf EXCEPT ![W] = last]
    /\ batch' = SubSeq(batch, 1, Len(batch) - 1)
    /\ UNCHANGED <<head, link, pos, copied, poolVars, queueVars, ownerVars>>

(* The handlers are called outside handler_mutex_. *)
Deliver ==
    /\ Goto(W, "deliver", Release)
    /\ got' = [s \in Subs |-> IF s \in copied
                              THEN Append(got[s], filled[Head(batch)])
                              ELSE got[s]]
    /\ buf' = [buf EXCEPT ![W] = Head(batch)]
    /\ batch' = Tail(batch)
    /\ UNCHANGED <<head, link, pos, copied, poolVars, queueVars, ownerVars>>

-----------------------------------------------------------------------------
(* The owner subscribes and stops; a token of subscribe_scoped() is reset by *)
(* anyone, at any time (subscribe() detaches its own).                     *)

Subscribe(s) ==
    /\ ctl = "idle"
    /\ s \notin subscribed
    /\ subscribed' = subscribed \cup {s}
    /\ handlers' = handlers \cup {s}
    /\ ctl' = "start"
    /\ UNCHANGED <<running, poolVars, queueVars, localVars, workerVars>>

Start ==
    /\ ctl = "start"
    /\ running' = TRUE
    /\ pc' = [pc EXCEPT ![W] = IF running THEN @ ELSE "check"]
    /\ ctl' = "idle"
    /\ UNCHANGED <<handlers, subscribed, head, link, pos, buf, poolVars,
                   queueVars, workerVars>>

Reset(s) ==
    /\ s \in handlers \cap Scoped
    /\ handlers' = handlers \ {s}
    /\ UNCHANGED <<running, ctl, subscribed, poolVars, queueVars, localVars,
                   workerVars>>

StopFlag ==
    /\ ctl = "idle"
    /\ running
    /\ running' = FALSE
    /\ ctl' = "join"
    /\ UNCHANGED <<handlers, subscribed, poolVars, queueVars, localVars,
                   workerVars>>

StopJoin ==
    /\ ctl = "join"
    /\ pc[W] = "off"
    /\ handlers' = {}
    /\ ctl' = "idle"
    /\ UNCHANGED <<running, subscribed, poolVars, queueVars, localVars,
                   workerVars>>

-----------------------------------------------------------------------------
(* The next-state relation.  A compare_exchange_weak that fails though the  *)
(* values agree goes round its loop again, to the same end.                *)

ReleaseSteps(t) == \/ ReleaseLoad(t) \/ ReleaseStore(t) \/ ReleaseCas(t)
                   \/ ReleaseRetry(t)

PublishSteps(t) == \/ AcquireNext(t) \/ AcquireCas(t) \/ AcquireRetry(t)
                   \/ EnqueueReload(t) \/ EnqueueSeq(t) \/ EnqueueCas(t)
                   \/ EnqueueRetry(t) \/ EnqueueData(t) \/ EnqueueStore(t)
                   \/ ReleaseSteps(t)

WorkerSteps == \/ Check \/ Dequeue \/ DequeueStore \/ DrainStore \/ Idle
               \/ Drained \/ CopyHandlers \/ Deliver \/ ReleaseSteps(Worker)

Next == \/ \E t \in Publishers : \/ AcquireLoad(t) \/ Drop(t)
                                 \/ PublishHandle(t) \/ PublishSteps(t)
        \/ \E t, u \in Publishers : Give(t, u)
        \/ WorkerSteps
        \/ \E s \in Subs : Subscribe(s) \/ Reset(s)
        \/ Start \/ StopFlag \/ StopJoin

Spec == Init /\ [][Next]_vars

Fairness == /\ \A t \in Publishers : WF_vars(PublishSteps(t))
            /\ WF_vars(WorkerSteps)
            /\ WF_vars(Start \/ StopJoin)

FairSpec == Spec /\ Fairness

-----------------------------------------------------------------------------
(* Properties *)

(* The types of the variables, and the indices each thread may have in hand *)
(* where it is (the handle a publish() has given up is no longer there).    *)
PCs == {"off", "idle", "held", "acquire_next", "acquire_cas", "enqueue_load",
        "enqueue_seq", "enqueue_cas", "enqueue_data", "enqueue_store", "check",
        "dequeue_seq", "dequeue_store", "drain_seq", "drain_store", "deliver",
        "release_load", "release_store", "release_cas"}

EmptyHanded == {"off", "idle", "acquire_next", "acquire_cas", "check",
                "dequeue_seq", "drain_seq", "deliver"}

Index == Nodes \cup {None}

TypeOK ==
    /\ next \in [Nodes -> Index] /\ free_head \in Index
    /\ allocs \in 0..MaxAllocs /\ filled \in [Nodes -> 0..MaxAllocs]
    /\ seq \in [Nodes -> Nat] /\ data \in [Nodes -> Index]
    /\ enqueue_pos \in Nat /\ dequeue_pos \in 0..enqueue_pos
    /\ order \in Seq(1..MaxAllocs)
    /\ handlers \subseteq subscribed /\ subscribed \subseteq Subs
    /\ running \in BOOLEAN /\ ctl \in {"idle", "start", "join"}
    /\ pc \in [Threads -> PCs]
    /\ head \in [Threads -> Index] /\ link \in [Threads -> Index]
    /\ pos \in [Threads -> Nat] /\ buf \in [Threads -> Index]
    /\ \A t \in Threads : buf[t] = None <=> pc[t] \in EmptyHanded
    /\ batch \in Seq(Nodes) /\ Len(batch) <= kBatch
    /\ copied \subseteq subscribed
    /\ got \in [Subs -> Seq(1..MaxAllocs)]

(* What the free list may hold, and what free_head_ and the links lead to.  *)
Lists == UNION {[1..n -> Nodes] : n \in 0..Capacity}

Linked(list) ==
    /\ free_head = IF list = <<>> THEN None ELSE list[1]
    /\ \A k \in DOMAIN list :
           next[list[k]] = IF k = Len(list) THEN None ELSE list[k + 1]

Stored == {p \in dequeue_pos..(enqueue_pos - 1) : seq[Cell(p)] = p + 1}

(* The places where buffer i is: in the free list, in a thread's hands, in  *)
(* the queue, in the worker's batch.                                        *)
Places(list, i) == Cardinality({k \in DOMAIN list : list[k] = i})
                   + Cardinality({t \in Threads : buf[t] = i})
                   + Cardinality({p \in Stored : data[Cell(p)] = i})
                   + Cardinality({k \in DOMAIN batch : batch[k] = i})

(* A BufferHandle is the only owner of its buffer: no buffer is ever leaked *)
(* or owned twice, through the races of acquire() and release() on the free *)
(* list and of enqueue() and dequeue() on the cells.                        *)
OneOwner == \E list \in Lists :
    Linked(list) /\ \A i \in Nodes : Places(list, i) = 1

(* No message is missed.  The pool has as many buffers as the queue has     *)
(* cells, so publish() of a valid handle never finds the queue full,        *)
(* however far its cells lag behind the positions; and from the first       *)
(* message a handler is called with to the last, it is called with every    *)
(* message, once, in the order of the queue: across batches, subscriptions  *)
(* made and reset, stop() and a second start.                               *)
NoGaps ==
    /\ \A t \in Publishers :
           pc[t] = "enqueue_seq" => seq[Cell(pos[t])] >= pos[t]
    /\ \A s \in Subs : \E from \in 0..(Len(order) - Len(got[s])) :
           got[s] = SubSeq(order, from + 1, from + Len(got[s]))

Free(i) == \E list \in Lists :
    Linked(list) /\ \E k \in DOMAIN list : list[k] = i

(* A published buffer comes back to the pool while the channel is not       *)
(* stopped: the worker may miss the notify of publish(), but not for long.  *)
(* And stop() returns: the worker sees the flag, drains what is left and    *)
(* ends.                                                                   *)
Recycled ==
    /\ \A i \in Nodes : (running /\ \E p \in Stored : data[Cell(p)] = i)
                        ~> (~running \/ Free(i))
    /\ ctl = "join" ~> ctl = "idle"
=============================================================================
