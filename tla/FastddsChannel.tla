--------------------------- MODULE FastddsChannel ---------------------------
(***************************************************************************)
(* wxz::core::FastddsChannel (src/fastdds_channel.cpp) and the pool of      *)
(* buffers it leases to a handler (src/byte_buffer_pool.cpp): FastDDS calls *)
(* the listener, which takes the samples of the reader one by one and gives *)
(* each to the handlers, in place or through an executor or strand; the     *)
(* owner subscribes, stops and destroys the channel meanwhile.              *)
(*                                                                         *)
(* The executor is TaskService, the specification that Executor and Strand  *)
(* implement; it may refuse a task, and a strand that stops discards those  *)
(* it has.  FastDDS is external: it calls the listener of a reader from one *)
(* thread at a time, while there are samples and a listener.                *)
(***************************************************************************)
EXTENDS Naturals, Sequences, FiniteSets, SequencesExt

CONSTANTS Handlers,  \* the ordinary handlers, each subscribed once
          Posted,    \* those that run on the executor
          Leased,    \* the handler that takes leases
          Buffers,   \* the buffers of the pool
          Slots,     \* the places where the executor runs tasks
          None,
          MaxMsgs,   \* bound: how many samples arrive
          MaxLeased  \* bound: how often subscribe_leased() is called

ASSUME ChannelAssumption ==
    /\ Posted \subseteq Handlers
    /\ Leased \notin Handlers
    /\ None \notin Buffers \cup {"inline", "posted"}
    /\ IsFiniteSet(Handlers) /\ IsFiniteSet(Buffers)
    /\ {MaxMsgs, MaxLeased} \subseteq Nat

All == Handlers \cup {Leased}
Msgs == 1..MaxMsgs

\* A closure that was posted: the handler, the message, and the lease it owns.
Tasks == [to : Posted \cup {Leased}, msg : Msgs, buf : Buffers \cup {None}]
NoTask == [to |-> None, msg |-> 0, buf |-> None]

VARIABLES handlers,  \* handlers_
          leased,    \* leased_handler_ and where it runs, or None
          free,      \* the pool's free buffers
          lease,     \* msg_.lease of the listener
          arrived, taken, \* the samples of the reader
          cb,        \* the listener's callback, and its local variables
          stopping, inflight, \* stopping_, callbacks_inflight_
          listener,  \* the listener: set, unset or deleted
          ctl,       \* where the owner is in cleanup()
          late,      \* cleanup() gave up waiting
          undefined, \* the code has used what was deleted
          subscribed, renewals, \* the subscriptions made so far
          queue, slot, finished, dropped, \* the executor
          due, got, lost \* per handler: the messages it was to be given, was
                         \* called with, and that were dropped

exVars == <<queue, slot, finished, dropped>>
subVars == <<handlers, leased, subscribed, renewals>>
tearVars == <<stopping, listener, ctl, late>>
otherVars == <<subVars, tearVars, arrived, undefined>>
vars == <<otherVars, free, lease, taken, cb, inflight, exVars, due, got, lost>>

Ex == INSTANCE TaskService WITH None <- NoTask, Discards <- TRUE

Out == [at |-> "out", want |-> FALSE, todo |-> <<>>, leased |-> None,
        hold |-> None]

Init == /\ handlers = <<>> /\ leased = None
        /\ subscribed = {} /\ renewals = 0
        /\ free = SetToSeq(Buffers)
        /\ lease = None
        /\ arrived = 0 /\ taken = 0
        /\ cb = Out
        /\ stopping = FALSE /\ inflight = 0
        /\ listener = "set" /\ ctl = "open" /\ late = FALSE
        /\ undefined = FALSE
        /\ Ex!Init
        /\ due = [h \in All |-> {}] /\ got = [h \in All |-> <<>>]
        /\ lost = [h \in All |-> {}]

At(place) == cb.at = place /\ listener # "deleted"

Returned(b) == IF b = None THEN free ELSE Append(free, b)
Add(f, h) == [f EXCEPT ![h] = @ \cup {taken}]

-----------------------------------------------------------------------------
(* ReaderListener::on_data_available() *)

Arrive == /\ arrived < MaxMsgs /\ listener # "deleted"
          /\ arrived' = arrived + 1
          /\ UNCHANGED <<subVars, tearVars, undefined, free, lease, taken,
                         cb, inflight, exVars, due, got, lost>>

CallbackUnchanged == UNCHANGED <<otherVars, exVars, got>>

\* The test of stopping_, which comes before the callback counts itself.
Enter == /\ cb.at = "out" /\ listener = "set" /\ taken < arrived /\ ~stopping
         /\ cb' = [cb EXCEPT !.at = "count"]
         /\ CallbackUnchanged
         /\ UNCHANGED <<free, lease, taken, inflight, due, lost>>

Count == /\ At("count")
         /\ cb' = [cb EXCEPT !.at = "configure"]
         /\ inflight' = inflight + 1
         /\ CallbackUnchanged
         /\ UNCHANGED <<free, lease, taken, due, lost>>

Configure == /\ At("configure")
             /\ cb' = [cb EXCEPT !.at = "take", !.want = leased # None]
             /\ CallbackUnchanged
             /\ UNCHANGED <<free, lease, taken, inflight, due, lost>>

(* RawMsg::writable_ptr(): the sample is copied to the lease the listener   *)
(* has kept, or to a buffer of the pool, if it fits there.                  *)
TakeToBuffer ==
    /\ cb.want
    /\ IF lease = None /\ free # <<>>
       THEN lease' = Head(free) /\ free' = Tail(free)
       ELSE lease # None /\ UNCHANGED <<lease, free>>

\* Otherwise it is copied to the vector, and a lease the listener has, or has
\* just acquired, is given back.
TakeToVector ==
    /\ lease' = None
    /\ free' = IF cb.want /\ lease = None /\ free # <<>>
               THEN Append(Tail(free), Head(free)) ELSE Returned(lease)

Take == /\ At("take") /\ taken < arrived
        /\ taken' = taken + 1
        /\ cb' = [cb EXCEPT !.at = "test"]
        /\ TakeToBuffer \/ TakeToVector
        /\ CallbackUnchanged
        /\ UNCHANGED <<inflight, due, lost>>

\* A callback that sees stopping_ gives the sample up; a sample that says the
\* instance is gone is passed over.
Test == /\ At("test")
        /\ cb' = [cb EXCEPT !.at = IF stopping THEN "leave" ELSE "copy"]
        /\ CallbackUnchanged
        /\ UNCHANGED <<free, lease, taken, inflight, due, lost>>

NotAlive == /\ At("test") /\ ~stopping
            /\ cb' = [cb EXCEPT !.at = "take"]
            /\ CallbackUnchanged
            /\ UNCHANGED <<free, lease, taken, inflight, due, lost>>

Copy == LET to == IF cb.want THEN leased ELSE None IN
        /\ At("copy")
        /\ cb' = [cb EXCEPT !.at = "deliver", !.todo = handlers, !.leased = to]
        /\ due' = [h \in All |->
                      IF h \in Ex!InSeq(handlers) \/ (h = Leased /\ to # None)
                      THEN due[h] \cup {taken} ELSE due[h]]
        /\ CallbackUnchanged
        /\ UNCHANGED <<free, lease, taken, inflight, lost>>

Call(h) == got' = [got EXCEPT ![h] = Append(@, taken)]

DeliverInPlace ==
    /\ At("deliver") /\ cb.todo # <<>> /\ Head(cb.todo) \notin Posted
    /\ Call(Head(cb.todo))
    /\ cb' = [cb EXCEPT !.todo = Tail(@)]
    /\ UNCHANGED <<otherVars, exVars, free, lease, taken, inflight, due, lost>>

DeliverPost ==
    /\ At("deliver") /\ cb.todo # <<>> /\ Head(cb.todo) \in Posted
    /\ Ex!Submit([to |-> Head(cb.todo), msg |-> taken, buf |-> None])
    /\ cb' = [cb EXCEPT !.todo = Tail(@)]
    /\ UNCHANGED <<otherVars, got, free, lease, taken, inflight, due, lost>>

\* Mutation: a refused task ends the delivery of the sample.
Bug_DeliverRefused ==
    /\ At("deliver") /\ cb.todo # <<>> /\ Head(cb.todo) \in Posted
    /\ lost' = Add(lost, Head(cb.todo))
    /\ cb' = [cb EXCEPT !.at = "take", !.todo = <<>>]
    /\ CallbackUnchanged
    /\ UNCHANGED <<free, lease, taken, inflight, due>>

DeliverRefused ==
    /\ At("deliver") /\ cb.todo # <<>> /\ Head(cb.todo) \in Posted
    /\ lost' = Add(lost, Head(cb.todo))
    /\ cb' = [cb EXCEPT !.todo = Tail(@)]
    /\ CallbackUnchanged
    /\ UNCHANGED <<free, lease, taken, inflight, due>>

\* The leased handler comes after the others and takes the lease out of msg_.
LeasedTurn == At("deliver") /\ cb.todo = <<>>

NoLeased == /\ LeasedTurn /\ cb.leased = None
            /\ cb' = [cb EXCEPT !.at = "take"]
            /\ CallbackUnchanged
            /\ UNCHANGED <<free, lease, taken, inflight, due, lost>>

PoolExhausted == /\ LeasedTurn /\ cb.leased # None /\ lease = None
                 /\ cb' = [cb EXCEPT !.at = "take", !.leased = None]
                 /\ lost' = Add(lost, Leased)
                 /\ CallbackUnchanged
                 /\ UNCHANGED <<free, lease, taken, inflight, due>>

LeasedPost ==
    /\ LeasedTurn /\ cb.leased = "posted" /\ lease # None
    /\ Ex!Submit([to |-> Leased, msg |-> taken, buf |-> lease])
    /\ lease' = None
    /\ cb' = [cb EXCEPT !.at = "take", !.leased = None]
    /\ UNCHANGED <<otherVars, got, free, taken, inflight, due, lost>>

\* Mutation: a refused lease stays in msg_ as well.
Bug_LeasedRefused ==
    /\ LeasedTurn /\ cb.leased = "posted" /\ lease # None
    /\ lost' = Add(lost, Leased)
    /\ free' = Returned(lease)
    /\ cb' = [cb EXCEPT !.at = "take", !.leased = None]
    /\ CallbackUnchanged
    /\ UNCHANGED <<lease, taken, inflight, due>>

\* The refused closure is destroyed, and the lease it owns with it.
LeasedRefused ==
    /\ LeasedTurn /\ cb.leased = "posted" /\ lease # None
    /\ lost' = Add(lost, Leased)
    /\ free' = Returned(lease) /\ lease' = None
    /\ cb' = [cb EXCEPT !.at = "take", !.leased = None]
    /\ CallbackUnchanged
    /\ UNCHANGED <<taken, inflight, due>>

\* In place: the handler has the lease until it returns.
LeasedCall == /\ LeasedTurn /\ cb.leased = "inline" /\ lease # None
              /\ Call(Leased)
              /\ lease' = None
              /\ cb' = [cb EXCEPT !.at = "leased", !.leased = None,
                                  !.hold = lease]
              /\ UNCHANGED <<otherVars, exVars, free, taken, inflight, due,
                             lost>>

LeasedReturns == /\ At("leased")
                 /\ free' = Returned(cb.hold)
                 /\ cb' = [cb EXCEPT !.at = "take", !.hold = None]
                 /\ CallbackUnchanged
                 /\ UNCHANGED <<lease, taken, inflight, due, lost>>

Leave == /\ At("leave") \/ (At("take") /\ taken = arrived)
         /\ cb' = Out
         /\ inflight' = inflight - 1
         /\ CallbackUnchanged
         /\ UNCHANGED <<free, lease, taken, due, lost>>

\* What the callback does once the listener it belongs to is deleted.
Dangle == /\ cb.at # "out" /\ listener = "deleted"
          /\ undefined' = TRUE
          /\ UNCHANGED <<subVars, tearVars, arrived, free, lease, taken,
                         cb, inflight, exVars, due, got, lost>>

-----------------------------------------------------------------------------
(* The tasks on the executor.  A task owns its lease until it has run or is  *)
(* destroyed; a handler is not to keep it longer.                           *)

ExecutorUnchanged == UNCHANGED <<otherVars, lease, taken, cb, inflight, due>>

Begin(s) == /\ Ex!Begin(s)
            /\ got' = [got EXCEPT ![Head(queue).to] =
                                  Append(@, Head(queue).msg)]
            /\ ExecutorUnchanged
            /\ UNCHANGED <<free, lost>>

End(s) == /\ Ex!End(s)
          /\ free' = Returned(slot[s].buf)
          /\ ExecutorUnchanged
          /\ UNCHANGED <<got, lost>>

MsgsFor(h, tasks) == {k.msg : k \in {k \in tasks : k.to = h}}

LeasesIn(tasks) == {k.buf : k \in tasks} \ {None}

\* The order in which a strand's deque destroys the closures is the library's.
Discard == /\ Ex!Discard
           /\ free' = free \o SetToSeq(LeasesIn(Ex!InSeq(queue)))
           /\ lost' = [h \in All |-> lost[h] \cup MsgsFor(h, Ex!InSeq(queue))]
           /\ ExecutorUnchanged
           /\ UNCHANGED got

-----------------------------------------------------------------------------
(* The owner: subscriptions, stop() and the destructor's cleanup(). *)

OwnerUnchanged == UNCHANGED <<arrived, taken, cb, inflight, exVars, due,
                              got, lost>>

Subscribe(h) == /\ ctl = "open" /\ h \notin subscribed
                /\ handlers' = Append(handlers, h)
                /\ subscribed' = subscribed \cup {h}
                /\ OwnerUnchanged
                /\ UNCHANGED <<leased, renewals, tearVars, undefined, free,
                               lease>>

SubscribeLeased(where) ==
    /\ ctl = "open" /\ renewals < MaxLeased
    /\ leased' = where
    /\ renewals' = renewals + 1
    /\ OwnerUnchanged
    /\ UNCHANGED <<handlers, subscribed, tearVars, undefined, free, lease>>

(* The end of a Subscription, or unsubscribe_owner(). *)
\* A handler has one entry, by its id.
Reset(h) == /\ ctl = "open"
            /\ \E i \in DOMAIN handlers : handlers[i] = h
                                       /\ handlers' = RemoveAt(handlers, i)
            /\ OwnerUnchanged
            /\ UNCHANGED <<leased, subscribed, renewals, tearVars, undefined,
                           free, lease>>

NoHandlers == /\ handlers' = <<>> /\ leased' = None
              /\ UNCHANGED <<subscribed, renewals>>

Stop == /\ ctl = "open" /\ (handlers # <<>> \/ leased # None)
        /\ NoHandlers
        /\ OwnerUnchanged
        /\ UNCHANGED <<tearVars, undefined, free, lease>>

CleanupFlag == /\ ctl = "open"
               /\ stopping' = TRUE /\ ctl' = "clear"
               /\ OwnerUnchanged
               /\ UNCHANGED <<subVars, listener, late, undefined, free,
                              lease>>

CleanupClear == /\ ctl = "clear"
                /\ NoHandlers /\ ctl' = "unlisten"
                /\ OwnerUnchanged
                /\ UNCHANGED <<stopping, listener, late, undefined,
                               free, lease>>

CleanupUnlisten == /\ ctl = "unlisten"
                   /\ listener' = "unset" /\ ctl' = "wait"
                   /\ OwnerUnchanged
                   /\ UNCHANGED <<subVars, stopping, late, undefined,
                                  free, lease>>

\* Mutation: the callbacks inside are not waited for.
Bug_CleanupWait == /\ ctl = "wait"
                   /\ late' = FALSE
                   /\ ctl' = "delete"
                   /\ OwnerUnchanged
                   /\ UNCHANGED <<subVars, stopping, listener, undefined, free,
                                  lease>>

(* cleanup() waits for the callbacks to leave, at most 200 ms. *)
CleanupWait == /\ ctl = "wait"
               /\ late' = (inflight # 0)
               /\ ctl' = "delete"
               /\ OwnerUnchanged
               /\ UNCHANGED <<subVars, stopping, listener, undefined,
                              free, lease>>

\* Mutation: the lease that the listener has kept is not given back.
Bug_CleanupDelete ==
    /\ ctl = "delete"
    /\ listener' = "deleted" /\ ctl' = "gone"
    /\ OwnerUnchanged
    /\ UNCHANGED <<subVars, stopping, late, undefined, free, lease>>

\* The listener is destroyed with its msg_, and msg_ with the lease it kept.
CleanupDelete == /\ ctl = "delete"
                 /\ listener' = "deleted" /\ ctl' = "gone"
                 /\ free' = Returned(lease) /\ lease' = None
                 /\ OwnerUnchanged
                 /\ UNCHANGED <<subVars, stopping, late, undefined>>

-----------------------------------------------------------------------------
Callback == \/ Enter \/ Count \/ Configure \/ Take \/ Test \/ NotAlive \/ Copy
            \/ DeliverInPlace \/ DeliverPost \/ DeliverRefused
            \/ NoLeased \/ PoolExhausted \/ LeasedPost \/ LeasedRefused
            \/ LeasedCall \/ LeasedReturns \/ Leave \/ Dangle

Tasking == (\E s \in Slots : Begin(s) \/ End(s)) \/ Discard

Owner == \/ \E h \in Handlers : Subscribe(h) \/ Reset(h)
         \/ \E where \in {"inline", "posted"} : SubscribeLeased(where)
         \/ Stop
         \/ CleanupFlag \/ CleanupClear \/ CleanupUnlisten \/ CleanupWait
         \/ CleanupDelete

\* Behaviours are not followed further once the code has used what it deleted.
Next == ~undefined /\ (Arrive \/ Callback \/ Tasking \/ Owner)

Spec == Init /\ [][Next]_vars

(* FastDDS lets a callback it has called run to its end, and the executor    *)
(* runs its tasks; neither the owner nor the samples are in a hurry.         *)
FairSpec == /\ Spec
            /\ WF_vars(~undefined /\ Callback)
            /\ WF_vars(~undefined /\ Tasking)

-----------------------------------------------------------------------------
Places == {"out", "count", "configure", "take", "test", "copy", "deliver",
           "leased", "leave"}
Ways == {"inline", "posted", None}

TypeOK ==
    /\ subscribed \subseteq Handlers /\ handlers \in Seq(subscribed)
    /\ leased \in Ways /\ renewals \in Nat
    /\ free \in Seq(Buffers) /\ lease \in Buffers \cup {None}
    /\ arrived \in 0..MaxMsgs /\ taken \in 0..arrived
    /\ cb \in [at : Places, want : BOOLEAN, todo : Seq(subscribed),
               leased : Ways, hold : Buffers \cup {None}]
    /\ inflight \in {0, 1} /\ {stopping, late, undefined} \subseteq BOOLEAN
    /\ listener \in {"set", "unset", "deleted"}
    /\ ctl \in {"open", "clear", "unlisten", "wait", "delete", "gone"}
    /\ queue \in Seq(Tasks) /\ slot \in [Slots -> Tasks \cup {NoTask}]
    /\ finished \cup dropped \subseteq Tasks
    /\ {due, lost} \subseteq [All -> SUBSET Msgs] /\ got \in [All -> Seq(Msgs)]

-----------------------------------------------------------------------------
(* Properties. *)

Running == {slot[s] : s \in Slots} \ {NoTask}
Alive == Running \cup Ex!InSeq(queue)
Owners(b) == Cardinality({i \in DOMAIN free : free[i] = b})
             + Cardinality({k \in Alive : k.buf = b})
             + (IF lease = b THEN 1 ELSE 0) + (IF cb.hold = b THEN 1 ELSE 0)

(* A buffer of the pool is free, or in msg_, or with the handler that runs   *)
(* in the callback, or with one task: it is never lost and no two leases    *)
(* share it, whatever is refused, discarded or torn down on the way.        *)
OneOwner == \A b \in Buffers : Owners(b) = 1

Pending(h) == IF \/ h \in Ex!InSeq(cb.todo)
                 \/ h = Leased /\ cb.leased # None
              THEN {taken} ELSE {}

Shares(h) == <<Ex!InSeq(got[h]), MsgsFor(h, Ex!InSeq(queue)), lost[h],
               Pending(h)>>

Increasing(s) == \A i, j \in DOMAIN s : i < j => s[i] < s[j]

(* What a handler was to be given, it has been called with, or waits on the  *)
(* executor, or was dropped and counted: each message in one of these, none  *)
(* twice, though handlers come and go and the callback works on a copy.      *)
(* An ordinary handler sees the messages in the order of the reader.         *)
Accounted == \A h \in All :
    /\ due[h] = UNION {Shares(h)[i] : i \in DOMAIN Shares(h)}
    /\ \A i, j \in DOMAIN Shares(h) :
          i # j => Shares(h)[i] \cap Shares(h)[j] = {}
    /\ Cardinality(Ex!InSeq(got[h])) = Len(got[h])
    /\ h # Leased => Increasing(got[h])

(* When cleanup() has waited and not given up, the callback is not calling a *)
(* handler and will not call one any more: a callback that was not counted   *)
(* yet when cleanup() looked may still be inside, but it finds stopping_ set  *)
(* and the handlers gone.                                                   *)
Awaited == ctl \in {"delete", "gone"} /\ ~late =>
              cb.todo = <<>> /\ cb.leased = None /\ cb.hold = None

AllFree == Ex!InSeq(free) = Buffers

(* Once the channel is gone, every buffer comes back to the pool.            *)
LeasesReturn == (ctl = "gone") ~> (AllFree \/ undefined)
=============================================================================
