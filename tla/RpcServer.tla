----------------------------- MODULE RpcServer -----------------------------
(***************************************************************************)
(* wxz::core::rpc::RpcServer (src/rpc_service.cpp): a request becomes a     *)
(* callback of on_request(), run on the listener's thread (inline) or       *)
(* posted to an executor (scheduled).  stop() sets stopping_, resets the    *)
(* request subscription while it holds mu_, waits up to 3 s for the         *)
(* callbacks that counted themselves, and resets the reply publisher.      *)
(*                                                                         *)
(* Callbacks are named by the request they are for.  The loads of           *)
(* stopping_ and rep_ and the counter are steps of their own.              *)
(***************************************************************************)
EXTENDS Naturals, FiniteSets

CONSTANTS Clients,      \* the subscribers of the reply topic
          Calls         \* what requests are made for

VARIABLES world,        \* how the server is set up and used, see Rpc
          serving,      \* started_
          listening,    \* whether req_ is there
          replier,      \* whether rep_ is there
          stopping,     \* stopping_
          inflight,     \* callbacks_inflight_
          ctl,          \* where the owner is in stop()
          serves,       \* how many times start() succeeded
          at,           \* where the callback for each request is
          early,        \* the callbacks counted when stop() set stopping_
          requests,     \* the requests on the request topic
          inbox,        \* the replies published for each client
          undefined     \* whether a publisher was used after it was reset

serverVars == <<serving, listening, replier, stopping, inflight, ctl,
                serves, at, early>>
vars == <<world, serverVars, requests, inbox, undefined>>

Init == /\ serving = FALSE /\ listening = FALSE /\ replier = FALSE
        /\ stopping = FALSE
        /\ inflight = 0
        /\ ctl = "idle"
        /\ serves = 0
        /\ at = [k \in Calls |-> "none"]
        /\ early = {}

Inside == {"found", "handler", "error", "reply", "uncount"}

-----------------------------------------------------------------------------
(* start() and stop(), called by the one thread that owns the server. *)

Start ==
    /\ ctl = "idle"
    /\ ~serving
    /\ serves < world.serves
    /\ serves' = serves + 1
    /\ stopping' = FALSE
    /\ listening' = TRUE /\ replier' = TRUE
    /\ serving' = TRUE
    /\ UNCHANGED <<inflight, ctl, at, early, requests, inbox, undefined>>

(* mu_ is taken, and held until the request subscription is reset. *)
StopFlag ==
    /\ ctl = "idle"
    /\ serving
    /\ stopping' = TRUE
    /\ listening' = FALSE
    /\ early' = {k \in Calls : at[k] \in Inside}
    /\ ctl' = "reset"
    /\ UNCHANGED <<serving, replier, inflight, serves, at, requests, inbox,
                   undefined>>

(* The subscription's destructor gives callbacks on the listener's thread   *)
(* 200 ms to return: they may be waiting for mu_ all that time, but they    *)
(* have counted themselves by then.                                        *)
StopReset ==
    /\ ctl = "reset"
    /\ ~world.scheduled => \A k \in Calls : at[k] \notin {"check", "count"}
    /\ ctl' = "wait"
    /\ UNCHANGED <<serving, listening, replier, stopping, inflight, serves,
                   at, early, requests, inbox, undefined>>

\* Mutation: the reply publisher goes first, the callbacks are waited for after.
Bug_StopFinish ==
    /\ ctl = "wait"
    /\ replier' = FALSE
    /\ serving' = (inflight # 0)
    /\ stopping' = (inflight # 0)
    /\ ctl' = IF inflight = 0 THEN "idle" ELSE "wait"
    /\ UNCHANGED <<listening, inflight, serves, at, early, requests, inbox,
                   undefined>>

StopFinish ==
    /\ ctl = "wait"
    /\ inflight = 0 \/ ~world.patient
    /\ replier' = FALSE
    /\ serving' = FALSE
    /\ stopping' = FALSE
    /\ ctl' = "idle"
    /\ UNCHANGED <<listening, inflight, serves, at, early, requests, inbox,
                   undefined>>

-----------------------------------------------------------------------------
(* on_request() *)

Moves(k, from, to) == /\ at[k] = from
                      /\ at' = [at EXCEPT ![k] = to]

Receive(m) ==
    /\ m \in requests
    /\ listening
    /\ Moves(m.call, "none", IF world.scheduled THEN "queued" ELSE "check")
    /\ UNCHANGED <<serving, listening, replier, stopping, inflight, ctl,
                   serves, early, requests, inbox, undefined>>

(* The executor runs the callback, whatever has become of the server. *)
Dispatch(k) ==
    /\ Moves(k, "queued", "check")
    /\ UNCHANGED <<serving, listening, replier, stopping, inflight, ctl,
                   serves, early, requests, inbox, undefined>>

Check(k) ==
    /\ Moves(k, "check", IF stopping THEN "done" ELSE "count")
    /\ UNCHANGED <<serving, listening, replier, stopping, inflight, ctl,
                   serves, early, requests, inbox, undefined>>

Count(k) ==
    /\ Moves(k, "count", "found")
    /\ inflight' = inflight + 1
    /\ UNCHANGED <<serving, listening, replier, stopping, ctl, serves,
                   early, requests, inbox, undefined>>

(* handlers_.find(op) under mu_, which stop() may be holding. *)
FindHandler(k) ==
    /\ ctl # "reset"
    /\ Moves(k, "found", "handler") \/ Moves(k, "found", "error")
    /\ UNCHANGED <<serving, listening, replier, stopping, inflight, ctl,
                   serves, early, requests, inbox, undefined>>

HandlerReturns(k) ==
    /\ Moves(k, "handler", "reply")
    /\ UNCHANGED <<serving, listening, replier, stopping, inflight, ctl,
                   serves, early, requests, inbox, undefined>>

Reply(m) == [id |-> m.id, of |-> m.call]

(* rep_->publish(), to the clients that listen. *)
Publish(m, listeners) ==
    /\ m \in requests
    /\ Moves(m.call, "reply", "uncount")
    /\ IF replier
       THEN /\ inbox' = [c \in Clients |-> IF c \in listeners
                                           THEN inbox[c] \cup {Reply(m)}
                                           ELSE inbox[c]]
            /\ UNCHANGED undefined
       ELSE /\ undefined' = TRUE
            /\ UNCHANGED inbox
    /\ UNCHANGED <<serving, listening, replier, stopping, inflight, ctl,
                   serves, early, requests>>

(* publish_error() publishes only after it has looked at both. *)
PublishError(k) ==
    /\ Moves(k, "error", IF stopping \/ ~replier THEN "uncount" ELSE "reply")
    /\ UNCHANGED <<serving, listening, replier, stopping, inflight, ctl,
                   serves, early, requests, inbox, undefined>>

(* ~InflightGuard() *)
Uncount(k) ==
    /\ Moves(k, "uncount", "done")
    /\ inflight' = inflight - 1
    /\ UNCHANGED <<serving, listening, replier, stopping, ctl, serves,
                   early, requests, inbox, undefined>>

-----------------------------------------------------------------------------
CallbackGoesOn(k, listeners) ==
    \/ Dispatch(k) \/ Check(k) \/ Count(k) \/ FindHandler(k)
    \/ HandlerReturns(k) \/ PublishError(k) \/ Uncount(k)
    \/ \E m \in requests : m.call = k /\ Publish(m, listeners)

StopGoesOn == StopReset \/ StopFinish

Next(listeners) == \/ Start \/ StopFlag \/ StopGoesOn
                   \/ \E m \in requests : Receive(m)
                   \/ \E k \in Calls : CallbackGoesOn(k, listeners)
=============================================================================
