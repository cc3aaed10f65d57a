----------------------------- MODULE RpcClient -----------------------------
(***************************************************************************)
(* wxz::core::rpc::RpcClient (src/rpc_client.cpp): every client that is on  *)
(* one request topic and one reply topic.  A call registers a promise under *)
(* its id, publishes the request and waits for the promise or a timeout;    *)
(* on_reply() and stop() take promises out of the pending map and fulfil    *)
(* them.                                                                   *)
(*                                                                         *)
(* The nth call of client c is <<c, n>>.  A request carries its id and, as  *)
(* its op and params, the call it was made by; a reply has the id of the    *)
(* request and, as its status and result, the call that was executed.       *)
(* Sections of mu_ are steps, set_value() comes after them.  Replies reach  *)
(* the reply topic's subscribers in any order, or not at all.              *)
(***************************************************************************)
EXTENDS Naturals, FiniteSets

CONSTANTS Clients,      \* the RpcClient objects
          Callers,      \* the threads that call
          ClientOf,     \* the client each of them uses
          Prefix,       \* the client_id_prefix of each client
          MaxCalls      \* bound: the calls made with one client

Calls == Clients \X (1..MaxCalls)

VARIABLES world,        \* how the clients are used, see Rpc
          started,      \* started_, and with it req_pub_ and rep_sub_
          starts,       \* how many times each client was started
          next_id,      \* next_id_
          pending,      \* pending_: the calls of a client whose ids are in it
          promise,      \* the promise of each call
          cancelling,   \* the promises stop() has yet to cancel
          replying,     \* the promises on_reply() has yet to fulfil
          pc,           \* where each caller is in call()
          seq,          \* the number of the call each caller is making
          outcome,      \* what call() returned
          requests,     \* the requests on the request topic
          inbox,        \* the replies published for each client
          undefined     \* whether a publisher was used after it was reset

clientVars == <<started, starts, next_id, pending, promise, cancelling,
                replying, pc, seq, outcome>>
vars == <<world, clientVars, requests, inbox, undefined>>

Unset == [code |-> "unset"]
Plain(code) == [code |-> code]

Request(k) == [id |-> <<Prefix[k[1]], k[2]>>, call |-> k]

Init == /\ started = [c \in Clients |-> FALSE]
        /\ starts = [c \in Clients |-> 0]
        /\ next_id = [c \in Clients |-> 1]
        /\ pending = [c \in Clients |-> {}]
        /\ promise = [k \in Calls |-> Unset]
        /\ cancelling = [c \in Clients |-> {}]
        /\ replying = [c \in Clients |-> {}]
        /\ pc = [t \in Callers |-> "idle"]
        /\ seq = [t \in Callers |-> 0]
        /\ outcome = [k \in Calls |-> Unset]
        /\ requests = {}
        /\ inbox = [c \in Clients |-> {}]
        /\ undefined = FALSE

-----------------------------------------------------------------------------
(* start() and stop(), called by the one thread that owns the client. *)

Start(c) ==
    /\ ~started[c] /\ cancelling[c] = {}
    /\ starts[c] < world.starts
    /\ started' = [started EXCEPT ![c] = TRUE]
    /\ starts' = [starts EXCEPT ![c] = @ + 1]
    /\ UNCHANGED <<next_id, pending, promise, cancelling, replying, pc, seq,
                   outcome, requests, inbox, undefined>>

\* Mutation: stop() clears pending_ and cancels nothing.
Bug_Stop(c) ==
    /\ started[c] /\ cancelling[c] = {}
    /\ pending' = [pending EXCEPT ![c] = {}]
    /\ started' = [started EXCEPT ![c] = FALSE]
    /\ UNCHANGED <<starts, next_id, promise, cancelling, replying, pc, seq,
                   outcome, requests, inbox, undefined>>

(* What stop() does under mu_, in one step.  The teardown of the channels    *)
(* inside it gives up on a callback that waits for mu_ after 200 ms; the    *)
(* callback then goes on.                                                  *)
Stop(c) ==
    /\ started[c] /\ cancelling[c] = {}
    /\ cancelling' = [cancelling EXCEPT ![c] = pending[c]]
    /\ pending' = [pending EXCEPT ![c] = {}]
    /\ started' = [started EXCEPT ![c] = FALSE]
    /\ UNCHANGED <<starts, next_id, promise, replying, pc, seq, outcome,
                   requests, inbox, undefined>>

(* pr->set_value(r): it throws, and is ignored, when there is a value. *)
SetValue(k, r) == promise' = [promise EXCEPT ![k] = IF @ = Unset THEN r ELSE @]

Cancel(k) ==
    LET c == k[1] IN
    /\ k \in cancelling[c]
    /\ SetValue(k, Plain("cancelled"))
    /\ cancelling' = [cancelling EXCEPT ![c] = @ \ {k}]
    /\ UNCHANGED <<started, starts, next_id, pending, replying, pc, seq,
                   outcome, requests, inbox, undefined>>

-----------------------------------------------------------------------------
(* call() *)

Mine(t) == <<ClientOf[t], seq[t]>>

Call(t) ==
    LET c == ClientOf[t] IN
    /\ t \in world.callers
    /\ pc[t] = "idle"
    /\ next_id[c] <= MaxCalls
    /\ seq' = [seq EXCEPT ![t] = next_id[c]]
    /\ next_id' = [next_id EXCEPT ![c] = @ + 1]
    /\ pc' = [pc EXCEPT ![t] = "register"]
    /\ UNCHANGED <<started, starts, pending, promise, cancelling, replying,
                   outcome, requests, inbox, undefined>>

Returns(t, r) == /\ outcome' = [outcome EXCEPT ![Mine(t)] = r]
                 /\ pc' = [pc EXCEPT ![t] = "idle"]

NotStarted(t) ==
    /\ pc[t] = "register"
    /\ ~started[ClientOf[t]]
    /\ Returns(t, Plain("not_started"))
    /\ UNCHANGED <<started, starts, next_id, pending, promise, cancelling,
                   replying, seq, requests, inbox, undefined>>

Register(t) ==
    LET c == ClientOf[t] IN
    /\ pc[t] = "register"
    /\ started[c]
    /\ pending' = [pending EXCEPT ![c] = @ \cup {Mine(t)}]
    /\ pc' = [pc EXCEPT ![t] = "publish"]
    /\ UNCHANGED <<started, starts, next_id, promise, cancelling, replying,
                   seq, outcome, requests, inbox, undefined>>

(* req_pub_->publish(), outside mu_: stop() may have reset req_pub_ since.  *)
(* A reset that overlaps the call is the same undefined behaviour.          *)
Publish(t) ==
    /\ pc[t] = "publish"
    /\ IF started[ClientOf[t]]
       THEN /\ requests' = requests \cup {Request(Mine(t))}
            /\ pc' = [pc EXCEPT ![t] = "wait"]
            /\ UNCHANGED undefined
       ELSE /\ undefined' = TRUE
            /\ UNCHANGED <<requests, pc>>
    /\ UNCHANGED <<started, starts, next_id, pending, promise, cancelling,
                   replying, seq, outcome, inbox>>

PublishFails(t) ==
    /\ pc[t] = "publish"
    /\ started[ClientOf[t]]
    /\ pc' = [pc EXCEPT ![t] = "failed"]
    /\ UNCHANGED <<started, starts, next_id, pending, promise, cancelling,
                   replying, seq, outcome, requests, inbox, undefined>>

Answered(t) ==
    /\ pc[t] = "wait"
    /\ promise[Mine(t)] # Unset
    /\ Returns(t, promise[Mine(t)])
    /\ UNCHANGED <<started, starts, next_id, pending, promise, cancelling,
                   replying, seq, requests, inbox, undefined>>

Timeout(t) ==
    /\ pc[t] = "wait"
    /\ promise[Mine(t)] = Unset
    /\ pc' = [pc EXCEPT ![t] = "timed_out"]
    /\ UNCHANGED <<started, starts, next_id, pending, promise, cancelling,
                   replying, seq, outcome, requests, inbox, undefined>>

\* Mutation: a call whose publish failed leaves its entry behind.
Bug_GiveUp(t) ==
    LET c == ClientOf[t] IN
    /\ pc[t] \in {"failed", "timed_out"}
    /\ pending' = IF pc[t] = "failed" THEN pending
                  ELSE [pending EXCEPT ![c] = @ \ {Mine(t)}]
    /\ Returns(t, Plain(IF pc[t] = "failed" THEN "transport" ELSE "timeout"))
    /\ UNCHANGED <<started, starts, next_id, promise, cancelling, replying,
                   seq, requests, inbox, undefined>>

(* erase_pending(id), and the error is returned. *)
GiveUp(t) ==
    LET c == ClientOf[t] IN
    /\ pc[t] \in {"failed", "timed_out"}
    /\ pending' = [pending EXCEPT ![c] = @ \ {Mine(t)}]
    /\ Returns(t, Plain(IF pc[t] = "failed" THEN "transport" ELSE "timeout"))
    /\ UNCHANGED <<started, starts, next_id, promise, cancelling, replying,
                   seq, requests, inbox, undefined>>

-----------------------------------------------------------------------------
(* on_reply(), on the listener's thread or on threads of the executor: also *)
(* after the client was stopped, from a callback that was already posted.   *)

\* Mutation: a reply is matched by its op, which all the calls share.
Bug_Waiting(c, r) == {k \in pending[c] : Request(k).call[1] = r.of[1]}

Waiting(c, r) == {k \in pending[c] : Request(k).id = r.id}

\* Mutation: the entry stays in pending_ until the promise is fulfilled.
Bug_OnReply(c, r) ==
    /\ r \in inbox[c]
    /\ replying' = [replying EXCEPT ![c] =
                        @ \cup [call : Waiting(c, r), reply : {r}]]
    /\ UNCHANGED <<started, starts, next_id, pending, promise, cancelling, pc,
                   seq, outcome, requests, inbox, undefined>>

\* A reply stays: it may come late, never, or again, as from a second server.
OnReply(c, r) ==
    /\ r \in inbox[c]
    /\ pending' = [pending EXCEPT ![c] = @ \ Waiting(c, r)]
    /\ replying' = [replying EXCEPT ![c] =
                        @ \cup [call : Waiting(c, r), reply : {r}]]
    /\ UNCHANGED <<started, starts, next_id, promise, cancelling, pc, seq,
                   outcome, requests, inbox, undefined>>

Fulfil(c, x) ==
    /\ x \in replying[c]
    /\ SetValue(x.call, [code |-> "answered", of |-> x.reply.of])
    /\ replying' = [replying EXCEPT ![c] = @ \ {x}]
    /\ UNCHANGED <<started, starts, next_id, pending, cancelling, pc, seq,
                   outcome, requests, inbox, undefined>>

-----------------------------------------------------------------------------
CallGoesOn(t) == \/ NotStarted(t) \/ Register(t) \/ Publish(t)
                 \/ PublishFails(t) \/ Answered(t) \/ GiveUp(t)

Next == \/ \E c \in Clients : Start(c) \/ Stop(c)
        \/ \E k \in Calls : Cancel(k)
        \/ \E t \in Callers : Call(t) \/ CallGoesOn(t) \/ Timeout(t)
        \/ \E c \in Clients : \/ \E r \in inbox[c] : OnReply(c, r)
                              \/ \E x \in replying[c] : Fulfil(c, x)
=============================================================================
