-------------------------------- MODULE Rpc --------------------------------
(***************************************************************************)
(* Clients and a server of one service, joined by the request topic and the *)
(* reply topic.  A behaviour that reaches undefined behaviour of the code   *)
(* ends there.                                                             *)
(***************************************************************************)
EXTENDS Naturals, FiniteSets

CONSTANTS Clients, Callers, ClientOf, Prefix, MaxCalls,
          Worlds        \* the programs considered

(* scheduled: the server has a scheduler bound.  patient: no handler runs   *)
(* for as long as 3 s.  callers: the threads that make calls.  starts and   *)
(* serves: how many times a client's and the server's start() succeed.      *)
WorldType == [scheduled : BOOLEAN, patient : BOOLEAN,
              callers : SUBSET Callers, starts : Nat, serves : Nat]

ASSUME RpcAssumption ==
    /\ ClientOf \in [Callers -> Clients]
    /\ DOMAIN Prefix = Clients
    /\ MaxCalls \in Nat
    /\ Worlds \subseteq WorldType

Calls == Clients \X (1..MaxCalls)

VARIABLES world,
          started, starts, next_id, pending, promise, cancelling, replying, pc,
          seq, outcome,
          serving, listening, replier, stopping, inflight, ctl, serves,
          at, early,
          requests, inbox, undefined

clientVars == <<started, starts, next_id, pending, promise, cancelling,
                replying, pc, seq, outcome>>
serverVars == <<serving, listening, replier, stopping, inflight, ctl,
                serves, at, early>>
vars == <<world, clientVars, serverVars, requests, inbox, undefined>>

Client == INSTANCE RpcClient
Server == INSTANCE RpcServer

Init == world \in Worlds /\ Client!Init /\ Server!Init

ClientSteps == Client!Next /\ UNCHANGED serverVars

ServerSteps == Server!Next({c \in Clients : started[c]})
               /\ UNCHANGED clientVars

Next == ~undefined /\ (ClientSteps \/ ServerSteps) /\ UNCHANGED world

Spec == Init /\ [][Next]_vars

Alone(A) == ~undefined /\ A /\ UNCHANGED <<world, serverVars>>
CallGoesOn(t) == Alone(Client!CallGoesOn(t))
Cancel(k) == Alone(Client!Cancel(k))
Fulfil(c) == Alone(\E x \in replying[c] : Client!Fulfil(c, x))

(* The clients' threads run.  No timeout is assumed to expire, no message   *)
(* to arrive and no request to be served.                                  *)
Fairness == /\ \A t \in Callers : WF_vars(CallGoesOn(t))
            /\ \A k \in Calls : WF_vars(Cancel(k))
            /\ \A c \in Clients : WF_vars(Fulfil(c))

FairSpec == Spec /\ Fairness

-----------------------------------------------------------------------------
(* Properties. *)

Outcomes == {[code |-> x] : x \in {"unset", "cancelled", "not_started",
                                  "transport", "timeout"}}
            \cup [code : {"answered"}, of : Calls]
RequestType == [id : {Client!Request(k).id : k \in Calls}, call : Calls]
ReplyType == [id : {Client!Request(k).id : k \in Calls}, of : Calls]

(* Every variable has its type, and the server counts the callbacks that    *)
(* are inside on_request().                                                *)
TypeOK ==
    /\ started \in [Clients -> BOOLEAN]
    /\ starts \in [Clients -> 0..world.starts]
    /\ next_id \in [Clients -> 1..(MaxCalls + 1)]
    /\ pending \in [Clients -> SUBSET Calls]
    /\ promise \in [Calls -> Outcomes] /\ outcome \in [Calls -> Outcomes]
    /\ cancelling \in [Clients -> SUBSET Calls]
    /\ \A c \in Clients :
           replying[c] \subseteq [call : Calls, reply : ReplyType]
    /\ pc \in [Callers -> {"idle", "register", "publish", "wait", "failed",
                           "timed_out"}]
    /\ seq \in [Callers -> 0..MaxCalls]
    /\ world \in Worlds
    /\ serving \in BOOLEAN /\ listening \in BOOLEAN /\ replier \in BOOLEAN
    /\ stopping \in BOOLEAN /\ undefined \in BOOLEAN
    /\ ctl \in {"idle", "reset", "wait"} /\ serves \in 0..world.serves
    /\ at \in [Calls -> Server!Inside \cup {"none", "queued", "check", "count",
                                            "done"}]
    /\ inflight = Cardinality({k \in Calls : at[k] \in Server!Inside})
    /\ early \subseteq Calls
    /\ requests \subseteq RequestType
    /\ \A c \in Clients : inbox[c] \subseteq ReplyType

(* Where the right to fulfil the promise of a call is, or that it was used. *)
Owners(k) == {x \in {"pending", "reply", "stop", "set"} :
                  \/ x = "pending" /\ k \in pending[k[1]]
                  \/ x = "reply" /\ \E y \in replying[k[1]] : y.call = k
                  \/ x = "stop" /\ k \in cancelling[k[1]]
                  \/ x = "set" /\ promise[k].code # "unset"}

(* A promise is fulfilled once: by the reply that took it or by the stop()  *)
(* that took it, however late replies, timeouts and stops race.             *)
FulfilledOnce == \A k \in Calls : Cardinality(Owners(k)) <= 1

(* A call that has returned leaves nothing behind in pending_.             *)
NothingLeaks ==
    \A k \in Calls : k \in UNION {pending[c] : c \in Clients} =>
        \E t \in Callers : Client!Mine(t) = k /\ pc[t] # "idle"

(* call() returns the answer to its own request, never a late answer to an  *)
(* earlier call, one of an earlier life of the client, or another client's. *)
AnswerIsMine ==
    \A k \in Calls : outcome[k].code = "answered" => outcome[k].of = k

(* stop() frees every caller that waits, without the help of a timeout.     *)
StopReleases ==
    \A t \in Callers :
        (pc[t] = "wait" /\ ~started[ClientOf[t]]) ~>
            (pc[t] # "wait" \/ undefined)

(* The server waits for the callbacks that had counted themselves when it   *)
(* stopped: if no handler outlasts the wait, none of them finds rep_ reset. *)
(* With no scheduler bound this goes for every callback, since the          *)
(* listener's thread is waited for as well.  A callback that an executor    *)
(* still holds in its queue may run after rep_ was reset.                   *)
CountedAreAwaited ==
    world.patient /\ ~replier =>
        /\ \A k \in early : at[k] \notin Server!Inside
        /\ ~world.scheduled =>
               \A k \in Calls : at[k] \notin {"count"} \cup Server!Inside
=============================================================================
