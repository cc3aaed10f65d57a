------------------------------ MODULE Discovery ------------------------------
(***************************************************************************)
(* DiscoveryClient (src/discovery.cpp): nodes that register with an HTTP    *)
(* service, keep themselves on its list with heartbeats, fetch the list,    *)
(* and deregister.  Each client has a worker thread (run), an owner that    *)
(* starts and stops it, and perhaps a user thread that calls refreshPeers.  *)
(*                                                                         *)
(* The service is external: it lists whom it hears of, drops whom it has    *)
(* not heard of for ttl_ms, and may get a request, lose it, or get it after *)
(* the client, whose wait is bounded by CURLOPT_TIMEOUT_MS, has given up.   *)
(***************************************************************************)
EXTENDS Integers, FiniteSets

CONSTANTS Clients,
          Configured,  \* those with an endpoint, a period and a ttl
          Leaving,     \* those whose owners stop them now and again
          Refreshing,  \* those whose users call refreshPeers
          Info,        \* client -> [endpoint, role, zone, qos] it is listed with
          MaxLate      \* bound: requests given up and still under way at a time

ASSUME DiscoveryAssumption == /\ Configured \subseteq Clients
                              /\ Leaving \subseteq Clients
                              /\ Refreshing \subseteq Clients
                              /\ MaxLate \in Nat

VARIABLES owner,    \* "idle", "on", or how far stop() is
          running,  \* running_
          worker,   \* the worker's place in run()
          user,     \* a user's place in refreshPeers()
          answer,   \* thread -> the list it has fetched
          peers,    \* peer_infos_
          registry, \* whom the service lists
          late,     \* requests that it may get though given up by the client
          sent      \* the last kind of request a client has made

threads == <<owner, running, worker, user>>
vars == <<threads, answer, peers, registry, late, sent>>

Kinds == {"register", "heartbeat", "deregister"}
Threads == {"worker", "user"}

Init == /\ owner = [c \in Clients |-> "idle"]
        /\ running = [c \in Clients |-> FALSE]
        /\ worker = [c \in Clients |-> "none"]
        /\ user = [c \in Clients |-> "idle"]
        /\ answer = [c \in Clients |-> [t \in Threads |-> {}]]
        /\ peers = [c \in Clients |-> {}]
        /\ registry = {} /\ late = {}
        /\ sent = [c \in Clients |-> "none"]

-----------------------------------------------------------------------------
(* Requests. *)

\* A heartbeat says all that a registration says, so it lists its sender too.
Handled(c, kind) == IF kind = "deregister" THEN registry \ {c}
                    ELSE registry \cup {c}

\* postJson.  Whether it is known to have succeeded makes no difference to
\* its callers.
Post(c, kind) ==
    /\ sent' = [sent EXCEPT ![c] = kind]
    /\ \/ registry' = Handled(c, kind) /\ UNCHANGED late
       \/ UNCHANGED <<registry, late>>
       \/ /\ Cardinality(late) < MaxLate
          /\ late' = late \cup {<<c, kind>>} /\ UNCHANGED registry
    /\ UNCHANGED <<answer, peers>>

NoPost == UNCHANGED <<registry, late, sent>>

\* fetchPeers, the request: the service answers, or not.  Of the answer the
\* objects that have an endpoint are kept.
Answered(c, t) == /\ answer' = [answer EXCEPT ![c][t] =
                                   {p \in registry : Info[p].endpoint # ""}]
                  /\ UNCHANGED peers /\ NoPost
NotAnswered == UNCHANGED <<answer, peers>> /\ NoPost

\* Mutation: what has been fetched is added to what was known.
Bug_Swap(c, t) ==
    /\ peers' = [peers EXCEPT ![c] = @ \cup answer[c][t]]
    /\ answer' = [answer EXCEPT ![c][t] = {}]

\* fetchPeers, the end: what has been fetched replaces the list.
Swap(c, t) == /\ peers' = [peers EXCEPT ![c] = answer[c][t]]
              /\ answer' = [answer EXCEPT ![c][t] = {}]

getPeers(c) == {p \in peers[c] :
    /\ Info[c].role = "" \/ Info[p].role \in {"", Info[c].role}
    /\ Info[c].zone = "" \/ Info[p].zone \in {"", Info[c].zone}
    /\ Info[p].qos \in {"", "reliable", "best_effort"}}

-----------------------------------------------------------------------------
(* The owner. *)

start(c) == /\ owner[c] = "idle" /\ c \in Configured
            /\ owner' = [owner EXCEPT ![c] = "on"]
            /\ running' = [running EXCEPT ![c] = TRUE]
            /\ worker' = [worker EXCEPT ![c] = "register"]
            /\ UNCHANGED <<user, answer, peers>> /\ NoPost

stop(c) == /\ owner[c] = "on" /\ c \in Leaving
           /\ owner' = [owner EXCEPT ![c] = "join"]
           /\ running' = [running EXCEPT ![c] = FALSE]
           /\ UNCHANGED <<worker, user, answer, peers>> /\ NoPost

\* Mutation: the worker is not waited for.
Bug_Join(c) == /\ owner[c] = "join"
               /\ owner' = [owner EXCEPT ![c] = "heartbeat"]
               /\ UNCHANGED <<running, worker, user, answer, peers>> /\ NoPost

Join(c) == /\ owner[c] = "join" /\ worker[c] = "none"
           /\ owner' = [owner EXCEPT ![c] = "heartbeat"]
           /\ UNCHANGED <<running, worker, user, answer, peers>> /\ NoPost

\* A last heartbeat, and then the deregistration, each tried once.
SayGoodbye(c) ==
    /\ owner[c] \in {"heartbeat", "deregister"}
    /\ Post(c, owner[c])
    /\ owner' = [owner EXCEPT ![c] = IF @ = "heartbeat" THEN "deregister"
                                     ELSE "idle"]
    /\ UNCHANGED <<running, worker, user>>

StopGoesOn(c) == Join(c) \/ SayGoodbye(c)

-----------------------------------------------------------------------------
(* The worker. *)

At(c, place) == worker[c] = place
Goes(c, place) == /\ worker' = [worker EXCEPT ![c] = place]
                  /\ UNCHANGED <<owner, running, user>>

\* One registration, and, while running_, heartbeats.
Register(c) == At(c, "register") /\ Post(c, "register") /\ Goes(c, "test")

Test(c) == /\ At(c, "test")
           /\ Goes(c, IF running[c] THEN "heartbeat" ELSE "none")
           /\ UNCHANGED <<answer, peers>> /\ NoPost

Heartbeat(c) == At(c, "heartbeat") /\ Post(c, "heartbeat") /\ Goes(c, "fetch")

Fetch(c) == At(c, "fetch") /\ Answered(c, "worker") /\ Goes(c, "swap")
FetchFails(c) == At(c, "fetch") /\ NotAnswered /\ Goes(c, "sleep")
Store(c) == /\ At(c, "swap") /\ Swap(c, "worker") /\ Goes(c, "sleep")
            /\ NoPost
Sleep(c) == /\ At(c, "sleep") /\ Goes(c, "test")
            /\ UNCHANGED <<answer, peers>> /\ NoPost

run(c) == \/ Register(c) \/ Test(c) \/ Heartbeat(c) \/ Fetch(c)
          \/ FetchFails(c) \/ Store(c) \/ Sleep(c)

-----------------------------------------------------------------------------
(* A user's refresh, at any time, and the service. *)

RefreshFetches(c) ==
    /\ c \in Refreshing /\ user[c] = "idle"
    /\ Answered(c, "user")
    /\ user' = [user EXCEPT ![c] = "swap"]
    /\ UNCHANGED <<owner, running, worker>>

RefreshStores(c) ==
    /\ user[c] = "swap" /\ Swap(c, "user")
    /\ user' = [user EXCEPT ![c] = "idle"]
    /\ UNCHANGED <<owner, running, worker>> /\ NoPost

ArrivesLate(r) == /\ r \in late /\ late' = late \ {r}
                  /\ registry' = Handled(r[1], r[2])
                  /\ UNCHANGED <<threads, answer, peers, sent>>

\* The ttl of an entry is over.
Expire(c) == /\ c \in registry /\ registry' = registry \ {c}
             /\ UNCHANGED <<threads, answer, peers, late, sent>>

Next == \/ \E c \in Clients : \/ start(c) \/ stop(c) \/ StopGoesOn(c) \/ run(c)
                              \/ RefreshFetches(c) \/ RefreshStores(c)
                              \/ Expire(c)
        \/ \E r \in late : ArrivesLate(r)

Spec == Init /\ [][Next]_vars

(* Threads go on and requests end, by the timeout if not by an answer.  The  *)
(* service answers now and again, and drops a client that has stopped and   *)
(* is not heard of; it may drop one that runs, whose heartbeats are lost.   *)
FairSpec == /\ Spec
            /\ \A c \in Clients :
                  /\ WF_vars(StopGoesOn(c)) /\ WF_vars(run(c))
                  /\ WF_vars(RefreshStores(c))
                  /\ WF_vars(owner[c] = "idle" /\ Expire(c))
                  /\ SF_vars(Fetch(c))
                  /\ \A k \in Kinds : WF_vars(ArrivesLate(<<c, k>>))

-----------------------------------------------------------------------------
(* Every variable has its type; a worker runs only between start() and the   *)
(* end of its join, and only clients that are configured are ever listed.   *)
TypeOK ==
    /\ owner \in [Clients -> {"idle", "on", "join", "heartbeat", "deregister"}]
    /\ running \in [Clients -> BOOLEAN]
    /\ worker \in [Clients -> {"none", "register", "test", "heartbeat", "fetch",
                               "swap", "sleep"}]
    /\ user \in [Clients -> {"idle", "swap"}]
    /\ answer \in [Clients -> [Threads -> SUBSET Configured]]
    /\ peers \in [Clients -> SUBSET Configured]
    /\ registry \in SUBSET Configured
    /\ late \in SUBSET (Configured \X Kinds)
    /\ sent \in [Clients -> Kinds \cup {"none"}]
    /\ \A c \in Clients : /\ owner[c] # "idle" => c \in Configured
                          /\ worker[c] # "none" => owner[c] \in {"on", "join"}

(* Properties. *)

(* The last thing that a client says of itself is that it leaves: neither    *)
(* the worker nor stop() sends anything after the deregistration, however   *)
(* stop() and the worker's loop interleave (discovery.cpp:40).              *)
LastWord == \A c \in Clients : owner[c] = "idle" =>
               sent[c] \in {"none", "deregister"} /\ worker[c] = "none"

(* stop() returns, and a node that is stopped for good is gone, in the end,  *)
(* from what any other that goes on sees of its peers, even when the        *)
(* deregistration is lost, or a heartbeat that had been given up arrives    *)
(* after it.                                                               *)
Forgotten == \A c \in Clients :
    /\ owner[c] \in {"join", "heartbeat", "deregister"} ~> owner[c] = "idle"
    /\ <>[](owner[c] = "idle") => \A d \in Clients :
          <>[](owner[d] = "on") => <>[](c \notin getPeers(d))
=============================================================================
