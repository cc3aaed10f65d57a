------------------------------ MODULE RpcProofs ------------------------------
(***************************************************************************)
(* What Rpc guarantees for any number of clients, callers and calls, in     *)
(* every world: a promise is fulfilled once, nothing is left in pending_,   *)
(* stop() of the server waits for the callbacks that counted themselves,    *)
(* and, with a prefix of its own for each client, call() returns the answer *)
(* to its own request.                                                     *)
(***************************************************************************)
EXTENDS Rpc, FiniteSetTheorems, TLAPS

Mine(t) == Client!Mine(t)
Request(k) == Client!Request(k)
Inside == Server!Inside

(* The types of what the clients have, of the messages, of the server.      *)
ClientTypes ==
    /\ started \in [Clients -> BOOLEAN]
    /\ starts \in [Clients -> 0..world.starts]
    /\ next_id \in [Clients -> 1..(MaxCalls + 1)]
    /\ pending \in [Clients -> SUBSET Calls]
    /\ promise \in [Calls -> Outcomes] /\ outcome \in [Calls -> Outcomes]
    /\ cancelling \in [Clients -> SUBSET Calls]
    /\ replying \in [Clients -> SUBSET [call : Calls, reply : ReplyType]]
    /\ pc \in [Callers -> {"idle", "register", "publish", "wait", "failed",
                           "timed_out"}]
    /\ seq \in [Callers -> 0..MaxCalls]

MessageTypes ==
    /\ requests \in SUBSET RequestType
    /\ inbox \in [Clients -> SUBSET ReplyType]
    /\ undefined \in BOOLEAN

InsideSet == {k \in Calls : at[k] \in Inside}

ServerTypes ==
    /\ world \in Worlds
    /\ serving \in BOOLEAN /\ listening \in BOOLEAN /\ replier \in BOOLEAN
    /\ stopping \in BOOLEAN
    /\ ctl \in {"idle", "reset", "wait"} /\ serves \in 0..world.serves
    /\ at \in [Calls -> Inside \cup {"none", "queued", "check", "count", "done"}]
    /\ IsFiniteSet(InsideSet)
    /\ inflight = Cardinality(InsideSet)
    /\ early \in SUBSET Calls

(* A call has a number of its own, given out once.                          *)
NumberInv ==
    /\ \A t \in Callers : pc[t] # "idle" => seq[t] # 0
    /\ \A t \in Callers : seq[t] < next_id[ClientOf[t]]
    /\ \A t, u \in Callers : seq[t] # 0 /\ Mine(t) = Mine(u) => t = u

(* Promises stay with the client whose call they are for, and a reply that  *)
(* took one took it alone.                                                 *)
HomeInv ==
    \A c \in Clients :
        /\ \A k \in pending[c] \cup cancelling[c] : k[1] = c
        /\ \A x \in replying[c] : x.call[1] = c
        /\ \A x, y \in replying[c] : x.call = y.call => x = y

Replied(k) == \E x \in replying[k[1]] : x.call = k
Unset(k) == promise[k] = [code |-> "unset"]

(* The right to fulfil a promise is in one place, and gone once it was used. *)
RightInv ==
    \A k \in Calls :
        /\ k \in pending[k[1]] =>
               k \notin cancelling[k[1]] /\ ~Replied(k) /\ Unset(k)
        /\ Replied(k) => k \notin cancelling[k[1]] /\ Unset(k)
        /\ k \in cancelling[k[1]] => Unset(k)

(* A call that is not registered yet has no promise anywhere.               *)
Fresh(k) == \/ next_id[k[1]] <= k[2]
            \/ \E t \in Callers : pc[t] = "register" /\ Mine(t) = k

FreshInv ==
    \A k \in Calls : Fresh(k) =>
        k \notin pending[k[1]] /\ k \notin cancelling[k[1]] /\ ~Replied(k)
        /\ Unset(k)

(* What is pending is the call of a thread that has registered it.          *)
LeakInv ==
    \A c \in Clients : \A k \in pending[c] :
        \E t \in Callers : Mine(t) = k /\ pc[t] \notin {"idle", "register"}

ClientInv == NumberInv /\ HomeInv /\ RightInv /\ FreshInv /\ LeakInv

(* How far stop() of the server is, and whom it can still meet.             *)
StopInv ==
    /\ replier = serving
    /\ stopping = (ctl # "idle")
    /\ listening = (serving /\ ctl = "idle")
    /\ ctl # "idle" => serving
    /\ \A k \in early : at[k] \in Inside \cup {"done"}
    /\ world.patient /\ ~serving => \A k \in early : at[k] = "done"
    /\ ~world.scheduled =>
           /\ \A k \in Calls : at[k] # "queued"
           /\ ~serving \/ ctl = "wait" =>
                  \A k \in Calls : at[k] \notin {"check", "count"}
           /\ world.patient /\ ~serving =>
                  \A k \in Calls : at[k] \notin Inside

IInv == ClientTypes /\ MessageTypes /\ ServerTypes /\ ClientInv /\ StopInv

(* A message names the call it is for and bears the id of that call.        *)
NamedInv ==
    /\ \A m \in requests : m.id = Request(m.call).id
    /\ \A c \in Clients : \A r \in inbox[c] : r.id = Request(r.of).id

(* An answer under way to a promise is the answer to it.                    *)
AnswerInv ==
    /\ \A c \in Clients : \A x \in replying[c] : x.reply.of = x.call
    /\ \A k \in Calls : promise[k].code = "answered" => promise[k].of = k
    /\ AnswerIsMine

DistinctPrefixes == \A c, d \in Clients : Prefix[c] = Prefix[d] => c = d

-----------------------------------------------------------------------------
(* Facts that the steps of a call need. *)

(* A caller's call, once it has one, is one of Calls and its client's own.  *)
LEMMA MineTypes ==
    ASSUME ClientTypes, NumberInv, NEW t \in Callers, pc[t] # "idle"
    PROVE  /\ ClientOf[t] \in Clients /\ seq[t] \in 1..MaxCalls
           /\ Mine(t) \in Calls /\ Mine(t) = <<ClientOf[t], seq[t]>>
           /\ Mine(t)[1] = ClientOf[t] /\ Mine(t)[2] = seq[t]
BY RpcAssumption DEF ClientTypes, NumberInv, Mine, Client!Mine, Calls

(* All but what an action names is as it was.                               *)
LEMMA OutcomeTypes ==
    /\ Client!Unset \in Outcomes
    /\ \A x \in {"cancelled", "not_started", "transport", "timeout"} :
           Client!Plain(x) \in Outcomes
    /\ \A k \in Calls : [code |-> "answered", of |-> k] \in Outcomes
BY DEF Outcomes, Client!Unset, Client!Plain

-----------------------------------------------------------------------------
(* The client's steps, one lemma for each. *)

LEMMA ClientStartKeeps ==
    ASSUME IInv, NEW c \in Clients, Client!Start(c), world' = world
    PROVE  ClientTypes' /\ MessageTypes' /\ ClientInv'
<1> USE DEF Client!Start, IInv
<1>1. ClientTypes' /\ MessageTypes'
  <2>1. world.starts \in Nat
    BY RpcAssumption DEF ServerTypes, WorldType
  <2> QED  BY <2>1 DEF ClientTypes, MessageTypes
<1>2. ClientInv'
  BY DEF ClientInv, NumberInv, HomeInv, RightInv, Replied, Unset, FreshInv,
         Fresh, LeakInv, Mine, Client!Mine
<1> QED  BY <1>1, <1>2

(* stop() takes every promise out of pending_ and holds it.                 *)
LEMMA ClientStopKeeps ==
    ASSUME IInv, NEW c \in Clients, Client!Stop(c), world' = world
    PROVE  ClientTypes' /\ MessageTypes' /\ ClientInv'
<1> USE DEF Client!Stop, IInv
<1>1. ClientTypes' /\ MessageTypes'
  BY DEF ClientTypes, MessageTypes
<1>2. /\ pending' = [pending EXCEPT ![c] = {}]
      /\ cancelling' = [cancelling EXCEPT ![c] = pending[c]]
      /\ cancelling[c] = {} /\ pending[c] \subseteq Calls
      /\ UNCHANGED <<promise, replying, pc, seq, next_id>>
  BY DEF ClientTypes
<1>3. NumberInv' /\ HomeInv'
  BY <1>2 DEF ClientInv, ClientTypes, NumberInv, HomeInv, Mine, Client!Mine
<1>4. RightInv' /\ FreshInv'
  BY <1>2 DEF ClientInv, ClientTypes, RightInv, FreshInv, Replied, Unset, Fresh,
              HomeInv, Mine, Client!Mine, Calls
<1>5. LeakInv'
  BY <1>2 DEF ClientInv, ClientTypes, LeakInv, Mine, Client!Mine
<1> QED  BY <1>1, <1>3, <1>4, <1>5 DEF ClientInv

LEMMA CancelKeeps ==
    ASSUME IInv, NEW k \in Calls, Client!Cancel(k), world' = world
    PROVE  ClientTypes' /\ MessageTypes' /\ ClientInv'
<1> DEFINE c == k[1]
<1>0. c \in Clients /\ k \in cancelling[c]
  BY DEF Client!Cancel, Calls
<1>1. promise[k] = Client!Unset
  BY <1>0 DEF IInv, ClientInv, RightInv, Unset, Client!Unset
<1>2. /\ promise' = [promise EXCEPT ![k] = Client!Plain("cancelled")]
      /\ cancelling' = [cancelling EXCEPT ![c] = @ \ {k}]
      /\ UNCHANGED <<started, starts, next_id, pending, replying, pc, seq,
                     outcome, requests, inbox, undefined>>
  BY <1>1 DEF Client!Cancel, Client!SetValue
<1> HIDE DEF c
<1>3. ClientTypes' /\ MessageTypes'
  BY <1>0, <1>2, OutcomeTypes DEF IInv, ClientTypes, MessageTypes
<1>4. NumberInv' /\ HomeInv' /\ LeakInv'
  BY <1>0, <1>2 DEF IInv, ClientInv, ClientTypes, NumberInv, HomeInv, LeakInv,
                    Mine, Client!Mine
<1>5. k \notin pending[k[1]] /\ ~Replied(k) /\ ~Fresh(k)
  BY <1>0 DEF IInv, ClientInv, RightInv, FreshInv, c
<1>6. \A j \in Calls : /\ Fresh(j)' = Fresh(j) /\ Replied(j)' = Replied(j)
                       /\ j # k => Unset(j)' = Unset(j)
  BY <1>2 DEF Fresh, Replied, Unset, Mine, Client!Mine, IInv, ClientTypes
<1>7. \A j \in Calls : /\ pending'[j[1]] = pending[j[1]]
                       /\ cancelling'[j[1]] \subseteq cancelling[j[1]]
                       /\ j # k => (j \in cancelling'[j[1]] <=> j \in cancelling[j[1]])
                       /\ k \notin cancelling'[k[1]]
  BY <1>0, <1>2 DEF c, IInv, ClientTypes, Calls
<1>8. RightInv'
  BY <1>5, <1>6, <1>7 DEF IInv, ClientInv, RightInv
<1>9. FreshInv'
  BY <1>5, <1>6, <1>7 DEF IInv, ClientInv, FreshInv
<1> QED  BY <1>3, <1>4, <1>8, <1>9 DEF ClientInv

(* A new call takes the next number of its client, which nobody has.        *)
LEMMA CallKeeps ==
    ASSUME IInv, NEW t \in Callers, Client!Call(t), world' = world
    PROVE  ClientTypes' /\ MessageTypes' /\ ClientInv'
<1> DEFINE c == ClientOf[t]
<1>0. c \in Clients /\ pc[t] = "idle" /\ next_id[c] \in 1..MaxCalls
  <2>1. c \in Clients
    BY RpcAssumption
  <2>2. pc[t] = "idle" /\ next_id[c] <= MaxCalls
    BY DEF Client!Call
  <2> QED  BY <2>1, <2>2, RpcAssumption DEF IInv, ClientTypes
<1>1. /\ seq' = [seq EXCEPT ![t] = next_id[c]]
      /\ next_id' = [next_id EXCEPT ![c] = @ + 1]
      /\ pc' = [pc EXCEPT ![t] = "register"]
      /\ UNCHANGED <<started, starts, pending, promise, cancelling, replying,
                     outcome, requests, inbox, undefined>>
  BY DEF Client!Call
<1>2. ClientTypes' /\ MessageTypes'
  BY <1>0, <1>1, RpcAssumption DEF IInv, ClientTypes, MessageTypes
<1>3. \A u \in Callers : /\ ClientOf[u] \in Clients
                         /\ seq[u] \in 0..MaxCalls
                         /\ seq[u] < next_id[ClientOf[u]]
  BY RpcAssumption DEF IInv, ClientInv, NumberInv, ClientTypes
<1>4. NumberInv'
  <2>1. \A u \in Callers : seq'[u] < next_id'[ClientOf[u]]
    BY <1>0, <1>1, <1>3 DEF IInv, ClientTypes
  <2>2. \A u, v \in Callers : seq'[u] # 0 /\ Mine(u)' = Mine(v)' => u = v
    BY <1>0, <1>1, <1>3
    DEF IInv, ClientInv, NumberInv, ClientTypes, Mine, Client!Mine
  <2> QED  BY <1>0, <1>1, <2>1, <2>2 DEF IInv, ClientInv, NumberInv, ClientTypes
<1>5. HomeInv' /\ RightInv'
  BY <1>1 DEF IInv, ClientInv, HomeInv, RightInv, Replied, Unset
<1>6. \A k \in Calls : Fresh(k)' => Fresh(k)
  <2> SUFFICES ASSUME NEW k \in Calls, Fresh(k)'
               PROVE  Fresh(k)
    OBVIOUS
  <2>1. k[1] \in Clients /\ k[2] \in 1..MaxCalls /\ k = <<k[1], k[2]>>
    BY DEF Calls
  <2>2. CASE next_id'[k[1]] <= k[2]
    BY <1>0, <1>1, <2>1, <2>2, RpcAssumption DEF Fresh, IInv, ClientTypes
  <2>3. ASSUME NEW u \in Callers, pc'[u] = "register", Mine(u)' = k
        PROVE  Fresh(k)
    <3>1. CASE u = t
      BY <1>0, <1>1, <2>1, <2>3, <3>1, RpcAssumption
      DEF Fresh, IInv, ClientTypes, Mine, Client!Mine
    <3>2. CASE u # t
      BY <1>1, <2>3, <3>2 DEF Fresh, IInv, ClientTypes, Mine, Client!Mine
    <3> QED  BY <3>1, <3>2
  <2> QED  BY <2>2, <2>3 DEF Fresh
<1>7. FreshInv'
  BY <1>1, <1>6 DEF IInv, ClientInv, FreshInv, Replied, Unset
<1>8. LeakInv'
  BY <1>0, <1>1 DEF IInv, ClientInv, ClientTypes, LeakInv, Mine, Client!Mine
<1> QED  BY <1>2, <1>4, <1>5, <1>7, <1>8 DEF ClientInv

(* A step of a thread within its call that leaves every promise where it is *)
(* and does not make the call idle or new.                                  *)
LEMMA PlaceKeeps ==
    ASSUME IInv, NEW t \in Callers, NEW place \in {"wait", "failed", "timed_out"},
           pc[t] \notin {"idle", "register"},
           pc' = [pc EXCEPT ![t] = place],
           UNCHANGED <<next_id, pending, promise, cancelling, replying, seq>>
    PROVE  ClientInv'
<1>1. NumberInv' /\ HomeInv' /\ RightInv'
  BY DEF IInv, ClientInv, ClientTypes, NumberInv, HomeInv, RightInv, Replied,
         Unset, Mine, Client!Mine
<1>2. \A k \in Calls : Fresh(k)' => Fresh(k)
  BY DEF IInv, ClientTypes, Fresh, Mine, Client!Mine
<1>3. FreshInv'
  BY <1>2 DEF IInv, ClientInv, FreshInv, Replied, Unset
<1>4. LeakInv'
  BY DEF IInv, ClientInv, ClientTypes, LeakInv, Mine, Client!Mine
<1> QED  BY <1>1, <1>3, <1>4 DEF ClientInv

LEMMA PublishKeeps ==
    ASSUME IInv, NEW t \in Callers, Client!Publish(t), world' = world
    PROVE  ClientTypes' /\ MessageTypes' /\ ClientInv'
<1>1. pc[t] = "publish"
  BY DEF Client!Publish
<1>2. Mine(t) \in Calls
  BY <1>1, MineTypes DEF IInv, ClientInv
<1>3. CASE started[ClientOf[t]]
  <2>1. Client!Request(Mine(t)) \in RequestType
    BY <1>2 DEF RequestType, Client!Request, Client!Calls, Calls
  <2>2. ClientTypes' /\ MessageTypes'
    BY <1>1, <1>3, <2>1
    DEF IInv, ClientTypes, MessageTypes, Client!Publish, Mine
  <2>3. ClientInv'
    BY <1>1, <1>3, PlaceKeeps DEF Client!Publish
  <2> QED  BY <2>2, <2>3
<1>4. CASE ~started[ClientOf[t]]
  BY <1>4 DEF IInv, ClientTypes, MessageTypes, ClientInv, NumberInv, HomeInv,
              RightInv, FreshInv, LeakInv, Replied, Unset, Fresh, Mine,
              Client!Mine, Client!Publish
<1> QED  BY <1>3, <1>4

LEMMA PublishFailsOrTimeoutKeeps ==
    ASSUME IInv, NEW t \in Callers, Client!PublishFails(t) \/ Client!Timeout(t),
           world' = world
    PROVE  ClientTypes' /\ MessageTypes' /\ ClientInv'
<1>1. ClientTypes' /\ MessageTypes'
  BY DEF IInv, ClientTypes, MessageTypes, Client!PublishFails, Client!Timeout
<1>2. ClientInv'
  BY PlaceKeeps DEF Client!PublishFails, Client!Timeout
<1> QED  BY <1>1, <1>2

(* The call is entered in pending_: nobody else has its number.             *)
LEMMA RegisterKeeps ==
    ASSUME IInv, NEW t \in Callers, Client!Register(t), world' = world
    PROVE  ClientTypes' /\ MessageTypes' /\ ClientInv'
<1> DEFINE c == ClientOf[t]
           m == Mine(t)
<1>1. pc[t] = "register"
  BY DEF Client!Register
<1>2. c \in Clients /\ m \in Calls /\ m[1] = c /\ m = <<c, seq[t]>>
  BY <1>1, MineTypes DEF IInv, ClientInv
<1>3. /\ pending' = [pending EXCEPT ![c] = @ \cup {m}]
      /\ pc' = [pc EXCEPT ![t] = "publish"]
      /\ UNCHANGED <<started, starts, next_id, promise, cancelling, replying,
                     seq, outcome, requests, inbox, undefined>>
  BY DEF Client!Register, Mine
<1>4. Fresh(m)
  BY <1>1 DEF Fresh
<1> HIDE DEF c, m
<1>5. ClientTypes' /\ MessageTypes'
  BY <1>2, <1>3 DEF IInv, ClientTypes, MessageTypes
<1>6. NumberInv' /\ HomeInv'
  BY <1>1, <1>2, <1>3 DEF IInv, ClientInv, ClientTypes, NumberInv, HomeInv, Mine,
                          Client!Mine
<1>7. \A k \in Calls : /\ k \in pending'[k[1]] => k \in pending[k[1]] \/ k = m
                       /\ Replied(k)' = Replied(k) /\ Unset(k)' = Unset(k)
                       /\ cancelling' = cancelling
  BY <1>2, <1>3 DEF IInv, ClientTypes, Replied, Unset
<1>8. RightInv'
  BY <1>4, <1>7, <1>2 DEF IInv, ClientInv, RightInv, FreshInv
<1>9. \A k \in Calls : Fresh(k)' => Fresh(k) /\ k # m
  <2>1. \A k \in Calls : Fresh(k)' => Fresh(k)
    BY <1>3 DEF Fresh, Mine, Client!Mine, IInv, ClientTypes
  <2>2. \A k \in Calls : k = m => ~Fresh(k)'
    <3>1. ~(next_id'[m[1]] <= m[2])
      BY <1>2, <1>3, RpcAssumption
      DEF IInv, ClientTypes, ClientInv, NumberInv, c, m
    <3>2. \A u \in Callers : pc'[u] = "register" => Mine(u)' # m
      BY <1>1, <1>3 DEF IInv, ClientTypes, ClientInv, NumberInv, m, Mine,
                        Client!Mine
    <3> QED  BY <3>1, <3>2 DEF Fresh
  <2> QED  BY <2>1, <2>2
<1>10. FreshInv'
  BY <1>7, <1>9 DEF IInv, ClientInv, FreshInv
<1>11. LeakInv'
  <2> SUFFICES ASSUME NEW d \in Clients, NEW k \in pending'[d]
               PROVE  \E u \in Callers : /\ Mine(u)' = k
                                         /\ pc'[u] \notin {"idle", "register"}
    BY DEF LeakInv
  <2>1. CASE k = m
    BY <1>3, <2>1 DEF m, Mine, Client!Mine, IInv, ClientTypes
  <2>2. CASE k # m
    BY <1>1, <1>3, <2>2 DEF IInv, ClientInv, ClientTypes, LeakInv, Mine,
                            Client!Mine
  <2> QED  BY <2>1, <2>2
<1> QED  BY <1>5, <1>6, <1>8, <1>10, <1>11 DEF ClientInv

(* A call returns when its promise is no longer in pending_.                *)
LEMMA ReturnKeeps ==
    ASSUME IInv, NEW t \in Callers, pc[t] # "idle",
           pc' = [pc EXCEPT ![t] = "idle"],
           \A d \in Clients : pending'[d] = pending[d] \ {Mine(t)},
           UNCHANGED <<next_id, promise, cancelling, replying, seq>>
    PROVE  ClientInv'
<1>1. NumberInv' /\ HomeInv' /\ RightInv'
  BY DEF IInv, ClientInv, ClientTypes, NumberInv, HomeInv, RightInv, Replied,
         Unset, Mine, Client!Mine, Calls
<1>2. \A k \in Calls : Fresh(k)' => Fresh(k)
  BY DEF IInv, ClientTypes, Fresh, Mine, Client!Mine
<1>3. FreshInv'
  BY <1>2 DEF IInv, ClientInv, FreshInv, Replied, Unset, Calls
<1>4. LeakInv'
  BY DEF IInv, ClientInv, ClientTypes, LeakInv, Mine, Client!Mine
<1> QED  BY <1>1, <1>3, <1>4 DEF ClientInv

(* A promise that is new or was fulfilled is not in pending_.               *)
LEMMA NotPending ==
    ASSUME IInv, NEW t \in Callers,
           \/ pc[t] = "register"
           \/ pc[t] = "wait" /\ promise[Mine(t)] # Client!Unset
    PROVE  \A d \in Clients : pending[d] = pending[d] \ {Mine(t)}
<1>1. Mine(t) \in Calls
  BY MineTypes DEF IInv, ClientInv
<1>2. Mine(t) \notin pending[Mine(t)[1]]
  BY <1>1 DEF IInv, ClientInv, FreshInv, Fresh, RightInv, Unset, Client!Unset
<1>3. \A d \in Clients : Mine(t) \notin pending[d]
  BY <1>2 DEF IInv, ClientInv, HomeInv
<1> QED  BY <1>3

LEMMA NotStartedOrAnsweredKeeps ==
    ASSUME IInv, NEW t \in Callers, Client!NotStarted(t) \/ Client!Answered(t),
           world' = world
    PROVE  ClientTypes' /\ MessageTypes' /\ ClientInv'
<1>1. /\ \/ pc[t] = "register"
         \/ pc[t] = "wait" /\ promise[Mine(t)] # Client!Unset
      /\ pc' = [pc EXCEPT ![t] = "idle"]
      /\ UNCHANGED <<started, starts, next_id, pending, promise, cancelling,
                     replying, seq, requests, inbox, undefined>>
  BY DEF Client!NotStarted, Client!Answered, Client!Returns, Mine
<1>2. Mine(t) \in Calls
  BY <1>1, MineTypes DEF IInv, ClientInv
<1>3. PICK r \in Outcomes : outcome' = [outcome EXCEPT ![Mine(t)] = r]
  BY <1>2, OutcomeTypes
  DEF IInv, ClientTypes, Client!NotStarted, Client!Answered, Client!Returns, Mine
<1>4. ClientTypes' /\ MessageTypes'
  BY <1>1, <1>2, <1>3 DEF IInv, ClientTypes, MessageTypes
<1>5. ClientInv'
  BY <1>1, NotPending, ReturnKeeps
<1> QED  BY <1>4, <1>5

LEMMA GiveUpKeeps ==
    ASSUME IInv, NEW t \in Callers, Client!GiveUp(t), world' = world
    PROVE  ClientTypes' /\ MessageTypes' /\ ClientInv'
<1> DEFINE c == ClientOf[t]
<1>1. /\ pc[t] \in {"failed", "timed_out"}
      /\ pending' = [pending EXCEPT ![c] = @ \ {Mine(t)}]
      /\ pc' = [pc EXCEPT ![t] = "idle"]
      /\ UNCHANGED <<started, starts, next_id, promise, cancelling, replying,
                     seq, requests, inbox, undefined>>
  BY DEF Client!GiveUp, Client!Returns, Mine
<1>2. /\ c \in Clients /\ Mine(t) \in Calls /\ Mine(t)[1] = c
      /\ pc[t] # "idle"
  BY <1>1, MineTypes DEF IInv, ClientInv
<1>3. PICK r \in Outcomes : outcome' = [outcome EXCEPT ![Mine(t)] = r]
  BY OutcomeTypes DEF Client!GiveUp, Client!Returns, Mine
<1> HIDE DEF c
<1>4. ClientTypes' /\ MessageTypes'
  BY <1>1, <1>2, <1>3 DEF IInv, ClientTypes, MessageTypes
<1>5. \A d \in Clients : pending'[d] = pending[d] \ {Mine(t)}
  BY <1>1, <1>2 DEF IInv, ClientTypes, ClientInv, HomeInv
<1>6. ClientInv'
  BY <1>1, <1>2, <1>5, ReturnKeeps
<1> QED  BY <1>4, <1>6

-----------------------------------------------------------------------------
(* on_reply() *)

(* A reply waits for the call that has its id, if it is still pending.  Two *)
(* calls of one client never have the same id.                             *)
LEMMA WaitingIsOne ==
    ASSUME IInv, NEW c \in Clients, NEW r \in ReplyType
    PROVE  /\ Client!Waiting(c, r) \subseteq pending[c]
           /\ Client!Waiting(c, r) \subseteq Calls
           /\ \A j, k \in Client!Waiting(c, r) : j = k
<1>1. Client!Waiting(c, r) \subseteq pending[c]
  BY DEF Client!Waiting
<1>2. pending[c] \subseteq Calls
  BY DEF IInv, ClientTypes
<1>3. ASSUME NEW j \in Client!Waiting(c, r), NEW k \in Client!Waiting(c, r)
      PROVE  j = k
  <2>1. j \in Calls /\ k \in Calls /\ j[1] = c /\ k[1] = c
    BY <1>1, <1>2 DEF IInv, ClientInv, HomeInv
  <2>2. j[2] = k[2]
    BY DEF Client!Waiting, Client!Request
  <2> QED  BY <2>1, <2>2 DEF Calls
<1> QED  BY <1>1, <1>2, <1>3

LEMMA OnReplyKeeps ==
    ASSUME IInv, NEW c \in Clients, NEW r \in inbox[c], Client!OnReply(c, r),
           world' = world
    PROVE  ClientTypes' /\ MessageTypes' /\ ClientInv'
<1> DEFINE W == Client!Waiting(c, r)
<1>1. /\ inbox' = inbox
      /\ pending' = [pending EXCEPT ![c] = @ \ W]
      /\ replying' = [replying EXCEPT ![c] = @ \cup [call : W, reply : {r}]]
      /\ UNCHANGED <<started, starts, next_id, promise, cancelling, pc, seq,
                     outcome, requests, undefined>>
  BY DEF Client!OnReply
<1>2. r \in ReplyType
  BY DEF IInv, MessageTypes
<1>3. W \subseteq pending[c] /\ W \subseteq Calls /\ \A j, k \in W : j = k
  BY <1>2, WaitingIsOne
<1> HIDE DEF W
<1>4. ClientTypes' /\ MessageTypes'
  <2>1. [call : W, reply : {r}] \subseteq [call : Calls, reply : ReplyType]
    BY <1>2, <1>3
  <2> QED  BY <1>1, <1>3, <2>1 DEF IInv, ClientTypes, MessageTypes
<1>5. NumberInv' /\ LeakInv'
  BY <1>1 DEF IInv, ClientInv, ClientTypes, NumberInv, LeakInv, Mine, Client!Mine
<1>6. \A k \in W : k[1] = c /\ ~Replied(k) /\ k \notin cancelling[c] /\ Unset(k)
                   /\ ~Fresh(k)
  BY <1>3 DEF IInv, ClientInv, HomeInv, RightInv, FreshInv
<1>7. /\ replying'[c] = replying[c] \cup [call : W, reply : {r}]
      /\ \A d \in Clients : d # c => replying'[d] = replying[d]
      /\ \A d \in Clients : pending'[d] \subseteq pending[d]
      /\ \A k \in W : k \notin pending'[c]
  BY <1>1 DEF IInv, ClientTypes
<1>8. HomeInv'
  <2>1. \A x, y \in replying'[c] : x.call = y.call => x = y
    BY <1>3, <1>6, <1>7 DEF IInv, ClientInv, HomeInv, Replied
  <2>2. \A x \in replying'[c] : x.call[1] = c
    BY <1>6, <1>7 DEF IInv, ClientInv, HomeInv
  <2> QED  BY <1>1, <1>7, <2>1, <2>2 DEF IInv, ClientInv, HomeInv
<1>9. \A k \in Calls : /\ Replied(k)' => Replied(k) \/ k \in W
                       /\ Unset(k)' = Unset(k)
                       /\ Fresh(k)' = Fresh(k)
  BY <1>1, <1>7 DEF Replied, Unset, Fresh, Mine, Client!Mine, Calls
<1>10. RightInv'
  BY <1>1, <1>6, <1>7, <1>9 DEF IInv, ClientInv, RightInv, Calls
<1>11. FreshInv'
  BY <1>1, <1>6, <1>7, <1>9 DEF IInv, ClientInv, FreshInv, Calls
<1> QED  BY <1>4, <1>5, <1>8, <1>10, <1>11 DEF ClientInv

LEMMA FulfilKeeps ==
    ASSUME IInv, NEW c \in Clients, NEW x \in replying[c], Client!Fulfil(c, x),
           world' = world
    PROVE  ClientTypes' /\ MessageTypes' /\ ClientInv'
<1> DEFINE k == x.call
           r == [code |-> "answered", of |-> x.reply.of]
<1>1. k \in Calls /\ x.reply.of \in Calls /\ k[1] = c
  BY DEF IInv, ClientTypes, ClientInv, HomeInv, ReplyType
<1>2. Replied(k) /\ promise[k] = Client!Unset
  BY <1>1 DEF IInv, ClientInv, RightInv, Replied, Unset, Client!Unset
<1>3. /\ promise' = [promise EXCEPT ![k] = r]
      /\ replying' = [replying EXCEPT ![c] = @ \ {x}]
      /\ UNCHANGED <<started, starts, next_id, pending, cancelling, pc, seq,
                     outcome, requests, inbox, undefined>>
  BY <1>2 DEF Client!Fulfil, Client!SetValue
<1>4. r \in Outcomes
  BY <1>1, OutcomeTypes
<1>5. k \notin pending[c] /\ k \notin cancelling[c] /\ ~Fresh(k)
  BY <1>1, <1>2 DEF IInv, ClientInv, RightInv, FreshInv
<1>6. \A y \in replying'[c] : y.call # k
  BY <1>3 DEF IInv, ClientInv, HomeInv, ClientTypes
<1> HIDE DEF k, r
<1>7. ClientTypes' /\ MessageTypes'
  BY <1>1, <1>3, <1>4 DEF IInv, ClientTypes, MessageTypes
<1>8. NumberInv' /\ LeakInv' /\ HomeInv'
  BY <1>3 DEF IInv, ClientInv, ClientTypes, NumberInv, HomeInv, LeakInv, Mine,
              Client!Mine
<1>9. \A j \in Calls : /\ Fresh(j)' = Fresh(j)
                       /\ Replied(j)' => Replied(j)
                       /\ j # k => Unset(j)' = Unset(j)
                       /\ j = k => ~Replied(j)'
  BY <1>1, <1>3, <1>6
  DEF Fresh, Replied, Unset, Mine, Client!Mine, IInv, ClientTypes, Calls
<1>10. RightInv' /\ FreshInv'
  BY <1>1, <1>3, <1>5, <1>9 DEF IInv, ClientInv, RightInv, FreshInv
<1> QED  BY <1>7, <1>8, <1>10 DEF ClientInv

-----------------------------------------------------------------------------
(* Every step of a client, and what it leaves to the server as it is.       *)
LEMMA ClientKeeps ==
    ASSUME IInv, ClientSteps, world' = world
    PROVE  IInv'
<1>1. Client!Next /\ UNCHANGED serverVars
  BY DEF ClientSteps
<1>2. ServerTypes' /\ StopInv'
  BY <1>1 DEF serverVars, IInv, ServerTypes, StopInv, InsideSet
<1>3. ClientTypes' /\ MessageTypes' /\ ClientInv'
  <2>1. CASE \E c \in Clients : Client!Start(c) \/ Client!Stop(c)
    BY <2>1, ClientStartKeeps, ClientStopKeeps
  <2>2. CASE \E k \in Calls : Client!Cancel(k)
    BY <2>2, CancelKeeps
  <2>3. CASE \E t \in Callers : \/ Client!Call(t) \/ Client!CallGoesOn(t)
                                \/ Client!Timeout(t)
    BY <2>3, CallKeeps, RegisterKeeps, PublishKeeps, PublishFailsOrTimeoutKeeps,
       NotStartedOrAnsweredKeeps, GiveUpKeeps
    DEF Client!CallGoesOn
  <2>4. CASE \E c \in Clients : \/ \E r \in inbox[c] : Client!OnReply(c, r)
                                \/ \E x \in replying[c] : Client!Fulfil(c, x)
    BY <2>4, OnReplyKeeps, FulfilKeeps
  <2> QED
    BY <1>1, <2>1, <2>2, <2>3, <2>4 DEF Client!Next, Client!Calls, Calls
<1> QED  BY <1>2, <1>3 DEF IInv

-----------------------------------------------------------------------------
(* The server's steps. *)

(* They are no step of a client.                                            *)
LEMMA ServerLeavesClients ==
    ASSUME IInv, UNCHANGED clientVars, world' = world
    PROVE  ClientTypes' /\ ClientInv'
<1> USE DEF clientVars, IInv
<1>1. ClientTypes'
  BY DEF ClientTypes
<1>2. NumberInv' /\ HomeInv' /\ LeakInv'
  BY DEF ClientInv, NumberInv, HomeInv, LeakInv, Mine, Client!Mine
<1>3. RightInv' /\ FreshInv'
  BY DEF ClientInv, RightInv, FreshInv, Fresh, Replied, Unset, Mine, Client!Mine
<1> QED  BY <1>1, <1>2, <1>3 DEF ClientInv

(* start(), and the three steps of stop().                                  *)
LEMMA ServerStartKeeps ==
    ASSUME IInv, Server!Start, world' = world
    PROVE  ServerTypes' /\ MessageTypes' /\ StopInv'
<1>1. world.serves \in Nat
  BY RpcAssumption DEF IInv, ServerTypes, WorldType
<1>2. ServerTypes'
  <2>1. serves' \in 0..world'.serves
    BY <1>1 DEF IInv, ServerTypes, Server!Start
  <2>2. InsideSet' = InsideSet
    BY DEF InsideSet, Server!Start
  <2> QED  BY <2>1, <2>2 DEF IInv, ServerTypes, Server!Start
<1>3. MessageTypes'
  BY DEF IInv, MessageTypes, Server!Start
<1>4. StopInv'
  BY DEF IInv, StopInv, Server!Start
<1> QED  BY <1>2, <1>3, <1>4

LEMMA StopFlagKeeps ==
    ASSUME IInv, Server!StopFlag, world' = world
    PROVE  ServerTypes' /\ MessageTypes' /\ StopInv'
BY DEF IInv, ServerTypes, MessageTypes, StopInv, InsideSet, Inside,
       Server!StopFlag, Server!Inside

LEMMA StopResetKeeps ==
    ASSUME IInv, Server!StopReset, world' = world
    PROVE  ServerTypes' /\ MessageTypes' /\ StopInv'
BY DEF IInv, ServerTypes, MessageTypes, StopInv, InsideSet, Server!StopReset

(* A server that was patient enough to see the counter at zero leaves       *)
(* nobody inside.                                                          *)
LEMMA StopFinishKeeps ==
    ASSUME IInv, Server!StopFinish, world' = world
    PROVE  ServerTypes' /\ MessageTypes' /\ StopInv'
<1>1. ServerTypes' /\ MessageTypes'
  BY DEF IInv, ServerTypes, MessageTypes, InsideSet, Server!StopFinish
<1>2. world.patient => \A k \in Calls : at[k] \notin Inside
  <2>1. world.patient => Cardinality(InsideSet) = 0
    BY DEF IInv, ServerTypes, Server!StopFinish
  <2>2. Cardinality(InsideSet) = 0 => InsideSet = {}
    BY FS_EmptySet DEF IInv, ServerTypes
  <2> QED  BY <2>1, <2>2 DEF InsideSet
<1>3. \A k \in early : k \in Calls
  BY DEF IInv, ServerTypes
<1>4. StopInv'
  BY <1>2, <1>3 DEF IInv, StopInv, Server!StopFinish
<1> QED  BY <1>1, <1>4

(* A callback that moves on.                                                *)
Spots == Inside \cup {"none", "queued", "check", "count", "done"}

LEMMA MoveStop ==
    ASSUME IInv, world' = world,
           UNCHANGED <<serving, listening, replier, stopping, ctl, early>>,
           NEW k \in Calls, NEW from, NEW to \in Spots, Server!Moves(k, from, to),
           from # "done", to = "queued" => world.scheduled,
           from \in Inside => to \in Inside \cup {"done"},
           to \in {"check", "count"} => from \in {"check", "queued"} \/ listening,
           to \in Inside => from \in Inside \cup {"count"}
    PROVE  StopInv'
<1>1. at[k] = from /\ at' = [at EXCEPT ![k] = to] /\ at \in [Calls -> Spots]
  BY DEF Server!Moves, IInv, ServerTypes, Spots
<1>2. \A j \in Calls : at'[j] = IF j = k THEN to ELSE at[j]
  BY <1>1
<1>3. early \subseteq Calls
  BY DEF IInv, ServerTypes
<1>4. "done" \notin Inside /\ "check" \notin Inside /\ "count" \notin Inside
      /\ "queued" \notin Inside
  BY DEF Inside, Server!Inside
<1> QED  BY <1>1, <1>2, <1>3, <1>4 DEF IInv, StopInv

LEMMA MoveTypes ==
    ASSUME IInv, world' = world,
           UNCHANGED <<serving, listening, replier, stopping, ctl, serves, early>>,
           NEW k \in Calls, NEW from, NEW to \in Spots, Server!Moves(k, from, to),
           \/ (from \in Inside <=> to \in Inside) /\ inflight' = inflight
           \/ from \notin Inside /\ to \in Inside /\ inflight' = inflight + 1
           \/ from \in Inside /\ to \notin Inside /\ inflight' = inflight - 1
    PROVE  ServerTypes'
<1>1. at[k] = from /\ at' = [at EXCEPT ![k] = to] /\ at \in [Calls -> Spots]
  BY DEF Server!Moves, IInv, ServerTypes, Spots
<1>2. at' \in [Calls -> Spots]
  BY <1>1
<1>3. InsideSet' = IF to \in Inside THEN InsideSet \cup {k} ELSE InsideSet \ {k}
  BY <1>1 DEF InsideSet, Inside, Server!Inside
<1>4. k \in InsideSet <=> from \in Inside
  BY <1>1 DEF InsideSet
<1>5. IsFiniteSet(InsideSet) /\ inflight = Cardinality(InsideSet)
  BY DEF IInv, ServerTypes
<1>6. /\ IsFiniteSet(InsideSet \cup {k}) /\ IsFiniteSet(InsideSet \ {k})
      /\ k \notin InsideSet =>
             Cardinality(InsideSet \cup {k}) = Cardinality(InsideSet) + 1
      /\ k \in InsideSet =>
             Cardinality(InsideSet \ {k}) = Cardinality(InsideSet) - 1
  BY <1>5, FS_AddElement, FS_RemoveElement
<1>7. k \in InsideSet => InsideSet \cup {k} = InsideSet
  OBVIOUS
<1>8. k \notin InsideSet => InsideSet \ {k} = InsideSet
  OBVIOUS
<1>9. IsFiniteSet(InsideSet') /\ inflight' = Cardinality(InsideSet')
  BY <1>3, <1>4, <1>5, <1>6, <1>7, <1>8
<1> QED  BY <1>2, <1>9 DEF IInv, ServerTypes, Spots

(* Every move but the counter's two leaves the counter as it is.            *)
LEMMA MoveKeeps ==
    ASSUME IInv, world' = world, NEW k \in Calls,
           \/ Server!Dispatch(k) \/ Server!Check(k) \/ Server!Count(k)
           \/ Server!FindHandler(k) \/ Server!HandlerReturns(k)
           \/ Server!PublishError(k) \/ Server!Uncount(k)
    PROVE  ServerTypes' /\ MessageTypes' /\ StopInv'
<1> USE DEF Inside, Server!Inside, Spots
<1>0. UNCHANGED <<serving, listening, replier, stopping, ctl, serves, early,
                  requests, inbox, undefined>>
  BY DEF Server!Dispatch, Server!Check, Server!Count, Server!FindHandler,
         Server!HandlerReturns, Server!PublishError, Server!Uncount
<1>1. MessageTypes'
  BY <1>0 DEF IInv, MessageTypes
<1>2. CASE Server!Dispatch(k)
  BY <1>0, <1>1, <1>2, MoveTypes, MoveStop DEF Server!Dispatch
<1>3. CASE Server!Check(k)
  BY <1>0, <1>1, <1>3, MoveTypes, MoveStop DEF Server!Check
<1>4. CASE Server!Count(k)
  BY <1>0, <1>1, <1>4, MoveTypes, MoveStop DEF Server!Count
<1>5. CASE Server!FindHandler(k)
  BY <1>0, <1>1, <1>5, MoveTypes, MoveStop DEF Server!FindHandler
<1>6. CASE Server!HandlerReturns(k)
  BY <1>0, <1>1, <1>6, MoveTypes, MoveStop DEF Server!HandlerReturns
<1>7. CASE Server!PublishError(k)
  BY <1>0, <1>1, <1>7, MoveTypes, MoveStop DEF Server!PublishError
<1>8. CASE Server!Uncount(k)
  BY <1>0, <1>1, <1>8, MoveTypes, MoveStop DEF Server!Uncount
<1> QED  BY <1>2, <1>3, <1>4, <1>5, <1>6, <1>7, <1>8

(* A request arrives, and its answer is published.                          *)
LEMMA ReceiveKeeps ==
    ASSUME IInv, world' = world, NEW m \in requests, Server!Receive(m)
    PROVE  ServerTypes' /\ MessageTypes' /\ StopInv'
<1> USE DEF Inside, Server!Inside, Spots
<1>0. m.call \in Calls
  BY DEF IInv, MessageTypes, RequestType
<1>1. MessageTypes'
  BY DEF IInv, MessageTypes, Server!Receive
<1>2. ServerTypes'
  BY <1>0, MoveTypes DEF Server!Receive
<1>3. StopInv'
  BY <1>0, MoveStop DEF Server!Receive
<1> QED  BY <1>1, <1>2, <1>3

LEMMA ServerPublishKeeps ==
    ASSUME IInv, world' = world, NEW m \in requests, NEW L,
           Server!Publish(m, L)
    PROVE  ServerTypes' /\ MessageTypes' /\ StopInv'
<1> USE DEF Inside, Server!Inside, Spots
<1>0. m.call \in Calls /\ Server!Reply(m) \in ReplyType
  BY DEF IInv, MessageTypes, RequestType, ReplyType, Server!Reply
<1>1. MessageTypes'
  BY <1>0 DEF IInv, MessageTypes, Server!Publish
<1>2. ServerTypes'
  BY <1>0, MoveTypes DEF Server!Publish
<1>3. StopInv'
  BY <1>0, MoveStop DEF Server!Publish
<1> QED  BY <1>1, <1>2, <1>3

LEMMA ServerKeeps ==
    ASSUME IInv, ServerSteps, world' = world
    PROVE  IInv'
<1> DEFINE L == {c \in Clients : started[c]}
<1>1. Server!Next(L) /\ UNCHANGED clientVars
  BY DEF ServerSteps
<1> HIDE DEF L
<1>2. ServerTypes' /\ MessageTypes' /\ StopInv'
  <2>1. CASE Server!Start \/ Server!StopFlag \/ Server!StopGoesOn
    BY <2>1, ServerStartKeeps, StopFlagKeeps, StopResetKeeps, StopFinishKeeps
    DEF Server!StopGoesOn
  <2>2. CASE \E m \in requests : Server!Receive(m)
    BY <2>2, ReceiveKeeps
  <2>3. CASE \E k \in Calls : Server!CallbackGoesOn(k, L)
    BY <2>3, MoveKeeps, ServerPublishKeeps DEF Server!CallbackGoesOn
  <2> QED  BY <1>1, <2>1, <2>2, <2>3 DEF Server!Next
<1> QED  BY <1>1, <1>2, ServerLeavesClients DEF IInv

-----------------------------------------------------------------------------
(* The invariant. *)

LEMMA InitEstablishes ==
    ASSUME Init
    PROVE  IInv
<1> USE DEF Init, Client!Init, Server!Init
<1>1. world \in Worlds /\ world.starts \in Nat /\ world.serves \in Nat
  BY RpcAssumption DEF WorldType
<1>2. ClientTypes
  <2>1. /\ starts \in [Clients -> 0..world.starts]
        /\ next_id \in [Clients -> 1..(MaxCalls + 1)]
        /\ seq \in [Callers -> 0..MaxCalls]
    BY <1>1, RpcAssumption
  <2>2. promise \in [Calls -> Outcomes] /\ outcome \in [Calls -> Outcomes]
    BY OutcomeTypes DEF Client!Calls, Calls
  <2> QED  BY <2>1, <2>2 DEF ClientTypes
<1>3. MessageTypes
  <2>1. requests = {} /\ undefined = FALSE /\ inbox = [c \in Clients |-> {}]
    OBVIOUS
  <2> QED  BY <2>1 DEF MessageTypes
<1>4. InsideSet = {}
  BY DEF InsideSet, Inside, Server!Inside
<1>5. ServerTypes
  <2>1. at \in [Calls -> Inside \cup {"none", "queued", "check", "count", "done"}]
    OBVIOUS
  <2>2. IsFiniteSet(InsideSet) /\ inflight = Cardinality(InsideSet)
    BY <1>4, FS_EmptySet
  <2>3. /\ serves \in 0..world.serves
        /\ serving = FALSE /\ listening = FALSE /\ replier = FALSE
        /\ stopping = FALSE /\ ctl = "idle" /\ early = {}
    BY <1>1
  <2> QED  BY <1>1, <2>1, <2>2, <2>3 DEF ServerTypes
<1>6. \A k \in Calls : k[1] \in Clients /\ Unset(k)
  BY DEF Calls, Client!Calls, Unset, Client!Unset
<1>7. ClientInv
  <2>1. NumberInv
    BY RpcAssumption DEF NumberInv
  <2>2. HomeInv /\ LeakInv
    BY DEF HomeInv, LeakInv
  <2>3. RightInv /\ FreshInv
    BY <1>6 DEF RightInv, FreshInv, Replied
  <2> QED  BY <2>1, <2>2, <2>3 DEF ClientInv
<1>8. StopInv
  BY DEF StopInv, Inside, Server!Inside
<1> QED  BY <1>2, <1>3, <1>5, <1>7, <1>8 DEF IInv

LEMMA NextKeeps ==
    ASSUME IInv, [Next]_vars
    PROVE  IInv'
<1>1. CASE Next
  BY <1>1, ClientKeeps, ServerKeeps DEF Next
<1>2. CASE UNCHANGED vars
  <2>1. world' = world /\ UNCHANGED clientVars /\ UNCHANGED serverVars
        /\ UNCHANGED <<requests, inbox, undefined>>
    BY <1>2 DEF vars
  <2>2. ServerTypes' /\ StopInv' /\ MessageTypes'
    BY <2>1 DEF serverVars, IInv, ServerTypes, StopInv, InsideSet, MessageTypes
  <2> QED  BY <2>1, <2>2, ServerLeavesClients DEF IInv
<1> QED  BY <1>1, <1>2

LEMMA Invariance == Spec => []IInv
<1>1. Init => IInv
  BY InitEstablishes
<1>2. IInv /\ [Next]_vars => IInv'
  BY NextKeeps
<1> QED  BY <1>1, <1>2, PTL DEF Spec

(* Every variable has its type; callbacks_inflight_ counts the callbacks    *)
(* inside on_request().                                                    *)
THEOREM TypeCorrect == Spec => []TypeOK
<1>1. IInv => TypeOK
  BY DEF IInv, ClientTypes, MessageTypes, ServerTypes, TypeOK, InsideSet, Inside
<1> QED  BY <1>1, Invariance, PTL

(* A promise is fulfilled once, by on_reply() or by stop(): whoever takes   *)
(* it out of pending_ under mu_ is the only one that will set it.           *)
THEOREM FulfilledOnceTheorem == Spec => []FulfilledOnce
<1>1. ASSUME IInv, NEW k \in Calls
      PROVE  Cardinality(Owners(k)) <= 1
  <2>1. \A x, y \in Owners(k) : x = y
    BY <1>1 DEF IInv, ClientInv, RightInv, Replied, Unset, Owners
  <2>2. CASE Owners(k) = {}
    BY <2>2, FS_EmptySet
  <2>3. CASE Owners(k) # {}
    <3>1. PICK x \in Owners(k) : Owners(k) = {x}
      BY <2>1, <2>3
    <3> QED  BY <3>1, FS_Singleton
  <2> QED  BY <2>2, <2>3
<1>2. IInv => FulfilledOnce
  BY <1>1 DEF FulfilledOnce
<1> QED  BY <1>2, Invariance, PTL

(* A call that has returned, by whichever of its five exits, has no entry   *)
(* in pending_.                                                            *)
THEOREM NothingLeaksTheorem == Spec => []NothingLeaks
<1>1. IInv => NothingLeaks
  BY DEF IInv, ClientInv, LeakInv, NothingLeaks, Mine
<1> QED  BY <1>1, Invariance, PTL

(* A server whose handlers are no slower than stop() waits resets rep_ only *)
(* after the callbacks that had counted themselves, and without a scheduler *)
(* after every callback.                                                   *)
THEOREM CountedAreAwaitedTheorem == Spec => []CountedAreAwaited
<1>1. IInv => CountedAreAwaited
  <2> SUFFICES ASSUME IInv, world.patient, ~replier
               PROVE  /\ \A k \in early : at[k] \notin Inside
                      /\ ~world.scheduled =>
                             \A k \in Calls : at[k] \notin {"count"} \cup Inside
    BY DEF CountedAreAwaited, Inside
  <2>1. ~serving
    BY DEF IInv, StopInv
  <2>2. \A k \in early : at[k] = "done"
    BY <2>1 DEF IInv, StopInv
  <2>3. "done" \notin Inside
    BY DEF Inside, Server!Inside
  <2> QED  BY <2>1, <2>2, <2>3 DEF IInv, StopInv
<1> QED  BY <1>1, Invariance, PTL

-----------------------------------------------------------------------------
(* Whose answer a call gets. *)

(* With distinct prefixes an id is the id of one call.                      *)
LEMMA OneCallOfId ==
    ASSUME DistinctPrefixes, NEW j \in Calls, NEW k \in Calls,
           Request(j).id = Request(k).id
    PROVE  j = k
BY DEF DistinctPrefixes, Request, Client!Request, Calls

LEMMA NamedKeeps ==
    ASSUME IInv, NamedInv, [Next]_vars
    PROVE  NamedInv'
<1>1. /\ inbox \in [Clients -> SUBSET ReplyType]
      /\ \A c \in Clients : \A r \in inbox[c] : r.id = Request(r.of).id
      /\ \A m \in requests : m.id = Request(m.call).id
  BY DEF NamedInv, IInv, MessageTypes
<1>2. CASE UNCHANGED <<requests, inbox>>
  BY <1>2 DEF NamedInv
<1>3. ASSUME NEW t \in Callers, Client!Publish(t)
      PROVE  NamedInv'
  <2>1. /\ inbox' = inbox
        /\ requests' \subseteq requests \cup {Request(Mine(t))}
    BY <1>3 DEF Client!Publish, Request, Mine
  <2>2. Request(Mine(t)).call = Mine(t)
    BY DEF Request, Client!Request
  <2> QED  BY <1>1, <2>1, <2>2 DEF NamedInv
<1>4. ASSUME NEW c \in Clients, NEW r \in inbox[c], Client!OnReply(c, r)
      PROVE  NamedInv'
  <2>1. /\ requests' = requests
        /\ \A d \in Clients : inbox'[d] \subseteq inbox[d]
    BY <1>1, <1>4 DEF Client!OnReply
  <2> QED  BY <1>1, <2>1 DEF NamedInv
<1>5. ASSUME NEW m \in requests, NEW L, Server!Publish(m, L)
      PROVE  NamedInv'
  <2>1. /\ requests' = requests
        /\ \A d \in Clients : inbox'[d] \subseteq inbox[d] \cup {Server!Reply(m)}
    BY <1>5 DEF Server!Publish
  <2>2. Server!Reply(m).id = Request(Server!Reply(m).of).id
    BY <1>1 DEF Server!Reply
  <2> QED  BY <1>1, <2>1, <2>2 DEF NamedInv
<1>6. CASE ClientSteps
  BY <1>2, <1>3, <1>4, <1>6
  DEF ClientSteps, Client!Next, Client!CallGoesOn, Client!Start, Client!Stop,
      Client!Cancel, Client!Call, Client!NotStarted, Client!Register,
      Client!PublishFails, Client!Answered, Client!GiveUp, Client!Timeout,
      Client!Fulfil
<1>7. CASE ServerSteps
  BY <1>2, <1>5, <1>7
  DEF ServerSteps, Server!Next, Server!StopGoesOn, Server!CallbackGoesOn,
      Server!Start, Server!StopFlag, Server!StopReset, Server!StopFinish,
      Server!Receive, Server!Dispatch, Server!Check, Server!Count,
      Server!FindHandler, Server!HandlerReturns, Server!PublishError,
      Server!Uncount
<1>8. CASE UNCHANGED vars
  BY <1>2, <1>8 DEF vars
<1> QED  BY <1>6, <1>7, <1>8 DEF Next

LEMMA AnswerKeeps ==
    ASSUME DistinctPrefixes, IInv, NamedInv, AnswerInv, [Next]_vars
    PROVE  AnswerInv'
<1>1. /\ replying \in [Clients -> SUBSET [call : Calls, reply : ReplyType]]
      /\ promise \in [Calls -> Outcomes] /\ outcome \in [Calls -> Outcomes]
      /\ \A c \in Clients : \A x \in replying[c] : x.reply.of = x.call
      /\ \A k \in Calls : promise[k].code = "answered" => promise[k].of = k
      /\ \A k \in Calls : outcome[k].code = "answered" => outcome[k].of = k
  BY DEF AnswerInv, AnswerIsMine, IInv, ClientTypes
<1>2. CASE UNCHANGED <<replying, promise, outcome>>
  BY <1>2 DEF AnswerInv, AnswerIsMine
<1>3. ASSUME NEW k \in Calls, Client!Cancel(k)
      PROVE  AnswerInv'
  <2>1. /\ UNCHANGED <<replying, outcome>>
        /\ \A j \in Calls : \/ promise'[j] = promise[j]
                            \/ promise'[j] = Client!Plain("cancelled")
    BY <1>1, <1>3 DEF Client!Cancel, Client!SetValue
  <2> QED  BY <1>1, <2>1 DEF AnswerInv, AnswerIsMine, Client!Plain
<1>4. ASSUME NEW t \in Callers,
             \/ Client!NotStarted(t) \/ Client!Answered(t) \/ Client!GiveUp(t)
      PROVE  AnswerInv'
  <2>1. pc[t] # "idle"
    BY <1>4 DEF Client!NotStarted, Client!Answered, Client!GiveUp
  <2>2. Mine(t) \in Calls
    BY <2>1, MineTypes DEF IInv, ClientInv
  <2>3. PICK r : /\ outcome' = [outcome EXCEPT ![Mine(t)] = r]
                 /\ \/ r = promise[Mine(t)]
                    \/ r.code \in {"not_started", "transport", "timeout"}
    BY <1>4
    DEF Client!NotStarted, Client!Answered, Client!GiveUp, Client!Returns,
        Client!Plain, Mine
  <2>4. UNCHANGED <<replying, promise>>
    BY <1>4 DEF Client!NotStarted, Client!Answered, Client!GiveUp
  <2>5. \A k \in Calls : outcome'[k] = IF k = Mine(t) THEN r ELSE outcome[k]
    BY <1>1, <2>3
  <2> QED  BY <1>1, <2>2, <2>3, <2>4, <2>5 DEF AnswerInv, AnswerIsMine
<1>5. ASSUME NEW c \in Clients, NEW r \in inbox[c], Client!OnReply(c, r)
      PROVE  AnswerInv'
  <2>1. /\ UNCHANGED <<promise, outcome>>
        /\ \A d \in Clients :
               replying'[d] \subseteq
                   replying[d] \cup [call : Client!Waiting(c, r), reply : {r}]
    BY <1>1, <1>5 DEF Client!OnReply
  <2>2. r \in ReplyType /\ r.of \in Calls /\ r.id = Request(r.of).id
    BY DEF NamedInv, IInv, MessageTypes, ReplyType
  <2>3. \A k \in Client!Waiting(c, r) : k = r.of
    <3> SUFFICES ASSUME NEW k \in Client!Waiting(c, r)
                 PROVE  k = r.of
      OBVIOUS
    <3>1. k \in Calls
      BY <2>2, WaitingIsOne
    <3>2. Request(k).id = Request(r.of).id
      BY <2>2 DEF Client!Waiting, Request
    <3> QED  BY <2>2, <3>1, <3>2, OneCallOfId
  <2> QED  BY <1>1, <2>1, <2>3 DEF AnswerInv, AnswerIsMine
<1>6. ASSUME NEW c \in Clients, NEW x \in replying[c], Client!Fulfil(c, x)
      PROVE  AnswerInv'
  <2>1. x.reply.of = x.call /\ x.call \in Calls
    BY <1>1
  <2>2. /\ outcome' = outcome
        /\ \A d \in Clients : replying'[d] \subseteq replying[d]
        /\ \A j \in Calls :
               \/ promise'[j] = promise[j]
               \/ j = x.call /\ promise'[j] = [code |-> "answered", of |-> x.reply.of]
    BY <1>1, <1>6 DEF Client!Fulfil, Client!SetValue
  <2> QED  BY <1>1, <2>1, <2>2 DEF AnswerInv, AnswerIsMine
<1>7. CASE ClientSteps
  BY <1>2, <1>3, <1>4, <1>5, <1>6, <1>7
  DEF ClientSteps, Client!Next, Client!CallGoesOn, Client!Calls, Calls,
      Client!Start, Client!Stop, Client!Call, Client!Register, Client!Publish,
      Client!PublishFails, Client!Timeout
<1>8. CASE ServerSteps \/ UNCHANGED vars
  BY <1>2, <1>8 DEF ServerSteps, clientVars, vars
<1> QED  BY <1>7, <1>8 DEF Next

(* call() returns the answer to its own request, if no two clients share a  *)
(* client_id_prefix: stale replies and other clients' replies find no call  *)
(* that waits for their id.                                                *)
THEOREM AnswerIsMineTheorem ==
    ASSUME DistinctPrefixes
    PROVE  Spec => []AnswerIsMine
<1>1. Init => NamedInv /\ AnswerInv
  BY DEF Init, Client!Init, Server!Init, NamedInv, AnswerInv, AnswerIsMine,
         Client!Unset, Calls, Client!Calls
<1>2. IInv /\ NamedInv /\ AnswerInv /\ [Next]_vars => (NamedInv /\ AnswerInv)'
  BY NamedKeeps, AnswerKeeps
<1>3. AnswerInv => AnswerIsMine
  BY DEF AnswerInv
<1> QED  BY <1>1, <1>2, <1>3, Invariance, PTL DEF Spec
-----------------------------------------------------------------------------
(* The other clients of a service are those of Discovery: TypeOK and        *)
(* LastWord of it, for any clients and any number of requests given up.     *)

CONSTANTS Configured, Leaving, Refreshing, Info, MaxLate

VARIABLES owner, running, worker, user, answer, peers, registry, late, sent

D == INSTANCE Discovery

(* LastWord is inductive together with TypeOK, which says that a worker     *)
(* runs at most until it is joined: stop() sends only after that.          *)
DiscoveryInv == D!TypeOK /\ D!LastWord

(* What a request may change: the service's list, what is on its way to it, *)
(* and what its client said last.                                          *)
LEMMA PostTypes ==
    ASSUME D!TypeOK, NEW c \in Configured, c \in Clients, NEW kind \in D!Kinds,
           D!Post(c, kind)
    PROVE  /\ registry' \in SUBSET Configured
           /\ late' \in SUBSET (Configured \X D!Kinds)
           /\ sent' = [sent EXCEPT ![c] = kind]
           /\ answer' = answer /\ peers' = peers
BY DEF D!TypeOK, D!Post, D!Handled

(* A client that starts has sent nothing it would have to take back.        *)
LEMMA DiscoveryStarts == D!Init => DiscoveryInv
BY DEF D!Init, DiscoveryInv, D!TypeOK, D!LastWord, D!Threads, D!Kinds

(* The steps of stop() keep the invariant.                                  *)
LEMMA StopGoesOnKeeps ==
    ASSUME DiscoveryInv, NEW c \in Clients, D!StopGoesOn(c)
    PROVE  DiscoveryInv'
<1>1. CASE D!Join(c)
  BY <1>1 DEF D!Join, DiscoveryInv, D!TypeOK, D!LastWord, D!NoPost
<1>2. CASE D!SayGoodbye(c)
  <2>1. c \in Configured /\ owner[c] \in D!Kinds /\ worker[c] = "none"
    BY <1>2 DEF D!SayGoodbye, DiscoveryInv, D!TypeOK, D!Kinds
  <2>2. /\ registry' \in SUBSET Configured
        /\ late' \in SUBSET (Configured \X D!Kinds)
        /\ sent' = [sent EXCEPT ![c] = owner[c]]
        /\ answer' = answer /\ peers' = peers
    BY <1>2, <2>1, PostTypes DEF D!SayGoodbye, DiscoveryInv
  <2>3. D!TypeOK'
    BY <1>2, <2>1, <2>2 DEF D!SayGoodbye, DiscoveryInv, D!TypeOK
  <2>4. D!LastWord'
    BY <1>2, <2>1, <2>2 DEF D!SayGoodbye, DiscoveryInv, D!TypeOK, D!LastWord
  <2> QED  BY <2>3, <2>4 DEF DiscoveryInv
<1> QED  BY <1>1, <1>2 DEF D!StopGoesOn

(* The worker's steps keep it: each is taken by a worker that has not been  *)
(* joined, so its owner is not idle.                                       *)
LEMMA RunKeeps ==
    ASSUME DiscoveryInv, NEW c \in Clients, D!run(c)
    PROVE  DiscoveryInv'
<1>1. /\ owner[c] \in {"on", "join"} /\ c \in Configured
      /\ UNCHANGED <<owner, running, user>>
  BY DEF D!run, D!Register, D!Test, D!Heartbeat, D!Fetch, D!FetchFails,
         D!Store, D!Sleep, D!At, D!Goes, DiscoveryInv, D!TypeOK
<1>2. ASSUME NEW kind \in {"register", "heartbeat"}, NEW place,
             place \in {"test", "fetch"}, D!Post(c, kind), D!Goes(c, place)
      PROVE  DiscoveryInv'
  <2>1. kind \in D!Kinds
    BY <1>2 DEF D!Kinds
  <2>2. /\ registry' \in SUBSET Configured
        /\ late' \in SUBSET (Configured \X D!Kinds)
        /\ sent' = [sent EXCEPT ![c] = kind]
        /\ answer' = answer /\ peers' = peers
    BY <1>1, <1>2, <2>1, PostTypes DEF DiscoveryInv
  <2>3. D!TypeOK'
    BY <1>1, <1>2, <2>1, <2>2 DEF D!Goes, DiscoveryInv, D!TypeOK
  <2>4. D!LastWord'
    BY <1>1, <1>2, <2>2 DEF D!Goes, DiscoveryInv, D!TypeOK, D!LastWord
  <2> QED  BY <2>3, <2>4 DEF DiscoveryInv
<1>3. CASE D!Register(c) \/ D!Heartbeat(c)
  BY <1>2, <1>3 DEF D!Register, D!Heartbeat
<1>4. CASE D!Test(c) \/ D!FetchFails(c) \/ D!Sleep(c)
  BY <1>1, <1>4 DEF D!Test, D!FetchFails, D!Sleep, D!At, D!Goes, D!NotAnswered,
                    D!NoPost, DiscoveryInv, D!TypeOK, D!LastWord
<1>5. CASE D!Fetch(c)
  BY <1>1, <1>5 DEF D!Fetch, D!At, D!Goes, D!Answered, D!NoPost, D!Threads,
                    DiscoveryInv, D!TypeOK, D!LastWord
<1>6. CASE D!Store(c)
  <2>1. answer[c]["worker"] \in SUBSET Configured
    BY DEF DiscoveryInv, D!TypeOK, D!Threads
  <2> QED  BY <1>1, <1>6, <2>1 DEF D!Store, D!At, D!Goes, D!Swap, D!NoPost,
                                   D!Threads, DiscoveryInv, D!TypeOK,
                                   D!LastWord
<1> QED  BY <1>3, <1>4, <1>5, <1>6 DEF D!run

(* So do the calls of users, and the service.                               *)
LEMMA OthersKeep ==
    ASSUME DiscoveryInv, NEW c \in Clients,
           \/ D!start(c) \/ D!stop(c)
           \/ D!RefreshFetches(c) \/ D!RefreshStores(c)
           \/ D!Expire(c) \/ \E r \in late : D!ArrivesLate(r)
    PROVE  DiscoveryInv'
<1>1. CASE D!start(c)
  BY <1>1 DEF D!start, D!NoPost, DiscoveryInv, D!TypeOK, D!LastWord
<1>6. CASE D!stop(c)
  BY <1>6 DEF D!stop, D!NoPost, DiscoveryInv, D!TypeOK, D!LastWord
<1>2. CASE D!RefreshFetches(c)
  BY <1>2 DEF D!RefreshFetches, D!Answered, D!NoPost, D!Threads, DiscoveryInv,
              D!TypeOK, D!LastWord
<1>3. CASE D!RefreshStores(c)
  <2>1. answer[c]["user"] \in SUBSET Configured
    BY DEF DiscoveryInv, D!TypeOK, D!Threads
  <2> QED  BY <1>3, <2>1 DEF D!RefreshStores, D!Swap, D!NoPost, D!Threads,
                             DiscoveryInv, D!TypeOK, D!LastWord
<1>4. CASE D!Expire(c)
  BY <1>4 DEF D!Expire, D!threads, DiscoveryInv, D!TypeOK, D!LastWord
<1>5. ASSUME NEW r \in late, D!ArrivesLate(r)  PROVE DiscoveryInv'
  <2>1. r[1] \in Configured
    BY <1>5 DEF DiscoveryInv, D!TypeOK
  <2> QED  BY <1>5, <2>1 DEF D!ArrivesLate, D!Handled, D!threads, DiscoveryInv,
                             D!TypeOK, D!LastWord
<1> QED  BY <1>1, <1>2, <1>3, <1>4, <1>5, <1>6

LEMMA DiscoveryKeeps ==
    ASSUME Configured \subseteq Clients
    PROVE  DiscoveryInv /\ [D!Next]_(D!vars) => DiscoveryInv'
<1> SUFFICES ASSUME DiscoveryInv, [D!Next]_(D!vars)  PROVE DiscoveryInv'
  OBVIOUS
<1>1. CASE UNCHANGED D!vars
  BY <1>1 DEF D!vars, D!threads, DiscoveryInv, D!TypeOK, D!LastWord
<1>2. ASSUME NEW c \in Clients, D!StopGoesOn(c)  PROVE DiscoveryInv'
  BY <1>2, StopGoesOnKeeps
<1>3. ASSUME NEW c \in Clients, D!run(c)  PROVE DiscoveryInv'
  BY <1>3, RunKeeps
<1>4. ASSUME NEW c \in Clients,
             \/ D!start(c) \/ D!stop(c)
             \/ D!RefreshFetches(c) \/ D!RefreshStores(c)
             \/ D!Expire(c)
      PROVE  DiscoveryInv'
  BY <1>4, OthersKeep
<1>5. ASSUME NEW r \in late, D!ArrivesLate(r)  PROVE DiscoveryInv'
  <2>1. r[1] \in Clients
    BY <1>5 DEF DiscoveryInv, D!TypeOK
  <2> QED  BY <1>5, <2>1, OthersKeep
<1> QED  BY <1>1, <1>2, <1>3, <1>4, <1>5 DEF D!Next

(* All of the invariant, in every reachable state.                          *)
THEOREM DiscoveryInvariance ==
    ASSUME Configured \subseteq Clients
    PROVE  D!Spec => []DiscoveryInv
<1>1. D!Init => DiscoveryInv
  BY DiscoveryStarts
<1>2. DiscoveryInv /\ [D!Next]_(D!vars) => DiscoveryInv'
  BY DiscoveryKeeps
<1> QED  BY <1>1, <1>2, PTL DEF D!Spec

(* The last thing a client says of itself is that it leaves, whatever the   *)
(* interleaving of stop(), the worker and the service (discovery.cpp:40).   *)
THEOREM LastWordTheorem ==
    ASSUME Configured \subseteq Clients
    PROVE  D!Spec => []D!LastWord
<1>1. DiscoveryInv => D!LastWord
  BY DEF DiscoveryInv
<1> QED  BY <1>1, DiscoveryInvariance, PTL

(* Types, who is listed, and that a worker runs only until it is joined.    *)
THEOREM DiscoveryTypes ==
    ASSUME Configured \subseteq Clients
    PROVE  D!Spec => []D!TypeOK
<1>1. DiscoveryInv => D!TypeOK
  BY DEF DiscoveryInv
<1> QED  BY <1>1, DiscoveryInvariance, PTL
=============================================================================
