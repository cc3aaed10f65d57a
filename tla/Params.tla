------------------------------- MODULE Params -------------------------------
(***************************************************************************)
(* The parameter servers of one process: a public one and a distributed     *)
(* one, joined by the ParamStore that both write.  A behaviour ends when it *)
(* reaches undefined behaviour of the code.                                *)
(***************************************************************************)
EXTENDS Naturals, Sequences, FiniteSets

CONSTANTS Threads, Users, Keys, Observers, Desc, Inputs, Wire, MaxQueue,
          Snapshot, MaxInt,
          Worlds        \* bounds: how much each part is used

(* public, user: calls of the two servers; wire: messages and fetches.      *)
WorldType == [public : Nat, user : [Users -> Nat], wire : Nat]

(* What comes from the topics names its keys; set sends one pair.            *)
MessageType(m) ==
    /\ m.kind \in {"set", "bulk", "export", "reply"}
    /\ m.kvs \in Seq({m.kvs[i] : i \in DOMAIN m.kvs})
    /\ \A i \in DOMAIN m.kvs : m.kvs[i].key \in Keys
    /\ m.kind = "set" => Len(m.kvs) = 1
    /\ m.kind = "bulk" => m.kvs # << >>

ASSUME ParamsAssumption ==
    /\ Worlds \subseteq WorldType
    /\ MaxQueue \in Nat \ {0}
    /\ MaxInt \in Nat
    /\ Snapshot \in {"none", "lines", "json"}
    /\ DOMAIN Desc = Keys
    /\ {"worker", "fetch"} \cap Users = {}
    /\ IsFiniteSet(Keys)
    /\ \A m \in Wire : MessageType(m)

VARIABLES values, observers, file, call, told, raced, left,
          types, cache, watchers, heard, declared, params, dfile,
          running, fetching, closed, set_queue, export_queue, batch, lost,
          messages, frame, crossed, calls, traffic, undefined,
          store

Public == INSTANCE PublicParams
Dist == INSTANCE DistributedParams

publicVars == <<values, observers, file, call, told, raced, left>>
distVars == <<types, cache, watchers, heard, declared, params, dfile,
              running, fetching, closed, set_queue, export_queue, batch, lost,
              messages, frame, crossed, calls, traffic, undefined>>
vars == <<publicVars, distVars, store>>

Init == /\ Public!Init /\ Dist!Init
        /\ store = << >>
        /\ \E w \in Worlds :
               left = w.public /\ calls = w.user /\ traffic = w.wire

Next == /\ ~undefined
        /\ \/ Public!Next /\ UNCHANGED distVars
           \/ Dist!Next /\ UNCHANGED publicVars

Spec == Init /\ [][Next]_vars

Alone(A) == ~undefined /\ A /\ UNCHANGED publicVars
Worker == Alone(Dist!Worker)
Continue(t) == Alone(Dist!Continue(t) \/ Dist!DeclareWire(t))
StopJoin == Alone(Dist!StopJoin)

(* Threads inside a call go on, and the worker runs.  No message is assumed *)
(* to arrive and nobody to call.                                           *)
Fairness == /\ WF_vars(Worker) /\ WF_vars(StopJoin)
            /\ \A t \in Users \cup {"fetch"} : WF_vars(Continue(t))

FairSpec == Spec /\ Fairness

-----------------------------------------------------------------------------
(* Properties. *)

(* Every variable has its type; the queues keep to their limit.             *)
TypeOK ==
    /\ DOMAIN values \subseteq Keys /\ DOMAIN file \subseteq Keys
    /\ \A k \in DOMAIN values : values[k].type = Desc[k].type
    /\ \A k \in Keys : observers[k] \in Seq(Observers)
    /\ raced \subseteq Keys /\ crossed \subseteq Keys
    /\ types \subseteq Keys /\ declared \subseteq Keys
    /\ \A k \in DOMAIN cache : cache[k].type = Desc[k].type
    /\ running \in BOOLEAN /\ fetching \in BOOLEAN /\ closed \in BOOLEAN
    /\ Len(set_queue) <= MaxQueue /\ Len(export_queue) <= MaxQueue
    /\ undefined \in BOOLEAN

Heard(whom, log, k, v) ==
    \A i \in DOMAIN whom[k] : /\ k \in DOMAIN log[whom[k][i]]
                              /\ log[whom[k][i]][k] = v

Quiet(k) == /\ k \notin crossed
            /\ \A t \in Dist!All : k \notin Dist!KeysOf(frame[t])

(* ParamStore has what one of the servers has, the one that was last.       *)
StoreFollows(k) ==
    /\ k \in DOMAIN store
    /\ \/ k \in DOMAIN values /\ store[k] = Dist!toString(values[k])
       \/ k \in DOMAIN params /\ store[k] = params[k]

(* Public server: when nobody is telling of a key and its last calls did    *)
(* not overlap, each of its observers was last told the value it has.  When *)
(* they did, setValue() may tell in the opposite order of the stores.  And  *)
(* ParamStore has what one of the servers has; not so for a key the wire    *)
(* server keeps read-only, whose default ParamStore never gets.             *)
PublicSettles ==
    \A k \in DOMAIN values :
        /\ (~undefined /\ Quiet(k) /\ ~Desc[k].read_only) => StoreFollows(k)
        /\ (/\ k \notin raced
            /\ \A t \in Threads : k \notin Public!Pending(call[t]))
           => Heard(observers, told, k, values[k])

(* Distributed server: when no call, message or fetch of a writable key is  *)
(* under way and the last ones did not overlap, the wire server's string is *)
(* what the typed value prints to, reads back as the typed value, or is a   *)
(* string nobody can read; ParamStore has it; and the observers know the    *)
(* typed value.  Not so for a read-only key, whose default the wire server  *)
(* refuses and whose set() it refuses too, without anybody noticing.        *)
DistributedSettles ==
    \A k \in declared :
        (~undefined /\ Quiet(k) /\ ~Desc[k].read_only) =>
        LET read == Dist!parseFromString(params[k], Desc[k].type) IN
        /\ \/ params[k] = Dist!toString(cache[k])
           \/ read \in {cache[k], Dist!NoValue}
        /\ StoreFollows(k)
        /\ Heard(watchers, heard, k, cache[k])

Waiting == {set_queue[i] : i \in DOMAIN set_queue}
           \cup {export_queue[i] : i \in DOMAIN export_queue}
           \cup {batch[i] : i \in DOMAIN batch}
InHand == {frame["worker"].msg} \ {0}

(* Every message that left the queues is answered once: a set is accepted   *)
(* or refused, a bulk acknowledged if anything of it was applied, an export *)
(* request answered and the reply to one left alone.                       *)
AnsweredOnce ==
    \A i \in DOMAIN messages :
        LET m == messages[i] IN
        /\ Len(m.out) <= 1
        /\ m.kind = "reply" => m.out = << >>
        /\ (~undefined /\ m.kind \in {"set", "export"}
                /\ i \notin Waiting \cup InHand \cup lost) => Len(m.out) = 1

(* No message is left in a queue: the worker takes it, a newer one pushes   *)
(* it out, or the server stops, and then its destructor returns although    *)
(* the worker and the fetch thread were anywhere.  (Messages are alike; the *)
(* first stands for all.)                                                  *)
MessagesAreServed ==
    /\ (1 \in Waiting) ~> (1 \notin Waiting \/ ~running \/ undefined)
    /\ ~running ~> (closed \/ undefined)
=============================================================================
