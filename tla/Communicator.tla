---------------------------- MODULE Communicator ----------------------------
(***************************************************************************)
(* FastDDSCommunicator (src/communication.cpp): send and receive texts and  *)
(* EventDTOs by topic, through a FastddsChannel per topic that is made when *)
(* the topic is first used and whose messages wait in a bounded queue, and  *)
(* through a local copy of what the communicator itself sent last, unless   *)
(* COMM_DISABLE_FALLBACK is set.  Texts and DTOs of one topic name share    *)
(* the DDS topic, so each finds the other's bytes in its queue.  Beside it, *)
(* publishers and subscriptions of typed DTOs.                             *)
(*                                                                         *)
(* There is one topic.  A channel delivers what each writer published in    *)
(* its order, or loses it; making one may throw.  A communicator has a      *)
(* writer for its texts and one for its DTOs, between which DDS promises no *)
(* order.  The callback drops an empty text, which here is lost.            *)
(*                                                                         *)
(* No name is one that FastddsChannel has too, so that one module of proofs *)
(* can be about both.                                                      *)
(***************************************************************************)
EXTENDS Codec

CONSTANTS Worlds,      \* what happens, one record per case
          MaxSent,     \* bound: messages sent in all
          MaxReceives  \* bound: calls of receive and receiveDTO, per queue

Tables == {"text", "dto"}

(* A depth is an int. *)
WorldIsFit(w) == /\ w.uses \subseteq Tables
                 /\ \A p \in w.profiles : p.depth \in Int
                 /\ \A c \in DOMAIN w.fallback : w.qos[c].depth \in Int

ASSUME CommunicatorAssumption == \A w \in Worlds : WorldIsFit(w)

VARIABLES world,
          sent,      \* the messages so far, newest last
          entry,     \* communicator -> table -> its ChannelTopicEntry
          local,     \* communicator -> table -> local_*_queue_[topic]
          qos,       \* communicator -> topic_qos_[topic]
          pending,   \* entry -> writer -> what is still to be delivered to it
          heard,     \* entry -> what has been delivered to it
          results,   \* entry -> what receive* has returned so far
          gone,      \* the communicators that have been destroyed
          typed      \* the typed message under way

commVars == <<world, sent, entry, local, qos, pending, heard, results, gone,
              typed>>

Communicators == DOMAIN world.fallback
Writers == Communicators \X Tables
WriterOf(m) == <<m.from, m.table>>
Nothing == 0   \* no message; they are numbered from 1

NoEntry == [open |-> FALSE, queue |-> << >>, capacity |-> 32]
PerTable(x) == [c \in Communicators |-> [t \in Tables |-> x]]

CommunicatorInit ==
    /\ world \in Worlds
    /\ sent = << >>
    /\ entry = PerTable(NoEntry) /\ local = PerTable(Nothing)
    /\ qos = [c \in Communicators |-> world.qos[c]]
    /\ pending = PerTable([w \in Writers |-> << >>])
    /\ heard = PerTable(<< >>) /\ results = PerTable(<< >>)
    /\ gone = {}
    /\ typed = [at |-> "idle"]

-----------------------------------------------------------------------------
(* ensure_topic_channel *)

\* channel_qos_from_legacy: a depth below 1 counts as 1, keep_all as 0.
History(profile) == IF profile.history = "keep_all" THEN 0
                    ELSE Larger(1, profile.depth)

Capacity(profile) == IF History(profile) = 0 THEN 32
                     ELSE Larger(1, History(profile))

Opened(c, t) == IF entry[c][t].open THEN entry
                ELSE [entry EXCEPT ![c][t].open = TRUE,
                                   ![c][t].capacity = Capacity(qos[c])]

\* setTopicQos: it has no effect on a channel that is there already.
setTopicQos(c) == /\ \E p \in world.profiles : qos' = [qos EXCEPT ![c] = p]
                  /\ UNCHANGED <<world, sent, entry, local, pending, heard,
                                 results, gone, typed>>

-----------------------------------------------------------------------------
(* send and sendDTO *)

Message(c, t, fields) ==
    [id |-> Len(sent) + 1, from |-> c, table |-> t, fields |-> fields,
     bytes |-> IF t = "text" THEN Failed
               ELSE LegacyEncoded(fields)]

\* Every open channel on the topic gets what is published, the sender's too.
Published(m, entries) ==
    [c \in Communicators |-> [t \in Tables |->
        IF entries[c][t].open
        THEN [pending[c][t] EXCEPT ![WriterOf(m)] = Append(@, m.id)]
        ELSE pending[c][t]]]

send(c, t, fields) ==
    LET m == Message(c, t, fields) IN
    /\ Len(sent) < MaxSent
    /\ sent' = Append(sent, m)
    /\ local' = IF world.fallback[c] THEN [local EXCEPT ![c][t] = m.id]
                ELSE local
    /\ \/ /\ entry' = Opened(c, t)
          /\ pending' = IF t = "dto" /\ m.bytes = Failed THEN pending
                        ELSE Published(m, Opened(c, t))
       \/ \* the channel cannot be made: logged, or thrown to the caller
          ~entry[c][t].open /\ UNCHANGED <<entry, pending>>
    /\ UNCHANGED <<world, qos, heard, results, gone, typed>>

\* Mutation: the queue is full, so the message is not taken.
Bug_Kept(queue, id, capacity) ==
    IF Len(queue) = capacity THEN queue ELSE Append(queue, id)

\* Over capacity the oldest ones go.
Kept(queue, id, capacity) ==
    LET all == Append(queue, id)
    IN SubSeq(all, Larger(0, Len(all) - capacity) + 1, Len(all))

(* The subscription's callback, on a thread of the channel. *)
Deliver(c, t, w) ==
    /\ pending[c][t][w] # << >>
    /\ pending' = [pending EXCEPT ![c][t][w] = Tail(@)]
    /\ LET id == Head(pending[c][t][w]) IN
       /\ entry' = [entry EXCEPT ![c][t].queue =
                       Kept(@, id, entry[c][t].capacity)]
       /\ heard' = [heard EXCEPT ![c][t] = Append(@, id)]
    /\ UNCHANGED <<world, sent, local, qos, results, gone, typed>>

Lose(c, t, w) == /\ pending[c][t][w] # << >>
                 /\ pending' = [pending EXCEPT ![c][t][w] = Tail(@)]
                 /\ UNCHANGED <<world, sent, entry, local, qos, heard, results,
                                gone, typed>>

-----------------------------------------------------------------------------
(* receive and receiveDTO *)

Result(id, ok, by) == [id |-> id, ok |-> ok, by |-> by]
Returns(c, t, r) == results' = [results EXCEPT ![c][t] = Append(@, r)]

\* Any bytes make a text; bytes that make no EventDTO make receiveDTO false.
Understood(t, m) == \/ t = "text"
                    \/ /\ Decoded(m.bytes, LegacyKinds).ok
                       /\ Decoded(m.bytes, LegacyKinds).fields = m.fields

FromQueue(c, t) ==
    LET id == Head(entry[c][t].queue) IN
    /\ entry[c][t].queue # << >>
    /\ entry' = [entry EXCEPT ![c][t].queue = Tail(@)]
    /\ Returns(c, t, Result(id, Understood(t, sent[id]), "queue"))
    /\ UNCHANGED local

\* With an empty queue or without a channel, what was sent from here last.
FromLocal(c, t) ==
    /\ entry[c][t].queue = << >>
    /\ \/ entry' = Opened(c, t)
       \/ ~entry[c][t].open /\ UNCHANGED entry
    /\ IF world.fallback[c] /\ local[c][t] # Nothing
       THEN /\ Returns(c, t, Result(local[c][t], TRUE, "local"))
            /\ local' = [local EXCEPT ![c][t] = Nothing]
       ELSE UNCHANGED <<results, local>>   \* "" or false

receive(c, t) == /\ Len(results[c][t]) < MaxReceives
                 /\ FromQueue(c, t) \/ FromLocal(c, t)
                 /\ UNCHANGED <<world, sent, qos, pending, heard, gone, typed>>

\* ~Impl: the subscriptions first, then the channels.
Destroy(c) == /\ world.ends /\ gone' = gone \cup {c}
              /\ entry' = [entry EXCEPT ![c] = [t \in Tables |-> NoEntry]]
              /\ pending' = [pending EXCEPT ![c] = [t \in Tables |->
                                [w \in Writers |-> << >>]]]
              /\ UNCHANGED <<world, sent, local, qos, heard, results, typed>>

-----------------------------------------------------------------------------
(* Typed messages: EventDtoPublisher and what decodes on the other side. *)

publish == /\ typed.at = "idle"
           /\ \E m \in world.typed :
                 typed' = [at |-> "wire", message |-> m,
                           bytes |-> Encoded(m.way, m.fields, m.reserve)]
           /\ UNCHANGED <<world, sent, entry, local, qos, pending, heard,
                          results, gone>>

decode == /\ typed.at = "wire"
          /\ typed' = [at |-> "done", message |-> typed.message,
                       read |-> Decoded(typed.bytes, typed.message.kinds)]
          /\ UNCHANGED <<world, sent, entry, local, qos, pending, heard,
                          results, gone>>

CommunicatorNext ==
    \/ \E c \in Communicators \ gone :
          \/ setTopicQos(c) \/ Destroy(c)
          \/ \E t \in world.uses :
                \/ \E fields \in world.says[t] : send(c, t, fields)
                \/ receive(c, t)
                \/ \E w \in Writers : Deliver(c, t, w) \/ Lose(c, t, w)
    \/ publish \/ decode

CommunicatorSpec == CommunicatorInit /\ [][CommunicatorNext]_commVars

-----------------------------------------------------------------------------
(* Every variable has its type, queues and copies hold messages that were    *)
(* sent, and only the queue of an open channel holds any.                   *)
CommunicatorTypeOK ==
    /\ gone \subseteq Communicators
    /\ typed.at \in {"idle", "wire", "done"}
    /\ \A c \in Communicators, t \in Tables :
          /\ entry[c][t].open \in BOOLEAN
          /\ entry[c][t].queue \in Seq(DOMAIN sent)
          /\ Len(entry[c][t].queue) <= entry[c][t].capacity
          /\ entry[c][t].queue # << >> => entry[c][t].open
          /\ local[c][t] \in {Nothing} \cup DOMAIN sent
          /\ heard[c][t] \in Seq(DOMAIN sent)
          /\ pending[c][t] \in [Writers -> Seq(DOMAIN sent)]
          /\ \A i \in DOMAIN results[c][t] : results[c][t][i].id \in DOMAIN sent

(* Properties. *)

(* What has been encoded can be decoded, and is then what it was, whatever   *)
(* the lengths of its strings and with whatever room a serializer begins:   *)
(* no buffer is too small, not even the communicator's, whose size is an    *)
(* estimate (communication.cpp:104), and only texts fail as EventDTOs.      *)
RoundTrips ==
    /\ \A i \in DOMAIN sent : sent[i].table = "dto" => sent[i].bytes # Failed
    /\ \A c \in Communicators : \A i \in DOMAIN results[c]["dto"] :
          LET r == results[c]["dto"][i] IN
          r.by = "queue" => (r.ok <=> sent[r.id].table = "dto")
    /\ typed.at = "done" => /\ typed.read.ok
                            /\ typed.read.fields = typed.message.fields

(* A topic's queue hands out what it has heard once and in order, and of     *)
(* that it only forgets what as many newer messages as it holds have        *)
(* displaced.  However small the depth that was asked for, the newest is    *)
(* never lost: it is in the queue, or was handed out.  Beside it a          *)
(* communicator hears of its own messages from its copy, each at most once  *)
(* and in order, and of nobody else's.                                      *)
From(c, t, way) == {i \in DOMAIN results[c][t] : results[c][t][i].by = way}

QueueInOrder(c, t) ==
    LET all == heard[c][t]
        queue == entry[c][t].queue
        past == Len(all) - Len(queue)   \* what has left the queue
        id(i) == results[c][t][i].id
    IN /\ past >= 0 /\ \A i \in DOMAIN queue : queue[i] = all[past + i]
       /\ \A i \in From(c, t, "queue") : \E m \in 1..past : all[m] = id(i)
       /\ \A i, j \in From(c, t, "queue") : \A m, n \in DOMAIN all :
             i < j /\ all[m] = id(i) /\ all[n] = id(j) => m < n
       /\ \A m \in 1..past :
             (\A i \in From(c, t, "queue") : id(i) # all[m]) =>
                 /\ Len(all) - m >= entry[c][t].capacity
                 /\ m # Len(all)

CopiesInOrder(c, t) ==
    /\ \A i, j \in From(c, t, "local") :
          i < j => results[c][t][i].id < results[c][t][j].id
    /\ \A i \in From(c, t, "local") : sent[results[c][t][i].id].from = c

NewestInOrder == \A c \in Communicators \ gone, t \in Tables :
                    QueueInOrder(c, t) /\ CopiesInOrder(c, t)
=============================================================================
