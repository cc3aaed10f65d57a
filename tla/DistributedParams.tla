------------------------- MODULE DistributedParams -------------------------
(***************************************************************************)
(* wxz::core::DistributedParamServer (src/param_server_distributed.cpp) and *)
(* the wire server inside it (src/param_server.cpp), which takes param.set  *)
(* and export requests from two topics with a worker thread and fetches     *)
(* from a configuration centre with another.  The outer server keeps typed  *)
(* values and observers under mu_; the inner one keeps strings in maps that *)
(* no lock protects.                                                       *)
(*                                                                         *)
(* A string of params_ is written while a thread is at "storing".  A thread *)
(* that reaches for it then, or for the map while a key is inserted, sets   *)
(* `undefined`, and the behaviour ends.                                    *)
(***************************************************************************)
EXTENDS ParamValues, Sequences, SequencesExt, FiniteSets

CONSTANTS Users,        \* the program's threads
          Keys, Observers, Desc, Inputs,
          Wire,         \* the messages of the topics
          MaxQueue,     \* 64
          Snapshot      \* "none", "lines" or "json": snapshot_path_

VARIABLES types, cache, watchers,       \* types_, values_, observers_
          declared,     \* schemas_ and callbacks_: their keys
          params,       \* params_
          dfile,        \* the snapshot file
          running, fetching, closed,    \* closed: stop() has returned
          set_queue, export_queue,
          batch,        \* what the worker has swapped out of the queues
          messages,     \* every message that came, and what was published for it
          lost,         \* those a full queue or stop() let go of
          frame,        \* where each thread is
          store,        \* ParamStore::instance()
          heard,        \* the last value each observer was told of each key
          crossed,      \* the keys whose calls have overlapped
          calls, traffic,               \* bounds: what is still to come
          undefined

outerVars == <<types, cache, watchers, heard>>
queueVars == <<set_queue, export_queue, batch, lost>>
stateVars == <<running, fetching, closed>>
boundVars == <<calls, traffic>>
distVars == <<outerVars, declared, params, dfile, queueVars, stateVars,
              messages, frame, crossed, boundVars, undefined>>

All == Users \cup {"worker", "fetch"}

(* todo: the strings applyBulk() or a message has yet to apply, the first   *)
(* of them in progress.  msg: the message that asks for an answer, or 0.    *)
(* applied: whether a bulk message changed anything.  then: what declare()  *)
(* and set() notify of at the end.  value, tell: a notify() in progress.    *)
Frame(at, todo, msg, then) ==
    [at |-> at, todo |-> todo, msg |-> msg, applied |-> FALSE, then |-> then,
     value |-> NoValue, tell |-> << >>]
Idle == Frame("idle", << >>, 0, << >>)

Init == /\ types = {} /\ declared = {} /\ crossed = {} /\ lost = {}
        /\ cache = << >> /\ params = << >> /\ dfile = << >>
        /\ watchers = [k \in Keys |-> << >>]
        /\ heard = [o \in Observers |-> << >>]
        /\ running = TRUE /\ fetching = FALSE /\ closed = FALSE
        /\ set_queue = << >> /\ export_queue = << >> /\ batch = << >>
        /\ messages = << >>
        /\ frame = [t \in All |-> Idle]
        /\ undefined = FALSE

With(f, k, v) == [j \in DOMAIN f \cup {k} |-> IF j = k THEN v ELSE f[j]]
Goto(t, c) == frame' = [frame EXCEPT ![t] = c]
Pair(k, x) == [key |-> k, is |-> x]

KeysOf(c) == {p.key : p \in Range(c.todo)} \cup {p.key : p \in Range(c.then)}

(* A declare() or set() that nothing overlaps settles its key.  Nothing     *)
(* else does: the string of a message may be one that nobody can read, and  *)
(* a subscribe() tells one observer only.                                   *)
Overlap(t, ks, settles) ==
    LET hit == ks \cap UNION {KeysOf(frame[u]) : u \in All \ {t}} IN
    crossed' = (IF settles THEN crossed \ ks ELSE crossed) \cup hit

(* t reads or writes params_[k] for k in ks; insert: it adds a key.         *)
Races(t, ks, insert) ==
    \E u \in All \ {t} :
        /\ frame[u].at \in {"declaring", "storing"}
        /\ insert \/ Head(frame[u].todo).key \in ks
                  \/ Head(frame[u].todo).key \notin DOMAIN params
Access(t, ks) == undefined' = Races(t, ks, ~(ks \subseteq DOMAIN params))

Outer == UNCHANGED outerVars
Wired == UNCHANGED <<declared, params, dfile>>
Queues == UNCHANGED queueVars

-----------------------------------------------------------------------------
(* validateAndApply(). *)

Published(msg, status) ==
    IF msg = 0 THEN messages
    ELSE [messages EXCEPT ![msg].out = Append(@, status)]
Single(c) == IF c.msg # 0 /\ messages[c.msg].kind = "set" THEN c.msg ELSE 0

(* The next string, or the end: the answer to a bulk message and persist.   *)
Onward(c, ok) ==
    [c EXCEPT !.at = IF Len(c.todo) > 1 THEN "apply" ELSE "persist",
              !.todo = Tail(c.todo), !.applied = @ \/ ok]

Rejects(p) ==
    /\ p.key \in declared
    /\ \/ Desc[p.key].read_only /\ p.key \in DOMAIN params
       \/ ~typeAccepts(Desc[p.key].type, p.is)

Reject(t) ==
    LET c == frame[t] IN
    /\ c.at = "apply" /\ Rejects(Head(c.todo))
    /\ messages' = Published(Single(c), "error")
    /\ Goto(t, Onward(c, FALSE))
    /\ UNCHANGED <<crossed, store, undefined, boundVars, stateVars>>
    /\ Outer /\ Wired /\ Queues

Accept(t) ==
    LET c == frame[t] IN
    /\ c.at = "apply" /\ ~Rejects(Head(c.todo))
    /\ Access(t, {Head(c.todo).key})
    /\ Goto(t, [c EXCEPT !.at = "storing"])
    /\ UNCHANGED <<crossed, store, messages, boundVars, stateVars>>
    /\ Outer /\ Wired /\ Queues

StoreParam(t) ==
    LET c == frame[t] IN
    /\ c.at = "storing"
    /\ params' = With(params, Head(c.todo).key, Head(c.todo).is)
    /\ Goto(t, [c EXCEPT !.at = "stored"])
    /\ UNCHANGED <<declared, dfile, crossed, store, messages, undefined,
                   boundVars, stateVars>>
    /\ Outer /\ Queues

\* What the callback of declare() makes of a string; NoValue without one.
Parsed(p) == IF p.key \in declared THEN parseFromString(p.is, Desc[p.key].type)
             ELSE NoValue

(* Defect: the callback of declare() is forgotten.                          *)
Bug_SetStore(t) ==
    LET c == frame[t] IN
    /\ c.at = "stored"
    /\ store' = With(store, Head(c.todo).key, Head(c.todo).is)
    /\ Goto(t, [c EXCEPT !.at = "tell"])
    /\ UNCHANGED <<crossed, messages, undefined, boundVars, stateVars>>
    /\ Outer /\ Wired /\ Queues

(* ParamStore, and the callback of declare(), which gives up on a string it *)
(* cannot read.                                                            *)
SetStore(t) ==
    LET c == frame[t]
        p == Head(c.todo)
        v == Parsed(p)
    IN  /\ c.at = "stored"
        /\ store' = With(store, p.key, p.is)
        /\ Goto(t, IF v = NoValue THEN [c EXCEPT !.at = "tell"]
                   ELSE [c EXCEPT !.at = "notify", !.value = v])
        /\ UNCHANGED <<crossed, messages, undefined, boundVars, stateVars>>
        /\ Outer /\ Wired /\ Queues

(* What set() and declare() do after applyBulk(): they do not ask whether   *)
(* the string was accepted.                                                *)
Finish(c) == IF c.then = << >> THEN Idle
             ELSE [c EXCEPT !.at = "notify", !.value = c.then[1].is]

Persist(t) ==
    LET c == frame[t]
        bulk == c.applied /\ c.msg # 0 /\ Single(c) = 0
    IN  /\ c.at = "persist"
        /\ messages' = Published(IF bulk THEN c.msg ELSE 0, "ok")
        /\ IF Snapshot = "none" THEN UNCHANGED <<dfile, undefined>>
           ELSE dfile' = params /\ undefined' = Races(t, DOMAIN params, FALSE)
        /\ Goto(t, Finish(c))
        /\ UNCHANGED <<declared, params, crossed, store, boundVars, stateVars>>
        /\ Outer /\ Queues

-----------------------------------------------------------------------------
(* notify() of the outer server. *)

NotifyKey(c) == IF c.todo # << >> THEN Head(c.todo).key ELSE c.then[1].key

Notify(t) ==
    LET c == frame[t] IN
    /\ c.at = "notify"
    /\ cache' = With(cache, NotifyKey(c), c.value)
    /\ Goto(t, [c EXCEPT !.at = "tell", !.tell = watchers[NotifyKey(c)]])
    /\ UNCHANGED <<types, watchers, heard, crossed, store, messages, undefined,
                   boundVars, stateVars>>
    /\ Wired /\ Queues

Tell(t) ==
    LET c == frame[t] IN
    /\ c.at = "tell" /\ c.tell # << >>
    /\ heard' = [heard EXCEPT ![Head(c.tell)] = With(@, NotifyKey(c), c.value)]
    /\ Goto(t, [c EXCEPT !.tell = Tail(@)])
    /\ UNCHANGED <<types, cache, watchers, crossed, store, messages, undefined,
                   boundVars, stateVars>>
    /\ Wired /\ Queues

(* From the callback back to validateAndApply(), which reports success; or  *)
(* from set(), declare() or subscribe() to the caller.                     *)
Told(t) ==
    LET c == frame[t] IN
    /\ c.at = "tell" /\ c.tell = << >>
    /\ messages' = Published(Single(c), "ok")
    /\ Goto(t, IF c.todo = << >> THEN Idle ELSE Onward(c, TRUE))
    /\ UNCHANGED <<crossed, store, undefined, boundVars, stateVars>>
    /\ Outer /\ Wired /\ Queues

-----------------------------------------------------------------------------
(* Calls of the program. *)

Calls(t) == /\ frame[t] = Idle /\ running
            /\ calls[t] > 0 /\ calls' = [calls EXCEPT ![t] = @ - 1]

Declare(t, k) ==
    LET d == Desc[k].default IN
    /\ Calls(t) /\ valueMatchesType(d, Desc[k].type)
    /\ types' = types \cup {k}
    /\ Goto(t, Frame("declare", <<Pair(k, toString(d))>>, 0, <<Pair(k, d)>>))
    /\ Overlap(t, {k}, TRUE)
    /\ UNCHANGED <<cache, watchers, heard, store, messages, undefined, traffic,
                   stateVars>>
    /\ Wired /\ Queues

(* setSchema() and declare() of the wire server.                            *)
DeclareWire(t) ==
    LET c == frame[t]
        k == Head(c.todo).key
    IN  \/ /\ c.at = "declare"
           /\ Access(t, {k})
           /\ Goto(t, [c EXCEPT !.at = "declaring"])
           /\ UNCHANGED <<crossed, store, messages, boundVars, stateVars>>
           /\ Outer /\ Wired /\ Queues
        \/ /\ c.at = "declaring"
           /\ declared' = declared \cup {k}
           /\ params' = With(params, k, Head(c.todo).is)
           /\ Goto(t, [c EXCEPT !.at = "apply"])
           /\ UNCHANGED <<dfile, crossed, store, messages, undefined,
                          boundVars, stateVars>>
           /\ Outer /\ Queues

Set(t, k, v) ==
    /\ Calls(t) /\ k \in types /\ valueMatchesType(v, Desc[k].type)
    /\ Goto(t, Frame("apply", <<Pair(k, toString(v))>>, 0, <<Pair(k, v)>>))
    /\ Overlap(t, {k}, TRUE)
    /\ UNCHANGED <<store, messages, undefined, traffic, stateVars>>
    /\ Outer /\ Wired /\ Queues

(* get(): the typed value, or what ParamStore has, whoever put it there.    *)
getValue(k) ==
    IF k \in DOMAIN cache THEN cache[k]
    ELSE IF k \notin DOMAIN store THEN NoValue
    ELSE LET v == parseFromString(store[k],
                    IF k \in types THEN Desc[k].type ELSE "string")
         IN  IF v = NoValue THEN StringValue(store[k]) ELSE v

Subscribe(t, k, o) ==
    /\ Calls(t)
    /\ watchers' = [watchers EXCEPT ![k] = Append(@, o)]
    /\ Goto(t, IF getValue(k) = NoValue THEN Idle
               ELSE [Frame("tell", << >>, 0, <<Pair(k, getValue(k))>>)
                        EXCEPT !.value = getValue(k), !.tell = <<o>>])
    /\ Overlap(t, {k}, FALSE)
    /\ UNCHANGED <<types, cache, heard, store, messages, undefined, traffic,
                   stateVars>>
    /\ Wired /\ Queues

(* The reader of a .json file ends each value where it begins: it gets the  *)
(* first key, with nothing, and no other.                                  *)
Loaded ==
    IF Snapshot = "json" THEN {<<Pair(k, Empty)>> : k \in DOMAIN dfile}
    ELSE {SetToSeq({Pair(k, dfile[k]) : k \in DOMAIN dfile})}

loadSnapshot(t) ==
    /\ Calls(t) /\ dfile # << >>
    /\ \E todo \in Loaded :
        /\ Goto(t, Frame("apply", todo, 0, << >>))
        /\ Overlap(t, {p.key : p \in Range(todo)}, FALSE)
    /\ UNCHANGED <<store, messages, undefined, traffic, stateVars>>
    /\ Outer /\ Wired /\ Queues

setFetchCallback(t) ==
    /\ Calls(t) /\ ~fetching
    /\ fetching' = TRUE
    /\ UNCHANGED <<frame, crossed, store, messages, undefined, traffic, running,
                   closed>>
    /\ Outer /\ Wired /\ Queues

-----------------------------------------------------------------------------
(* The topics, the worker and the fetch thread. *)

Pushed(queue, id) == IF Len(queue) < MaxQueue THEN Append(queue, id)
                     ELSE Append(Tail(queue), id)
Overflow(queue) == IF Len(queue) < MaxQueue THEN {} ELSE {Head(queue)}

Arrive(m) ==
    /\ running /\ traffic > 0 /\ traffic' = traffic - 1
    /\ messages' = Append(messages, [kind |-> m.kind, kvs |-> m.kvs, out |-> << >>])
    /\ IF m.topic = "set"
       THEN /\ set_queue' = Pushed(set_queue, Len(messages) + 1)
            /\ lost' = lost \cup Overflow(set_queue)
            /\ UNCHANGED export_queue
       ELSE /\ export_queue' = Pushed(export_queue, Len(messages) + 1)
            /\ lost' = lost \cup Overflow(export_queue)
            /\ UNCHANGED set_queue
    /\ UNCHANGED <<batch, frame, crossed, store, undefined, calls, stateVars>>
    /\ Outer /\ Wired

(* Defect: the worker is woken for param.set only.                          *)
Bug_Swap ==
    /\ running /\ frame["worker"] = Idle /\ batch = << >>
    /\ set_queue # << >>
    /\ batch' = export_queue \o set_queue
    /\ set_queue' = << >> /\ export_queue' = << >>
    /\ UNCHANGED <<lost, frame, crossed, store, messages, undefined, boundVars,
                   stateVars>>
    /\ Outer /\ Wired

Swap ==
    /\ running /\ frame["worker"] = Idle /\ batch = << >>
    /\ set_queue # << >> \/ export_queue # << >>
    /\ batch' = export_queue \o set_queue
    /\ set_queue' = << >> /\ export_queue' = << >>
    /\ UNCHANGED <<lost, frame, crossed, store, messages, undefined, boundVars,
                   stateVars>>
    /\ Outer /\ Wired

(* A reply names the operation as a request does.                           *)
looks_like_export_request(m) == m.kind \in {"export", "reply"}

(* Defect: a reply that comes back is taken for a request.                  *)
Bug_IsRequest(m) == looks_like_export_request(m)

(* loop() skips first what comes back on the topic of the requests: a reply *)
(* begins with BULK.                                                       *)
IsRequest(m) == m.kind # "reply" /\ looks_like_export_request(m)

WorkerTakes ==
    LET m == messages[Head(batch)] IN
    /\ running /\ frame["worker"] = Idle /\ batch # << >>
    /\ batch' = Tail(batch)
    /\ IF m.kind \in {"set", "bulk"}
       THEN /\ Goto("worker", Frame("apply", m.kvs, Head(batch), << >>))
            /\ Overlap("worker", {p.key : p \in Range(m.kvs)}, FALSE)
            /\ UNCHANGED <<messages, undefined>>
       ELSE /\ messages' = Published(IF IsRequest(m)
                                     THEN Head(batch) ELSE 0, "exported")
            /\ undefined' = (/\ IsRequest(m)
                             /\ Races("worker", DOMAIN params, FALSE))
            /\ UNCHANGED <<frame, crossed>>
    /\ UNCHANGED <<set_queue, export_queue, lost, store, boundVars, stateVars>>
    /\ Outer /\ Wired

WorkerBreaks ==
    /\ ~running /\ frame["worker"] = Idle /\ batch # << >>
    /\ lost' = lost \cup Range(batch)
    /\ batch' = << >>
    /\ UNCHANGED <<set_queue, export_queue, frame, crossed, store, messages,
                   undefined, boundVars, stateVars>>
    /\ Outer /\ Wired

FetchTurn ==
    /\ fetching /\ frame["fetch"] = Idle /\ traffic > 0
    /\ traffic' = traffic - 1
    /\ \E m \in {w \in Wire : w.kind = "bulk"} :
        /\ Goto("fetch", Frame("apply", m.kvs, 0, << >>))
        /\ Overlap("fetch", {p.key : p \in Range(m.kvs)}, FALSE)
    /\ UNCHANGED <<store, messages, undefined, calls, stateVars>>
    /\ Outer /\ Wired /\ Queues

(* The destructor: no call of the program is under way.                     *)
StopFlag ==
    /\ running /\ \A t \in Users : frame[t] = Idle
    /\ running' = FALSE /\ fetching' = FALSE
    /\ UNCHANGED <<closed, frame, crossed, store, messages, undefined, boundVars>>
    /\ Outer /\ Wired /\ Queues

StopJoin ==
    /\ ~running /\ ~closed /\ batch = << >>
    /\ frame["worker"] = Idle /\ frame["fetch"] = Idle
    /\ closed' = TRUE
    /\ lost' = lost \cup Range(set_queue) \cup Range(export_queue)
    /\ set_queue' = << >> /\ export_queue' = << >>
    /\ UNCHANGED <<running, fetching, batch, frame, crossed, store, messages,
                   undefined, boundVars>>
    /\ Outer /\ Wired

Continue(t) == \/ Reject(t) \/ Accept(t) \/ StoreParam(t) \/ SetStore(t)
               \/ Persist(t) \/ Notify(t) \/ Tell(t) \/ Told(t)

Worker == Swap \/ WorkerTakes \/ WorkerBreaks \/ Continue("worker")

Program(t) ==
    \/ \E k \in Keys : \/ Declare(t, k)
                       \/ \E v \in Inputs : Set(t, k, v)
                       \/ \E o \in Observers : Subscribe(t, k, o)
    \/ DeclareWire(t) \/ loadSnapshot(t) \/ setFetchCallback(t)

Next == \/ \E t \in Users : Program(t) \/ Continue(t)
        \/ \E m \in Wire : Arrive(m)
        \/ Worker \/ FetchTurn \/ Continue("fetch") \/ StopFlag \/ StopJoin
=============================================================================
