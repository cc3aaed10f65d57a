---------------------------- MODULE PublicParams ----------------------------
(***************************************************************************)
(* wxz::core::ParamServer (src/param_server_public.cpp): parameters with a  *)
(* description, observers, and a snapshot file.  Every operation works      *)
(* under mu_ and tells the observers after it has let go of it.             *)
(***************************************************************************)
EXTENDS ParamValues, Sequences, FiniteSets

CONSTANTS Threads, Keys, Observers,
          Desc,         \* the description each key is declared with
          Inputs        \* the values set() is called with

VARIABLES values,       \* values_, and with it descs_: the declared keys
          observers,    \* observers_
          file,         \* the snapshot file, by its lines
          call,         \* where each thread is in a call
          store,        \* ParamStore::instance()
          told,         \* the last value each observer was told of each key
          raced,        \* the keys whose calls have overlapped
          left          \* bound: the calls that are still to come

publicVars == <<values, observers, file, call, told, raced, left>>

Idle == [at |-> "idle"]

Init == /\ values = << >>
        /\ observers = [k \in Keys |-> << >>]
        /\ file = << >>
        /\ call = [t \in Threads |-> Idle]
        /\ told = [o \in Observers |-> << >>]
        /\ raced = {}

With(f, k, v) == [j \in DOMAIN f \cup {k} |-> IF j = k THEN v ELSE f[j]]

Telling(k, v, os, rest) ==
    IF os = << >> /\ rest = << >> THEN Idle
    ELSE [at |-> "tell", key |-> k, value |-> v, tell |-> os, rest |-> rest]

(* The keys a thread has yet to tell someone of.                            *)
Pending(c) == IF c.at = "tell" THEN {c.key} \cup DOMAIN c.rest ELSE {}

(* A write of k that nothing overlaps leaves everyone with its value.       *)
Overlaps(t, k) == \E u \in Threads \ {t} : k \in Pending(call[u])
Overlap(t, ks, write) ==
    LET hit == {k \in ks : Overlaps(t, k)} IN
    raced' = (IF write THEN raced \ ks ELSE raced) \cup hit

Calls(t) == call[t] = Idle /\ left > 0 /\ left' = left - 1

Put(t, k, v) ==
    /\ values' = With(values, k, v)
    /\ store' = With(store, k, toString(v))
    /\ call' = [call EXCEPT ![t] = Telling(k, v, observers[k], << >>)]
    /\ Overlap(t, {k}, TRUE)
    /\ UNCHANGED <<observers, file, told>>

(* A key that is declared, or a default of another type, is refused.        *)
Declare(t, k) ==
    /\ Calls(t) /\ k \notin DOMAIN values
    /\ valueMatchesType(Desc[k].default, Desc[k].type)
    /\ Put(t, k, Desc[k].default)

Set(t, k, v) ==
    /\ Calls(t) /\ k \in DOMAIN values
    /\ ~Desc[k].read_only /\ valueMatchesType(v, Desc[k].type)
    /\ Put(t, k, v)

(* Defect: an observer that comes late is not told the current value.       *)
Bug_Subscribe(t, k, o) ==
    /\ Calls(t)
    /\ observers' = [observers EXCEPT ![k] = Append(@, o)]
    /\ Overlap(t, {k}, FALSE)
    /\ UNCHANGED <<values, file, store, told, call>>

Subscribe(t, k, o) ==
    /\ Calls(t)
    /\ observers' = [observers EXCEPT ![k] = Append(@, o)]
    /\ call' = [call EXCEPT ![t] = IF k \in DOMAIN values
                    THEN Telling(k, values[k], <<o>>, << >>) ELSE Idle]
    /\ Overlap(t, {k}, FALSE)
    /\ UNCHANGED <<values, file, store, told>>

(* onParamChanged() of the next observer.                                   *)
Tell(t) ==
    LET c == call[t] IN
    /\ c.at = "tell" /\ c.tell # << >>
    /\ told' = [told EXCEPT ![Head(c.tell)] = With(@, c.key, c.value)]
    /\ call' = [call EXCEPT ![t] =
                    Telling(c.key, c.value, Tail(c.tell), c.rest)]
    /\ UNCHANGED <<values, observers, file, store, raced, left>>

(* loadSnapshot() looks the observers of each key up again.                 *)
TellNext(t) ==
    LET c == call[t] IN
    /\ c.at = "tell" /\ c.tell = << >>
    /\ \E k \in DOMAIN c.rest :
        call' = [call EXCEPT ![t] = Telling(k, c.rest[k], observers[k],
                    [j \in DOMAIN c.rest \ {k} |-> c.rest[j]])]
    /\ UNCHANGED <<values, observers, file, store, told, raced, left>>

(* A line without a value is skipped.                                       *)
readKeyValueFile ==
    [k \in {j \in DOMAIN file : file[j] # Empty} |-> file[k]]

LoadRead(t) ==
    /\ Calls(t) /\ readKeyValueFile # << >>
    /\ call' = [call EXCEPT ![t] = [at |-> "load", kvs |-> readKeyValueFile]]
    /\ UNCHANGED <<values, observers, file, store, told, raced>>

(* Only declared keys, but read-only ones too.                              *)
LoadApply(t) ==
    LET kvs == call[t].kvs
        parsed(k) == parseFromString(kvs[k], Desc[k].type)
        read == [k \in {j \in DOMAIN kvs \cap DOMAIN values :
                            valueMatchesType(parsed(j), Desc[j].type)}
                    |-> parsed(k)]
    IN  /\ call[t].at = "load"
        /\ values' = [k \in DOMAIN values |->
                        IF k \in DOMAIN read THEN read[k] ELSE values[k]]
        /\ store' = [k \in DOMAIN store |->
                        IF k \in DOMAIN read THEN toString(read[k])
                        ELSE store[k]]
        /\ call' = [call EXCEPT ![t] = IF read = << >> THEN Idle ELSE
                        [at |-> "tell", key |-> CHOOSE k \in DOMAIN read : TRUE,
                         value |-> NoValue, tell |-> << >>, rest |-> read]]
        /\ Overlap(t, DOMAIN read, TRUE)
        /\ UNCHANGED <<observers, file, told, left>>

SaveCopy(t) ==
    /\ Calls(t) /\ values # << >>
    /\ call' = [call EXCEPT ![t] = [at |-> "save",
                    kvs |-> [k \in DOMAIN values |-> toString(values[k])]]]
    /\ UNCHANGED <<values, observers, file, store, told, raced>>

SaveWrite(t) ==
    /\ call[t].at = "save"
    /\ file' = call[t].kvs
    /\ call' = [call EXCEPT ![t] = Idle]
    /\ UNCHANGED <<values, observers, store, told, raced, left>>

Next == \E t \in Threads :
            \/ \E k \in Keys : \/ Declare(t, k)
                               \/ \E v \in Inputs : Set(t, k, v)
                               \/ \E o \in Observers : Subscribe(t, k, o)
            \/ Tell(t) \/ TellNext(t)
            \/ LoadRead(t) \/ LoadApply(t)
            \/ SaveCopy(t) \/ SaveWrite(t)
=============================================================================
