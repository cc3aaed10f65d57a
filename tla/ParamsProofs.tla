---------------------------- MODULE ParamsProofs ----------------------------
(***************************************************************************)
(* What the two parameter servers keep, proved for any threads, keys,       *)
(* observers, messages and numbers of calls.                                *)
(***************************************************************************)
EXTENDS Params, FiniteSetTheorems, SequenceTheorems, TLAPS

-----------------------------------------------------------------------------
(* The inductive invariant. *)

All == Dist!All
None == Dist!NoValue
Read(k, s) == Dist!parseFromString(s, Desc[k].type)
Shown(v) == Dist!toString(v)

Elements(s) == {s[i] : i \in DOMAIN s}
IsSeq(s) == s \in Seq(Elements(s))
InKeys(s) == \A i \in DOMAIN s : s[i].key \in Keys

\* v is a value that k may have.
Fits(k, v) == Dist!valueMatchesType(v, Desc[k].type)

\* The places of a thread with a string to apply, before it is in params.
Before == {"declare", "declaring", "apply", "storing"}
Places == {"idle", "declare", "declaring", "apply", "storing", "stored",
           "notify", "tell", "persist"}

\* A declare() or set(), from its start to its own notify().
IsWrite(c) == c.then # << >> /\ (c.todo # << >> \/ c.at # "tell")

\* A frame, and the updates of its fields.
Rec(at, todo, msg, applied, then, value, tell) ==
    [at |-> at, todo |-> todo, msg |-> msg, applied |-> applied,
     then |-> then, value |-> value, tell |-> tell]

\* What a thread carries in each of its places.
FrameOK(t, c) ==
    /\ c = Rec(c.at, c.todo, c.msg, c.applied, c.then, c.value, c.tell)
    /\ c.at \in Places /\ c.applied \in BOOLEAN
    /\ IsSeq(c.todo) /\ InKeys(c.todo)
    /\ c.then # << >> => c.then = <<c.then[1]>> /\ c.then[1].key \in Keys
    /\ c.tell \in Seq(Observers)
    /\ c.at = "idle" => c = Dist!Idle
    /\ c.at \in Before \cup {"stored"} => c.todo # << >>
    /\ c.at \notin {"notify", "tell"} => c.tell = << >>
    /\ c.at = "persist" => c.todo = << >>
    /\ c.at \in {"notify", "tell"} => c.todo # << >> \/ c.then # << >>
    /\ c.at \in {"declare", "declaring"} => c.then # << >>
    /\ c.at = "notify" => Fits(Dist!NotifyKey(c), c.value)
    /\ IsWrite(c) =>
          /\ Fits(c.then[1].key, c.then[1].is)
          /\ c.todo # << >> =>
                c.todo = <<Dist!Pair(c.then[1].key, Shown(c.then[1].is))>>
          /\ c.at = "notify" /\ c.todo = << >> => c.value = c.then[1].is
    /\ t \notin Users => c.then = << >>

FrameInv == /\ frame = [t \in All |-> frame[t]]
            /\ \A t \in All : FrameOK(t, frame[t])

\* The values of both servers, typed as their keys are.
MapsInv ==
    /\ DOMAIN cache \subseteq Keys /\ \A k \in DOMAIN cache : Fits(k, cache[k])
    /\ DOMAIN values \subseteq Keys
    /\ \A k \in DOMAIN values : Fits(k, values[k])
    /\ DOMAIN values \subseteq DOMAIN store
    /\ declared \subseteq Keys /\ types \subseteq Keys
    /\ \A k \in declared : Desc[k].type \in Dist!Types
    /\ dfile = [k \in DOMAIN dfile |-> dfile[k]] /\ DOMAIN dfile \subseteq Keys
    /\ params = [k \in DOMAIN params |-> params[k]]
    /\ DOMAIN params \subseteq Keys
    /\ watchers \in [Keys -> Seq(Observers)]
    /\ heard = [o \in Observers |-> heard[o]]

\* What came from the topics, and the numbers of it in the queues.
Answers == {"ok", "error", "exported"}
MessageOK(m) == /\ m = [kind |-> m.kind, kvs |-> m.kvs, out |-> m.out]
                /\ MessageType(m) /\ m.out \in Seq(Answers)
MessagesInv == /\ IsSeq(messages)
               /\ \A i \in DOMAIN messages : MessageOK(messages[i])
               /\ set_queue \in Seq(DOMAIN messages)
               /\ export_queue \in Seq(DOMAIN messages)
               /\ batch \in Seq(DOMAIN messages)

\* The worker alone has messages in hand, and only while it is at work.
HandInv ==
    /\ \A t \in All \ {"worker"} : frame[t].msg = 0
    /\ frame["worker"].msg = 0 <=> frame["worker"].at = "idle"
    /\ frame["worker"].msg \in DOMAIN messages \cup {0}

-----------------------------------------------------------------------------
(* Strings still to apply. *)

LEMMA Retyped ==
    ASSUME NEW S, NEW T, NEW s \in Seq(S),
           \A i \in 1..Len(s) : s[i] \in T
    PROVE  s \in Seq(T)
<1>1. s \in [1..Len(s) -> S] /\ Len(s) \in Nat
  OBVIOUS
<1>2. s \in [1..Len(s) -> T]
  BY <1>1
<1> QED
  BY <1>1, <1>2, SeqDef

LEMMA TailOfTodo ==
    ASSUME NEW s, IsSeq(s), InKeys(s), s # << >>
    PROVE  /\ Len(s) \in Nat \ {0} /\ DOMAIN s = 1..Len(s)
           /\ Head(s) = s[1] /\ Head(s).key \in Keys
           /\ IsSeq(Tail(s)) /\ InKeys(Tail(s))
           /\ Len(Tail(s)) = Len(s) - 1 /\ DOMAIN Tail(s) = 1..(Len(s) - 1)
           /\ \A i \in 1..(Len(s) - 1) : Tail(s)[i] = s[i + 1]
           /\ Len(s) > 1 <=> Tail(s) # << >>
<1>1. s \in Seq(Elements(s))
  BY DEF IsSeq
<1>2. /\ Len(s) \in Nat /\ DOMAIN s = 1..Len(s) /\ Len(s) # 0
      /\ Head(s) = s[1]
  BY <1>1
<1>3. /\ Tail(s) \in Seq(Elements(s)) /\ Len(Tail(s)) = Len(s) - 1
      /\ \A i \in 1..Len(Tail(s)) : Tail(s)[i] = s[i + 1]
  BY <1>1, HeadTailProperties
<1>4. DOMAIN Tail(s) = 1..(Len(s) - 1) /\ Len(Tail(s)) \in Nat
  BY <1>3, <1>2
<1>5. Tail(s) \in Seq(Elements(Tail(s)))
  <2>1. \A i \in 1..Len(Tail(s)) : Tail(s)[i] \in Elements(Tail(s))
    BY <1>4, <1>3 DEF Elements
  <2> QED
    BY <2>1, <1>3, Retyped
<1>6. InKeys(Tail(s))
  BY <1>2, <1>3, <1>4 DEF InKeys
<1>7. Len(s) > 1 <=> Tail(s) # << >>
  BY <1>2, <1>3, <1>4
<1>8. Head(s).key \in Keys
  BY <1>2 DEF InKeys
<1> QED
  BY <1>2, <1>3, <1>4, <1>5, <1>6, <1>7, <1>8 DEF IsSeq

LEMMA SingleTodo ==
    ASSUME NEW k \in Keys, NEW x
    PROVE  /\ IsSeq(<<Dist!Pair(k, x)>>) /\ InKeys(<<Dist!Pair(k, x)>>)
           /\ <<Dist!Pair(k, x)>> # << >>
           /\ <<Dist!Pair(k, x)>>[1] = Dist!Pair(k, x)
           /\ Head(<<Dist!Pair(k, x)>>) = Dist!Pair(k, x)
           /\ Tail(<<Dist!Pair(k, x)>>) = << >>
           /\ Dist!Pair(k, x).key = k /\ Dist!Pair(k, x).is = x
<1>1. /\ DOMAIN <<Dist!Pair(k, x)>> = {1}
      /\ <<Dist!Pair(k, x)>>[1] = Dist!Pair(k, x)
  OBVIOUS
<1>2. Elements(<<Dist!Pair(k, x)>>) = {Dist!Pair(k, x)}
  BY <1>1 DEF Elements
<1> QED
  BY <1>1, <1>2 DEF IsSeq, InKeys, Dist!Pair

LEMMA EmptyTodo == IsSeq(<< >>) /\ InKeys(<< >>)
  BY DEF IsSeq, InKeys, Elements

LEMMA KeysOfIs ==
    ASSUME NEW c
    PROVE  Dist!KeysOf(c) = {c.todo[i].key : i \in DOMAIN c.todo}
                            \cup {c.then[i].key : i \in DOMAIN c.then}
  BY DEF Dist!KeysOf, Dist!Range

LEMMA KeysOfIdle == Dist!KeysOf(Dist!Idle) = {}
  BY DEF Dist!KeysOf, Dist!Range, Dist!Idle, Dist!Frame

\* With a call to finish, a thread writes the key of the call.
LEMMA KeysOfCall ==
    ASSUME NEW t, NEW c, FrameOK(t, c), c.then # << >>
    PROVE  /\ IsWrite(c) => Dist!KeysOf(c) = {c.then[1].key}
           /\ c.todo = << >> => Dist!KeysOf(c) = {c.then[1].key}
           /\ c.then[1].key \in Dist!KeysOf(c)
<1>1. DOMAIN c.then = {1}
  <2> DEFINE x == c.then[1]
  <2>1. c.then = <<x>>
    BY DEF FrameOK
  <2> HIDE DEF x
  <2> QED
    BY <2>1
<1>2. CASE c.todo = << >>
  BY <1>1, <1>2, KeysOfIs
<1>3. CASE c.todo # << >>
  <2>1. c.then[1].key \in Dist!KeysOf(c)
    BY <1>1, KeysOfIs
  <2>2. ASSUME IsWrite(c) PROVE Dist!KeysOf(c) = {c.then[1].key}
    <3> DEFINE p == Dist!Pair(c.then[1].key, Shown(c.then[1].is))
    <3>1. c.todo = <<p>> /\ p.key = c.then[1].key
      BY <2>2, <1>3 DEF FrameOK, Dist!Pair
    <3> HIDE DEF p
    <3>2. DOMAIN c.todo = {1} /\ c.todo[1].key = c.then[1].key
      BY <3>1
    <3> QED
      BY <3>2, <1>1, KeysOfIs
  <2> QED
    BY <2>1, <2>2, <1>3
<1> QED
  BY <1>2, <1>3

LEMMA KeysOfTodo ==
    ASSUME NEW t, NEW c, FrameOK(t, c), c.todo # << >>
    PROVE  /\ Head(c.todo).key \in Dist!KeysOf(c)
           /\ Dist!NotifyKey(c) = Head(c.todo).key
<1>1. 1 \in DOMAIN c.todo /\ Head(c.todo) = c.todo[1]
  BY TailOfTodo DEF FrameOK
<1> QED
  BY <1>1, KeysOfIs DEF Dist!NotifyKey

LEMMA NotifyKeyIn ==
    ASSUME NEW t, NEW c, FrameOK(t, c), c.at \in {"notify", "tell"}
    PROVE  /\ Dist!NotifyKey(c) \in Keys
           /\ Dist!NotifyKey(c) \in Dist!KeysOf(c)
<1>1. CASE c.todo # << >>
  BY <1>1, KeysOfTodo, TailOfTodo DEF FrameOK, Dist!NotifyKey
<1>2. CASE c.todo = << >>
  BY <1>2, KeysOfCall DEF FrameOK, Dist!NotifyKey
<1> QED
  BY <1>1, <1>2

LEMMA KeysAreKeys ==
    ASSUME NEW t, NEW c, FrameOK(t, c)
    PROVE  Dist!KeysOf(c) \subseteq Keys
<1>1. \A i \in DOMAIN c.todo : c.todo[i].key \in Keys
  BY DEF FrameOK, InKeys
<1>2. ASSUME NEW i \in DOMAIN c.then PROVE c.then[i].key \in Keys
  <2> DEFINE x == c.then[1]
  <2>1. c.then # << >>
    BY <1>2
  <2>2. c.then = <<x>> /\ x.key \in Keys
    BY <2>1 DEF FrameOK
  <2> HIDE DEF x
  <2> QED
    BY <2>2
<1> QED
  BY <1>1, <1>2, KeysOfIs

-----------------------------------------------------------------------------
(* Each step of a thread leaves it with what its next place takes. *)

LEMMA RecFields ==
    ASSUME NEW at, NEW todo, NEW msg, NEW applied, NEW then, NEW value,
           NEW tell
    PROVE  LET c == Rec(at, todo, msg, applied, then, value, tell) IN
           /\ c.at = at /\ c.todo = todo /\ c.msg = msg
           /\ c.applied = applied /\ c.then = then /\ c.value = value
           /\ c.tell = tell
  BY DEF Rec

Fields == {"at", "todo", "msg", "applied", "then", "value", "tell"}

LEMMA IsRec ==
    ASSUME NEW d, d = [f \in DOMAIN d |-> d[f]], DOMAIN d = Fields
    PROVE  d = Rec(d.at, d.todo, d.msg, d.applied, d.then, d.value, d.tell)
  BY DEF Rec, Fields

LEMMA FrameFields ==
    ASSUME NEW t, NEW c, FrameOK(t, c)
    PROVE  DOMAIN c = Fields
  BY DEF FrameOK, Rec, Fields

LEMMA OnwardFrame ==
    ASSUME NEW t, NEW c, FrameOK(t, c), c.tell = << >>, c.todo # << >>,
           c.at \in {"apply", "tell"}, NEW ok \in BOOLEAN
    PROVE  FrameOK(t, Dist!Onward(c, ok))
<1> DEFINE d == Dist!Onward(c, ok)
<1>0. DOMAIN c = Fields
  BY FrameFields
<1>1. /\ d = [f \in DOMAIN d |-> d[f]] /\ DOMAIN d = Fields
      /\ d.at = (IF Len(c.todo) > 1 THEN "apply" ELSE "persist")
      /\ d.todo = Tail(c.todo) /\ d.msg = c.msg /\ d.then = c.then
      /\ d.value = c.value /\ d.tell = << >> /\ d.applied = (c.applied \/ ok)
  BY <1>0 DEF Dist!Onward, Fields
<1>9. d.applied \in BOOLEAN
  BY <1>1
<1>2. IsSeq(c.todo) /\ InKeys(c.todo)
  BY DEF FrameOK
<1>3. /\ IsSeq(d.todo) /\ InKeys(d.todo)
      /\ d.at = "apply" => d.todo # << >>
      /\ d.at = "persist" => d.todo = << >>
      /\ d.at \in {"apply", "persist"}
  BY <1>1, <1>2, TailOfTodo
<1>4. ASSUME IsWrite(d)
      PROVE  Fits(d.then[1].key, d.then[1].is) /\ d.todo = << >>
  <2>1. IsWrite(c)
    BY <1>4, <1>1 DEF IsWrite
  <2> DEFINE p == Dist!Pair(c.then[1].key, Shown(c.then[1].is))
  <2>2. Fits(c.then[1].key, c.then[1].is) /\ c.todo = <<p>>
    BY <2>1 DEF FrameOK
  <2> HIDE DEF p
  <2>3. Tail(c.todo) = << >>
    BY <2>2
  <2> QED
    BY <2>2, <2>3, <1>1
<1>5. d.then # << >> => d.then = <<d.then[1]>> /\ d.then[1].key \in Keys
  BY <1>1 DEF FrameOK
<1>6. (t \notin Users => d.then = << >>) /\ d.tell \in Seq(Observers)
  BY <1>1 DEF FrameOK
<1> HIDE DEF d
<1>8. d = Rec(d.at, d.todo, d.msg, d.applied, d.then, d.value, d.tell)
  BY <1>1, IsRec
<1>7. FrameOK(t, d)
  BY <1>1, <1>3, <1>4, <1>5, <1>6, <1>8, <1>9 DEF FrameOK, Places, Before
<1> QED
  BY <1>7 DEF d

LEMMA MoveFrame ==
    ASSUME NEW t, NEW c, FrameOK(t, c), c.todo # << >>,
           NEW at \in {"declaring", "apply", "storing", "stored"},
           c.at \in Before, c.at = "declare" \/ at # "declaring"
    PROVE  FrameOK(t, [c EXCEPT !.at = at])
<1> DEFINE d == [c EXCEPT !.at = at]
<1>1. /\ d.at = at
      /\ d.todo = c.todo /\ d.msg = c.msg /\ d.then = c.then
      /\ d.applied = c.applied /\ d.value = c.value /\ d.tell = c.tell
      /\ d = Rec(d.at, d.todo, d.msg, d.applied, d.then, d.value, d.tell)
  BY DEF FrameOK, Rec
<1>2. c.tell = << >>
  BY DEF FrameOK, Before
<1>3. IsWrite(d) <=> IsWrite(c)
  BY <1>1 DEF IsWrite, Before
<1> HIDE DEF d
<1>4. FrameOK(t, d)
  BY <1>1, <1>2, <1>3 DEF FrameOK, Places, Before
<1> QED
  BY <1>4 DEF d

LEMMA FitsMeans ==
    ASSUME NEW v, NEW k, Fits(k, v)
    PROVE  /\ v # None /\ Desc[k].type \in Dist!Types
           /\ Dist!typeAccepts(Desc[k].type, Shown(v))
           /\ v.type = Desc[k].type
<1>1. v.type = Desc[k].type /\ Desc[k].type \in Dist!Types
  BY DEF Fits, Dist!valueMatchesType
<1>2. v # None
  BY <1>1 DEF None, Dist!NoValue, Dist!Types
<1>3. Dist!typeAccepts(Desc[k].type, Shown(v))
  BY <1>1 DEF Dist!typeAccepts, Shown, Dist!toString, Dist!Types,
     Dist!IntText, Dist!DecText, Dist!BoolText
<1> QED
  BY <1>1, <1>2, <1>3

LEMMA ReadFits ==
    ASSUME NEW k, NEW s, Desc[k].type \in Dist!Types, Read(k, s) # None
    PROVE  Fits(k, Read(k, s))
<1> DEFINE type == Desc[k].type
<1> HIDE DEF type
<1>1. type = "int" => Dist!parseFromString(s, type).type = type
                      \/ Dist!parseFromString(s, type) = None
  BY DEF Dist!parseFromString, Dist!IntValue, None
<1>2. type = "double" => Dist!parseFromString(s, type).type = type
                         \/ Dist!parseFromString(s, type) = None
  BY DEF Dist!parseFromString, Dist!DoubleValue, None
<1>3. type = "bool" => Dist!parseFromString(s, type).type = type
                       \/ Dist!parseFromString(s, type) = None
  BY DEF Dist!parseFromString, Dist!BoolValue, None
<1>4. type = "string" => Dist!parseFromString(s, type).type = type
  BY DEF Dist!parseFromString, Dist!StringValue
<1>5. type \in Dist!Types
  BY DEF type
<1>6. type \in {"int", "double", "bool", "string"}
  BY <1>5 DEF Dist!Types
<1> QED
  BY <1>1, <1>2, <1>3, <1>4, <1>5, <1>6
     DEF type, Read, Fits, Dist!valueMatchesType

LEMMA StoredFrame ==
    ASSUME NEW t, NEW c, FrameOK(t, c), c.at = "stored"
    PROVE  /\ FrameOK(t, [c EXCEPT !.at = "tell"])
           /\ \A v : Fits(Head(c.todo).key, v) =>
                 FrameOK(t, [c EXCEPT !.at = "notify", !.value = v])
<1>0. DOMAIN c = Fields
  BY FrameFields
<1>1. c.todo # << >> /\ c.tell = << >>
  BY DEF FrameOK, Before
<1>2. FrameOK(t, [c EXCEPT !.at = "tell"])
  <2> DEFINE d == [c EXCEPT !.at = "tell"]
  <2>1. /\ d = [f \in DOMAIN d |-> d[f]] /\ DOMAIN d = Fields
        /\ d.at = "tell"
        /\ d.todo = c.todo /\ d.msg = c.msg /\ d.then = c.then
        /\ d.applied = c.applied /\ d.value = c.value /\ d.tell = c.tell
    BY <1>0 DEF Fields
  <2> HIDE DEF d
  <2>2. d = Rec(d.at, d.todo, d.msg, d.applied, d.then, d.value, d.tell)
    BY <2>1, IsRec
  <2>3. IsWrite(d) <=> IsWrite(c)
    BY <2>1, <1>1 DEF IsWrite
  <2>4. FrameOK(t, d)
    BY <2>1, <2>2, <2>3, <1>1 DEF FrameOK, Places, Before
  <2> QED
    BY <2>4 DEF d
<1>3. ASSUME NEW v, Fits(Head(c.todo).key, v)
      PROVE  FrameOK(t, [c EXCEPT !.at = "notify", !.value = v])
  <2> DEFINE d == [c EXCEPT !.at = "notify", !.value = v]
  <2>1. /\ d = [f \in DOMAIN d |-> d[f]] /\ DOMAIN d = Fields
        /\ d.at = "notify"
        /\ d.todo = c.todo /\ d.msg = c.msg /\ d.then = c.then
        /\ d.applied = c.applied /\ d.value = v /\ d.tell = c.tell
    BY <1>0 DEF Fields
  <2> HIDE DEF d
  <2>2. d = Rec(d.at, d.todo, d.msg, d.applied, d.then, d.value, d.tell)
    BY <2>1, IsRec
  <2>3. IsWrite(d) <=> IsWrite(c)
    BY <2>1, <1>1 DEF IsWrite
  <2>4. Dist!NotifyKey(d) = Head(c.todo).key
    BY <2>1, <1>1 DEF Dist!NotifyKey
  <2>5. FrameOK(t, d)
    BY <2>1, <2>2, <2>3, <2>4, <1>1, <1>3 DEF FrameOK, Places, Before
  <2> QED
    BY <2>5 DEF d
<1> QED
  BY <1>2, <1>3

LEMMA IdleFrame == ASSUME NEW t PROVE FrameOK(t, Dist!Idle)
<1> DEFINE d == Dist!Idle
<1>1. /\ d = Rec("idle", << >>, 0, FALSE, << >>, Dist!NoValue, << >>)
  BY DEF Dist!Idle, Dist!Frame, Rec
<1>2. /\ d.at = "idle" /\ d.todo = << >> /\ d.msg = 0 /\ d.then = << >>
      /\ d.applied = FALSE /\ d.value = Dist!NoValue /\ d.tell = << >>
  BY DEF Dist!Idle, Dist!Frame
<1>3. d = Dist!Idle
  OBVIOUS
<1> HIDE DEF d
<1>4. d = Rec(d.at, d.todo, d.msg, d.applied, d.then, d.value, d.tell)
  BY <1>1, <1>2
<1>5. ~IsWrite(d)
  BY <1>2 DEF IsWrite
<1>6. FrameOK(t, d)
  BY <1>2, <1>3, <1>4, <1>5, EmptyTodo, EmptySeq DEF FrameOK, Places, Before
<1> QED
  BY <1>6 DEF d

LEMMA FinishFrame ==
    ASSUME NEW t, NEW c, FrameOK(t, c), c.at = "persist"
    PROVE  FrameOK(t, Dist!Finish(c))
<1>1. CASE c.then = << >>
  BY <1>1, IdleFrame DEF Dist!Finish
<1>2. CASE c.then # << >>
  <2> DEFINE d == [c EXCEPT !.at = "notify", !.value = c.then[1].is]
  <2>0. DOMAIN c = Fields
    BY FrameFields
  <2>1. /\ d = [f \in DOMAIN d |-> d[f]] /\ DOMAIN d = Fields
        /\ d.at = "notify"
        /\ d.todo = c.todo /\ d.msg = c.msg /\ d.then = c.then
        /\ d.applied = c.applied /\ d.value = c.then[1].is /\ d.tell = c.tell
    BY <2>0 DEF Fields
  <2>2. d = Dist!Finish(c)
    BY <1>2 DEF Dist!Finish
  <2> HIDE DEF d
  <2>3. d = Rec(d.at, d.todo, d.msg, d.applied, d.then, d.value, d.tell)
    BY <2>1, IsRec
  <2>4. IsWrite(d) /\ IsWrite(c) /\ c.todo = << >> /\ c.tell = << >>
    BY <2>1, <1>2 DEF IsWrite, FrameOK
  <2>5. Dist!NotifyKey(d) = c.then[1].key /\ Fits(c.then[1].key, c.then[1].is)
    BY <2>1, <2>4 DEF Dist!NotifyKey, FrameOK
  <2>6. FrameOK(t, d)
    BY <2>1, <2>3, <2>4, <2>5, <1>2 DEF FrameOK, Places, Before
  <2> QED
    BY <2>6, <2>2
<1> QED
  BY <1>1, <1>2

LEMMA TellFrame ==
    ASSUME NEW t, NEW c, FrameOK(t, c), c.at \in {"notify", "tell"},
           NEW os \in Seq(Observers)
    PROVE  /\ FrameOK(t, [c EXCEPT !.at = "tell", !.tell = os])
           /\ c.at = "tell" => FrameOK(t, [c EXCEPT !.tell = os])
<1> DEFINE d == [c EXCEPT !.at = "tell", !.tell = os]
           e == [c EXCEPT !.tell = os]
<1>0. DOMAIN c = Fields
  BY FrameFields
<1>1. /\ d = [f \in DOMAIN d |-> d[f]] /\ DOMAIN d = Fields
      /\ d.at = "tell"
      /\ d.todo = c.todo /\ d.msg = c.msg /\ d.then = c.then
      /\ d.applied = c.applied /\ d.value = c.value /\ d.tell = os
  BY <1>0 DEF Fields
<1>2. ASSUME c.at = "tell" PROVE e = d
  <2>1. /\ e = [f \in DOMAIN e |-> e[f]] /\ DOMAIN e = Fields
        /\ e.at = "tell"
        /\ e.todo = c.todo /\ e.msg = c.msg /\ e.then = c.then
        /\ e.applied = c.applied /\ e.value = c.value /\ e.tell = os
    BY <1>0, <1>2 DEF Fields
  <2> HIDE DEF d, e
  <2> QED
    BY <2>1, <1>1 DEF Fields
<1> HIDE DEF d, e
<1>3. d = Rec(d.at, d.todo, d.msg, d.applied, d.then, d.value, d.tell)
  BY <1>1, IsRec
<1>4. IsWrite(d) => IsWrite(c) /\ d.todo # << >>
  BY <1>1 DEF IsWrite
<1>5. c.todo # << >> \/ c.then # << >>
  BY DEF FrameOK
<1>6. FrameOK(t, d)
  BY <1>1, <1>3, <1>4, <1>5 DEF FrameOK, Places, Before
<1> QED
  BY <1>2, <1>6 DEF d, e

\* A thread that begins: a call of declare() or set(), a message, a fetch.
LEMMA CallFrame ==
    ASSUME NEW t \in Users, NEW k \in Keys, NEW v, Fits(k, v),
           NEW at \in {"declare", "apply"}
    PROVE  FrameOK(t, Dist!Frame(at, <<Dist!Pair(k, Shown(v))>>, 0,
                                 <<Dist!Pair(k, v)>>))
<1> DEFINE todo == <<Dist!Pair(k, Shown(v))>>
           then == <<Dist!Pair(k, v)>>
           d == Dist!Frame(at, todo, 0, then)
<1>1. /\ IsSeq(todo) /\ InKeys(todo) /\ todo # << >> /\ then # << >>
      /\ then[1] = Dist!Pair(k, v) /\ then[1].key = k /\ then[1].is = v
      /\ todo = <<Dist!Pair(then[1].key, Shown(then[1].is))>>
      /\ then = <<then[1]>>
  BY SingleTodo, Zenon
<1> HIDE DEF todo, then
<1>2. /\ d.at = at /\ d.todo = todo /\ d.msg = 0 /\ d.then = then
      /\ d.applied = FALSE /\ d.value = Dist!NoValue /\ d.tell = << >>
      /\ d = Rec(d.at, d.todo, d.msg, d.applied, d.then, d.value, d.tell)
  BY DEF Dist!Frame, Rec
<1> HIDE DEF d
<1>3. FrameOK(t, d)
  BY <1>1, <1>2, EmptySeq DEF FrameOK, Places, Before
<1> QED
  BY <1>3 DEF d, todo, then

LEMMA MessageFrame ==
    ASSUME NEW t, NEW todo, IsSeq(todo), InKeys(todo), todo # << >>, NEW m
    PROVE  FrameOK(t, Dist!Frame("apply", todo, m, << >>))
<1> DEFINE d == Dist!Frame("apply", todo, m, << >>)
<1>2. /\ d.at = "apply" /\ d.todo = todo /\ d.msg = m /\ d.then = << >>
      /\ d.applied = FALSE /\ d.value = Dist!NoValue /\ d.tell = << >>
      /\ d = Rec(d.at, d.todo, d.msg, d.applied, d.then, d.value, d.tell)
  BY DEF Dist!Frame, Rec
<1> HIDE DEF d
<1>3. ~IsWrite(d)
  BY <1>2 DEF IsWrite
<1>4. FrameOK(t, d)
  BY <1>2, <1>3, EmptySeq DEF FrameOK, Places, Before
<1> QED
  BY <1>4 DEF d

SubscribeFrame(k, v, o) ==
    [Dist!Frame("tell", << >>, 0, <<Dist!Pair(k, v)>>)
        EXCEPT !.value = v, !.tell = <<o>>]

LEMMA SubscribeIs ==
    ASSUME NEW k \in Keys, NEW v, NEW o \in Observers
    PROVE  LET d == SubscribeFrame(k, v, o) IN
           /\ d.at = "tell" /\ d.todo = << >> /\ d.msg = 0
           /\ d.then = <<Dist!Pair(k, v)>> /\ d.applied = FALSE
           /\ d.value = v /\ d.tell = <<o>>
           /\ d = Rec(d.at, d.todo, d.msg, d.applied, d.then, d.value, d.tell)
<1> DEFINE then == <<Dist!Pair(k, v)>>
           c == Dist!Frame("tell", << >>, 0, then)
           d == SubscribeFrame(k, v, o)
<1> HIDE DEF then
<1>1. /\ DOMAIN c = Fields
      /\ c.at = "tell" /\ c.todo = << >> /\ c.msg = 0
      /\ c.then = then /\ c.applied = FALSE
  BY DEF Dist!Frame, Fields
<1>2. d = [c EXCEPT !.value = v, !.tell = <<o>>]
  BY DEF SubscribeFrame, then
<1> HIDE DEF c, d
<1>3. /\ d.at = "tell" /\ d.todo = << >> /\ d.msg = 0
      /\ d.then = then /\ d.applied = FALSE
      /\ d.value = v /\ d.tell = <<o>>
      /\ d = [f \in DOMAIN d |-> d[f]] /\ DOMAIN d = Fields
  BY <1>1, <1>2 DEF Fields
<1> QED
  BY <1>3, IsRec DEF d, then

LEMMA SubscribeFrameOK ==
    ASSUME NEW t \in Users, NEW k \in Keys, NEW v, NEW o \in Observers
    PROVE  /\ FrameOK(t, SubscribeFrame(k, v, o))
           /\ SubscribeFrame(k, v, o).msg = 0
<1> DEFINE d == SubscribeFrame(k, v, o)
           p == Dist!Pair(k, v)
<1>1. /\ d.at = "tell" /\ d.todo = << >> /\ d.msg = 0
      /\ d.then = <<p>> /\ d.applied = FALSE
      /\ d.value = v /\ d.tell = <<o>>
      /\ d = Rec(d.at, d.todo, d.msg, d.applied, d.then, d.value, d.tell)
  BY SubscribeIs
<1>2. p.key = k
  BY DEF Dist!Pair
<1> HIDE DEF d, p
<1>3. ~IsWrite(d)
  BY <1>1 DEF IsWrite
<1>4. d.then # << >> /\ d.then[1] = p /\ d.tell \in Seq(Observers)
  BY <1>1
<1>5. FrameOK(t, d)
  BY <1>1, <1>2, <1>3, <1>4, EmptyTodo DEF FrameOK, Places, Before
<1> QED
  BY <1>1, <1>5 DEF d

-----------------------------------------------------------------------------
(* Types: what threads carry, the maps of both servers, the messages. *)

LEMMA WithIs ==
    ASSUME NEW f, NEW k, NEW v
    PROVE  LET g == Dist!With(f, k, v) IN
           /\ DOMAIN g = DOMAIN f \cup {k} /\ g[k] = v
           /\ g = [j \in DOMAIN g |-> g[j]]
           /\ \A j \in DOMAIN f : j # k => g[j] = f[j]
  BY DEF Dist!With

LEMMA GotoFrame ==
    ASSUME FrameInv, NEW t \in All, NEW c, FrameOK(t, c),
           Dist!Goto(t, c)
    PROVE  /\ FrameInv' /\ frame'[t] = c
           /\ \A u \in All : u # t => frame'[u] = frame[u]
<1>1. frame' = [u \in All |-> frame'[u]]
  BY DEF FrameInv, Dist!Goto
<1>2. frame'[t] = c /\ \A u \in All : u # t => frame'[u] = frame[u]
  BY DEF FrameInv, Dist!Goto
<1>3. ASSUME NEW u \in All PROVE FrameOK(u, frame'[u])
  BY <1>2 DEF FrameInv
<1>4. FrameInv'
  BY <1>1, <1>3 DEF FrameInv, All, Dist!All
<1> QED
  BY <1>2, <1>4

LEMMA PublishedIs ==
    ASSUME MessagesInv, NEW m \in DOMAIN messages \cup {0}, NEW s \in Answers,
           0 \notin DOMAIN messages
    PROVE  LET ms == Dist!Published(m, s) IN
           /\ DOMAIN ms = DOMAIN messages /\ IsSeq(ms)
           /\ \A i \in DOMAIN messages :
                 /\ MessageOK(ms[i])
                 /\ ms[i].kind = messages[i].kind /\ ms[i].kvs = messages[i].kvs
                 /\ i # m => ms[i] = messages[i]
                 /\ i = m => ms[i].out = Append(messages[i].out, s)
<1>1. CASE m = 0
  BY <1>1 DEF Dist!Published, MessagesInv
<1>2. CASE m # 0
  <2> DEFINE ms == [messages EXCEPT ![m].out = Append(@, s)]
  <2>1. m \in DOMAIN messages /\ MessageOK(messages[m])
    BY <1>2 DEF MessagesInv
  <2>2. Append(messages[m].out, s) \in Seq(Answers)
    BY <2>1 DEF MessageOK
  <2>3. /\ ms = [i \in DOMAIN messages |-> ms[i]]
        /\ \A i \in DOMAIN messages : i # m => ms[i] = messages[i]
        /\ ms[m] = [messages[m] EXCEPT !.out = Append(@, s)]
    BY <2>1
  <2>4. /\ ms[m].kind = messages[m].kind /\ ms[m].kvs = messages[m].kvs
        /\ ms[m].out = Append(messages[m].out, s)
        /\ ms[m] = [kind |-> ms[m].kind, kvs |-> ms[m].kvs, out |-> ms[m].out]
    BY <2>1, <2>3 DEF MessageOK
  <2>5. Dist!Published(m, s) = ms
    BY <1>2 DEF Dist!Published
  <2> HIDE DEF ms
  <2>6. MessageOK(ms[m])
    BY <2>1, <2>2, <2>4 DEF MessageOK, MessageType
  <2>7. IsSeq(ms)
    <3>1. DOMAIN ms = DOMAIN messages
      BY <2>3
    <3>2. DOMAIN messages = 1..Len(messages) /\ Len(messages) \in Nat
      BY DEF MessagesInv, IsSeq
    <3>3. ms \in [1..Len(messages) -> Elements(ms)]
      BY <2>3, <3>1, <3>2 DEF Elements
    <3> QED
      BY <3>2, <3>3, SeqDef DEF IsSeq
  <2> QED
    BY <2>3, <2>4, <2>5, <2>6, <2>7 DEF MessagesInv
<1> QED
  BY <1>1, <1>2

LEMMA NumbersFromOne ==
    ASSUME MessagesInv
    PROVE  /\ DOMAIN messages = 1..Len(messages) /\ Len(messages) \in Nat
           /\ 0 \notin DOMAIN messages
  BY DEF MessagesInv, IsSeq

LEMMA PublishKeeps ==
    ASSUME MessagesInv, NEW m \in DOMAIN messages \cup {0}, NEW s \in Answers,
           messages' = Dist!Published(m, s),
           UNCHANGED <<set_queue, export_queue, batch>>
    PROVE  MessagesInv'
<1> DEFINE ms == Dist!Published(m, s)
<1>1. /\ DOMAIN ms = DOMAIN messages /\ IsSeq(ms)
      /\ \A i \in DOMAIN ms : MessageOK(ms[i])
  BY PublishedIs, NumbersFromOne
<1>2. messages' = ms
  OBVIOUS
<1> HIDE DEF ms
<1> QED
  BY <1>1, <1>2 DEF MessagesInv

\* The message a thread answers for is its own.
LEMMA SingleIs ==
    ASSUME NEW c
    PROVE  Dist!Single(c) \in {c.msg, 0}
  BY DEF Dist!Single

LEMMA HandIs ==
    ASSUME HandInv, NEW t \in All
    PROVE  frame[t].msg \in DOMAIN messages \cup {0}
  BY DEF HandInv

Typed == FrameInv /\ MapsInv /\ MessagesInv /\ HandInv

\* A step of a thread to c, which goes on with the same message or with none.
LEMMA HandKeeps ==
    ASSUME Typed, NEW t \in All, NEW c, Dist!Goto(t, c),
           c.msg = frame[t].msg \/ c.msg = 0,
           c.msg = 0 /\ t = "worker" => c.at = "idle",
           c.msg # 0 => c.at # "idle",
           DOMAIN messages' = DOMAIN messages
    PROVE  HandInv'
<1>1. frame'[t] = c /\ \A u \in All : u # t => frame'[u] = frame[u]
  BY DEF Typed, FrameInv, Dist!Goto
<1>2. "worker" \in All
  BY DEF All, Dist!All
<1>3. ASSUME NEW u \in All, u # "worker" PROVE frame'[u].msg = 0
  BY <1>1, <1>3 DEF Typed, HandInv
<1>4. /\ frame'["worker"].msg = 0 <=> frame'["worker"].at = "idle"
      /\ frame'["worker"].msg \in DOMAIN messages' \cup {0}
  <2>1. CASE t = "worker"
    BY <2>1, <1>1 DEF Typed, HandInv
  <2>2. CASE t # "worker"
    BY <2>2, <1>1, <1>2 DEF Typed, HandInv
  <2> QED
    BY <2>1, <2>2
<1> QED
  BY <1>3, <1>4 DEF HandInv, All, Dist!All

\* The variables a step leaves alone, by the groups the module names.
LEMMA Unchangeds ==
    /\ Dist!Outer <=> UNCHANGED <<types, cache, watchers, heard>>
    /\ Dist!Wired <=> UNCHANGED <<declared, params, dfile>>
    /\ Dist!Queues <=> UNCHANGED <<set_queue, export_queue, batch, lost>>
    /\ UNCHANGED Dist!stateVars <=> UNCHANGED <<running, fetching, closed>>
    /\ UNCHANGED Dist!boundVars <=> UNCHANGED <<calls, traffic>>
  BY DEF Dist!Outer, Dist!Wired, Dist!Queues, Dist!outerVars, Dist!queueVars,
         Dist!stateVars, Dist!boundVars

LEMMA MapsSame ==
    ASSUME MapsInv, UNCHANGED <<types, cache, watchers, heard, values, store,
                                declared, dfile, params>>
    PROVE  MapsInv'
  BY DEF MapsInv

LEMMA RejectTyped ==
    ASSUME Typed, NEW t \in All, Dist!Reject(t), UNCHANGED values
    PROVE  Typed'
<1> DEFINE c == frame[t]
           d == Dist!Onward(c, FALSE)
           m == Dist!Single(c)
<1>1. /\ c.at = "apply" /\ messages' = Dist!Published(m, "error")
      /\ Dist!Goto(t, d)
      /\ UNCHANGED <<types, cache, watchers, heard, store, declared, dfile,
                     params, set_queue, export_queue, batch, lost>>
  BY Unchangeds DEF Dist!Reject
<1>2. FrameOK(t, c) /\ c.todo # << >> /\ c.tell = << >>
  BY <1>1 DEF Typed, FrameInv, FrameOK, Before
<1>3. FrameOK(t, d)
  BY <1>1, <1>2, OnwardFrame
<1>4. d.msg = c.msg /\ d.at \in {"apply", "persist"}
  BY <1>2, FrameFields DEF Dist!Onward, Fields
<1>5. m \in DOMAIN messages \cup {0}
  BY SingleIs, HandIs DEF Typed
<1>6. MessagesInv' /\ DOMAIN messages' = DOMAIN messages
  BY <1>1, <1>5, PublishKeeps, PublishedIs, NumbersFromOne
     DEF Typed, Answers
<1> HIDE DEF c, d, m
<1>7. FrameInv'
  BY <1>1, <1>3, GotoFrame DEF Typed
<1>8. HandInv'
  <2>1. c.msg = 0 /\ t = "worker" => c.at = "idle"
    BY DEF Typed, HandInv, c
  <2> QED
    BY <1>1, <1>4, <1>6, <2>1, HandKeeps DEF c
<1>9. MapsInv'
  BY <1>1, MapsSame DEF Typed
<1> QED
  BY <1>6, <1>7, <1>8, <1>9 DEF Typed

LEMMA AcceptTyped ==
    ASSUME Typed, NEW t \in All, Dist!Accept(t), UNCHANGED values
    PROVE  Typed'
<1> DEFINE c == frame[t]
           d == [c EXCEPT !.at = "storing"]
<1>1. /\ c.at = "apply" /\ messages' = messages
      /\ Dist!Goto(t, d)
      /\ UNCHANGED <<types, cache, watchers, heard, store, declared, dfile,
                     params, set_queue, export_queue, batch, lost>>
  BY Unchangeds DEF Dist!Accept
<1>2. FrameOK(t, c) /\ c.todo # << >>
  BY <1>1 DEF Typed, FrameInv, FrameOK, Before
<1>3. FrameOK(t, d)
  BY <1>1, <1>2, MoveFrame DEF Before
<1>4. d.msg = c.msg /\ d.at = "storing"
  BY <1>2, FrameFields DEF Fields
<1>6. MessagesInv' /\ DOMAIN messages' = DOMAIN messages
  BY <1>1 DEF Typed, MessagesInv
<1> HIDE DEF c, d
<1>7. FrameInv'
  BY <1>1, <1>3, GotoFrame DEF Typed
<1>8. HandInv'
  <2>1. c.msg = 0 /\ t = "worker" => c.at = "idle"
    BY DEF Typed, HandInv, c
  <2> QED
    BY <1>1, <1>4, <1>6, <2>1, HandKeeps DEF c
<1>9. MapsInv'
  BY <1>1, MapsSame DEF Typed
<1> QED
  BY <1>6, <1>7, <1>8, <1>9 DEF Typed

LEMMA StoreParamTyped ==
    ASSUME Typed, NEW t \in All, Dist!StoreParam(t), UNCHANGED values
    PROVE  Typed'
<1> DEFINE c == frame[t]
           d == [c EXCEPT !.at = "stored"]
           k == Head(c.todo).key
           s == Head(c.todo).is
<1>1. /\ c.at = "storing" /\ messages' = messages
      /\ Dist!Goto(t, d)
      /\ params' = Dist!With(params, k, s)
      /\ UNCHANGED <<types, cache, watchers, heard, store, declared, dfile,
                     set_queue, export_queue, batch, lost>>
  BY Unchangeds DEF Dist!StoreParam
<1>2. FrameOK(t, c) /\ c.todo # << >>
  BY <1>1 DEF Typed, FrameInv, FrameOK, Before
<1>3. FrameOK(t, d)
  BY <1>1, <1>2, MoveFrame DEF Before
<1>4. d.msg = c.msg /\ d.at = "stored"
  BY <1>2, FrameFields DEF Fields
<1>5. k \in Keys
  BY <1>2, TailOfTodo DEF FrameOK
<1>6. MessagesInv' /\ DOMAIN messages' = DOMAIN messages
  BY <1>1 DEF Typed, MessagesInv
<1> HIDE DEF c, d, k, s
<1>7. FrameInv'
  BY <1>1, <1>3, GotoFrame DEF Typed
<1>8. HandInv'
  <2>1. c.msg = 0 /\ t = "worker" => c.at = "idle"
    BY DEF Typed, HandInv, c
  <2> QED
    BY <1>1, <1>4, <1>6, <2>1, HandKeeps DEF c
<1>9. MapsInv'
  <2>1. /\ params' = [j \in DOMAIN params' |-> params'[j]]
        /\ DOMAIN params' = DOMAIN params \cup {k}
    BY <1>1 DEF Dist!With
  <2> QED
    BY <1>1, <1>5, <2>1 DEF Typed, MapsInv
<1> QED
  BY <1>6, <1>7, <1>8, <1>9 DEF Typed

LEMMA SetStoreTyped ==
    ASSUME Typed, NEW t \in All, Dist!SetStore(t), UNCHANGED values
    PROVE  Typed'
<1> DEFINE c == frame[t]
           k == Head(c.todo).key
           s == Head(c.todo).is
           v == IF k \in declared THEN Read(k, s) ELSE None
           d == IF v = None THEN [c EXCEPT !.at = "tell"]
                ELSE [c EXCEPT !.at = "notify", !.value = v]
<1>1. /\ c.at = "stored" /\ messages' = messages
      /\ Dist!Goto(t, d)
      /\ store' = Dist!With(store, k, s)
      /\ UNCHANGED <<types, cache, watchers, heard, params, declared, dfile,
                     set_queue, export_queue, batch, lost>>
  BY Unchangeds DEF Dist!SetStore, Dist!Parsed, Read, None
<1>2. FrameOK(t, c) /\ c.todo # << >>
  BY <1>1 DEF Typed, FrameInv, FrameOK, Before
<1>3. ASSUME v # None PROVE Fits(k, v)
  BY <1>3, ReadFits DEF Typed, MapsInv
<1>4. d.msg = c.msg /\ d.at # "idle"
  BY <1>2, FrameFields DEF Fields
<1>5. FrameOK(t, d)
  <2> HIDE DEF v
  <2> QED
    BY <1>1, <1>2, <1>3, StoredFrame
<1>6. MessagesInv' /\ DOMAIN messages' = DOMAIN messages
  BY <1>1 DEF Typed, MessagesInv
<1> HIDE DEF c, d, k, s, v
<1>7. FrameInv'
  BY <1>1, <1>5, GotoFrame DEF Typed
<1>8. HandInv'
  <2>1. c.msg = 0 /\ t = "worker" => c.at = "idle"
    BY DEF Typed, HandInv, c
  <2> QED
    BY <1>1, <1>4, <1>6, <2>1, HandKeeps DEF c
<1>9. MapsInv'
  <2>1. DOMAIN store' = DOMAIN store \cup {k}
    BY <1>1 DEF Dist!With
  <2> QED
    BY <1>1, <2>1 DEF Typed, MapsInv
<1> QED
  BY <1>6, <1>7, <1>8, <1>9 DEF Typed

LEMMA PersistTyped ==
    ASSUME Typed, NEW t \in All, Dist!Persist(t), UNCHANGED values
    PROVE  Typed'
<1> DEFINE c == frame[t]
           d == Dist!Finish(c)
           bulk == c.applied /\ c.msg # 0 /\ Dist!Single(c) = 0
           m == IF bulk THEN c.msg ELSE 0
<1>1. /\ c.at = "persist" /\ messages' = Dist!Published(m, "ok")
      /\ Dist!Goto(t, d)
      /\ dfile' = dfile \/ dfile' = params
      /\ UNCHANGED <<types, cache, watchers, heard, store, params, declared,
                     set_queue, export_queue, batch, lost>>
  BY Unchangeds DEF Dist!Persist
<1>2. FrameOK(t, c)
  BY DEF Typed, FrameInv
<1>3. FrameOK(t, d)
  BY <1>1, <1>2, FinishFrame
<1>4. /\ d.msg = c.msg \/ d.msg = 0
      /\ d.msg # 0 => d.at # "idle"
      /\ d.msg = 0 /\ t = "worker" => d.at = "idle"
  <2>1. CASE c.then = << >>
    BY <2>1 DEF Dist!Finish, Dist!Idle, Dist!Frame
  <2>2. CASE c.then # << >>
    <3>1. d.msg = c.msg /\ d.at = "notify"
      BY <2>2, <1>2, FrameFields DEF Dist!Finish, Fields
    <3>2. t # "worker"
      BY <2>2, <1>2, ParamsAssumption DEF FrameOK
    <3> QED
      BY <3>1, <3>2
  <2> QED
    BY <2>1, <2>2
<1>5. m \in DOMAIN messages \cup {0}
  BY HandIs DEF Typed
<1>6. MessagesInv' /\ DOMAIN messages' = DOMAIN messages
  <2> HIDE DEF m
  <2> QED
    BY <1>1, <1>5, PublishKeeps, PublishedIs, NumbersFromOne
       DEF Typed, Answers
<1> HIDE DEF c, d, m
<1>7. FrameInv'
  BY <1>1, <1>3, GotoFrame DEF Typed
<1>8. HandInv'
  BY <1>1, <1>4, <1>6, HandKeeps DEF c
<1>9. MapsInv'
  BY <1>1 DEF Typed, MapsInv
<1> QED
  BY <1>6, <1>7, <1>8, <1>9 DEF Typed

LEMMA NotifyTyped ==
    ASSUME Typed, NEW t \in All, Dist!Notify(t), UNCHANGED values
    PROVE  Typed'
<1> DEFINE c == frame[t]
           k == Dist!NotifyKey(c)
           d == [c EXCEPT !.at = "tell", !.tell = watchers[k]]
<1>1. /\ c.at = "notify" /\ messages' = messages
      /\ Dist!Goto(t, d)
      /\ cache' = Dist!With(cache, k, c.value)
      /\ UNCHANGED <<types, watchers, heard, store, params, declared, dfile,
                     set_queue, export_queue, batch, lost>>
  BY Unchangeds DEF Dist!Notify
<1>2. FrameOK(t, c)
  BY DEF Typed, FrameInv
<1>3. k \in Keys /\ Fits(k, c.value)
  BY <1>1, <1>2, NotifyKeyIn DEF FrameOK
<1>4. d.msg = c.msg /\ d.at = "tell"
  BY <1>2, FrameFields DEF Fields
<1>5. FrameOK(t, d)
  <2>1. watchers[k] \in Seq(Observers)
    BY <1>3 DEF Typed, MapsInv
  <2> HIDE DEF k
  <2> QED
    BY <1>1, <1>2, <2>1, TellFrame
<1>6. MessagesInv' /\ DOMAIN messages' = DOMAIN messages
  BY <1>1 DEF Typed, MessagesInv
<1> HIDE DEF c, d, k
<1>7. FrameInv'
  BY <1>1, <1>5, GotoFrame DEF Typed
<1>8. HandInv'
  <2>1. c.msg = 0 /\ t = "worker" => c.at = "idle"
    BY DEF Typed, HandInv, c
  <2> QED
    BY <1>1, <1>4, <1>6, <2>1, HandKeeps DEF c
<1>9. MapsInv'
  <2>1. /\ DOMAIN cache' = DOMAIN cache \cup {k} /\ cache'[k] = c.value
        /\ \A j \in DOMAIN cache : j # k => cache'[j] = cache[j]
    BY <1>1 DEF Dist!With
  <2> QED
    BY <1>1, <1>3, <2>1 DEF Typed, MapsInv
<1> QED
  BY <1>6, <1>7, <1>8, <1>9 DEF Typed

LEMMA TellTyped ==
    ASSUME Typed, NEW t \in All, Dist!Tell(t), UNCHANGED values
    PROVE  Typed'
<1> DEFINE c == frame[t]
           os == Tail(c.tell)
           d == [c EXCEPT !.tell = os]
           o == Head(c.tell)
<1>1. /\ c.at = "tell" /\ c.tell # << >> /\ messages' = messages
      /\ Dist!Goto(t, d)
      /\ heard' = [heard EXCEPT ![o] =
                       Dist!With(@, Dist!NotifyKey(c), c.value)]
      /\ UNCHANGED <<types, watchers, cache, store, params, declared, dfile,
                     set_queue, export_queue, batch, lost>>
  BY Unchangeds DEF Dist!Tell
<1>2. FrameOK(t, c) /\ c.tell \in Seq(Observers)
  BY DEF Typed, FrameInv, FrameOK
<1>4. d.msg = c.msg /\ d.at = "tell"
  BY <1>1, <1>2, FrameFields DEF Fields
<1>5. FrameOK(t, d)
  <2>1. os \in Seq(Observers)
    BY <1>1, <1>2
  <2> HIDE DEF os
  <2> QED
    BY <1>1, <1>2, <2>1, TellFrame
<1>6. MessagesInv' /\ DOMAIN messages' = DOMAIN messages
  BY <1>1 DEF Typed, MessagesInv
<1> HIDE DEF c, d, os, o
<1>7. FrameInv'
  BY <1>1, <1>5, GotoFrame DEF Typed
<1>8. HandInv'
  <2>1. c.msg = 0 /\ t = "worker" => c.at = "idle"
    BY DEF Typed, HandInv, c
  <2> QED
    BY <1>1, <1>4, <1>6, <2>1, HandKeeps DEF c
<1>9. MapsInv'
  <2>1. heard' = [p \in Observers |-> heard'[p]]
    BY <1>1 DEF Typed, MapsInv
  <2> QED
    BY <1>1, <2>1 DEF Typed, MapsInv
<1> QED
  BY <1>6, <1>7, <1>8, <1>9 DEF Typed

LEMMA ToldTyped ==
    ASSUME Typed, NEW t \in All, Dist!Told(t), UNCHANGED values
    PROVE  Typed'
<1> DEFINE c == frame[t]
           d == IF c.todo = << >> THEN Dist!Idle ELSE Dist!Onward(c, TRUE)
           m == Dist!Single(c)
<1>1. /\ c.at = "tell" /\ c.tell = << >>
      /\ messages' = Dist!Published(m, "ok")
      /\ Dist!Goto(t, d)
      /\ UNCHANGED <<types, cache, watchers, heard, store, declared, dfile,
                     params, set_queue, export_queue, batch, lost>>
  BY Unchangeds DEF Dist!Told
<1>2. FrameOK(t, c)
  BY DEF Typed, FrameInv
<1>3. FrameOK(t, d)
  BY <1>1, <1>2, OnwardFrame, IdleFrame
<1>4. /\ d.msg = c.msg \/ d.msg = 0
      /\ d.msg # 0 => d.at # "idle"
      /\ d.msg = 0 /\ t = "worker" => d.at = "idle"
  <2>1. CASE c.todo = << >>
    BY <2>1 DEF Dist!Idle, Dist!Frame
  <2>2. CASE c.todo # << >>
    <3>1. d.msg = c.msg /\ d.at \in {"apply", "persist"}
      BY <2>2, <1>2, FrameFields DEF Dist!Onward, Fields
    <3>2. c.msg = 0 /\ t = "worker" => c.at = "idle"
      BY DEF Typed, HandInv
    <3> QED
      BY <3>1, <3>2, <1>1
  <2> QED
    BY <2>1, <2>2
<1>5. m \in DOMAIN messages \cup {0}
  BY SingleIs, HandIs DEF Typed
<1>6. MessagesInv' /\ DOMAIN messages' = DOMAIN messages
  <2> HIDE DEF m
  <2> QED
    BY <1>1, <1>5, PublishKeeps, PublishedIs, NumbersFromOne
       DEF Typed, Answers
<1> HIDE DEF c, d, m
<1>7. FrameInv'
  BY <1>1, <1>3, GotoFrame DEF Typed
<1>8. HandInv'
  BY <1>1, <1>4, <1>6, HandKeeps DEF c
<1>9. MapsInv'
  BY <1>1, MapsSame DEF Typed
<1> QED
  BY <1>6, <1>7, <1>8, <1>9 DEF Typed

LEMMA ContinueTyped ==
    ASSUME Typed, NEW t \in All, Dist!Continue(t), UNCHANGED values
    PROVE  Typed'
  BY RejectTyped, AcceptTyped, StoreParamTyped, SetStoreTyped, PersistTyped,
     NotifyTyped, TellTyped, ToldTyped DEF Dist!Continue

\* A user's thread that starts a call, with nothing in hand.
LEMMA StartTyped ==
    ASSUME Typed, NEW t \in All, NEW d, Dist!Goto(t, d), FrameOK(t, d),
           d.msg = 0, t # "worker",
           messages' = messages,
           UNCHANGED <<set_queue, export_queue, batch>>
    PROVE  FrameInv' /\ MessagesInv' /\ HandInv'
<1>1. MessagesInv' /\ DOMAIN messages' = DOMAIN messages
  BY DEF Typed, MessagesInv
<1>2. FrameInv'
  BY GotoFrame DEF Typed
<1>3. HandInv'
  BY <1>1, HandKeeps
<1> QED
  BY <1>1, <1>2, <1>3

LEMMA UsersAreNot ==
    ASSUME NEW t \in Users
    PROVE  t \in All /\ t # "worker" /\ t # "fetch"
  BY ParamsAssumption DEF All, Dist!All

LEMMA DeclareTyped ==
    ASSUME Typed, NEW t \in Users, NEW k \in Keys, Dist!Declare(t, k),
           UNCHANGED values
    PROVE  Typed'
<1> DEFINE v == Desc[k].default
           d == Dist!Frame("declare", <<Dist!Pair(k, Shown(v))>>, 0,
                           <<Dist!Pair(k, v)>>)
<1>1. /\ Fits(k, v) /\ types' = types \cup {k} /\ Dist!Goto(t, d)
      /\ UNCHANGED <<cache, watchers, heard, store, declared, params, dfile,
                     messages, set_queue, export_queue, batch, lost>>
  BY Unchangeds DEF Dist!Declare, Fits, Shown
<1>2. FrameOK(t, d) /\ d.msg = 0
  BY <1>1, CallFrame DEF Dist!Frame
<1> HIDE DEF d, v
<1>3. FrameInv' /\ MessagesInv' /\ HandInv'
  BY <1>1, <1>2, StartTyped, UsersAreNot
<1>4. MapsInv'
  BY <1>1 DEF Typed, MapsInv
<1> QED
  BY <1>3, <1>4 DEF Typed

LEMMA DeclareWireTyped ==
    ASSUME Typed, NEW t \in Users, Dist!DeclareWire(t), UNCHANGED values
    PROVE  Typed'
<1> DEFINE c == frame[t]
           k == Head(c.todo).key
<1>0. t \in All /\ FrameOK(t, c)
  BY UsersAreNot DEF Typed, FrameInv
<1>1. CASE /\ c.at = "declare" /\ Dist!Goto(t, [c EXCEPT !.at = "declaring"])
           /\ UNCHANGED <<types, cache, watchers, heard, store, declared,
                          params, dfile, messages, set_queue, export_queue,
                          batch, lost>>
  <2> DEFINE d == [c EXCEPT !.at = "declaring"]
  <2>1. FrameOK(t, d) /\ d.msg = c.msg
    <3>1. c.todo # << >>
      BY <1>0, <1>1 DEF FrameOK, Before
    <3>2. FrameOK(t, d)
      BY <3>1, <1>0, <1>1, MoveFrame DEF Before
    <3> QED
      BY <3>2, <1>0, FrameFields DEF Fields
  <2>2. c.msg = 0
    BY UsersAreNot DEF Typed, HandInv
  <2> HIDE DEF d
  <2>3. FrameInv' /\ MessagesInv' /\ HandInv'
    BY <1>0, <1>1, <2>1, <2>2, StartTyped, UsersAreNot DEF d
  <2>4. MapsInv'
    BY <1>1, MapsSame DEF Typed
  <2> QED
    BY <2>3, <2>4 DEF Typed
<1>2. CASE /\ c.at = "declaring" /\ Dist!Goto(t, [c EXCEPT !.at = "apply"])
           /\ declared' = declared \cup {k}
           /\ params' = Dist!With(params, k, Head(c.todo).is)
           /\ UNCHANGED <<types, cache, watchers, heard, store, dfile,
                          messages, set_queue, export_queue, batch, lost>>
  <2> DEFINE d == [c EXCEPT !.at = "apply"]
  <2>0. c.todo # << >> /\ c.then # << >>
    BY <1>0, <1>2 DEF FrameOK, Before
  <2>1. FrameOK(t, d) /\ d.msg = c.msg
    <3>2. FrameOK(t, d)
      BY <2>0, <1>0, <1>2, MoveFrame DEF Before
    <3> QED
      BY <3>2, <1>0, FrameFields DEF Fields
  <2>2. c.msg = 0
    BY UsersAreNot DEF Typed, HandInv
  <2>5. k \in Keys /\ Desc[k].type \in Dist!Types
    <3> DEFINE p == Dist!Pair(c.then[1].key, Shown(c.then[1].is))
    <3>1. IsWrite(c)
      BY <2>0 DEF IsWrite
    <3>2. /\ Fits(c.then[1].key, c.then[1].is) /\ c.then[1].key \in Keys
          /\ c.todo = <<p>> /\ p.key = c.then[1].key
      BY <3>1, <2>0, <1>0 DEF FrameOK, Dist!Pair
    <3> HIDE DEF p
    <3>3. k = c.then[1].key
      BY <3>2
    <3> QED
      BY <3>2, <3>3, FitsMeans
  <2> HIDE DEF d
  <2>3. FrameInv' /\ MessagesInv' /\ HandInv'
    BY <1>0, <1>2, <2>1, <2>2, StartTyped, UsersAreNot DEF d
  <2>4. MapsInv'
    <3>1. /\ params' = [j \in DOMAIN params' |-> params'[j]]
          /\ DOMAIN params' = DOMAIN params \cup {k}
      BY <1>2 DEF Dist!With
    <3> HIDE DEF k
    <3> QED
      BY <1>2, <2>5, <3>1 DEF Typed, MapsInv
  <2> QED
    BY <2>3, <2>4 DEF Typed
<1> QED
  BY <1>1, <1>2, Unchangeds DEF Dist!DeclareWire

LEMMA SetTyped ==
    ASSUME Typed, NEW t \in Users, NEW k \in Keys, NEW v, Dist!Set(t, k, v),
           UNCHANGED values
    PROVE  Typed'
<1> DEFINE d == Dist!Frame("apply", <<Dist!Pair(k, Shown(v))>>, 0,
                           <<Dist!Pair(k, v)>>)
<1>1. /\ Fits(k, v) /\ Dist!Goto(t, d)
      /\ UNCHANGED <<types, cache, watchers, heard, store, declared, params,
                     dfile, messages, set_queue, export_queue, batch, lost>>
  BY Unchangeds DEF Dist!Set, Fits, Shown
<1>2. FrameOK(t, d) /\ d.msg = 0
  BY <1>1, CallFrame DEF Dist!Frame
<1> HIDE DEF d
<1>3. FrameInv' /\ MessagesInv' /\ HandInv'
  BY <1>1, <1>2, StartTyped, UsersAreNot
<1>4. MapsInv'
  BY <1>1, MapsSame DEF Typed
<1> QED
  BY <1>3, <1>4 DEF Typed

LEMMA SubscribeTyped ==
    ASSUME Typed, NEW t \in Users, NEW k \in Keys, NEW o \in Observers,
           Dist!Subscribe(t, k, o), UNCHANGED values
    PROVE  Typed'
<1> DEFINE v == Dist!getValue(k)
           d == IF v = None THEN Dist!Idle ELSE SubscribeFrame(k, v, o)
<1>1. /\ watchers' = [watchers EXCEPT ![k] = Append(@, o)]
      /\ Dist!Goto(t, d)
      /\ UNCHANGED <<types, cache, heard, store, declared, params,
                     dfile, messages, set_queue, export_queue, batch, lost>>
  BY Unchangeds, Zenon DEF Dist!Subscribe, SubscribeFrame, None
<1>2. FrameOK(t, d) /\ d.msg = 0
  <2> HIDE DEF v
  <2>1. FrameOK(t, d)
    BY IdleFrame, SubscribeFrameOK
  <2>2. SubscribeFrame(k, v, o).msg = 0
    BY SubscribeFrameOK
  <2>3. Dist!Idle.msg = 0
    BY DEF Dist!Idle, Dist!Frame
  <2> QED
    BY <2>1, <2>2, <2>3
<1> HIDE DEF d
<1>3. FrameInv' /\ MessagesInv' /\ HandInv'
  BY <1>1, <1>2, StartTyped, UsersAreNot
<1>4. MapsInv'
  <2>1. watchers' \in [Keys -> Seq(Observers)]
    BY <1>1 DEF Typed, MapsInv
  <2> QED
    BY <1>1, <2>1 DEF Typed, MapsInv
<1> QED
  BY <1>3, <1>4 DEF Typed

LEMMA SameCardinality ==
    ASSUME NEW S
    PROVE  Dist!Cardinality(S) = Cardinality(S)
  BY Zenon DEF Cardinality, Dist!Cardinality

LEMMA ListOfSet ==
    ASSUME NEW S, IsFiniteSet(S)
    PROVE  /\ Dist!SetToSeq(S) \in [1..Cardinality(S) -> S]
           /\ Cardinality(S) \in Nat
           /\ S # {} => Cardinality(S) # 0
<1>1. Cardinality(S) \in Nat /\ ExistsBijection(1..Cardinality(S), S)
  BY FS_CardinalityType
<1>2. PICK g : g \in Bijection(1..Cardinality(S), S)
  BY <1>1 DEF ExistsBijection
<1>3. \E f \in [1..Cardinality(S) -> S] : Dist!IsInjective(f)
  BY <1>2 DEF Bijection, Injection, IsInjective, Dist!IsInjective
<1>4. Dist!SetToSeq(S) \in [1..Cardinality(S) -> S]
  <2> DEFINE A == [1..Cardinality(S) -> S]
  <2>1. Dist!SetToSeq(S) = CHOOSE f \in A : Dist!IsInjective(f)
    BY SameCardinality DEF Dist!SetToSeq
  <2>2. \E f \in A : Dist!IsInjective(f)
    BY <1>3
  <2> HIDE DEF A
  <2>3. Dist!SetToSeq(S) \in A
    BY <2>1, <2>2
  <2> QED
    BY <2>3 DEF A
<1>5. S # {} => Cardinality(S) # 0
  BY FS_EmptySet
<1> QED
  BY <1>1, <1>4, <1>5

\* What loadSnapshot() reads is a list of strings for keys.
LEMMA LoadedIs ==
    ASSUME MapsInv, dfile # << >>, NEW todo \in Dist!Loaded
    PROVE  IsSeq(todo) /\ InKeys(todo) /\ todo # << >>
<1>1. CASE Snapshot = "json"
  <2>1. PICK k \in DOMAIN dfile : todo = <<Dist!Pair(k, Dist!Empty)>>
    BY <1>1 DEF Dist!Loaded
  <2>2. k \in Keys
    BY DEF MapsInv
  <2> QED
    BY <2>1, <2>2, SingleTodo
<1>2. CASE Snapshot # "json"
  <2> DEFINE S == {Dist!Pair(k, dfile[k]) : k \in DOMAIN dfile}
             f == [k \in DOMAIN dfile |-> Dist!Pair(k, dfile[k])]
             n == Cardinality(S)
  <2>1. todo = Dist!SetToSeq(S)
    BY <1>2 DEF Dist!Loaded
  <2>2. IsFiniteSet(DOMAIN dfile)
    BY ParamsAssumption, FS_Subset DEF MapsInv
  <2>3. f \in Surjection(DOMAIN dfile, S)
    BY DEF Surjection
  <2>4. IsFiniteSet(S)
    BY <2>2, <2>3, FS_Surjection
  <2>5. DOMAIN dfile # {}
    <3>1. dfile = [k \in DOMAIN dfile |-> dfile[k]]
      BY DEF MapsInv
    <3>2. << >> = [k \in {} |-> dfile[k]]
      OBVIOUS
    <3> QED
      BY <3>1, <3>2
  <2>6. S # {}
    BY <2>5
  <2>7. \A p \in S : p.key \in Keys
    BY DEF Dist!Pair, MapsInv
  <2> HIDE DEF S
  <2>8. todo \in [1..n -> S] /\ n \in Nat /\ n # 0
    BY <2>1, <2>4, <2>6, ListOfSet
  <2> HIDE DEF n
  <2>9. todo \in [1..n -> Elements(todo)]
    BY <2>8 DEF Elements
  <2>10. IsSeq(todo)
    BY <2>8, <2>9, SeqDef DEF IsSeq
  <2>11. InKeys(todo) /\ DOMAIN todo # {}
    <3>1. DOMAIN todo = 1..n /\ 1 \in 1..n
      BY <2>8
    <3>2. \A i \in DOMAIN todo : todo[i] \in S
      BY <2>8
    <3> QED
      BY <2>7, <3>1, <3>2 DEF InKeys
  <2> QED
    BY <2>10, <2>11
<1> QED
  BY <1>1, <1>2

LEMMA LoadSnapshotTyped ==
    ASSUME Typed, NEW t \in Users, Dist!loadSnapshot(t), UNCHANGED values
    PROVE  Typed'
<1>1. PICK todo \in Dist!Loaded :
          Dist!Goto(t, Dist!Frame("apply", todo, 0, << >>))
  BY DEF Dist!loadSnapshot
<1>2. /\ dfile # << >>
      /\ UNCHANGED <<types, cache, watchers, heard, store, declared, params,
                     dfile, messages, set_queue, export_queue, batch, lost>>
  BY Unchangeds DEF Dist!loadSnapshot
<1> DEFINE d == Dist!Frame("apply", todo, 0, << >>)
<1>3. FrameOK(t, d) /\ d.msg = 0
  BY <1>2, LoadedIs, MessageFrame DEF Dist!Frame, Typed
<1>4. Dist!Goto(t, d)
  BY <1>1
<1> HIDE DEF d
<1>5. FrameInv' /\ MessagesInv' /\ HandInv'
  BY <1>2, <1>3, <1>4, StartTyped, UsersAreNot
<1>6. MapsInv'
  BY <1>2, MapsSame DEF Typed
<1> QED
  BY <1>5, <1>6 DEF Typed

LEMMA FetchTyped ==
    ASSUME Typed, Dist!FetchTurn, UNCHANGED values
    PROVE  Typed'
<1>1. PICK m \in Wire :
          /\ m.kind = "bulk"
          /\ Dist!Goto("fetch", Dist!Frame("apply", m.kvs, 0, << >>))
  BY DEF Dist!FetchTurn
<1>2. UNCHANGED <<types, cache, watchers, heard, store, declared, params,
                  dfile, messages, set_queue, export_queue, batch, lost>>
  BY Unchangeds DEF Dist!FetchTurn
<1> DEFINE d == Dist!Frame("apply", m.kvs, 0, << >>)
<1>3. IsSeq(m.kvs) /\ InKeys(m.kvs) /\ m.kvs # << >>
  BY <1>1, ParamsAssumption DEF MessageType, IsSeq, Elements, InKeys
<1>4. FrameOK("fetch", d) /\ d.msg = 0
  BY <1>3, MessageFrame DEF Dist!Frame
<1>5. Dist!Goto("fetch", d)
  BY <1>1
<1> HIDE DEF d
<1>6. FrameInv' /\ MessagesInv' /\ HandInv'
  BY <1>2, <1>4, <1>5, StartTyped DEF All, Dist!All
<1>7. MapsInv'
  BY <1>2, MapsSame DEF Typed
<1> QED
  BY <1>6, <1>7 DEF Typed

LEMMA AppendTyped ==
    ASSUME MessagesInv, NEW m, MessageOK(m), messages' = Append(messages, m)
    PROVE  LET n == Len(messages) + 1 IN
           /\ IsSeq(messages') /\ DOMAIN messages' = DOMAIN messages \cup {n}
           /\ n \notin DOMAIN messages /\ n # 0 /\ messages'[n] = m
           /\ \A i \in DOMAIN messages : messages'[i] = messages[i]
<1> DEFINE n == Len(messages) + 1
           E == Elements(messages) \cup {m}
<1>1. /\ messages \in Seq(Elements(messages)) /\ Len(messages) \in Nat
      /\ DOMAIN messages = 1..Len(messages)
  BY NumbersFromOne DEF MessagesInv, IsSeq
<1>2. messages \in Seq(E)
  BY <1>1, SeqMonotonic
<1> HIDE DEF E
<1>3. m \in E
  BY DEF E
<1>4. /\ messages' \in Seq(E) /\ Len(messages') = n
      /\ \A i \in 1..Len(messages) : messages'[i] = messages[i]
      /\ messages'[n] = m
  BY <1>2, <1>3, AppendProperties
<1>5. DOMAIN messages' = 1..n
  BY <1>4
<1>6. DOMAIN messages' = DOMAIN messages \cup {n}
  BY <1>1, <1>5
<1>7. messages' \in Seq(Elements(messages'))
  <2>1. \A i \in 1..Len(messages') : messages'[i] \in Elements(messages')
    BY <1>4, <1>5 DEF Elements
  <2> QED
    BY <1>4, <2>1, Retyped
<1> QED
  BY <1>1, <1>4, <1>6, <1>7 DEF IsSeq

\* A queue after a message has been pushed: no longer than it may be.
LEMMA PushedIs ==
    ASSUME NEW S, NEW q \in Seq(S), NEW n \in S
    PROVE  /\ Dist!Pushed(q, n) \in Seq(S)
           /\ Dist!Overflow(q) \subseteq Elements(q)
           /\ Elements(Dist!Pushed(q, n)) =
                 (Elements(q) \ Dist!Overflow(q)) \cup {n}
              \/ \E i, j \in DOMAIN q : i # j /\ q[i] = q[j]
<1>1. CASE Len(q) < MaxQueue
  <2>1. Dist!Pushed(q, n) = Append(q, n) /\ Dist!Overflow(q) = {}
    BY <1>1 DEF Dist!Pushed, Dist!Overflow
  <2>2. Append(q, n) \in Seq(S) /\ DOMAIN Append(q, n) = 1..(Len(q) + 1)
    BY AppendProperties
  <2>3. /\ \A i \in 1..Len(q) : Append(q, n)[i] = q[i]
        /\ Append(q, n)[Len(q) + 1] = n
        /\ DOMAIN q = 1..Len(q) /\ Len(q) \in Nat
    BY AppendProperties
  <2>4. Elements(Append(q, n)) = Elements(q) \cup {n}
    BY <2>2, <2>3 DEF Elements
  <2> QED
    BY <2>1, <2>2, <2>4
<1>2. CASE ~(Len(q) < MaxQueue)
  <2> DEFINE r == Tail(q)
  <2>0. q # << >>
    BY <1>2, ParamsAssumption
  <2>1. Dist!Pushed(q, n) = Append(r, n) /\ Dist!Overflow(q) = {Head(q)}
    BY <1>2 DEF Dist!Pushed, Dist!Overflow
  <2>2. /\ r \in Seq(S) /\ Len(r) = Len(q) - 1 /\ Len(r) \in Nat
        /\ DOMAIN r = 1..(Len(q) - 1)
        /\ \A i \in 1..(Len(q) - 1) : r[i] = q[i + 1]
        /\ Head(q) = q[1] /\ DOMAIN q = 1..Len(q) /\ Len(q) \in Nat \ {0}
    BY <2>0, HeadTailProperties
  <2> HIDE DEF r
  <2>3. /\ Append(r, n) \in Seq(S) /\ DOMAIN Append(r, n) = 1..Len(q)
        /\ \A i \in 1..(Len(q) - 1) : Append(r, n)[i] = q[i + 1]
        /\ Append(r, n)[Len(q)] = n
    BY <2>2, AppendProperties
  <2>4. Elements(Append(r, n)) =
            {q[i + 1] : i \in 1..(Len(q) - 1)} \cup {n}
    BY <2>2, <2>3 DEF Elements
  <2>5. {q[i + 1] : i \in 1..(Len(q) - 1)} = {q[i] : i \in 2..Len(q)}
    <3>1. \A i \in 2..Len(q) : i - 1 \in 1..(Len(q) - 1) /\ i = (i - 1) + 1
      BY <2>2
    <3>2. \A i \in 1..(Len(q) - 1) : i + 1 \in 2..Len(q)
      BY <2>2
    <3> QED
      BY <3>1, <3>2
  <2>6. ASSUME \A i, j \in DOMAIN q : i # j => q[i] # q[j]
        PROVE  {q[i] : i \in 2..Len(q)} = Elements(q) \ {q[1]}
    <3>1. DOMAIN q = {1} \cup (2..Len(q)) /\ 1 \notin 2..Len(q)
      BY <2>2
    <3> QED
      BY <2>6, <3>1 DEF Elements
  <2>7. Head(q) \in Elements(q)
    BY <2>2 DEF Elements
  <2> QED
    BY <2>1, <2>2, <2>3, <2>4, <2>5, <2>6, <2>7
<1> QED
  BY <1>1, <1>2

LEMMA ArriveTyped ==
    ASSUME Typed, NEW m \in Wire, Dist!Arrive(m), UNCHANGED values
    PROVE  Typed'
<1> DEFINE new == [kind |-> m.kind, kvs |-> m.kvs, out |-> << >>]
           n == Len(messages) + 1
<1>1. /\ messages' = Append(messages, new)
      /\ set_queue' \in {set_queue, Dist!Pushed(set_queue, n)}
      /\ export_queue' \in {export_queue, Dist!Pushed(export_queue, n)}
      /\ UNCHANGED <<types, cache, watchers, heard, store, declared, params,
                     dfile, batch, frame>>
  BY Unchangeds DEF Dist!Arrive
<1>2. MessageOK(new)
  BY ParamsAssumption, EmptySeq DEF MessageOK, MessageType
<1> HIDE DEF new
<1>3. /\ IsSeq(messages') /\ DOMAIN messages' = DOMAIN messages \cup {n}
      /\ messages'[n] = new
      /\ \A i \in DOMAIN messages : messages'[i] = messages[i]
  BY <1>1, <1>2, AppendTyped DEF Typed
<1> DEFINE S == DOMAIN messages \cup {n}
<1>4. /\ set_queue \in Seq(S) /\ export_queue \in Seq(S) /\ batch \in Seq(S)
  BY SeqMonotonic DEF Typed, MessagesInv
<1>5. n \in S
  OBVIOUS
<1> HIDE DEF n, S
<1>6. /\ set_queue' \in Seq(S) /\ export_queue' \in Seq(S)
      /\ batch' \in Seq(S)
  BY <1>1, <1>4, <1>5, PushedIs
<1>7. MessagesInv'
  <2>1. DOMAIN messages' = S
    BY <1>3 DEF S
  <2>2. \A i \in DOMAIN messages' : MessageOK(messages'[i])
    BY <1>2, <1>3 DEF Typed, MessagesInv
  <2> QED
    BY <1>3, <1>6, <2>1, <2>2 DEF MessagesInv
<1>8. FrameInv' /\ HandInv'
  BY <1>1, <1>3 DEF Typed, FrameInv, HandInv, All, Dist!All
<1>9. MapsInv'
  BY <1>1, MapsSame DEF Typed
<1> QED
  BY <1>7, <1>8, <1>9 DEF Typed

LEMMA SwapTyped ==
    ASSUME Typed, Dist!Swap, UNCHANGED values
    PROVE  Typed'
<1>1. /\ batch' = export_queue \o set_queue
      /\ set_queue' = << >> /\ export_queue' = << >>
      /\ UNCHANGED <<types, cache, watchers, heard, store, declared, params,
                     dfile, messages, frame>>
  BY Unchangeds DEF Dist!Swap
<1> DEFINE S == DOMAIN messages
<1>2. set_queue \in Seq(S) /\ export_queue \in Seq(S)
  BY DEF Typed, MessagesInv
<1> HIDE DEF S
<1>3. batch' \in Seq(S) /\ << >> \in Seq(S)
  BY <1>1, <1>2
<1>4. MessagesInv'
  BY <1>1, <1>3 DEF Typed, MessagesInv, S
<1>5. FrameInv' /\ HandInv'
  BY <1>1 DEF Typed, FrameInv, HandInv, All, Dist!All
<1>6. MapsInv'
  BY <1>1, MapsSame DEF Typed
<1> QED
  BY <1>4, <1>5, <1>6 DEF Typed

LEMMA BatchHead ==
    ASSUME Typed, batch # << >>
    PROVE  /\ Head(batch) \in DOMAIN messages
           /\ Tail(batch) \in Seq(DOMAIN messages)
           /\ MessageOK(messages[Head(batch)])
<1> DEFINE S == DOMAIN messages
<1>1. batch \in Seq(S)
  BY DEF Typed, MessagesInv
<1> HIDE DEF S
<1>2. Head(batch) \in S /\ Tail(batch) \in Seq(S)
  BY <1>1
<1> QED
  BY <1>2 DEF Typed, MessagesInv, S

LEMMA WorkerTakesTyped ==
    ASSUME Typed, Dist!WorkerTakes, UNCHANGED values
    PROVE  Typed'
<1> DEFINE i == Head(batch)
           m == messages[i]
           d == Dist!Frame("apply", m.kvs, i, << >>)
<1>1. /\ batch # << >> /\ batch' = Tail(batch)
      /\ UNCHANGED <<types, cache, watchers, heard, store, declared, params,
                     dfile, set_queue, export_queue>>
  BY Unchangeds DEF Dist!WorkerTakes
<1>2. /\ i \in DOMAIN messages /\ i # 0 /\ MessageOK(m)
      /\ Tail(batch) \in Seq(DOMAIN messages)
  BY <1>1, BatchHead, NumbersFromOne DEF Typed
<1>3. MapsInv'
  BY <1>1, MapsSame DEF Typed
<1>4. CASE m.kind \in {"set", "bulk"}
  <2>1. Dist!Goto("worker", d) /\ messages' = messages
    BY <1>4 DEF Dist!WorkerTakes
  <2>2. IsSeq(m.kvs) /\ InKeys(m.kvs) /\ m.kvs # << >>
    <3>1. MessageType(m)
      BY <1>2 DEF MessageOK
    <3> HIDE DEF m
    <3>2. Len(m.kvs) = 1 \/ m.kvs # << >>
      BY <1>4, <3>1 DEF MessageType
    <3> QED
      BY <3>1, <3>2 DEF MessageType, IsSeq, Elements, InKeys
  <2>3. FrameOK("worker", d) /\ d.msg = i /\ d.at = "apply"
    BY <2>2, MessageFrame DEF Dist!Frame
  <2>4. "worker" \in All
    BY DEF All, Dist!All
  <2> HIDE DEF d, i, m
  <2>5. FrameInv' /\ frame'["worker"] = d
        /\ \A u \in All : u # "worker" => frame'[u] = frame[u]
    BY <2>1, <2>3, <2>4, GotoFrame DEF Typed
  <2>6. MessagesInv'
    BY <1>1, <1>2, <2>1 DEF Typed, MessagesInv
  <2>7. HandInv'
    BY <1>2, <2>1, <2>3, <2>5 DEF Typed, HandInv, All, Dist!All
  <2> QED
    BY <1>3, <2>5, <2>6, <2>7 DEF Typed
<1>5. CASE m.kind \notin {"set", "bulk"}
  <2> DEFINE n == IF Dist!IsRequest(m) THEN i ELSE 0
  <2>1. messages' = Dist!Published(n, "exported") /\ UNCHANGED frame
    BY <1>5 DEF Dist!WorkerTakes
  <2>2. n \in DOMAIN messages \cup {0}
    BY <1>2
  <2> HIDE DEF n
  <2>3. /\ DOMAIN messages' = DOMAIN messages /\ IsSeq(messages')
        /\ \A j \in DOMAIN messages : MessageOK(messages'[j])
    BY <2>1, <2>2, PublishedIs, NumbersFromOne DEF Typed, Answers
  <2>4. MessagesInv'
    BY <1>1, <1>2, <2>3 DEF Typed, MessagesInv
  <2>5. FrameInv' /\ HandInv'
    BY <2>1, <2>3 DEF Typed, FrameInv, HandInv, All, Dist!All
  <2> QED
    BY <1>3, <2>4, <2>5 DEF Typed
<1> QED
  BY <1>4, <1>5

\* Steps of the worker and of stop() that touch neither maps nor messages.
LEMMA QuietTyped ==
    ASSUME Typed, UNCHANGED values,
           \/ Dist!WorkerBreaks \/ Dist!StopFlag \/ Dist!StopJoin
           \/ \E t \in Users : Dist!setFetchCallback(t)
    PROVE  Typed'
<1>1. /\ UNCHANGED <<types, cache, watchers, heard, store, declared, params,
                     dfile, messages, frame>>
      /\ set_queue' \in {set_queue, << >>}
      /\ export_queue' \in {export_queue, << >>}
      /\ batch' \in {batch, << >>}
  BY Unchangeds DEF Dist!WorkerBreaks, Dist!StopFlag, Dist!StopJoin,
     Dist!setFetchCallback
<1>2. << >> \in Seq(DOMAIN messages)
  BY EmptySeq
<1>3. MessagesInv'
  BY <1>1, <1>2 DEF Typed, MessagesInv
<1>4. FrameInv' /\ HandInv'
  BY <1>1 DEF Typed, FrameInv, HandInv, All, Dist!All
<1>5. MapsInv'
  BY <1>1, MapsSame DEF Typed
<1> QED
  BY <1>3, <1>4, <1>5 DEF Typed

LEMMA DistTyped ==
    ASSUME Typed, Dist!Next, UNCHANGED values
    PROVE  Typed'
<1>1. ASSUME NEW t \in Users, Dist!Program(t) PROVE Typed'
  BY <1>1, DeclareTyped, SetTyped, SubscribeTyped, DeclareWireTyped,
     LoadSnapshotTyped, QuietTyped DEF Dist!Program
<1>2. ASSUME NEW t \in All, Dist!Continue(t) PROVE Typed'
  BY <1>2, ContinueTyped
<1>3. ASSUME Dist!Worker PROVE Typed'
  BY <1>3, <1>2, SwapTyped, WorkerTakesTyped, QuietTyped
     DEF Dist!Worker, All, Dist!All
<1> QED
  BY <1>1, <1>2, <1>3, ArriveTyped, FetchTyped, QuietTyped, UsersAreNot
     DEF Dist!Next, All, Dist!All

-----------------------------------------------------------------------------
(* Types of the public server, and its steps. *)

\* What a thread carries in a call of the public server; D: the declared keys.
CallOK(D, c) ==
    \/ c = Public!Idle
    \/ /\ c.at = "tell" /\ c.tell \in Seq(Observers)
       /\ c.tell # << >> \/ c.rest # << >>
       /\ c.key \in D /\ DOMAIN c.rest \subseteq D
       /\ c.rest = [k \in DOMAIN c.rest |-> c.rest[k]]
    \/ c.at = "load"
    \/ c.at = "save" /\ DOMAIN c.kvs \subseteq Keys

PublicTyped ==
    /\ observers \in [Keys -> Seq(Observers)]
    /\ told = [o \in Observers |-> told[o]]
    /\ call = [t \in Threads |-> call[t]]
    /\ \A t \in Threads : CallOK(DOMAIN values, call[t])
    /\ DOMAIN file \subseteq Keys /\ raced \subseteq Keys

LEMMA NoEntry ==
    ASSUME NEW f, f = [k \in DOMAIN f |-> f[k]]
    PROVE  f = << >> <=> DOMAIN f = {}
<1>1. << >> = [k \in {} |-> f[k]]
  OBVIOUS
<1> QED
  BY <1>1

LEMMA TellingIs ==
    ASSUME NEW D, NEW k \in D, NEW v, NEW os \in Seq(Observers), NEW rest,
           rest = [j \in DOMAIN rest |-> rest[j]],
           DOMAIN rest \subseteq D
    PROVE  LET c == Public!Telling(k, v, os, rest) IN
           /\ CallOK(D, c)
           /\ os = << >> /\ rest = << >> => Public!Pending(c) = {}
           /\ os # << >> \/ rest # << >> =>
                 /\ Public!Pending(c) = {k} \cup DOMAIN rest
                 /\ c.at = "tell" /\ c.key = k /\ c.value = v /\ c.tell = os
                 /\ c.rest = rest
<1> DEFINE c == Public!Telling(k, v, os, rest)
<1>1. CASE os = << >> /\ rest = << >>
  <2>1. c = Public!Idle
    BY <1>1 DEF Public!Telling
  <2> QED
    BY <1>1, <2>1 DEF CallOK, Public!Pending, Public!Idle
<1>2. CASE os # << >> \/ rest # << >>
  <2>1. /\ c.at = "tell" /\ c.key = k /\ c.value = v /\ c.tell = os
        /\ c.rest = rest
    BY <1>2 DEF Public!Telling
  <2> HIDE DEF c
  <2>2. CallOK(D, c) /\ Public!Pending(c) = {k} \cup DOMAIN rest
    BY <1>2, <2>1 DEF CallOK, Public!Pending
  <2> QED
    BY <1>2, <2>1, <2>2 DEF c
<1> QED
  BY <1>1, <1>2

LEMMA CallGrows ==
    ASSUME NEW D, NEW E, D \subseteq E, NEW c, CallOK(D, c)
    PROVE  CallOK(E, c)
  BY DEF CallOK

\* A thread goes on to c; the others find every value they knew of.
LEMMA CallKeeps ==
    ASSUME PublicTyped, NEW t \in Threads, NEW c,
           call' = [call EXCEPT ![t] = c],
           DOMAIN values \subseteq DOMAIN values', CallOK(DOMAIN values', c)
    PROVE  /\ call' = [u \in Threads |-> call'[u]]
           /\ call'[t] = c /\ \A u \in Threads : u # t => call'[u] = call[u]
           /\ \A u \in Threads : CallOK(DOMAIN values', call'[u])
<1>1. /\ call' = [u \in Threads |-> call'[u]]
      /\ call'[t] = c /\ \A u \in Threads : u # t => call'[u] = call[u]
  BY DEF PublicTyped
<1>2. ASSUME NEW u \in Threads, u # t PROVE CallOK(DOMAIN values', call'[u])
  <2>1. call'[u] = call[u] /\ CallOK(DOMAIN values, call[u])
    BY <1>1, <1>2 DEF PublicTyped
  <2> QED
    BY <2>1, CallGrows
<1> QED
  BY <1>1, <1>2

AllTyped == Typed /\ PublicTyped

\* A step of the public server keeps what the other one has.
LEMMA DistSame ==
    ASSUME Typed, UNCHANGED distVars,
           DOMAIN values' \subseteq Keys,
           \A k \in DOMAIN values' : Fits(k, values'[k]),
           DOMAIN values' \subseteq DOMAIN store'
    PROVE  Typed'
<1>1. UNCHANGED <<types, cache, watchers, heard, declared, dfile, params,
                  messages, set_queue, export_queue, batch, frame>>
  BY DEF distVars
<1>2. MapsInv'
  BY <1>1 DEF Typed, MapsInv
<1>3. FrameInv' /\ HandInv' /\ MessagesInv'
  BY <1>1 DEF Typed, FrameInv, HandInv, MessagesInv, All, Dist!All
<1> QED
  BY <1>2, <1>3 DEF Typed

LEMMA PublicWith ==
    ASSUME NEW f, NEW k, NEW v
    PROVE  LET g == Public!With(f, k, v) IN
           /\ DOMAIN g = DOMAIN f \cup {k} /\ g[k] = v
           /\ g = [j \in DOMAIN g |-> g[j]]
           /\ \A j \in DOMAIN f : j # k => g[j] = f[j]
  BY DEF Public!With

LEMMA RacedKeys ==
    ASSUME raced \subseteq Keys, NEW t, NEW ks, ks \subseteq Keys, NEW w,
           Public!Overlap(t, ks, w)
    PROVE  raced' \subseteq Keys
  BY DEF Public!Overlap

LEMMA EmptyCall ==
    /\ << >> \in Seq(Observers)
    /\ << >> = [j \in DOMAIN << >> |-> << >>[j]] /\ DOMAIN << >> = {}
  OBVIOUS

LEMMA PutTyped ==
    ASSUME AllTyped, UNCHANGED distVars, NEW t \in Threads, NEW k \in Keys,
           NEW v, Fits(k, v), Public!Put(t, k, v)
    PROVE  AllTyped'
<1> DEFINE c == Public!Telling(k, v, observers[k], << >>)
<1>1. /\ values' = Public!With(values, k, v)
      /\ store' = Public!With(store, k, Public!toString(v))
      /\ call' = [call EXCEPT ![t] = c]
      /\ UNCHANGED <<observers, file, told>>
      /\ Public!Overlap(t, {k}, TRUE)
  BY DEF Public!Put
<1>2. /\ DOMAIN values' = DOMAIN values \cup {k} /\ values'[k] = v
      /\ \A j \in DOMAIN values : j # k => values'[j] = values[j]
      /\ DOMAIN store' = DOMAIN store \cup {k}
  BY <1>1 DEF Public!With
<1>3. Typed'
  <2>1. DOMAIN values' \subseteq DOMAIN store' /\ DOMAIN values' \subseteq Keys
    BY <1>2 DEF AllTyped, Typed, MapsInv
  <2>2. \A j \in DOMAIN values' : Fits(j, values'[j])
    BY <1>2 DEF AllTyped, Typed, MapsInv
  <2> QED
    BY <2>1, <2>2, DistSame DEF AllTyped
<1>4. CallOK(DOMAIN values', c)
  <2>1. observers[k] \in Seq(Observers) /\ k \in DOMAIN values'
    BY <1>2 DEF AllTyped, PublicTyped
  <2> QED
    BY <2>1, TellingIs, EmptyCall
<1> HIDE DEF c
<1>5. /\ call' = [u \in Threads |-> call'[u]]
      /\ \A u \in Threads : CallOK(DOMAIN values', call'[u])
  BY <1>1, <1>2, <1>4, CallKeeps DEF AllTyped
<1>6. raced' \subseteq Keys
  BY <1>1, RacedKeys DEF AllTyped, PublicTyped
<1> QED
  BY <1>1, <1>3, <1>5, <1>6 DEF AllTyped, PublicTyped

\* A step that leaves the values alone.
LEMMA CallTyped ==
    ASSUME AllTyped, UNCHANGED distVars, UNCHANGED <<values, store>>,
           NEW t \in Threads, NEW c, CallOK(DOMAIN values, c),
           call' = [call EXCEPT ![t] = c],
           observers' \in [Keys -> Seq(Observers)],
           told' = [o \in Observers |-> told'[o]],
           DOMAIN file' \subseteq Keys, raced' \subseteq Keys
    PROVE  AllTyped'
<1>1. Typed'
  BY DistSame DEF AllTyped, Typed, MapsInv
<1>2. DOMAIN values \subseteq DOMAIN values' /\ CallOK(DOMAIN values', c)
  OBVIOUS
<1>3. /\ call' = [u \in Threads |-> call'[u]]
      /\ \A u \in Threads : CallOK(DOMAIN values', call'[u])
  BY <1>2, CallKeeps DEF AllTyped
<1> QED
  BY <1>1, <1>3 DEF AllTyped, PublicTyped

LEMMA PublicSubscribeTyped ==
    ASSUME AllTyped, UNCHANGED distVars, NEW t \in Threads, NEW k \in Keys,
           NEW o \in Observers, Public!Subscribe(t, k, o)
    PROVE  AllTyped'
<1> DEFINE c == IF k \in DOMAIN values
                THEN Public!Telling(k, values[k], <<o>>, << >>)
                ELSE Public!Idle
<1>1. /\ observers' = [observers EXCEPT ![k] = Append(@, o)]
      /\ call' = [call EXCEPT ![t] = c]
      /\ Public!Overlap(t, {k}, FALSE)
      /\ UNCHANGED <<values, file, store, told>>
  BY DEF Public!Subscribe
<1>2. CallOK(DOMAIN values, c)
  <2>1. <<o>> \in Seq(Observers)
    OBVIOUS
  <2>2. CallOK(DOMAIN values, Public!Idle)
    BY DEF CallOK
  <2> QED
    BY <2>1, <2>2, TellingIs, EmptyCall
<1> HIDE DEF c
<1>3. observers' \in [Keys -> Seq(Observers)]
  BY <1>1 DEF AllTyped, PublicTyped
<1>4. raced' \subseteq Keys
  BY <1>1, RacedKeys DEF AllTyped, PublicTyped
<1> QED
  BY <1>1, <1>2, <1>3, <1>4, CallTyped DEF AllTyped, PublicTyped

LEMMA PublicTellTyped ==
    ASSUME AllTyped, UNCHANGED distVars, NEW t \in Threads, Public!Tell(t)
    PROVE  AllTyped'
<1> DEFINE c == call[t]
           d == Public!Telling(c.key, c.value, Tail(c.tell), c.rest)
<1>1. /\ c.at = "tell" /\ c.tell # << >>
      /\ told' = [told EXCEPT ![Head(c.tell)] =
                      Public!With(@, c.key, c.value)]
      /\ call' = [call EXCEPT ![t] = d]
      /\ UNCHANGED <<values, observers, file, store, raced>>
  BY DEF Public!Tell
<1>2. CallOK(DOMAIN values, d)
  <2>1. /\ c.tell \in Seq(Observers) /\ c.key \in DOMAIN values
        /\ DOMAIN c.rest \subseteq DOMAIN values
        /\ c.rest = [k \in DOMAIN c.rest |-> c.rest[k]]
    BY <1>1 DEF AllTyped, PublicTyped, CallOK, Public!Idle
  <2>2. Tail(c.tell) \in Seq(Observers)
    BY <1>1, <2>1
  <2> HIDE DEF c
  <2> QED
    BY <2>1, <2>2, TellingIs
<1> HIDE DEF c, d
<1>3. told' = [o \in Observers |-> told'[o]]
  BY <1>1 DEF AllTyped, PublicTyped
<1> QED
  BY <1>1, <1>2, <1>3, CallTyped DEF AllTyped, PublicTyped

LEMMA TellNextTyped ==
    ASSUME AllTyped, UNCHANGED distVars, NEW t \in Threads, Public!TellNext(t)
    PROVE  AllTyped'
<1> DEFINE c == call[t]
<1>1. PICK k \in DOMAIN c.rest :
          call' = [call EXCEPT ![t] = Public!Telling(k, c.rest[k], observers[k],
                      [j \in DOMAIN c.rest \ {k} |-> c.rest[j]])]
  BY DEF Public!TellNext
<1> DEFINE rest == [j \in DOMAIN c.rest \ {k} |-> c.rest[j]]
           d == Public!Telling(k, c.rest[k], observers[k], rest)
<1>2. /\ c.at = "tell"
      /\ UNCHANGED <<values, observers, file, store, told, raced>>
  BY DEF Public!TellNext
<1>3. CallOK(DOMAIN values, d)
  <2>0. CallOK(DOMAIN values, c)
    BY DEF AllTyped, PublicTyped
  <2> HIDE DEF c
  <2>1. DOMAIN c.rest \subseteq DOMAIN values
    BY <1>2, <2>0 DEF CallOK, Public!Idle
  <2>2. k \in DOMAIN values /\ observers[k] \in Seq(Observers)
    BY <2>1 DEF AllTyped, Typed, MapsInv, PublicTyped
  <2>3. /\ rest = [j \in DOMAIN rest |-> rest[j]]
        /\ DOMAIN rest \subseteq DOMAIN values
    BY <2>1
  <2> DEFINE os == observers[k]
             v == c.rest[k]
  <2>4. os \in Seq(Observers)
    BY <2>2
  <2> HIDE DEF rest, os, v
  <2>5. CallOK(DOMAIN values, Public!Telling(k, v, os, rest))
    BY <2>2, <2>3, <2>4, TellingIs
  <2> QED
    BY <2>5 DEF os, v
<1>4. call' = [call EXCEPT ![t] = d]
  BY <1>1
<1> HIDE DEF d
<1> QED
  BY <1>2, <1>3, <1>4, CallTyped DEF AllTyped, PublicTyped

LEMMA SamePublic ==
    /\ \A v, type : Public!valueMatchesType(v, type)
                        <=> Dist!valueMatchesType(v, type)
    /\ \A v : Public!toString(v) = Shown(v)
<1>1. \A v, type : Public!valueMatchesType(v, type)
                        <=> Dist!valueMatchesType(v, type)
  BY DEF Public!valueMatchesType, Dist!valueMatchesType, Public!Types,
         Dist!Types
<1>2. ASSUME NEW v PROVE Public!toString(v) = Shown(v)
  BY DEF Public!toString, Shown, Dist!toString, Public!IntText, Dist!IntText,
     Public!DecText, Dist!DecText, Public!BoolText, Dist!BoolText
<1> QED
  BY <1>1, <1>2

\* What loadSnapshot() takes over from the lines of a file.
Taken(kvs) ==
    [k \in {j \in DOMAIN kvs \cap DOMAIN values :
                Public!valueMatchesType(
                    Public!parseFromString(kvs[j], Desc[j].type), Desc[j].type)}
        |-> Public!parseFromString(kvs[k], Desc[k].type)]

LEMMA TakenIs ==
    ASSUME NEW kvs
    PROVE  /\ Taken(kvs) = [k \in DOMAIN Taken(kvs) |-> Taken(kvs)[k]]
           /\ DOMAIN Taken(kvs) \subseteq DOMAIN values
           /\ \A k \in DOMAIN Taken(kvs) : Fits(k, Taken(kvs)[k])
  BY SamePublic DEF Taken, Fits

\* Where a thread goes that has read a file.
AfterLoad(read) ==
    IF read = << >> THEN Public!Idle
    ELSE [at |-> "tell", key |-> CHOOSE k \in DOMAIN read : TRUE,
          value |-> Public!NoValue, tell |-> << >>, rest |-> read]

LEMMA AfterLoadIs ==
    ASSUME NEW D, NEW read, read = [k \in DOMAIN read |-> read[k]],
           DOMAIN read \subseteq D
    PROVE  LET c == AfterLoad(read) IN
           /\ CallOK(D, c)
           /\ Public!Pending(c) = DOMAIN read
           /\ DOMAIN read # {} => c.at = "tell" /\ c.rest = read
<1> DEFINE c == AfterLoad(read)
<1>1. CASE read = << >>
  <2>1. c = Public!Idle /\ DOMAIN read = {}
    BY <1>1, NoEntry DEF AfterLoad
  <2> QED
    BY <2>1 DEF CallOK, Public!Pending, Public!Idle
<1>2. CASE read # << >>
  <2>1. /\ c.at = "tell" /\ c.tell = << >> /\ c.rest = read
        /\ c.key = CHOOSE k \in DOMAIN read : TRUE
    BY <1>2 DEF AfterLoad
  <2>2. DOMAIN read # {}
    BY <1>2, NoEntry
  <2>3. c.key \in DOMAIN read
    <3> DEFINE S == DOMAIN read
    <3>1. c.key = CHOOSE k \in S : TRUE /\ S # {}
      BY <2>1, <2>2
    <3> HIDE DEF S, c
    <3>2. (CHOOSE k \in S : TRUE) \in S
      BY <2>2 DEF S
    <3> QED
      BY <2>1, <3>2 DEF S
  <2> HIDE DEF c
  <2>4. Public!Pending(c) = DOMAIN read
    BY <2>1, <2>3 DEF Public!Pending
  <2>5. CallOK(D, c)
    BY <1>2, <2>1, <2>3, EmptyCall DEF CallOK
  <2> QED
    BY <2>1, <2>4, <2>5 DEF c
<1> QED
  BY <1>1, <1>2

\* The step in which it does.
Takes(t, read) ==
    /\ call[t].at = "load"
    /\ values' = [k \in DOMAIN values |->
                    IF k \in DOMAIN read THEN read[k] ELSE values[k]]
    /\ store' = [k \in DOMAIN store |->
                    IF k \in DOMAIN read THEN Public!toString(read[k])
                    ELSE store[k]]
    /\ call' = [call EXCEPT ![t] = AfterLoad(read)]
    /\ Public!Overlap(t, DOMAIN read, TRUE)
    /\ UNCHANGED <<observers, file, told>>

LEMMA LoadApplyIs ==
    ASSUME NEW t, Public!LoadApply(t)
    PROVE  Takes(t, Taken(call[t].kvs))
  BY Zenon DEF Public!LoadApply, Taken, AfterLoad, Takes

LEMMA LoadApplyTyped ==
    ASSUME AllTyped, UNCHANGED distVars, NEW t \in Threads, Public!LoadApply(t)
    PROVE  AllTyped'
<1>1. PICK read : read = Taken(call[t].kvs)
  OBVIOUS
<1>2. /\ values' = [k \in DOMAIN values |->
                        IF k \in DOMAIN read THEN read[k] ELSE values[k]]
      /\ store' = [k \in DOMAIN store |->
                        IF k \in DOMAIN read THEN Public!toString(read[k])
                        ELSE store[k]]
      /\ call' = [call EXCEPT ![t] = AfterLoad(read)]
      /\ Public!Overlap(t, DOMAIN read, TRUE)
      /\ UNCHANGED <<observers, file, told>>
  <2>1. Takes(t, read)
    BY <1>1, LoadApplyIs
  <2> QED
    BY <2>1 DEF Takes
<1>3. /\ read = [k \in DOMAIN read |-> read[k]]
      /\ DOMAIN read \subseteq DOMAIN values
      /\ \A k \in DOMAIN read : Fits(k, read[k])
  BY <1>1, TakenIs
<1>4. DOMAIN values' = DOMAIN values /\ DOMAIN store' = DOMAIN store
  BY <1>2
<1>5. Typed'
  <2>1. \A k \in DOMAIN values' : Fits(k, values'[k])
    BY <1>2, <1>3, <1>4 DEF AllTyped, Typed, MapsInv
  <2> QED
    BY <1>4, <2>1, DistSame DEF AllTyped, Typed, MapsInv
<1> DEFINE c == AfterLoad(read)
<1>6. CallOK(DOMAIN values', c)
  BY <1>3, <1>4, AfterLoadIs
<1>7. call' = [call EXCEPT ![t] = c]
  BY <1>2
<1> HIDE DEF c
<1>8. /\ call' = [u \in Threads |-> call'[u]]
      /\ \A u \in Threads : CallOK(DOMAIN values', call'[u])
  BY <1>4, <1>6, <1>7, CallKeeps DEF AllTyped
<1>9. raced' \subseteq Keys
  <2>1. DOMAIN read \subseteq Keys
    BY <1>3 DEF AllTyped, Typed, MapsInv
  <2> QED
    BY <1>2, <2>1, RacedKeys DEF AllTyped, PublicTyped
<1> QED
  BY <1>2, <1>5, <1>8, <1>9 DEF AllTyped, PublicTyped

LEMMA FileTyped ==
    ASSUME AllTyped, UNCHANGED distVars, NEW t \in Threads,
           Public!LoadRead(t) \/ Public!SaveCopy(t) \/ Public!SaveWrite(t)
    PROVE  AllTyped'
<1>0. UNCHANGED <<values, store, observers, told, raced>>
  BY DEF Public!LoadRead, Public!SaveCopy, Public!SaveWrite
<1>1. CASE Public!LoadRead(t)
  <2> DEFINE c == [at |-> "load", kvs |-> Public!readKeyValueFile]
  <2>1. call' = [call EXCEPT ![t] = c] /\ UNCHANGED file
    BY <1>1 DEF Public!LoadRead
  <2>2. CallOK(DOMAIN values, c)
    BY DEF CallOK
  <2> HIDE DEF c
  <2> QED
    BY <1>0, <2>1, <2>2, CallTyped DEF AllTyped, PublicTyped
<1>2. CASE Public!SaveCopy(t)
  <2> DEFINE kvs == [k \in DOMAIN values |-> Public!toString(values[k])]
             c == [at |-> "save", kvs |-> kvs]
  <2>1. call' = [call EXCEPT ![t] = c] /\ UNCHANGED file
    BY <1>2 DEF Public!SaveCopy
  <2>2. DOMAIN kvs \subseteq Keys
    BY DEF AllTyped, Typed, MapsInv
  <2>3. CallOK(DOMAIN values, c)
    BY <2>2 DEF CallOK
  <2> HIDE DEF c
  <2> QED
    BY <1>0, <2>1, <2>3, CallTyped DEF AllTyped, PublicTyped
<1>3. CASE Public!SaveWrite(t)
  <2>1. /\ call[t].at = "save" /\ file' = call[t].kvs
        /\ call' = [call EXCEPT ![t] = Public!Idle]
    BY <1>3 DEF Public!SaveWrite
  <2>2. DOMAIN file' \subseteq Keys
    <3>1. PICK c : c = call[t]
      OBVIOUS
    <3>2. CallOK(DOMAIN values, c)
      BY <3>1 DEF AllTyped, PublicTyped
    <3> QED
      BY <2>1, <3>1, <3>2 DEF CallOK, Public!Idle
  <2>3. CallOK(DOMAIN values, Public!Idle)
    BY DEF CallOK
  <2> QED
    BY <1>0, <2>1, <2>2, <2>3, CallTyped DEF AllTyped, PublicTyped
<1> QED
  BY <1>1, <1>2, <1>3

LEMMA PublicNextTyped ==
    ASSUME AllTyped, UNCHANGED distVars, Public!Next
    PROVE  AllTyped'
<1>1. PICK t \in Threads :
          \/ \E k \in Keys : \/ Public!Declare(t, k)
                             \/ \E v \in Inputs : Public!Set(t, k, v)
                             \/ \E o \in Observers : Public!Subscribe(t, k, o)
          \/ Public!Tell(t) \/ Public!TellNext(t)
          \/ Public!LoadRead(t) \/ Public!LoadApply(t)
          \/ Public!SaveCopy(t) \/ Public!SaveWrite(t)
  BY DEF Public!Next
<1>2. ASSUME NEW k \in Keys, Public!Declare(t, k) PROVE AllTyped'
  <2>1. /\ Public!Put(t, k, Desc[k].default) /\ Fits(k, Desc[k].default)
    BY <1>2, SamePublic DEF Public!Declare, Fits
  <2> QED
    BY <2>1, PutTyped
<1>3. ASSUME NEW k \in Keys, NEW v, Public!Set(t, k, v) PROVE AllTyped'
  <2>1. Public!Put(t, k, v) /\ Fits(k, v)
    BY <1>3, SamePublic DEF Public!Set, Fits
  <2> QED
    BY <2>1, PutTyped
<1> QED
  BY <1>1, <1>2, <1>3, PublicSubscribeTyped, PublicTellTyped, TellNextTyped,
     LoadApplyTyped, FileTyped

LEMMA InitTyped == Init => AllTyped
<1> SUFFICES ASSUME Init PROVE AllTyped
  OBVIOUS
<1> USE DEF Init, Public!Init, Dist!Init
<1>1. FrameInv
  <2>1. frame = [t \in All |-> Dist!Idle]
    BY DEF All
  <2> QED
    BY <2>1, IdleFrame DEF FrameInv
<1>2. MapsInv
  <2>1. /\ DOMAIN << >> = {} /\ << >> = [k \in DOMAIN << >> |-> << >>[k]]
        /\ << >> \in Seq(Observers)
    BY EmptyCall
  <2>2. watchers \in [Keys -> Seq(Observers)]
    BY <2>1
  <2>3. heard = [o \in Observers |-> heard[o]]
    OBVIOUS
  <2> QED
    BY <2>1, <2>2, <2>3 DEF MapsInv
<1>3. MessagesInv
  <2>1. IsSeq(<< >>) /\ DOMAIN << >> = {} /\ \A S : << >> \in Seq(S)
    BY EmptyTodo
  <2> QED
    BY <2>1 DEF MessagesInv
<1>4. HandInv
  <2>1. \A t \in All : frame[t] = Dist!Idle
    BY DEF All
  <2>2. Dist!Idle.msg = 0 /\ Dist!Idle.at = "idle" /\ "worker" \in All
    BY DEF Dist!Idle, Dist!Frame, All, Dist!All
  <2> QED
    BY <2>1, <2>2 DEF HandInv
<1>5. PublicTyped
  <2>1. observers \in [Keys -> Seq(Observers)]
    BY EmptyCall
  <2>2. \A t \in Threads : CallOK(DOMAIN values, call[t])
    BY DEF CallOK
  <2> QED
    BY <2>1, <2>2 DEF PublicTyped
<1> QED
  BY <1>1, <1>2, <1>3, <1>4, <1>5 DEF AllTyped, Typed

LEMMA NextTyped == AllTyped /\ [Next]_vars => AllTyped'
<1> SUFFICES ASSUME AllTyped, [Next]_vars PROVE AllTyped'
  OBVIOUS
<1>1. ASSUME Dist!Next, UNCHANGED publicVars PROVE AllTyped'
  <2>1. UNCHANGED <<values, observers, file, call, told, raced>>
    BY <1>1 DEF publicVars
  <2>2. Typed'
    BY <1>1, <2>1, DistTyped DEF AllTyped
  <2>3. PublicTyped'
    BY <2>1 DEF AllTyped, PublicTyped
  <2> QED
    BY <2>2, <2>3 DEF AllTyped
<1>2. ASSUME UNCHANGED vars PROVE AllTyped'
  <2>1. UNCHANGED distVars /\ UNCHANGED publicVars /\ UNCHANGED store
    BY <1>2 DEF vars
  <2>2. UNCHANGED <<values, observers, file, call, told, raced>>
    BY <2>1 DEF publicVars
  <2>3. Typed'
    BY <2>1, <2>2, DistSame DEF AllTyped, Typed, MapsInv
  <2>4. PublicTyped'
    BY <2>2 DEF AllTyped, PublicTyped
  <2> QED
    BY <2>3, <2>4 DEF AllTyped
<1> QED
  BY <1>1, <1>2, PublicNextTyped DEF Next

-----------------------------------------------------------------------------
(* The observers of the public server. *)

\* What a thread that is telling of k still owes, and what its observers know.
Owes(k, c, vs, os, log) ==
    IF k \in DOMAIN c.rest THEN c.rest[k] = vs[k]
    ELSE /\ c.value = vs[k]
         /\ \A i \in DOMAIN os[k] :
               \/ \E j \in DOMAIN c.tell : c.tell[j] = os[k][i]
               \/ k \in DOMAIN log[os[k][i]] /\ log[os[k][i]][k] = vs[k]

ToldKey(k, cs, vs, os, log) ==
    /\ (\A t \in Threads : k \notin Public!Pending(cs[t]))
          => Heard(os, log, k, vs[k])
    /\ \A t \in Threads : k \in Public!Pending(cs[t])
          => Owes(k, cs[t], vs, os, log)

RacedInv(cs, r) ==
    \A t, u \in Threads : t # u =>
        Public!Pending(cs[t]) \cap Public!Pending(cs[u]) \subseteq r

ToldInv == /\ RacedInv(call, raced)
           /\ \A k \in DOMAIN values : k \notin raced =>
                 ToldKey(k, call, values, observers, told)

LEMMA RacedKeeps ==
    ASSUME RacedInv(call, raced), NEW t \in Threads, NEW c, NEW ks,
           NEW w \in BOOLEAN, Public!Overlap(t, ks, w),
           call'[t] = c, \A u \in Threads : u # t => call'[u] = call[u],
           Public!Pending(c) \subseteq Public!Pending(call[t]) \cup ks
    PROVE  RacedInv(call', raced')
<1>1. \A k : k \in raced' <=>
          \/ k \in raced /\ ~(w /\ k \in ks)
          \/ k \in ks /\ \E u \in Threads \ {t} : k \in Public!Pending(call[u])
  BY DEF Public!Overlap, Public!Overlaps
<1>2. ASSUME NEW u \in Threads, u # t, NEW k \in Public!Pending(call'[t]),
             k \in Public!Pending(call'[u])
      PROVE  k \in raced'
  <2>1. k \in Public!Pending(call[u])
    BY <1>2
  <2>2. k \in Public!Pending(call[t]) \cup ks
    BY <1>2
  <2>3. CASE k \in ks
    BY <1>1, <1>2, <2>1, <2>3
  <2>4. CASE k \notin ks
    BY <1>1, <1>2, <2>1, <2>2, <2>4 DEF RacedInv
  <2> QED
    BY <2>3, <2>4
<1>3. ASSUME NEW u \in Threads, NEW v \in Threads, u # v, u # t, v # t,
             NEW k \in Public!Pending(call'[u]), k \in Public!Pending(call'[v])
      PROVE  k \in raced'
  <2>1. k \in Public!Pending(call[u]) /\ k \in Public!Pending(call[v])
    BY <1>3
  <2>2. k \in raced
    BY <1>3, <2>1 DEF RacedInv
  <2> QED
    BY <1>1, <1>3, <2>1, <2>2
<1> QED
  BY <1>2, <1>3 DEF RacedInv

\* A key that a step has nothing to do with.
LEMMA OtherKey ==
    ASSUME AllTyped, NEW t \in Threads, NEW k \in DOMAIN values,
           \A u \in Threads : u # t => call'[u] = call[u],
           k \notin Public!Pending(call[t]), k \notin Public!Pending(call'[t]),
           values'[k] = values[k], observers'[k] = observers[k],
           \A o \in Observers : (k \in DOMAIN told[o] =>
               k \in DOMAIN told'[o] /\ told'[o][k] = told[o][k]),
           ToldKey(k, call, values, observers, told)
    PROVE  ToldKey(k, call', values', observers', told')
<1>1. \A i \in DOMAIN observers[k] : observers[k][i] \in Observers
  BY DEF AllTyped, Typed, MapsInv, PublicTyped
<1>2. ASSUME \A u \in Threads : k \notin Public!Pending(call'[u])
      PROVE  Heard(observers', told', k, values'[k])
  <2>1. \A u \in Threads : k \notin Public!Pending(call[u])
    BY <1>2
  <2>2. Heard(observers, told, k, values[k])
    BY <2>1 DEF ToldKey
  <2> QED
    BY <1>1, <2>2 DEF Heard
<1>3. ASSUME NEW u \in Threads, k \in Public!Pending(call'[u])
      PROVE  Owes(k, call'[u], values', observers', told')
  <2>1. u # t /\ call'[u] = call[u]
    BY <1>3
  <2>2. Owes(k, call[u], values, observers, told)
    BY <1>3, <2>1 DEF ToldKey
  <2> QED
    BY <1>1, <2>1, <2>2 DEF Owes
<1> QED
  BY <1>2, <1>3 DEF ToldKey

\* A key that t alone is telling of, before the step or after it.
LEMMA OwnKey ==
    ASSUME NEW t \in Threads, NEW k,
           \A u \in Threads : u # t => k \notin Public!Pending(call'[u]),
           k \in Public!Pending(call'[t]) =>
               Owes(k, call'[t], values', observers', told'),
           k \notin Public!Pending(call'[t]) =>
               Heard(observers', told', k, values'[k])
    PROVE  ToldKey(k, call', values', observers', told')
  BY DEF ToldKey

LEMMA IdleOwes == Public!Pending(Public!Idle) = {}
  BY DEF Public!Pending, Public!Idle

LEMMA Alone1 ==
    ASSUME NEW t \in Threads, NEW ks, NEW w \in BOOLEAN,
           Public!Overlap(t, ks, w),
           NEW k \in ks, k \notin raced',
           \A u \in Threads : u # t => call'[u] = call[u]
    PROVE  /\ \A u \in Threads : u # t => k \notin Public!Pending(call'[u])
           /\ ~w => k \notin raced
  BY DEF Public!Overlap, Public!Overlaps

LEMMA TellingTo ==
    ASSUME NEW D, NEW k \in D, NEW v, NEW os \in Seq(Observers),
           NEW c, c = Public!Telling(k, v, os, << >>)
    PROVE  /\ os = << >> => Public!Pending(c) = {}
           /\ os # << >> => /\ Public!Pending(c) = {k} /\ c.value = v
                            /\ c.tell = os /\ c.rest = << >>
                            /\ DOMAIN c.rest = {}
<1>1. DOMAIN << >> = {}
  OBVIOUS
<1>2. CASE os = << >>
  <2>1. c = Public!Idle
    BY <1>2 DEF Public!Telling
  <2> QED
    BY <1>2, <2>1, IdleOwes
<1>3. CASE os # << >>
  <2>1. /\ c.at = "tell" /\ c.key = k /\ c.value = v /\ c.tell = os
        /\ c.rest = << >>
    BY <1>3 DEF Public!Telling
  <2>2. Public!Pending(c) = {k}
    BY <1>1, <2>1 DEF Public!Pending
  <2> QED
    BY <1>1, <1>3, <2>1, <2>2
<1> QED
  BY <1>2, <1>3

LEMMA PutTold ==
    ASSUME AllTyped, AllTyped', ToldInv, NEW t \in Threads, NEW k \in Keys,
           NEW v, call[t] = Public!Idle, Public!Put(t, k, v)
    PROVE  ToldInv'
<1>1. PICK os : os = observers[k]
  OBVIOUS
<1> DEFINE c == Public!Telling(k, v, os, << >>)
<1>2. /\ values' = Public!With(values, k, v)
      /\ call' = [call EXCEPT ![t] = c]
      /\ UNCHANGED <<observers, told>>
      /\ Public!Overlap(t, {k}, TRUE)
  BY <1>1 DEF Public!Put
<1>3. /\ DOMAIN values' = DOMAIN values \cup {k} /\ values'[k] = v
      /\ \A j \in DOMAIN values : j # k => values'[j] = values[j]
  BY <1>2 DEF Public!With
<1>4. os \in Seq(Observers)
  BY <1>1 DEF AllTyped, PublicTyped
<1>c. c = Public!Telling(k, v, os, << >>)
  OBVIOUS
<1> HIDE DEF c
<1>5. /\ os = << >> => Public!Pending(c) = {}
      /\ os # << >> => /\ Public!Pending(c) = {k} /\ c.value = v
                       /\ c.tell = os /\ c.rest = << >>
  <2>1. PICK D : D = DOMAIN values'
    OBVIOUS
  <2>2. k \in D
    BY <1>3, <2>1
  <2> QED
    BY <1>c, <1>4, <2>2, TellingTo
<1>6. call'[t] = c /\ \A u \in Threads : u # t => call'[u] = call[u]
  BY <1>2 DEF AllTyped, PublicTyped
<1>7. Public!Pending(call[t]) = {} /\ Public!Pending(c) \subseteq {k}
  BY <1>5, IdleOwes
<1>8. RacedInv(call', raced')
  BY <1>2, <1>6, <1>7, RacedKeeps DEF ToldInv
<1>9. ASSUME NEW j \in DOMAIN values', j \notin raced', j # k
      PROVE  ToldKey(j, call', values', observers', told')
  <2>1. j \in DOMAIN values /\ j \notin raced
    BY <1>2, <1>3, <1>9 DEF Public!Overlap
  <2>2. ToldKey(j, call, values, observers, told)
    BY <2>1 DEF ToldInv
  <2> QED
    BY <1>2, <1>3, <1>6, <1>7, <1>9, <2>1, <2>2, OtherKey
<1>10. ASSUME k \notin raced'
       PROVE  ToldKey(k, call', values', observers', told')
  <2>1. \A u \in Threads : u # t => k \notin Public!Pending(call'[u])
    BY <1>2, <1>6, <1>10, Alone1
  <2>2. k \in Public!Pending(c) => Owes(k, c, values', observers', told')
    BY <1>1, <1>2, <1>3, <1>5, EmptyCall DEF Owes
  <2>3. k \notin Public!Pending(c) => Heard(observers', told', k, values'[k])
    BY <1>1, <1>2, <1>5, EmptyCall DEF Heard
  <2> QED
    BY <1>6, <2>1, <2>2, <2>3, OwnKey
<1> QED
  BY <1>8, <1>9, <1>10 DEF ToldInv

LEMMA SubscribeTold ==
    ASSUME AllTyped, AllTyped', ToldInv, NEW t \in Threads, NEW k \in Keys,
           NEW o \in Observers, Public!Subscribe(t, k, o)
    PROVE  ToldInv'
<1>1. PICK c : c = IF k \in DOMAIN values
                   THEN Public!Telling(k, values[k], <<o>>, << >>)
                   ELSE Public!Idle
  OBVIOUS
<1>2. /\ call[t] = Public!Idle /\ call' = [call EXCEPT ![t] = c]
      /\ observers' = [observers EXCEPT ![k] = Append(@, o)]
      /\ UNCHANGED <<values, told>>
      /\ Public!Overlap(t, {k}, FALSE)
  BY <1>1, Zenon DEF Public!Subscribe, Public!Calls
<1>3. /\ k \in DOMAIN values => /\ Public!Pending(c) = {k}
                                /\ c.value = values[k] /\ c.tell = <<o>>
                                /\ c.rest = << >>
      /\ k \notin DOMAIN values => Public!Pending(c) = {}
  <2> DEFINE os == <<o>>
  <2>1. os \in Seq(Observers) /\ os # << >>
    OBVIOUS
  <2>2. k \in DOMAIN values => c = Public!Telling(k, values[k], os, << >>)
    BY <1>1
  <2> HIDE DEF os
  <2>3. k \in DOMAIN values => /\ Public!Pending(c) = {k}
                               /\ c.value = values[k] /\ c.tell = os
                               /\ c.rest = << >>
    BY <2>1, <2>2, TellingTo
  <2> QED
    BY <1>1, <2>3, IdleOwes DEF os
<1>4. call'[t] = c /\ \A u \in Threads : u # t => call'[u] = call[u]
  BY <1>2 DEF AllTyped, PublicTyped
<1>5. Public!Pending(call[t]) = {} /\ Public!Pending(c) \subseteq {k}
  BY <1>2, <1>3, IdleOwes
<1>6. RacedInv(call', raced')
  BY <1>2, <1>4, <1>5, RacedKeeps DEF ToldInv
<1>7. \A j \in Keys : j # k => observers'[j] = observers[j]
  BY <1>2 DEF AllTyped, PublicTyped
<1>8. ASSUME NEW j \in DOMAIN values', j \notin raced', j # k
      PROVE  ToldKey(j, call', values', observers', told')
  <2>1. j \in DOMAIN values /\ j \notin raced /\ j \in Keys
    BY <1>2, <1>8 DEF Public!Overlap, AllTyped, Typed, MapsInv
  <2>2. ToldKey(j, call, values, observers, told)
    BY <2>1 DEF ToldInv
  <2> QED
    BY <1>2, <1>4, <1>5, <1>7, <1>8, <2>1, <2>2, OtherKey
<1>9. ASSUME k \notin raced', k \in DOMAIN values'
      PROVE  ToldKey(k, call', values', observers', told')
  <2>1. /\ \A u \in Threads : u # t => k \notin Public!Pending(call'[u])
        /\ k \notin raced
    BY <1>2, <1>4, <1>9, Alone1
  <2>2. \A u \in Threads : k \notin Public!Pending(call[u])
    BY <1>4, <1>5, <2>1
  <2>3. k \in DOMAIN values
    BY <1>2, <1>9
  <2>4. Heard(observers, told, k, values[k])
    BY <2>1, <2>2, <2>3 DEF ToldInv, ToldKey
  <2>5. PICK os : os = observers[k]
    OBVIOUS
  <2>6. os \in Seq(Observers)
    BY <2>5 DEF AllTyped, PublicTyped
  <2>7. observers'[k] = Append(os, o)
    BY <1>2, <2>5 DEF AllTyped, PublicTyped
  <2>8. \A i \in DOMAIN observers'[k] :
            \/ observers'[k][i] = o
            \/ i \in DOMAIN os /\ observers'[k][i] = os[i]
    <3> DEFINE q == Append(os, o)
    <3>1. /\ DOMAIN q = 1..(Len(os) + 1) /\ DOMAIN os = 1..Len(os)
          /\ Len(os) \in Nat
          /\ \A i \in 1..Len(os) : q[i] = os[i]
          /\ q[Len(os) + 1] = o
      BY <2>6, AppendProperties
    <3> HIDE DEF q
    <3>2. ASSUME NEW i \in DOMAIN q
          PROVE  q[i] = o \/ (i \in DOMAIN os /\ q[i] = os[i])
      <4>1. i = Len(os) + 1 \/ i \in 1..Len(os)
        BY <3>1, <3>2
      <4>2. CASE i = Len(os) + 1
        BY <3>1, <4>2, Zenon
      <4>3. CASE i \in 1..Len(os)
        BY <3>1, <4>3, Zenon
      <4> QED
        BY <4>1, <4>2, <4>3
    <3>3. observers'[k] = q
      BY <2>7 DEF q
    <3> QED
      BY <3>2, <3>3
  <2>9. Owes(k, c, values', observers', told')
    <3>1. DOMAIN c.rest = {} /\ c.value = values'[k] /\ c.tell[1] = o
          /\ 1 \in DOMAIN c.tell
      BY <1>2, <1>3, <2>3
    <3>2. \A i \in DOMAIN os : k \in DOMAIN told[os[i]]
                                /\ told[os[i]][k] = values[k]
      BY <2>4, <2>5 DEF Heard
    <3> QED
      BY <1>2, <2>8, <3>1, <3>2 DEF Owes
  <2> QED
    BY <1>3, <1>4, <2>1, <2>3, <2>9, OwnKey
<1> QED
  BY <1>6, <1>8, <1>9 DEF ToldInv

\* What thread t carries while it tells.
LEMMA TellingHas ==
    ASSUME AllTyped, NEW t \in Threads, NEW c, c = call[t], c.at = "tell"
    PROVE  /\ c.tell \in Seq(Observers) /\ c.key \in DOMAIN values
           /\ DOMAIN c.rest \subseteq DOMAIN values
           /\ c.rest = [k \in DOMAIN c.rest |-> c.rest[k]]
           /\ Public!Pending(c) = {c.key} \cup DOMAIN c.rest
<1>1. CallOK(DOMAIN values, c)
  BY DEF AllTyped, PublicTyped
<1> QED
  BY <1>1 DEF CallOK, Public!Idle, Public!Pending

IsMap(f) == f = [k \in DOMAIN f |-> f[k]]

\* Where it goes from there, with rest: in full, or back.
LEMMA TellingOn ==
    ASSUME NEW k, NEW v, NEW os, NEW rest, IsMap(rest), NEW d,
           d = Public!Telling(k, v, os, rest)
    PROVE  \/ /\ os = << >> /\ DOMAIN rest = {} /\ Public!Pending(d) = {}
           \/ /\ Public!Pending(d) = {k} \cup DOMAIN rest
              /\ d.key = k /\ d.value = v /\ d.tell = os /\ d.rest = rest
<1>1. CASE os = << >> /\ rest = << >>
  <2>1. d = Public!Idle /\ DOMAIN rest = {}
    BY <1>1, NoEntry DEF Public!Telling, IsMap
  <2> QED
    BY <1>1, <2>1, IdleOwes
<1>2. CASE os # << >> \/ rest # << >>
  <2>1. /\ d.at = "tell" /\ d.key = k /\ d.value = v /\ d.tell = os
        /\ d.rest = rest
    BY <1>2 DEF Public!Telling
  <2> QED
    BY <2>1 DEF Public!Pending
<1> QED
  BY <1>1, <1>2

LEMMA NoOverlap ==
    ASSUME NEW t, UNCHANGED raced
    PROVE  Public!Overlap(t, {}, FALSE)
  BY DEF Public!Overlap

\* A key that t is telling of, and that is not raced, is nobody else's.
LEMMA NobodyElse ==
    ASSUME RacedInv(call, raced), NEW t \in Threads, NEW k,
           k \in Public!Pending(call[t]), k \notin raced,
           \A u \in Threads : u # t => call'[u] = call[u]
    PROVE  \A u \in Threads : u # t => k \notin Public!Pending(call'[u])
  BY DEF RacedInv

LEMMA TellTold ==
    ASSUME AllTyped, AllTyped', ToldInv, NEW t \in Threads, Public!Tell(t)
    PROVE  ToldInv'
<1>1. PICK c : c = call[t]
  OBVIOUS
<1>2. PICK os : os = Tail(c.tell)
  OBVIOUS
<1>3. PICK d : d = Public!Telling(c.key, c.value, os, c.rest)
  OBVIOUS
<1>4. PICK o : o = Head(c.tell)
  OBVIOUS
<1>5. /\ c.at = "tell" /\ c.tell # << >>
      /\ told' = [told EXCEPT ![o] = Public!With(@, c.key, c.value)]
      /\ call' = [call EXCEPT ![t] = d]
      /\ UNCHANGED <<values, observers, raced>>
  BY <1>1, <1>2, <1>3, <1>4 DEF Public!Tell
<1>6. /\ c.tell \in Seq(Observers) /\ c.key \in DOMAIN values
      /\ DOMAIN c.rest \subseteq DOMAIN values
      /\ c.rest = [k \in DOMAIN c.rest |-> c.rest[k]]
      /\ Public!Pending(c) = {c.key} \cup DOMAIN c.rest
  BY <1>1, <1>5, TellingHas
<1>7. /\ os \in Seq(Observers) /\ o \in Observers
      /\ \A i \in DOMAIN c.tell : c.tell[i] = o
            \/ \E j \in DOMAIN os : os[j] = c.tell[i]
  <2>1. /\ os \in Seq(Observers) /\ Len(os) = Len(c.tell) - 1
        /\ \A i \in 1..Len(os) : os[i] = c.tell[i + 1]
        /\ o = c.tell[1] /\ 1 \in DOMAIN c.tell /\ DOMAIN os = 1..Len(os)
        /\ DOMAIN c.tell = 1..Len(c.tell) /\ Len(c.tell) \in Nat
    BY <1>2, <1>4, <1>5, <1>6, HeadTailProperties
  <2>2. o \in Observers
    BY <1>6, <2>1
  <2>3. ASSUME NEW i \in DOMAIN c.tell, i # 1
        PROVE  \E j \in DOMAIN os : os[j] = c.tell[i]
    <3>1. i - 1 \in DOMAIN os /\ (i - 1) + 1 = i
      BY <2>1, <2>3
    <3>2. os[i - 1] = c.tell[(i - 1) + 1]
      BY <2>1, <3>1
    <3> QED
      BY <3>1, <3>2
  <2> QED
    BY <2>1, <2>2, <2>3
<1>8. \/ /\ os = << >> /\ DOMAIN c.rest = {} /\ Public!Pending(d) = {}
      \/ /\ Public!Pending(d) = {c.key} \cup DOMAIN c.rest
         /\ d.key = c.key /\ d.value = c.value /\ d.tell = os
         /\ d.rest = c.rest
  <2>1. IsMap(c.rest)
    BY <1>6 DEF IsMap
  <2> QED
    BY <1>3, <1>6, <1>7, <2>1, TellingOn
<1>9. call'[t] = d /\ \A u \in Threads : u # t => call'[u] = call[u]
  BY <1>5 DEF AllTyped, PublicTyped
<1>10. RacedInv(call', raced')
  <2>1. Public!Overlap(t, {}, FALSE)
    BY <1>5, NoOverlap
  <2>2. Public!Pending(d) \subseteq Public!Pending(call[t]) \cup {}
    BY <1>1, <1>6, <1>8
  <2> QED
    BY <1>9, <2>1, <2>2, RacedKeeps DEF ToldInv
<1>11. \A p \in Observers :
          /\ p # o => told'[p] = told[p]
          /\ told'[o] = Public!With(told[o], c.key, c.value)
  BY <1>5, <1>7 DEF AllTyped, PublicTyped
<1>12. /\ \A p \in Observers : \A k \in DOMAIN told[p] :
              k \in DOMAIN told'[p]
              /\ (k # c.key \/ p # o => told'[p][k] = told[p][k])
       /\ c.key \in DOMAIN told'[o] /\ told'[o][c.key] = c.value
  <2>1. /\ DOMAIN told'[o] = DOMAIN told[o] \cup {c.key}
        /\ told'[o][c.key] = c.value
        /\ \A k \in DOMAIN told[o] : k # c.key => told'[o][k] = told[o][k]
    BY <1>7, <1>11 DEF Public!With
  <2> QED
    BY <1>11, <2>1
<1>13. ASSUME NEW k \in DOMAIN values', k \notin raced'
       PROVE  ToldKey(k, call', values', observers', told')
  <2>1. /\ k \in DOMAIN values /\ ToldKey(k, call, values, observers, told)
        /\ k \notin raced
    BY <1>5, <1>13 DEF ToldInv
  <2>2. CASE k \notin Public!Pending(c)
    <3>1. k \notin Public!Pending(call[t]) /\ k \notin Public!Pending(call'[t])
      BY <1>1, <1>6, <1>8, <1>9, <2>2
    <3>2. k # c.key
      BY <1>6, <2>2
    <3>3. \A p \in Observers : (k \in DOMAIN told[p] =>
              k \in DOMAIN told'[p] /\ told'[p][k] = told[p][k])
      BY <1>12, <3>2
    <3> QED
      BY <1>5, <1>9, <2>1, <3>1, <3>3, OtherKey
  <2>3. CASE k \in Public!Pending(c)
    <3>1. \A u \in Threads : u # t => k \notin Public!Pending(call'[u])
      BY <1>1, <1>9, <2>1, <2>3, NobodyElse DEF ToldInv
    <3>2. Owes(k, c, values, observers, told)
      BY <1>1, <2>1, <2>3 DEF ToldKey
    <3>3. CASE k \in DOMAIN c.rest
      <4>1. Owes(k, d, values', observers', told')
        BY <1>5, <1>8, <3>2, <3>3 DEF Owes
      <4> QED
        BY <1>8, <1>9, <3>1, <3>3, <4>1, OwnKey
    <3>4. CASE k \notin DOMAIN c.rest
      <4>1. k = c.key /\ c.value = values[k]
        BY <1>6, <2>3, <3>2, <3>4 DEF Owes
      <4>2. \A i \in DOMAIN observers[k] : observers[k][i] \in Observers
        BY <2>1 DEF AllTyped, Typed, MapsInv, PublicTyped
      <4>3. ASSUME NEW i \in DOMAIN observers[k]
            PROVE  \/ \E j \in DOMAIN os : os[j] = observers[k][i]
                   \/ /\ k \in DOMAIN told'[observers[k][i]]
                      /\ told'[observers[k][i]][k] = values[k]
        <5>1. \/ \E j \in DOMAIN c.tell : c.tell[j] = observers[k][i]
              \/ /\ k \in DOMAIN told[observers[k][i]]
                 /\ told[observers[k][i]][k] = values[k]
          BY <3>2, <3>4 DEF Owes
        <5>2. CASE observers[k][i] = o
          BY <1>12, <4>1, <5>2
        <5>3. CASE observers[k][i] # o
          BY <1>7, <1>12, <4>2, <5>1, <5>3
        <5> QED
          BY <5>2, <5>3
      <4>4. k \in Public!Pending(d) => Owes(k, d, values', observers', told')
        BY <1>5, <1>8, <3>4, <4>1, <4>3 DEF Owes
      <4>5. k \notin Public!Pending(d)
                => Heard(observers', told', k, values'[k])
        <5> SUFFICES ASSUME k \notin Public!Pending(d)
                     PROVE  Heard(observers', told', k, values'[k])
          OBVIOUS
        <5>1. DOMAIN os = {}
          BY <1>8, <4>1
        <5> QED
          BY <1>5, <4>3, <5>1 DEF Heard
      <4> QED
        BY <1>9, <3>1, <4>4, <4>5, OwnKey
    <3> QED
      BY <3>3, <3>4
  <2> QED
    BY <2>2, <2>3
<1> QED
  BY <1>10, <1>13 DEF ToldInv

LEMMA TellNextTold ==
    ASSUME AllTyped, AllTyped', ToldInv, NEW t \in Threads, Public!TellNext(t)
    PROVE  ToldInv'
<1>1. PICK c : c = call[t]
  OBVIOUS
<1>2. PICK n \in DOMAIN c.rest :
          call' = [call EXCEPT ![t] = Public!Telling(n, c.rest[n], observers[n],
                      [j \in DOMAIN c.rest \ {n} |-> c.rest[j]])]
  BY <1>1 DEF Public!TellNext
<1>3. PICK rest : rest = [j \in DOMAIN c.rest \ {n} |-> c.rest[j]]
  OBVIOUS
<1>4. PICK os : os = observers[n]
  OBVIOUS
<1>5. PICK d : d = Public!Telling(n, c.rest[n], os, rest)
  OBVIOUS
<1>6. /\ c.at = "tell" /\ c.tell = << >>
      /\ call' = [call EXCEPT ![t] = d]
      /\ UNCHANGED <<values, observers, told, raced>>
  BY <1>1, <1>2, <1>3, <1>4, <1>5 DEF Public!TellNext
<1>7. /\ DOMAIN c.rest \subseteq DOMAIN values /\ c.key \in DOMAIN values
      /\ Public!Pending(c) = {c.key} \cup DOMAIN c.rest
  BY <1>1, <1>6, TellingHas
<1>8. /\ rest = [j \in DOMAIN rest |-> rest[j]]
      /\ DOMAIN rest = DOMAIN c.rest \ {n}
      /\ \A j \in DOMAIN rest : rest[j] = c.rest[j]
  BY <1>3
<1>9. os \in Seq(Observers)
  BY <1>4, <1>7 DEF AllTyped, Typed, MapsInv, PublicTyped
<1>10. \/ /\ os = << >> /\ DOMAIN rest = {} /\ Public!Pending(d) = {}
       \/ /\ Public!Pending(d) = DOMAIN c.rest
          /\ d.value = c.rest[n] /\ d.tell = os /\ d.rest = rest
  <2>1. \/ /\ os = << >> /\ DOMAIN rest = {} /\ Public!Pending(d) = {}
        \/ /\ Public!Pending(d) = {n} \cup DOMAIN rest
           /\ d.key = n /\ d.value = c.rest[n] /\ d.tell = os /\ d.rest = rest
    <3>1. IsMap(rest) /\ n \in DOMAIN values
      BY <1>7, <1>8 DEF IsMap
    <3>2. PICK v : v = c.rest[n]
      OBVIOUS
    <3>3. d = Public!Telling(n, v, os, rest)
      BY <1>5, <3>2
    <3>4. \/ /\ os = << >> /\ DOMAIN rest = {} /\ Public!Pending(d) = {}
          \/ /\ Public!Pending(d) = {n} \cup DOMAIN rest
             /\ d.key = n /\ d.value = v /\ d.tell = os /\ d.rest = rest
      BY <1>9, <3>1, <3>3, TellingOn
    <3> QED
      BY <3>2, <3>4
  <2> QED
    BY <1>8, <2>1
<1>11. call'[t] = d /\ \A u \in Threads : u # t => call'[u] = call[u]
  BY <1>6 DEF AllTyped, PublicTyped
<1>12. RacedInv(call', raced')
  <2>1. Public!Overlap(t, {}, FALSE)
    BY <1>6, NoOverlap
  <2>2. Public!Pending(d) \subseteq Public!Pending(call[t]) \cup {}
    BY <1>1, <1>7, <1>10
  <2> QED
    BY <1>11, <2>1, <2>2, RacedKeeps DEF ToldInv
<1>13. ASSUME NEW k \in DOMAIN values', k \notin raced'
       PROVE  ToldKey(k, call', values', observers', told')
  <2>1. /\ k \in DOMAIN values /\ ToldKey(k, call, values, observers, told)
        /\ k \notin raced
    BY <1>6, <1>13 DEF ToldInv
  <2>2. CASE k \notin Public!Pending(c)
    <3>1. k \notin Public!Pending(call[t]) /\ k \notin Public!Pending(call'[t])
      BY <1>1, <1>7, <1>10, <1>11, <2>2
    <3> QED
      BY <1>6, <1>11, <2>1, <3>1, OtherKey
  <2>3. CASE k \in Public!Pending(c)
    <3>1. \A u \in Threads : u # t => k \notin Public!Pending(call'[u])
      BY <1>1, <1>11, <2>1, <2>3, NobodyElse DEF ToldInv
    <3>2. Owes(k, c, values, observers, told)
      BY <1>1, <2>1, <2>3 DEF ToldKey
    <3>3. CASE k \in DOMAIN c.rest
      <4>1. c.rest[k] = values[k]
        BY <3>2, <3>3 DEF Owes
      <4>2. k \in Public!Pending(d) => Owes(k, d, values', observers', told')
        <5> SUFFICES ASSUME k \in Public!Pending(d)
                     PROVE  Owes(k, d, values', observers', told')
          OBVIOUS
        <5>1. d.value = c.rest[n] /\ d.tell = os /\ d.rest = rest
          BY <1>10
        <5>2. CASE k = n
          BY <1>4, <1>6, <1>8, <4>1, <5>1, <5>2 DEF Owes
        <5>3. CASE k # n
          BY <1>6, <1>8, <3>3, <4>1, <5>1, <5>3 DEF Owes
        <5> QED
          BY <5>2, <5>3
      <4>3. k \notin Public!Pending(d)
                => Heard(observers', told', k, values'[k])
        <5> SUFFICES ASSUME k \notin Public!Pending(d)
                     PROVE  Heard(observers', told', k, values'[k])
          OBVIOUS
        <5>1. os = << >> /\ k = n
          BY <1>8, <1>10, <3>3
        <5>2. DOMAIN os = {}
          BY <5>1
        <5> QED
          BY <1>4, <1>6, <5>1, <5>2 DEF Heard
      <4> QED
        BY <1>11, <3>1, <4>2, <4>3, OwnKey
    <3>4. CASE k \notin DOMAIN c.rest
      <4>1. k \notin Public!Pending(d)
        BY <1>10, <3>4
      <4>2. DOMAIN c.tell = {}
        BY <1>6
      <4>3. Heard(observers', told', k, values'[k])
        BY <1>6, <3>2, <3>4, <4>2 DEF Owes, Heard
      <4> QED
        BY <1>11, <3>1, <4>1, <4>3, OwnKey
    <3> QED
      BY <3>3, <3>4
  <2> QED
    BY <2>2, <2>3
<1> QED
  BY <1>12, <1>13 DEF ToldInv

LEMMA LoadApplyTold ==
    ASSUME AllTyped, AllTyped', ToldInv, NEW t \in Threads, Public!LoadApply(t)
    PROVE  ToldInv'
<1>1. PICK read : read = Taken(call[t].kvs)
  OBVIOUS
<1>2. PICK d : d = AfterLoad(read)
  OBVIOUS
<1>3. /\ call[t].at = "load"
      /\ values' = [k \in DOMAIN values |->
                        IF k \in DOMAIN read THEN read[k] ELSE values[k]]
      /\ call' = [call EXCEPT ![t] = d]
      /\ Public!Overlap(t, DOMAIN read, TRUE)
      /\ UNCHANGED <<observers, told>>
  <2>1. Takes(t, read)
    BY <1>1, LoadApplyIs
  <2> QED
    BY <1>2, <2>1 DEF Takes
<1>4. /\ IsMap(read) /\ DOMAIN read \subseteq DOMAIN values
  BY <1>1, TakenIs DEF IsMap
<1>5. /\ Public!Pending(d) = DOMAIN read
      /\ DOMAIN read # {} => d.rest = read
  BY <1>2, <1>4, AfterLoadIs DEF IsMap
<1>6. call'[t] = d /\ \A u \in Threads : u # t => call'[u] = call[u]
  BY <1>3 DEF AllTyped, PublicTyped
<1>7. Public!Pending(call[t]) = {}
  BY <1>3 DEF Public!Pending
<1>8. RacedInv(call', raced')
  BY <1>3, <1>5, <1>6, <1>7, RacedKeeps DEF ToldInv
<1>9. ASSUME NEW k \in DOMAIN values', k \notin raced', k \notin DOMAIN read
      PROVE  ToldKey(k, call', values', observers', told')
  <2>1. k \in DOMAIN values /\ k \notin raced /\ values'[k] = values[k]
    BY <1>3, <1>9 DEF Public!Overlap
  <2>2. ToldKey(k, call, values, observers, told)
    BY <2>1 DEF ToldInv
  <2>3. k \notin Public!Pending(call'[t])
    BY <1>5, <1>6, <1>9
  <2> QED
    BY <1>3, <1>6, <1>7, <2>1, <2>2, <2>3, OtherKey
<1>10. ASSUME NEW k \in DOMAIN read, k \notin raced'
       PROVE  ToldKey(k, call', values', observers', told')
  <2>1. \A u \in Threads : u # t => k \notin Public!Pending(call'[u])
    BY <1>3, <1>6, <1>10, Alone1
  <2>2. values'[k] = read[k] /\ d.rest = read
    BY <1>3, <1>4, <1>5, <1>10
  <2>3. Owes(k, d, values', observers', told')
    BY <1>10, <2>2 DEF Owes
  <2>4. k \in Public!Pending(d)
    BY <1>5, <1>10
  <2> QED
    BY <1>6, <2>1, <2>3, <2>4, OwnKey
<1> QED
  BY <1>8, <1>9, <1>10 DEF ToldInv

\* A step of a thread that tells of nothing, before and after.
LEMMA FileTold ==
    ASSUME AllTyped, ToldInv, NEW t \in Threads,
           Public!LoadRead(t) \/ Public!SaveCopy(t) \/ Public!SaveWrite(t)
    PROVE  ToldInv'
<1>1. /\ UNCHANGED <<values, observers, told, raced>>
      /\ \E d : /\ call' = [call EXCEPT ![t] = d]
                /\ Public!Pending(d) = {}
  <2>1. CASE Public!LoadRead(t)
    <3> DEFINE d == [at |-> "load", kvs |-> Public!readKeyValueFile]
    <3>1. call' = [call EXCEPT ![t] = d]
      BY <2>1 DEF Public!LoadRead
    <3>2. Public!Pending(d) = {}
      BY DEF Public!Pending
    <3> QED
      BY <2>1, <3>1, <3>2 DEF Public!LoadRead
  <2>2. CASE Public!SaveCopy(t)
    <3> DEFINE d == [at |-> "save",
                     kvs |-> [k \in DOMAIN values |->
                                  Public!toString(values[k])]]
    <3>1. call' = [call EXCEPT ![t] = d]
      BY <2>2 DEF Public!SaveCopy
    <3>2. Public!Pending(d) = {}
      BY DEF Public!Pending
    <3> HIDE DEF d
    <3> QED
      BY <2>2, <3>1, <3>2 DEF Public!SaveCopy
  <2>3. CASE Public!SaveWrite(t)
    BY <2>3, IdleOwes DEF Public!SaveWrite
  <2> QED
    BY <2>1, <2>2, <2>3
<1>2. PICK d : call' = [call EXCEPT ![t] = d] /\ Public!Pending(d) = {}
  BY <1>1
<1>3. call'[t] = d /\ \A u \in Threads : u # t => call'[u] = call[u]
  BY <1>2 DEF AllTyped, PublicTyped
<1>4. Public!Pending(call[t]) = {}
  <2>1. \/ call[t] = Public!Idle
        \/ call[t].at = "save"
    BY DEF Public!LoadRead, Public!SaveCopy, Public!SaveWrite, Public!Calls
  <2> QED
    BY <2>1, IdleOwes DEF Public!Pending
<1>5. RacedInv(call', raced')
  <2>1. Public!Overlap(t, {}, FALSE)
    BY <1>1, NoOverlap
  <2> QED
    BY <1>2, <1>3, <2>1, RacedKeeps DEF ToldInv
<1>6. ASSUME NEW k \in DOMAIN values', k \notin raced'
      PROVE  ToldKey(k, call', values', observers', told')
  <2>1. k \in DOMAIN values /\ ToldKey(k, call, values, observers, told)
    BY <1>1, <1>6 DEF ToldInv
  <2> QED
    BY <1>1, <1>2, <1>3, <1>4, <2>1, OtherKey
<1> QED
  BY <1>5, <1>6 DEF ToldInv

LEMMA PublicNextTold ==
    ASSUME AllTyped, AllTyped', ToldInv, Public!Next
    PROVE  ToldInv'
<1>1. PICK t \in Threads :
          \/ \E k \in Keys : \/ Public!Declare(t, k)
                             \/ \E v \in Inputs : Public!Set(t, k, v)
                             \/ \E o \in Observers : Public!Subscribe(t, k, o)
          \/ Public!Tell(t) \/ Public!TellNext(t)
          \/ Public!LoadRead(t) \/ Public!LoadApply(t)
          \/ Public!SaveCopy(t) \/ Public!SaveWrite(t)
  BY DEF Public!Next
<1>2. ASSUME NEW k \in Keys, Public!Declare(t, k) PROVE ToldInv'
  <2>1. Public!Put(t, k, Desc[k].default) /\ call[t] = Public!Idle
    BY <1>2 DEF Public!Declare, Public!Calls
  <2> QED
    BY <2>1, PutTold
<1>3. ASSUME NEW k \in Keys, NEW v, Public!Set(t, k, v) PROVE ToldInv'
  <2>1. Public!Put(t, k, v) /\ call[t] = Public!Idle
    BY <1>3 DEF Public!Set, Public!Calls
  <2> QED
    BY <2>1, PutTold
<1> QED
  BY <1>1, <1>2, <1>3, SubscribeTold, TellTold, TellNextTold, LoadApplyTold,
     FileTold

LEMMA NextTold == AllTyped /\ AllTyped' /\ ToldInv /\ [Next]_vars => ToldInv'
<1> SUFFICES ASSUME AllTyped, AllTyped', ToldInv, [Next]_vars PROVE ToldInv'
  OBVIOUS
<1>1. ASSUME UNCHANGED publicVars PROVE ToldInv'
  BY <1>1 DEF publicVars, ToldInv
<1>2. ASSUME UNCHANGED vars PROVE ToldInv'
  BY <1>1, <1>2 DEF vars
<1> QED
  BY <1>1, <1>2, PublicNextTold DEF Next

LEMMA InitTold == Init => ToldInv
  BY IdleOwes DEF Init, Public!Init, ToldInv, RacedInv

-----------------------------------------------------------------------------
(* The messages in the queues, and their answers. *)

OneEach(q) == \A i, j \in DOMAIN q : q[i] = q[j] => i = j

\* A message is in one place of one queue.
QueueInv ==
    /\ OneEach(set_queue) /\ OneEach(export_queue) /\ OneEach(batch)
    /\ Elements(set_queue) \cap Elements(export_queue) = {}
    /\ Elements(set_queue) \cap Elements(batch) = {}
    /\ Elements(export_queue) \cap Elements(batch) = {}

\* What the worker at c has in hand, and what it has let go of.
Handled(m, c) ==
    /\ m.kind \in {"set", "bulk"}
    /\ m.kind = "set" => /\ Len(c.todo) <= 1
                         /\ Len(m.out) = IF c.at = "persist" THEN 1 ELSE 0
    /\ m.kind = "bulk" => m.out = << >>
Served(m, gone) ==
    /\ Len(m.out) <= 1
    /\ m.kind = "reply" => m.out = << >>
    /\ m.kind \in {"set", "export"} /\ ~gone => Len(m.out) = 1

\* i is a message with the worker at c; waits, gone: it is in a queue, or lost.
Answered(m, i, c, waits, gone) ==
    /\ waits => m.out = << >> /\ i # c.msg
    /\ i = c.msg => Handled(m, c)
    /\ ~waits /\ i # c.msg => Served(m, gone)

AnswerInv ==
    \A i \in DOMAIN messages :
        Answered(messages[i], i, frame["worker"], i \in Waiting, i \in lost)

LEMMA WaitingIs ==
    Waiting = Elements(set_queue) \cup Elements(export_queue)
              \cup Elements(batch)
  BY DEF Waiting, Elements

LEMMA SameQueues ==
    ASSUME QueueInv, AnswerInv,
           UNCHANGED <<set_queue, export_queue, batch, lost>>,
           messages' = messages, frame'["worker"] = frame["worker"]
    PROVE  QueueInv' /\ AnswerInv'
<1>1. QueueInv'
  BY DEF QueueInv
<1>2. Waiting' = Waiting
  BY DEF Waiting
<1> QED
  BY <1>1, <1>2 DEF AnswerInv

\* The worker goes on with its message, or is done with it.
LEMMA WorkerGoesOn ==
    ASSUME Typed, QueueInv, AnswerInv,
           UNCHANGED <<set_queue, export_queue, batch, lost>>,
           NEW c, c = frame["worker"], c.msg # 0,
           NEW d, d = frame'["worker"],
           DOMAIN messages' = DOMAIN messages,
           \A j \in DOMAIN messages : j # c.msg => messages'[j] = messages[j],
           \/ d.msg = c.msg /\ Handled(messages'[c.msg], d)
           \/ d.msg = 0 /\ \A gone \in BOOLEAN : Served(messages'[c.msg], gone)
    PROVE  QueueInv' /\ AnswerInv'
<1>1. QueueInv'
  BY DEF QueueInv
<1>2. Waiting' = Waiting
  BY DEF Waiting
<1>3. c.msg \in DOMAIN messages
  BY DEF Typed, HandInv
<1>4. ASSUME NEW i \in DOMAIN messages
      PROVE  Answered(messages'[i], i, d, i \in Waiting, i \in lost)
  <2>1. Answered(messages[i], i, c, i \in Waiting, i \in lost)
    BY DEF AnswerInv
  <2>2. i # 0
    BY NumbersFromOne DEF Typed
  <2>3. CASE i = c.msg
    <3>1. i \notin Waiting
      BY <2>1, <2>3 DEF Answered
    <3>2. (i \in lost) \in BOOLEAN
      OBVIOUS
    <3> QED
      BY <2>2, <2>3, <3>1, <3>2 DEF Answered
  <2>4. CASE i # c.msg
    <3>1. messages'[i] = messages[i] /\ i # d.msg
      BY <2>2, <2>4
    <3> QED
      BY <2>1, <2>4, <3>1 DEF Answered
  <2> QED
    BY <2>3, <2>4
<1> QED
  BY <1>1, <1>2, <1>4 DEF AnswerInv

\* What is published for the message in hand.
LEMMA PublishedTo ==
    ASSUME Typed, NEW n \in DOMAIN messages \cup {0}, NEW s \in Answers,
           messages' = Dist!Published(n, s)
    PROVE  /\ DOMAIN messages' = DOMAIN messages
           /\ \A j \in DOMAIN messages :
                 /\ messages'[j].kind = messages[j].kind
                 /\ j # n => messages'[j] = messages[j]
                 /\ j = n => Len(messages'[j].out) = Len(messages[j].out) + 1
<1>1. PICK ms : ms = Dist!Published(n, s)
  OBVIOUS
<1>2. /\ DOMAIN ms = DOMAIN messages
      /\ \A i \in DOMAIN messages :
            /\ ms[i].kind = messages[i].kind
            /\ i # n => ms[i] = messages[i]
            /\ i = n => ms[i].out = Append(messages[i].out, s)
  BY <1>1, PublishedIs, NumbersFromOne DEF Typed
<1>3. \A j \in DOMAIN messages : messages[j].out \in Seq(Answers)
  BY DEF Typed, MessagesInv, MessageOK
<1>4. \A o \in Seq(Answers) : Len(Append(o, s)) = Len(o) + 1
  BY AppendProperties
<1> QED
  BY <1>1, <1>2, <1>3, <1>4

LEMMA WorkerHand ==
    ASSUME Typed, AnswerInv, NEW c, c = frame["worker"], c.at # "idle"
    PROVE  /\ c.msg \in DOMAIN messages /\ c.msg # 0
           /\ Handled(messages[c.msg], c) /\ FrameOK("worker", c)
           /\ c.then = << >> /\ "worker" \in All
           /\ Dist!Single(c) = IF messages[c.msg].kind = "set" THEN c.msg ELSE 0
<1>0. "worker" \in All /\ "worker" \notin Users
  BY ParamsAssumption DEF All, Dist!All
<1>1. c.msg # 0 /\ c.msg \in DOMAIN messages
  BY DEF Typed, HandInv
<1>2. Handled(messages[c.msg], c)
  BY <1>1 DEF AnswerInv, Answered
<1>3. FrameOK("worker", c) /\ c.then = << >>
  BY <1>0 DEF Typed, FrameInv, FrameOK
<1> QED
  BY <1>0, <1>1, <1>2, <1>3 DEF Dist!Single

LEMMA OnwardIs ==
    ASSUME NEW t, NEW c, FrameOK(t, c), NEW ok \in BOOLEAN
    PROVE  LET d == Dist!Onward(c, ok) IN
           /\ d.at = (IF Len(c.todo) > 1 THEN "apply" ELSE "persist")
           /\ d.todo = Tail(c.todo) /\ d.msg = c.msg /\ d.then = c.then
           /\ d.tell = c.tell /\ d.value = c.value
  BY FrameFields DEF Dist!Onward, Fields

\* The worker is done with one of the strings: a set has one, a bulk may more.
LEMMA WorkerOnward ==
    ASSUME Typed, QueueInv, AnswerInv, NEW c, c = frame["worker"],
           c.at \in {"apply", "tell"}, c.todo # << >>, NEW ok \in BOOLEAN,
           Dist!Goto("worker", Dist!Onward(c, ok)),
           NEW s \in Answers, messages' = Dist!Published(Dist!Single(c), s),
           UNCHANGED <<set_queue, export_queue, batch, lost>>
    PROVE  QueueInv' /\ AnswerInv'
<1>1. /\ c.msg \in DOMAIN messages /\ c.msg # 0
      /\ Handled(messages[c.msg], c) /\ FrameOK("worker", c)
      /\ Dist!Single(c) = IF messages[c.msg].kind = "set" THEN c.msg ELSE 0
      /\ "worker" \in All
  BY WorkerHand
<1>2. PICK d : d = Dist!Onward(c, ok)
  OBVIOUS
<1>3. /\ d.at = (IF Len(c.todo) > 1 THEN "apply" ELSE "persist")
      /\ d.todo = Tail(c.todo) /\ d.msg = c.msg
  BY <1>1, <1>2, OnwardIs
<1>4. frame'["worker"] = d
  BY <1>1, <1>2 DEF Typed, FrameInv, Dist!Goto
<1>5. /\ DOMAIN messages' = DOMAIN messages
      /\ \A j \in DOMAIN messages :
            /\ messages'[j].kind = messages[j].kind
            /\ j # Dist!Single(c) => messages'[j] = messages[j]
            /\ j = Dist!Single(c) =>
                  Len(messages'[j].out) = Len(messages[j].out) + 1
  BY <1>1, PublishedTo
<1>6. Handled(messages'[c.msg], d)
  <2>1. CASE messages[c.msg].kind = "set"
    <3>1. Len(c.todo) <= 1 /\ Len(messages[c.msg].out) = 0
      BY <1>1, <2>1 DEF Handled
    <3>2. Len(c.todo) = 1 /\ Len(Tail(c.todo)) = 0
      <4>1. IsSeq(c.todo) /\ InKeys(c.todo)
        BY <1>1 DEF FrameOK
      <4>2. /\ Len(c.todo) \in Nat \ {0} /\ Len(Tail(c.todo)) = Len(c.todo) - 1
        BY <4>1, TailOfTodo
      <4>3. PICK n, m : n = Len(c.todo) /\ m = Len(Tail(c.todo))
        OBVIOUS
      <4>5. n \in Nat /\ n # 0 /\ m = n - 1 /\ n <= 1
        BY <3>1, <4>2, <4>3, Zenon
      <4>4. n = 1 /\ m = 0
        BY <4>5
      <4> QED
        BY <4>3, <4>4
    <3>3. d.at = "persist" /\ Len(d.todo) = 0
      BY <1>3, <3>2
    <3>4. /\ messages'[c.msg].kind = "set"
          /\ Len(messages'[c.msg].out) = Len(messages[c.msg].out) + 1
      BY <1>1, <1>5, <2>1
    <3> QED
      BY <3>1, <3>3, <3>4 DEF Handled
  <2>2. CASE messages[c.msg].kind # "set"
    BY <1>1, <1>5, <2>2 DEF Handled
  <2> QED
    BY <2>1, <2>2
<1>7. \A j \in DOMAIN messages : j # c.msg => messages'[j] = messages[j]
  BY <1>1, <1>5, NumbersFromOne DEF Typed
<1> QED
  BY <1>1, <1>3, <1>4, <1>5, <1>6, <1>7, WorkerGoesOn

LEMMA RejectAnswered ==
    ASSUME Typed, QueueInv, AnswerInv, Dist!Reject("worker")
    PROVE  QueueInv' /\ AnswerInv'
<1>1. PICK c : c = frame["worker"]
  OBVIOUS
<1>2. /\ c.at = "apply" /\ messages' = Dist!Published(Dist!Single(c), "error")
      /\ Dist!Goto("worker", Dist!Onward(c, FALSE))
      /\ UNCHANGED <<set_queue, export_queue, batch, lost>>
  BY <1>1, Unchangeds DEF Dist!Reject
<1>3. c.todo # << >>
  BY <1>1, <1>2, WorkerHand DEF FrameOK, Before
<1> QED
  BY <1>1, <1>2, <1>3, WorkerOnward DEF Answers

LEMMA ToldAnswered ==
    ASSUME Typed, QueueInv, AnswerInv, Dist!Told("worker")
    PROVE  QueueInv' /\ AnswerInv'
<1>1. PICK c : c = frame["worker"]
  OBVIOUS
<1>2. c.at = "tell"
  BY <1>1 DEF Dist!Told
<1>3. c.todo # << >>
  BY <1>1, <1>2, WorkerHand DEF FrameOK
<1>4. /\ messages' = Dist!Published(Dist!Single(c), "ok")
      /\ Dist!Goto("worker", Dist!Onward(c, TRUE))
      /\ UNCHANGED <<set_queue, export_queue, batch, lost>>
  BY <1>1, <1>3, Unchangeds DEF Dist!Told
<1> QED
  BY <1>1, <1>2, <1>3, <1>4, WorkerOnward DEF Answers

\* Nothing is published while a string is on its way.
LEMMA MoveAnswered ==
    ASSUME Typed, QueueInv, AnswerInv,
           \/ Dist!Accept("worker") \/ Dist!StoreParam("worker")
           \/ Dist!SetStore("worker") \/ Dist!Notify("worker")
           \/ Dist!Tell("worker")
    PROVE  QueueInv' /\ AnswerInv'
<1>1. PICK c : c = frame["worker"]
  OBVIOUS
<1>2. c.at \in {"apply", "storing", "stored", "notify", "tell"}
  BY <1>1 DEF Dist!Accept, Dist!StoreParam, Dist!SetStore, Dist!Notify,
     Dist!Tell
<1>3. /\ c.msg \in DOMAIN messages /\ c.msg # 0 /\ "worker" \in All
      /\ Handled(messages[c.msg], c) /\ FrameOK("worker", c)
  BY <1>1, <1>2, WorkerHand
<1>4. /\ messages' = messages
      /\ UNCHANGED <<set_queue, export_queue, batch, lost>>
  BY Unchangeds DEF Dist!Accept, Dist!StoreParam, Dist!SetStore, Dist!Notify,
     Dist!Tell
<1>5. \E d : /\ frame'["worker"] = d /\ d.msg = c.msg /\ d.todo = c.todo
             /\ d.at # "persist"
  <2>0. /\ DOMAIN c = Fields /\ "worker" \in All
        /\ frame = [t \in All |-> frame[t]]
    BY <1>3, FrameFields DEF Typed, FrameInv
  <2>1. CASE Dist!Accept("worker")
    <3>1. frame' = [frame EXCEPT !["worker"] = [c EXCEPT !.at = "storing"]]
      BY <1>1, <2>1 DEF Dist!Accept, Dist!Goto
    <3> QED
      BY <2>0, <3>1 DEF Fields
  <2>2. CASE Dist!StoreParam("worker")
    <3>1. frame' = [frame EXCEPT !["worker"] = [c EXCEPT !.at = "stored"]]
      BY <1>1, <2>2 DEF Dist!StoreParam, Dist!Goto
    <3> QED
      BY <2>0, <3>1 DEF Fields
  <2>3. CASE Dist!SetStore("worker")
    <3>1. \E v : frame'["worker"] = [c EXCEPT !.at = "tell"]
                 \/ frame'["worker"] =
                        [c EXCEPT !.at = "notify", !.value = v]
      BY <1>1, <2>0, <2>3 DEF Dist!SetStore, Dist!Goto
    <3>2. PICK v : frame'["worker"] = [c EXCEPT !.at = "tell"]
                 \/ frame'["worker"] =
                        [c EXCEPT !.at = "notify", !.value = v]
      BY <3>1
    <3> QED
      BY <2>0, <3>2 DEF Fields
  <2>4. CASE Dist!Notify("worker")
    <3>1. PICK os : frame' = [frame EXCEPT !["worker"] =
                                  [c EXCEPT !.at = "tell", !.tell = os]]
      BY <1>1, <2>4 DEF Dist!Notify, Dist!Goto
    <3>2. PICK d : d = [c EXCEPT !.at = "tell", !.tell = os]
      OBVIOUS
    <3>3. d.at = "tell" /\ d.msg = c.msg /\ d.todo = c.todo
      BY <2>0, <3>2 DEF Fields
    <3> QED
      BY <2>0, <3>1, <3>2, <3>3
  <2>5. CASE Dist!Tell("worker")
    <3>1. c.at = "tell" /\ \E os : frame' = [frame EXCEPT !["worker"] =
                                                 [c EXCEPT !.tell = os]]
      BY <1>1, <2>5 DEF Dist!Tell, Dist!Goto
    <3>2. PICK os : frame' = [frame EXCEPT !["worker"] =
                                  [c EXCEPT !.tell = os]]
      BY <3>1
    <3> QED
      BY <2>0, <3>1, <3>2 DEF Fields
  <2> QED
    BY <2>1, <2>2, <2>3, <2>4, <2>5
<1>6. PICK d : /\ frame'["worker"] = d /\ d.msg = c.msg /\ d.todo = c.todo
               /\ d.at # "persist"
  BY <1>5
<1>7. Handled(messages'[c.msg], d)
  BY <1>2, <1>3, <1>4, <1>6 DEF Handled
<1> QED
  BY <1>1, <1>3, <1>4, <1>6, <1>7, WorkerGoesOn

LEMMA PersistAnswered ==
    ASSUME Typed, QueueInv, AnswerInv, Dist!Persist("worker")
    PROVE  QueueInv' /\ AnswerInv'
<1>1. PICK c : c = frame["worker"]
  OBVIOUS
<1>2. PICK n : n = IF c.applied /\ c.msg # 0 /\ Dist!Single(c) = 0
                   THEN c.msg ELSE 0
  OBVIOUS
<1>3. /\ c.at = "persist" /\ messages' = Dist!Published(n, "ok")
      /\ Dist!Goto("worker", Dist!Finish(c))
      /\ UNCHANGED <<set_queue, export_queue, batch, lost>>
  BY <1>1, <1>2, Unchangeds DEF Dist!Persist
<1>4. /\ c.msg \in DOMAIN messages /\ c.msg # 0 /\ "worker" \in All
      /\ Handled(messages[c.msg], c) /\ c.then = << >>
      /\ Dist!Single(c) = IF messages[c.msg].kind = "set" THEN c.msg ELSE 0
  BY <1>1, <1>3, WorkerHand
<1>5. frame'["worker"] = Dist!Idle /\ Dist!Idle.msg = 0
  BY <1>3, <1>4 DEF Dist!Finish, Typed, FrameInv, Dist!Goto, Dist!Idle,
     Dist!Frame
<1>6. n \in DOMAIN messages \cup {0}
  BY <1>2, <1>4
<1>7. /\ DOMAIN messages' = DOMAIN messages
      /\ \A j \in DOMAIN messages :
            /\ messages'[j].kind = messages[j].kind
            /\ j # n => messages'[j] = messages[j]
            /\ j = n => Len(messages'[j].out) = Len(messages[j].out) + 1
  BY <1>3, <1>6, PublishedTo DEF Answers
<1>8. Len(<< >>) = 0
  OBVIOUS
<1>9. ASSUME NEW gone \in BOOLEAN PROVE Served(messages'[c.msg], gone)
  <2>1. CASE messages[c.msg].kind = "set"
    <3>1. n # c.msg
      BY <1>2, <1>4, <2>1
    <3>2. messages'[c.msg] = messages[c.msg] /\ Len(messages[c.msg].out) = 1
      BY <1>3, <1>4, <1>7, <2>1, <3>1 DEF Handled
    <3> QED
      BY <2>1, <3>2 DEF Served
  <2>2. CASE messages[c.msg].kind = "bulk"
    <3>1. messages[c.msg].out = << >> /\ messages'[c.msg].kind = "bulk"
      <4>1. messages'[c.msg].kind = messages[c.msg].kind
        BY <1>4, <1>7
      <4> QED
        BY <1>4, <2>2, <4>1 DEF Handled
    <3>2. PICK a, b : /\ a = Len(messages[c.msg].out)
                      /\ b = Len(messages'[c.msg].out)
      OBVIOUS
    <3>3. a = 0 /\ (b = a \/ b = a + 1)
      <4>1. c.msg # n => messages'[c.msg] = messages[c.msg]
        BY <1>4, <1>7
      <4> QED
        BY <1>4, <1>7, <1>8, <3>1, <3>2, <4>1
    <3>4. b <= 1
      BY <3>3
    <3>5. Len(messages'[c.msg].out) <= 1
      BY <3>2, <3>4
    <3>6. messages'[c.msg].kind \notin {"set", "export", "reply"}
      BY <3>1
    <3> QED
      BY <3>5, <3>6, Zenon DEF Served
  <2> QED
    BY <1>4, <2>1, <2>2 DEF Handled
<1>10. \A j \in DOMAIN messages : j # c.msg => messages'[j] = messages[j]
  BY <1>2, <1>7, NumbersFromOne DEF Typed
<1> QED
  BY <1>1, <1>3, <1>4, <1>5, <1>7, <1>9, <1>10, WorkerGoesOn

LEMMA WorkerAnswered ==
    ASSUME Typed, QueueInv, AnswerInv, Dist!Continue("worker")
    PROVE  QueueInv' /\ AnswerInv'
  BY RejectAnswered, ToldAnswered, MoveAnswered, PersistAnswered
     DEF Dist!Continue

\* The other threads have no message to answer.
LEMMA OthersAnswered ==
    ASSUME Typed, QueueInv, AnswerInv, NEW t \in All, t # "worker",
           Dist!Continue(t)
    PROVE  QueueInv' /\ AnswerInv'
<1>1. frame[t].msg = 0
  BY DEF Typed, HandInv
<1>2. \A s : Dist!Published(0, s) = messages
  BY DEF Dist!Published
<1>3. Dist!Single(frame[t]) = 0
  BY <1>1, SingleIs
<1>4. /\ messages' = messages
      /\ UNCHANGED <<set_queue, export_queue, batch, lost>>
      /\ \E d : Dist!Goto(t, d)
  <2>1. CASE Dist!Reject(t)
    BY <1>2, <1>3, <2>1, Unchangeds DEF Dist!Reject
  <2>2. CASE Dist!Told(t)
    BY <1>2, <1>3, <2>2, Unchangeds DEF Dist!Told
  <2>3. CASE Dist!Persist(t)
    BY <1>1, <1>2, <2>3, Unchangeds DEF Dist!Persist
  <2>4. CASE Dist!Accept(t) \/ Dist!StoreParam(t)
    BY <2>4, Unchangeds DEF Dist!Accept, Dist!StoreParam
  <2>5. CASE Dist!SetStore(t) \/ Dist!Notify(t) \/ Dist!Tell(t)
    BY <2>5, Unchangeds DEF Dist!SetStore, Dist!Notify, Dist!Tell
  <2> QED
    BY <2>1, <2>2, <2>3, <2>4, <2>5 DEF Dist!Continue
<1>5. frame'["worker"] = frame["worker"]
  <2>1. "worker" \in All
    BY DEF All, Dist!All
  <2> QED
    BY <1>4, <2>1 DEF Typed, FrameInv, Dist!Goto
<1> QED
  BY <1>4, <1>5, SameQueues

LEMMA AppendOnce ==
    ASSUME NEW S, NEW q \in Seq(S), NEW n \in S,
           OneEach(q), n \notin Elements(q)
    PROVE  /\ OneEach(Append(q, n))
           /\ Elements(Append(q, n)) = Elements(q) \cup {n}
<1>1. PICK r : r = Append(q, n)
  OBVIOUS
<1>2. PICK len : len = Len(q)
  OBVIOUS
<1>3. /\ len \in Nat /\ DOMAIN q = 1..len /\ DOMAIN r = 1..(len + 1)
      /\ \A i \in 1..len : r[i] = q[i]
      /\ r[len + 1] = n
  BY <1>1, <1>2, AppendProperties
<1>4. \A i \in DOMAIN r : i \in DOMAIN q \/ i = len + 1
  BY <1>3
<1>5. \A i \in DOMAIN q : i \in DOMAIN r /\ r[i] = q[i] /\ r[i] # n
  BY <1>3 DEF Elements
<1>6. OneEach(r)
  BY <1>3, <1>4, <1>5 DEF OneEach
<1>7. len + 1 \in DOMAIN r
  BY <1>3
<1>8. Elements(r) = Elements(q) \cup {n}
  BY <1>3, <1>4, <1>5, <1>7 DEF Elements
<1> QED
  BY <1>1, <1>6, <1>8

LEMMA TailOnce ==
    ASSUME NEW S, NEW q \in Seq(S), q # << >>, OneEach(q)
    PROVE  /\ OneEach(Tail(q)) /\ Tail(q) \in Seq(S)
           /\ Elements(Tail(q)) = Elements(q) \ {Head(q)}
           /\ Head(q) \in Elements(q)
<1>1. PICK r : r = Tail(q)
  OBVIOUS
<1>2. PICK len : len = Len(q)
  OBVIOUS
<1>3. /\ len \in Nat /\ len # 0 /\ DOMAIN q = 1..len /\ DOMAIN r = 1..(len - 1)
      /\ \A i \in 1..(len - 1) : r[i] = q[i + 1]
      /\ Head(q) = q[1] /\ r \in Seq(S)
  <2>1. Len(q) \in Nat /\ Len(q) # 0 /\ Len(r) = Len(q) - 1 /\ r \in Seq(S)
    BY <1>1, HeadTailProperties
  <2>2. \A i \in 1..Len(r) : r[i] = q[i + 1]
    BY <1>1, HeadTailProperties
  <2> QED
    BY <1>2, <2>1, <2>2
<1>4. 1 \in DOMAIN q
  BY <1>3
<1>5. \A i \in DOMAIN r : i + 1 \in DOMAIN q /\ i + 1 # 1 /\ r[i] = q[i + 1]
  BY <1>3
<1>6. \A i \in DOMAIN q : i # 1 => i - 1 \in DOMAIN r /\ r[i - 1] = q[i]
  <2> SUFFICES ASSUME NEW i \in DOMAIN q, i # 1
               PROVE  i - 1 \in DOMAIN r /\ r[i - 1] = q[i]
    OBVIOUS
  <2>1. i - 1 \in DOMAIN r /\ (i - 1) + 1 = i
    BY <1>3
  <2>2. r[i - 1] = q[(i - 1) + 1]
    BY <1>5, <2>1
  <2> QED
    BY <2>1, <2>2
<1>7. OneEach(r)
  <2> SUFFICES ASSUME NEW i \in DOMAIN r, NEW j \in DOMAIN r, r[i] = r[j]
               PROVE  i = j
    BY DEF OneEach
  <2>1. i + 1 = j + 1
    BY <1>5 DEF OneEach
  <2> QED
    BY <1>3, <2>1
<1>8. Elements(r) = Elements(q) \ {q[1]}
  <2>1. ASSUME NEW i \in DOMAIN r PROVE r[i] \in Elements(q) /\ r[i] # q[1]
    <3>1. i + 1 \in DOMAIN q /\ i + 1 # 1 /\ r[i] = q[i + 1]
      BY <1>5
    <3>2. q[i + 1] # q[1]
      BY <1>4, <3>1, Zenon DEF OneEach
    <3> QED
      BY <3>1, <3>2 DEF Elements
  <2>2. ASSUME NEW i \in DOMAIN q, q[i] # q[1] PROVE q[i] \in Elements(r)
    <3>1. i - 1 \in DOMAIN r /\ r[i - 1] = q[i]
      BY <1>6, <2>2
    <3> QED
      BY <3>1, Zenon DEF Elements
  <2> QED
    BY <2>1, <2>2 DEF Elements
<1>9. q[1] \in Elements(q)
  BY <1>4 DEF Elements
<1> QED
  BY <1>1, <1>3, <1>7, <1>8, <1>9

LEMMA ConcatOnce ==
    ASSUME NEW S, NEW p \in Seq(S), NEW q \in Seq(S), OneEach(p), OneEach(q),
           Elements(p) \cap Elements(q) = {}
    PROVE  /\ OneEach(p \o q)
           /\ Elements(p \o q) = Elements(p) \cup Elements(q)
<1>1. PICK r : r = p \o q
  OBVIOUS
<1>2. PICK m, n : m = Len(p) /\ n = Len(q)
  OBVIOUS
<1>3. /\ m \in Nat /\ n \in Nat /\ DOMAIN p = 1..m /\ DOMAIN q = 1..n
      /\ DOMAIN r = 1..(m + n)
      /\ \A i \in 1..(m + n) : r[i] = IF i <= m THEN p[i] ELSE q[i - m]
  BY <1>1, <1>2, ConcatProperties
<1>4. \A i \in DOMAIN r : \/ i \in DOMAIN p /\ r[i] = p[i]
                          \/ i - m \in DOMAIN q /\ r[i] = q[i - m] /\ i > m
  BY <1>3
<1>5. \A i \in DOMAIN p : i \in DOMAIN r /\ r[i] = p[i]
  BY <1>3
<1>6. ASSUME NEW i \in DOMAIN q PROVE i + m \in DOMAIN r /\ r[i + m] = q[i]
  <2>1. i + m \in 1..(m + n) /\ ~(i + m <= m) /\ (i + m) - m = i
    BY <1>3
  <2> QED
    BY <1>3, <2>1
<1>7. OneEach(r)
  <2> SUFFICES ASSUME NEW i \in DOMAIN r, NEW j \in DOMAIN r, r[i] = r[j]
               PROVE  i = j
    BY DEF OneEach
  <2>1. CASE i \in DOMAIN p /\ r[i] = p[i] /\ j \in DOMAIN p /\ r[j] = p[j]
    BY <2>1 DEF OneEach
  <2>2. CASE /\ i - m \in DOMAIN q /\ r[i] = q[i - m]
             /\ j - m \in DOMAIN q /\ r[j] = q[j - m]
    <3>1. i - m = j - m
      BY <2>2 DEF OneEach
    <3> QED
      BY <1>3, <3>1
  <2>3. ~(/\ i \in DOMAIN p /\ r[i] = p[i]
          /\ j - m \in DOMAIN q /\ r[j] = q[j - m])
    BY DEF Elements
  <2>4. ~(/\ j \in DOMAIN p /\ r[j] = p[j]
          /\ i - m \in DOMAIN q /\ r[i] = q[i - m])
    BY DEF Elements
  <2> QED
    BY <1>4, <2>1, <2>2, <2>3, <2>4
<1>8. Elements(r) = Elements(p) \cup Elements(q)
  <2>1. Elements(r) \subseteq Elements(p) \cup Elements(q)
    BY <1>4 DEF Elements
  <2>2. Elements(p) \subseteq Elements(r)
    BY <1>5 DEF Elements
  <2>3. Elements(q) \subseteq Elements(r)
    BY <1>6 DEF Elements
  <2> QED
    BY <2>1, <2>2, <2>3
<1> QED
  BY <1>1, <1>7, <1>8

LEMMA PushedOnce ==
    ASSUME NEW S, NEW q \in Seq(S), NEW n \in S,
           OneEach(q), n \notin Elements(q)
    PROVE  /\ OneEach(Dist!Pushed(q, n))
           /\ Elements(Dist!Pushed(q, n)) =
                  (Elements(q) \ Dist!Overflow(q)) \cup {n}
           /\ Dist!Overflow(q) \subseteq Elements(q)
<1>1. CASE Len(q) < MaxQueue
  <2>1. Dist!Pushed(q, n) = Append(q, n) /\ Dist!Overflow(q) = {}
    BY <1>1 DEF Dist!Pushed, Dist!Overflow
  <2> QED
    BY <2>1, AppendOnce
<1>2. CASE ~(Len(q) < MaxQueue)
  <2>1. PICK r : r = Tail(q)
    OBVIOUS
  <2>2. Dist!Pushed(q, n) = Append(r, n) /\ Dist!Overflow(q) = {Head(q)}
    BY <1>2, <2>1 DEF Dist!Pushed, Dist!Overflow
  <2>3. q # << >>
    BY <1>2, ParamsAssumption
  <2>4. /\ OneEach(r) /\ r \in Seq(S) /\ Head(q) \in Elements(q)
        /\ Elements(r) = Elements(q) \ {Head(q)}
    BY <2>1, <2>3, TailOnce
  <2>5. /\ OneEach(Append(r, n))
        /\ Elements(Append(r, n)) = Elements(r) \cup {n}
    BY <2>4, AppendOnce
  <2> QED
    BY <2>2, <2>4, <2>5
<1> QED
  BY <1>1, <1>2

LEMMA QueueTypes ==
    ASSUME Typed
    PROVE  /\ set_queue \in Seq(DOMAIN messages)
           /\ export_queue \in Seq(DOMAIN messages)
           /\ batch \in Seq(DOMAIN messages)
           /\ Elements(set_queue) \subseteq DOMAIN messages
           /\ Elements(export_queue) \subseteq DOMAIN messages
           /\ Elements(batch) \subseteq DOMAIN messages
<1>1. PICK S : S = DOMAIN messages
  OBVIOUS
<1>2. \A q \in Seq(S) : Elements(q) \subseteq S
  BY DEF Elements
<1>3. set_queue \in Seq(S) /\ export_queue \in Seq(S) /\ batch \in Seq(S)
  BY <1>1 DEF Typed, MessagesInv
<1> QED
  BY <1>1, <1>2, <1>3

LEMMA NoElements == Elements(<< >>) = {} /\ OneEach(<< >>)
  BY DEF Elements, OneEach

\* Messages that leave the queues unanswered are lost.
LEMMA LetGo ==
    ASSUME Typed, AnswerInv, NEW gone, lost' = lost \cup gone,
           Waiting' = Waiting \ gone, gone \subseteq Waiting,
           messages' = messages, frame'["worker"] = frame["worker"]
    PROVE  AnswerInv'
<1>1. PICK c : c = frame["worker"]
  OBVIOUS
<1>2. Len(<< >>) = 0
  OBVIOUS
<1>3. ASSUME NEW i \in DOMAIN messages
      PROVE  Answered(messages[i], i, c, i \in Waiting \ gone,
                      i \in lost \cup gone)
  <2>1. Answered(messages[i], i, c, i \in Waiting, i \in lost)
    BY <1>1 DEF AnswerInv
  <2>2. CASE i \in gone
    <3>1. messages[i].out = << >> /\ i # c.msg
      BY <2>1, <2>2 DEF Answered
    <3>2. Served(messages[i], i \in lost \cup gone)
      BY <1>2, <2>2, <3>1 DEF Served
    <3> QED
      BY <2>2, <3>1, <3>2 DEF Answered
  <2>3. CASE i \notin gone
    BY <2>1, <2>3 DEF Answered
  <2> QED
    BY <2>2, <2>3
<1> QED
  BY <1>1, <1>3 DEF AnswerInv

LEMMA BreaksAnswered ==
    ASSUME Typed, QueueInv, AnswerInv, Dist!WorkerBreaks
    PROVE  QueueInv' /\ AnswerInv'
<1>1. /\ lost' = lost \cup Elements(batch) /\ batch' = << >>
      /\ UNCHANGED <<set_queue, export_queue, messages, frame>>
  BY DEF Dist!WorkerBreaks, Dist!Range, Elements
<1>2. QueueInv'
  BY <1>1, NoElements DEF QueueInv
<1>3. /\ Waiting' = Waiting \ Elements(batch)
      /\ Elements(batch) \subseteq Waiting
  <2>1. Waiting' = Elements(set_queue') \cup Elements(export_queue')
                   \cup Elements(batch')
    BY DEF Waiting, Elements
  <2>2. Elements(batch') = {}
    BY <1>1, NoElements
  <2> QED
    BY <1>1, <2>1, <2>2, WaitingIs DEF QueueInv
<1> QED
  BY <1>1, <1>2, <1>3, LetGo

LEMMA JoinAnswered ==
    ASSUME Typed, QueueInv, AnswerInv, Dist!StopJoin
    PROVE  QueueInv' /\ AnswerInv'
<1>1. /\ lost' = lost \cup (Elements(set_queue) \cup Elements(export_queue))
      /\ set_queue' = << >> /\ export_queue' = << >>
      /\ UNCHANGED <<batch, messages, frame>>
  BY DEF Dist!StopJoin, Dist!Range, Elements
<1>2. QueueInv'
  BY <1>1, NoElements DEF QueueInv
<1>3. /\ Waiting' = Waiting \ (Elements(set_queue) \cup Elements(export_queue))
      /\ Elements(set_queue) \cup Elements(export_queue) \subseteq Waiting
  <2>1. Waiting' = Elements(set_queue') \cup Elements(export_queue')
                   \cup Elements(batch')
    BY DEF Waiting, Elements
  <2>2. Elements(set_queue') = {} /\ Elements(export_queue') = {}
    BY <1>1, NoElements
  <2> QED
    BY <1>1, <2>1, <2>2, WaitingIs DEF QueueInv
<1> QED
  BY <1>1, <1>2, <1>3, LetGo

LEMMA SwapAnswered ==
    ASSUME Typed, QueueInv, AnswerInv, Dist!Swap
    PROVE  QueueInv' /\ AnswerInv'
<1>1. /\ batch = << >> /\ batch' = export_queue \o set_queue
      /\ set_queue' = << >> /\ export_queue' = << >>
      /\ UNCHANGED <<lost, messages, frame>>
  BY DEF Dist!Swap
<1>2. /\ OneEach(batch')
      /\ Elements(batch') = Elements(export_queue) \cup Elements(set_queue)
  BY <1>1, QueueTypes, ConcatOnce DEF QueueInv
<1>3. QueueInv'
  BY <1>1, <1>2, NoElements DEF QueueInv
<1>4. Waiting' = Waiting \ {} /\ lost' = lost \cup {}
  <2>1. Waiting' = Elements(set_queue') \cup Elements(export_queue')
                   \cup Elements(batch')
    BY DEF Waiting, Elements
  <2>2. Elements(set_queue') = {} /\ Elements(export_queue') = {}
        /\ Elements(batch) = {}
    BY <1>1, NoElements
  <2> QED
    BY <1>1, <1>2, <2>1, <2>2, WaitingIs
<1> QED
  BY <1>1, <1>3, <1>4, LetGo

LEMMA ArriveAnswered ==
    ASSUME Typed, QueueInv, AnswerInv, NEW m \in Wire, Dist!Arrive(m)
    PROVE  QueueInv' /\ AnswerInv'
<1>1. PICK n : n = Len(messages) + 1
  OBVIOUS
<1>2. PICK new : new = [kind |-> m.kind, kvs |-> m.kvs, out |-> << >>]
  OBVIOUS
<1>3. /\ messages' = Append(messages, new) /\ UNCHANGED <<batch, frame>>
      /\ \/ /\ set_queue' = Dist!Pushed(set_queue, n)
            /\ lost' = lost \cup Dist!Overflow(set_queue)
            /\ UNCHANGED export_queue
         \/ /\ export_queue' = Dist!Pushed(export_queue, n)
            /\ lost' = lost \cup Dist!Overflow(export_queue)
            /\ UNCHANGED set_queue
  BY <1>1, <1>2 DEF Dist!Arrive
<1>4. MessageOK(new) /\ new.out = << >>
  BY <1>2, ParamsAssumption, EmptySeq DEF MessageOK, MessageType
<1>5. /\ DOMAIN messages' = DOMAIN messages \cup {n} /\ n # 0
      /\ n \notin DOMAIN messages /\ messages'[n] = new
      /\ \A i \in DOMAIN messages : messages'[i] = messages[i]
  BY <1>1, <1>3, <1>4, AppendTyped DEF Typed
<1>6. PICK S : S = DOMAIN messages \cup {n}
  OBVIOUS
<1>7. /\ set_queue \in Seq(S) /\ export_queue \in Seq(S) /\ n \in S
      /\ n \notin Waiting
  <2>1. set_queue \in Seq(S) /\ export_queue \in Seq(S)
    BY <1>6, QueueTypes, SeqMonotonic
  <2> QED
    BY <1>5, <1>6, <2>1, QueueTypes, WaitingIs
<1>8. n \notin Elements(set_queue) /\ n \notin Elements(export_queue)
      /\ n \notin Elements(batch)
  BY <1>7, WaitingIs
<1>9. \E gone : /\ gone \subseteq Waiting /\ lost' = lost \cup gone
                /\ Waiting' = (Waiting \ gone) \cup {n} /\ QueueInv'
  <2>0. Waiting' = Elements(set_queue') \cup Elements(export_queue')
                   \cup Elements(batch')
    BY DEF Waiting, Elements
  <2>1. CASE /\ set_queue' = Dist!Pushed(set_queue, n)
             /\ lost' = lost \cup Dist!Overflow(set_queue)
             /\ UNCHANGED export_queue
    <3>1. PICK gone : gone = Dist!Overflow(set_queue)
      OBVIOUS
    <3>2. /\ OneEach(set_queue') /\ gone \subseteq Elements(set_queue)
          /\ Elements(set_queue') = (Elements(set_queue) \ gone) \cup {n}
      BY <1>7, <1>8, <2>1, <3>1, PushedOnce DEF QueueInv
    <3>3. QueueInv'
      BY <1>3, <1>8, <2>1, <3>2 DEF QueueInv
    <3>4. Waiting' = (Waiting \ gone) \cup {n} /\ gone \subseteq Waiting
      BY <1>3, <2>0, <2>1, <3>2, WaitingIs DEF QueueInv
    <3> QED
      BY <2>1, <3>1, <3>3, <3>4
  <2>2. CASE /\ export_queue' = Dist!Pushed(export_queue, n)
             /\ lost' = lost \cup Dist!Overflow(export_queue)
             /\ UNCHANGED set_queue
    <3>1. PICK gone : gone = Dist!Overflow(export_queue)
      OBVIOUS
    <3>2. /\ OneEach(export_queue') /\ gone \subseteq Elements(export_queue)
          /\ Elements(export_queue') = (Elements(export_queue) \ gone) \cup {n}
      BY <1>7, <1>8, <2>2, <3>1, PushedOnce DEF QueueInv
    <3>3. QueueInv'
      BY <1>3, <1>8, <2>2, <3>2 DEF QueueInv
    <3>4. Waiting' = (Waiting \ gone) \cup {n} /\ gone \subseteq Waiting
      BY <1>3, <2>0, <2>2, <3>2, WaitingIs DEF QueueInv
    <3> QED
      BY <2>2, <3>1, <3>3, <3>4
  <2> QED
    BY <1>3, <2>1, <2>2
<1>10. PICK gone : /\ gone \subseteq Waiting /\ lost' = lost \cup gone
                   /\ Waiting' = (Waiting \ gone) \cup {n} /\ QueueInv'
  BY <1>9
<1>11. PICK c : c = frame["worker"]
  OBVIOUS
<1>12. n # c.msg /\ frame'["worker"] = c
  BY <1>3, <1>5, <1>11 DEF Typed, HandInv
<1>13. Answered(messages'[n], n, c, n \in Waiting', n \in lost')
  BY <1>4, <1>5, <1>10, <1>12 DEF Answered
<1>14. Len(<< >>) = 0
  OBVIOUS
<1>15. ASSUME NEW i \in DOMAIN messages
       PROVE  Answered(messages'[i], i, c, i \in Waiting', i \in lost')
  <2>1. /\ Answered(messages[i], i, c, i \in Waiting, i \in lost)
        /\ messages'[i] = messages[i] /\ i # n
    BY <1>5, <1>11 DEF AnswerInv
  <2>2. CASE i \in gone
    <3>1. messages[i].out = << >> /\ i # c.msg
      BY <1>10, <2>1, <2>2 DEF Answered
    <3>2. i \notin Waiting' /\ i \in lost'
      BY <1>10, <2>1, <2>2
    <3>3. Served(messages'[i], i \in lost')
      BY <1>14, <2>1, <3>1, <3>2 DEF Served
    <3> QED
      BY <3>1, <3>2, <3>3 DEF Answered
  <2>3. CASE i \notin gone
    <3>1. /\ (i \in Waiting') = (i \in Waiting)
          /\ (i \in lost') = (i \in lost)
      BY <1>10, <2>1, <2>3
    <3> QED
      BY <2>1, <3>1
  <2> QED
    BY <2>2, <2>3
<1>16. AnswerInv'
  BY <1>5, <1>12, <1>13, <1>15 DEF AnswerInv
<1> QED
  BY <1>10, <1>16

LEMMA TakesAnswered ==
    ASSUME Typed, QueueInv, AnswerInv, Dist!WorkerTakes
    PROVE  QueueInv' /\ AnswerInv'
<1>1. PICK i : i = Head(batch)
  OBVIOUS
<1>2. PICK m : m = messages[i]
  OBVIOUS
<1>3. /\ frame["worker"] = Dist!Idle /\ batch # << >> /\ batch' = Tail(batch)
      /\ UNCHANGED <<set_queue, export_queue, lost>>
  BY DEF Dist!WorkerTakes
<1>4. /\ OneEach(batch') /\ Elements(batch') = Elements(batch) \ {i}
      /\ i \in Elements(batch)
  BY <1>1, <1>3, QueueTypes, TailOnce DEF QueueInv
<1>5. QueueInv'
  BY <1>3, <1>4 DEF QueueInv
<1>6. Waiting' = Waiting \ {i} /\ i \in Waiting
  <2>1. Waiting' = Elements(set_queue') \cup Elements(export_queue')
                   \cup Elements(batch')
    BY DEF Waiting, Elements
  <2> QED
    BY <1>3, <1>4, <2>1, WaitingIs DEF QueueInv
<1>7. /\ i \in DOMAIN messages /\ i # 0 /\ MessageOK(m)
      /\ 0 \notin DOMAIN messages
  BY <1>1, <1>2, <1>3, BatchHead, NumbersFromOne DEF Typed
<1>8. Dist!Idle.msg = 0
  BY DEF Dist!Idle, Dist!Frame
<1>9. m.out = << >> /\ Len(<< >>) = 0
  BY <1>2, <1>6, <1>7 DEF AnswerInv, Answered
<1>10. m.kind \in {"set", "bulk", "export", "reply"}
  BY <1>7 DEF MessageOK, MessageType
<1>11. CASE m.kind \in {"set", "bulk"}
  <2>1. PICK d : d = Dist!Frame("apply", m.kvs, i, << >>)
    OBVIOUS
  <2>2. Dist!Goto("worker", d) /\ messages' = messages
    BY <1>1, <1>2, <1>11, <2>1 DEF Dist!WorkerTakes
  <2>3. frame'["worker"] = d
    BY <2>2 DEF Typed, FrameInv, Dist!Goto, All, Dist!All
  <2>4. d.at = "apply" /\ d.todo = m.kvs /\ d.msg = i
    BY <2>1 DEF Dist!Frame
  <2>5. Handled(m, d)
    <3>1. m.kind = "set" => Len(m.kvs) = 1
      BY <1>7 DEF MessageOK, MessageType
    <3>2. d.at # "persist" /\ Len(m.out) = 0
      BY <1>9, <2>4
    <3>3. m.kind = "set" => Len(d.todo) <= 1
      <4>1. PICK n : n = Len(m.kvs)
        OBVIOUS
      <4>2. m.kind = "set" => n = 1
        BY <3>1, <4>1, Zenon
      <4>3. n = 1 => n <= 1
        OBVIOUS
      <4> QED
        BY <2>4, <4>1, <4>2, <4>3, Zenon
    <3>4. Len(m.out) = IF d.at = "persist" THEN 1 ELSE 0
      BY <3>2, Zenon
    <3> QED
      BY <1>9, <1>11, <3>3, <3>4, Zenon DEF Handled
  <2>6. ASSUME NEW j \in DOMAIN messages
        PROVE  Answered(messages[j], j, d, j \in Waiting', j \in lost)
    <3>1. Answered(messages[j], j, Dist!Idle, j \in Waiting, j \in lost)
      BY <1>3 DEF AnswerInv
    <3>2. CASE j = i
      BY <1>2, <1>6, <2>4, <2>5, <3>2 DEF Answered
    <3>3. CASE j # i
      <4>1. (j \in Waiting') = (j \in Waiting) /\ j # 0
        BY <1>6, <1>7, <3>3
      <4> QED
        BY <1>8, <2>4, <3>1, <3>3, <4>1 DEF Answered
    <3> QED
      BY <3>2, <3>3
  <2>7. AnswerInv'
    BY <1>3, <2>2, <2>3, <2>6 DEF AnswerInv
  <2> QED
    BY <1>5, <2>7
<1>12. CASE m.kind \notin {"set", "bulk"}
  <2>1. PICK n : n = IF m.kind = "export" THEN i ELSE 0
    OBVIOUS
  <2>2. messages' = Dist!Published(n, "exported") /\ UNCHANGED frame
    BY <1>1, <1>2, <1>12, <2>1
       DEF Dist!WorkerTakes, Dist!IsRequest, Dist!looks_like_export_request
  <2>3. n \in DOMAIN messages \cup {0}
    BY <1>7, <2>1
  <2>4. /\ DOMAIN messages' = DOMAIN messages
        /\ \A j \in DOMAIN messages :
              /\ messages'[j].kind = messages[j].kind
              /\ j # n => messages'[j] = messages[j]
              /\ j = n => Len(messages'[j].out) = Len(messages[j].out) + 1
    BY <2>2, <2>3, PublishedTo DEF Answers
  <2>5. ASSUME NEW gone \in BOOLEAN PROVE Served(messages'[i], gone)
    <3>1. CASE m.kind = "export"
      <4>1. PICK len : len = Len(messages'[i].out)
        OBVIOUS
      <4>2. len = 0 + 1 /\ messages'[i].kind = "export"
        BY <1>2, <1>7, <1>9, <2>1, <2>4, <3>1, <4>1
      <4> QED
        BY <4>1, <4>2 DEF Served
    <3>2. CASE m.kind = "reply"
      <4>1. messages'[i] = m
        BY <1>2, <1>7, <2>1, <2>4, <3>2
      <4> QED
        BY <1>9, <3>2, <4>1 DEF Served
    <3> QED
      BY <1>10, <1>12, <3>1, <3>2
  <2>6. ASSUME NEW j \in DOMAIN messages
        PROVE  Answered(messages'[j], j, Dist!Idle, j \in Waiting', j \in lost)
    <3>1. Answered(messages[j], j, Dist!Idle, j \in Waiting, j \in lost)
      BY <1>3 DEF AnswerInv
    <3>2. CASE j = i
      <4>1. j \notin Waiting' /\ j # Dist!Idle.msg /\ (j \in lost) \in BOOLEAN
        BY <1>6, <1>7, <1>8, <3>2
      <4> QED
        BY <2>5, <3>2, <4>1 DEF Answered
    <3>3. CASE j # i
      <4>1. (j \in Waiting') = (j \in Waiting) /\ messages'[j] = messages[j]
        BY <1>6, <1>7, <2>1, <2>4, <3>3
      <4> QED
        BY <3>1, <4>1
    <3> QED
      BY <3>2, <3>3
  <2>7. AnswerInv'
    BY <1>3, <2>2, <2>4, <2>6 DEF AnswerInv
  <2> QED
    BY <1>5, <2>7
<1> QED
  BY <1>11, <1>12

\* A step of another thread, which is none of the queues' business.
LEMMA StartAnswered ==
    ASSUME Typed, QueueInv, AnswerInv, NEW t \in All, t # "worker",
           NEW d, Dist!Goto(t, d),
           UNCHANGED <<set_queue, export_queue, batch, lost>>,
           messages' = messages
    PROVE  QueueInv' /\ AnswerInv'
<1>1. frame'["worker"] = frame["worker"]
  BY DEF Typed, FrameInv, Dist!Goto, All, Dist!All
<1> QED
  BY <1>1, SameQueues

LEMMA ProgramAnswered ==
    ASSUME Typed, QueueInv, AnswerInv, NEW t \in Users, Dist!Program(t)
    PROVE  QueueInv' /\ AnswerInv'
<1>1. t \in All /\ t # "worker"
  BY UsersAreNot
<1>2. ASSUME NEW k \in Keys, Dist!Declare(t, k) PROVE QueueInv' /\ AnswerInv'
  BY <1>1, <1>2, StartAnswered, Unchangeds DEF Dist!Declare
<1>3. ASSUME NEW k \in Keys, NEW v, Dist!Set(t, k, v)
      PROVE  QueueInv' /\ AnswerInv'
  BY <1>1, <1>3, StartAnswered, Unchangeds DEF Dist!Set
<1>4. ASSUME NEW k \in Keys, NEW o, Dist!Subscribe(t, k, o)
      PROVE  QueueInv' /\ AnswerInv'
  BY <1>1, <1>4, StartAnswered, Unchangeds DEF Dist!Subscribe
<1>5. CASE Dist!DeclareWire(t)
  BY <1>1, <1>5, StartAnswered, Unchangeds DEF Dist!DeclareWire
<1>6. CASE Dist!loadSnapshot(t)
  BY <1>1, <1>6, StartAnswered, Unchangeds DEF Dist!loadSnapshot
<1>7. CASE Dist!setFetchCallback(t)
  BY <1>7, SameQueues, Unchangeds DEF Dist!setFetchCallback
<1> QED
  BY <1>2, <1>3, <1>4, <1>5, <1>6, <1>7 DEF Dist!Program

LEMMA DistAnswered ==
    ASSUME Typed, QueueInv, AnswerInv, Dist!Next
    PROVE  QueueInv' /\ AnswerInv'
<1>1. ASSUME NEW t \in All, Dist!Continue(t) PROVE QueueInv' /\ AnswerInv'
  BY <1>1, WorkerAnswered, OthersAnswered
<1>2. CASE Dist!Worker
  BY <1>2, SwapAnswered, TakesAnswered, BreaksAnswered, WorkerAnswered
     DEF Dist!Worker
<1>3. CASE Dist!FetchTurn
  <2>1. \E d : Dist!Goto("fetch", d)
    BY <1>3 DEF Dist!FetchTurn
  <2>2. "fetch" \in All
    BY DEF All, Dist!All
  <2> QED
    BY <1>3, <2>1, <2>2, StartAnswered, Unchangeds DEF Dist!FetchTurn
<1>4. CASE Dist!StopFlag
  BY <1>4, SameQueues, Unchangeds DEF Dist!StopFlag
<1> QED
  BY <1>1, <1>2, <1>3, <1>4, ProgramAnswered, ArriveAnswered, JoinAnswered,
     UsersAreNot DEF Dist!Next, All, Dist!All

AnsweredInv == QueueInv /\ AnswerInv

LEMMA NextAnswered == AllTyped /\ AnsweredInv /\ [Next]_vars => AnsweredInv'
<1> SUFFICES ASSUME AllTyped, AnsweredInv, [Next]_vars PROVE AnsweredInv'
  OBVIOUS
<1>1. ASSUME UNCHANGED distVars PROVE AnsweredInv'
  BY <1>1, SameQueues DEF distVars, AnsweredInv
<1>2. ASSUME UNCHANGED vars PROVE AnsweredInv'
  BY <1>1, <1>2 DEF vars
<1>3. ASSUME Dist!Next PROVE AnsweredInv'
  BY <1>3, DistAnswered DEF AllTyped, AnsweredInv
<1> QED
  BY <1>1, <1>2, <1>3 DEF Next

LEMMA InitAnswered == Init => AnsweredInv
<1> SUFFICES ASSUME Init PROVE AnsweredInv
  OBVIOUS
<1>1. /\ set_queue = << >> /\ export_queue = << >> /\ batch = << >>
      /\ messages = << >>
  BY DEF Init, Dist!Init
<1>2. DOMAIN messages = {}
  BY <1>1
<1> QED
  BY <1>1, <1>2, NoElements DEF AnsweredInv, QueueInv, AnswerInv

LEMMA AnswersOnce == AllTyped /\ AnsweredInv => AnsweredOnce
<1> SUFFICES ASSUME AllTyped, AnsweredInv, NEW i \in DOMAIN messages
             PROVE  LET m == messages[i] IN
                    /\ Len(m.out) <= 1
                    /\ m.kind = "reply" => m.out = << >>
                    /\ (~undefined /\ m.kind \in {"set", "export"}
                            /\ i \notin Waiting \cup InHand \cup lost)
                          => Len(m.out) = 1
  BY DEF AnsweredOnce
<1>1. PICK m : m = messages[i]
  OBVIOUS
<1>2. PICK c : c = frame["worker"]
  OBVIOUS
<1>3. Answered(m, i, c, i \in Waiting, i \in lost)
  BY <1>1, <1>2 DEF AnsweredInv, AnswerInv
<1>4. i \in InHand <=> i = c.msg
  BY <1>2, NumbersFromOne DEF InHand, AllTyped, Typed
<1>5. Len(<< >>) = 0
  OBVIOUS
<1>6. Len(m.out) <= 1 /\ (m.kind = "reply" => m.out = << >>)
  <2>1. CASE i \in Waiting
    BY <1>3, <1>5, <2>1 DEF Answered
  <2>2. CASE i = c.msg
    BY <1>3, <1>5, <2>2 DEF Answered, Handled
  <2>3. CASE i \notin Waiting /\ i # c.msg
    BY <1>3, <2>3 DEF Answered, Served
  <2> QED
    BY <2>1, <2>2, <2>3
<1>7. ASSUME m.kind \in {"set", "export"},
             i \notin Waiting \cup InHand \cup lost
      PROVE  Len(m.out) = 1
  BY <1>3, <1>4, <1>7 DEF Answered, Served
<1> QED
  BY <1>1, <1>6, <1>7

-----------------------------------------------------------------------------
(* The keys of the distributed server. *)

\* Two threads with the same key have overlapped.
Apart == \A t, u \in All : t # u =>
    Dist!KeysOf(frame[t]) \cap Dist!KeysOf(frame[u]) \subseteq crossed

Writable(k) == ~Desc[k].read_only

\* ParamStore has the key, if a server does.
StoreOK(k) == k \in DOMAIN values \cup declared => StoreFollows(k)

\* The string and the typed value agree.
Reads(k) == /\ k \in DOMAIN cache /\ k \in DOMAIN params
            /\ \/ params[k] = Shown(cache[k])
               \/ Read(k, params[k]) \in {cache[k], None}

Settled(k) == /\ StoreOK(k)
              /\ k \in declared =>
                    Reads(k) /\ Heard(watchers, heard, k, cache[k])

\* Thread c is at one of the places, with k the first of its strings.
Aims(k, c, places) == /\ c.at \in places /\ c.todo # << >>
                      /\ Head(c.todo).key = k
Has(k, s) == k \in DOMAIN params /\ params[k] = s

\* What the thread that has k in its frame c still owes ParamStore,
StoreGoing(k, c) ==
    \/ c.then # << >> /\ c.at \in Before
    \/ Aims(k, c, {"stored"}) /\ Has(k, Head(c.todo).is)
    \/ ~Aims(k, c, {"stored"}) /\ StoreOK(k)

\* the observers that a notify() has called or will call,
TellOrHeard(k, c) ==
    /\ c.tell # << >> => c.value = cache[k]
    /\ \A i \in DOMAIN watchers[k] :
          \/ \E j \in DOMAIN c.tell : c.tell[j] = watchers[k][i]
          \/ /\ k \in DOMAIN heard[watchers[k][i]]
             /\ heard[watchers[k][i]][k] = cache[k]

\* and the typed value: a declare() or set(), a subscribe(), a message or load.
WriteGoing(k, c) ==
    /\ c.then # << >>
    /\ \/ c.todo # << >> /\ c.at \in {"stored", "notify", "tell"}
       \/ c.todo = << >> /\ c.at \in {"persist", "notify"}
    /\ Has(k, Shown(c.then[1].is))
LastGoing(k, c) ==
    /\ c.then # << >> /\ c.todo = << >> /\ c.at = "tell"
    /\ Reads(k) /\ TellOrHeard(k, c)
WireGoing(k, c) ==
    /\ c.then = << >>
    /\ \/ /\ Aims(k, c, {"stored"}) /\ k \in DOMAIN cache
          /\ Has(k, Head(c.todo).is) /\ Heard(watchers, heard, k, cache[k])
       \/ /\ Aims(k, c, {"notify"}) /\ Has(k, Head(c.todo).is)
          /\ c.value = Read(k, Head(c.todo).is)
       \/ Aims(k, c, {"tell"}) /\ Reads(k) /\ TellOrHeard(k, c)
       \/ /\ ~Aims(k, c, {"stored", "notify", "tell"})
          /\ Reads(k) /\ Heard(watchers, heard, k, cache[k])

ReadGoing(k, c) == k \in declared =>
    \/ c.then # << >> /\ c.at \in Before
    \/ WriteGoing(k, c) \/ LastGoing(k, c) \/ WireGoing(k, c)

Going(k, c) == StoreGoing(k, c) /\ ReadGoing(k, c)

\* Of a key that t, at c, alone may have.
Becomes(k, c) == IF k \in Dist!KeysOf(c) THEN Going(k, c) ELSE Settled(k)

KeyOK(k) ==
    /\ (\A t \in All : k \notin Dist!KeysOf(frame[t])) => Settled(k)
    /\ \A t \in All : k \in Dist!KeysOf(frame[t]) => Going(k, frame[t])

KeyInv == /\ Apart
          /\ \A k \in Keys : k \notin crossed /\ Writable(k) => KeyOK(k)

\* A step that leaves k as it was, to the wire server and its observers,
SameRead(k) ==
    /\ k \in declared' <=> k \in declared
    /\ k \in DOMAIN params' <=> k \in DOMAIN params
    /\ k \in DOMAIN params => params'[k] = params[k]
    /\ k \in DOMAIN cache' <=> k \in DOMAIN cache
    /\ k \in DOMAIN cache => cache'[k] = cache[k]
    /\ watchers'[k] = watchers[k]
    /\ \A o \in Observers : k \in DOMAIN heard[o] =>
          k \in DOMAIN heard'[o] /\ heard'[o][k] = heard[o][k]

\* and to ParamStore.
SameKey(k) == SameRead(k) /\ (StoreOK(k) => StoreOK(k)')

LEMMA WatchersAre ==
    ASSUME Typed, NEW k \in Keys
    PROVE  /\ watchers[k] \in Seq(Observers)
           /\ \A i \in DOMAIN watchers[k] : watchers[k][i] \in Observers
<1>1. watchers[k] \in Seq(Observers)
  BY DEF Typed, MapsInv
<1> QED
  BY <1>1

LEMMA SameFacts ==
    ASSUME Typed, NEW k \in Keys, SameRead(k)
    PROVE  /\ Reads(k) => Reads(k)'
           /\ \A s : Has(k, s) => Has(k, s)'
           /\ k \in DOMAIN cache /\ Heard(watchers, heard, k, cache[k])
                 => Heard(watchers, heard, k, cache[k])'
           /\ \A c : k \in DOMAIN cache /\ TellOrHeard(k, c)
                 => TellOrHeard(k, c)'
<1>1. Reads(k) => Reads(k)'
  BY DEF SameRead, Reads
<1>2. \A s : Has(k, s) => Has(k, s)'
  BY DEF SameRead, Has
<1>3. k \in DOMAIN cache /\ Heard(watchers, heard, k, cache[k])
         => Heard(watchers, heard, k, cache[k])'
  BY WatchersAre DEF SameRead, Heard
<1>4. ASSUME NEW c, k \in DOMAIN cache, TellOrHeard(k, c)
      PROVE  TellOrHeard(k, c)'
  <2>1. cache'[k] = cache[k] /\ watchers'[k] = watchers[k]
    BY <1>4 DEF SameRead
  <2>2. ASSUME NEW i \in DOMAIN watchers[k]
        PROVE  \/ \E j \in DOMAIN c.tell : c.tell[j] = watchers[k][i]
               \/ /\ k \in DOMAIN heard'[watchers[k][i]]
                  /\ heard'[watchers[k][i]][k] = cache[k]
    BY <1>4, <2>2, WatchersAre DEF SameRead, TellOrHeard
  <2> QED
    BY <1>4, <2>1, <2>2 DEF TellOrHeard
<1> QED
  BY <1>1, <1>2, <1>3, <1>4

LEMMA SameGoing ==
    ASSUME Typed, NEW k \in Keys, SameKey(k), NEW c
    PROVE  /\ Settled(k) => Settled(k)'
           /\ Going(k, c) => Going(k, c)'
<1>1. /\ Reads(k) => Reads(k)'
      /\ \A s : Has(k, s) => Has(k, s)'
      /\ k \in DOMAIN cache /\ Heard(watchers, heard, k, cache[k])
            => Heard(watchers, heard, k, cache[k])'
      /\ k \in DOMAIN cache /\ TellOrHeard(k, c) => TellOrHeard(k, c)'
      /\ Reads(k) => k \in DOMAIN cache
      /\ k \in declared' <=> k \in declared
      /\ k \in DOMAIN cache' <=> k \in DOMAIN cache
      /\ StoreOK(k) => StoreOK(k)'
  <2>1. SameRead(k)
    BY DEF SameKey
  <2>2. Reads(k) => k \in DOMAIN cache
    BY DEF Reads
  <2>3. StoreOK(k) => StoreOK(k)'
    BY DEF SameKey
  <2>4. /\ k \in declared' <=> k \in declared
        /\ k \in DOMAIN cache' <=> k \in DOMAIN cache
    BY <2>1 DEF SameRead
  <2> QED
    BY <2>1, <2>2, <2>3, <2>4, SameFacts, Zenon
<1>2. Settled(k) => Settled(k)'
  BY <1>1 DEF Settled
<1>3. StoreGoing(k, c) => StoreGoing(k, c)'
  BY <1>1 DEF StoreGoing, Aims
<1>4. /\ WriteGoing(k, c) => WriteGoing(k, c)'
      /\ LastGoing(k, c) => LastGoing(k, c)'
      /\ WireGoing(k, c) => WireGoing(k, c)'
  <2>1. WriteGoing(k, c) => WriteGoing(k, c)'
    BY <1>1 DEF WriteGoing
  <2>2. LastGoing(k, c) => LastGoing(k, c)'
    BY <1>1 DEF LastGoing
  <2>3. WireGoing(k, c) => WireGoing(k, c)'
    BY <1>1 DEF WireGoing, Aims
  <2> QED
    BY <2>1, <2>2, <2>3
<1>5. ReadGoing(k, c) => ReadGoing(k, c)'
  BY <1>1, <1>4 DEF ReadGoing
<1> QED
  BY <1>2, <1>3, <1>5 DEF Going

LEMMA IdleKeys ==
    ASSUME NEW t, NEW c, FrameOK(t, c), c.at = "idle"
    PROVE  Dist!KeysOf(c) = {}
  BY KeysOfIdle DEF FrameOK

LEMMA ApartKeeps ==
    ASSUME Typed, Apart, NEW t \in All, NEW c, c = frame[t],
           NEW d, Dist!Goto(t, d), Dist!KeysOf(d) \subseteq Dist!KeysOf(c),
           crossed' = crossed
    PROVE  Apart'
<1>1. frame'[t] = d /\ \A u \in All : u # t => frame'[u] = frame[u]
  BY DEF Typed, FrameInv, Dist!Goto, All, Dist!All
<1>2. ASSUME NEW u \in All, NEW v \in All, u # v,
             NEW k \in Dist!KeysOf(frame'[u]), k \in Dist!KeysOf(frame'[v])
      PROVE  k \in crossed'
  <2>1. k \in Dist!KeysOf(frame[u])
    BY <1>1, <1>2
  <2>2. k \in Dist!KeysOf(frame[v])
    BY <1>1, <1>2
  <2> QED
    BY <1>2, <2>1, <2>2 DEF Apart
<1> QED
  BY <1>2 DEF Apart

\* A step of t that keeps to its keys.
LEMMA StepKeys ==
    ASSUME Typed, KeyInv, NEW t \in All, NEW c, c = frame[t],
           NEW d, Dist!Goto(t, d), Dist!KeysOf(d) \subseteq Dist!KeysOf(c),
           crossed' = crossed,
           \A k \in Keys : k \notin Dist!KeysOf(c) => SameKey(k),
           \A k \in Dist!KeysOf(c) :
               Writable(k) /\ Going(k, c) => Becomes(k, d)'
    PROVE  KeyInv'
<1>1. frame'[t] = d /\ \A u \in All : u # t => frame'[u] = frame[u]
  BY DEF Typed, FrameInv, Dist!Goto, All, Dist!All
<1>2. Apart'
  BY ApartKeeps DEF KeyInv
<1>3. ASSUME NEW k \in Keys, k \notin crossed, Writable(k),
             k \in Dist!KeysOf(c)
      PROVE  KeyOK(k)'
  <2>1. \A u \in All : u # t => k \notin Dist!KeysOf(frame'[u])
    BY <1>1, <1>3 DEF KeyInv, Apart
  <2>2. Going(k, c)
    BY <1>3 DEF KeyInv, KeyOK
  <2>3. Becomes(k, d)'
    BY <1>3, <2>2
  <2>4. k \in Dist!KeysOf(d) => Going(k, d)'
    BY <2>3 DEF Becomes
  <2>5. k \notin Dist!KeysOf(d) => Settled(k)'
    BY <2>3 DEF Becomes
  <2>6. (\A u \in All : k \notin Dist!KeysOf(frame'[u])) => Settled(k)'
    BY <1>1, <2>5
  <2>7. ASSUME NEW u \in All, k \in Dist!KeysOf(frame'[u])
        PROVE  Going(k, frame[u])'
    <3>1. u = t
      BY <2>1, <2>7
    <3>2. k \in Dist!KeysOf(d)
      BY <1>1, <2>7, <3>1
    <3>3. Going(k, d)'
      BY <2>4, <3>2
    <3>4. d = frame'[u]
      BY <1>1, <3>1
    <3> QED
      BY <3>3, <3>4
  <2> QED
    BY <2>6, <2>7 DEF KeyOK
<1>4. ASSUME NEW k \in Keys, k \notin crossed, Writable(k),
             k \notin Dist!KeysOf(c)
      PROVE  KeyOK(k)'
  <2>1. KeyOK(k) /\ SameKey(k)
    BY <1>4 DEF KeyInv
  <2>2. \A u \in All : k \in Dist!KeysOf(frame'[u]) =>
            u # t /\ frame'[u] = frame[u]
    BY <1>1, <1>4
  <2>3. ASSUME \A u \in All : k \notin Dist!KeysOf(frame'[u])
        PROVE  Settled(k)'
    <3>1. \A u \in All : k \notin Dist!KeysOf(frame[u])
      BY <1>1, <1>4, <2>3
    <3> QED
      BY <2>1, <3>1, SameGoing DEF KeyOK
  <2>4. ASSUME NEW u \in All, k \in Dist!KeysOf(frame'[u])
        PROVE  Going(k, frame[u])'
    <3>1. PICK e : e = frame[u]
      OBVIOUS
    <3>2. e = frame'[u] /\ Going(k, e)
      BY <2>1, <2>2, <2>4, <3>1 DEF KeyOK
    <3>3. Going(k, e)'
      BY <2>1, <3>2, SameGoing
    <3> QED
      BY <3>2, <3>3
  <2> QED
    BY <2>3, <2>4 DEF KeyOK
<1> QED
  BY <1>2, <1>3, <1>4 DEF KeyInv

\* A step of nobody, or of the public server.
LEMMA RestKeys ==
    ASSUME Typed, KeyInv, UNCHANGED <<frame, crossed>>,
           \A k \in Keys : SameKey(k)
    PROVE  KeyInv'
<1>1. Apart'
  BY DEF KeyInv, Apart
<1>2. ASSUME NEW k \in Keys, k \notin crossed, Writable(k)
      PROVE  KeyOK(k)'
  <2>1. KeyOK(k) /\ SameKey(k)
    BY <1>2 DEF KeyInv
  <2>2. (\A u \in All : k \notin Dist!KeysOf(frame'[u])) => Settled(k)'
    BY <2>1, SameGoing DEF KeyOK
  <2>3. ASSUME NEW u \in All, k \in Dist!KeysOf(frame'[u])
        PROVE  Going(k, frame[u])'
    <3>1. PICK e : e = frame[u]
      OBVIOUS
    <3>2. e = frame'[u] /\ Going(k, e)
      BY <2>1, <2>3, <3>1 DEF KeyOK
    <3>3. Going(k, e)'
      BY <2>1, <3>2, SameGoing
    <3> QED
      BY <3>2, <3>3
  <2> QED
    BY <2>2, <2>3 DEF KeyOK
<1> QED
  BY <1>1, <1>2 DEF KeyInv

\* Who else has a key when a call, a message or a fetch of it begins.
LEMMA OverlapIs ==
    ASSUME NEW t \in All, NEW ks, NEW settles \in BOOLEAN,
           Dist!Overlap(t, ks, settles)
    PROVE  \A k : k \in crossed' <=>
               \/ k \in crossed /\ ~(settles /\ k \in ks)
               \/ k \in ks /\ \E u \in All : u # t
                                  /\ k \in Dist!KeysOf(frame[u])
<1>1. Dist!All = All
  BY DEF All
<1> QED
  BY <1>1 DEF Dist!Overlap

LEMMA StartKeys ==
    ASSUME Typed, KeyInv, NEW t \in All, frame[t] = Dist!Idle,
           NEW d, Dist!Goto(t, d), NEW ks, Dist!KeysOf(d) \subseteq ks,
           NEW settles \in BOOLEAN, Dist!Overlap(t, ks, settles),
           \A k \in Keys : k \notin ks => SameKey(k),
           \A k \in ks : Writable(k) /\ (settles \/ Settled(k))
               => Becomes(k, d)'
    PROVE  KeyInv'
<1>1. frame'[t] = d /\ \A u \in All : u # t => frame'[u] = frame[u]
  BY DEF Typed, FrameInv, Dist!Goto, All, Dist!All
<1>2. \A k : k \in crossed' <=>
          \/ k \in crossed /\ ~(settles /\ k \in ks)
          \/ k \in ks /\ \E u \in All : u # t /\ k \in Dist!KeysOf(frame[u])
  BY OverlapIs
<1>3. Dist!KeysOf(frame[t]) = {}
  BY KeysOfIdle
<1>4. Apart'
  <2>1. ASSUME NEW u \in All, u # t, NEW k \in Dist!KeysOf(frame'[t]),
               k \in Dist!KeysOf(frame'[u])
        PROVE  k \in crossed'
    BY <1>1, <1>2, <2>1
  <2>2. ASSUME NEW u \in All, NEW v \in All, u # v, u # t, v # t,
               NEW k \in Dist!KeysOf(frame'[u]), k \in Dist!KeysOf(frame'[v])
        PROVE  k \in crossed'
    <3>1. k \in Dist!KeysOf(frame[u]) /\ k \in Dist!KeysOf(frame[v])
      BY <1>1, <2>2
    <3>2. k \in crossed
      BY <2>2, <3>1 DEF KeyInv, Apart
    <3> QED
      BY <1>2, <2>2, <3>1, <3>2
  <2> QED
    BY <2>1, <2>2 DEF Apart
<1>5. ASSUME NEW k \in Keys, k \notin crossed', Writable(k), k \in ks
      PROVE  KeyOK(k)'
  <2>1. \A u \in All : u # t => k \notin Dist!KeysOf(frame[u])
    BY <1>2, <1>5
  <2>2. settles \/ Settled(k)
    BY <1>2, <1>3, <1>5, <2>1 DEF KeyInv, KeyOK
  <2>3. Becomes(k, d)'
    BY <1>5, <2>2
  <2>4. k \in Dist!KeysOf(d) => Going(k, d)'
    BY <2>3 DEF Becomes
  <2>5. k \notin Dist!KeysOf(d) => Settled(k)'
    BY <2>3 DEF Becomes
  <2>6. (\A u \in All : k \notin Dist!KeysOf(frame'[u])) => Settled(k)'
    BY <1>1, <2>5
  <2>7. ASSUME NEW u \in All, k \in Dist!KeysOf(frame'[u])
        PROVE  Going(k, frame[u])'
    <3>1. u = t
      BY <1>1, <2>1, <2>7
    <3>2. d = frame'[u]
      BY <1>1, <3>1
    <3>3. k \in Dist!KeysOf(d)
      BY <2>7, <3>2
    <3>4. Going(k, d)'
      BY <2>4, <3>3
    <3> QED
      BY <3>2, <3>4
  <2> QED
    BY <2>6, <2>7 DEF KeyOK
<1>6. ASSUME NEW k \in Keys, k \notin crossed', Writable(k), k \notin ks
      PROVE  KeyOK(k)'
  <2>1. KeyOK(k) /\ SameKey(k)
    BY <1>2, <1>6 DEF KeyInv
  <2>2. \A u \in All : k \in Dist!KeysOf(frame'[u]) =>
            u # t /\ frame'[u] = frame[u]
    BY <1>1, <1>6
  <2>3. ASSUME \A u \in All : k \notin Dist!KeysOf(frame'[u])
        PROVE  Settled(k)'
    <3>1. \A u \in All : k \notin Dist!KeysOf(frame[u])
      BY <1>1, <1>3, <2>3
    <3> QED
      BY <2>1, <3>1, SameGoing DEF KeyOK
  <2>4. ASSUME NEW u \in All, k \in Dist!KeysOf(frame'[u])
        PROVE  Going(k, frame[u])'
    <3>1. PICK e : e = frame[u]
      OBVIOUS
    <3>2. e = frame'[u] /\ Going(k, e)
      BY <2>1, <2>2, <2>4, <3>1 DEF KeyOK
    <3>3. Going(k, e)'
      BY <2>1, <3>2, SameGoing
    <3> QED
      BY <3>2, <3>3
  <2> QED
    BY <2>3, <2>4 DEF KeyOK
<1> QED
  BY <1>4, <1>5, <1>6 DEF KeyInv

LEMMA SameAll ==
    ASSUME NEW k, UNCHANGED <<declared, params, cache, watchers, heard,
                              values, store>>
    PROVE  SameKey(k)
<1>1. SameRead(k)
  BY DEF SameRead
<1>2. StoreOK(k) => StoreOK(k)'
  BY DEF StoreOK, StoreFollows
<1> QED
  BY <1>1, <1>2 DEF SameKey

\* The key of a declare() or set(), and its string.
LEMMA WriteIs ==
    ASSUME NEW t, NEW c, FrameOK(t, c), IsWrite(c)
    PROVE  /\ Dist!KeysOf(c) = {c.then[1].key}
           /\ Fits(c.then[1].key, c.then[1].is)
           /\ c.todo # << >> =>
                 /\ Head(c.todo).key = c.then[1].key
                 /\ Head(c.todo).is = Shown(c.then[1].is)
                 /\ Tail(c.todo) = << >>
<1>1. c.then # << >>
  BY DEF IsWrite
<1>2. Dist!KeysOf(c) = {c.then[1].key} /\ c.then[1].key \in Keys
  BY <1>1, KeysOfCall DEF FrameOK
<1>3. PICK p : p = c.then[1]
  OBVIOUS
<1>4. Fits(p.key, p.is)
  BY <1>3 DEF FrameOK
<1>5. ASSUME c.todo # << >>
      PROVE  /\ Head(c.todo).key = p.key /\ Head(c.todo).is = Shown(p.is)
             /\ Tail(c.todo) = << >>
  <2>1. c.todo = <<Dist!Pair(p.key, Shown(p.is))>>
    BY <1>3, <1>5 DEF FrameOK
  <2> QED
    BY <1>2, <1>3, <2>1, SingleTodo
<1> QED
  BY <1>2, <1>3, <1>4, <1>5

LEMMA Moved ==
    ASSUME NEW t, NEW c, FrameOK(t, c), NEW a, NEW d, d = [c EXCEPT !.at = a]
    PROVE  /\ d.at = a /\ d.todo = c.todo /\ d.then = c.then
           /\ d.tell = c.tell /\ d.value = c.value
           /\ Dist!KeysOf(d) = Dist!KeysOf(c)
<1>1. /\ d.at = a /\ d.todo = c.todo /\ d.then = c.then
      /\ d.tell = c.tell /\ d.value = c.value
  BY FrameFields DEF Fields
<1> QED
  BY <1>1 DEF Dist!KeysOf

LEMMA OnwardKeys ==
    ASSUME NEW t, NEW c, FrameOK(t, c), c.todo # << >>,
           NEW ok \in BOOLEAN, NEW d, d = Dist!Onward(c, ok)
    PROVE  /\ d.then = c.then /\ d.todo = Tail(c.todo) /\ d.tell = c.tell
           /\ d.at \in {"apply", "persist"}
           /\ Tail(c.todo) = << >> => d.at = "persist"
           /\ Dist!KeysOf(d) \subseteq Dist!KeysOf(c)
<1>1. /\ d.then = c.then /\ d.todo = Tail(c.todo) /\ d.tell = c.tell
      /\ d.at \in {"apply", "persist"}
      /\ ~(Len(c.todo) > 1) => d.at = "persist"
  BY FrameFields DEF Fields, Dist!Onward
<1>2. /\ Len(c.todo) > 1 <=> Tail(c.todo) # << >>
      /\ DOMAIN c.todo = 1..Len(c.todo) /\ Len(c.todo) \in Nat
      /\ DOMAIN Tail(c.todo) = 1..(Len(c.todo) - 1)
      /\ \A i \in 1..(Len(c.todo) - 1) : Tail(c.todo)[i] = c.todo[i + 1]
  BY TailOfTodo DEF FrameOK
<1>3. ASSUME NEW i \in DOMAIN d.todo
      PROVE  \E j \in DOMAIN c.todo : d.todo[i].key = c.todo[j].key
  <2>1. i \in 1..(Len(c.todo) - 1) /\ d.todo[i] = c.todo[i + 1]
    BY <1>1, <1>2, <1>3
  <2>2. i + 1 \in DOMAIN c.todo
    BY <1>2, <2>1
  <2> QED
    BY <2>1, <2>2
<1>4. Dist!KeysOf(d) \subseteq Dist!KeysOf(c)
  <2> DEFINE thens == {c.then[i].key : i \in DOMAIN c.then}
  <2>1. Dist!KeysOf(d) = {d.todo[i].key : i \in DOMAIN d.todo} \cup thens
    BY <1>1, KeysOfIs
  <2>2. Dist!KeysOf(c) = {c.todo[i].key : i \in DOMAIN c.todo} \cup thens
    BY KeysOfIs
  <2> HIDE DEF thens
  <2> QED
    BY <1>3, <2>1, <2>2
<1>5. Tail(c.todo) = << >> => d.at = "persist"
  BY <1>1, <1>2, Zenon
<1> QED
  BY <1>1, <1>4, <1>5, Zenon

\* A thread that k has nothing to wait for.
Passing(k, c) ==
    c.then = << >> /\ ~Aims(k, c, {"stored", "notify", "tell"})

LEMMA PassingIs ==
    ASSUME NEW k, NEW c, Passing(k, c)
    PROVE  Going(k, c) <=> Settled(k)
<1>1. ~Aims(k, c, {"stored"})
  BY DEF Passing, Aims
<1>2. StoreGoing(k, c) <=> StoreOK(k)
  BY <1>1 DEF StoreGoing, Passing
<1>3. ReadGoing(k, c) <=>
          (k \in declared => Reads(k) /\ Heard(watchers, heard, k, cache[k]))
  BY DEF ReadGoing, WriteGoing, LastGoing, WireGoing, Passing, Aims
<1> QED
  BY <1>2, <1>3 DEF Going, Settled

LEMMA PassesOn ==
    ASSUME NEW k, NEW d, Passing(k, d), Settled(k)'
    PROVE  Becomes(k, d)'
<1>1. Going(k, d)'
  <2>1. ~Aims(k, d, {"stored"})
    BY DEF Passing, Aims
  <2>2. StoreGoing(k, d)'
    BY <2>1 DEF StoreGoing, Settled, Aims
  <2>3. ReadGoing(k, d)'
    BY DEF ReadGoing, WireGoing, Settled, Passing, Aims
  <2> QED
    BY <2>2, <2>3 DEF Going
<1> QED
  BY <1>1 DEF Becomes

LEMMA WaitsOn ==
    ASSUME NEW k, NEW d, d.then # << >>, d.at \in Before
    PROVE  Going(k, d) /\ Going(k, d)'
<1>1. StoreGoing(k, d) /\ StoreGoing(k, d)'
  BY DEF StoreGoing
<1>2. ReadGoing(k, d) /\ ReadGoing(k, d)'
  BY DEF ReadGoing
<1> QED
  BY <1>1, <1>2 DEF Going

LEMMA InFrame ==
    ASSUME Typed, NEW t \in All, NEW c, c = frame[t]
    PROVE  /\ FrameOK(t, c)
           /\ \A k \in Dist!KeysOf(c) : k \in Keys
  BY KeysAreKeys DEF Typed, FrameInv

LEMMA RejectKeys ==
    ASSUME Typed, KeyInv, NEW t \in All, Dist!Reject(t),
           UNCHANGED values
    PROVE  KeyInv'
<1>1. PICK c : c = frame[t]
  OBVIOUS
<1>2. PICK d : d = Dist!Onward(c, FALSE)
  OBVIOUS
<1>3. /\ c.at = "apply" /\ Dist!Rejects(Head(c.todo))
      /\ Dist!Goto(t, d) /\ crossed' = crossed
      /\ UNCHANGED <<declared, params, cache, watchers, heard, store>>
  BY <1>1, <1>2, Unchangeds DEF Dist!Reject
<1>4. FrameOK(t, c) /\ c.todo # << >> /\ \A k \in Dist!KeysOf(c) : k \in Keys
  BY <1>1, <1>3, InFrame DEF FrameOK, Before
<1>5. /\ d.then = c.then /\ d.todo = Tail(c.todo)
      /\ d.at \in {"apply", "persist"}
      /\ Dist!KeysOf(d) \subseteq Dist!KeysOf(c)
  BY <1>2, <1>4, OnwardKeys
<1>6. \A k : SameKey(k)
  BY <1>3, SameAll
<1>7. ASSUME NEW k \in Dist!KeysOf(c), Writable(k), Going(k, c)
      PROVE  Becomes(k, d)'
  <2>1. CASE c.then # << >>
    <3>1. IsWrite(c)
      BY <1>3, <2>1 DEF IsWrite
    <3>2. PICK p : p = c.then[1]
      OBVIOUS
    <3>3. /\ k = p.key /\ Head(c.todo).key = k
          /\ Head(c.todo).is = Shown(p.is) /\ Fits(k, p.is)
      BY <1>4, <1>7, <3>1, <3>2, WriteIs
    <3>4. Dist!typeAccepts(Desc[k].type, Shown(p.is))
      BY <3>3, FitsMeans
    <3> QED
      BY <1>3, <1>7, <3>3, <3>4 DEF Dist!Rejects, Writable
  <2>2. CASE c.then = << >>
    <3>1. Passing(k, c) /\ Passing(k, d)
      BY <1>3, <1>5, <2>2 DEF Passing, Aims
    <3>2. Settled(k)
      BY <1>7, <3>1, PassingIs
    <3>3. Settled(k)'
      BY <1>4, <1>6, <3>2, SameGoing
    <3> QED
      BY <3>1, <3>3, PassesOn
  <2> QED
    BY <2>1, <2>2
<1> QED
  BY <1>1, <1>3, <1>5, <1>6, <1>7, StepKeys

\* From one place before the store to the next: Accept and setSchema().
LEMMA NearerKeys ==
    ASSUME Typed, KeyInv, NEW t \in All, NEW c, c = frame[t],
           NEW a \in Before, NEW d, d = [c EXCEPT !.at = a],
           c.at \in Before, Dist!Goto(t, d), crossed' = crossed,
           UNCHANGED <<declared, params, cache, watchers, heard, values, store>>
    PROVE  KeyInv'
<1>1. FrameOK(t, c) /\ \A k \in Dist!KeysOf(c) : k \in Keys
  BY InFrame
<1>2. /\ d.at = a /\ d.todo = c.todo /\ d.then = c.then
      /\ Dist!KeysOf(d) = Dist!KeysOf(c)
  BY <1>1, Moved
<1>3. \A k : SameKey(k)
  BY SameAll
<1>4. ASSUME NEW k \in Dist!KeysOf(c), Writable(k), Going(k, c)
      PROVE  Becomes(k, d)'
  <2>1. CASE c.then # << >>
    <3>1. Going(k, d)'
      BY <1>2, <2>1, WaitsOn
    <3> QED
      BY <1>2, <1>4, <3>1 DEF Becomes
  <2>2. CASE c.then = << >>
    <3>1. Passing(k, c) /\ Passing(k, d)
      BY <1>2, <2>2 DEF Passing, Aims, Before
    <3>2. Settled(k)
      BY <1>4, <3>1, PassingIs
    <3>3. Settled(k)'
      BY <1>1, <1>3, <3>2, SameGoing
    <3> QED
      BY <3>1, <3>3, PassesOn
  <2> QED
    BY <2>1, <2>2
<1>5. Dist!KeysOf(d) \subseteq Dist!KeysOf(c)
  BY <1>2
<1> QED
  BY <1>3, <1>4, <1>5, StepKeys

LEMMA AcceptKeys ==
    ASSUME Typed, KeyInv, NEW t \in All, Dist!Accept(t), UNCHANGED values
    PROVE  KeyInv'
<1>1. PICK c : c = frame[t]
  OBVIOUS
<1>2. PICK d : d = [c EXCEPT !.at = "storing"]
  OBVIOUS
<1>3. /\ c.at \in Before /\ Dist!Goto(t, d) /\ crossed' = crossed
      /\ UNCHANGED <<declared, params, cache, watchers, heard, store>>
  BY <1>1, <1>2, Unchangeds DEF Dist!Accept, Before
<1>4. "storing" \in Before
  BY DEF Before
<1> QED
  BY <1>1, <1>2, <1>3, <1>4, NearerKeys

\* Another key's string.
LEMMA OtherParam ==
    ASSUME NEW k, NEW j, NEW s, k # j, params' = Dist!With(params, j, s),
           k \in declared' <=> k \in declared,
           UNCHANGED <<cache, watchers, heard, values, store>>
    PROVE  SameKey(k)
<1>1. /\ k \in DOMAIN params' <=> k \in DOMAIN params
      /\ k \in DOMAIN params => params'[k] = params[k]
  BY WithIs DEF Dist!With
<1>2. SameRead(k)
  BY <1>1 DEF SameRead
<1>3. StoreOK(k) => StoreOK(k)'
  BY <1>1 DEF StoreOK, StoreFollows
<1> QED
  BY <1>2, <1>3 DEF SameKey

LEMMA StoreParamKeys ==
    ASSUME Typed, KeyInv, NEW t \in All, Dist!StoreParam(t), UNCHANGED values
    PROVE  KeyInv'
<1>1. PICK c : c = frame[t]
  OBVIOUS
<1>2. PICK d : d = [c EXCEPT !.at = "stored"]
  OBVIOUS
<1>3. PICK j, s : j = Head(c.todo).key /\ s = Head(c.todo).is
  OBVIOUS
<1>4. /\ c.at = "storing" /\ params' = Dist!With(params, j, s)
      /\ Dist!Goto(t, d) /\ crossed' = crossed
      /\ UNCHANGED <<declared, cache, watchers, heard, store>>
  BY <1>1, <1>2, <1>3, Unchangeds DEF Dist!StoreParam
<1>5. FrameOK(t, c) /\ c.todo # << >> /\ \A k \in Dist!KeysOf(c) : k \in Keys
  BY <1>1, <1>4, InFrame DEF FrameOK, Before
<1>6. /\ d.at = "stored" /\ d.todo = c.todo /\ d.then = c.then
      /\ Dist!KeysOf(d) = Dist!KeysOf(c) /\ j \in Dist!KeysOf(c)
  BY <1>2, <1>3, <1>5, Moved, KeysOfTodo
<1>7. \A k : k # j => SameKey(k)
  BY <1>4, OtherParam
<1>8. Has(j, s)'
  BY <1>4 DEF Has, Dist!With
<1>9. ASSUME NEW k \in Dist!KeysOf(c), Writable(k), Going(k, c)
      PROVE  Going(k, d)'
  <2>1. CASE c.then # << >>
    <3>1. PICK p : p = c.then[1]
      OBVIOUS
    <3>2. k = j /\ s = Shown(p.is)
      BY <1>3, <1>4, <1>5, <1>9, <2>1, <3>1, WriteIs DEF IsWrite
    <3>3. StoreGoing(k, d)'
      BY <1>3, <1>5, <1>6, <1>8, <3>2 DEF StoreGoing, Aims
    <3>4. WriteGoing(k, d)'
      BY <1>5, <1>6, <1>8, <2>1, <3>1, <3>2 DEF WriteGoing
    <3> QED
      BY <3>3, <3>4 DEF Going, ReadGoing
  <2>2. CASE c.then = << >>
    <3>1. Passing(k, c)
      BY <1>4, <2>2 DEF Passing, Aims
    <3>2. Settled(k)
      BY <1>9, <3>1, PassingIs
    <3>3. CASE k # j
      <4>1. Passing(k, d)
        BY <1>3, <1>6, <2>2, <3>3 DEF Passing, Aims
      <4>2. Settled(k)'
        BY <1>5, <1>7, <3>2, <3>3, SameGoing
      <4>3. Becomes(k, d)'
        BY <4>1, <4>2, PassesOn
      <4> QED
        BY <1>6, <4>3 DEF Becomes
    <3>4. CASE k = j
      <4>1. StoreGoing(k, d)'
        BY <1>3, <1>5, <1>6, <1>8, <3>4 DEF StoreGoing, Aims
      <4>2. k \in declared =>
                k \in DOMAIN cache /\ Heard(watchers, heard, k, cache[k])
        BY <3>2 DEF Settled, Reads
      <4>3. k \in declared => WireGoing(k, d)'
        BY <1>3, <1>4, <1>5, <1>6, <1>8, <2>2, <3>4, <4>2
           DEF WireGoing, Aims, Heard
      <4> QED
        BY <1>4, <4>1, <4>3 DEF Going, ReadGoing
    <3> QED
      BY <3>3, <3>4
  <2> QED
    BY <2>1, <2>2
<1>10. \A k \in Dist!KeysOf(c) : Writable(k) /\ Going(k, c) => Becomes(k, d)'
  BY <1>6, <1>9 DEF Becomes
<1> QED
  BY <1>1, <1>4, <1>6, <1>7, <1>10, StepKeys

LEMMA StoredKeys ==
    ASSUME Typed, KeyInv, NEW t \in All, Dist!SetStore(t), UNCHANGED values
    PROVE  KeyInv'
<1>1. PICK c : c = frame[t]
  OBVIOUS
<1>2. PICK j, s : j = Head(c.todo).key /\ s = Head(c.todo).is
  OBVIOUS
<1>3. PICK v : v = IF j \in declared THEN Read(j, s) ELSE None
  OBVIOUS
<1>4. PICK d : d = IF v = None THEN [c EXCEPT !.at = "tell"]
                   ELSE [c EXCEPT !.at = "notify", !.value = v]
  OBVIOUS
<1>5. /\ c.at = "stored" /\ store' = Dist!With(store, j, s)
      /\ Dist!Goto(t, d) /\ crossed' = crossed
      /\ UNCHANGED <<declared, params, cache, watchers, heard>>
  BY <1>1, <1>2, <1>3, <1>4, Unchangeds DEF Dist!SetStore, Dist!Parsed, Read, None
<1>6. /\ FrameOK(t, c) /\ c.todo # << >> /\ c.tell = << >>
      /\ \A k \in Dist!KeysOf(c) : k \in Keys
  BY <1>1, <1>5, InFrame DEF FrameOK
<1>7. /\ d.todo = c.todo /\ d.then = c.then /\ d.tell = << >>
      /\ v = None => d.at = "tell"
      /\ v # None => d.at = "notify" /\ d.value = v
  BY <1>4, <1>6, FrameFields DEF Fields
<1>8. Dist!KeysOf(d) = Dist!KeysOf(c) /\ j \in Dist!KeysOf(c)
  BY <1>2, <1>6, <1>7, KeysOfTodo DEF Dist!KeysOf
<1>9. \A k : SameRead(k)
  BY <1>5 DEF SameRead
<1>10. ASSUME NEW k, k # j PROVE SameKey(k)
  <2>1. /\ k \in DOMAIN store' <=> k \in DOMAIN store
        /\ k \in DOMAIN store => store'[k] = store[k]
    BY <1>5, <1>10, WithIs DEF Dist!With
  <2>2. StoreOK(k) => StoreOK(k)'
    BY <1>5, <2>1 DEF StoreOK, StoreFollows
  <2> QED
    BY <1>9, <2>2 DEF SameKey
<1>11. Has(j, s) => StoreOK(j)'
  BY <1>5 DEF Has, StoreOK, StoreFollows, Dist!With
<1>12. ASSUME NEW k \in Dist!KeysOf(c), Writable(k), Going(k, c)
       PROVE  Going(k, d)'
  <2>1. CASE k # j
    <3>1. c.then = << >>
      BY <1>2, <1>5, <1>6, <1>12, <2>1, WriteIs DEF IsWrite
    <3>2. Passing(k, c) /\ Passing(k, d)
      BY <1>2, <1>7, <2>1, <3>1 DEF Passing, Aims
    <3>3. Settled(k)'
      BY <1>6, <1>10, <1>12, <2>1, <3>2, PassingIs, SameGoing
    <3>4. Becomes(k, d)'
      BY <3>2, <3>3, PassesOn
    <3> QED
      BY <1>8, <1>12, <3>4 DEF Becomes
  <2>2. CASE k = j
    <3>1. Aims(k, c, {"stored"}) /\ c.at \notin Before
      BY <1>2, <1>5, <1>6, <2>2 DEF Aims, Before
    <3>2. Has(k, s)
      BY <1>2, <1>12, <3>1 DEF Going, StoreGoing
    <3>3. StoreGoing(k, d)'
      BY <1>7, <1>11, <2>2, <3>2 DEF StoreGoing, Aims
    <3>4. Has(k, s)'
      BY <1>5, <3>2 DEF Has
    <3>5. ASSUME k \in declared PROVE WriteGoing(k, d)' \/ WireGoing(k, d)'
      <4>1. WriteGoing(k, c) \/ WireGoing(k, c)
        BY <1>5, <1>12, <3>1, <3>5 DEF Going, ReadGoing, LastGoing
      <4>2. CASE WriteGoing(k, c)
        BY <1>5, <1>6, <1>7, <4>2 DEF WriteGoing, Has
      <4>3. CASE WireGoing(k, c)
        <5>1. /\ k \in DOMAIN cache /\ Heard(watchers, heard, k, cache[k])
              /\ c.then = << >>
          BY <1>5, <3>1, <4>3 DEF WireGoing, Aims
        <5>2. CASE v = None
          <6>1. Reads(k)'
            BY <1>3, <1>5, <2>2, <3>2, <3>5, <5>1, <5>2 DEF Reads, Has
          <6>2. TellOrHeard(k, d)'
            BY <1>5, <1>7, <5>1 DEF TellOrHeard, Heard
          <6>3. Aims(k, d, {"tell"})
            BY <1>2, <1>6, <1>7, <2>2, <5>2 DEF Aims
          <6> QED
            BY <1>7, <5>1, <6>1, <6>2, <6>3 DEF WireGoing, Aims
        <5>3. CASE v # None
          <6>1. Aims(k, d, {"notify"})
            BY <1>2, <1>6, <1>7, <2>2, <5>3 DEF Aims
          <6>2. d.value = Read(k, s)
            BY <1>3, <1>7, <2>2, <3>5, <5>3
          <6> QED
            BY <1>2, <1>7, <3>4, <5>1, <6>1, <6>2 DEF WireGoing, Aims
        <5> QED
          BY <5>2, <5>3
      <4> QED
        BY <4>1, <4>2, <4>3
    <3> QED
      BY <1>5, <3>3, <3>5 DEF Going, ReadGoing
  <2> QED
    BY <2>1, <2>2
<1>13. \A k \in Dist!KeysOf(c) : Writable(k) /\ Going(k, c) => Becomes(k, d)'
  BY <1>8, <1>12 DEF Becomes
<1>14. \A k \in Keys : k \notin Dist!KeysOf(c) => SameKey(k)
  BY <1>8, <1>10
<1> QED
  BY <1>1, <1>5, <1>8, <1>13, <1>14, StepKeys

LEMMA PersistKeys ==
    ASSUME Typed, KeyInv, NEW t \in All, Dist!Persist(t), UNCHANGED values
    PROVE  KeyInv'
<1>1. PICK c : c = frame[t]
  OBVIOUS
<1>2. PICK d : d = Dist!Finish(c)
  OBVIOUS
<1>3. /\ c.at = "persist" /\ Dist!Goto(t, d) /\ crossed' = crossed
      /\ UNCHANGED <<declared, params, cache, watchers, heard, store>>
  BY <1>1, <1>2, Unchangeds DEF Dist!Persist
<1>4. /\ FrameOK(t, c) /\ c.todo = << >>
      /\ \A k \in Dist!KeysOf(c) : k \in Keys
  BY <1>1, <1>3, InFrame DEF FrameOK
<1>5. CASE c.then = << >>
  <2>1. Dist!KeysOf(c) = {}
    BY <1>4, <1>5, KeysOfIs
  <2>2. d = Dist!Idle
    BY <1>2, <1>5 DEF Dist!Finish
  <2>3. Dist!KeysOf(d) \subseteq Dist!KeysOf(c)
    BY <2>2, KeysOfIdle
  <2>4. \A k \in Keys : SameKey(k)
    BY <1>3, SameAll
  <2> QED
    BY <1>1, <1>3, <2>1, <2>3, <2>4, StepKeys
<1>6. CASE c.then # << >>
  <2>1. d = [c EXCEPT !.at = "notify", !.value = c.then[1].is]
    BY <1>2, <1>6 DEF Dist!Finish
  <2>2. d.at = "notify" /\ d.todo = c.todo /\ d.then = c.then
    BY <1>4, <2>1, FrameFields DEF Fields
  <2>3. Dist!KeysOf(d) = Dist!KeysOf(c)
    BY <2>2 DEF Dist!KeysOf
  <2>4. \A k \in Keys : SameKey(k)
    BY <1>3, SameAll
  <2>5. ASSUME NEW k \in Dist!KeysOf(c), Writable(k), Going(k, c)
        PROVE  Going(k, d)'
    <3>1. StoreOK(k)
      BY <1>3, <1>4, <2>5 DEF Going, StoreGoing, Aims, Before
    <3>2. StoreOK(k)'
      BY <1>4, <2>4, <2>5, <3>1 DEF SameKey
    <3>3. StoreGoing(k, d)'
      BY <2>2, <3>2 DEF StoreGoing, Aims
    <3>4. k \in declared => WriteGoing(k, c)
      BY <1>3, <1>4, <1>6, <2>5
         DEF Going, ReadGoing, LastGoing, WireGoing, Before
    <3>5. k \in declared => WriteGoing(k, d)'
      BY <1>3, <1>4, <1>6, <2>2, <3>4 DEF WriteGoing, Has
    <3> QED
      BY <1>3, <3>3, <3>5 DEF Going, ReadGoing
  <2>6. \A k \in Dist!KeysOf(c) : Writable(k) /\ Going(k, c) => Becomes(k, d)'
    BY <2>3, <2>5 DEF Becomes
  <2>7. Dist!KeysOf(d) \subseteq Dist!KeysOf(c)
    BY <2>3
  <2> QED
    BY <1>1, <1>3, <2>4, <2>6, <2>7, StepKeys
<1> QED
  BY <1>5, <1>6

LEMMA NotifyKeys ==
    ASSUME Typed, KeyInv, NEW t \in All, Dist!Notify(t), UNCHANGED values
    PROVE  KeyInv'
<1>1. PICK c : c = frame[t]
  OBVIOUS
<1>2. PICK j, os : j = Dist!NotifyKey(c) /\ os = watchers[j]
  OBVIOUS
<1>3. PICK d : d = [c EXCEPT !.at = "tell", !.tell = os]
  OBVIOUS
<1>4. /\ c.at = "notify" /\ cache' = Dist!With(cache, j, c.value)
      /\ Dist!Goto(t, d) /\ crossed' = crossed
      /\ UNCHANGED <<declared, params, watchers, heard, store>>
  BY <1>1, <1>2, <1>3, Unchangeds DEF Dist!Notify
<1>5. FrameOK(t, c) /\ \A k \in Dist!KeysOf(c) : k \in Keys
  BY <1>1, InFrame
<1>6. /\ d.todo = c.todo /\ d.then = c.then /\ d.value = c.value
      /\ d.at = "tell" /\ d.tell = os
  BY <1>3, <1>5, FrameFields DEF Fields
<1>7. Dist!KeysOf(d) = Dist!KeysOf(c) /\ j \in Dist!KeysOf(c)
  BY <1>2, <1>4, <1>5, <1>6, NotifyKeyIn DEF Dist!KeysOf
<1>8. ASSUME NEW k, k # j PROVE SameKey(k)
  <2>1. /\ k \in DOMAIN cache' <=> k \in DOMAIN cache
        /\ k \in DOMAIN cache => cache'[k] = cache[k]
    BY <1>4, <1>8, WithIs DEF Dist!With
  <2>2. SameRead(k)
    BY <1>4, <2>1 DEF SameRead
  <2>3. StoreOK(k) => StoreOK(k)'
    BY <1>4 DEF StoreOK, StoreFollows
  <2> QED
    BY <2>2, <2>3 DEF SameKey
<1>9. j \in DOMAIN cache' /\ cache'[j] = c.value
  BY <1>4 DEF Dist!With
<1>10. TellOrHeard(j, d)'
  <2>1. \A i \in DOMAIN watchers'[j] :
            \E n \in DOMAIN d.tell : d.tell[n] = watchers'[j][i]
    BY <1>2, <1>4, <1>6
  <2> QED
    BY <1>6, <1>9, <2>1 DEF TellOrHeard
<1>11. ASSUME NEW k \in Dist!KeysOf(c), Writable(k), Going(k, c)
       PROVE  Going(k, d)'
  <2>1. CASE k # j
    <3>1. c.then = << >>
      <4>1. c.then # << >> => IsWrite(c)
        BY <1>4 DEF IsWrite
      <4>2. IsWrite(c) => j = c.then[1].key
        BY <1>2, <1>5, WriteIs DEF Dist!NotifyKey
      <4> QED
        BY <1>5, <1>11, <2>1, <4>1, <4>2, WriteIs
    <3>2. Passing(k, c) /\ Passing(k, d)
      <4>1. c.todo # << >> => j = Head(c.todo).key
        BY <1>2 DEF Dist!NotifyKey
      <4> QED
        BY <1>4, <1>6, <2>1, <3>1, <4>1 DEF Passing, Aims
    <3>3. Settled(k)'
      BY <1>5, <1>8, <1>11, <2>1, <3>2, PassingIs, SameGoing
    <3>4. Becomes(k, d)'
      BY <3>2, <3>3, PassesOn
    <3> QED
      BY <1>7, <1>11, <3>4 DEF Becomes
  <2>2. CASE k = j
    <3>1. StoreGoing(k, d)'
      <4>1. StoreOK(k)
        BY <1>4, <1>11 DEF Going, StoreGoing, Aims, Before
      <4>2. StoreOK(k)'
        BY <1>4, <4>1 DEF StoreOK, StoreFollows
      <4> QED
        BY <1>6, <4>2 DEF StoreGoing, Aims
    <3>2. ASSUME k \in declared
          PROVE  WriteGoing(k, d)' \/ LastGoing(k, d)' \/ WireGoing(k, d)'
      <4>1. WriteGoing(k, c) \/ WireGoing(k, c)
        BY <1>4, <1>11, <3>2 DEF Going, ReadGoing, LastGoing, Before
      <4>2. CASE WriteGoing(k, c) /\ c.todo # << >>
        BY <1>4, <1>6, <4>2 DEF WriteGoing, Has
      <4>3. CASE WriteGoing(k, c) /\ c.todo = << >>
        <5>1. c.then # << >> /\ Has(k, Shown(c.then[1].is))
          BY <4>3 DEF WriteGoing
        <5>2. c.value = c.then[1].is
          BY <1>4, <1>5, <4>3, <5>1 DEF FrameOK, IsWrite
        <5>3. Reads(k)'
          BY <1>4, <1>9, <2>2, <5>1, <5>2 DEF Reads, Has
        <5> QED
          BY <1>6, <1>10, <2>2, <4>3, <5>1, <5>3 DEF LastGoing
      <4>4. CASE WireGoing(k, c)
        <5>1. c.then = << >> /\ c.todo # << >> /\ Head(c.todo).key = k
          BY <1>2, <1>4, <1>5, <2>2, <4>4
             DEF WireGoing, FrameOK, Dist!NotifyKey
        <5>2. Has(k, Head(c.todo).is) /\ c.value = Read(k, Head(c.todo).is)
          BY <1>4, <4>4, <5>1 DEF WireGoing, Aims
        <5>3. Reads(k)'
          BY <1>4, <1>9, <2>2, <5>2 DEF Reads, Has
        <5>4. Aims(k, d, {"tell"})
          BY <1>6, <5>1 DEF Aims
        <5> QED
          BY <1>6, <1>10, <2>2, <5>1, <5>3, <5>4 DEF WireGoing, Aims
      <4> QED
        BY <4>1, <4>2, <4>3, <4>4
    <3> QED
      BY <1>4, <3>1, <3>2 DEF Going, ReadGoing
  <2> QED
    BY <2>1, <2>2
<1>12. \A k \in Dist!KeysOf(c) : Writable(k) /\ Going(k, c) => Becomes(k, d)'
  BY <1>7, <1>11 DEF Becomes
<1>13. \A k \in Keys : k \notin Dist!KeysOf(c) => SameKey(k)
  BY <1>7, <1>8
<1>14. Dist!KeysOf(d) \subseteq Dist!KeysOf(c)
  BY <1>7
<1> QED
  BY <1>1, <1>4, <1>12, <1>13, <1>14, StepKeys

\* The observers that are still to be told, once the first one is.
LEMMA TailTells ==
    ASSUME NEW s \in Seq(Observers), s # << >>, NEW o, o = Head(s)
    PROVE  /\ o \in Observers
           /\ \A i \in DOMAIN s :
                 s[i] = o \/ \E j \in DOMAIN Tail(s) : Tail(s)[j] = s[i]
<1>1. /\ Tail(s) \in Seq(Observers) /\ Len(Tail(s)) = Len(s) - 1
      /\ \A i \in 1..Len(Tail(s)) : Tail(s)[i] = s[i + 1]
      /\ o = s[1] /\ 1 \in DOMAIN s /\ DOMAIN Tail(s) = 1..Len(Tail(s))
      /\ DOMAIN s = 1..Len(s) /\ Len(s) \in Nat
  BY HeadTailProperties
<1>2. o \in Observers
  BY <1>1
<1>3. ASSUME NEW i \in DOMAIN s, i # 1
      PROVE  \E j \in DOMAIN Tail(s) : Tail(s)[j] = s[i]
  <2>1. i - 1 \in DOMAIN Tail(s) /\ (i - 1) + 1 = i
    BY <1>1, <1>3
  <2>2. Tail(s)[i - 1] = s[(i - 1) + 1]
    BY <1>1, <2>1
  <2> QED
    BY <2>1, <2>2
<1> QED
  BY <1>1, <1>2, <1>3

LEMMA TellKeys ==
    ASSUME Typed, KeyInv, NEW t \in All, Dist!Tell(t), UNCHANGED values
    PROVE  KeyInv'
<1>1. PICK c : c = frame[t]
  OBVIOUS
<1>2. PICK j, o : j = Dist!NotifyKey(c) /\ o = Head(c.tell)
  OBVIOUS
<1>3. PICK d : d = [c EXCEPT !.tell = Tail(@)]
  OBVIOUS
<1>4. /\ c.at = "tell" /\ c.tell # << >>
      /\ heard' = [heard EXCEPT ![o] = Dist!With(@, j, c.value)]
      /\ Dist!Goto(t, d) /\ crossed' = crossed
      /\ UNCHANGED <<declared, params, cache, watchers, store>>
  BY <1>1, <1>2, <1>3, Unchangeds DEF Dist!Tell
<1>5. /\ FrameOK(t, c) /\ \A k \in Dist!KeysOf(c) : k \in Keys
      /\ c.tell \in Seq(Observers)
  BY <1>1, InFrame DEF FrameOK
<1>6. /\ d.todo = c.todo /\ d.then = c.then /\ d.value = c.value
      /\ d.at = "tell" /\ d.tell = Tail(c.tell)
  BY <1>3, <1>4, <1>5, FrameFields DEF Fields
<1>7. Dist!KeysOf(d) = Dist!KeysOf(c) /\ j \in Dist!KeysOf(c)
  BY <1>2, <1>4, <1>5, <1>6, NotifyKeyIn DEF Dist!KeysOf
<1>8. /\ o \in Observers
      /\ \A i \in DOMAIN c.tell :
            c.tell[i] = o \/ \E n \in DOMAIN d.tell : d.tell[n] = c.tell[i]
  BY <1>2, <1>4, <1>5, <1>6, TailTells
<1>9. \A p \in Observers : heard'[p] = IF p = o
                              THEN Dist!With(heard[o], j, c.value) ELSE heard[p]
  BY <1>4, <1>8 DEF Typed, MapsInv
<1>10. /\ j \in DOMAIN heard'[o] /\ heard'[o][j] = c.value
       /\ \A k : k # j /\ k \in DOMAIN heard[o] =>
              k \in DOMAIN heard'[o] /\ heard'[o][k] = heard[o][k]
  BY <1>8, <1>9 DEF Dist!With
<1>11. ASSUME NEW k, k # j PROVE SameKey(k)
  <2>1. SameRead(k)
    BY <1>4, <1>8, <1>9, <1>10, <1>11 DEF SameRead
  <2>2. StoreOK(k) => StoreOK(k)'
    BY <1>4 DEF StoreOK, StoreFollows
  <2> QED
    BY <2>1, <2>2 DEF SameKey
<1>12. TellOrHeard(j, c) => TellOrHeard(j, d)'
  <2>1. ASSUME TellOrHeard(j, c), NEW i \in DOMAIN watchers[j]
        PROVE  \/ \E n \in DOMAIN d.tell : d.tell[n] = watchers[j][i]
               \/ /\ j \in DOMAIN heard'[watchers[j][i]]
                  /\ heard'[watchers[j][i]][j] = cache[j]
    <3>1. PICK w : w = watchers[j][i]
      OBVIOUS
    <3>2. w \in Observers /\ c.value = cache[j]
      BY <1>4, <1>5, <1>7, <2>1, <3>1, WatchersAre DEF TellOrHeard
    <3>3. CASE w = o
      BY <1>10, <3>1, <3>2, <3>3
    <3>4. CASE w # o
      BY <1>8, <1>9, <2>1, <3>1, <3>2, <3>4 DEF TellOrHeard
    <3> QED
      BY <3>3, <3>4
  <2> QED
    BY <1>4, <1>6, <2>1 DEF TellOrHeard
<1>13. ASSUME NEW k \in Dist!KeysOf(c), Writable(k), Going(k, c)
       PROVE  Going(k, d)'
  <2>1. StoreGoing(k, d)'
    <3>1. StoreOK(k)
      BY <1>4, <1>13 DEF Going, StoreGoing, Aims, Before
    <3>2. StoreOK(k)'
      BY <1>4, <3>1 DEF StoreOK, StoreFollows
    <3> QED
      BY <1>6, <3>2 DEF StoreGoing, Aims
  <2>2. CASE k # j
    <3>1. c.then = << >>
      <4>1. c.then # << >> /\ c.todo # << >> => IsWrite(c)
        BY DEF IsWrite
      <4>2. IsWrite(c) => k = c.then[1].key /\ j = c.then[1].key
        BY <1>2, <1>5, <1>13, WriteIs DEF Dist!NotifyKey
      <4>3. c.then # << >> /\ c.todo = << >> =>
                k = c.then[1].key /\ j = c.then[1].key
        BY <1>2, <1>5, <1>13, KeysOfCall DEF Dist!NotifyKey
      <4> QED
        BY <2>2, <4>1, <4>2, <4>3
    <3>2. Passing(k, c) /\ Passing(k, d)
      <4>1. c.todo # << >> => j = Head(c.todo).key
        BY <1>2 DEF Dist!NotifyKey
      <4> QED
        BY <1>4, <1>6, <2>2, <3>1, <4>1 DEF Passing, Aims
    <3>3. Settled(k)'
      BY <1>5, <1>11, <1>13, <2>2, <3>2, PassingIs, SameGoing
    <3>4. Becomes(k, d)'
      BY <3>2, <3>3, PassesOn
    <3> QED
      BY <1>7, <1>13, <3>4 DEF Becomes
  <2>3. CASE k = j
    <3>1. Reads(k) => Reads(k)'
      BY <1>4 DEF Reads
    <3>2. ASSUME k \in declared
          PROVE  WriteGoing(k, d)' \/ LastGoing(k, d)' \/ WireGoing(k, d)'
      <4>1. WriteGoing(k, c) \/ LastGoing(k, c) \/ WireGoing(k, c)
        BY <1>4, <1>13, <3>2 DEF Going, ReadGoing, Before
      <4>2. CASE WriteGoing(k, c)
        BY <1>4, <1>6, <4>2 DEF WriteGoing, Has
      <4>3. CASE LastGoing(k, c)
        BY <1>6, <1>12, <2>3, <3>1, <4>3 DEF LastGoing
      <4>4. CASE WireGoing(k, c)
        <5>1. c.then = << >> /\ c.todo # << >> /\ Head(c.todo).key = k
          BY <1>2, <1>4, <1>5, <2>3, <4>4
             DEF WireGoing, FrameOK, Dist!NotifyKey
        <5>2. Reads(k) /\ TellOrHeard(k, c)
          BY <1>4, <4>4, <5>1 DEF WireGoing, Aims
        <5>3. Aims(k, d, {"tell"}) /\ d.then = << >>
          BY <1>6, <5>1 DEF Aims
        <5> QED
          BY <1>12, <2>3, <3>1, <5>2, <5>3 DEF WireGoing, Aims
      <4> QED
        BY <4>1, <4>2, <4>3, <4>4
    <3> QED
      BY <1>4, <2>1, <3>2 DEF Going, ReadGoing
  <2> QED
    BY <2>2, <2>3
<1>14. \A k \in Dist!KeysOf(c) : Writable(k) /\ Going(k, c) => Becomes(k, d)'
  BY <1>7, <1>13 DEF Becomes
<1>15. \A k \in Keys : k \notin Dist!KeysOf(c) => SameKey(k)
  BY <1>7, <1>11
<1>16. Dist!KeysOf(d) \subseteq Dist!KeysOf(c)
  BY <1>7
<1> QED
  BY <1>1, <1>4, <1>14, <1>15, <1>16, StepKeys

LEMMA ToldKeys ==
    ASSUME Typed, KeyInv, NEW t \in All, Dist!Told(t), UNCHANGED values
    PROVE  KeyInv'
<1>1. PICK c : c = frame[t]
  OBVIOUS
<1>2. PICK d : d = IF c.todo = << >> THEN Dist!Idle ELSE Dist!Onward(c, TRUE)
  OBVIOUS
<1>3. /\ c.at = "tell" /\ c.tell = << >> /\ Dist!Goto(t, d)
      /\ crossed' = crossed
      /\ UNCHANGED <<declared, params, cache, watchers, heard, store>>
  BY <1>1, <1>2, Unchangeds DEF Dist!Told
<1>4. FrameOK(t, c) /\ \A k \in Dist!KeysOf(c) : k \in Keys
  BY <1>1, InFrame
<1>5. \A k : SameKey(k)
  BY <1>3, SameAll
<1>6. \A k : TellOrHeard(k, c) => Heard(watchers, heard, k, cache[k])
  BY <1>3 DEF TellOrHeard, Heard
<1>7. ASSUME NEW k, Going(k, c) PROVE StoreOK(k)
  BY <1>3, <1>7 DEF Going, StoreGoing, Aims, Before
<1>8. CASE c.todo = << >>
  <2>1. Dist!KeysOf(d) = {}
    BY <1>2, <1>8, KeysOfIdle
  <2>2. ASSUME NEW k \in Dist!KeysOf(c), Going(k, c) PROVE Becomes(k, d)'
    <3>1. c.then # << >>
      BY <1>3, <1>4, <1>8 DEF FrameOK
    <3>2. k \in declared => LastGoing(k, c)
      BY <1>3, <1>8, <2>2, <3>1
         DEF Going, ReadGoing, WriteGoing, WireGoing, Before
    <3>3. Settled(k)
      BY <1>6, <1>7, <2>2, <3>2 DEF Settled, LastGoing
    <3>4. Settled(k)'
      BY <1>4, <1>5, <3>3, SameGoing
    <3> QED
      BY <2>1, <3>4 DEF Becomes
  <2>3. Dist!KeysOf(d) \subseteq Dist!KeysOf(c)
    BY <2>1
  <2> QED
    BY <1>1, <1>3, <1>5, <2>2, <2>3, StepKeys
<1>9. CASE c.todo # << >>
  <2>1. d = Dist!Onward(c, TRUE) /\ TRUE \in BOOLEAN
    BY <1>2, <1>9
  <2>2. /\ d.then = c.then /\ d.todo = Tail(c.todo)
        /\ d.at \in {"apply", "persist"}
        /\ Tail(c.todo) = << >> => d.at = "persist"
        /\ Dist!KeysOf(d) \subseteq Dist!KeysOf(c)
    BY <1>4, <1>9, <2>1, OnwardKeys
  <2>3. ASSUME NEW k \in Dist!KeysOf(c), Going(k, c) PROVE Becomes(k, d)'
    <3>1. CASE c.then # << >>
      <4>1. Tail(c.todo) = << >>
        BY <1>4, <1>9, <3>1, WriteIs DEF IsWrite
      <4>2. StoreGoing(k, d)'
        <5>1. StoreOK(k)'
          BY <1>5, <1>7, <2>3 DEF SameKey
        <5> QED
          BY <2>2, <5>1 DEF StoreGoing, Aims
      <4>3. k \in declared => WriteGoing(k, c)
        BY <1>3, <1>9, <2>3, <3>1
           DEF Going, ReadGoing, LastGoing, WireGoing, Before
      <4>4. k \in declared => WriteGoing(k, d)'
        BY <1>3, <2>2, <4>1, <4>3 DEF WriteGoing, Has
      <4>5. Going(k, d)'
        BY <1>3, <4>2, <4>4 DEF Going, ReadGoing
      <4>6. k \in Dist!KeysOf(d)
        <5>1. Dist!KeysOf(c) = {c.then[1].key}
          BY <1>4, <1>9, <3>1, WriteIs DEF IsWrite
        <5>2. c.then = <<c.then[1]>>
          BY <1>4, <3>1 DEF FrameOK
        <5>3. 1 \in DOMAIN d.then /\ d.then[1] = c.then[1]
          BY <2>2, <5>2
        <5> QED
          BY <2>3, <5>1, <5>3, KeysOfIs
      <4> QED
        BY <4>5, <4>6 DEF Becomes
    <3>2. CASE c.then = << >>
      <4>1. k \in declared =>
                Reads(k) /\ Heard(watchers, heard, k, cache[k])
        BY <1>3, <1>6, <2>3, <3>2
           DEF Going, ReadGoing, WriteGoing, LastGoing, WireGoing, Aims, Before
      <4>2. Settled(k)
        BY <1>7, <2>3, <4>1 DEF Settled
      <4>3. Settled(k)'
        BY <1>4, <1>5, <2>3, <4>2, SameGoing
      <4>4. Passing(k, d)
        BY <2>2, <3>2 DEF Passing, Aims
      <4> QED
        BY <4>3, <4>4, PassesOn
    <3> QED
      BY <3>1, <3>2
  <2> QED
    BY <1>1, <1>3, <1>5, <2>2, <2>3, StepKeys
<1> QED
  BY <1>8, <1>9

LEMMA ContinueKeys ==
    ASSUME Typed, KeyInv, NEW t \in All, Dist!Continue(t), UNCHANGED values
    PROVE  KeyInv'
  BY RejectKeys, AcceptKeys, StoreParamKeys, StoredKeys, PersistKeys,
     NotifyKeys, TellKeys, ToldKeys DEF Dist!Continue

LEMMA DeclareWireKeys ==
    ASSUME Typed, KeyInv, NEW t \in All, Dist!DeclareWire(t), UNCHANGED values
    PROVE  KeyInv'
<1>1. PICK c : c = frame[t]
  OBVIOUS
<1>2. CASE c.at = "declare"
  <2>1. PICK d : d = [c EXCEPT !.at = "declaring"]
    OBVIOUS
  <2>2. /\ Dist!Goto(t, d) /\ crossed' = crossed
        /\ UNCHANGED <<declared, params, cache, watchers, heard, store>>
    BY <1>1, <1>2, <2>1, Unchangeds DEF Dist!DeclareWire
  <2>3. "declaring" \in Before /\ c.at \in Before
    BY <1>2 DEF Before
  <2> QED
    BY <1>1, <2>1, <2>2, <2>3, NearerKeys
<1>3. CASE c.at # "declare"
  <2>1. PICK d : d = [c EXCEPT !.at = "apply"]
    OBVIOUS
  <2>2. PICK j, s : j = Head(c.todo).key /\ s = Head(c.todo).is
    OBVIOUS
  <2>3. /\ c.at = "declaring" /\ declared' = declared \cup {j}
        /\ params' = Dist!With(params, j, s)
        /\ Dist!Goto(t, d) /\ crossed' = crossed
        /\ UNCHANGED <<cache, watchers, heard, store>>
    BY <1>1, <1>3, <2>1, <2>2, Unchangeds DEF Dist!DeclareWire
  <2>4. /\ FrameOK(t, c) /\ c.todo # << >> /\ c.then # << >>
        /\ \A k \in Dist!KeysOf(c) : k \in Keys
    BY <1>1, <2>3, InFrame DEF FrameOK, Before
  <2>5. /\ d.at = "apply" /\ d.then = c.then
        /\ Dist!KeysOf(d) = Dist!KeysOf(c) /\ j \in Dist!KeysOf(c)
    BY <2>1, <2>2, <2>4, Moved, KeysOfTodo
  <2>6. \A k : k # j => SameKey(k)
    BY <2>3, OtherParam
  <2>7. \A k : Going(k, d)'
    BY <2>4, <2>5, WaitsOn DEF Before
  <2>8. \A k \in Dist!KeysOf(c) : Becomes(k, d)'
    BY <2>5, <2>7 DEF Becomes
  <2>9. /\ \A k \in Keys : k \notin Dist!KeysOf(c) => SameKey(k)
        /\ Dist!KeysOf(d) \subseteq Dist!KeysOf(c)
    BY <2>5, <2>6
  <2> QED
    BY <1>1, <2>3, <2>8, <2>9, StepKeys
<1> QED
  BY <1>2, <1>3

\* A declare() or set() begins.
LEMMA WriteKeys ==
    ASSUME Typed, KeyInv, NEW t \in All, frame[t] = Dist!Idle,
           NEW k \in Keys, NEW v, NEW at \in {"declare", "apply"},
           NEW d, d = Dist!Frame(at, <<Dist!Pair(k, Shown(v))>>, 0,
                                 <<Dist!Pair(k, v)>>),
           Dist!Goto(t, d), Dist!Overlap(t, {k}, TRUE),
           UNCHANGED <<declared, params, cache, watchers, heard, values, store>>
    PROVE  KeyInv'
<1>1. PICK p, q : p = Dist!Pair(k, Shown(v)) /\ q = Dist!Pair(k, v)
  OBVIOUS
<1>2. p.key = k /\ q.key = k
  BY <1>1 DEF Dist!Pair
<1>3. d.at \in Before /\ d.then = <<q>> /\ d.todo = <<p>>
  BY <1>1 DEF Dist!Frame, Before
<1>4. Dist!KeysOf(d) \subseteq {k}
  BY <1>2, <1>3, KeysOfIs
<1>5. d.then # << >>
  BY <1>3
<1>6. \A j : Going(j, d)'
  BY <1>3, <1>5, WaitsOn
<1>7. Dist!KeysOf(d) = {k}
  <2>1. 1 \in DOMAIN d.todo /\ d.todo[1].key = k
    BY <1>2, <1>3
  <2> QED
    BY <1>4, <2>1, KeysOfIs
<1>8. \A j \in {k} : Becomes(j, d)'
  BY <1>6, <1>7 DEF Becomes
<1>9. \A j : SameKey(j)
  BY SameAll
<1>10. PICK ks : ks = {k}
  OBVIOUS
<1>11. Dist!KeysOf(d) \subseteq ks /\ \A j \in ks : Becomes(j, d)'
  BY <1>4, <1>8, <1>10
<1>12. Dist!Overlap(t, ks, TRUE) /\ TRUE \in BOOLEAN
  BY <1>10
<1> QED
  BY <1>9, <1>11, <1>12, StartKeys

\* The strings of a message, a fetch or a snapshot.
LEMMA TakeKeys ==
    ASSUME Typed, KeyInv, NEW t \in All, frame[t] = Dist!Idle,
           NEW todo, IsSeq(todo), InKeys(todo), NEW m,
           NEW d, d = Dist!Frame("apply", todo, m, << >>), Dist!Goto(t, d),
           Dist!Overlap(t, {p.key : p \in Dist!Range(todo)}, FALSE),
           UNCHANGED <<declared, params, cache, watchers, heard, values, store>>
    PROVE  KeyInv'
<1>1. PICK ks : ks = {p.key : p \in Dist!Range(todo)}
  OBVIOUS
<1>2. d.at = "apply" /\ d.todo = todo /\ d.then = << >>
  BY DEF Dist!Frame
<1>3. Dist!KeysOf(d) \subseteq ks
  BY <1>1, <1>2 DEF Dist!KeysOf, Dist!Range
<1>4. ks \subseteq Keys
  BY <1>1 DEF InKeys, Dist!Range
<1>5. \A k : SameKey(k)
  BY SameAll
<1>6. ASSUME NEW k \in ks, Settled(k) PROVE Becomes(k, d)'
  <2>1. Settled(k)'
    BY <1>4, <1>5, <1>6, SameGoing
  <2>2. Passing(k, d)
    BY <1>2 DEF Passing, Aims
  <2> QED
    BY <2>1, <2>2, PassesOn
<1>7. Dist!Overlap(t, ks, FALSE) /\ FALSE \in BOOLEAN
  BY <1>1
<1> QED
  BY <1>3, <1>5, <1>6, <1>7, StartKeys

\* What an observer that comes is told, and of a key that is declared.
LEMMA SubscribeKeys ==
    ASSUME Typed, KeyInv, NEW t \in All, NEW k \in Keys, NEW o \in Observers,
           Dist!Subscribe(t, k, o), UNCHANGED values
    PROVE  KeyInv'
<1>1. PICK v : v = Dist!getValue(k)
  OBVIOUS
<1>2. PICK d : d = IF v = None THEN Dist!Idle ELSE SubscribeFrame(k, v, o)
  OBVIOUS
<1>3. /\ frame[t] = Dist!Idle /\ Dist!Goto(t, d) /\ Dist!Overlap(t, {k}, FALSE)
      /\ watchers' = [watchers EXCEPT ![k] = Append(@, o)]
      /\ UNCHANGED <<declared, params, cache, heard, store>>
  BY <1>1, <1>2, Unchangeds, Zenon
     DEF Dist!Subscribe, Dist!Calls, SubscribeFrame, None
<1>4. /\ v = None => Dist!KeysOf(d) = {}
      /\ v # None => /\ d.at = "tell" /\ d.todo = << >> /\ d.value = v
                     /\ d.then = <<Dist!Pair(k, v)>> /\ d.tell = <<o>>
  <2>1. CASE v = None
    BY <1>2, <2>1, KeysOfIdle
  <2>2. CASE v # None
    <3>1. d = SubscribeFrame(k, v, o)
      BY <1>2, <2>2
    <3>2. PICK to, q : to = <<o>> /\ q = <<Dist!Pair(k, v)>>
      OBVIOUS
    <3>3. d = [Dist!Frame("tell", << >>, 0, q) EXCEPT !.value = v, !.tell = to]
      BY <3>1, <3>2 DEF SubscribeFrame
    <3>4. /\ d.at = "tell" /\ d.todo = << >> /\ d.value = v
          /\ d.then = q /\ d.tell = to
      BY <3>3 DEF Dist!Frame
    <3> QED
      BY <2>2, <3>2, <3>4
  <2> QED
    BY <2>1, <2>2
<1>5. Dist!KeysOf(d) \subseteq {k}
  <2>1. CASE v # None
    <3>1. PICK q : q = Dist!Pair(k, v)
      OBVIOUS
    <3>2. q.key = k /\ d.then = <<q>> /\ d.todo = << >>
      BY <1>4, <2>1, <3>1 DEF Dist!Pair
    <3> QED
      BY <3>2, KeysOfIs
  <2> QED
    BY <1>4, <2>1
<1>6. ASSUME NEW j \in Keys, j # k PROVE SameKey(j)
  <2>1. watchers'[j] = watchers[j]
    BY <1>3, <1>6 DEF Typed, MapsInv
  <2>2. SameRead(j)
    BY <1>3, <2>1 DEF SameRead
  <2>3. StoreOK(j) => StoreOK(j)'
    BY <1>3 DEF StoreOK, StoreFollows
  <2> QED
    BY <2>2, <2>3 DEF SameKey
<1>7. \A i \in DOMAIN watchers'[k] :
          \/ watchers'[k][i] = o
          \/ i \in DOMAIN watchers[k] /\ watchers'[k][i] = watchers[k][i]
  <2>1. PICK os : os = watchers[k]
    OBVIOUS
  <2>2. os \in Seq(Observers)
    BY <2>1 DEF Typed, MapsInv
  <2>3. watchers'[k] = Append(os, o)
    BY <1>3, <2>1 DEF Typed, MapsInv
  <2> DEFINE q == Append(os, o)
  <2>4. /\ DOMAIN q = 1..(Len(os) + 1) /\ DOMAIN os = 1..Len(os)
        /\ Len(os) \in Nat /\ q[Len(os) + 1] = o
        /\ \A i \in 1..Len(os) : q[i] = os[i]
    BY <2>2, AppendProperties
  <2> HIDE DEF q
  <2>5. ASSUME NEW i \in DOMAIN q
        PROVE  q[i] = o \/ (i \in DOMAIN os /\ q[i] = os[i])
    <3>1. i = Len(os) + 1 \/ i \in 1..Len(os)
      BY <2>4, <2>5
    <3>2. CASE i = Len(os) + 1
      BY <2>4, <3>2, Zenon
    <3>3. CASE i \in 1..Len(os)
      BY <2>4, <3>3, Zenon
    <3> QED
      BY <3>1, <3>2, <3>3
  <2>6. watchers'[k] = q
    BY <2>3 DEF q
  <2> QED
    BY <2>1, <2>5, <2>6
<1>8. StoreOK(k) => StoreOK(k)'
  BY <1>3 DEF StoreOK, StoreFollows
<1>9. Reads(k) => Reads(k)' /\ v = cache[k] /\ v # None
  <2>1. ASSUME Reads(k) PROVE v = cache[k] /\ cache[k] # None
    <3>1. k \in DOMAIN cache
      BY <2>1 DEF Reads
    <3>2. cache[k] # None
      BY <3>1, FitsMeans DEF Typed, MapsInv
    <3> QED
      BY <1>1, <3>1, <3>2 DEF Dist!getValue
  <2> QED
    BY <1>3, <2>1 DEF Reads
<1>10. ASSUME Settled(k) PROVE Becomes(k, d)'
  <2>1. CASE v = None
    <3>1. Settled(k)'
      BY <1>3, <1>8, <1>9, <1>10, <2>1 DEF Settled
    <3> QED
      BY <1>4, <2>1, <3>1 DEF Becomes
  <2>2. CASE v # None
    <3>1. Dist!KeysOf(d) = {k}
      <4>1. PICK q : q = Dist!Pair(k, v)
        OBVIOUS
      <4>2. q.key = k /\ d.then = <<q>>
        BY <1>4, <2>2, <4>1 DEF Dist!Pair
      <4>3. 1 \in DOMAIN d.then /\ d.then[1].key = k
        BY <4>2
      <4> QED
        BY <1>5, <4>3, KeysOfIs
    <3>2. StoreGoing(k, d)'
      BY <1>4, <1>8, <1>10, <2>2 DEF StoreGoing, Settled, Aims
    <3>3. ASSUME k \in declared PROVE LastGoing(k, d)'
      <4>1. Reads(k) /\ Heard(watchers, heard, k, cache[k])
        BY <1>10, <3>3 DEF Settled
      <4>2. d.then # << >> /\ d.value = cache[k] /\ d.at = "tell"
            /\ d.todo = << >>
        <5>1. v = cache[k]
          BY <1>9, <4>1
        <5>2. PICK q : q = Dist!Pair(k, v)
          OBVIOUS
        <5>3. /\ d.at = "tell" /\ d.todo = << >> /\ d.value = v
              /\ d.then = <<q>>
          BY <1>4, <2>2, <5>2
        <5>4. d.then # << >>
          BY <5>3
        <5> QED
          BY <5>1, <5>3, <5>4
      <4>3. 1 \in DOMAIN d.tell /\ d.tell[1] = o
        BY <1>4, <2>2
      <4>4. \A i \in DOMAIN watchers[k] :
                /\ k \in DOMAIN heard[watchers[k][i]]
                /\ heard[watchers[k][i]][k] = cache[k]
        BY <4>1 DEF Heard
      <4>5. TellOrHeard(k, d)'
        BY <1>3, <1>7, <4>2, <4>3, <4>4 DEF TellOrHeard
      <4> QED
        BY <1>9, <4>1, <4>2, <4>5 DEF LastGoing
    <3>4. ReadGoing(k, d)'
      BY <1>3, <3>3 DEF ReadGoing
    <3> QED
      BY <3>1, <3>2, <3>4 DEF Becomes, Going
  <2> QED
    BY <2>1, <2>2
<1>11. PICK ks : ks = {k}
  OBVIOUS
<1>12. /\ Dist!KeysOf(d) \subseteq ks
       /\ \A j \in ks : Settled(j) => Becomes(j, d)'
       /\ \A j \in Keys : j \notin ks => SameKey(j)
  BY <1>5, <1>6, <1>10, <1>11
<1>13. Dist!Overlap(t, ks, FALSE) /\ FALSE \in BOOLEAN
  BY <1>3, <1>11
<1> QED
  BY <1>3, <1>12, <1>13, StartKeys

LEMMA ProgramKeys ==
    ASSUME Typed, KeyInv, NEW t \in Users, Dist!Program(t), UNCHANGED values
    PROVE  KeyInv'
<1>1. t \in All
  BY UsersAreNot
<1>2. ASSUME NEW k \in Keys, Dist!Declare(t, k) PROVE KeyInv'
  <2>1. PICK v : v = Desc[k].default
    OBVIOUS
  <2>2. PICK d : d = Dist!Frame("declare", <<Dist!Pair(k, Shown(v))>>, 0,
                                <<Dist!Pair(k, v)>>)
    OBVIOUS
  <2>3. /\ frame[t] = Dist!Idle /\ Dist!Goto(t, d)
        /\ Dist!Overlap(t, {k}, TRUE)
        /\ UNCHANGED <<declared, params, cache, watchers, heard, store>>
    BY <1>2, <2>1, <2>2, Unchangeds DEF Dist!Declare, Dist!Calls, Shown
  <2>4. "declare" \in {"declare", "apply"}
    OBVIOUS
  <2> QED
    BY <1>1, <2>2, <2>3, <2>4, WriteKeys
<1>3. ASSUME NEW k \in Keys, NEW v, Dist!Set(t, k, v) PROVE KeyInv'
  <2>1. PICK d : d = Dist!Frame("apply", <<Dist!Pair(k, Shown(v))>>, 0,
                                <<Dist!Pair(k, v)>>)
    OBVIOUS
  <2>2. /\ frame[t] = Dist!Idle /\ Dist!Goto(t, d)
        /\ Dist!Overlap(t, {k}, TRUE)
        /\ UNCHANGED <<declared, params, cache, watchers, heard, store>>
    BY <1>3, <2>1, Unchangeds DEF Dist!Set, Dist!Calls, Shown
  <2>3. "apply" \in {"declare", "apply"}
    OBVIOUS
  <2> QED
    BY <1>1, <2>1, <2>2, <2>3, WriteKeys
<1>4. ASSUME NEW k \in Keys, NEW o \in Observers, Dist!Subscribe(t, k, o)
      PROVE  KeyInv'
  BY <1>1, <1>4, SubscribeKeys
<1>5. CASE Dist!DeclareWire(t)
  BY <1>1, <1>5, DeclareWireKeys
<1>6. CASE Dist!loadSnapshot(t)
  <2>1. dfile # << >>
    BY <1>6 DEF Dist!loadSnapshot
  <2>2. PICK todo \in Dist!Loaded :
            /\ Dist!Goto(t, Dist!Frame("apply", todo, 0, << >>))
            /\ Dist!Overlap(t, {p.key : p \in Dist!Range(todo)}, FALSE)
    BY <1>6 DEF Dist!loadSnapshot
  <2>3. IsSeq(todo) /\ InKeys(todo)
    BY <2>1, LoadedIs DEF Typed
  <2>4. /\ frame[t] = Dist!Idle
        /\ UNCHANGED <<declared, params, cache, watchers, heard, store>>
    BY <1>6, Unchangeds DEF Dist!loadSnapshot, Dist!Calls
  <2> QED
    BY <1>1, <2>2, <2>3, <2>4, TakeKeys
<1>7. CASE Dist!setFetchCallback(t)
  <2>1. UNCHANGED <<frame, crossed, declared, params, cache, watchers, heard,
                    store>>
    BY <1>7, Unchangeds DEF Dist!setFetchCallback
  <2>2. \A k : SameKey(k)
    BY <2>1, SameAll
  <2> QED
    BY <2>1, <2>2, RestKeys
<1> QED
  BY <1>2, <1>3, <1>4, <1>5, <1>6, <1>7 DEF Dist!Program

LEMMA FetchKeys ==
    ASSUME Typed, KeyInv, Dist!FetchTurn, UNCHANGED values
    PROVE  KeyInv'
<1>1. PICK m \in Wire :
          /\ Dist!Goto("fetch", Dist!Frame("apply", m.kvs, 0, << >>))
          /\ Dist!Overlap("fetch", {p.key : p \in Dist!Range(m.kvs)}, FALSE)
  BY DEF Dist!FetchTurn
<1>2. /\ frame["fetch"] = Dist!Idle
      /\ UNCHANGED <<declared, params, cache, watchers, heard, store>>
  BY Unchangeds DEF Dist!FetchTurn
<1>3. IsSeq(m.kvs) /\ InKeys(m.kvs)
  BY ParamsAssumption DEF MessageType, IsSeq, Elements, InKeys
<1>4. "fetch" \in All
  BY DEF All, Dist!All
<1> QED
  BY <1>1, <1>2, <1>3, <1>4, TakeKeys

LEMMA WorkerTakesKeys ==
    ASSUME Typed, KeyInv, Dist!WorkerTakes, UNCHANGED values
    PROVE  KeyInv'
<1>1. PICK m, i : i = Head(batch) /\ m = messages[i]
  OBVIOUS
<1>2. /\ frame["worker"] = Dist!Idle /\ batch # << >>
      /\ UNCHANGED <<declared, params, cache, watchers, heard, store>>
  BY Unchangeds DEF Dist!WorkerTakes
<1>3. CASE m.kind \in {"set", "bulk"}
  <2>1. /\ Dist!Goto("worker", Dist!Frame("apply", m.kvs, i, << >>))
        /\ Dist!Overlap("worker", {p.key : p \in Dist!Range(m.kvs)}, FALSE)
    BY <1>1, <1>3 DEF Dist!WorkerTakes
  <2>2. MessageType(m)
    BY <1>1, <1>2, BatchHead DEF MessageOK
  <2>3. IsSeq(m.kvs) /\ InKeys(m.kvs)
    BY <2>2 DEF MessageType, IsSeq, Elements, InKeys
  <2>4. "worker" \in All
    BY DEF All, Dist!All
  <2> QED
    BY <1>2, <2>1, <2>3, <2>4, TakeKeys
<1>4. CASE m.kind \notin {"set", "bulk"}
  <2>1. UNCHANGED <<frame, crossed>>
    BY <1>1, <1>4 DEF Dist!WorkerTakes
  <2>2. \A k : SameKey(k)
    BY <1>2, SameAll
  <2> QED
    BY <2>1, <2>2, RestKeys
<1> QED
  BY <1>3, <1>4

\* Steps that have nothing to do with any key.
LEMMA QuietKeys ==
    ASSUME Typed, KeyInv, UNCHANGED values,
           \/ Dist!Swap \/ Dist!WorkerBreaks \/ Dist!StopFlag \/ Dist!StopJoin
           \/ \E m \in Wire : Dist!Arrive(m)
    PROVE  KeyInv'
<1>1. UNCHANGED <<frame, crossed, declared, params, cache, watchers, heard,
                  store>>
  BY Unchangeds DEF Dist!Swap, Dist!WorkerBreaks, Dist!StopFlag,
     Dist!StopJoin, Dist!Arrive
<1>2. \A k : SameKey(k)
  BY <1>1, SameAll
<1> QED
  BY <1>1, <1>2, RestKeys

LEMMA DistKeys ==
    ASSUME Typed, KeyInv, Dist!Next, UNCHANGED values
    PROVE  KeyInv'
<1>1. ASSUME NEW t \in All, Dist!Continue(t) PROVE KeyInv'
  BY <1>1, ContinueKeys
<1>2. ASSUME NEW t \in Users, Dist!Program(t) \/ Dist!Continue(t)
      PROVE  KeyInv'
  BY <1>1, <1>2, ProgramKeys, UsersAreNot
<1>3. ASSUME Dist!Worker PROVE KeyInv'
  BY <1>1, <1>3, QuietKeys, WorkerTakesKeys DEF Dist!Worker, All, Dist!All
<1>4. ASSUME Dist!Continue("fetch") PROVE KeyInv'
  BY <1>1, <1>4 DEF All, Dist!All
<1> QED
  BY <1>2, <1>3, <1>4, FetchKeys, QuietKeys DEF Dist!Next

\* The public server writes what it has to ParamStore.
LEMMA PutStores ==
    ASSUME NEW t, NEW k, NEW v, Public!Put(t, k, v),
           UNCHANGED <<declared, params>>, NEW j, StoreOK(j)
    PROVE  StoreOK(j)'
<1>1. /\ DOMAIN values' = DOMAIN values \cup {k} /\ values'[k] = v
      /\ \A i \in DOMAIN values : i # k => values'[i] = values[i]
      /\ DOMAIN store' = DOMAIN store \cup {k} /\ store'[k] = Shown(v)
      /\ \A i \in DOMAIN store : i # k => store'[i] = store[i]
  <2>1. /\ values' = Public!With(values, k, v)
        /\ store' = Public!With(store, k, Shown(v))
    BY SamePublic DEF Public!Put
  <2> QED
    BY <2>1 DEF Public!With
<1>2. CASE j = k
  BY <1>1, <1>2 DEF StoreOK, StoreFollows, Shown
<1>3. CASE j # k
  BY <1>1, <1>3 DEF StoreOK, StoreFollows
<1> QED
  BY <1>2, <1>3

LEMMA LoadStores ==
    ASSUME AllTyped, NEW t, Public!LoadApply(t),
           UNCHANGED <<declared, params>>, NEW j, StoreOK(j)
    PROVE  StoreOK(j)'
<1>1. PICK read : read = Taken(call[t].kvs)
  OBVIOUS
<1>2. DOMAIN read \subseteq DOMAIN values
  BY <1>1, TakenIs
<1>3. /\ DOMAIN values' = DOMAIN values /\ DOMAIN store' = DOMAIN store
      /\ \A k \in DOMAIN values :
            values'[k] = IF k \in DOMAIN read THEN read[k] ELSE values[k]
      /\ \A k \in DOMAIN store :
            store'[k] = IF k \in DOMAIN read THEN Shown(read[k]) ELSE store[k]
  <2>1. Takes(t, read)
    BY <1>1, LoadApplyIs
  <2>2. /\ values' = [k \in DOMAIN values |->
                         IF k \in DOMAIN read THEN read[k] ELSE values[k]]
        /\ store' = [k \in DOMAIN store |->
                        IF k \in DOMAIN read THEN Shown(read[k]) ELSE store[k]]
    BY <2>1, SamePublic DEF Takes
  <2> QED
    BY <2>2
<1>4. CASE j \in DOMAIN read
  <2>1. j \in DOMAIN values /\ j \in DOMAIN store
    BY <1>2, <1>4 DEF AllTyped, Typed, MapsInv
  <2>2. store'[j] = Shown(values'[j])
    BY <1>3, <1>4, <2>1
  <2> QED
    BY <1>3, <2>1, <2>2 DEF StoreOK, StoreFollows, Shown
<1>5. CASE j \notin DOMAIN read
  BY <1>3, <1>5 DEF StoreOK, StoreFollows
<1> QED
  BY <1>4, <1>5

LEMMA PublicKeys ==
    ASSUME AllTyped, KeyInv, Public!Next, UNCHANGED distVars
    PROVE  KeyInv'
<1>1. UNCHANGED <<frame, crossed, declared, params, cache, watchers, heard>>
  BY DEF distVars
<1>2. ASSUME NEW k, StoreOK(k) PROVE StoreOK(k)'
  <2>1. PICK t \in Threads :
            \/ \E j \in Keys : \/ Public!Declare(t, j)
                               \/ \E v \in Inputs : Public!Set(t, j, v)
                               \/ \E o \in Observers : Public!Subscribe(t, j, o)
            \/ Public!Tell(t) \/ Public!TellNext(t)
            \/ Public!LoadRead(t) \/ Public!LoadApply(t)
            \/ Public!SaveCopy(t) \/ Public!SaveWrite(t)
    BY DEF Public!Next
  <2>2. ASSUME NEW j, Public!Declare(t, j) PROVE StoreOK(k)'
    BY <1>1, <1>2, <2>2, PutStores DEF Public!Declare
  <2>3. ASSUME NEW j, NEW v, Public!Set(t, j, v) PROVE StoreOK(k)'
    BY <1>1, <1>2, <2>3, PutStores DEF Public!Set
  <2>4. CASE Public!LoadApply(t)
    BY <1>1, <1>2, <2>4, LoadStores
  <2>5. ASSUME UNCHANGED <<values, store>> PROVE StoreOK(k)'
    BY <1>1, <1>2, <2>5 DEF StoreOK, StoreFollows
  <2>6. ASSUME NEW j, NEW o, Public!Subscribe(t, j, o) PROVE StoreOK(k)'
    BY <2>5, <2>6 DEF Public!Subscribe
  <2>7. ASSUME \/ Public!Tell(t) \/ Public!TellNext(t) \/ Public!LoadRead(t)
               \/ Public!SaveCopy(t) \/ Public!SaveWrite(t)
        PROVE  StoreOK(k)'
    BY <2>5, <2>7 DEF Public!Tell, Public!TellNext, Public!LoadRead,
       Public!SaveCopy, Public!SaveWrite
  <2> QED
    BY <2>1, <2>2, <2>3, <2>4, <2>6, <2>7
<1>3. \A k \in Keys : SameKey(k)
  BY <1>1, <1>2 DEF SameKey, SameRead
<1> QED
  BY <1>1, <1>3, RestKeys DEF AllTyped

LEMMA NextKeys == AllTyped /\ KeyInv /\ [Next]_vars => KeyInv'
<1> SUFFICES ASSUME AllTyped, KeyInv, [Next]_vars PROVE KeyInv'
  OBVIOUS
<1>1. CASE Dist!Next /\ UNCHANGED publicVars
  BY <1>1, DistKeys DEF publicVars, AllTyped
<1>2. CASE Public!Next /\ UNCHANGED distVars
  BY <1>2, PublicKeys
<1>3. CASE UNCHANGED vars
  <2>1. UNCHANGED <<frame, crossed, declared, params, cache, watchers, heard,
                    values, store>>
    BY <1>3 DEF vars, publicVars, distVars
  <2>2. \A k : SameKey(k)
    BY <2>1, SameAll
  <2> QED
    BY <2>1, <2>2, RestKeys DEF AllTyped
<1> QED
  BY <1>1, <1>2, <1>3 DEF Next

LEMMA InitKeys == Init => KeyInv
<1> SUFFICES ASSUME Init PROVE KeyInv
  OBVIOUS
<1>1. \A t \in All : frame[t] = Dist!Idle /\ Dist!KeysOf(frame[t]) = {}
  BY KeysOfIdle DEF Init, Dist!Init, All, Dist!All
<1>2. declared = {} /\ DOMAIN values = {}
  BY DEF Init, Dist!Init, Public!Init
<1>3. \A k : Settled(k)
  BY <1>2 DEF Settled, StoreOK
<1> QED
  BY <1>1, <1>3 DEF KeyInv, Apart, KeyOK

LEMMA KeysSettle == AllTyped /\ KeyInv => DistributedSettles
<1> SUFFICES ASSUME AllTyped, KeyInv, NEW k \in declared, Quiet(k),
                    ~Desc[k].read_only
             PROVE  LET read == Dist!parseFromString(params[k], Desc[k].type)
                    IN  /\ \/ params[k] = Dist!toString(cache[k])
                           \/ read \in {cache[k], Dist!NoValue}
                        /\ StoreFollows(k)
                        /\ Heard(watchers, heard, k, cache[k])
  BY DEF DistributedSettles
<1>1. Settled(k)
  BY DEF AllTyped, Typed, MapsInv, KeyInv, KeyOK, Quiet, Writable, All
<1> QED
  BY <1>1 DEF Settled, StoreOK, Reads, Shown, Read, None

LEMMA PublicKeysSettle == AllTyped /\ KeyInv /\ ToldInv => PublicSettles
<1> SUFFICES ASSUME AllTyped, KeyInv, ToldInv, NEW k \in DOMAIN values
             PROVE  /\ (~undefined /\ Quiet(k) /\ ~Desc[k].read_only)
                          => StoreFollows(k)
                    /\ (k \notin raced
                          /\ \A t \in Threads :
                                k \notin Public!Pending(call[t]))
                       => Heard(observers, told, k, values[k])
  BY DEF PublicSettles
<1>1. ASSUME Quiet(k), ~Desc[k].read_only PROVE StoreFollows(k)
  <2>1. Settled(k)
    BY <1>1 DEF AllTyped, Typed, MapsInv, KeyInv, KeyOK, Quiet, Writable, All
  <2> QED
    BY <2>1 DEF Settled, StoreOK
<1>2. k \notin raced => ToldKey(k, call, values, observers, told)
  BY DEF ToldInv
<1> QED
  BY <1>1, <1>2 DEF ToldKey

-----------------------------------------------------------------------------
(* Types and limits that no other proof needs. *)

LimitsInv ==
    /\ crossed \subseteq Keys
    /\ running \in BOOLEAN /\ fetching \in BOOLEAN /\ closed \in BOOLEAN
    /\ undefined \in BOOLEAN
    /\ Len(set_queue) <= MaxQueue /\ Len(export_queue) <= MaxQueue

LEMMA OverlapLimits ==
    ASSUME Typed, crossed \subseteq Keys, NEW t, NEW ks, NEW settles,
           Dist!Overlap(t, ks, settles)
    PROVE  crossed' \subseteq Keys
<1>1. \A u \in Dist!All : Dist!KeysOf(frame[u]) \subseteq Keys
  BY KeysAreKeys DEF Typed, FrameInv, All
<1> QED
  BY <1>1 DEF Dist!Overlap

LEMMA RacesIs == \A t, ks, insert : Dist!Races(t, ks, insert) \in BOOLEAN
  BY DEF Dist!Races

LEMMA PushedLimits ==
    ASSUME MessagesInv, NEW q, q \in Seq(DOMAIN messages), Len(q) <= MaxQueue,
           NEW n
    PROVE  Len(Dist!Pushed(q, n)) <= MaxQueue
<1> DEFINE S == DOMAIN messages \cup {n}
<1>1. q \in Seq(S) /\ n \in S
  <2>1. \A i \in 1..Len(q) : q[i] \in S
    OBVIOUS
  <2> QED
    BY <2>1, Retyped
<1> HIDE DEF S
<1>2. Len(q) \in Nat /\ MaxQueue \in Nat \ {0}
  BY <1>1, LenProperties, ParamsAssumption
<1>3. CASE Len(q) < MaxQueue
  <2>1. Len(Append(q, n)) = Len(q) + 1
    BY <1>1, AppendProperties
  <2> QED
    BY <1>2, <1>3, <2>1 DEF Dist!Pushed
<1>4. CASE ~(Len(q) < MaxQueue)
  <2>1. q # << >>
    BY <1>2, <1>4
  <2>2. Tail(q) \in Seq(S) /\ Len(Tail(q)) = Len(q) - 1
    BY <1>1, <2>1, HeadTailProperties
  <2>3. Len(Append(Tail(q), n)) = Len(Tail(q)) + 1
    BY <1>1, <2>2, AppendProperties
  <2> QED
    BY <1>2, <1>4, <2>2, <2>3 DEF Dist!Pushed
<1> QED
  BY <1>3, <1>4

LEMMA ContinueLimits ==
    ASSUME LimitsInv, NEW t, Dist!Continue(t)
    PROVE  LimitsInv'
<1>1. /\ crossed' = crossed /\ UNCHANGED <<running, fetching, closed>>
      /\ UNCHANGED <<set_queue, export_queue>>
  BY Unchangeds DEF Dist!Continue, Dist!Reject, Dist!Accept, Dist!StoreParam,
     Dist!SetStore, Dist!Persist, Dist!Notify, Dist!Tell, Dist!Told
<1>2. undefined' \in BOOLEAN
  <2>1. CASE Dist!Accept(t)
    BY <2>1, RacesIs DEF Dist!Accept, Dist!Access
  <2>2. CASE Dist!Persist(t)
    BY <2>2, RacesIs DEF Dist!Persist, LimitsInv
  <2>3. CASE undefined' = undefined
    BY <2>3 DEF LimitsInv
  <2> QED
    BY <2>1, <2>2, <2>3 DEF Dist!Continue, Dist!Reject, Dist!StoreParam,
       Dist!SetStore, Dist!Notify, Dist!Tell, Dist!Told
<1> QED
  BY <1>1, <1>2 DEF LimitsInv

LEMMA ProgramLimits ==
    ASSUME Typed, LimitsInv, NEW t, Dist!Program(t)
    PROVE  LimitsInv'
<1>1. ASSUME crossed' \subseteq Keys, undefined' \in BOOLEAN,
             fetching' \in BOOLEAN,
             UNCHANGED <<running, closed, set_queue, export_queue>>
      PROVE  LimitsInv'
  BY <1>1 DEF LimitsInv
<1>2. ASSUME NEW k \in Keys, Dist!Declare(t, k) PROVE LimitsInv'
  <2>1. crossed' \subseteq Keys
    BY <1>2, OverlapLimits DEF Dist!Declare, LimitsInv
  <2> QED
    BY <1>1, <1>2, <2>1, Unchangeds DEF Dist!Declare, LimitsInv
<1>3. ASSUME NEW k \in Keys, NEW v, Dist!Set(t, k, v) PROVE LimitsInv'
  <2>1. crossed' \subseteq Keys
    BY <1>3, OverlapLimits DEF Dist!Set, LimitsInv
  <2> QED
    BY <1>1, <1>3, <2>1, Unchangeds DEF Dist!Set, LimitsInv
<1>4. ASSUME NEW k \in Keys, NEW o, Dist!Subscribe(t, k, o) PROVE LimitsInv'
  <2>1. crossed' \subseteq Keys
    BY <1>4, OverlapLimits DEF Dist!Subscribe, LimitsInv
  <2> QED
    BY <1>1, <1>4, <2>1, Unchangeds DEF Dist!Subscribe, LimitsInv
<1>5. CASE Dist!DeclareWire(t)
  <2>1. undefined' \in BOOLEAN
    BY <1>5, RacesIs DEF Dist!DeclareWire, Dist!Access, LimitsInv
  <2> QED
    BY <1>1, <1>5, <2>1, Unchangeds DEF Dist!DeclareWire, LimitsInv
<1>6. CASE Dist!loadSnapshot(t)
  <2>1. crossed' \subseteq Keys
    BY <1>6, OverlapLimits DEF Dist!loadSnapshot, LimitsInv
  <2> QED
    BY <1>1, <1>6, <2>1, Unchangeds DEF Dist!loadSnapshot, LimitsInv
<1>7. CASE Dist!setFetchCallback(t)
  BY <1>1, <1>7, Unchangeds DEF Dist!setFetchCallback, LimitsInv
<1> QED
  BY <1>2, <1>3, <1>4, <1>5, <1>6, <1>7 DEF Dist!Program

LEMMA TopicLimits ==
    ASSUME Typed, LimitsInv,
           \/ \E m \in Wire : Dist!Arrive(m)
           \/ Dist!Swap \/ Dist!WorkerTakes \/ Dist!WorkerBreaks
           \/ Dist!FetchTurn \/ Dist!StopFlag \/ Dist!StopJoin
    PROVE  LimitsInv'
<1>1. Len(<< >>) <= MaxQueue
  BY ParamsAssumption
<1>2. ASSUME NEW m \in Wire, Dist!Arrive(m) PROVE LimitsInv'
  <2>1. \A n : /\ Len(Dist!Pushed(set_queue, n)) <= MaxQueue
               /\ Len(Dist!Pushed(export_queue, n)) <= MaxQueue
    BY PushedLimits DEF Typed, MessagesInv, LimitsInv
  <2>2. PICK n : n = Len(messages) + 1
    OBVIOUS
  <2>3. /\ set_queue' \in {set_queue, Dist!Pushed(set_queue, n)}
        /\ export_queue' \in {export_queue, Dist!Pushed(export_queue, n)}
        /\ UNCHANGED <<crossed, undefined, running, fetching, closed>>
    BY <1>2, <2>2, Unchangeds DEF Dist!Arrive
  <2> QED
    BY <2>1, <2>3 DEF LimitsInv
<1>3. CASE Dist!Swap
  BY <1>1, <1>3, Unchangeds DEF Dist!Swap, LimitsInv
<1>4. CASE Dist!WorkerTakes
  <2>1. crossed' \subseteq Keys
    BY <1>4, OverlapLimits DEF Dist!WorkerTakes, LimitsInv
  <2>2. undefined' \in BOOLEAN
    BY <1>4 DEF Dist!WorkerTakes, LimitsInv
  <2> QED
    BY <1>4, <2>1, <2>2, Unchangeds DEF Dist!WorkerTakes, LimitsInv
<1>5. CASE Dist!WorkerBreaks
  BY <1>5, Unchangeds DEF Dist!WorkerBreaks, LimitsInv
<1>6. CASE Dist!FetchTurn
  <2>1. crossed' \subseteq Keys
    BY <1>6, OverlapLimits DEF Dist!FetchTurn, LimitsInv
  <2> QED
    BY <1>6, <2>1, Unchangeds DEF Dist!FetchTurn, LimitsInv
<1>7. CASE Dist!StopFlag
  BY <1>7, Unchangeds DEF Dist!StopFlag, LimitsInv
<1>8. CASE Dist!StopJoin
  BY <1>1, <1>8, Unchangeds DEF Dist!StopJoin, LimitsInv
<1> QED
  BY <1>2, <1>3, <1>4, <1>5, <1>6, <1>7, <1>8

LEMMA NextLimits == AllTyped /\ LimitsInv /\ [Next]_vars => LimitsInv'
<1> SUFFICES ASSUME AllTyped, LimitsInv, [Next]_vars PROVE LimitsInv'
  OBVIOUS
<1>1. ASSUME UNCHANGED distVars PROVE LimitsInv'
  BY <1>1 DEF distVars, LimitsInv
<1>2. CASE Dist!Next
  BY <1>2, ContinueLimits, ProgramLimits, TopicLimits
     DEF Dist!Next, Dist!Worker, AllTyped
<1> QED
  BY <1>1, <1>2 DEF Next, vars

LEMMA InitLimits == Init => LimitsInv
<1>1. Len(<< >>) <= MaxQueue
  BY ParamsAssumption
<1>2. Init => set_queue = << >> /\ export_queue = << >>
  BY DEF Init, Dist!Init
<1>3. Init => /\ crossed = {} /\ running = TRUE /\ fetching = FALSE
              /\ closed = FALSE /\ undefined = FALSE
  BY DEF Init, Dist!Init
<1> QED
  BY <1>1, <1>2, <1>3 DEF LimitsInv

LEMMA TypesHold == AllTyped /\ LimitsInv => TypeOK
<1> SUFFICES ASSUME AllTyped, LimitsInv PROVE TypeOK
  OBVIOUS
<1>1. /\ \A k \in DOMAIN values : values[k].type = Desc[k].type
      /\ \A k \in DOMAIN cache : cache[k].type = Desc[k].type
  BY FitsMeans DEF AllTyped, Typed, MapsInv
<1>2. /\ DOMAIN values \subseteq Keys /\ types \subseteq Keys
      /\ declared \subseteq Keys
  BY DEF AllTyped, Typed, MapsInv
<1>3. /\ DOMAIN file \subseteq Keys /\ raced \subseteq Keys
      /\ \A k \in Keys : observers[k] \in Seq(Observers)
  BY DEF AllTyped, PublicTyped
<1> QED
  BY <1>1, <1>2, <1>3 DEF TypeOK, LimitsInv

-----------------------------------------------------------------------------
(* The theorems. *)

ParamsInv == AllTyped /\ LimitsInv /\ ToldInv /\ AnsweredInv /\ KeyInv

\* The invariants hold together in every state of every behaviour, however the
\* threads of the two servers interleave.
THEOREM ParamsInvariant == Spec => []ParamsInv
<1>1. Init => ParamsInv
  BY InitTyped, InitLimits, InitTold, InitAnswered, InitKeys DEF ParamsInv
<1>2. ParamsInv /\ [Next]_vars => ParamsInv'
  BY NextTyped, NextLimits, NextTold, NextAnswered, NextKeys DEF ParamsInv
<1> QED
  BY <1>1, <1>2, PTL DEF Spec

\* Every variable has its type, and no queue is longer than MaxQueue.
THEOREM ParamsTypes == Spec => []TypeOK
<1>1. ParamsInv => TypeOK
  BY TypesHold DEF ParamsInv
<1> QED
  BY <1>1, ParamsInvariant, PTL

\* A message that left the queues of the wire server was answered, and once.
THEOREM MessagesAnsweredOnce == Spec => []AnsweredOnce
<1>1. ParamsInv => AnsweredOnce
  BY AnswersOnce DEF ParamsInv
<1> QED
  BY <1>1, ParamsInvariant, PTL

\* When the calls of a key did not overlap, its typed value, its string, what
\* ParamStore has and what the observers were told last agree.
THEOREM DistributedServerSettles == Spec => []DistributedSettles
<1>1. ParamsInv => DistributedSettles
  BY KeysSettle DEF ParamsInv
<1> QED
  BY <1>1, ParamsInvariant, PTL

\* The same of the public server.
THEOREM PublicServerSettles == Spec => []PublicSettles
<1>1. ParamsInv => PublicSettles
  BY PublicKeysSettle DEF ParamsInv
<1> QED
  BY <1>1, ParamsInvariant, PTL
=============================================================================
